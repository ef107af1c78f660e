------------------------------- MODULE MCFork -------------------------------
(***************************************************************************)
(* One long schedule of four replicas, the leaders in turn: which message  *)
(* arrives, which view timer fires and which leader proposes, in order.    *)
(* Every step is a step of Pacemaker; the steps inside a turn of a loop    *)
(* are taken as they come.  r4 is cut off at first.                        *)
(***************************************************************************)
EXTENDS MCPacemaker

VARIABLE at   \* the next event of the schedule

Deliver(type, from, to, n) ==
  <<[kind |-> "deliver", type |-> type, from |-> from, to |-> to, n |-> n]>>

NewViews(from, to, v) == Deliver("NewView", from, to, v)

Proposes(r) == <<[kind |-> "propose", r |-> r], [kind |-> "tick", r |-> r]>>

Timeout(r) == <<[kind |-> "timeout", r |-> r]>>

\* Proposal n of leader l reaches r, and the vote of r reaches l.
Votes(l, r, n) == Deliver("NewProposal", l, r, n) \o Deliver("AcceptProposal", r, l, n)

\* The branch request that r sends in view v to leader l, and its answer.
Syncs(r, l, v) == Deliver("BranchSyncRequest", r, l, v) \o Deliver("BranchSyncResponse", l, r, v)

\* Proposals 1, 2 and 3, all but the certificate of 3; r4 misses them.
Begin ==
  NewViews(r1, r1, 1) \o NewViews(r2, r1, 1) \o NewViews(r3, r1, 1) \o Proposes(r1)
    \o Votes(r1, r2, 1) \o Votes(r1, r3, 1)
    \o NewViews(r1, r2, 2) \o NewViews(r2, r2, 2) \o NewViews(r3, r2, 2) \o Proposes(r2)
    \o Votes(r2, r1, 2)
    \o Deliver("NewProposal", r2, r3, 2) \o Syncs(r3, r2, 2)
    \o Deliver("AcceptProposal", r3, r2, 2)
    \o NewViews(r1, r3, 3) \o NewViews(r2, r3, 3) \o NewViews(r3, r3, 3) \o Proposes(r3)
    \o Votes(r3, r2, 3)

\* r4 proposes 4 on the first node, and r1 votes for it.  A NewView message with
\* the certificate of 2 then takes r1's vheight back, so that r1 votes for 3.
Branch ==
  Timeout(r4) \o Timeout(r4) \o Timeout(r4) \o Timeout(r1)
    \o NewViews(r4, r4, 4) \o NewViews(r2, r4, 4) \o NewViews(r1, r4, 4) \o Proposes(r4)
    \o Votes(r4, r1, 4)
    \o Timeout(r2) \o NewViews(r2, r1, 5)
    \o Votes(r3, r1, 3)
    \o Votes(r4, r3, 4)

\* Proposal 5 carries the certificate of 3: r2 commits proposal 1.
CommitOne ==
  NewViews(r1, r1, 5) \o NewViews(r3, r1, 5) \o Proposes(r1)
    \o Deliver("NewProposal", r1, r2, 5) \o Syncs(r2, r1, 5)

\* Proposals 8, 9 and 11 extend 4: r4 commits it.
CommitOther ==
  Timeout(r4) \o Timeout(r4) \o Timeout(r4)
    \o Timeout(r1) \o Timeout(r1) \o Timeout(r1)
    \o Timeout(r3) \o Timeout(r3) \o Timeout(r3)
    \o NewViews(r1, r4, 8) \o NewViews(r3, r4, 8) \o NewViews(r4, r4, 8) \o Proposes(r4)
    \o Votes(r4, r1, 8)
    \o Deliver("NewProposal", r4, r3, 8) \o Syncs(r3, r4, 8)
    \o Deliver("AcceptProposal", r3, r4, 8)
    \o NewViews(r1, r1, 9) \o NewViews(r3, r1, 9) \o NewViews(r4, r1, 9) \o Proposes(r1)
    \o Votes(r1, r4, 9)
    \o Deliver("NewProposal", r1, r3, 9) \o Syncs(r3, r1, 9)
    \o Deliver("AcceptProposal", r3, r1, 9)
    \o Timeout(r1) \o Timeout(r3) \o Timeout(r4)
    \o NewViews(r1, r3, 11) \o NewViews(r3, r3, 11) \o NewViews(r4, r3, 11) \o Proposes(r3)
    \o Deliver("NewProposal", r3, r4, 11) \o Syncs(r4, r3, 11)

Schedule == Begin \o Branch \o CommitOne \o CommitOther

Number(msg) ==
  IF msg.type \in {"NewProposal", "AcceptProposal"} THEN msg.prop.height ELSE msg.view

Happens(e) ==
  \/ e.kind = "propose" /\ Propose(e.r)
  \/ e.kind = "tick" /\ Tick(e.r)
  \/ e.kind = "timeout" /\ LocalTimeout(e.r)
  \/ /\ e.kind = "deliver"
     /\ \E msg \in net : /\ <<msg.type, msg.from, msg.to>> = <<e.type, e.from, e.to>>
                         /\ Number(msg) = e.n
                         /\ Recv(msg)

Scheduled ==
  \/ Quiet /\ at <= Len(Schedule) /\ Happens(Schedule[at]) /\ at' = at + 1
  \/ ~Quiet /\ Next /\ at' = at

ForkSpec == Init /\ at = 1 /\ [][Scheduled]_<<vars, at>>

\* What HotStuff promises and update_nodes ("See Algorithm 5 in the paper") is to
\* keep: of the last proposals that two replicas have committed, one extends
\* the other.
Agreement ==
  \A r, s \in Replica :
    LET a == HashOf(machine[r].last_commit)
        b == HashOf(machine[s].last_commit)
    IN  Len(a) <= Len(b) => SubSeq(b, 1, Len(a)) = a
=============================================================================
