----------------------------- MODULE Pacemaker ------------------------------
(***************************************************************************)
(* The replicas running: each one a pacemaker (event_loop_with_functions)  *)
(* that drives its state machine, connected by the network.                *)
(*                                                                         *)
(* One turn of the loop proposes if it can, waits for one event, handles   *)
(* it, and then drains the queue of Ready values.  Handling and draining   *)
(* touch no other replica and only add messages to the network, so the     *)
(* turn is taken as a whole: no other replica starts a step while one is   *)
(* in the middle of a turn (Quiet).                                        *)
(*                                                                         *)
(* The network delivers a message at most once, in any order, after any    *)
(* delay, or never.  Timeout messages are left out: their handler only     *)
(* queues the certificate for the flusher (tc_map stays empty, so          *)
(* append_tc returns a view below the replica's own).                      *)
(***************************************************************************)
EXTENDS Machine

CONSTANT TimerFires   \* bound: the <<replica, view>> pairs whose view timer may fire

ASSUME TimerAssumption == TimerFires \subseteq Replica \X (1 .. MaxView)

VARIABLES
  machine,        \* state of the safety machine and its storage
  view,           \* view of the pacemaker
  new_view_set,   \* NewView messages received: pairs of view and sender
  pending_prop,   \* the heap of proposals that wait for their justify node
  sync_state,     \* branch synchronizer: "IDLE" or "SYNCHRONIZING"
  branch,         \* rest of the branch that on_branch_sync is going through
  ready_queue,    \* Ready values the loop has still to process
  phase,          \* where in its turn the loop is
  net,            \* messages in flight
  proposed,       \* history: every proposal made, with its proposer
  signed          \* history: the hashes of the proposals a replica has signed

pmVars == <<machine, view, new_view_set, pending_prop, sync_state, branch,
            ready_queue, phase>>
vars == <<pmVars, net, proposed, signed>>

\* A proposal with the replica it comes from.
Origin == [from : Replica, prop : TreeNode]

Phase == {"top",      \* at the top of the loop
          "select",   \* has proposed, waits for an event
          "sync",     \* in the loop of on_branch_sync
          "drain"}    \* draining ready_queue

Message ==
  [type : {"NewProposal"}, from : Replica, to : Replica, prop : TreeNode]
    \cup [type : {"AcceptProposal"}, from : Replica, to : Replica,
          prop : TreeNode, sign : Hash]
    \cup [type : {"NewView"}, from : Replica, to : Replica,
          view : 1 .. LastView, qc_high : QC]
    \cup [type : {"BranchSyncRequest"}, from : Replica, to : Replica,
          view : Nat, grow_from : Nat]
    \cup [type : {"BranchSyncResponse"}, from : Replica, to : Replica,
          view : Nat, branch : SUBSET TreeNode]

\* Mutant: announces a view to the leader of the view before.
NewViewToLastLeader(r, v, qc) ==
  [type |-> "NewView", from |-> r, to |-> GetLeader(IF v > 1 THEN v - 1 ELSE v),
   view |-> v, qc_high |-> qc]

NewView(r, v, qc) == [type |-> "NewView", from |-> r, to |-> GetLeader(v),
                      view |-> v, qc_high |-> qc]

\* Every replica has just called goto_new_view(1).
Init ==
  /\ machine = [r \in Replica |-> IncreaseView(InitMachine, 1)]
  /\ view = [r \in Replica |-> 1]
  /\ new_view_set = [r \in Replica |-> {}]
  /\ pending_prop = [r \in Replica |-> {}]
  /\ sync_state = [r \in Replica |-> "IDLE"]
  /\ branch = [r \in Replica |-> {}]
  /\ ready_queue = [r \in Replica |-> << >>]
  /\ phase = [r \in Replica |-> "top"]
  /\ net = {NewView(r, 1, INIT_QC) : r \in Replica}
  /\ proposed = {}
  /\ signed = [r \in Replica |-> {}]

-----------------------------------------------------------------------------
Quiet == \A r \in Replica : phase[r] \in {"top", "select"}

\* What remains of the turn of replica r once its ready queue is q.
Continue(r, q) ==
  /\ ready_queue' = [ready_queue EXCEPT ![r] = q]
  /\ phase' = [phase EXCEPT ![r] = IF q = << >> THEN "top" ELSE "drain"]

Enqueue(q, ready) == IF ready = Nil THEN q ELSE Append(q, ready)

\* Mutant: nothing is cleaned.
CleanNewViewSetKeeps(set, v) == set

CleanNewViewSet(set, v) == {nv \in set : nv[1] >= v}

\* The heap's next element is any of those with the lowest justify view.
LowestJustify(pending) ==
  {sw \in pending : \A o \in pending : sw.prop.justify.view <= o.prop.justify.view}

\* The steps of check_pending_prop.  m, v, sy, q and msgs are the machine, view,
\* sync state, ready queue and network so far.
NothingPending(r, m, sy, q, msgs) ==
  /\ machine' = [machine EXCEPT ![r] = m]
  /\ pending_prop' = [pending_prop EXCEPT ![r] = {}]
  /\ sync_state' = [sync_state EXCEPT ![r] = sy]
  /\ net' = msgs
  /\ signed' = signed
  /\ Continue(r, q)

EmitPending(r, m, pending, sw, sy, q, msgs) ==
  LET res == OnRecvProposal(m, sw.from, sw.prop)
  IN  /\ machine' = [machine EXCEPT ![r] = res.m]
      /\ pending_prop' = [pending_prop EXCEPT ![r] = pending \ {sw}]
      /\ sync_state' = [sync_state EXCEPT ![r] = sy]
      /\ net' = msgs
      /\ signed' = IF res.ready = Nil THEN signed
                   ELSE [signed EXCEPT ![r] = @ \cup {Sign(sw.prop)}]
      /\ Continue(r, Enqueue(q, res.ready))

\* Keep the proposal and ask the leader for the branch, once.
RequestBranch(r, m, v, pending, sy, leafHeight, q, msgs) ==
  /\ machine' = [machine EXCEPT ![r] = m]
  /\ pending_prop' = [pending_prop EXCEPT ![r] = pending]
  /\ sync_state' = [sync_state EXCEPT ![r] = "SYNCHRONIZING"]
  /\ net' = IF sy = "SYNCHRONIZING" THEN msgs
            ELSE msgs \cup {[type |-> "BranchSyncRequest", from |-> r,
                             to |-> GetLeader(v), view |-> v,
                             grow_from |-> leafHeight]}
  /\ signed' = signed
  /\ Continue(r, q)

CheckPendingProp(r, m, v, pending, sy, leafHeight, q, msgs) ==
  \/ pending = {} /\ NothingPending(r, m, sy, q, msgs)
  \/ \E sw \in LowestJustify(pending) :
       \/ /\ sw.prop.justify.view <= leafHeight
          /\ EmitPending(r, m, pending, sw, sy, q, msgs)
       \/ /\ sw.prop.justify.view > leafHeight
          /\ RequestBranch(r, m, v, pending, sy, leafHeight, q, msgs)

\* Leave view tv for the next one, unless the replica is already past it.
ProcessLocalTimeout(r, tv, q, msgs) ==
  IF tv >= view[r] /\ tv < LastView
  THEN LET m == IncreaseView(machine[r], tv + 1)
           sent == msgs \cup {NewView(r, tv + 1, m.qc_high)}
       IN  /\ view' = [view EXCEPT ![r] = tv + 1]
           /\ new_view_set' = [new_view_set EXCEPT ![r] = CleanNewViewSet(@, tv + 1)]
           /\ IF sync_state[r] = "SYNCHRONIZING"
              THEN CheckPendingProp(r, m, tv + 1, pending_prop[r], "IDLE",
                                    m.leaf.height, q, sent)
              ELSE /\ machine' = [machine EXCEPT ![r] = m]
                   /\ net' = sent
                   /\ Continue(r, q)
                   /\ UNCHANGED <<pending_prop, sync_state, signed>>
  ELSE /\ net' = msgs
       /\ Continue(r, q)
       /\ UNCHANGED <<machine, view, new_view_set, pending_prop, sync_state, signed>>

-----------------------------------------------------------------------------
(***************************************************************************)
(* The top of a turn: propose, if a quorum of NewView messages is there.   *)
(***************************************************************************)
Propose(r) ==
  LET received == {from \in Replica : <<view[r], from>> \in new_view_set[r]}
      res == OnBeat(machine[r], r)
  IN  /\ Quiet
      /\ phase[r] = "top"
      /\ view[r] <= MaxView
      /\ Cardinality(received) > Threshold
      /\ new_view_set' = [new_view_set EXCEPT ![r] = CleanNewViewSet(@, view[r] + 1)]
      /\ machine' = [machine EXCEPT ![r] = res.m]
      /\ proposed' = proposed \cup {[from |-> r, prop |-> res.ready.prop]}
      /\ signed' = [signed EXCEPT ![r] = @ \cup {Sign(res.ready.prop)}]
      /\ ready_queue' = [ready_queue EXCEPT ![r] = Append(@, res.ready)]
      /\ phase' = [phase EXCEPT ![r] = "select"]
      /\ UNCHANGED <<view, pending_prop, sync_state, branch, net>>

(***************************************************************************)
(* The events of a turn.                                                   *)
(***************************************************************************)

\* The flush tick, a stale timer or a Timeout message: only ends the wait.
Tick(r) ==
  /\ Quiet
  /\ phase[r] = "select"
  /\ phase' = [phase EXCEPT ![r] = "drain"]
  /\ UNCHANGED <<machine, view, new_view_set, pending_prop, sync_state, branch, proposed,
                 ready_queue, net, signed>>

LocalTimeout(r) ==
  /\ Quiet
  /\ <<r, view[r]>> \in TimerFires
  /\ ProcessLocalTimeout(r, view[r], ready_queue[r], net)
  /\ UNCHANGED <<branch, proposed>>

RecvNewProposal(msg) ==
  LET r == msg.to
      pending == pending_prop[r] \cup {[from |-> msg.from, prop |-> msg.prop]}
  IN  /\ Quiet
      /\ msg.type = "NewProposal"
      /\ CheckPendingProp(r, machine[r], view[r], pending, sync_state[r],
                          machine[r].leaf.height, ready_queue[r], net \ {msg})
      /\ UNCHANGED <<view, new_view_set, branch, proposed>>

RecvAcceptProposal(msg) ==
  LET r == msg.to
      res == OnRecvVote(machine[r], msg.from, msg.prop, msg.sign)
  IN  /\ Quiet
      /\ msg.type = "AcceptProposal"
      /\ machine' = [machine EXCEPT ![r] = res.m]
      /\ net' = net \ {msg}
      /\ Continue(r, Enqueue(ready_queue[r], res.ready))
      /\ UNCHANGED <<view, new_view_set, pending_prop, sync_state, branch, proposed, signed>>

RecvNewView(msg) ==
  LET r == msg.to
      res == OnRecvNewView(machine[r], msg.qc_high)
  IN  /\ Quiet
      /\ msg.type = "NewView"
      /\ new_view_set' = [new_view_set EXCEPT ![r] = @ \cup {<<msg.view, msg.from>>}]
      /\ machine' = [machine EXCEPT ![r] = res.m]
      /\ net' = net \ {msg}
      /\ Continue(r, Enqueue(ready_queue[r], res.ready))
      /\ UNCHANGED <<view, pending_prop, sync_state, branch, proposed, signed>>

RecvBranchSyncRequest(msg) ==
  LET r == msg.to
  IN  /\ Quiet
      /\ msg.type = "BranchSyncRequest"
      /\ net' = (net \ {msg}) \cup
                  {[type |-> "BranchSyncResponse", from |-> r, to |-> msg.from,
                    view |-> view[r],
                    branch |-> FetchBranch(machine[r], msg.grow_from)]}
      /\ Continue(r, ready_queue[r])
      /\ UNCHANGED <<machine, view, new_view_set, pending_prop, sync_state,
                     branch, proposed, signed>>

\* The loop of on_branch_sync takes one SyncNext step for each proposal and
\* ends with SyncEnd.
RecvBranchSyncResponse(msg) ==
  LET r == msg.to
  IN  /\ Quiet
      /\ msg.type = "BranchSyncResponse"
      /\ branch' = [branch EXCEPT ![r] = msg.branch]
      /\ phase' = [phase EXCEPT ![r] = "sync"]
      /\ net' = net \ {msg}
      /\ UNCHANGED <<machine, view, new_view_set, pending_prop, sync_state,
                     ready_queue, proposed, signed>>

SyncNext(r) ==
  /\ phase[r] = "sync"
  /\ \E prop \in branch[r] :
       /\ \A o \in branch[r] : prop.height <= o.height
       /\ IF VerifyProposal(machine[r], prop.justify)
          THEN /\ machine' = [machine EXCEPT ![r] = OnSyncedProposal(@, prop)]
               /\ branch' = [branch EXCEPT ![r] = @ \ {prop}]
          ELSE /\ branch' = [branch EXCEPT ![r] = {}]
               /\ UNCHANGED machine
  /\ UNCHANGED <<view, new_view_set, pending_prop, sync_state, ready_queue,
                 phase, net, proposed, signed>>

SyncEnd(r) ==
  /\ phase[r] = "sync"
  /\ branch[r] = {}
  /\ Continue(r, Append(ready_queue[r], BranchSyncDoneReady(machine[r].leaf)))
  /\ UNCHANGED <<machine, view, new_view_set, pending_prop, sync_state, branch, proposed,
                 net, signed>>

(***************************************************************************)
(* The end of a turn: the Ready values, in order.                          *)
(***************************************************************************)
NextReady(r, type) ==
  /\ phase[r] = "drain"
  /\ ready_queue[r] # << >>
  /\ Head(ready_queue[r]).type = type

EmitNewProposal(r) ==
  /\ NextReady(r, "NewProposal")
  /\ net' = net \cup {[type |-> "NewProposal", from |-> r, to |-> to,
                       prop |-> Head(ready_queue[r]).prop] : to \in Replica \ {r}}
  /\ Continue(r, Tail(ready_queue[r]))
  /\ UNCHANGED <<machine, view, new_view_set, pending_prop, sync_state, branch, proposed, signed>>

ApplyUpdateQCHigh(r) ==
  LET leaf == Head(ready_queue[r]).node
  IN  /\ NextReady(r, "UpdateQCHigh")
      /\ machine' = [machine EXCEPT ![r] = UpdateQCHigh(@, leaf, leaf.justify)]
      /\ Continue(r, Tail(ready_queue[r]))
      /\ UNCHANGED <<view, new_view_set, pending_prop, sync_state, branch, proposed, net, signed>>

EmitSignature(r) ==
  LET ready == Head(ready_queue[r])
      sent == net \cup {[type |-> "AcceptProposal", from |-> r, to |-> ready.to,
                         prop |-> ready.prop, sign |-> Sign(ready.prop)]}
  IN  /\ NextReady(r, "Signature")
      /\ IF ready.to # r
         THEN ProcessLocalTimeout(r, ready.prop.height, Tail(ready_queue[r]), sent)
         ELSE /\ net' = sent
              /\ Continue(r, Tail(ready_queue[r]))
              /\ UNCHANGED <<machine, view, new_view_set, pending_prop,
                             sync_state, signed>>
      /\ UNCHANGED <<branch, proposed>>

\* Mutant: the branch synchronizer is not set back to idle.
FinishBranchSyncStays(r) ==
  /\ NextReady(r, "BranchSyncDone")
  /\ CheckPendingProp(r, machine[r], view[r], pending_prop[r], sync_state[r],
                      Head(ready_queue[r]).node.height, Tail(ready_queue[r]), net)
  /\ UNCHANGED <<view, new_view_set, branch, proposed>>

FinishBranchSync(r) ==
  LET leaf == Head(ready_queue[r]).node
  IN  /\ NextReady(r, "BranchSyncDone")
      /\ IF sync_state[r] = "SYNCHRONIZING"
         THEN CheckPendingProp(r, machine[r], view[r], pending_prop[r], "IDLE",
                               leaf.height, Tail(ready_queue[r]), net)
         ELSE /\ Continue(r, Tail(ready_queue[r]))
              /\ UNCHANGED <<machine, pending_prop, sync_state, net, signed>>
      /\ UNCHANGED <<view, new_view_set, branch, proposed>>

ReachConsensus(r) ==
  /\ NextReady(r, "ProposalReachConsensus")
  /\ ProcessLocalTimeout(r, Head(ready_queue[r]).view, Tail(ready_queue[r]), net)
  /\ UNCHANGED <<branch, proposed>>

-----------------------------------------------------------------------------
Step(r) ==
  \/ Propose(r)
  \/ Tick(r)
  \/ LocalTimeout(r)
  \/ SyncNext(r)
  \/ SyncEnd(r)
  \/ EmitNewProposal(r)
  \/ ApplyUpdateQCHigh(r)
  \/ EmitSignature(r)
  \/ FinishBranchSync(r)
  \/ ReachConsensus(r)

Recv(msg) ==
  \/ RecvNewProposal(msg)
  \/ RecvAcceptProposal(msg)
  \/ RecvNewView(msg)
  \/ RecvBranchSyncRequest(msg)
  \/ RecvBranchSyncResponse(msg)

Next == (\E r \in Replica : Step(r)) \/ (\E msg \in net : Recv(msg))

Spec == Init /\ [][Next]_vars

\* The loops keep running and the network keeps delivering; a view timer may or
\* may not fire.
Progress ==
  \/ \E r \in Replica : \/ Propose(r)
                         \/ Tick(r)
                         \/ SyncNext(r)
                         \/ SyncEnd(r)
                         \/ EmitNewProposal(r)
                         \/ ApplyUpdateQCHigh(r)
                         \/ EmitSignature(r)
                         \/ FinishBranchSync(r)
                         \/ ReachConsensus(r)
  \/ \E msg \in net : Recv(msg)

FairSpec == Spec /\ WF_vars(Progress)

-----------------------------------------------------------------------------
(***************************************************************************)
(* Properties                                                              *)
(***************************************************************************)

\* The fields of the storage and of the pacemaker hold what their Rust types
\* and the handlers allow; the storage and the pacemaker agree on the view.
TypeOK ==
  /\ machine \in [Replica -> MachineState]
  /\ view \in [Replica -> 1 .. LastView]
  /\ new_view_set \in [Replica -> SUBSET ((1 .. LastView) \X Replica)]
  /\ pending_prop \in [Replica -> SUBSET Origin]
  /\ sync_state \in [Replica -> {"IDLE", "SYNCHRONIZING"}]
  /\ branch \in [Replica -> SUBSET TreeNode]
  /\ ready_queue \in [Replica -> Seq(Ready)]
  /\ phase \in [Replica -> Phase]
  /\ net \subseteq Message
  /\ proposed \subseteq Origin
  /\ signed \in [Replica -> SUBSET Hash]
  /\ \A r \in Replica : machine[r].current_view = view[r]

\* make_new_proposal clears the NewView messages it has used, "there are no way
\* to form another set with at least n-f new-view msgs": whatever the delays
\* and timeouts, no two proposals are ever made for one view.
OneProposalPerView ==
  \A p, q \in proposed : p.prop.height = q.prop.height => p = q

\* The replicas whose NewView message for view v a leader may still come to
\* count: not in the view yet, message in flight, or counted and not cleared.
Announcing(v) ==
  {f \in Replica :
     \/ view[f] < v
     \/ \E msg \in net : msg.type = "NewView" /\ msg.from = f /\ msg.view = v
     \/ <<v, f>> \in new_view_set[GetLeader(v)]}

\* Why OneProposalPerView holds: goto_new_view sends one NewView message for a
\* view, to its leader; process_network_event counts it once; and once a view
\* has its proposal, fewer than a quorum of replicas can still be counted in it.
NewViewsSpent ==
  /\ \A msg \in net :
       msg.type = "NewView" => /\ msg.to = GetLeader(msg.view)
                               /\ msg.view <= view[msg.from]
  /\ \A a, b \in net :
       /\ a.type = "NewView" /\ b.type = "NewView"
       /\ a.from = b.from /\ a.view = b.view
       => a = b
  /\ \A r \in Replica : \A nv \in new_view_set[r] :
       /\ r = GetLeader(nv[1])
       /\ nv[1] <= view[nv[2]]
       /\ \A msg \in net :
            ~(msg.type = "NewView" /\ msg.view = nv[1] /\ msg.from = nv[2])
  /\ \A p \in proposed :
       /\ p.from = GetLeader(p.prop.height)
       /\ p.prop.height \in 1 .. LastView
       /\ Cardinality(Announcing(p.prop.height)) + Threshold < Cardinality(Replica)

SignedByQuorum(h) == Cardinality({r \in Replica : h \in signed[r]}) > Threshold

\* The certificates of the system: those replicas hold, those proposals carry
\* and those on their way to a leader.
Certificates ==
  {machine[r].qc_high : r \in Replica}
    \cup {p.prop.justify : p \in proposed}
    \cup {msg.qc_high : msg \in {m \in net : m.type = "NewView"}}

\* combine_partial_sign never mixes votes for different proposals, and what it
\* combines are votes of a quorum: every certificate but INIT_QC carries a
\* signature of one proposal that more than Threshold replicas have signed.
Backed(qc) == qc.sign # {} => \E h \in qc.sign : qc.sign = {h} /\ SignedByQuorum(h)

CertificatesBacked == \A qc \in Certificates : Backed(qc)

\* The nodes that exist: those a leader has proposed, and the first.
Known == {p.prop : p \in proposed} \cup {INIT_NODE}

\* A vote, a Ready value, a message and the state of a replica that hold only
\* nodes in known, and only signatures that sigs says were given.
GenuineVote(w, known, sigs) ==
  /\ w.sign \in sigs[w.from]
  /\ \E n \in known : n.height = w.view /\ HashOf(n) = w.sign

GenuineReady(x, r, known, sigs) ==
  /\ x.type \in {"NewProposal", "Signature"} => x.prop \in known
  /\ x.type \in {"UpdateQCHigh", "BranchSyncDone"} => x.node \in known
  /\ x.type = "Signature" => HashOf(x.prop) \in sigs[r]

GenuineMessage(msg, known, sigs) ==
  /\ msg.type \in {"NewProposal", "AcceptProposal"} => msg.prop \in known
  /\ msg.type = "BranchSyncResponse" => msg.branch \subseteq known
  /\ msg.type = "AcceptProposal" =>
       msg.sign = HashOf(msg.prop) /\ msg.sign \in sigs[msg.from]

GenuineMachine(m, known, sigs) ==
  /\ m.nodes \subseteq known
  /\ m.leaf \in known
  /\ \A w \in m.voting_set : GenuineVote(w, known, sigs)

GenuineQueue(q, r, known, sigs) ==
  \A i \in 1 .. Len(q) : GenuineReady(q[i], r, known, sigs)

\* Through proposals, votes, branch synchronization and the queues between them,
\* nothing reaches a replica's storage that no leader proposed, and the Voter
\* counts no vote that its sender did not cast for the proposal of that view.
Genuine ==
  /\ \A r \in Replica : /\ GenuineMachine(machine[r], Known, signed)
                        /\ branch[r] \subseteq Known
                        /\ \A o \in pending_prop[r] : o.prop \in Known
                        /\ GenuineQueue(ready_queue[r], r, Known, signed)
  /\ \A msg \in net : GenuineMessage(msg, Known, signed)

\* update_nodes locks a replica only on a proposal with a certified child: both
\* the locked node and a stored node that it justifies have a quorum's votes.
LockedOnTwoChain ==
  \A r \in Replica :
    LET b == machine[r].b_locked
    IN  b # INIT_NODE =>
          /\ SignedByQuorum(HashOf(b))
          /\ \E c \in machine[r].nodes :
               c.justify.node = HashOf(b) /\ SignedByQuorum(HashOf(c))

\* update_nodes commits only the tail of a consecutive three-chain, each of its
\* nodes with the votes of a quorum.
CommittedOnThreeChain ==
  LET Extends(n, b) == n.parent = HashOf(b) /\ n.justify.node = HashOf(b)
  IN  \A r \in Replica :
        LET b == machine[r].last_commit
        IN  b # INIT_NODE =>
              \E b2, b3 \in machine[r].nodes :
                /\ Extends(b2, b) /\ Extends(b3, b2)
                /\ \A n \in {b, b2, b3} : SignedByQuorum(HashOf(n))

\* While check_pending_prop waits for a branch, the proposal that made it ask
\* for the branch, or another one, is still in the heap for BranchSyncDone.
SyncHasPending ==
  \A r \in Replica :
    sync_state[r] = "SYNCHRONIZING" => pending_prop[r] # {}

Quorum == {S \in SUBSET Replica : Cardinality(S) > Threshold}

V == INSTANCE Views

\* The pacemakers implement the promise of module Views: a step of a replica
\* enters a later view, opens a view nobody has proposed in, or does neither.
ImplementsViews == V!Spec

\* Liveness of process_ready_event, on_recv_vote and make_new_proposal together:
\* when every message arrives, all replicas commit a proposal.
EventuallyCommit == <>(\A r \in Replica : machine[r].committed_height > 0)
=============================================================================
