------------------------------ MODULE Machine -------------------------------
(***************************************************************************)
(* The safety part of one replica: HotstuffStorage as the state machine    *)
(* uses it, Voter and Machine.  Each method is an operator from the        *)
(* replica's state m to its next state; a handler returns a record of the  *)
(* next state and the Ready value it gives to the pacemaker.               *)
(*                                                                         *)
(* The queues that only feed the flusher (prop_queue, justify_queue,       *)
(* dirty) are left out: no handler reads them.                             *)
(***************************************************************************)
EXTENDS HotStuffData

Vote == [view : Nat, from : Replica, sign : Hash]

MachineState ==
  [nodes            : SUBSET TreeNode,   \* in_mem_queue
   leaf             : TreeNode,
   qc_high          : QC,
   vheight          : Nat,
   current_view     : Nat,
   committed_height : Nat,
   last_commit      : TreeNode,
   b_locked         : TreeNode,
   voting_set       : SUBSET Vote]

InitMachine ==
  [nodes            |-> {INIT_NODE},
   leaf             |-> INIT_NODE,
   qc_high          |-> INIT_QC,
   vheight          |-> 0,
   current_view     |-> 0,
   committed_height |-> 0,
   last_commit      |-> INIT_NODE,
   b_locked         |-> INIT_NODE,
   voting_set       |-> {}]

-----------------------------------------------------------------------------
(***************************************************************************)
(* HotstuffStorage                                                         *)
(***************************************************************************)
Has(m, h) == \E n \in m.nodes : HashOf(n) = h

Get(m, h) == CHOOSE n \in m.nodes : HashOf(n) = h

Insert(m, n) ==
  [m EXCEPT !.nodes = {o \in @ : HashOf(o) # HashOf(n)} \cup {n}]

AppendNewNode(m, n) == Insert(m, n)

\* The leaf's height becomes vheight even when it is the lower of the two.
UpdateLeaf(m, n) == [Insert(m, n) EXCEPT !.vheight = n.height, !.leaf = n]

UpdateQCHigh(m, n, qc) ==
  IF Has(m, m.qc_high.node) /\ n.height > Get(m, m.qc_high.node).height
  THEN UpdateLeaf([m EXCEPT !.qc_high = qc], n)
  ELSE m

\* Mutant: locks the leaf instead of the node it is given.
UpdateLockedNodeOnLeaf(m, n) == [m EXCEPT !.b_locked = m.leaf]

UpdateLockedNode(m, n) == [m EXCEPT !.b_locked = n]

UpdateVHeight(m, h) == [m EXCEPT !.vheight = IF h > @ THEN h ELSE @]

\* Mutant: adds the view instead of raising the stored one to it.
IncreaseViewBy(m, v) == [m EXCEPT !.current_view = @ + v]

IncreaseView(m, v) == [m EXCEPT !.current_view = IF v > @ THEN v ELSE @]

Commit(m, n) ==
  IF m.committed_height >= n.height
  THEN m
  ELSE [m EXCEPT !.committed_height = n.height, !.last_commit = n]

FindThreeChain(m, n) ==
  LET Known(x) == Has(m, x.justify.node)
      Prev(x)  == Get(m, x.justify.node)
      b3 == Prev(n)
      b2 == Prev(b3)
      b1 == Prev(b2)
  IN  IF ~Known(n) THEN << >>
      ELSE IF ~Known(b3) THEN <<b3>>
      ELSE IF ~Known(b2) THEN <<b3, b2>>
      ELSE <<b3, b2, b1>>

\* Mutant: any three-chain counts as consecutive.
IsAnyThreeChain(chain) == Len(chain) = 3

IsConsecutiveThreeChain(chain) ==
  /\ Len(chain) = 3
  /\ chain[1].parent = HashOf(chain[2])
  /\ chain[2].parent = HashOf(chain[3])

\* Walk from the higher node towards the root while above the lower one, and as
\* long as the parent is stored; the nodes conflict unless the walk ends there.
IsConflicting(m, x, y) ==
  LET a == IF x.height >= y.height THEN x ELSE y
      b == IF x.height >= y.height THEN y ELSE x
      walk[n \in m.nodes \cup {a}] ==
        IF n.height > b.height /\ Has(m, n.parent)
        THEN walk[Get(m, n.parent)]
        ELSE n
  IN  HashOf(walk[a]) # HashOf(b)

\* The proposals above grow_from, which the handler receives in height order.
FetchBranch(m, grow_from) == {n \in m.nodes : n.height > grow_from}

-----------------------------------------------------------------------------
(***************************************************************************)
(* Voter                                                                   *)
(***************************************************************************)
\* Mutant: the votes of every view are one voting set.
VotesAtAnyView(m, v) == m.voting_set

VotesAt(m, v) == {w \in m.voting_set : w.view = v}

VoteSetSize(m, v) == Cardinality({w.from : w \in VotesAt(m, v)})

HasVoted(m, from, v) == \E w \in m.voting_set : w.view = v /\ w.from = from

\* Mutant: files a vote under the current view.
AddVoteToCurrentView(m, from, v, sign) ==
  [m EXCEPT !.voting_set = @ \cup {[view |-> m.current_view, from |-> from, sign |-> sign]}]

AddVote(m, from, v, sign) ==
  [m EXCEPT !.voting_set =
     {w \in @ : ~(w.view = v /\ w.from = from)}
       \cup {[view |-> v, from |-> from, sign |-> sign]}]

\* The combined signature of a voting set, which is then removed.
CombinedSign(m, v) == CombinePartialSign({w.sign : w \in VotesAt(m, v)})

RemoveVotes(m, v) == [m EXCEPT !.voting_set = {w \in @ : w.view # v}]

-----------------------------------------------------------------------------
(***************************************************************************)
(* Machine                                                                 *)
(***************************************************************************)
Nil == [type |-> "Nil"]
NewProposalReady(prop)     == [type |-> "NewProposal", prop |-> prop]
UpdateQCHighReady(n)       == [type |-> "UpdateQCHigh", node |-> n]
SignatureReady(to, prop)   == [type |-> "Signature", to |-> to, prop |-> prop]
BranchSyncDoneReady(n)     == [type |-> "BranchSyncDone", node |-> n]
ReachConsensusReady(v)     == [type |-> "ProposalReachConsensus", view |-> v]

\* What a handler can queue for the pacemaker (an Err is logged and dropped,
\* like Nil).
Ready ==
  [type : {"NewProposal"}, prop : TreeNode]
    \cup [type : {"UpdateQCHigh", "BranchSyncDone"}, node : TreeNode]
    \cup [type : {"Signature"}, to : Replica, prop : TreeNode]
    \cup [type : {"ProposalReachConsensus"}, view : Nat]

UpdateNodes(m, n) ==
  LET chain == FindThreeChain(m, n)
      m1 == IF Len(chain) >= 1 THEN UpdateQCHigh(m, chain[1], n.justify) ELSE m
      m2 == IF Len(chain) >= 2 /\ chain[2].height > m1.b_locked.height
            THEN UpdateLockedNode(m1, chain[2]) ELSE m1
  IN  IF IsConsecutiveThreeChain(chain) THEN Commit(m2, chain[3]) ELSE m2

SafeNode(m, n, justifyNode) ==
  \/ ~IsConflicting(m, n, m.b_locked)
  \/ justifyNode.height > m.b_locked.height

VerifyProposal(m, justify) ==
  /\ Has(m, justify.node)
  /\ IsInitQC(justify) \/ ValidateQC(Get(m, justify.node), justify.sign)

MakeLeaf(m) ==
  [height |-> m.current_view, parent |-> HashOf(m.leaf), justify |-> m.qc_high]

OnBeat(m, self) ==
  LET prop == MakeLeaf(m)
  IN  [m     |-> AddVote(UpdateLeaf(m, prop), self, prop.height, Sign(prop)),
       ready |-> NewProposalReady(prop)]

\* The certificate names the current leaf and the current view, whichever
\* proposal the votes are for.
OnRecvVote(m, from, prop, sign) ==
  LET m1 == AddVote(m, from, prop.height, sign)
      m2 == RemoveVotes(m1, prop.height)
      qc == [view |-> m2.current_view,
             node |-> HashOf(m2.leaf),
             sign |-> CombinedSign(m1, prop.height)]
  IN  IF ~ValidateVote(prop, sign) THEN [m |-> m, ready |-> Nil]
      ELSE IF HasVoted(m, from, prop.height) THEN [m |-> m1, ready |-> Nil]
      ELSE IF VoteSetSize(m1, prop.height) > Threshold
      THEN [m |-> UpdateQCHigh(m2, prop, qc), ready |-> ReachConsensusReady(qc.view)]
      ELSE [m |-> m1, ready |-> Nil]

\* Mutant: the height must exceed the last vote's by more than one.
AcceptsOnlyGaps(m, prop) ==
  /\ prop.height > m.vheight + 1
  /\ SafeNode(m, prop, Get(m, prop.justify.node))

\* A proposal is accepted when it is higher than the last vote and safe.
Accepts(m, prop) ==
  /\ prop.height > m.vheight
  /\ SafeNode(m, prop, Get(m, prop.justify.node))

Accept(m, prop) ==
  IF Accepts(m, prop)
  THEN UpdateVHeight(AppendNewNode(m, prop), prop.height)
  ELSE m

OnRecvProposal(m, from, prop) ==
  IF ~VerifyProposal(m, prop.justify) THEN [m |-> m, ready |-> Nil]
  ELSE [m     |-> UpdateNodes(Accept(m, prop), prop),
        ready |-> IF Accepts(m, prop) THEN SignatureReady(from, prop) ELSE Nil]

OnRecvNewView(m, qc) ==
  LET m1 == IF Has(m, qc.node) THEN UpdateQCHigh(m, Get(m, qc.node), qc) ELSE m
  IN  [m |-> m1, ready |-> UpdateQCHighReady(m1.leaf)]

\* One turn of the loop of on_branch_sync, for a proposal that verifies.
OnSyncedProposal(m, prop) == UpdateNodes(Accept(m, prop), prop)
=============================================================================
