--------------------------- MODULE MachineProofs ----------------------------
(***************************************************************************)
(* What each method of the storage, the voter and the machine changes, for *)
(* every state of a replica: the lemmas the proofs about the running       *)
(* replicas cite instead of the definitions.                               *)
(***************************************************************************)
EXTENDS Machine, FiniteSetTheorems, TLAPS

\* The hash of a proposal is a hash (TreeNode::hash).
LEMMA HashType ==
  ASSUME NEW n \in TreeNode
  PROVE  HashOf(n) \in Hash
BY DEF TreeNode, HashOf, Hash

\* The first proposal and its certificate are well formed (INIT_NODE, INIT_QC).
LEMMA InitTypes == INIT_NODE \in TreeNode /\ INIT_QC \in QC
BY DEF INIT_NODE, INIT_QC, TreeNode, QC, HashOf, Hash, NoHash

\* HotstuffStorage::get returns a stored node with the hash asked for.
LEMMA GetStored ==
  ASSUME NEW m, NEW h, Has(m, h)
  PROVE  Get(m, h) \in m.nodes /\ HashOf(Get(m, h)) = h
BY DEF Has, Get

\* A replica starts with a well-formed state that holds the first proposal.
LEMMA InitMachineType == InitMachine \in MachineState
BY InitTypes DEF InitMachine, MachineState

\* update_leaf stores the new leaf and leaves votes, lock and commit alone.
LEMMA UpdateLeafEffect ==
  ASSUME NEW m \in MachineState, NEW n \in TreeNode
  PROVE  /\ UpdateLeaf(m, n) \in MachineState
         /\ UpdateLeaf(m, n).nodes \subseteq m.nodes \cup {n}
         /\ UpdateLeaf(m, n).leaf = n
         /\ UpdateLeaf(m, n).qc_high = m.qc_high
         /\ UpdateLeaf(m, n).voting_set = m.voting_set
         /\ UpdateLeaf(m, n).current_view = m.current_view
BY DEF UpdateLeaf, Insert, MachineState, TreeNode

\* update_qc_high installs the certificate it is given or changes nothing.
LEMMA UpdateQCHighEffect ==
  ASSUME NEW m \in MachineState, NEW n \in TreeNode, NEW qc \in QC
  PROVE  LET u == UpdateQCHigh(m, n, qc)
         IN  /\ u \in MachineState
             /\ u.nodes \subseteq m.nodes \cup {n}
             /\ u.leaf \in {m.leaf, n}
             /\ u.qc_high \in {m.qc_high, qc}
             /\ u.voting_set = m.voting_set
             /\ u.current_view = m.current_view
<1> DEFINE k == [m EXCEPT !.qc_high = qc]
<1>1. /\ k \in MachineState
      /\ k.nodes = m.nodes /\ k.leaf = m.leaf /\ k.qc_high = qc
      /\ k.voting_set = m.voting_set /\ k.current_view = m.current_view
  BY DEF MachineState
<1>2. UpdateQCHigh(m, n, qc) = m \/ UpdateQCHigh(m, n, qc) = UpdateLeaf(k, n)
  BY DEF UpdateQCHigh
<1> HIDE DEF k
<1>3. CASE UpdateQCHigh(m, n, qc) = m
  BY <1>3
<1>4. CASE UpdateQCHigh(m, n, qc) = UpdateLeaf(k, n)
  BY <1>1, <1>4, UpdateLeafEffect
<1> QED
  BY <1>2, <1>3, <1>4

\* find_three_chain returns stored nodes.
LEMMA FindThreeChainStored ==
  ASSUME NEW m \in MachineState, NEW n \in TreeNode
  PROVE  /\ Len(FindThreeChain(m, n)) \in 0 .. 3
         /\ \A i \in 1 .. Len(FindThreeChain(m, n)) : FindThreeChain(m, n)[i] \in m.nodes
<1> DEFINE b3 == Get(m, n.justify.node)
           b2 == Get(m, b3.justify.node)
           b1 == Get(m, b2.justify.node)
<1>1. Has(m, n.justify.node) => b3 \in m.nodes
  BY GetStored
<1>2. Has(m, b3.justify.node) => b2 \in m.nodes
  BY GetStored
<1>3. Has(m, b2.justify.node) => b1 \in m.nodes
  BY GetStored
<1>4. FindThreeChain(m, n) = IF ~Has(m, n.justify.node) THEN << >>
                             ELSE IF ~Has(m, b3.justify.node) THEN <<b3>>
                             ELSE IF ~Has(m, b2.justify.node) THEN <<b3, b2>>
                             ELSE <<b3, b2, b1>>
  BY DEF FindThreeChain
<1> HIDE DEF b3, b2, b1
<1>5. CASE ~Has(m, n.justify.node)
  BY <1>4, <1>5
<1>6. CASE Has(m, n.justify.node) /\ ~Has(m, b3.justify.node)
  BY <1>1, <1>4, <1>6
<1>7. CASE /\ Has(m, n.justify.node) /\ Has(m, b3.justify.node)
           /\ ~Has(m, b2.justify.node)
  BY <1>1, <1>2, <1>4, <1>7
<1>8. CASE /\ Has(m, n.justify.node) /\ Has(m, b3.justify.node)
           /\ Has(m, b2.justify.node)
  BY <1>1, <1>2, <1>3, <1>4, <1>8
<1> QED
  BY <1>5, <1>6, <1>7, <1>8

\* update_nodes adds no proposal, and the only certificate it can install is
\* the one the proposal carries.
LEMMA UpdateNodesEffect ==
  ASSUME NEW m \in MachineState, NEW n \in TreeNode
  PROVE  LET u == UpdateNodes(m, n)
         IN  /\ u \in MachineState
             /\ u.nodes \subseteq m.nodes
             /\ u.leaf \in m.nodes \cup {m.leaf}
             /\ u.qc_high \in {m.qc_high, n.justify}
             /\ u.voting_set = m.voting_set
             /\ u.current_view = m.current_view
<1> DEFINE chain == FindThreeChain(m, n)
           m1 == IF Len(chain) >= 1 THEN UpdateQCHigh(m, chain[1], n.justify) ELSE m
           m2 == IF Len(chain) >= 2 /\ chain[2].height > m1.b_locked.height
                 THEN UpdateLockedNode(m1, chain[2]) ELSE m1
           u == IF IsConsecutiveThreeChain(chain) THEN Commit(m2, chain[3]) ELSE m2
<1>1. Len(chain) \in 0 .. 3 /\ \A i \in 1 .. Len(chain) : chain[i] \in m.nodes
  BY FindThreeChainStored
<1>2. m.nodes \subseteq TreeNode /\ n.justify \in QC
  BY DEF MachineState, TreeNode
<1>3. /\ m1 \in MachineState
      /\ m1.nodes \subseteq m.nodes
      /\ m1.leaf \in m.nodes \cup {m.leaf}
      /\ m1.qc_high \in {m.qc_high, n.justify}
      /\ m1.voting_set = m.voting_set
      /\ m1.current_view = m.current_view
  <2>1. CASE Len(chain) >= 1
    <3>1. chain[1] \in m.nodes
      BY <1>1, <2>1
    <3> HIDE DEF chain
    <3> QED
      BY <2>1, <3>1, <1>2, UpdateQCHighEffect
  <2>2. CASE ~(Len(chain) >= 1)
    BY <2>2
  <2> QED
    BY <2>1, <2>2
<1> HIDE DEF m1
<1>4. /\ m2 \in MachineState
      /\ m2.nodes = m1.nodes /\ m2.leaf = m1.leaf /\ m2.qc_high = m1.qc_high
      /\ m2.voting_set = m1.voting_set /\ m2.current_view = m1.current_view
  <2>1. CASE Len(chain) >= 2
    <3>1. chain[2] \in TreeNode
      BY <1>1, <1>2, <2>1
    <3> HIDE DEF chain
    <3> QED
      BY <1>3, <3>1 DEF UpdateLockedNode, MachineState
  <2>2. CASE ~(Len(chain) >= 2)
    BY <2>2, <1>3
  <2> QED
    BY <2>1, <2>2
<1> HIDE DEF m2
<1>5. /\ u \in MachineState
      /\ u.nodes = m2.nodes /\ u.leaf = m2.leaf /\ u.qc_high = m2.qc_high
      /\ u.voting_set = m2.voting_set /\ u.current_view = m2.current_view
  <2>1. CASE IsConsecutiveThreeChain(chain)
    <3>1. chain[3] \in TreeNode
      BY <1>1, <1>2, <2>1 DEF IsConsecutiveThreeChain
    <3> HIDE DEF chain
    <3> QED
      BY <1>4, <2>1, <3>1 DEF Commit, MachineState, TreeNode
  <2>2. CASE ~IsConsecutiveThreeChain(chain)
    BY <2>2, <1>4
  <2> QED
    BY <2>1, <2>2
<1>6. u = UpdateNodes(m, n)
  BY DEF UpdateNodes, m1, m2
<1> HIDE DEF u
<1> QED
  BY <1>3, <1>4, <1>5, <1>6

\* increase_view only raises the view.
LEMMA IncreaseViewEffect ==
  ASSUME NEW m \in MachineState, NEW v \in Nat
  PROVE  LET u == IncreaseView(m, v)
         IN  /\ u \in MachineState
             /\ u.nodes = m.nodes /\ u.leaf = m.leaf /\ u.qc_high = m.qc_high
             /\ u.voting_set = m.voting_set
             /\ v >= m.current_view => u.current_view = v
BY DEF IncreaseView, MachineState

\* Voter::add_vote changes the voting sets only, and adds one vote.
LEMMA AddVoteEffect ==
  ASSUME NEW m \in MachineState, NEW from \in Replica, NEW v \in Nat, NEW sign \in Hash
  PROVE  LET u == AddVote(m, from, v, sign)
         IN  /\ u \in MachineState
             /\ u.nodes = m.nodes /\ u.leaf = m.leaf /\ u.qc_high = m.qc_high
             /\ u.current_view = m.current_view
             /\ u.voting_set \subseteq
                  m.voting_set \cup {[view |-> v, from |-> from, sign |-> sign]}
BY DEF AddVote, MachineState, Vote

\* on_beat makes a proposal for the current view that carries qc_high, and
\* votes for it.
LEMMA OnBeatEffect ==
  ASSUME NEW m \in MachineState, NEW self \in Replica
  PROVE  LET res == OnBeat(m, self)
             prop == MakeLeaf(m)
         IN  /\ prop \in TreeNode
             /\ prop.height = m.current_view /\ prop.justify = m.qc_high
             /\ res.ready = NewProposalReady(prop)
             /\ res.m \in MachineState
             /\ res.m.nodes \subseteq m.nodes \cup {prop}
             /\ res.m.leaf = prop
             /\ res.m.qc_high = m.qc_high
             /\ res.m.current_view = m.current_view
             /\ res.m.voting_set \subseteq
                  m.voting_set \cup
                    {[view |-> prop.height, from |-> self, sign |-> HashOf(prop)]}
<1> DEFINE prop == MakeLeaf(m)
           u == UpdateLeaf(m, prop)
<1>1. prop \in TreeNode /\ prop.height = m.current_view /\ prop.justify = m.qc_high
  <2>1. HashOf(m.leaf) \in Hash
    BY HashType DEF MachineState
  <2> QED
    BY <2>1 DEF MakeLeaf, MachineState, TreeNode
<1> HIDE DEF prop
<1>2. prop.height \in Nat /\ HashOf(prop) \in Hash
  BY <1>1, HashType DEF TreeNode
<1>3. /\ u \in MachineState /\ u.nodes \subseteq m.nodes \cup {prop}
      /\ u.leaf = prop /\ u.qc_high = m.qc_high
      /\ u.voting_set = m.voting_set /\ u.current_view = m.current_view
  BY <1>1, UpdateLeafEffect
<1> HIDE DEF u
<1>4. OnBeat(m, self) = [m     |-> AddVote(u, self, prop.height, HashOf(prop)),
                         ready |-> NewProposalReady(prop)]
  BY DEF OnBeat, u, prop, Sign
<1>5. LET a == AddVote(u, self, prop.height, HashOf(prop))
      IN  /\ a \in MachineState
          /\ a.nodes = u.nodes /\ a.leaf = u.leaf /\ a.qc_high = u.qc_high
          /\ a.current_view = u.current_view
          /\ a.voting_set \subseteq u.voting_set \cup
               {[view |-> prop.height, from |-> self, sign |-> HashOf(prop)]}
  BY <1>2, <1>3, AddVoteEffect
<1> QED
  BY <1>1, <1>3, <1>4, <1>5 DEF prop

\* on_recv_vote adds at most one vote, and a new qc_high is signed by the voting
\* set of the proposal's height, which is larger than the threshold.
LEMMA OnRecvVoteEffect ==
  ASSUME NEW m \in MachineState, NEW from \in Replica,
         NEW prop \in TreeNode, NEW sign \in Hash
  PROVE  LET res == OnRecvVote(m, from, prop, sign)
             m1 == AddVote(m, from, prop.height, sign)
         IN  /\ res.m \in MachineState
             /\ res.m.nodes \subseteq m.nodes \cup {prop}
             /\ res.m.leaf \in {m.leaf, prop}
             /\ res.m.current_view = m.current_view
             /\ res.m.voting_set \subseteq
                  m.voting_set \cup
                    {[view |-> prop.height, from |-> from, sign |-> sign]}
             /\ \/ res.m.qc_high = m.qc_high
                \/ /\ VoteSetSize(m1, prop.height) > Threshold
                   /\ res.m.qc_high.sign = CombinedSign(m1, prop.height)
             /\ res.ready \in {Nil, ReachConsensusReady(m.current_view)}
<1> DEFINE m1 == AddVote(m, from, prop.height, sign)
           m2 == RemoveVotes(m1, prop.height)
           cs == CombinedSign(m1, prop.height)
           qc == [view |-> m2.current_view, node |-> HashOf(m2.leaf), sign |-> cs]
           m3 == UpdateQCHigh(m2, prop, qc)
           res == OnRecvVote(m, from, prop, sign)
<1>1. prop.height \in Nat
  BY DEF TreeNode
<1>2. /\ m1 \in MachineState
      /\ m1.nodes = m.nodes /\ m1.leaf = m.leaf /\ m1.qc_high = m.qc_high
      /\ m1.current_view = m.current_view
      /\ m1.voting_set \subseteq
           m.voting_set \cup {[view |-> prop.height, from |-> from, sign |-> sign]}
  BY <1>1, AddVoteEffect
<1>3. \/ res = [m |-> m, ready |-> Nil]
      \/ res = [m |-> m1, ready |-> Nil]
      \/ /\ VoteSetSize(m1, prop.height) > Threshold
         /\ res = [m |-> m3, ready |-> ReachConsensusReady(m2.current_view)]
  BY DEF OnRecvVote
<1> HIDE DEF m1, res
<1>4. /\ m2 \in MachineState
      /\ m2.nodes = m1.nodes /\ m2.leaf = m1.leaf /\ m2.qc_high = m1.qc_high
      /\ m2.current_view = m1.current_view
      /\ m2.voting_set \subseteq m1.voting_set
  BY <1>2 DEF RemoveVotes, MachineState
<1>5. cs \in SUBSET Hash
  BY <1>2 DEF CombinedSign, CombinePartialSign, VotesAt, MachineState, Vote
<1> HIDE DEF m2, cs
<1>6. qc \in QC /\ qc.sign = cs
  <2>1. HashOf(m2.leaf) \in Hash /\ m2.current_view \in Nat
    BY <1>4, HashType DEF MachineState
  <2> QED
    BY <1>5, <2>1 DEF QC
<1> HIDE DEF qc
<1>7. /\ m3 \in MachineState
      /\ m3.nodes \subseteq m2.nodes \cup {prop}
      /\ m3.leaf \in {m2.leaf, prop}
      /\ m3.qc_high \in {m2.qc_high, qc}
      /\ m3.voting_set = m2.voting_set
      /\ m3.current_view = m2.current_view
  BY <1>4, <1>6, UpdateQCHighEffect
<1> HIDE DEF m3
<1>8. CASE res = [m |-> m, ready |-> Nil]
  BY <1>8 DEF res
<1>9. CASE res = [m |-> m1, ready |-> Nil]
  BY <1>2, <1>9 DEF res, m1
<1>10. CASE /\ VoteSetSize(m1, prop.height) > Threshold
            /\ res = [m |-> m3, ready |-> ReachConsensusReady(m2.current_view)]
  <2>1. res.m = m3 /\ res.ready = ReachConsensusReady(m.current_view)
    BY <1>10, <1>2, <1>4
  <2>2. \/ m3.qc_high = m.qc_high
        \/ m3.qc_high.sign = CombinedSign(m1, prop.height)
    BY <1>2, <1>4, <1>6, <1>7 DEF cs
  <2> QED
    BY <1>2, <1>4, <1>7, <1>10, <2>1, <2>2 DEF res, m1
<1> QED
  BY <1>3, <1>8, <1>9, <1>10

\* Accepting a proposal stores it and raises vheight, nothing else.
LEMMA AcceptEffect ==
  ASSUME NEW m \in MachineState, NEW prop \in TreeNode
  PROVE  LET u == Accept(m, prop)
         IN  /\ u \in MachineState
             /\ u.nodes \subseteq m.nodes \cup {prop}
             /\ u.leaf = m.leaf /\ u.qc_high = m.qc_high
             /\ u.voting_set = m.voting_set
             /\ u.current_view = m.current_view
<1> DEFINE k == Insert(m, prop)
           v == UpdateVHeight(k, prop.height)
<1>1. /\ k \in MachineState /\ k.nodes \subseteq m.nodes \cup {prop}
      /\ k.leaf = m.leaf /\ k.qc_high = m.qc_high
      /\ k.voting_set = m.voting_set /\ k.current_view = m.current_view
  BY DEF Insert, MachineState
<1> HIDE DEF k
<1>2. /\ v \in MachineState /\ v.nodes = k.nodes
      /\ v.leaf = k.leaf /\ v.qc_high = k.qc_high
      /\ v.voting_set = k.voting_set /\ v.current_view = k.current_view
  BY <1>1 DEF UpdateVHeight, MachineState, TreeNode
<1> HIDE DEF v
<1>3. Accept(m, prop) = m \/ Accept(m, prop) = v
  BY DEF Accept, AppendNewNode, k, v
<1> QED
  BY <1>1, <1>2, <1>3

\* A turn of on_branch_sync stores at most the proposal it looks at, and the
\* only certificate it can install is the one that proposal carries.
LEMMA OnSyncedProposalEffect ==
  ASSUME NEW m \in MachineState, NEW prop \in TreeNode
  PROVE  LET u == OnSyncedProposal(m, prop)
         IN  /\ u \in MachineState
             /\ u.nodes \subseteq m.nodes \cup {prop}
             /\ u.leaf \in m.nodes \cup {m.leaf, prop}
             /\ u.qc_high \in {m.qc_high, prop.justify}
             /\ u.voting_set = m.voting_set
             /\ u.current_view = m.current_view
<1> DEFINE k == Accept(m, prop)
           v == UpdateNodes(k, prop)
<1>1. /\ k \in MachineState /\ k.nodes \subseteq m.nodes \cup {prop}
      /\ k.leaf = m.leaf /\ k.qc_high = m.qc_high
      /\ k.voting_set = m.voting_set /\ k.current_view = m.current_view
  BY AcceptEffect
<1> HIDE DEF k
<1>2. /\ v \in MachineState /\ v.nodes \subseteq k.nodes
      /\ v.leaf \in k.nodes \cup {k.leaf}
      /\ v.qc_high \in {k.qc_high, prop.justify}
      /\ v.voting_set = k.voting_set /\ v.current_view = k.current_view
  BY <1>1, UpdateNodesEffect
<1> HIDE DEF v
<1>3. OnSyncedProposal(m, prop) = v
  BY DEF OnSyncedProposal, k, v
<1> QED
  BY <1>1, <1>2, <1>3

\* on_recv_proposal does the same, and answers with a signature or nothing.
LEMMA OnRecvProposalEffect ==
  ASSUME NEW m \in MachineState, NEW from \in Replica, NEW prop \in TreeNode
  PROVE  LET res == OnRecvProposal(m, from, prop)
         IN  /\ res.m \in MachineState
             /\ res.m.nodes \subseteq m.nodes \cup {prop}
             /\ res.m.leaf \in m.nodes \cup {m.leaf, prop}
             /\ res.m.qc_high \in {m.qc_high, prop.justify}
             /\ res.m.voting_set = m.voting_set
             /\ res.m.current_view = m.current_view
             /\ res.ready \in {Nil, SignatureReady(from, prop)}
<1> DEFINE res == OnRecvProposal(m, from, prop)
           v == OnSyncedProposal(m, prop)
<1>1. /\ res.m = m \/ res.m = v
      /\ res.ready \in {Nil, SignatureReady(from, prop)}
  BY DEF OnRecvProposal, OnSyncedProposal
<1>2. /\ v \in MachineState
      /\ v.nodes \subseteq m.nodes \cup {prop}
      /\ v.leaf \in m.nodes \cup {m.leaf, prop}
      /\ v.qc_high \in {m.qc_high, prop.justify}
      /\ v.voting_set = m.voting_set
      /\ v.current_view = m.current_view
  BY OnSyncedProposalEffect
<1> HIDE DEF res, v
<1> QED
  BY <1>1, <1>2 DEF res

\* A NewView message stores no proposal; its certificate is the only new one.
LEMMA OnRecvNewViewEffect ==
  ASSUME NEW m \in MachineState, NEW qc \in QC
  PROVE  LET res == OnRecvNewView(m, qc)
         IN  /\ res.m \in MachineState
             /\ res.m.nodes \subseteq m.nodes
             /\ res.m.leaf \in m.nodes \cup {m.leaf}
             /\ res.m.qc_high \in {m.qc_high, qc}
             /\ res.m.voting_set = m.voting_set
             /\ res.m.current_view = m.current_view
             /\ res.ready = UpdateQCHighReady(res.m.leaf)
<1> DEFINE n == Get(m, qc.node)
           k == IF Has(m, qc.node) THEN UpdateQCHigh(m, n, qc) ELSE m
<1>1. /\ k \in MachineState
      /\ k.nodes \subseteq m.nodes
      /\ k.leaf \in m.nodes \cup {m.leaf}
      /\ k.qc_high \in {m.qc_high, qc}
      /\ k.voting_set = m.voting_set
      /\ k.current_view = m.current_view
  <2>1. CASE Has(m, qc.node)
    <3>1. n \in m.nodes /\ n \in TreeNode
      BY <2>1, GetStored DEF MachineState
    <3> HIDE DEF n
    <3> QED
      BY <2>1, <3>1, UpdateQCHighEffect
  <2>2. CASE ~Has(m, qc.node)
    BY <2>2
  <2> QED
    BY <2>1, <2>2
<1>2. OnRecvNewView(m, qc) = [m |-> k, ready |-> UpdateQCHighReady(k.leaf)]
  BY DEF OnRecvNewView
<1> HIDE DEF k
<1> QED
  BY <1>1, <1>2
=============================================================================
