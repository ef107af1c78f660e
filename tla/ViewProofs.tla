----------------------------- MODULE ViewProofs -----------------------------
(***************************************************************************)
(* No view has two proposals, and the pacemakers implement module Views,   *)
(* for every number of replicas, leader election and bound.                *)
(***************************************************************************)
EXTENDS PacemakerProofs

\* A step at replica r that may take it to a later view (process_local_timeout),
\* sends the NewView message of that view, and otherwise leaves views, proposals
\* and NewView messages alone or forgets some of the messages.
EnterView(r) ==
  /\ view' = [view EXCEPT ![r] = view'[r]]
  /\ view'[r] \in 1 .. LastView
  /\ view'[r] >= view[r]
  /\ \A s \in Replica : new_view_set'[s] \subseteq new_view_set[s]
  /\ \A msg \in net' :
       msg.type = "NewView" =>
         \/ msg \in net
         \/ /\ view'[r] > view[r]
            /\ msg = NewView(r, view'[r], machine[r].qc_high)
  /\ proposed' = proposed

\* The steps that leave views, proposals and NewView messages alone.
LEMMA SameView ==
  ASSUME TypeOK, NEW r \in Replica,
         UNCHANGED <<view, new_view_set, proposed>>,
         \A msg \in net' : msg.type = "NewView" => msg \in net
  PROVE  EnterView(r)
BY DEF TypeOK, EnterView

\* Every step of a loop but a proposal only enters a view, if anything.
LEMMA StepEntersView ==
  ASSUME TypeOK, NEW r \in Replica, Step(r), ~Propose(r)
  PROVE  EnterView(r)
<1>1. ASSUME NEW q, NEW msgs, TimeoutEffect(r, q, msgs), UNCHANGED proposed,
             \A msg \in msgs : msg.type = "NewView" => msg \in net
      PROVE  EnterView(r)
  <2>1. \A s \in Replica : new_view_set'[s] \subseteq new_view_set[s]
    BY <1>1 DEF TypeOK, TimeoutEffect
  <2>2. \A msg \in net' :
          msg.type = "NewView" =>
            \/ msg \in net
            \/ /\ view'[r] > view[r]
               /\ msg = NewView(r, view'[r], machine[r].qc_high)
    BY <1>1 DEF TimeoutEffect
  <2> QED
    BY <1>1, <2>1, <2>2 DEF TimeoutEffect, EnterView
<1>2. CASE Tick(r)
  BY <1>2, SameView DEF Tick
<1>3. CASE LocalTimeout(r)
  BY <1>1, <1>3, LocalTimeoutEffect
<1>4. CASE SyncNext(r)
  BY <1>4, SameView DEF SyncNext
<1>5. CASE SyncEnd(r)
  BY <1>5, SameView DEF SyncEnd
<1>6. CASE EmitNewProposal(r)
  BY <1>6, SameView DEF EmitNewProposal
<1>7. CASE ApplyUpdateQCHigh(r)
  BY <1>7, SameView DEF ApplyUpdateQCHigh
<1>8. CASE EmitSignature(r)
  <2>1. \A msg \in net \cup {VoteMessage(r)} : msg.type = "NewView" => msg \in net
    BY DEF VoteMessage
  <2> QED
    BY <1>1, <1>8, <2>1, EmitSignatureEffect
<1>9. CASE FinishBranchSync(r)
  BY <1>9, FinishBranchSyncEffect, SameView DEF PendingEffect
<1>10. CASE ReachConsensus(r)
  BY <1>1, <1>10, ReachConsensusEffect
<1> QED
  BY <1>2, <1>3, <1>4, <1>5, <1>6, <1>7, <1>8, <1>9, <1>10 DEF Step

\* Receiving anything but a NewView message leaves the views alone.
LEMMA RecvEntersView ==
  ASSUME TypeOK, NEW msg \in net, Recv(msg), ~RecvNewView(msg)
  PROVE  msg.to \in Replica /\ EnterView(msg.to)
<1>0. msg.to \in Replica
  BY MessageFields DEF TypeOK
<1>1. CASE RecvNewProposal(msg)
  BY <1>0, <1>1, RecvNewProposalEffect, SameView DEF PendingEffect
<1>2. CASE RecvAcceptProposal(msg)
  BY <1>0, <1>2, SameView DEF RecvAcceptProposal
<1>3. CASE RecvBranchSyncRequest(msg)
  BY <1>0, <1>3, SameView DEF RecvBranchSyncRequest
<1>4. CASE RecvBranchSyncResponse(msg)
  BY <1>0, <1>4, SameView DEF RecvBranchSyncResponse
<1> QED
  BY <1>1, <1>2, <1>3, <1>4 DEF Recv
-----------------------------------------------------------------------------
\* Two quorums overlap: twice the threshold and one more covers the replicas.
LEMMA ThresholdBound ==
  /\ Cardinality(Replica) \in Nat /\ Threshold \in Nat
  /\ 2 * Threshold + 1 >= Cardinality(Replica)
<1>1. Cardinality(Replica) \in Nat /\ Cardinality(Replica) # 0
  BY ReplicaAssumption, FS_CardinalityType, FS_EmptySet
<1> DEFINE n == Cardinality(Replica)
<1> HIDE DEF n
<1>2. ASSUME n \in Nat, n # 0
      PROVE  /\ (2 * n) \div 3 \in Nat
             /\ 2 * ((2 * n) \div 3) + 1 >= n
  BY <1>2, Z3
<1> QED
  BY <1>1, <1>2 DEF n, Threshold

\* A set of replicas has a size, and a subset is no larger.
LEMMA ReplicaSubset ==
  ASSUME NEW S, NEW T, S \subseteq T, T \subseteq Replica
  PROVE  /\ Cardinality(S) \in Nat /\ Cardinality(T) \in Nat
         /\ Cardinality(S) <= Cardinality(T)
         /\ Cardinality(Replica \ S) + Cardinality(S) = Cardinality(Replica)
<1>1. IsFiniteSet(T) /\ Cardinality(T) \in Nat
  BY ReplicaAssumption, FS_Subset, FS_CardinalityType
<1>2. IsFiniteSet(S) /\ Cardinality(S) \in Nat /\ Cardinality(S) <= Cardinality(T)
  BY <1>1, FS_Subset, FS_CardinalityType
<1>3. /\ Cardinality(Replica \ S) = Cardinality(Replica) - Cardinality(Replica \cap S)
      /\ Cardinality(Replica) \in Nat
  BY <1>2, ReplicaAssumption, FS_Difference, FS_CardinalityType
<1>4. Replica \cap S = S
  OBVIOUS
<1>5. Cardinality(Replica \cap S) = Cardinality(S)
  BY <1>4, Zenon
<1> QED
  BY <1>1, <1>2, <1>3, <1>5

\* What holds of a proposal in NewViewsSpent survives a step that lets no more
\* replicas announce its view.
LEMMA SpentStays ==
  ASSUME NEW v, NewViewsSpent, NEW p \in proposed, v = p.prop.height,
         Announcing(v)' \subseteq Announcing(v)
  PROVE  /\ p.from = GetLeader(v) /\ v \in 1 .. LastView
         /\ Cardinality(Announcing(v)') + Threshold < Cardinality(Replica)
<1>1. Announcing(v) \subseteq Replica
  BY DEF Announcing
<1>2. /\ Cardinality(Announcing(v)') \in Nat /\ Cardinality(Announcing(v)) \in Nat
      /\ Cardinality(Announcing(v)') <= Cardinality(Announcing(v))
  BY <1>1, ReplicaSubset
<1>3. /\ p.from = GetLeader(v) /\ v \in 1 .. LastView
      /\ Cardinality(Announcing(v)) + Threshold < Cardinality(Replica)
  BY DEF NewViewsSpent
<1> QED
  BY <1>2, <1>3, ThresholdBound

\* Entering a view keeps NewViewsSpent: the one message sent is for a view its
\* sender was not in yet.
LEMMA EnterViewSpent ==
  ASSUME TypeOK, NewViewsSpent, NEW r \in Replica, EnterView(r)
  PROVE  NewViewsSpent'
<1> DEFINE nv == NewView(r, view'[r], machine[r].qc_high)
<1>0. /\ \A f \in Replica : view[f] \in Nat /\ view'[f] \in Nat /\ view[f] <= view'[f]
      /\ \A f \in Replica : f # r => view'[f] = view[f]
  BY MachineType, MaxViewAssumption DEF EnterView, TypeOK, LastView
<1>1. /\ nv.type = "NewView" /\ nv.from = r /\ nv.view = view'[r]
      /\ nv.to = GetLeader(view'[r])
  BY DEF NewView
<1>2. \A msg \in net' : msg.type = "NewView" => msg \in net \/ (msg = nv /\ view'[r] > view[r])
  BY DEF EnterView
<1> HIDE DEF nv
<1>3. \A msg \in net : /\ msg.from \in Replica
                       /\ msg.type = "NewView" => msg.view \in Nat
  BY MessageFields, MaxViewAssumption DEF TypeOK, LastView
<1>4. \A msg \in net' :
        msg.type = "NewView" => msg.to = GetLeader(msg.view) /\ msg.view <= view'[msg.from]
  BY <1>0, <1>1, <1>2, <1>3 DEF NewViewsSpent
<1>5. \A a \in net : a.type = "NewView" /\ a.from = r => a.view <= view[r]
  BY DEF NewViewsSpent
<1>6. ASSUME NEW a \in net', NEW b \in net',
             a.type = "NewView", b.type = "NewView", a.from = b.from, a.view = b.view
      PROVE  a = b
  BY <1>0, <1>1, <1>2, <1>3, <1>5, <1>6 DEF NewViewsSpent
<1>7. ASSUME NEW s \in Replica, NEW e \in new_view_set'[s]
      PROVE  /\ s = GetLeader(e[1])
             /\ e[1] <= view'[e[2]]
             /\ \A msg \in net' :
                  ~(msg.type = "NewView" /\ msg.view = e[1] /\ msg.from = e[2])
  <2>1. e \in new_view_set[s] /\ e[1] \in Nat /\ e[2] \in Replica
    BY <1>7, MaxViewAssumption DEF EnterView, TypeOK, LastView
  <2>2. /\ s = GetLeader(e[1]) /\ e[1] <= view[e[2]]
        /\ \A msg \in net :
              ~(msg.type = "NewView" /\ msg.view = e[1] /\ msg.from = e[2])
    BY <2>1 DEF NewViewsSpent
  <2> QED
    BY <1>0, <1>1, <1>2, <2>1, <2>2
<1>8. ASSUME NEW p \in proposed'
      PROVE  /\ p.from = GetLeader(p.prop.height)
             /\ p.prop.height \in 1 .. LastView
             /\ Cardinality(Announcing(p.prop.height)') + Threshold < Cardinality(Replica)
  <2> DEFINE v == p.prop.height
  <2>1. p \in proposed
    BY <1>8 DEF EnterView
  <2>2. v \in 1 .. LastView /\ v \in Nat /\ GetLeader(v) \in Replica
    BY <2>1, LeaderType DEF NewViewsSpent
  <2> HIDE DEF v
  <2>3. ASSUME NEW f \in Announcing(v)' PROVE f \in Announcing(v)
    <3>1. f \in Replica
      BY <2>3 DEF Announcing
    <3>2. CASE view'[f] < v
      BY <1>0, <2>2, <3>1, <3>2 DEF Announcing
    <3>3. CASE \E msg \in net' : msg.type = "NewView" /\ msg.from = f /\ msg.view = v
      BY <1>0, <1>1, <1>2, <2>2, <3>1, <3>3 DEF Announcing
    <3>4. CASE <<v, f>> \in new_view_set'[GetLeader(v)]
      BY <2>2, <3>1, <3>4 DEF Announcing, EnterView
    <3> QED
      BY <2>3, <3>2, <3>3, <3>4 DEF Announcing
  <2> QED
    BY <2>1, <2>3, SpentStays DEF v
<1> QED
  BY <1>4, <1>6, <1>7, <1>8 DEF NewViewsSpent

\* Counting a NewView message keeps NewViewsSpent: it leaves the network.
LEMMA RecvNewViewSpent ==
  ASSUME TypeOK, NewViewsSpent, NEW msg \in net, RecvNewView(msg)
  PROVE  NewViewsSpent'
<1>0. /\ msg.type = "NewView" /\ net' = net \ {msg} /\ UNCHANGED <<view, proposed>>
      /\ new_view_set' =
           [new_view_set EXCEPT ![msg.to] = @ \cup {<<msg.view, msg.from>>}]
  BY DEF RecvNewView
<1>1. msg.to \in Replica /\ msg.from \in Replica /\ msg.view \in 1 .. LastView
  BY <1>0, MessageFields DEF TypeOK
<1>2. msg.to = GetLeader(msg.view) /\ msg.view <= view[msg.from]
  BY <1>0 DEF NewViewsSpent
<1>3. \A m \in net' : m \in net
  BY <1>0
<1>4. ASSUME NEW s \in Replica, NEW e \in new_view_set'[s]
      PROVE  /\ s = GetLeader(e[1])
             /\ e[1] <= view'[e[2]]
             /\ \A m \in net' :
                  ~(m.type = "NewView" /\ m.view = e[1] /\ m.from = e[2])
  <2>1. CASE e \in new_view_set[s]
    BY <1>0, <1>3, <2>1 DEF NewViewsSpent
  <2>2. CASE s = msg.to /\ e = <<msg.view, msg.from>>
    BY <1>0, <1>2, <2>2 DEF NewViewsSpent
  <2> QED
    BY <1>0, <1>1, <1>4, <2>1, <2>2 DEF TypeOK
<1>5. ASSUME NEW p \in proposed'
      PROVE  /\ p.from = GetLeader(p.prop.height)
             /\ p.prop.height \in 1 .. LastView
             /\ Cardinality(Announcing(p.prop.height)') + Threshold < Cardinality(Replica)
  <2> DEFINE v == p.prop.height
  <2>1. p \in proposed
    BY <1>0, <1>5
  <2>2. GetLeader(v) \in Replica
    BY <2>1, LeaderType DEF NewViewsSpent
  <2> HIDE DEF v
  <2>3. ASSUME NEW f \in Announcing(v)' PROVE f \in Announcing(v)
    <3>1. f \in Replica
      BY <2>3 DEF Announcing
    <3>2. CASE view'[f] < v
      BY <1>0, <3>1, <3>2 DEF Announcing
    <3>3. CASE \E m \in net' : m.type = "NewView" /\ m.from = f /\ m.view = v
      BY <1>3, <3>1, <3>3 DEF Announcing
    <3>4. CASE <<v, f>> \in new_view_set'[GetLeader(v)]
      <4>1. \/ <<v, f>> \in new_view_set[GetLeader(v)]
            \/ <<v, f>> = <<msg.view, msg.from>>
        BY <1>0, <1>1, <2>2, <3>4 DEF TypeOK
      <4> QED
        BY <1>0, <3>1, <4>1 DEF Announcing
    <3> QED
      BY <2>3, <3>2, <3>3, <3>4 DEF Announcing
  <2> QED
    BY <2>1, <2>3, SpentStays DEF v
<1>6. /\ \A m \in net' : m.type = "NewView" => /\ m.to = GetLeader(m.view)
                                              /\ m.view <= view'[m.from]
      /\ \A a, b \in net' :
           /\ a.type = "NewView" /\ b.type = "NewView"
           /\ a.from = b.from /\ a.view = b.view
           => a = b
  BY <1>0, <1>3 DEF NewViewsSpent
<1> QED
  BY <1>4, <1>5, <1>6 DEF NewViewsSpent

\* What make_new_proposal and on_beat do: the proposal is for the replica's view,
\* and its NewView messages, more than Threshold, are used up.
LEMMA ProposeEffect ==
  ASSUME TypeOK, NEW r \in Replica, Propose(r)
  PROVE  LET prop == MakeLeaf(machine[r])
             v == view[r]
             received == {f \in Replica : <<v, f>> \in new_view_set[r]}
         IN  /\ prop \in TreeNode /\ prop.height = v
             /\ proposed' = proposed \cup {[from |-> r, prop |-> prop]}
             /\ Cardinality(received) > Threshold
             /\ UNCHANGED <<view, net>>
             /\ new_view_set' = [new_view_set EXCEPT ![r] = CleanNewViewSet(@, v + 1)]
             /\ v \in 1 .. LastView /\ v \in Nat
<1> DEFINE m == machine[r]
           res == OnBeat(m, r)
<1>1. /\ MakeLeaf(m) \in TreeNode /\ MakeLeaf(m).height = view[r]
      /\ res.ready = NewProposalReady(MakeLeaf(m))
      /\ view[r] \in 1 .. LastView /\ view[r] \in Nat
  BY MachineType, OnBeatEffect
<1>2. res.ready.prop = MakeLeaf(m)
  BY <1>1 DEF NewProposalReady
<1> QED
  BY <1>1, <1>2 DEF Propose

\* A proposal keeps NewViewsSpent, and is the first of its view: had there been
\* one, fewer than a quorum could have been counted.
LEMMA ProposeSpent ==
  ASSUME TypeOK, NewViewsSpent, NEW r \in Replica, Propose(r)
  PROVE  /\ NewViewsSpent'
         /\ r = GetLeader(view[r])
         /\ \A p \in proposed : p.prop.height # view[r]
         /\ Cardinality({f \in Replica : view[f] >= view[r]}) > Threshold
<1>0. PICK v : v = view[r]
  OBVIOUS
<1> DEFINE prop == MakeLeaf(machine[r])
           received == {f \in Replica : <<v, f>> \in new_view_set[r]}
           new == [from |-> r, prop |-> prop]
<1>1. /\ prop \in TreeNode /\ prop.height = v
      /\ proposed' = proposed \cup {new}
      /\ Cardinality(received) > Threshold
      /\ UNCHANGED <<view, net>>
      /\ new_view_set' = [new_view_set EXCEPT ![r] = CleanNewViewSet(@, v + 1)]
      /\ v \in 1 .. LastView /\ v \in Nat
  BY <1>0, ProposeEffect
<1> HIDE DEF prop
<1>2. received \subseteq Replica /\ Cardinality(received) \in Nat
  BY ReplicaSubset
<1>3. \E f \in Replica : <<v, f>> \in new_view_set[r]
  <2>1. received = {} => Cardinality(received) = 0
    BY FS_EmptySet, Zenon
  <2>2. received # {}
    BY <1>1, <2>1, ThresholdBound
  <2> QED
    BY <2>2
<1>4. r = GetLeader(v)
  BY <1>3 DEF NewViewsSpent
<1>5. received \subseteq Announcing(v) /\ Announcing(v) \subseteq Replica
  BY <1>4 DEF Announcing
<1>6. ASSUME NEW p \in proposed, p.prop.height = v PROVE FALSE
  <2>1. Cardinality(Announcing(v)) + Threshold < Cardinality(Replica)
    BY <1>6 DEF NewViewsSpent
  <2>2. Cardinality(received) <= Cardinality(Announcing(v)) /\ Cardinality(Announcing(v)) \in Nat
    BY <1>5, ReplicaSubset
  <2> QED
    BY <1>1, <1>2, <2>1, <2>2, ThresholdBound
<1>7. /\ \A s \in Replica : new_view_set'[s] \subseteq new_view_set[s]
      /\ \A f \in Replica : <<v, f>> \notin new_view_set'[r]
  BY <1>1 DEF TypeOK, CleanNewViewSet
<1>8. \A f \in received : /\ view[f] >= v
                         /\ \A msg \in net : ~(msg.type = "NewView" /\ msg.view = v /\ msg.from = f)
  <2>1. \A f \in received : <<v, f>> \in new_view_set[r] /\ view[f] \in Nat
    BY MachineType
  <2> QED
    BY <1>1, <2>1 DEF NewViewsSpent
<1>9. Cardinality(Announcing(v)') + Threshold < Cardinality(Replica)
  <2>1. Announcing(v)' \subseteq Replica \ received
    BY <1>1, <1>4, <1>7, <1>8, MachineType DEF Announcing
  <2>2. /\ Cardinality(Announcing(v)') <= Cardinality(Replica \ received)
        /\ Cardinality(Announcing(v)') \in Nat /\ Cardinality(Replica \ received) \in Nat
    BY <2>1, ReplicaSubset
  <2>3. Cardinality(Replica \ received) + Cardinality(received) = Cardinality(Replica)
    BY <1>2, ReplicaSubset
  <2> QED
    BY <1>1, <1>2, <2>2, <2>3, ThresholdBound
<1>10. ASSUME NEW p \in proposed'
       PROVE  /\ p.from = GetLeader(p.prop.height)
              /\ p.prop.height \in 1 .. LastView
              /\ Cardinality(Announcing(p.prop.height)') + Threshold < Cardinality(Replica)
  <2>1. CASE p = new
    BY <1>1, <1>4, <1>9, <2>1
  <2>2. CASE p \in proposed
    <3> DEFINE h == p.prop.height
    <3>1. GetLeader(h) \in Replica
      BY <2>2, LeaderType DEF NewViewsSpent
    <3> HIDE DEF h
    <3>2. Announcing(h)' \subseteq Announcing(h)
      BY <1>1, <1>7, <3>1 DEF Announcing
    <3> QED
      BY <2>2, <3>2, SpentStays DEF h
  <2> QED
    BY <1>1, <1>10, <2>1, <2>2
<1>11. ASSUME NEW s \in Replica, NEW e \in new_view_set'[s]
       PROVE  /\ s = GetLeader(e[1])
              /\ e[1] <= view'[e[2]]
              /\ \A msg \in net' :
                   ~(msg.type = "NewView" /\ msg.view = e[1] /\ msg.from = e[2])
  BY <1>1, <1>7, <1>11 DEF NewViewsSpent
<1>12. NewViewsSpent'
  BY <1>1, <1>10, <1>11 DEF NewViewsSpent
<1>13. Cardinality({f \in Replica : view[f] >= v}) > Threshold
  <2>1. received \subseteq {f \in Replica : view[f] >= v}
    BY <1>8
  <2>2. /\ Cardinality(received) <= Cardinality({f \in Replica : view[f] >= v})
        /\ Cardinality({f \in Replica : view[f] >= v}) \in Nat
    BY <2>1, ReplicaSubset
  <2> QED
    BY <1>1, <1>2, <2>2, ThresholdBound
<1> QED
  BY <1>0, <1>4, <1>6, <1>12, <1>13

\* The initial NewView messages are one for each replica, all to the leader.
LEMMA SpentInit == Init => NewViewsSpent
<1> SUFFICES ASSUME Init PROVE NewViewsSpent
  OBVIOUS
<1>1. \A msg \in net : \E r \in Replica : msg = NewView(r, 1, INIT_QC)
  BY DEF Init
<1>2. \A msg \in net : \E r \in Replica : /\ msg.from = r /\ msg.view = 1
                                          /\ msg.to = GetLeader(1)
                                          /\ msg = NewView(r, 1, INIT_QC)
  BY <1>1 DEF NewView
<1> QED
  BY <1>2 DEF Init, NewViewsSpent

\* The pacemakers never count a NewView message twice, and spend a quorum of
\* them with each proposal (NewViewsSpent).
THEOREM NewViewsAreSpent == Spec => []NewViewsSpent
<1>1. TypeOK /\ NewViewsSpent /\ [Next]_vars => NewViewsSpent'
  <2> SUFFICES ASSUME TypeOK, NewViewsSpent, [Next]_vars PROVE NewViewsSpent'
    OBVIOUS
  <2>1. ASSUME NEW r \in Replica, Step(r) PROVE NewViewsSpent'
    BY <2>1, ProposeSpent, StepEntersView, EnterViewSpent
  <2>2. ASSUME NEW msg \in net, Recv(msg) PROVE NewViewsSpent'
    BY <2>2, RecvNewViewSpent, RecvEntersView, EnterViewSpent
  <2>3. CASE UNCHANGED vars
    BY <2>3 DEF vars, pmVars, NewViewsSpent, Announcing
  <2> QED
    BY <2>1, <2>2, <2>3 DEF Next
<1> QED
  BY <1>1, SpentInit, TypeCorrect, PTL DEF Spec

\* Only a proposal step adds a proposal.
LEMMA OnlyProposeProposes ==
  ASSUME TypeOK, [Next]_vars, proposed' # proposed
  PROVE  \E r \in Replica : Propose(r)
<1>1. ASSUME NEW r \in Replica, Step(r) PROVE Propose(r)
  BY <1>1, StepEntersView DEF EnterView
<1>2. ASSUME NEW msg \in net, Recv(msg) PROVE FALSE
  BY <1>2, RecvEntersView DEF EnterView, RecvNewView
<1>3. CASE UNCHANGED vars
  BY <1>3 DEF vars
<1> QED
  BY <1>1, <1>2, <1>3 DEF Next

\* No view ever has two proposals: make_new_proposal uses up its quorum of
\* NewView messages, and too few replicas are left to send another quorum.
THEOREM OneProposal == Spec => []OneProposalPerView
<1>1. Init => OneProposalPerView
  BY DEF Init, OneProposalPerView
<1>2. TypeOK /\ NewViewsSpent /\ OneProposalPerView /\ [Next]_vars => OneProposalPerView'
  <2> SUFFICES ASSUME TypeOK, NewViewsSpent, OneProposalPerView, [Next]_vars
               PROVE  OneProposalPerView'
    OBVIOUS
  <2>1. CASE proposed' = proposed
    BY <2>1 DEF OneProposalPerView
  <2>2. CASE proposed' # proposed
    <3>1. PICK r \in Replica : Propose(r)
      BY <2>2, OnlyProposeProposes
    <3> DEFINE new == [from |-> r, prop |-> MakeLeaf(machine[r])]
    <3>2. new.prop.height = view[r] /\ proposed' = proposed \cup {new}
      BY <3>1, ProposeEffect
    <3> HIDE DEF new
    <3>3. \A p \in proposed : p.prop.height # new.prop.height
      BY <3>1, <3>2, ProposeSpent
    <3> QED
      BY <3>2, <3>3 DEF OneProposalPerView
  <2> QED
    BY <2>1, <2>2
<1> QED
  BY <1>1, <1>2, TypeCorrect, NewViewsAreSpent, PTL DEF Spec

\* A step that may enter a view does what Views allows.
LEMMA EnterViewImplements ==
  ASSUME TypeOK, NEW r \in Replica, EnterView(r)
  PROVE  [V!Next]_<<view, proposed>>
<1>1. CASE view'[r] = view[r]
  BY <1>1 DEF EnterView, TypeOK
<1>2. CASE view'[r] # view[r]
  <2>1. view'[r] > view[r]
    BY <1>2, MachineType, MaxViewAssumption DEF EnterView, LastView
  <2> QED
    BY <2>1 DEF EnterView, V!Next, V!Enter
<1> QED
  BY <1>1, <1>2

\* The pacemakers implement Views.
THEOREM PacemakersImplementViews == Spec => ImplementsViews
<1>1. Init => V!Init
  BY DEF Init, V!Init
<1>2. TypeOK /\ NewViewsSpent /\ [Next]_vars => [V!Next]_<<view, proposed>>
  <2> SUFFICES ASSUME TypeOK, NewViewsSpent, [Next]_vars
               PROVE  [V!Next]_<<view, proposed>>
    OBVIOUS
  <2>1. ASSUME NEW r \in Replica, Propose(r) PROVE V!Open(r)
    <3>1. /\ r = GetLeader(view[r])
          /\ \A p \in proposed : p.prop.height # view[r]
          /\ Cardinality({f \in Replica : view[f] >= view[r]}) > Threshold
      BY <2>1, ProposeSpent
    <3> DEFINE new == [from |-> r, prop |-> MakeLeaf(machine[r])]
    <3>2. /\ new.from = r /\ new.prop.height = view[r]
          /\ proposed' = proposed \cup {new} /\ UNCHANGED view
      BY <2>1, ProposeEffect
    <3> HIDE DEF new
    <3> QED
      BY <3>1, <3>2 DEF V!Open, GetLeader, Quorum
  <2>2. ASSUME NEW r \in Replica, Step(r) PROVE [V!Next]_<<view, proposed>>
    BY <2>1, <2>2, StepEntersView, EnterViewImplements DEF V!Next
  <2>3. ASSUME NEW msg \in net, Recv(msg) PROVE [V!Next]_<<view, proposed>>
    BY <2>3, RecvEntersView, EnterViewImplements DEF RecvNewView
  <2>4. CASE UNCHANGED vars
    BY <2>4 DEF vars, pmVars
  <2> QED
    BY <2>2, <2>3, <2>4 DEF Next
<1> QED
  BY <1>1, <1>2, TypeCorrect, NewViewsAreSpent, PTL DEF Spec, ImplementsViews, V!Spec

=============================================================================
