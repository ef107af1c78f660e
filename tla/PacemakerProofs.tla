-------------------------- MODULE PacemakerProofs ---------------------------
(***************************************************************************)
(* Theorems about the running replicas, for every number of replicas, every*)
(* leader election, and every bound on views and timers.                   *)
(***************************************************************************)
EXTENDS Pacemaker, MachineProofs

\* A view is followed by one that still has a leader, unless it is the last.
LEMMA NextViewType ==
  ASSUME NEW v \in 1 .. LastView, v < LastView
  PROVE  v + 1 \in 1 .. LastView /\ LastView \in Nat
BY MaxViewAssumption DEF LastView

\* NewView and BranchSyncRequest messages go to a replica (get_leader).
LEMMA LeaderType ==
  ASSUME NEW v \in 1 .. LastView
  PROVE  v \in Nat /\ GetLeader(v) \in Replica
BY LeaderAssumption, MaxViewAssumption DEF GetLeader, LastView

\* What goto_new_view sends is a message.
LEMMA NewViewType ==
  ASSUME NEW r \in Replica, NEW v \in 1 .. LastView, NEW qc \in QC
  PROVE  NewView(r, v, qc) \in Message
BY LeaderType DEF NewView, Message

\* So are a proposal sent to a replica and a vote sent to its proposer.
LEMMA ProposalAndVoteTypes ==
  ASSUME NEW from \in Replica, NEW to \in Replica, NEW prop \in TreeNode, NEW sign \in Hash
  PROVE  /\ [type |-> "NewProposal", from |-> from, to |-> to, prop |-> prop] \in Message
         /\ [type |-> "AcceptProposal", from |-> from, to |-> to, prop |-> prop,
             sign |-> sign] \in Message
BY DEF Message

\* Ready values are queued, or dropped when Nil (emit_safety_event).
LEMMA EnqueueType ==
  ASSUME NEW q \in Seq(Ready), NEW ready, ready = Nil \/ ready \in Ready
  PROVE  Enqueue(q, ready) \in Seq(Ready)
BY DEF Enqueue

\* Every turn leaves a queue and a phase of the loop behind.
LEMMA ContinueType ==
  ASSUME TypeOK, NEW r \in Replica, NEW q \in Seq(Ready), Continue(r, q)
  PROVE  /\ ready_queue' \in [Replica -> Seq(Ready)]
         /\ phase' \in [Replica -> Phase]
BY DEF TypeOK, Continue, Phase

\* The answers of the machine are Ready values.
LEMMA ReadyTypes ==
  /\ \A p \in TreeNode : /\ NewProposalReady(p) \in Ready
                         /\ UpdateQCHighReady(p) \in Ready
                         /\ BranchSyncDoneReady(p) \in Ready
                         /\ \A to \in Replica : SignatureReady(to, p) \in Ready
  /\ \A v \in Nat : ReachConsensusReady(v) \in Ready
BY DEF Ready, NewProposalReady, UpdateQCHighReady, BranchSyncDoneReady,
       SignatureReady, ReachConsensusReady

\* What check_pending_prop does at replica r, given the machine m, the pending
\* proposals, the queue q and the messages msgs: at most one pending proposal
\* goes to the machine, which may sign it; otherwise at most a request is sent.
PendingEffect(r, m, pending, q, msgs) ==
  /\ machine' = [machine EXCEPT ![r] = machine'[r]]
  /\ machine'[r] \in MachineState
  /\ machine'[r].nodes \subseteq m.nodes \cup {o.prop : o \in pending}
  /\ machine'[r].leaf \in m.nodes \cup {m.leaf} \cup {o.prop : o \in pending}
  /\ machine'[r].qc_high \in {m.qc_high} \cup {o.prop.justify : o \in pending}
  /\ machine'[r].voting_set = m.voting_set
  /\ machine'[r].current_view = m.current_view
  /\ pending_prop' = [pending_prop EXCEPT ![r] = pending_prop'[r]]
  /\ pending_prop'[r] \subseteq pending
  /\ sync_state' = [sync_state EXCEPT ![r] = sync_state'[r]]
  /\ sync_state'[r] \in {"IDLE", "SYNCHRONIZING"}
  /\ net' \subseteq Message
  /\ msgs \subseteq net'
  /\ \A msg \in net' : msg \in msgs \/ msg.type = "BranchSyncRequest"
  /\ ready_queue' = [ready_queue EXCEPT ![r] = ready_queue'[r]]
  /\ phase' \in [Replica -> Phase]
  /\ \/ signed' = signed /\ ready_queue'[r] = q
     \/ \E o \in pending :
          /\ signed' = [signed EXCEPT ![r] = @ \cup {HashOf(o.prop)}]
          /\ ready_queue'[r] = Append(q, SignatureReady(o.from, o.prop))

\* check_pending_prop has that effect.
LEMMA CheckPendingPropEffect ==
  ASSUME TypeOK,
         NEW r \in Replica, NEW m \in MachineState, NEW v \in 1 .. LastView,
         NEW pending \in SUBSET Origin, NEW sy \in {"IDLE", "SYNCHRONIZING"},
         NEW lh \in Nat, NEW q \in Seq(Ready), NEW msgs \in SUBSET Message,
         CheckPendingProp(r, m, v, pending, sy, lh, q, msgs)
  PROVE  PendingEffect(r, m, pending, q, msgs)
<1>1. CASE pending = {} /\ NothingPending(r, m, sy, q, msgs)
  BY <1>1 DEF PendingEffect, NothingPending, TypeOK, Continue, Phase
<1>2. CASE \E sw \in pending : EmitPending(r, m, pending, sw, sy, q, msgs)
  <2>1. PICK sw \in pending : EmitPending(r, m, pending, sw, sy, q, msgs)
    BY <1>2
  <2> DEFINE res == OnRecvProposal(m, sw.from, sw.prop)
  <2>2. sw.from \in Replica /\ sw.prop \in TreeNode
    BY DEF Origin
  <2>3. /\ res.m \in MachineState
        /\ res.m.nodes \subseteq m.nodes \cup {sw.prop}
        /\ res.m.leaf \in m.nodes \cup {m.leaf, sw.prop}
        /\ res.m.qc_high \in {m.qc_high, sw.prop.justify}
        /\ res.m.voting_set = m.voting_set
        /\ res.m.current_view = m.current_view
        /\ res.ready \in {Nil, SignatureReady(sw.from, sw.prop)}
    BY <2>2, OnRecvProposalEffect
  <2>4. /\ machine' = [machine EXCEPT ![r] = res.m]
        /\ pending_prop' = [pending_prop EXCEPT ![r] = pending \ {sw}]
        /\ sync_state' = [sync_state EXCEPT ![r] = sy]
        /\ net' = msgs
        /\ signed' = IF res.ready = Nil THEN signed
                     ELSE [signed EXCEPT ![r] = @ \cup {HashOf(sw.prop)}]
        /\ Continue(r, Enqueue(q, res.ready))
    BY <2>1 DEF EmitPending, Sign
  <2> HIDE DEF res
  <2>5. machine' = [machine EXCEPT ![r] = machine'[r]] /\ machine'[r] = res.m
    BY <2>4 DEF TypeOK
  <2>6. /\ pending_prop' = [pending_prop EXCEPT ![r] = pending_prop'[r]]
        /\ pending_prop'[r] \subseteq pending
        /\ sync_state' = [sync_state EXCEPT ![r] = sync_state'[r]]
        /\ sync_state'[r] \in {"IDLE", "SYNCHRONIZING"}
    BY <2>4 DEF TypeOK
  <2>7. /\ ready_queue' = [ready_queue EXCEPT ![r] = ready_queue'[r]]
        /\ phase' \in [Replica -> Phase]
        /\ ready_queue'[r] = Enqueue(q, res.ready)
    BY <2>4 DEF TypeOK, Continue, Phase
  <2>8. SignatureReady(sw.from, sw.prop) # Nil
    BY DEF SignatureReady, Nil
  <2>9. \/ signed' = signed /\ ready_queue'[r] = q
        \/ /\ signed' = [signed EXCEPT ![r] = @ \cup {HashOf(sw.prop)}]
           /\ ready_queue'[r] = Append(q, SignatureReady(sw.from, sw.prop))
    BY <2>3, <2>4, <2>7, <2>8 DEF Enqueue
  <2>10. /\ machine'[r].nodes \subseteq m.nodes \cup {o.prop : o \in pending}
         /\ machine'[r].leaf \in m.nodes \cup {m.leaf} \cup {o.prop : o \in pending}
         /\ machine'[r].qc_high \in {m.qc_high} \cup {o.prop.justify : o \in pending}
    BY <2>3, <2>5
  <2>11. \/ signed' = signed /\ ready_queue'[r] = q
         \/ \E o \in pending :
              /\ signed' = [signed EXCEPT ![r] = @ \cup {HashOf(o.prop)}]
              /\ ready_queue'[r] = Append(q, SignatureReady(o.from, o.prop))
    BY <2>9
  <2>12. /\ net' \subseteq Message /\ msgs \subseteq net'
         /\ \A msg \in net' : msg \in msgs \/ msg.type = "BranchSyncRequest"
    BY <2>4
  <2> QED
    BY <2>3, <2>5, <2>6, <2>7, <2>10, <2>11, <2>12 DEF PendingEffect
<1>3. CASE \E sw \in pending : RequestBranch(r, m, v, pending, sy, lh, q, msgs)
  <2>1. [type |-> "BranchSyncRequest", from |-> r, to |-> GetLeader(v), view |-> v,
         grow_from |-> lh] \in Message
    BY LeaderType DEF Message
  <2>2. /\ net' \subseteq Message /\ msgs \subseteq net'
        /\ \A msg \in net' : msg \in msgs \/ msg.type = "BranchSyncRequest"
    BY <1>3, <2>1 DEF RequestBranch
  <2>3. /\ ready_queue' = [ready_queue EXCEPT ![r] = ready_queue'[r]]
        /\ phase' \in [Replica -> Phase] /\ ready_queue'[r] = q
    BY <1>3 DEF RequestBranch, TypeOK, Continue, Phase
  <2>4. machine' = [machine EXCEPT ![r] = machine'[r]] /\ machine'[r] = m
    BY <1>3 DEF RequestBranch, TypeOK
  <2>5. /\ pending_prop' = [pending_prop EXCEPT ![r] = pending_prop'[r]]
        /\ pending_prop'[r] \subseteq pending
        /\ sync_state' = [sync_state EXCEPT ![r] = sync_state'[r]]
        /\ sync_state'[r] \in {"IDLE", "SYNCHRONIZING"}
    BY <1>3 DEF RequestBranch, TypeOK
  <2> QED
    BY <1>3, <2>2, <2>3, <2>4, <2>5 DEF PendingEffect, RequestBranch
<1>4. LowestJustify(pending) \subseteq pending
  BY DEF LowestJustify
<1> QED
  BY <1>1, <1>2, <1>3, <1>4 DEF CheckPendingProp
\* What process_local_timeout does at replica r, given the queue and messages:
\* a replica moves to a later view and sends the one NewView message of that
\* view, or changes no view at all.
TimeoutEffect(r, q, msgs) ==
  /\ machine' = [machine EXCEPT ![r] = machine'[r]]
  /\ machine'[r] \in MachineState
  /\ machine'[r].nodes \subseteq
       machine[r].nodes \cup {o.prop : o \in pending_prop[r]}
  /\ machine'[r].leaf \in machine[r].nodes \cup {machine[r].leaf}
                            \cup {o.prop : o \in pending_prop[r]}
  /\ machine'[r].qc_high \in
       {machine[r].qc_high} \cup {o.prop.justify : o \in pending_prop[r]}
  /\ machine'[r].voting_set = machine[r].voting_set
  /\ machine'[r].current_view = view'[r]
  /\ view' = [view EXCEPT ![r] = view'[r]]
  /\ view'[r] \in 1 .. LastView
  /\ view'[r] >= view[r]
  /\ new_view_set' = [new_view_set EXCEPT ![r] = new_view_set'[r]]
  /\ new_view_set'[r] \subseteq new_view_set[r]
  /\ pending_prop' = [pending_prop EXCEPT ![r] = pending_prop'[r]]
  /\ pending_prop'[r] \subseteq pending_prop[r]
  /\ sync_state' = [sync_state EXCEPT ![r] = sync_state'[r]]
  /\ sync_state'[r] \in {"IDLE", "SYNCHRONIZING"}
  /\ net' \subseteq Message
  /\ msgs \subseteq net'
  /\ \A msg \in net' :
       \/ msg \in msgs
       \/ msg.type = "BranchSyncRequest"
       \/ /\ view'[r] > view[r]
          /\ msg = NewView(r, view'[r], machine[r].qc_high)
  /\ ready_queue' = [ready_queue EXCEPT ![r] = ready_queue'[r]]
  /\ phase' \in [Replica -> Phase]
  /\ \/ signed' = signed /\ ready_queue'[r] = q
     \/ \E o \in pending_prop[r] :
          /\ signed' = [signed EXCEPT ![r] = @ \cup {HashOf(o.prop)}]
          /\ ready_queue'[r] = Append(q, SignatureReady(o.from, o.prop))

\* process_local_timeout has that effect.
LEMMA ProcessLocalTimeoutEffect ==
  ASSUME TypeOK,
         NEW r \in Replica, NEW tv \in Nat,
         NEW q \in Seq(Ready), NEW msgs \in SUBSET Message,
         ProcessLocalTimeout(r, tv, q, msgs)
  PROVE  TimeoutEffect(r, q, msgs)
<1>0. /\ machine[r] \in MachineState /\ view[r] \in 1 .. LastView
      /\ machine[r].current_view = view[r] /\ machine[r].qc_high \in QC
      /\ pending_prop[r] \in SUBSET Origin
      /\ sync_state[r] \in {"IDLE", "SYNCHRONIZING"}
  BY DEF TypeOK, MachineState
<1>1. CASE tv >= view[r] /\ tv < LastView
  <2> DEFINE m == IncreaseView(machine[r], tv + 1)
             nv == NewView(r, tv + 1, m.qc_high)
             sent == msgs \cup {nv}
  <2>1. tv + 1 \in 1 .. LastView /\ tv + 1 > view[r]
    BY <1>0, <1>1, MaxViewAssumption DEF LastView
  <2>2. /\ m \in MachineState
        /\ m.nodes = machine[r].nodes /\ m.leaf = machine[r].leaf
        /\ m.qc_high = machine[r].qc_high
        /\ m.voting_set = machine[r].voting_set
        /\ m.current_view = tv + 1
    <3>1. tv + 1 \in Nat /\ tv + 1 >= machine[r].current_view
      BY <1>0, <2>1
    <3>2. machine[r] \in MachineState
      BY <1>0
    <3> QED
      BY ONLY <3>1, <3>2, IncreaseViewEffect
  <2>3. /\ view' = [view EXCEPT ![r] = tv + 1]
        /\ new_view_set' = [new_view_set EXCEPT ![r] = CleanNewViewSet(@, tv + 1)]
        /\ IF sync_state[r] = "SYNCHRONIZING"
           THEN CheckPendingProp(r, m, tv + 1, pending_prop[r], "IDLE",
                                 m.leaf.height, q, sent)
           ELSE /\ machine' = [machine EXCEPT ![r] = m]
                /\ net' = sent
                /\ Continue(r, q)
                /\ UNCHANGED <<pending_prop, sync_state, signed>>
    BY <1>1 DEF ProcessLocalTimeout
  <2> HIDE DEF m
  <2>4. nv = NewView(r, tv + 1, machine[r].qc_high) /\ nv \in Message
    BY <1>0, <2>1, <2>2, NewViewType
  <2> HIDE DEF nv
  <2>5. /\ view' = [view EXCEPT ![r] = view'[r]] /\ view'[r] = tv + 1
        /\ new_view_set' = [new_view_set EXCEPT ![r] = new_view_set'[r]]
        /\ new_view_set'[r] \subseteq new_view_set[r]
    BY <2>3 DEF TypeOK, CleanNewViewSet
  <2>6. sent \in SUBSET Message /\ m.leaf.height \in Nat
    BY <2>2, <2>4 DEF MachineState, TreeNode
  <2>7. CASE sync_state[r] = "SYNCHRONIZING"
    <3> DEFINE v == tv + 1
               pending == pending_prop[r]
               lh == m.leaf.height
    <3>0. /\ v \in 1 .. LastView /\ pending \in SUBSET Origin /\ lh \in Nat
          /\ m \in MachineState /\ sent \in SUBSET Message
      BY <1>0, <2>1, <2>2, <2>6
    <3>1. CheckPendingProp(r, m, v, pending, "IDLE", lh, q, sent)
      BY <2>3, <2>7
    <3> HIDE DEF v, pending, lh, sent
    <3>2. PendingEffect(r, m, pending, q, sent)
      BY <3>0, <3>1, CheckPendingPropEffect
    <3>3. /\ machine' = [machine EXCEPT ![r] = machine'[r]]
          /\ machine'[r] \in MachineState
          /\ machine'[r].nodes \subseteq
               machine[r].nodes \cup {o.prop : o \in pending_prop[r]}
          /\ machine'[r].leaf \in machine[r].nodes \cup {machine[r].leaf}
                                    \cup {o.prop : o \in pending_prop[r]}
          /\ machine'[r].qc_high \in
               {machine[r].qc_high} \cup {o.prop.justify : o \in pending_prop[r]}
          /\ machine'[r].voting_set = machine[r].voting_set
          /\ machine'[r].current_view = tv + 1
      BY <2>2, <3>2 DEF pending, PendingEffect
    <3>4. /\ net' \subseteq Message /\ msgs \subseteq net'
          /\ \A msg \in net' : \/ msg \in msgs
                              \/ msg.type = "BranchSyncRequest"
                              \/ msg = nv
      BY <3>2 DEF sent, PendingEffect
    <3>5. /\ pending_prop' = [pending_prop EXCEPT ![r] = pending_prop'[r]]
          /\ pending_prop'[r] \subseteq pending_prop[r]
          /\ sync_state' = [sync_state EXCEPT ![r] = sync_state'[r]]
          /\ sync_state'[r] \in {"IDLE", "SYNCHRONIZING"}
          /\ ready_queue' = [ready_queue EXCEPT ![r] = ready_queue'[r]]
          /\ phase' \in [Replica -> Phase]
          /\ \/ signed' = signed /\ ready_queue'[r] = q
             \/ \E o \in pending_prop[r] :
                  /\ signed' = [signed EXCEPT ![r] = @ \cup {HashOf(o.prop)}]
                  /\ ready_queue'[r] = Append(q, SignatureReady(o.from, o.prop))
      BY <3>2 DEF pending, PendingEffect
    <3>6. /\ machine'[r].current_view = view'[r] /\ view'[r] \in 1 .. LastView
          /\ view'[r] > view[r] /\ view'[r] >= view[r]
      BY <1>0, <2>1, <2>5, <3>3
    <3>7. \A msg \in net' : \/ msg \in msgs
                           \/ msg.type = "BranchSyncRequest"
                           \/ /\ view'[r] > view[r]
                              /\ msg = NewView(r, view'[r], machine[r].qc_high)
      BY <2>4, <2>5, <3>4, <3>6
    <3> QED
      BY ONLY <2>5, <3>3, <3>4, <3>5, <3>6, <3>7 DEF TimeoutEffect
  <2>8. CASE sync_state[r] # "SYNCHRONIZING"
    <3>1. /\ machine' = [machine EXCEPT ![r] = m] /\ net' = sent
          /\ Continue(r, q) /\ UNCHANGED <<pending_prop, sync_state, signed>>
      BY <2>3, <2>8
    <3>2. machine' = [machine EXCEPT ![r] = machine'[r]] /\ machine'[r] = m
      BY <3>1 DEF TypeOK
    <3>3. /\ ready_queue' = [ready_queue EXCEPT ![r] = ready_queue'[r]]
          /\ ready_queue'[r] = q /\ phase' \in [Replica -> Phase]
      BY <3>1 DEF TypeOK, Continue, Phase
    <3>4. /\ pending_prop' = [pending_prop EXCEPT ![r] = pending_prop'[r]]
          /\ sync_state' = [sync_state EXCEPT ![r] = sync_state'[r]]
      BY <3>1 DEF TypeOK
    <3> QED
      BY <1>0, <2>1, <2>2, <2>4, <2>5, <2>6, <3>1, <3>2, <3>3, <3>4 DEF TimeoutEffect
  <2> QED
    BY <2>7, <2>8
<1>2. CASE ~(tv >= view[r] /\ tv < LastView)
  <2>1. /\ net' = msgs /\ Continue(r, q)
        /\ UNCHANGED <<machine, view, new_view_set, pending_prop, sync_state, signed>>
    BY <1>2 DEF ProcessLocalTimeout
  <2>2. /\ ready_queue' = [ready_queue EXCEPT ![r] = ready_queue'[r]]
        /\ ready_queue'[r] = q /\ phase' \in [Replica -> Phase]
    BY <2>1 DEF TypeOK, Continue, Phase
  <2>3. /\ machine' = [machine EXCEPT ![r] = machine'[r]]
        /\ view' = [view EXCEPT ![r] = view'[r]]
        /\ new_view_set' = [new_view_set EXCEPT ![r] = new_view_set'[r]]
        /\ pending_prop' = [pending_prop EXCEPT ![r] = pending_prop'[r]]
        /\ sync_state' = [sync_state EXCEPT ![r] = sync_state'[r]]
    BY <2>1 DEF TypeOK
  <2> QED
    BY <1>0, <2>1, <2>2, <2>3 DEF TimeoutEffect
<1> QED
  BY <1>1, <1>2

\* The fields a message has, by its kind (PeerEvent).
LEMMA MessageFields ==
  ASSUME NEW msg \in Message
  PROVE  /\ msg.from \in Replica /\ msg.to \in Replica
         /\ msg.type = "NewProposal" => msg.prop \in TreeNode
         /\ msg.type = "AcceptProposal" => msg.prop \in TreeNode /\ msg.sign \in Hash
         /\ msg.type = "NewView" => msg.view \in 1 .. LastView /\ msg.qc_high \in QC
         /\ msg.type = "BranchSyncRequest" => msg.grow_from \in Nat
         /\ msg.type = "BranchSyncResponse" => msg.branch \in SUBSET TreeNode
BY DEF Message

\* The fields a Ready value has, by its kind.
LEMMA ReadyFields ==
  ASSUME NEW q \in Seq(Ready), q # << >>
  PROVE  /\ Tail(q) \in Seq(Ready)
         /\ Head(q) \in Ready
         /\ Head(q).type = "NewProposal" => Head(q).prop \in TreeNode
         /\ Head(q).type \in {"UpdateQCHigh", "BranchSyncDone"} => Head(q).node \in TreeNode
         /\ Head(q).type = "Signature" => Head(q).prop \in TreeNode /\ Head(q).to \in Replica
         /\ Head(q).type = "ProposalReachConsensus" => Head(q).view \in Nat
<1>1. Head(q) \in Ready /\ Tail(q) \in Seq(Ready)
  OBVIOUS
<1> QED
  BY <1>1 DEF Ready

\* The parts of one replica's state are well typed.
LEMMA MachineType ==
  ASSUME TypeOK, NEW r \in Replica
  PROVE  /\ machine[r] \in MachineState /\ machine[r].current_view = view[r]
         /\ machine[r].leaf \in TreeNode /\ machine[r].leaf.height \in Nat
         /\ machine[r].qc_high \in QC
         /\ machine[r].nodes \in SUBSET TreeNode
         /\ view[r] \in 1 .. LastView /\ view[r] \in Nat
         /\ pending_prop[r] \in SUBSET Origin
         /\ sync_state[r] \in {"IDLE", "SYNCHRONIZING"}
         /\ ready_queue[r] \in Seq(Ready)
         /\ machine = [machine EXCEPT ![r] = machine[r]]
<1>1. view[r] \in 1 .. LastView /\ LastView \in Nat
  BY MaxViewAssumption DEF TypeOK, LastView
<1> QED
  BY <1>1 DEF TypeOK, MachineState, TreeNode

\* A branch of a handler that leaves everything but the queue, phase and network
\* alone is the timeout, or the pending check, of nothing.
LEMMA NoEffect ==
  ASSUME TypeOK, NEW r \in Replica, NEW q \in Seq(Ready), NEW msgs \in SUBSET Message,
         Continue(r, q), net' = msgs,
         UNCHANGED <<machine, pending_prop, sync_state, signed>>
  PROVE  /\ PendingEffect(r, machine[r], pending_prop[r], q, msgs)
         /\ UNCHANGED <<view, new_view_set>> => TimeoutEffect(r, q, msgs)
<1>1. /\ ready_queue' = [ready_queue EXCEPT ![r] = ready_queue'[r]]
      /\ ready_queue'[r] = q /\ phase' \in [Replica -> Phase]
  BY DEF TypeOK, Continue, Phase
<1>2. /\ machine' = [machine EXCEPT ![r] = machine'[r]]
      /\ pending_prop' = [pending_prop EXCEPT ![r] = pending_prop'[r]]
      /\ sync_state' = [sync_state EXCEPT ![r] = sync_state'[r]]
      /\ view = [view EXCEPT ![r] = view[r]]
      /\ new_view_set = [new_view_set EXCEPT ![r] = new_view_set[r]]
  BY DEF TypeOK
<1>3. PendingEffect(r, machine[r], pending_prop[r], q, msgs)
  BY <1>1, <1>2, MachineType DEF PendingEffect
<1>4. UNCHANGED <<view, new_view_set>> => TimeoutEffect(r, q, msgs)
  BY <1>1, <1>2, MachineType DEF TimeoutEffect
<1> QED
  BY <1>3, <1>4

\* The actions that call process_local_timeout or check_pending_prop have the
\* effect of those.
LEMMA LocalTimeoutEffect ==
  ASSUME TypeOK, NEW r \in Replica, LocalTimeout(r)
  PROVE  TimeoutEffect(r, ready_queue[r], net) /\ UNCHANGED <<branch, proposed>>
<1> DEFINE q == ready_queue[r]
           v == view[r]
<1>1. /\ ProcessLocalTimeout(r, v, q, net) /\ UNCHANGED <<branch, proposed>>
      /\ q \in Seq(Ready) /\ v \in Nat /\ net \in SUBSET Message
  BY MachineType DEF LocalTimeout, TypeOK
<1> HIDE DEF q, v
<1>2. TimeoutEffect(r, q, net)
  BY <1>1, ProcessLocalTimeoutEffect
<1> QED
  BY <1>1, <1>2 DEF q

\* The Ready value at the head of the queue, and the rest.
LEMMA NextReadyType ==
  ASSUME TypeOK, NEW r \in Replica, NEW type, NextReady(r, type)
  PROVE  LET q == ready_queue[r]
         IN  /\ q \in Seq(Ready) /\ q # << >>
             /\ Tail(q) \in Seq(Ready)
             /\ type = "NewProposal" => Head(q).prop \in TreeNode
             /\ type \in {"UpdateQCHigh", "BranchSyncDone"} => Head(q).node \in TreeNode
             /\ type = "Signature" => Head(q).prop \in TreeNode /\ Head(q).to \in Replica
             /\ type = "ProposalReachConsensus" => Head(q).view \in Nat
BY MachineType, ReadyFields DEF NextReady

\* The vote that EmitSignature sends.
VoteMessage(r) ==
  LET ready == Head(ready_queue[r])
  IN  [type |-> "AcceptProposal", from |-> r, to |-> ready.to,
       prop |-> ready.prop, sign |-> Sign(ready.prop)]

\* Sending a vote: one AcceptProposal message, then what process_local_timeout does.
LEMMA EmitSignatureEffect ==
  ASSUME TypeOK, NEW r \in Replica, EmitSignature(r)
  PROVE  /\ NextReady(r, "Signature")
         /\ TimeoutEffect(r, Tail(ready_queue[r]), net \cup {VoteMessage(r)})
         /\ UNCHANGED <<branch, proposed>>
<1> DEFINE ready == Head(ready_queue[r])
           rest == Tail(ready_queue[r])
           sent == net \cup {VoteMessage(r)}
           h == ready.prop.height
<1>0. NextReady(r, "Signature") /\ UNCHANGED <<branch, proposed>>
  BY DEF EmitSignature
<1>1. rest \in Seq(Ready) /\ ready.prop \in TreeNode /\ ready.to \in Replica
  BY <1>0, NextReadyType
<1>2. h \in Nat /\ Sign(ready.prop) \in Hash
  BY <1>1, HashType DEF TreeNode, Sign
<1>3. sent \in SUBSET Message
  <2>1. VoteMessage(r) \in Message
    BY <1>1, <1>2, ProposalAndVoteTypes DEF VoteMessage
  <2> QED
    BY <2>1 DEF TypeOK
<1>4. \/ ProcessLocalTimeout(r, h, rest, sent)
      \/ /\ net' = sent
         /\ Continue(r, rest)
         /\ UNCHANGED <<machine, view, new_view_set, pending_prop, sync_state, signed>>
  BY DEF EmitSignature, VoteMessage
<1> HIDE DEF rest, ready, sent, h
<1>5. CASE ProcessLocalTimeout(r, h, rest, sent)
  BY <1>0, <1>1, <1>2, <1>3, <1>5, ProcessLocalTimeoutEffect DEF rest, sent
<1>6. CASE /\ net' = sent
           /\ Continue(r, rest)
           /\ UNCHANGED <<machine, view, new_view_set, pending_prop, sync_state, signed>>
  BY <1>0, <1>1, <1>3, <1>6, NoEffect DEF rest, sent
<1> QED
  BY <1>4, <1>5, <1>6

\* The end of a synchronization does at most what check_pending_prop does.
LEMMA FinishBranchSyncEffect ==
  ASSUME TypeOK, NEW r \in Replica, FinishBranchSync(r)
  PROVE  /\ NextReady(r, "BranchSyncDone")
         /\ PendingEffect(r, machine[r], pending_prop[r], Tail(ready_queue[r]), net)
         /\ UNCHANGED <<view, new_view_set, branch, proposed>>
<1> DEFINE m == machine[r]
           v == view[r]
           rest == Tail(ready_queue[r])
           lh == Head(ready_queue[r]).node.height
           pending == pending_prop[r]
           idle == "IDLE"
<1>0. /\ NextReady(r, "BranchSyncDone")
      /\ UNCHANGED <<view, new_view_set, branch, proposed>>
  BY DEF FinishBranchSync
<1>1. rest \in Seq(Ready) /\ lh \in Nat
  BY <1>0, NextReadyType DEF TreeNode
<1>2. \/ CheckPendingProp(r, m, v, pending, idle, lh, rest, net)
      \/ /\ Continue(r, rest)
         /\ UNCHANGED <<machine, pending_prop, sync_state, net, signed>>
  BY DEF FinishBranchSync
<1>3. /\ m \in MachineState /\ v \in 1 .. LastView /\ net \in SUBSET Message
      /\ pending \in SUBSET Origin /\ idle \in {"IDLE", "SYNCHRONIZING"}
  BY MachineType DEF TypeOK
<1> HIDE DEF rest, m, v, lh, pending, idle
<1>4. CASE CheckPendingProp(r, m, v, pending, idle, lh, rest, net)
  <2>1. PendingEffect(r, m, pending, rest, net)
    BY <1>1, <1>3, <1>4, CheckPendingPropEffect
  <2> QED
    BY <1>0, <2>1 DEF m, pending, rest
<1>5. CASE /\ Continue(r, rest)
           /\ UNCHANGED <<machine, pending_prop, sync_state, net, signed>>
  BY <1>0, <1>1, <1>3, <1>5, NoEffect DEF rest
<1> QED
  BY <1>2, <1>4, <1>5

\* A formed certificate does what process_local_timeout does.
LEMMA ReachConsensusEffect ==
  ASSUME TypeOK, NEW r \in Replica, ReachConsensus(r)
  PROVE  /\ NextReady(r, "ProposalReachConsensus")
         /\ TimeoutEffect(r, Tail(ready_queue[r]), net)
         /\ UNCHANGED <<branch, proposed>>
<1> DEFINE rest == Tail(ready_queue[r])
           v == Head(ready_queue[r]).view
<1>0. NextReady(r, "ProposalReachConsensus") /\ UNCHANGED <<branch, proposed>>
  BY DEF ReachConsensus
<1>1. rest \in Seq(Ready) /\ v \in Nat /\ net \in SUBSET Message
  BY <1>0, NextReadyType DEF TypeOK
<1>2. ProcessLocalTimeout(r, v, rest, net)
  BY DEF ReachConsensus
<1> HIDE DEF rest, v
<1>3. TimeoutEffect(r, rest, net)
  BY <1>1, <1>2, ProcessLocalTimeoutEffect
<1> QED
  BY <1>0, <1>3 DEF rest

\* The heap of replica msg.to once msg is pushed (process_network_event).
PendingWith(msg) ==
  pending_prop[msg.to] \cup {[from |-> msg.from, prop |-> msg.prop]}

\* A new proposal goes to the heap, and then check_pending_prop looks at it.
LEMMA RecvNewProposalEffect ==
  ASSUME TypeOK, NEW msg \in net, RecvNewProposal(msg)
  PROVE  /\ msg.to \in Replica
         /\ PendingWith(msg) \in SUBSET Origin
         /\ PendingEffect(msg.to, machine[msg.to], PendingWith(msg),
                          ready_queue[msg.to], net \ {msg})
         /\ UNCHANGED <<view, new_view_set, branch, proposed>>
<1> DEFINE r == msg.to
           m == machine[r]
           v == view[r]
           q == ready_queue[r]
           pending == PendingWith(msg)
           lh == machine[r].leaf.height
           msgs == net \ {msg}
           sy == sync_state[r]
<1>0. msg \in Message /\ r \in Replica /\ msg.from \in Replica /\ msg.prop \in TreeNode
  BY MessageFields DEF TypeOK, RecvNewProposal
<1>1. pending \in SUBSET Origin
  BY <1>0, MachineType DEF PendingWith, Origin
<1>2. /\ CheckPendingProp(r, m, v, pending, sy, lh, q, msgs)
      /\ UNCHANGED <<view, new_view_set, branch, proposed>>
  BY DEF RecvNewProposal, PendingWith
<1> HIDE DEF r
<1>3. /\ m \in MachineState /\ v \in 1 .. LastView /\ lh \in Nat /\ q \in Seq(Ready)
      /\ sy \in {"IDLE", "SYNCHRONIZING"} /\ msgs \in SUBSET Message
  BY <1>0, MachineType DEF TypeOK
<1> HIDE DEF m, v, q, pending, lh, msgs, sy
<1>4. PendingEffect(r, m, pending, q, msgs)
  BY <1>0, <1>1, <1>2, <1>3, CheckPendingPropEffect
<1> QED
  BY <1>0, <1>1, <1>2, <1>4 DEF r, m, q, pending, msgs

-----------------------------------------------------------------------------
(***************************************************************************)
(* Type correctness                                                        *)
(***************************************************************************)

\* The queue and the signatures stay well typed when a pending proposal may be
\* signed.
LEMMA SignedType ==
  ASSUME TypeOK, NEW r \in Replica, NEW pending \in SUBSET Origin,
         NEW q \in Seq(Ready),
         \/ signed' = signed /\ ready_queue'[r] = q
         \/ \E o \in pending :
              /\ signed' = [signed EXCEPT ![r] = @ \cup {HashOf(o.prop)}]
              /\ ready_queue'[r] = Append(q, SignatureReady(o.from, o.prop))
  PROVE  signed' \in [Replica -> SUBSET Hash] /\ ready_queue'[r] \in Seq(Ready)
<1>1. CASE signed' = signed /\ ready_queue'[r] = q
  BY <1>1 DEF TypeOK
<1>2. CASE \E o \in pending :
             /\ signed' = [signed EXCEPT ![r] = @ \cup {HashOf(o.prop)}]
             /\ ready_queue'[r] = Append(q, SignatureReady(o.from, o.prop))
  <2>1. PICK o \in pending :
             /\ signed' = [signed EXCEPT ![r] = @ \cup {HashOf(o.prop)}]
             /\ ready_queue'[r] = Append(q, SignatureReady(o.from, o.prop))
    BY <1>2
  <2>2. HashOf(o.prop) \in Hash /\ SignatureReady(o.from, o.prop) \in Ready
    BY HashType, ReadyTypes DEF Origin
  <2> QED
    BY <2>1, <2>2 DEF TypeOK
<1> QED
  BY <1>1, <1>2

\* check_pending_prop preserves the types.
LEMMA PendingType ==
  ASSUME TypeOK, NEW r \in Replica, NEW m \in MachineState,
         NEW pending \in SUBSET Origin, NEW q \in Seq(Ready), NEW msgs,
         m.current_view = view[r],
         PendingEffect(r, m, pending, q, msgs),
         UNCHANGED <<view, new_view_set, branch, proposed>>
  PROVE  TypeOK'
<1>1. signed' \in [Replica -> SUBSET Hash] /\ ready_queue'[r] \in Seq(Ready)
  BY SignedType DEF PendingEffect
<1>2. /\ machine' \in [Replica -> MachineState]
      /\ \A s \in Replica : machine'[s].current_view = view[s]
  BY DEF TypeOK, PendingEffect
<1>3. /\ pending_prop' \in [Replica -> SUBSET Origin]
      /\ sync_state' \in [Replica -> {"IDLE", "SYNCHRONIZING"}]
      /\ ready_queue' \in [Replica -> Seq(Ready)]
      /\ phase' \in [Replica -> Phase]
      /\ net' \subseteq Message
  BY <1>1 DEF TypeOK, PendingEffect
<1> QED
  BY <1>1, <1>2, <1>3 DEF TypeOK

\* process_local_timeout preserves the types.
LEMMA TimeoutType ==
  ASSUME TypeOK, NEW r \in Replica, NEW q \in Seq(Ready), NEW msgs,
         TimeoutEffect(r, q, msgs),
         UNCHANGED <<branch, proposed>>
  PROVE  TypeOK'
<1>0. pending_prop[r] \in SUBSET Origin
  BY DEF TypeOK
<1>1. signed' \in [Replica -> SUBSET Hash] /\ ready_queue'[r] \in Seq(Ready)
  BY <1>0, SignedType DEF TimeoutEffect
<1>2. /\ machine' \in [Replica -> MachineState]
      /\ view' \in [Replica -> 1 .. LastView]
      /\ \A s \in Replica : machine'[s].current_view = view'[s]
  BY DEF TypeOK, TimeoutEffect
<1>3. /\ new_view_set' \in [Replica -> SUBSET ((1 .. LastView) \X Replica)]
      /\ pending_prop' \in [Replica -> SUBSET Origin]
      /\ sync_state' \in [Replica -> {"IDLE", "SYNCHRONIZING"}]
  BY DEF TypeOK, TimeoutEffect
<1>4. /\ ready_queue' \in [Replica -> Seq(Ready)]
      /\ phase' \in [Replica -> Phase]
      /\ net' \subseteq Message
  BY <1>1 DEF TypeOK, TimeoutEffect
<1> QED
  BY <1>1, <1>2, <1>3, <1>4 DEF TypeOK

\* The initial state is well typed.
LEMMA TypeInit == Init => TypeOK
<1> SUFFICES ASSUME Init PROVE TypeOK
  OBVIOUS
<1>1. 1 \in 1 .. LastView
  BY MaxViewAssumption DEF LastView
<1>2. /\ IncreaseView(InitMachine, 1) \in MachineState
      /\ IncreaseView(InitMachine, 1).current_view = 1
  BY InitMachineType, IncreaseViewEffect DEF InitMachine
<1>3. \A r \in Replica : NewView(r, 1, INIT_QC) \in Message
  BY <1>1, NewViewType, InitTypes
<1>4. net \subseteq Message
  BY <1>3 DEF Init
<1>5. /\ machine \in [Replica -> MachineState]
      /\ \A r \in Replica : machine[r].current_view = view[r]
  BY <1>2 DEF Init
<1> QED
  BY <1>1, <1>4, <1>5 DEF Init, TypeOK, Phase

\* A step whose new machine state, queue and messages are well typed, and that
\* leaves the views alone, preserves the types.
LEMMA LocalType ==
  ASSUME TypeOK, NEW r \in Replica, NEW m \in MachineState, NEW q \in Seq(Ready),
         m.current_view = view[r],
         machine' = [machine EXCEPT ![r] = m],
         Continue(r, q),
         net' \subseteq Message,
         new_view_set' \in [Replica -> SUBSET ((1 .. LastView) \X Replica)],
         UNCHANGED <<view, pending_prop, sync_state, branch, proposed, signed>>
  PROVE  TypeOK'
<1>1. /\ machine' \in [Replica -> MachineState]
      /\ \A s \in Replica : machine'[s].current_view = view[s]
  BY DEF TypeOK
<1>2. /\ ready_queue' \in [Replica -> Seq(Ready)]
      /\ phase' \in [Replica -> Phase]
  BY ContinueType
<1> QED
  BY <1>1, <1>2 DEF TypeOK

\* make_new_proposal keeps the types.
LEMMA TypePropose ==
  ASSUME TypeOK, NEW r \in Replica, Propose(r)
  PROVE  TypeOK'
<1> DEFINE m == machine[r]
           prop == MakeLeaf(m)
           res == OnBeat(m, r)
<1>1. /\ prop \in TreeNode /\ res.ready = NewProposalReady(prop)
      /\ res.m \in MachineState /\ res.m.current_view = view[r]
      /\ res.ready.prop = prop
  BY MachineType, OnBeatEffect DEF NewProposalReady
<1>2. /\ new_view_set' = [new_view_set EXCEPT ![r] = CleanNewViewSet(@, view[r] + 1)]
      /\ machine' = [machine EXCEPT ![r] = res.m]
      /\ proposed' = proposed \cup {[from |-> r, prop |-> res.ready.prop]}
      /\ signed' = [signed EXCEPT ![r] = @ \cup {Sign(res.ready.prop)}]
      /\ ready_queue' = [ready_queue EXCEPT ![r] = Append(@, res.ready)]
      /\ phase' = [phase EXCEPT ![r] = "select"]
      /\ UNCHANGED <<view, pending_prop, sync_state, branch, net>>
  BY DEF Propose
<1> HIDE DEF prop, res
<1>3. /\ HashOf(prop) \in Hash /\ NewProposalReady(prop) \in Ready
      /\ [from |-> r, prop |-> prop] \in Origin
  BY <1>1, HashType, ReadyTypes DEF Origin
<1>4. /\ machine' \in [Replica -> MachineState]
      /\ \A s \in Replica : machine'[s].current_view = view'[s]
  BY <1>1, <1>2 DEF TypeOK
<1>5. /\ ready_queue' \in [Replica -> Seq(Ready)]
      /\ phase' \in [Replica -> Phase]
      /\ signed' \in [Replica -> SUBSET Hash]
      /\ proposed' \subseteq Origin
  BY <1>1, <1>2, <1>3 DEF TypeOK, Phase, Sign
<1>6. new_view_set' \in [Replica -> SUBSET ((1 .. LastView) \X Replica)]
  BY <1>2 DEF TypeOK, CleanNewViewSet
<1> QED
  BY <1>2, <1>4, <1>5, <1>6 DEF TypeOK

\* The events that only run the machine or answer a peer.
LEMMA TypeRecv ==
  ASSUME TypeOK, NEW msg \in net, Recv(msg)
  PROVE  TypeOK'
<1> DEFINE r == msg.to
           q == ready_queue[r]
<1>0. msg \in Message /\ r \in Replica /\ msg.from \in Replica /\ net \ {msg} \in SUBSET Message
  BY MessageFields DEF TypeOK
<1>00. q \in Seq(Ready)
  BY <1>0, MachineType
<1>1. CASE RecvNewProposal(msg)
  BY <1>0, <1>00, <1>1, RecvNewProposalEffect, MachineType, PendingType
<1>2. CASE RecvAcceptProposal(msg)
  <2> DEFINE res == OnRecvVote(machine[r], msg.from, msg.prop, msg.sign)
  <2>1. msg.prop \in TreeNode /\ msg.sign \in Hash
    BY <1>0, <1>2, MessageFields DEF RecvAcceptProposal
  <2>2. /\ res.m \in MachineState /\ res.m.current_view = view[r]
        /\ res.ready \in {Nil, ReachConsensusReady(view[r])}
    BY <1>0, <2>1, MachineType, OnRecvVoteEffect
  <2>3. /\ machine' = [machine EXCEPT ![r] = res.m]
        /\ net' = net \ {msg}
        /\ Continue(r, Enqueue(q, res.ready))
        /\ UNCHANGED <<view, new_view_set, pending_prop, sync_state, branch, proposed, signed>>
    BY <1>2 DEF RecvAcceptProposal
  <2> HIDE DEF res, r, q
  <2>4. Enqueue(q, res.ready) \in Seq(Ready)
    BY <1>0, <1>00, <2>2, ReadyTypes, EnqueueType, MachineType
  <2>5. new_view_set' \in [Replica -> SUBSET ((1 .. LastView) \X Replica)]
    BY <2>3 DEF TypeOK
  <2> QED
    BY <1>0, <2>2, <2>3, <2>4, <2>5, LocalType
<1>3. CASE RecvNewView(msg)
  <2> DEFINE res == OnRecvNewView(machine[r], msg.qc_high)
  <2>1. msg.qc_high \in QC /\ msg.view \in 1 .. LastView
    BY <1>0, <1>3, MessageFields DEF RecvNewView
  <2>2. /\ res.m \in MachineState /\ res.m.current_view = view[r]
        /\ res.m.leaf \in TreeNode
        /\ res.ready = UpdateQCHighReady(res.m.leaf)
    BY <1>0, <2>1, MachineType, OnRecvNewViewEffect
  <2>3. /\ machine' = [machine EXCEPT ![r] = res.m]
        /\ new_view_set' = [new_view_set EXCEPT ![r] = @ \cup {<<msg.view, msg.from>>}]
        /\ net' = net \ {msg}
        /\ Continue(r, Enqueue(q, res.ready))
        /\ UNCHANGED <<view, pending_prop, sync_state, branch, proposed, signed>>
    BY <1>3 DEF RecvNewView
  <2> HIDE DEF res, r, q
  <2>4. Enqueue(q, res.ready) \in Seq(Ready)
    BY <1>00, <2>2, ReadyTypes, EnqueueType
  <2>5. new_view_set' \in [Replica -> SUBSET ((1 .. LastView) \X Replica)]
    <3>1. /\ new_view_set \in [Replica -> SUBSET ((1 .. LastView) \X Replica)]
          /\ <<msg.view, msg.from>> \in (1 .. LastView) \X Replica
      BY <1>0, <2>1 DEF TypeOK
    <3> QED
      BY ONLY <2>3, <3>1
  <2> QED
    BY <1>0, <2>2, <2>3, <2>4, <2>5, LocalType
<1>4. CASE RecvBranchSyncRequest(msg)
  <2>1. /\ net' \subseteq Message
    BY <1>0, <1>4, MachineType DEF RecvBranchSyncRequest, FetchBranch, Message
  <2>2. /\ Continue(r, q)
        /\ UNCHANGED <<machine, view, new_view_set, pending_prop, sync_state,
                       branch, proposed, signed>>
    BY <1>4 DEF RecvBranchSyncRequest
  <2> HIDE DEF r, q
  <2>3. /\ ready_queue' \in [Replica -> Seq(Ready)]
        /\ phase' \in [Replica -> Phase]
    BY <1>0, <1>00, <2>2, ContinueType
  <2> QED
    BY <2>1, <2>2, <2>3 DEF TypeOK
<1>5. CASE RecvBranchSyncResponse(msg)
  <2>1. msg.branch \in SUBSET TreeNode
    BY <1>0, <1>5, MessageFields DEF RecvBranchSyncResponse
  <2> QED
    BY <1>0, <1>5, <2>1 DEF RecvBranchSyncResponse, TypeOK, Phase
<1> QED
  BY <1>1, <1>2, <1>3, <1>4, <1>5 DEF Recv

\* The other steps of a replica's loop.
LEMMA TypeStep ==
  ASSUME TypeOK, NEW r \in Replica, Step(r)
  PROVE  TypeOK'
<1> DEFINE q == ready_queue[r]
           rest == Tail(q)
<1>0. /\ q \in Seq(Ready) /\ net \in SUBSET Message
      /\ machine[r] \in MachineState /\ view[r] \in Nat
  BY MachineType DEF TypeOK
<1>1. CASE Propose(r)
  BY <1>1, TypePropose
<1>2. CASE Tick(r)
  BY <1>2 DEF Tick, TypeOK, Phase
<1>3. CASE LocalTimeout(r)
  BY <1>0, <1>3, LocalTimeoutEffect, TimeoutType
<1>4. CASE SyncNext(r)
  <2>1. PICK prop \in branch[r] :
          IF VerifyProposal(machine[r], prop.justify)
          THEN /\ machine' = [machine EXCEPT ![r] = OnSyncedProposal(@, prop)]
               /\ branch' = [branch EXCEPT ![r] = @ \ {prop}]
          ELSE /\ branch' = [branch EXCEPT ![r] = {}]
               /\ UNCHANGED machine
    BY <1>4 DEF SyncNext
  <2>2. UNCHANGED <<view, new_view_set, pending_prop, sync_state, ready_queue,
                    phase, net, proposed, signed>>
    BY <1>4 DEF SyncNext
  <2> DEFINE u == OnSyncedProposal(machine[r], prop)
  <2>3. prop \in TreeNode
    BY DEF TypeOK
  <2>4. u \in MachineState /\ u.current_view = view[r]
    BY <2>3, MachineType, OnSyncedProposalEffect
  <2>5. branch' \in [Replica -> SUBSET TreeNode]
    <3>1. branch \in [Replica -> SUBSET TreeNode] /\ branch[r] \ {prop} \subseteq TreeNode
      BY DEF TypeOK
    <3>2. \/ branch' = [branch EXCEPT ![r] = branch[r] \ {prop}]
          \/ branch' = [branch EXCEPT ![r] = {}]
      BY <2>1
    <3> QED
      BY ONLY <3>1, <3>2
  <2>6. machine' \in {machine, [machine EXCEPT ![r] = u]}
    BY <2>1
  <2> HIDE DEF u
  <2>7. /\ machine' \in [Replica -> MachineState]
        /\ \A s \in Replica : machine'[s].current_view = view[s]
    BY <2>4, <2>6 DEF TypeOK
  <2> QED
    BY <2>2, <2>5, <2>7 DEF TypeOK
<1>5. CASE SyncEnd(r)
  <2> DEFINE k == Append(q, BranchSyncDoneReady(machine[r].leaf))
  <2>1. k \in Seq(Ready)
    BY <1>0, MachineType, ReadyTypes
  <2>2. /\ Continue(r, k)
        /\ UNCHANGED <<machine, view, new_view_set, pending_prop, sync_state,
                       branch, proposed, net, signed>>
    BY <1>5 DEF SyncEnd
  <2> HIDE DEF k
  <2>3. /\ ready_queue' \in [Replica -> Seq(Ready)] /\ phase' \in [Replica -> Phase]
    BY <2>1, <2>2, ContinueType
  <2> QED
    BY <2>2, <2>3 DEF TypeOK
<1>6. CASE EmitNewProposal(r)
  <2>1. /\ rest \in Seq(Ready) /\ Head(q).prop \in TreeNode
    BY <1>6, NextReadyType DEF EmitNewProposal
  <2>2. /\ net' = net \cup {[type |-> "NewProposal", from |-> r, to |-> to,
                              prop |-> Head(q).prop] : to \in Replica \ {r}}
        /\ Continue(r, rest)
        /\ UNCHANGED <<machine, view, new_view_set, pending_prop, sync_state,
                       branch, proposed, signed>>
    BY <1>6 DEF EmitNewProposal
  <2> HIDE DEF q, rest
  <2>3. net' \subseteq Message
    <3>1. \A to \in Replica : [type |-> "NewProposal", from |-> r, to |-> to,
                               prop |-> Head(q).prop] \in Message
      BY <2>1, HashType, ProposalAndVoteTypes
    <3> QED
      BY <1>0, <2>2, <3>1
  <2>4. /\ ready_queue' \in [Replica -> Seq(Ready)] /\ phase' \in [Replica -> Phase]
    BY <2>1, <2>2, ContinueType
  <2> QED
    BY <2>2, <2>3, <2>4 DEF TypeOK
<1>7. CASE ApplyUpdateQCHigh(r)
  <2> DEFINE leaf == Head(q).node
             u == UpdateQCHigh(machine[r], leaf, leaf.justify)
  <2>1. /\ rest \in Seq(Ready) /\ leaf \in TreeNode /\ leaf.justify \in QC
    BY <1>7, NextReadyType DEF ApplyUpdateQCHigh, TreeNode
  <2>2. /\ machine' = [machine EXCEPT ![r] = u]
        /\ Continue(r, rest)
        /\ UNCHANGED <<view, new_view_set, pending_prop, sync_state, branch,
                       proposed, net, signed>>
    BY <1>7 DEF ApplyUpdateQCHigh
  <2> HIDE DEF q, rest, leaf
  <2>3. u \in MachineState /\ u.current_view = view[r]
    BY <2>1, MachineType, UpdateQCHighEffect
  <2>4. /\ new_view_set' \in [Replica -> SUBSET ((1 .. LastView) \X Replica)]
        /\ net' \subseteq Message
    BY <2>2 DEF TypeOK
  <2> HIDE DEF u
  <2> QED
    BY <2>1, <2>2, <2>3, <2>4, LocalType
<1>8. CASE EmitSignature(r)
  BY <1>8, EmitSignatureEffect, NextReadyType, TimeoutType
<1>9. CASE FinishBranchSync(r)
  BY <1>0, <1>9, FinishBranchSyncEffect, NextReadyType, MachineType, PendingType
<1>10. CASE ReachConsensus(r)
  BY <1>10, ReachConsensusEffect, NextReadyType, TimeoutType
<1> QED
  BY <1>1, <1>2, <1>3, <1>4, <1>5, <1>6, <1>7, <1>8, <1>9, <1>10 DEF Step

\* Every state the replicas reach is well typed: the handlers never leave the
\* storage, a queue or a message in a form another handler does not expect, and
\* the storage's current_view never differs from the pacemaker's view.
THEOREM TypeCorrect == Spec => []TypeOK
<1>1. TypeOK /\ [Next]_vars => TypeOK'
  <2> SUFFICES ASSUME TypeOK, [Next]_vars PROVE TypeOK'
    OBVIOUS
  <2>1. CASE \E r \in Replica : Step(r)
    BY <2>1, TypeStep
  <2>2. CASE \E msg \in net : Recv(msg)
    BY <2>2, TypeRecv
  <2>3. CASE UNCHANGED vars
    BY <2>3 DEF vars, pmVars, TypeOK
  <2> QED
    BY <2>1, <2>2, <2>3 DEF Next
<1> QED
  BY <1>1, TypeInit, PTL DEF Spec

=============================================================================
