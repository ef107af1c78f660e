-------------------------- MODULE CertificateProofs -------------------------
(***************************************************************************)
(* What the replicas store, queue and count is genuine, and every quorum   *)
(* certificate is backed by the votes of a quorum, for every number of     *)
(* replicas, leader election and bound.                                    *)
(***************************************************************************)
EXTENDS ViewProofs

\* The histories only grow.
Grows(known, sigs, known2, sigs2) ==
  /\ known \subseteq known2
  /\ \A r \in Replica : sigs[r] \subseteq sigs2[r]

\* What is genuine stays so as the histories grow.
LEMMA MachineStaysGenuine ==
  ASSUME NEW known, NEW sigs, NEW known2, NEW sigs2, Grows(known, sigs, known2, sigs2),
         NEW m \in MachineState, GenuineMachine(m, known, sigs)
  PROVE  GenuineMachine(m, known2, sigs2)
BY DEF Grows, GenuineMachine, GenuineVote, MachineState, Vote

\* A queue of Ready values stays genuine as proposals and signatures are added.
LEMMA QueueStaysGenuine ==
  ASSUME NEW known, NEW sigs, NEW known2, NEW sigs2, Grows(known, sigs, known2, sigs2),
         NEW r \in Replica, NEW q, GenuineQueue(q, r, known, sigs)
  PROVE  GenuineQueue(q, r, known2, sigs2)
BY DEF Grows, GenuineQueue, GenuineReady

\* So does a message in flight.
LEMMA MessageStaysGenuine ==
  ASSUME NEW known, NEW sigs, NEW known2, NEW sigs2, Grows(known, sigs, known2, sigs2),
         NEW msg \in Message, GenuineMessage(msg, known, sigs)
  PROVE  GenuineMessage(msg, known2, sigs2)
BY MessageFields DEF Grows, GenuineMessage

\* Taking a value from a genuine queue, and adding one.
LEMMA QueueTail ==
  ASSUME NEW known, NEW sigs, NEW r, NEW q \in Seq(Ready), q # << >>,
         GenuineQueue(q, r, known, sigs)
  PROVE  GenuineReady(Head(q), r, known, sigs) /\ GenuineQueue(Tail(q), r, known, sigs)
<1>1. Len(q) \in Nat /\ Len(q) >= 1 /\ Head(q) = q[1] /\ Len(Tail(q)) = Len(q) - 1
  OBVIOUS
<1>2. \A i \in 1 .. Len(Tail(q)) : Tail(q)[i] = q[i + 1] /\ i + 1 \in 1 .. Len(q)
  BY <1>1
<1> QED
  BY <1>1, <1>2 DEF GenuineQueue

\* A genuine Ready value can join the queue of the event loop.
LEMMA QueueAppend ==
  ASSUME NEW known, NEW sigs, NEW r, NEW q \in Seq(Ready), NEW x \in Ready,
         GenuineQueue(q, r, known, sigs), GenuineReady(x, r, known, sigs)
  PROVE  GenuineQueue(Append(q, x), r, known, sigs)
<1>1. Len(q) \in Nat /\ Len(Append(q, x)) = Len(q) + 1
  OBVIOUS
<1>2. \A i \in 1 .. Len(q) + 1 : Append(q, x)[i] = IF i = Len(q) + 1 THEN x ELSE q[i]
  OBVIOUS
<1> QED
  BY <1>1, <1>2 DEF GenuineQueue

\* A step that changes the state of replica r and the network keeps Genuine if
\* what is new is genuine.
LEMMA GenuineStep ==
  ASSUME TypeOK, Genuine, NEW r \in Replica,
         Grows(Known, signed, Known', signed'),
         NEW m \in MachineState, NEW b, NEW pending, NEW q,
         machine' = [machine EXCEPT ![r] = m],
         branch' = [branch EXCEPT ![r] = b],
         pending_prop' = [pending_prop EXCEPT ![r] = pending],
         ready_queue' = [ready_queue EXCEPT ![r] = q],
         GenuineMachine(m, Known', signed'),
         b \subseteq Known',
         \A o \in pending : o.prop \in Known',
         GenuineQueue(q, r, Known', signed'),
         \A msg \in net' : msg \in net \/ GenuineMessage(msg, Known', signed')
  PROVE  Genuine'
<1>1. \A msg \in net' : GenuineMessage(msg, Known', signed')
  BY MessageStaysGenuine DEF TypeOK, Genuine
<1>2. ASSUME NEW s \in Replica
      PROVE  /\ GenuineMachine(machine'[s], Known', signed')
             /\ branch'[s] \subseteq Known'
             /\ \A o \in pending_prop'[s] : o.prop \in Known'
             /\ GenuineQueue(ready_queue'[s], s, Known', signed')
  <2>1. CASE s = r
    BY <2>1 DEF TypeOK
  <2>2. CASE s # r
    <3>1. /\ machine'[s] = machine[s] /\ branch'[s] = branch[s]
          /\ pending_prop'[s] = pending_prop[s] /\ ready_queue'[s] = ready_queue[s]
      BY <2>2 DEF TypeOK
    <3>2. /\ machine[s] \in MachineState /\ GenuineMachine(machine[s], Known, signed)
          /\ GenuineQueue(ready_queue[s], s, Known, signed)
          /\ branch[s] \subseteq Known /\ \A o \in pending_prop[s] : o.prop \in Known
      BY DEF TypeOK, Genuine
    <3>3. GenuineMachine(machine[s], Known', signed')
      BY <3>2, MachineStaysGenuine
    <3>4. GenuineQueue(ready_queue[s], s, Known', signed')
      BY <3>2, QueueStaysGenuine
    <3>5. Known \subseteq Known'
      BY DEF Grows
    <3> QED
      BY <3>1, <3>2, <3>3, <3>4, <3>5
  <2> QED
    BY <2>1, <2>2
<1> QED
  BY <1>1, <1>2 DEF Genuine
\* Signing a pending proposal that is known keeps the queue genuine.
LEMMA SigningGenuine ==
  ASSUME TypeOK, NEW r \in Replica, NEW pending \in SUBSET Origin, NEW q \in Seq(Ready),
         \A o \in pending : o.prop \in Known,
         GenuineQueue(q, r, Known, signed),
         UNCHANGED proposed,
         \/ signed' = signed /\ ready_queue'[r] = q
         \/ \E o \in pending :
              /\ signed' = [signed EXCEPT ![r] = @ \cup {HashOf(o.prop)}]
              /\ ready_queue'[r] = Append(q, SignatureReady(o.from, o.prop))
  PROVE  /\ Known' = Known
         /\ Grows(Known, signed, Known', signed')
         /\ GenuineQueue(ready_queue'[r], r, Known', signed')
<1>0. Known' = Known
  BY DEF Known
<1>1. CASE signed' = signed /\ ready_queue'[r] = q
  BY <1>0, <1>1 DEF Grows
<1>2. CASE \E o \in pending :
             /\ signed' = [signed EXCEPT ![r] = @ \cup {HashOf(o.prop)}]
             /\ ready_queue'[r] = Append(q, SignatureReady(o.from, o.prop))
  <2>1. PICK o \in pending :
          /\ signed' = [signed EXCEPT ![r] = @ \cup {HashOf(o.prop)}]
          /\ ready_queue'[r] = Append(q, SignatureReady(o.from, o.prop))
    BY <1>2
  <2> DEFINE x == SignatureReady(o.from, o.prop)
  <2>2. Grows(Known, signed, Known', signed') /\ HashOf(o.prop) \in signed'[r]
    BY <1>0, <2>1 DEF Grows, TypeOK
  <2>3. x \in Ready /\ x.type = "Signature" /\ x.prop = o.prop
    BY ReadyTypes DEF Origin, SignatureReady
  <2> HIDE DEF x
  <2>4. GenuineReady(x, r, Known', signed')
    BY <1>0, <2>2, <2>3 DEF GenuineReady
  <2>5. GenuineQueue(q, r, Known', signed')
    BY <2>2, QueueStaysGenuine
  <2>6. GenuineQueue(Append(q, x), r, Known', signed')
    BY <2>3, <2>4, <2>5, QueueAppend
  <2> QED
    BY <1>0, <2>1, <2>2, <2>6 DEF x
<1> QED
  BY <1>1, <1>2

\* A machine that takes its nodes and leaf from genuine sources is genuine.
LEMMA MachineGenuine ==
  ASSUME NEW m, NEW u, NEW known, NEW sigs, NEW new \in SUBSET known,
         GenuineMachine(m, known, sigs),
         u.nodes \subseteq m.nodes \cup new,
         u.leaf \in m.nodes \cup {m.leaf} \cup new,
         u.voting_set = m.voting_set
  PROVE  GenuineMachine(u, known, sigs)
BY DEF GenuineMachine

\* check_pending_prop keeps Genuine.
LEMMA PendingGenuine ==
  ASSUME TypeOK, Genuine, NEW r \in Replica,
         NEW pending \in SUBSET Origin, NEW q \in Seq(Ready), NEW msgs,
         PendingEffect(r, machine[r], pending, q, msgs),
         \A o \in pending : o.prop \in Known,
         GenuineQueue(q, r, Known, signed),
         msgs \subseteq net,
         UNCHANGED <<branch, proposed>>
  PROVE  Genuine'
<1> DEFINE m == machine'[r]
<1>1. /\ Known' = Known /\ Grows(Known, signed, Known', signed')
      /\ GenuineQueue(ready_queue'[r], r, Known', signed')
  BY SigningGenuine DEF PendingEffect
<1>2. m \in MachineState /\ GenuineMachine(m, Known, signed)
  <2> DEFINE new == {o.prop : o \in pending}
  <2>1. new \in SUBSET Known
    OBVIOUS
  <2>2. /\ m.nodes \subseteq machine[r].nodes \cup new
        /\ m.leaf \in machine[r].nodes \cup {machine[r].leaf} \cup new
        /\ m.voting_set = machine[r].voting_set
        /\ m \in MachineState
    BY DEF PendingEffect
  <2>3. GenuineMachine(machine[r], Known, signed)
    BY DEF Genuine
  <2> HIDE DEF new, m
  <2> QED
    BY <2>1, <2>2, <2>3, MachineGenuine
<1>3. GenuineMachine(m, Known', signed')
  BY <1>1, <1>2, MachineStaysGenuine
<1>4. /\ branch' = [branch EXCEPT ![r] = branch[r]] /\ branch[r] \subseteq Known'
  BY <1>1 DEF TypeOK, Genuine
<1>5. /\ pending_prop' = [pending_prop EXCEPT ![r] = pending_prop'[r]]
      /\ \A o \in pending_prop'[r] : o.prop \in Known'
  BY <1>1 DEF PendingEffect
<1>6. \A msg \in net' : msg \in net \/ GenuineMessage(msg, Known', signed')
  BY DEF PendingEffect, GenuineMessage
<1>7. /\ machine' = [machine EXCEPT ![r] = m]
      /\ ready_queue' = [ready_queue EXCEPT ![r] = ready_queue'[r]]
  BY DEF PendingEffect
<1> HIDE DEF m
<1> QED
  BY <1>1, <1>2, <1>3, <1>4, <1>5, <1>6, <1>7, GenuineStep

\* process_local_timeout keeps Genuine.
LEMMA TimeoutGenuine ==
  ASSUME TypeOK, Genuine, NEW r \in Replica, NEW q \in Seq(Ready), NEW msgs,
         TimeoutEffect(r, q, msgs),
         GenuineQueue(q, r, Known, signed),
         \A msg \in msgs : msg \in net \/ GenuineMessage(msg, Known, signed),
         msgs \subseteq Message,
         UNCHANGED <<branch, proposed>>
  PROVE  Genuine'
<1> DEFINE m == machine'[r]
<1>0. pending_prop[r] \in SUBSET Origin /\ \A o \in pending_prop[r] : o.prop \in Known
  BY DEF TypeOK, Genuine
<1>1. /\ Known' = Known /\ Grows(Known, signed, Known', signed')
      /\ GenuineQueue(ready_queue'[r], r, Known', signed')
  BY <1>0, SigningGenuine DEF TimeoutEffect
<1>2. m \in MachineState /\ GenuineMachine(m, Known, signed)
  <2> DEFINE new == {o.prop : o \in pending_prop[r]}
  <2>1. new \in SUBSET Known
    BY <1>0
  <2>2. /\ m.nodes \subseteq machine[r].nodes \cup new
        /\ m.leaf \in machine[r].nodes \cup {machine[r].leaf} \cup new
        /\ m.voting_set = machine[r].voting_set
        /\ m \in MachineState
    BY DEF TimeoutEffect
  <2>3. GenuineMachine(machine[r], Known, signed)
    BY DEF Genuine
  <2> HIDE DEF new, m
  <2> QED
    BY <2>1, <2>2, <2>3, MachineGenuine
<1>3. GenuineMachine(m, Known', signed')
  BY <1>1, <1>2, MachineStaysGenuine
<1>4. /\ branch' = [branch EXCEPT ![r] = branch[r]] /\ branch[r] \subseteq Known'
  BY <1>1 DEF TypeOK, Genuine
<1>5. /\ pending_prop' = [pending_prop EXCEPT ![r] = pending_prop'[r]]
      /\ \A o \in pending_prop'[r] : o.prop \in Known'
  BY <1>0, <1>1 DEF TimeoutEffect
<1>6. \A msg \in net' : msg \in net \/ GenuineMessage(msg, Known', signed')
  <2>1. \A msg \in msgs : msg \in net \/ GenuineMessage(msg, Known', signed')
    BY <1>1, MessageStaysGenuine
  <2>2. \A msg \in net' : \/ msg \in msgs
                          \/ msg.type \in {"BranchSyncRequest", "NewView"}
    <3>1. \A msg \in net' : \/ msg \in msgs
                            \/ msg.type = "BranchSyncRequest"
                            \/ msg = NewView(r, view'[r], machine[r].qc_high)
      BY DEF TimeoutEffect
    <3>2. NewView(r, view'[r], machine[r].qc_high).type = "NewView"
      BY DEF NewView
    <3> QED
      BY ONLY <3>1, <3>2
  <2> QED
    BY <2>1, <2>2 DEF GenuineMessage
<1>7. /\ machine' = [machine EXCEPT ![r] = m]
      /\ ready_queue' = [ready_queue EXCEPT ![r] = ready_queue'[r]]
  BY DEF TimeoutEffect
<1> HIDE DEF m
<1> QED
  BY <1>1, <1>2, <1>3, <1>4, <1>5, <1>6, <1>7, GenuineStep

\* A step that makes no proposal, signs nothing, and leaves what is pending and
\* being synchronized alone keeps Genuine if its new state is genuine.
LEMMA LocalGenuine ==
  ASSUME TypeOK, Genuine, NEW r \in Replica, NEW m \in MachineState, NEW q,
         NEW b \in SUBSET Known,
         UNCHANGED <<pending_prop, proposed, signed>>,
         machine' = [machine EXCEPT ![r] = m],
         branch' = [branch EXCEPT ![r] = b],
         ready_queue' = [ready_queue EXCEPT ![r] = q],
         GenuineMachine(m, Known, signed),
         GenuineQueue(q, r, Known, signed),
         \A msg \in net' : msg \in net \/ GenuineMessage(msg, Known, signed)
  PROVE  Genuine'
<1>1. Known' = Known /\ signed' = signed
  BY DEF Known
<1>2. Grows(Known, signed, Known', signed')
  BY <1>1 DEF Grows
<1>3. /\ pending_prop' = [pending_prop EXCEPT ![r] = pending_prop[r]]
      /\ \A o \in pending_prop[r] : o.prop \in Known'
  BY <1>1 DEF TypeOK, Genuine
<1>4. /\ GenuineMachine(m, Known', signed') /\ GenuineQueue(q, r, Known', signed')
      /\ b \subseteq Known'
      /\ \A msg \in net' : msg \in net \/ GenuineMessage(msg, Known', signed')
  BY <1>1
<1> QED
  BY <1>2, <1>3, <1>4, GenuineStep

\* The parts of one replica's state are genuine.
LEMMA GenuineParts ==
  ASSUME TypeOK, Genuine, NEW r \in Replica
  PROVE  /\ GenuineMachine(machine[r], Known, signed)
         /\ GenuineQueue(ready_queue[r], r, Known, signed)
         /\ branch[r] \in SUBSET Known
         /\ branch = [branch EXCEPT ![r] = branch[r]]
         /\ ready_queue = [ready_queue EXCEPT ![r] = ready_queue[r]]
         /\ machine[r].nodes \subseteq Known /\ machine[r].leaf \in Known
BY DEF TypeOK, Genuine, GenuineMachine

\* What is left of the queue, and its head, are genuine.
LEMMA NextReadyGenuine ==
  ASSUME TypeOK, Genuine, NEW r \in Replica, NEW type, NextReady(r, type)
  PROVE  /\ GenuineReady(Head(ready_queue[r]), r, Known, signed)
         /\ GenuineQueue(Tail(ready_queue[r]), r, Known, signed)
         /\ Head(ready_queue[r]).type = type
<1> DEFINE q == ready_queue[r]
<1>1. q \in Seq(Ready) /\ q # << >> /\ GenuineQueue(q, r, Known, signed) /\ Head(q).type = type
  BY MachineType, GenuineParts DEF NextReady
<1> HIDE DEF q
<1>2. GenuineReady(Head(q), r, Known, signed) /\ GenuineQueue(Tail(q), r, Known, signed)
  BY <1>1, QueueTail
<1> QED
  BY <1>1, <1>2 DEF q

\* A new proposal is known from then on, and its proposer's vote is genuine.
LEMMA ProposeGenuine ==
  ASSUME TypeOK, Genuine, NEW r \in Replica, Propose(r)
  PROVE  Genuine'
<1> DEFINE prop == MakeLeaf(machine[r])
           res == OnBeat(machine[r], r)
           ready == NewProposalReady(prop)
           own == [view |-> prop.height, from |-> r, sign |-> HashOf(prop)]
<1>1. /\ prop \in TreeNode /\ res.ready = ready /\ ready.prop = prop
      /\ ready.type = "NewProposal" /\ ready \in Ready
      /\ res.m \in MachineState
      /\ res.m.nodes \subseteq machine[r].nodes \cup {prop}
      /\ res.m.leaf = prop
      /\ res.m.voting_set \subseteq machine[r].voting_set \cup {own}
  BY MachineType, OnBeatEffect, ReadyTypes DEF NewProposalReady
<1>2. /\ machine' = [machine EXCEPT ![r] = res.m]
      /\ proposed' = proposed \cup {[from |-> r, prop |-> res.ready.prop]}
      /\ signed' = [signed EXCEPT ![r] = @ \cup {HashOf(res.ready.prop)}]
      /\ ready_queue' = [ready_queue EXCEPT ![r] = Append(@, res.ready)]
      /\ UNCHANGED <<pending_prop, branch, net>>
  BY DEF Propose, Sign
<1> DEFINE m == res.m
<1> HIDE DEF prop, res, ready
<1>3. /\ Known' = Known \cup {prop}
      /\ signed' = [signed EXCEPT ![r] = @ \cup {HashOf(prop)}]
      /\ ready_queue' = [ready_queue EXCEPT ![r] = Append(@, ready)]
  <2> DEFINE new == [from |-> r, prop |-> prop]
  <2>1. new.prop = prop /\ proposed' = proposed \cup {new}
    BY <1>1, <1>2
  <2> HIDE DEF new
  <2>2. Known' = Known \cup {prop}
    BY <2>1 DEF Known
  <2> QED
    BY <1>1, <1>2, <2>2
<1>4. Grows(Known, signed, Known', signed') /\ HashOf(prop) \in signed'[r]
  BY <1>3 DEF Grows, TypeOK
<1>5. GenuineMachine(m, Known', signed')
  <2>1. GenuineMachine(machine[r], Known', signed')
    BY <1>4, GenuineParts, MachineType, MachineStaysGenuine
  <2>2. GenuineVote(own, Known', signed')
    BY <1>3, <1>4 DEF GenuineVote
  <2> HIDE DEF own
  <2> QED
    BY <1>1, <1>3, <2>1, <2>2 DEF GenuineMachine
<1>6. GenuineQueue(Append(ready_queue[r], ready), r, Known', signed')
  <2> DEFINE q == ready_queue[r]
  <2>1. q \in Seq(Ready) /\ GenuineQueue(q, r, Known, signed)
    BY MachineType, GenuineParts
  <2> HIDE DEF q
  <2>2. GenuineQueue(q, r, Known', signed')
    BY <1>4, <2>1, QueueStaysGenuine
  <2>3. GenuineReady(ready, r, Known', signed')
    BY <1>1, <1>3 DEF GenuineReady
  <2> QED
    BY <1>1, <2>1, <2>2, <2>3, QueueAppend DEF q
<1> DEFINE k == Append(ready_queue[r], ready)
<1>7. /\ ready_queue' = [ready_queue EXCEPT ![r] = k]
      /\ branch' = [branch EXCEPT ![r] = branch[r]] /\ branch[r] \subseteq Known'
      /\ pending_prop' = [pending_prop EXCEPT ![r] = pending_prop[r]]
      /\ \A o \in pending_prop[r] : o.prop \in Known'
      /\ \A msg \in net' : msg \in net
  BY <1>2, <1>3 DEF TypeOK, Genuine
<1>8. machine' = [machine EXCEPT ![r] = m] /\ m \in MachineState
  BY <1>1, <1>2
<1> HIDE DEF k, m
<1> QED
  BY <1>4, <1>5, <1>6, <1>7, <1>8, GenuineStep DEF k

\* Every step of a replica's loop keeps Genuine.
LEMMA StepGenuine ==
  ASSUME TypeOK, Genuine, NEW r \in Replica, Step(r)
  PROVE  Genuine'
<1> DEFINE q == ready_queue[r]
           rest == Tail(q)
           m == machine[r]
<1>0. /\ m \in MachineState /\ GenuineMachine(m, Known, signed)
      /\ machine = [machine EXCEPT ![r] = m]
      /\ branch = [branch EXCEPT ![r] = branch[r]] /\ branch[r] \in SUBSET Known
      /\ q \in Seq(Ready) /\ GenuineQueue(q, r, Known, signed)
      /\ ready_queue = [ready_queue EXCEPT ![r] = q]
  BY MachineType, GenuineParts
<1>1. CASE Propose(r)
  BY <1>1, ProposeGenuine
<1>2. CASE Tick(r)
  <2> HIDE DEF m, q
  <2>1. /\ machine' = [machine EXCEPT ![r] = m] /\ branch' = [branch EXCEPT ![r] = branch[r]]
        /\ ready_queue' = [ready_queue EXCEPT ![r] = q] /\ net' = net
        /\ UNCHANGED <<pending_prop, proposed, signed>>
    BY <1>0, <1>2 DEF Tick
  <2> QED
    BY <1>0, <2>1, LocalGenuine
<1>3. CASE LocalTimeout(r)
  BY <1>0, <1>3, LocalTimeoutEffect, TimeoutGenuine DEF TypeOK
<1>4. CASE SyncNext(r)
  <2>1. PICK prop \in branch[r] :
          IF VerifyProposal(machine[r], prop.justify)
          THEN /\ machine' = [machine EXCEPT ![r] = OnSyncedProposal(@, prop)]
               /\ branch' = [branch EXCEPT ![r] = @ \ {prop}]
          ELSE /\ branch' = [branch EXCEPT ![r] = {}]
               /\ UNCHANGED machine
    BY <1>4 DEF SyncNext
  <2>2. UNCHANGED <<pending_prop, ready_queue, net, proposed, signed>>
    BY <1>4 DEF SyncNext
  <2> DEFINE synced == OnSyncedProposal(machine[r], prop)
  <2>3. prop \in TreeNode /\ prop \in Known
    BY <1>0 DEF TypeOK
  <2>4. synced \in MachineState /\ GenuineMachine(synced, Known, signed)
    <3>1. /\ synced \in MachineState
          /\ synced.nodes \subseteq m.nodes \cup {prop}
          /\ synced.leaf \in m.nodes \cup {m.leaf, prop}
          /\ synced.voting_set = m.voting_set
      BY <1>0, <2>3, OnSyncedProposalEffect
    <3> HIDE DEF synced, m
    <3> QED
      BY <1>0, <2>3, <3>1 DEF GenuineMachine
  <2>5. \E b \in SUBSET Known : branch' = [branch EXCEPT ![r] = b]
    BY <1>0, <2>1
  <2>6. \E u \in {m, synced} : machine' = [machine EXCEPT ![r] = u]
    BY <1>0, <2>1
  <2>7. PICK b \in SUBSET Known, u \in {m, synced} :
          branch' = [branch EXCEPT ![r] = b] /\ machine' = [machine EXCEPT ![r] = u]
    BY <2>5, <2>6
  <2> HIDE DEF synced, m, q
  <2>8. ready_queue' = [ready_queue EXCEPT ![r] = q]
    BY <1>0, <2>2
  <2> QED
    BY <1>0, <2>2, <2>4, <2>7, <2>8, LocalGenuine
<1>5. CASE SyncEnd(r)
  <2> DEFINE x == BranchSyncDoneReady(machine[r].leaf)
             k == Append(q, x)
  <2>1. x \in Ready /\ GenuineReady(x, r, Known, signed)
    BY MachineType, ReadyTypes, GenuineParts DEF GenuineReady, BranchSyncDoneReady
  <2>2. /\ ready_queue' = [ready_queue EXCEPT ![r] = k]
        /\ UNCHANGED <<machine, branch, pending_prop, proposed, net, signed>>
    BY <1>5 DEF SyncEnd, Continue
  <2> HIDE DEF m, q, x
  <2>3. GenuineQueue(k, r, Known, signed)
    BY <1>0, <2>1, QueueAppend
  <2> HIDE DEF k
  <2> QED
    BY <1>0, <2>2, <2>3, LocalGenuine
<1>6. CASE EmitNewProposal(r)
  <2>1. /\ GenuineReady(Head(q), r, Known, signed) /\ GenuineQueue(rest, r, Known, signed)
        /\ Head(q).type = "NewProposal"
    BY <1>6, NextReadyGenuine DEF EmitNewProposal
  <2>2. /\ net' = net \cup {[type |-> "NewProposal", from |-> r, to |-> to,
                              prop |-> Head(q).prop] : to \in Replica \ {r}}
        /\ ready_queue' = [ready_queue EXCEPT ![r] = rest]
        /\ UNCHANGED <<machine, branch, pending_prop, proposed, signed>>
    BY <1>6 DEF EmitNewProposal, Continue
  <2> HIDE DEF m, q, rest
  <2>3. Head(q).prop \in Known
    BY <2>1 DEF GenuineReady
  <2>4. \A msg \in net' : msg \in net \/ GenuineMessage(msg, Known, signed)
    BY <2>2, <2>3 DEF GenuineMessage
  <2> QED
    BY <1>0, <2>1, <2>2, <2>4, LocalGenuine
<1>7. CASE ApplyUpdateQCHigh(r)
  <2> DEFINE leaf == Head(q).node
             u == UpdateQCHigh(m, leaf, leaf.justify)
  <2>1. /\ GenuineReady(Head(q), r, Known, signed) /\ GenuineQueue(rest, r, Known, signed)
        /\ Head(q).type = "UpdateQCHigh" /\ leaf \in TreeNode /\ leaf.justify \in QC
    BY <1>7, NextReadyGenuine, NextReadyType DEF ApplyUpdateQCHigh, TreeNode
  <2>2. /\ machine' = [machine EXCEPT ![r] = u]
        /\ ready_queue' = [ready_queue EXCEPT ![r] = rest]
        /\ UNCHANGED <<branch, pending_prop, proposed, net, signed>>
    BY <1>7 DEF ApplyUpdateQCHigh, Continue
  <2>3. leaf \in Known
    BY <2>1 DEF GenuineReady
  <2> HIDE DEF m, q, rest, leaf
  <2>4. /\ u \in MachineState /\ u.nodes \subseteq m.nodes \cup {leaf}
        /\ u.leaf \in {m.leaf, leaf} /\ u.voting_set = m.voting_set
    BY <1>0, <2>1, UpdateQCHighEffect
  <2> HIDE DEF u
  <2>5. GenuineMachine(u, Known, signed)
    BY <1>0, <2>3, <2>4 DEF GenuineMachine
  <2> QED
    BY <1>0, <2>1, <2>2, <2>4, <2>5, LocalGenuine
<1>8. CASE EmitSignature(r)
  <2>1. /\ GenuineReady(Head(q), r, Known, signed) /\ GenuineQueue(rest, r, Known, signed)
        /\ Head(q).type = "Signature" /\ rest \in Seq(Ready)
        /\ Head(q).prop \in TreeNode /\ Head(q).to \in Replica
    BY <1>8, NextReadyGenuine, NextReadyType, EmitSignatureEffect
  <2>2. /\ VoteMessage(r) \in Message
        /\ GenuineMessage(VoteMessage(r), Known, signed)
    BY <2>1, HashType DEF VoteMessage, Sign, Message, GenuineMessage, GenuineReady
  <2>3. /\ TimeoutEffect(r, rest, net \cup {VoteMessage(r)})
        /\ UNCHANGED <<branch, proposed>>
    BY <1>8, EmitSignatureEffect
  <2> DEFINE msgs == net \cup {VoteMessage(r)}
  <2>4. /\ msgs \subseteq Message
        /\ \A msg \in msgs : msg \in net \/ GenuineMessage(msg, Known, signed)
    BY <2>2 DEF TypeOK
  <2> HIDE DEF msgs, q, rest
  <2> QED
    BY <2>1, <2>3, <2>4, TimeoutGenuine DEF msgs
<1>9. CASE FinishBranchSync(r)
  <2>1. GenuineQueue(rest, r, Known, signed) /\ rest \in Seq(Ready)
    BY <1>9, NextReadyGenuine, NextReadyType, FinishBranchSyncEffect
  <2>2. /\ PendingEffect(r, machine[r], pending_prop[r], rest, net)
        /\ UNCHANGED <<branch, proposed>>
    BY <1>9, FinishBranchSyncEffect
  <2>3. pending_prop[r] \in SUBSET Origin /\ \A o \in pending_prop[r] : o.prop \in Known
    BY DEF TypeOK, Genuine
  <2> HIDE DEF q, rest
  <2> QED
    BY <2>1, <2>2, <2>3, PendingGenuine
<1>10. CASE ReachConsensus(r)
  <2>1. GenuineQueue(rest, r, Known, signed) /\ rest \in Seq(Ready)
    BY <1>10, NextReadyGenuine, NextReadyType, ReachConsensusEffect
  <2> HIDE DEF q
  <2> QED
    BY <1>10, <2>1, ReachConsensusEffect, TimeoutGenuine DEF TypeOK, q
<1> QED
  BY <1>1, <1>2, <1>3, <1>4, <1>5, <1>6, <1>7, <1>8, <1>9, <1>10 DEF Step

\* Handling any message keeps Genuine.
LEMMA RecvGenuine ==
  ASSUME TypeOK, Genuine, NEW msg \in net, Recv(msg)
  PROVE  Genuine'
<1> DEFINE r == msg.to
           q == ready_queue[r]
           m == machine[r]
<1>00. msg \in Message /\ r \in Replica /\ msg.from \in Replica
       /\ GenuineMessage(msg, Known, signed)
  BY MessageFields DEF TypeOK, Genuine
<1>0. /\ m \in MachineState /\ GenuineMachine(m, Known, signed)
      /\ machine = [machine EXCEPT ![r] = m]
      /\ branch = [branch EXCEPT ![r] = branch[r]] /\ branch[r] \in SUBSET Known
      /\ q \in Seq(Ready) /\ GenuineQueue(q, r, Known, signed)
      /\ ready_queue = [ready_queue EXCEPT ![r] = q]
  BY <1>00, MachineType, GenuineParts
<1>1. CASE RecvNewProposal(msg)
  <2>1. msg.prop \in Known
    BY <1>00, <1>1 DEF RecvNewProposal, GenuineMessage
  <2> DEFINE pending == PendingWith(msg)
             msgs == net \ {msg}
  <2>2. /\ pending \in SUBSET Origin /\ msgs \subseteq net
        /\ PendingEffect(r, machine[r], pending, q, msgs)
        /\ UNCHANGED <<branch, proposed>>
    BY <1>1, RecvNewProposalEffect
  <2>3. \A o \in pending : o.prop \in Known
    BY <1>00, <2>1 DEF PendingWith, Genuine
  <2> HIDE DEF pending, msgs, q, r
  <2> QED
    BY <1>00, <1>0, <2>2, <2>3, PendingGenuine
<1>2. CASE RecvAcceptProposal(msg)
  <2> DEFINE res == OnRecvVote(m, msg.from, msg.prop, msg.sign)
             vote == [view |-> msg.prop.height, from |-> msg.from, sign |-> msg.sign]
             u == res.m
             k == Enqueue(q, res.ready)
  <2>1. /\ msg.type = "AcceptProposal" /\ msg.prop \in TreeNode /\ msg.sign \in Hash
        /\ msg.prop \in Known
    BY <1>00, <1>2, MessageFields DEF RecvAcceptProposal, GenuineMessage
  <2>2. /\ u \in MachineState
        /\ u.nodes \subseteq m.nodes \cup {msg.prop} /\ u.leaf \in {m.leaf, msg.prop}
        /\ u.voting_set \subseteq m.voting_set \cup {vote}
        /\ res.ready \in {Nil, ReachConsensusReady(m.current_view)}
    BY <1>00, <1>0, <2>1, OnRecvVoteEffect
  <2>3. /\ machine' = [machine EXCEPT ![r] = u] /\ net' = net \ {msg}
        /\ ready_queue' = [ready_queue EXCEPT ![r] = k]
        /\ UNCHANGED <<branch, pending_prop, proposed, signed>>
    BY <1>2 DEF RecvAcceptProposal, Continue
  <2>4. GenuineVote(vote, Known, signed)
    BY <1>00, <2>1 DEF GenuineMessage, GenuineVote
  <2> HIDE DEF res, vote, u, m, q, r
  <2>5. GenuineMachine(u, Known, signed)
    BY <1>0, <2>1, <2>2, <2>4 DEF GenuineMachine
  <2>6. GenuineQueue(k, r, Known, signed)
    <3>1. CASE res.ready = Nil
      BY <1>0, <3>1 DEF Enqueue
    <3>2. CASE res.ready = ReachConsensusReady(m.current_view) /\ res.ready # Nil
      <4>1. res.ready \in Ready
        BY <1>0, <3>2, ReadyTypes DEF MachineState
      <4>2. GenuineReady(res.ready, r, Known, signed)
        BY <3>2 DEF GenuineReady, ReachConsensusReady
      <4>3. k = Append(q, res.ready)
        BY <3>2 DEF Enqueue
      <4> QED
        BY <1>0, <4>1, <4>2, <4>3, QueueAppend
    <3> QED
      BY <2>2, <3>1, <3>2
  <2> HIDE DEF k
  <2>7. /\ branch' = [branch EXCEPT ![r] = branch[r]] /\ \A x \in net' : x \in net
    BY <1>0, <2>3
  <2> QED
    BY <1>00, <1>0, <2>2, <2>3, <2>5, <2>6, <2>7, LocalGenuine
<1>3. CASE RecvNewView(msg)
  <2> DEFINE res == OnRecvNewView(m, msg.qc_high)
             u == res.m
             k == Enqueue(q, res.ready)
  <2>1. msg.qc_high \in QC
    BY <1>00, <1>3, MessageFields DEF RecvNewView
  <2>2. /\ u \in MachineState
        /\ u.nodes \subseteq m.nodes /\ u.leaf \in m.nodes \cup {m.leaf}
        /\ u.voting_set = m.voting_set
        /\ res.ready = UpdateQCHighReady(u.leaf)
    BY <1>0, <2>1, OnRecvNewViewEffect
  <2>3. /\ machine' = [machine EXCEPT ![r] = u] /\ net' = net \ {msg}
        /\ ready_queue' = [ready_queue EXCEPT ![r] = k]
        /\ UNCHANGED <<branch, pending_prop, proposed, signed>>
    BY <1>3 DEF RecvNewView, Continue
  <2> HIDE DEF res, u, m, q, r
  <2>4. GenuineMachine(u, Known, signed) /\ u.leaf \in Known
    BY <1>0, <2>2 DEF GenuineMachine
  <2>5. /\ res.ready \in Ready /\ GenuineReady(res.ready, r, Known, signed)
        /\ k = Append(q, res.ready)
    BY <2>2, <2>4, ReadyTypes
       DEF GenuineReady, UpdateQCHighReady, Enqueue, Nil, MachineState
  <2>6. GenuineQueue(k, r, Known, signed)
    BY <1>0, <2>5, QueueAppend
  <2> HIDE DEF k
  <2>7. /\ branch' = [branch EXCEPT ![r] = branch[r]] /\ \A x \in net' : x \in net
    BY <1>0, <2>3
  <2> QED
    BY <1>00, <1>0, <2>2, <2>3, <2>4, <2>6, <2>7, LocalGenuine
<1>4. CASE RecvBranchSyncRequest(msg)
  <2> DEFINE answer == [type |-> "BranchSyncResponse", from |-> r, to |-> msg.from,
                        view |-> view[r], branch |-> FetchBranch(m, msg.grow_from)]
  <2>1. /\ net' = (net \ {msg}) \cup {answer}
        /\ ready_queue' = [ready_queue EXCEPT ![r] = q]
        /\ UNCHANGED <<machine, branch, pending_prop, proposed, signed>>
    BY <1>4 DEF RecvBranchSyncRequest, Continue
  <2>2. GenuineMessage(answer, Known, signed)
    BY <1>0 DEF GenuineMessage, FetchBranch, GenuineMachine
  <2> HIDE DEF answer, m, q, r
  <2>3. \A x \in net' : x \in net \/ GenuineMessage(x, Known, signed)
    BY <2>1, <2>2
  <2> QED
    BY <1>00, <1>0, <2>1, <2>3, LocalGenuine
<1>5. CASE RecvBranchSyncResponse(msg)
  <2>1. msg.branch \in SUBSET Known
    BY <1>00, <1>5 DEF RecvBranchSyncResponse, GenuineMessage
  <2>2. /\ branch' = [branch EXCEPT ![r] = msg.branch] /\ net' = net \ {msg}
        /\ UNCHANGED <<machine, ready_queue, pending_prop, proposed, signed>>
    BY <1>5 DEF RecvBranchSyncResponse
  <2> HIDE DEF m, q, r
  <2>3. /\ machine' = [machine EXCEPT ![r] = m]
        /\ ready_queue' = [ready_queue EXCEPT ![r] = q] /\ \A x \in net' : x \in net
    BY <1>0, <2>2
  <2> QED
    BY <1>00, <1>0, <2>1, <2>2, <2>3, LocalGenuine
<1> QED
  BY <1>1, <1>2, <1>3, <1>4, <1>5 DEF Recv

\* Whatever order proposals, votes and synchronized branches arrive in, replicas
\* store only proposals that a leader made and count only votes that were cast.
THEOREM GenuineAlways == Spec => []Genuine
<1>1. Init => Genuine
  <2> SUFFICES ASSUME Init PROVE Genuine
    OBVIOUS
  <2>1. INIT_NODE \in Known
    BY DEF Known
  <2>2. \A msg \in net : GenuineMessage(msg, Known, signed)
    <3>1. \A msg \in net : \E r \in Replica : msg = NewView(r, 1, INIT_QC)
      BY DEF Init
    <3>2. \A r \in Replica : NewView(r, 1, INIT_QC).type = "NewView"
      BY DEF NewView
    <3>3. \A msg \in net : msg.type = "NewView"
      BY ONLY <3>1, <3>2
    <3> QED
      BY ONLY <3>3 DEF GenuineMessage
  <2> SUFFICES ASSUME NEW r \in Replica
               PROVE  /\ GenuineMachine(machine[r], Known, signed)
                      /\ branch[r] \subseteq Known
                      /\ \A o \in pending_prop[r] : o.prop \in Known
                      /\ GenuineQueue(ready_queue[r], r, Known, signed)
    BY <2>2 DEF Genuine
  <2>3. /\ machine[r].nodes = {INIT_NODE} /\ machine[r].leaf = INIT_NODE
        /\ machine[r].voting_set = {}
    BY DEF Init, IncreaseView, InitMachine
  <2>4. GenuineMachine(machine[r], Known, signed)
    BY <2>1, <2>3 DEF GenuineMachine
  <2>5. branch[r] = {} /\ pending_prop[r] = {} /\ Len(ready_queue[r]) = 0
    BY DEF Init
  <2>6. GenuineQueue(ready_queue[r], r, Known, signed)
    BY ONLY <2>5 DEF GenuineQueue
  <2> QED
    BY <2>4, <2>5, <2>6
<1>2. TypeOK /\ Genuine /\ [Next]_vars => Genuine'
  <2> SUFFICES ASSUME TypeOK, Genuine, [Next]_vars PROVE Genuine'
    OBVIOUS
  <2>1. CASE UNCHANGED vars
    BY <2>1 DEF vars, pmVars, Genuine, Known
  <2> QED
    BY <2>1, StepGenuine, RecvGenuine DEF Next
<1> QED
  BY <1>1, <1>2, TypeCorrect, PTL DEF Spec

-----------------------------------------------------------------------------
(***************************************************************************)
(* Certificates                                                            *)
(***************************************************************************)

\* Backed, given the signatures.
BackedBy(qc, sigs) ==
  qc.sign # {} =>
    \E h \in qc.sign :
      qc.sign = {h} /\ Cardinality({r \in Replica : h \in sigs[r]}) > Threshold

\* Backed, with what has been signed as a parameter.
LEMMA BackedIsBackedBy == \A qc : Backed(qc) <=> BackedBy(qc, signed)
BY DEF Backed, BackedBy, SignedByQuorum

\* A certificate stays backed as more is signed.
LEMMA StaysBacked ==
  ASSUME NEW qc, NEW sigs, NEW sigs2, \A r \in Replica : sigs[r] \subseteq sigs2[r],
         BackedBy(qc, sigs)
  PROVE  BackedBy(qc, sigs2)
<1>1. ASSUME NEW h, Cardinality({r \in Replica : h \in sigs[r]}) > Threshold
      PROVE  Cardinality({r \in Replica : h \in sigs2[r]}) > Threshold
  <2> DEFINE S == {r \in Replica : h \in sigs[r]}
             T == {r \in Replica : h \in sigs2[r]}
  <2>1. S \subseteq T /\ T \subseteq Replica
    OBVIOUS
  <2>2. Cardinality(S) > Threshold
    BY <1>1
  <2> HIDE DEF S, T
  <2>3. /\ Cardinality(S) \in Nat /\ Cardinality(T) \in Nat
        /\ Cardinality(S) <= Cardinality(T)
    BY <2>1, ReplicaSubset
  <2>4. Cardinality(T) > Threshold
    BY <2>2, <2>3, ThresholdBound
  <2> QED
    BY <2>4 DEF T
<1> QED
  BY <1>1 DEF BackedBy

\* The certificate in a known node is backed: the node was proposed with it, or
\* it is the first node, whose certificate carries no signature.
LEMMA KnownBacked ==
  ASSUME CertificatesBacked, NEW n \in Known
  PROVE  BackedBy(n.justify, signed)
<1>1. CASE n = INIT_NODE
  BY <1>1 DEF INIT_NODE, BackedBy
<1>2. CASE \E p \in proposed : n = p.prop
  BY <1>2, BackedIsBackedBy DEF CertificatesBacked, Certificates
<1> QED
  BY <1>1, <1>2 DEF Known

\* A step of replica r keeps the certificates backed if the ones it adds are.
LEMMA BackedStep ==
  ASSUME TypeOK, CertificatesBacked, NEW r \in Replica,
         \A s \in Replica : signed[s] \subseteq signed'[s],
         NEW m, machine' = [machine EXCEPT ![r] = m],
         BackedBy(m.qc_high, signed'),
         \A p \in proposed' : p \in proposed \/ BackedBy(p.prop.justify, signed'),
         \A msg \in net' :
           msg.type = "NewView" => msg \in net \/ BackedBy(msg.qc_high, signed')
  PROVE  CertificatesBacked'
<1>1. ASSUME NEW qc, qc \in Certificates PROVE BackedBy(qc, signed')
  <2>1. BackedBy(qc, signed)
    BY <1>1, BackedIsBackedBy DEF CertificatesBacked
  <2> QED
    BY <2>1, StaysBacked
<1>2. ASSUME NEW s \in Replica PROVE BackedBy(machine'[s].qc_high, signed')
  <2>1. CASE s = r
    BY <2>1 DEF TypeOK
  <2>2. CASE s # r
    <3>1. machine'[s] = machine[s]
      BY <2>2 DEF TypeOK
    <3> QED
      BY <1>1, <3>1 DEF Certificates
  <2> QED
    BY <2>1, <2>2
<1>3. ASSUME NEW p \in proposed' PROVE BackedBy(p.prop.justify, signed')
  BY <1>1 DEF Certificates
<1>4. ASSUME NEW msg \in net', msg.type = "NewView"
      PROVE  BackedBy(msg.qc_high, signed')
  BY <1>1, <1>4 DEF Certificates
<1>5. \A qc \in Certificates' : BackedBy(qc, signed')
  BY <1>2, <1>3, <1>4 DEF Certificates
<1>6. \A qc : Backed(qc)' <=> BackedBy(qc, signed')
  BY DEF Backed, BackedBy, SignedByQuorum
<1> QED
  BY <1>5, <1>6 DEF CertificatesBacked

\* The certificate that on_recv_vote forms is backed: the votes counted for a
\* view all sign its one proposal, and their senders have all signed it.
LEMMA FormedBacked ==
  ASSUME TypeOK, Genuine, NewViewsSpent, OneProposalPerView,
         NEW m \in MachineState, NEW v, NEW qc,
         \A w \in m.voting_set : GenuineVote(w, Known, signed),
         VoteSetSize(m, v) > Threshold,
         qc.sign = CombinedSign(m, v)
  PROVE  BackedBy(qc, signed)
<1> DEFINE votes == VotesAt(m, v)
           voters == {w.from : w \in votes}
<1>1. \A w \in votes : /\ w.from \in Replica
                      /\ w.sign \in signed[w.from]
                      /\ \E n \in Known : n.height = v /\ HashOf(n) = w.sign
  BY DEF VotesAt, GenuineVote, MachineState, Vote
<1>2. \A n, o \in Known : n.height = o.height => n = o
  <2>1. \A p \in proposed : p.prop.height # 0
    BY MaxViewAssumption DEF NewViewsSpent, LastView
  <2>2. INIT_NODE.height = 0
    BY DEF INIT_NODE
  <2>3. \A n \in Known : n = INIT_NODE \/ \E p \in proposed : n = p.prop
    BY DEF Known
  <2>4. \A p, q \in proposed : p.prop.height = q.prop.height => p.prop = q.prop
    BY DEF OneProposalPerView
  <2> QED
    BY <2>1, <2>2, <2>3, <2>4
<1>3. \A w, x \in votes : w.sign = x.sign
  BY <1>1, <1>2
<1>4. qc.sign = {w.sign : w \in votes}
  BY DEF CombinedSign, CombinePartialSign
<1>5. Cardinality(voters) > Threshold
  BY DEF VoteSetSize
<1> HIDE DEF votes
<1>6. SUFFICES ASSUME qc.sign # {}
               PROVE  \E h \in qc.sign :
                        /\ qc.sign = {h}
                        /\ Cardinality({r \in Replica : h \in signed[r]}) > Threshold
  BY DEF BackedBy
<1>7. PICK x \in votes : x.sign \in qc.sign
  BY <1>4, <1>6
<1> DEFINE h == x.sign
           signers == {r \in Replica : h \in signed[r]}
<1>8. qc.sign = {h}
  BY <1>3, <1>4, <1>7
<1>9. voters \subseteq signers /\ signers \subseteq Replica
  BY <1>1, <1>3
<1> HIDE DEF voters, signers
<1>10. /\ Cardinality(voters) \in Nat /\ Cardinality(signers) \in Nat
       /\ Cardinality(voters) <= Cardinality(signers)
  BY <1>9, ReplicaSubset
<1>11. Cardinality(signers) > Threshold
  BY <1>5, <1>10, ThresholdBound
<1> QED
  BY <1>8, <1>11 DEF signers

\* check_pending_prop and process_local_timeout take certificates only from
\* proposals, and send only the certificate the replica holds.
LEMMA PendingBacked ==
  ASSUME TypeOK, CertificatesBacked, NEW r \in Replica, NEW pending, NEW q, NEW msgs,
         PendingEffect(r, machine[r], pending, q, msgs),
         \A o \in pending : o.prop \in Known,
         msgs \subseteq net, UNCHANGED proposed
  PROVE  CertificatesBacked'
<1> DEFINE m == machine'[r]
<1>0. \/ signed' = signed
      \/ \E o \in pending : signed' = [signed EXCEPT ![r] = @ \cup {HashOf(o.prop)}]
  BY DEF PendingEffect
<1>1. \A s \in Replica : signed[s] \subseteq signed'[s]
  BY <1>0 DEF TypeOK
<1>2. BackedBy(machine[r].qc_high, signed)
  BY BackedIsBackedBy DEF CertificatesBacked, Certificates
<1>3. machine'[r].qc_high \in {machine[r].qc_high} \cup {o.prop.justify : o \in pending}
  BY DEF PendingEffect
<1>4. BackedBy(m.qc_high, signed)
  BY <1>2, <1>3, KnownBacked
<1>5. BackedBy(m.qc_high, signed')
  BY <1>1, <1>4, StaysBacked
<1>6. /\ machine' = [machine EXCEPT ![r] = m]
      /\ \A msg \in net' : msg.type = "NewView" => msg \in net
  BY DEF PendingEffect
<1> HIDE DEF m
<1> QED
  BY <1>1, <1>5, <1>6, BackedStep

\* process_local_timeout announces the certificate the replica holds: nothing new to back.
LEMMA TimeoutBacked ==
  ASSUME TypeOK, Genuine, CertificatesBacked, NEW r \in Replica, NEW q, NEW msgs,
         TimeoutEffect(r, q, msgs),
         \A msg \in msgs : msg.type = "NewView" => msg \in net,
         UNCHANGED proposed
  PROVE  CertificatesBacked'
<1> DEFINE m == machine'[r]
<1>0. \/ signed' = signed
      \/ \E o \in pending_prop[r] : signed' = [signed EXCEPT ![r] = @ \cup {HashOf(o.prop)}]
  BY DEF TimeoutEffect
<1>1. \A s \in Replica : signed[s] \subseteq signed'[s]
  BY <1>0 DEF TypeOK
<1>2. BackedBy(machine[r].qc_high, signed)
  BY BackedIsBackedBy DEF CertificatesBacked, Certificates
<1>3. /\ m.qc_high \in {machine[r].qc_high} \cup {o.prop.justify : o \in pending_prop[r]}
      /\ \A o \in pending_prop[r] : o.prop \in Known
  BY DEF TimeoutEffect, Genuine
<1>4. BackedBy(m.qc_high, signed)
  BY <1>2, <1>3, KnownBacked
<1>5. BackedBy(m.qc_high, signed') /\ BackedBy(machine[r].qc_high, signed')
  BY <1>1, <1>2, <1>4, StaysBacked
<1>6. machine' = [machine EXCEPT ![r] = m]
  BY DEF TimeoutEffect
<1>7. \A msg \in net' :
        msg.type = "NewView" => msg \in net \/ BackedBy(msg.qc_high, signed')
  <2>1. NewView(r, view'[r], machine[r].qc_high).qc_high = machine[r].qc_high
    BY DEF NewView
  <2> QED
    BY <1>5, <2>1 DEF TimeoutEffect
<1> HIDE DEF m
<1> QED
  BY <1>1, <1>5, <1>6, <1>7, BackedStep

\* A step that signs and proposes nothing, and sends no NewView message.
LEMMA LocalBacked ==
  ASSUME TypeOK, CertificatesBacked, NEW r \in Replica,
         UNCHANGED <<proposed, signed>>,
         NEW m, machine' = [machine EXCEPT ![r] = m],
         BackedBy(m.qc_high, signed),
         \A msg \in net' : msg.type = "NewView" => msg \in net
  PROVE  CertificatesBacked'
<1>1. BackedBy(m.qc_high, signed') /\ \A s \in Replica : signed[s] \subseteq signed'[s]
  OBVIOUS
<1> QED
  BY <1>1, BackedStep

\* Every step of a replica's loop keeps the certificates backed.
LEMMA StepBacked ==
  ASSUME TypeOK, Genuine, CertificatesBacked, NEW r \in Replica, Step(r)
  PROVE  CertificatesBacked'
<1> DEFINE m == machine[r]
<1>0. /\ machine = [machine EXCEPT ![r] = m] /\ BackedBy(m.qc_high, signed)
      /\ m \in MachineState
  BY MachineType, BackedIsBackedBy DEF CertificatesBacked, Certificates
<1>1. CASE Propose(r)
  <2> DEFINE prop == MakeLeaf(m)
             res == OnBeat(m, r)
             u == res.m
  <2>0. /\ res.ready = NewProposalReady(prop) /\ prop.justify = m.qc_high
        /\ u.qc_high = m.qc_high
    BY <1>0, OnBeatEffect
  <2>1. /\ res.ready.prop = prop /\ prop.justify = m.qc_high /\ u.qc_high = m.qc_high
    BY <2>0 DEF NewProposalReady
  <2>2. /\ machine' = [machine EXCEPT ![r] = u]
        /\ proposed' = proposed \cup {[from |-> r, prop |-> res.ready.prop]}
        /\ signed' = [signed EXCEPT ![r] = @ \cup {Sign(res.ready.prop)}]
        /\ UNCHANGED net
    BY <1>1 DEF Propose
  <2>3. \A s \in Replica : signed[s] \subseteq signed'[s]
    BY <2>2 DEF TypeOK
  <2>4. BackedBy(m.qc_high, signed')
    BY <1>0, <2>3, StaysBacked
  <2> HIDE DEF prop, res, m
  <2>5. \A p \in proposed' : p \in proposed \/ BackedBy(p.prop.justify, signed')
    BY <2>1, <2>2, <2>4
  <2>6. BackedBy(u.qc_high, signed')
    BY <2>1, <2>4
  <2> HIDE DEF u
  <2> QED
    BY <2>2, <2>3, <2>5, <2>6, BackedStep
<1>2. CASE Tick(r)
  BY <1>0, <1>2, LocalBacked DEF Tick
<1>3. CASE LocalTimeout(r)
  BY <1>3, LocalTimeoutEffect, TimeoutBacked
<1>4. CASE SyncNext(r)
  <2>1. PICK prop \in branch[r] :
          \/ machine' = [machine EXCEPT ![r] = OnSyncedProposal(@, prop)]
          \/ UNCHANGED machine
    BY <1>4 DEF SyncNext
  <2>2. UNCHANGED <<net, proposed, signed>>
    BY <1>4 DEF SyncNext
  <2> DEFINE synced == OnSyncedProposal(m, prop)
  <2>3. prop \in TreeNode /\ prop \in Known
    BY DEF TypeOK, Genuine
  <2>4. synced.qc_high \in {m.qc_high, prop.justify}
    BY <1>0, <2>3, OnSyncedProposalEffect
  <2>5. BackedBy(synced.qc_high, signed)
    BY <1>0, <2>3, <2>4, KnownBacked
  <2>6. \E u \in {m, synced} : machine' = [machine EXCEPT ![r] = u]
    BY <1>0, <2>1
  <2> HIDE DEF m, synced
  <2> QED
    BY <1>0, <2>2, <2>5, <2>6, LocalBacked
<1>5. CASE SyncEnd(r)
  BY <1>0, <1>5, LocalBacked DEF SyncEnd
<1>6. CASE EmitNewProposal(r)
  BY <1>0, <1>6, LocalBacked DEF EmitNewProposal
<1>7. CASE ApplyUpdateQCHigh(r)
  <2> DEFINE leaf == Head(ready_queue[r]).node
             u == UpdateQCHigh(m, leaf, leaf.justify)
  <2>1. /\ GenuineReady(Head(ready_queue[r]), r, Known, signed)
        /\ Head(ready_queue[r]).type = "UpdateQCHigh"
        /\ leaf \in TreeNode /\ leaf.justify \in QC
    BY <1>7, NextReadyGenuine, NextReadyType DEF ApplyUpdateQCHigh, TreeNode
  <2>2. machine' = [machine EXCEPT ![r] = u] /\ UNCHANGED <<proposed, net, signed>>
    BY <1>7 DEF ApplyUpdateQCHigh
  <2>3. leaf \in Known
    BY <2>1 DEF GenuineReady
  <2> HIDE DEF m, leaf
  <2>4. u.qc_high \in {m.qc_high, leaf.justify}
    BY <1>0, <2>1, UpdateQCHighEffect
  <2>5. BackedBy(u.qc_high, signed)
    BY <1>0, <2>3, <2>4, KnownBacked
  <2> HIDE DEF u
  <2> QED
    BY <2>2, <2>5, LocalBacked
<1>8. CASE EmitSignature(r)
  <2> DEFINE msgs == net \cup {VoteMessage(r)}
  <2>1. \A msg \in msgs : msg.type = "NewView" => msg \in net
    BY DEF VoteMessage
  <2>2. TimeoutEffect(r, Tail(ready_queue[r]), msgs) /\ UNCHANGED proposed
    BY <1>8, EmitSignatureEffect
  <2> HIDE DEF msgs
  <2> QED
    BY <2>1, <2>2, TimeoutBacked
<1>9. CASE FinishBranchSync(r)
  <2>1. \A o \in pending_prop[r] : o.prop \in Known
    BY DEF Genuine
  <2> QED
    BY <1>9, <2>1, FinishBranchSyncEffect, PendingBacked
<1>10. CASE ReachConsensus(r)
  BY <1>10, ReachConsensusEffect, TimeoutBacked
<1> QED
  BY <1>1, <1>2, <1>3, <1>4, <1>5, <1>6, <1>7, <1>8, <1>9, <1>10 DEF Step

\* Handling a message keeps the certificates backed; a vote may form one.
LEMMA RecvBacked ==
  ASSUME TypeOK, Genuine, NewViewsSpent, OneProposalPerView, CertificatesBacked,
         NEW msg \in net, Recv(msg)
  PROVE  CertificatesBacked'
<1> DEFINE r == msg.to
           m == machine[r]
<1>00. /\ msg \in Message /\ r \in Replica /\ msg.from \in Replica
       /\ GenuineMessage(msg, Known, signed)
  BY MessageFields DEF TypeOK, Genuine
<1>0. /\ machine = [machine EXCEPT ![r] = m] /\ BackedBy(m.qc_high, signed)
      /\ m \in MachineState /\ GenuineMachine(m, Known, signed)
  BY <1>00, MachineType, GenuineParts, BackedIsBackedBy DEF CertificatesBacked, Certificates
<1>1. CASE RecvNewProposal(msg)
  <2>1. \A o \in PendingWith(msg) : o.prop \in Known
    <3>1. msg.type = "NewProposal"
      BY <1>1 DEF RecvNewProposal
    <3>2. msg.prop \in Known
      BY <1>00, <3>1 DEF GenuineMessage
    <3>3. \A o \in pending_prop[msg.to] : o.prop \in Known
      BY <1>00 DEF Genuine
    <3> QED
      BY <3>2, <3>3 DEF PendingWith
  <2> DEFINE pending == PendingWith(msg)
             msgs == net \ {msg}
  <2>2. /\ PendingEffect(r, machine[r], pending, ready_queue[r], msgs)
        /\ UNCHANGED proposed /\ msgs \subseteq net
    BY <1>1, RecvNewProposalEffect
  <2> HIDE DEF pending, msgs, r
  <2> QED
    BY <1>00, <2>1, <2>2, PendingBacked DEF pending
<1>2. CASE RecvAcceptProposal(msg)
  <2> DEFINE v == msg.prop.height
             m1 == AddVote(m, msg.from, v, msg.sign)
             vote == [view |-> v, from |-> msg.from, sign |-> msg.sign]
             res == OnRecvVote(m, msg.from, msg.prop, msg.sign)
             u == res.m
  <2>1. /\ msg.type = "AcceptProposal" /\ msg.prop \in TreeNode /\ msg.sign \in Hash
        /\ msg.prop \in Known /\ v \in Nat
    BY <1>00, <1>2, MessageFields DEF RecvAcceptProposal, GenuineMessage, TreeNode
  <2>2. \/ u.qc_high = m.qc_high
        \/ VoteSetSize(m1, v) > Threshold /\ u.qc_high.sign = CombinedSign(m1, v)
    <3>1. m \in MachineState /\ msg.from \in Replica /\ msg.prop \in TreeNode /\ msg.sign \in Hash
      BY <1>00, <1>0, <2>1
    <3> QED
      BY ONLY <3>1, OnRecvVoteEffect
  <2>3. machine' = [machine EXCEPT ![r] = u] /\ UNCHANGED <<proposed, signed>> /\ net' \subseteq net
    BY <1>2 DEF RecvAcceptProposal
  <2>4. GenuineVote(vote, Known, signed)
    BY <1>00, <2>1 DEF GenuineMessage, GenuineVote
  <2>5. m1 \in MachineState /\ m1.voting_set \subseteq m.voting_set \cup {vote}
    BY <1>00, <1>0, <2>1, AddVoteEffect
  <2> HIDE DEF m1, vote, res, u, m, r
  <2>6. \A w \in m1.voting_set : GenuineVote(w, Known, signed)
    BY <1>0, <2>4, <2>5 DEF GenuineMachine
  <2> DEFINE qc == u.qc_high
  <2> HIDE DEF qc, v
  <2>7. BackedBy(qc, signed)
    <3>1. CASE qc = m.qc_high
      BY <1>0, <3>1
    <3>2. CASE VoteSetSize(m1, v) > Threshold /\ qc.sign = CombinedSign(m1, v)
      BY <2>5, <2>6, <3>2, FormedBacked
    <3> QED
      BY <2>2, <3>1, <3>2 DEF qc
  <2> QED
    BY <1>00, <2>3, <2>7, LocalBacked DEF qc
<1>3. CASE RecvNewView(msg)
  <2> DEFINE u == OnRecvNewView(m, msg.qc_high).m
  <2>1. msg.qc_high \in QC /\ msg.type = "NewView"
    BY <1>00, <1>3, MessageFields DEF RecvNewView
  <2>2. u.qc_high \in {m.qc_high, msg.qc_high}
    BY <1>0, <2>1, OnRecvNewViewEffect
  <2>3. machine' = [machine EXCEPT ![r] = u] /\ UNCHANGED <<proposed, signed>> /\ net' \subseteq net
    BY <1>3 DEF RecvNewView
  <2>4. BackedBy(msg.qc_high, signed)
    BY <2>1, BackedIsBackedBy DEF CertificatesBacked, Certificates
  <2> HIDE DEF u, m, r
  <2>5. BackedBy(u.qc_high, signed)
    BY <1>0, <2>2, <2>4
  <2> QED
    BY <1>00, <2>3, <2>5, LocalBacked
<1>4. CASE RecvBranchSyncRequest(msg)
  <2>1. UNCHANGED <<machine, proposed, signed>> /\ \A x \in net' : x.type = "NewView" => x \in net
    BY <1>4 DEF RecvBranchSyncRequest
  <2> HIDE DEF m, r
  <2> QED
    BY <1>00, <1>0, <2>1, LocalBacked
<1>5. CASE RecvBranchSyncResponse(msg)
  <2>1. UNCHANGED <<machine, proposed, signed>> /\ net' \subseteq net
    BY <1>5 DEF RecvBranchSyncResponse
  <2> HIDE DEF m, r
  <2> QED
    BY <1>00, <1>0, <2>1, LocalBacked
<1> QED
  BY <1>1, <1>2, <1>3, <1>4, <1>5 DEF Recv

\* Every certificate a replica holds, a proposal carries or a NewView message
\* brings, other than INIT_QC, is a signature of a single proposal by more than
\* Threshold replicas.
THEOREM CertificatesAreBacked == Spec => []CertificatesBacked
<1>1. Init => CertificatesBacked
  <2> SUFFICES ASSUME Init, NEW qc \in Certificates PROVE Backed(qc)
    BY DEF CertificatesBacked
  <2>1. qc = INIT_QC
    BY DEF Init, Certificates, NewView, IncreaseView, InitMachine
  <2> QED
    BY <2>1 DEF Backed, INIT_QC
<1>2. /\ TypeOK /\ Genuine /\ NewViewsSpent /\ OneProposalPerView
      /\ CertificatesBacked /\ [Next]_vars
      => CertificatesBacked'
  <2> SUFFICES ASSUME TypeOK, Genuine, NewViewsSpent, OneProposalPerView,
                      CertificatesBacked, [Next]_vars
               PROVE  CertificatesBacked'
    OBVIOUS
  <2>1. CASE UNCHANGED vars
    <3>1. UNCHANGED <<machine, proposed, net, signed>>
      BY <2>1 DEF vars, pmVars
    <3>2. Certificates' = Certificates
      BY ONLY <3>1 DEF Certificates
    <3>3. \A qc : Backed(qc) => Backed(qc)'
      BY ONLY <3>1 DEF Backed, SignedByQuorum
    <3> QED
      BY <3>2, <3>3 DEF CertificatesBacked
  <2> QED
    BY <2>1, StepBacked, RecvBacked DEF Next
<1> QED
  BY <1>1, <1>2, TypeCorrect, GenuineAlways, NewViewsAreSpent, OneProposal, PTL DEF Spec

=============================================================================
