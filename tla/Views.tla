-------------------------------- MODULE Views -------------------------------
(***************************************************************************)
(* What the pacemakers promise together, whatever the delays and timeouts: *)
(* every replica moves through the views upwards, and only the leader of a *)
(* view proposes in it, once, after a quorum of replicas has entered it.   *)
(***************************************************************************)
EXTENDS Integers

CONSTANTS
  Replica,    \* the replicas
  LeaderOf,   \* the leader of each view
  LastView,   \* bound: the last view
  Quorum      \* the sets of replicas that are a quorum

VARIABLES
  view,      \* the view each replica is in
  proposed   \* the proposals made, with their proposers

Init ==
  /\ view = [r \in Replica |-> 1]
  /\ proposed = {}

Enter(r) ==
  /\ \E v \in 1 .. LastView : v > view[r] /\ view' = [view EXCEPT ![r] = v]
  /\ UNCHANGED proposed

Open(r) ==
  /\ r = LeaderOf[view[r]]
  /\ \A p \in proposed : p.prop.height # view[r]
  /\ {f \in Replica : view[f] >= view[r]} \in Quorum
  /\ \E p \in proposed' : /\ p.from = r
                          /\ p.prop.height = view[r]
                          /\ proposed' = proposed \cup {p}
  /\ UNCHANGED view

Next == \E r \in Replica : Enter(r) \/ Open(r)

Spec == Init /\ [][Next]_<<view, proposed>>
=============================================================================
