---------------------------- MODULE MCPacemaker -----------------------------
(***************************************************************************)
(* Instances of Pacemaker for TLC: two or four replicas, leaders in turn,  *)
(* and a choice of the view timers that may fire.                          *)
(***************************************************************************)
EXTENDS Pacemaker

CONSTANTS r1, r2, r3, r4

Turn == <<r1, r2, r3, r4>>

InTurn == [v \in 1 .. LastView |-> Turn[1 + ((v - 1) % Cardinality(Replica))]]

AnyTimer == Replica \X (1 .. MaxView)

\* A few timers, so that runs long enough to commit stay small.
SomeTimers == {<<r1, 2>>, <<r2, 2>>, <<r1, 3>>, <<r2, 3>>}

FollowerTimer == {<<r2, 1>>}

\* "qc_high.node == qc_node": the signature of the certificate that a replica
\* holds is one of the node that it names.
QCHighSignsItsNode ==
  \A r \in Replica :
    LET qc == machine[r].qc_high
    IN  IsInitQC(qc) \/ qc.sign = {qc.node}
=============================================================================
