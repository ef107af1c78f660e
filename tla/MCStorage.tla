----------------------------- MODULE MCStorage ------------------------------
(***************************************************************************)
(* Instances of Storage for TLC: a branch of one or two proposals, the     *)
(* second carrying the certificate of the first.                           *)
(***************************************************************************)
EXTENDS Storage

CONSTANT r1

OneLeader == [v \in 1 .. LastView |-> r1]

P1 == [height |-> 1, parent |-> HashOf(INIT_NODE), justify |-> INIT_QC]
P2 == [height |-> 2, parent |-> HashOf(P1), justify |-> CertificateOf(P1)]

One == {P1}
Two == {P1, P2}
=============================================================================
