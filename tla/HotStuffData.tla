---------------------------- MODULE HotStuffData ----------------------------
(***************************************************************************)
(* The data every part of the system shares: proposals (tree nodes),       *)
(* quorum certificates, threshold signatures and the leader election.      *)
(*                                                                         *)
(* A transaction batch is fixed by the view it is proposed in, so the hash *)
(* of a node (over txs, height and parent hash) is injective in the        *)
(* heights of its chain: the hash IS that sequence of heights, and a node  *)
(* is an ancestor of another when its hash is a prefix of the other's.     *)
(***************************************************************************)
EXTENDS Integers, Sequences, FiniteSets

CONSTANTS
  Replica,      \* the replicas
  LeaderOf,     \* the leader the elector computes for each view
  MaxView       \* bound: no replica times out of, or proposes in, a later view

ASSUME ReplicaAssumption == IsFiniteSet(Replica) /\ Replica # {}

ASSUME MaxViewAssumption == MaxView \in Nat \ {0}

\* A quorum certificate formed for a late vote moves a replica one view on, and
\* there is at most one for each proposal, so no view exceeds this one.
LastView == 2 * MaxView + 1

ASSUME LeaderAssumption == \A v \in 1 .. LastView : LeaderOf[v] \in Replica

-----------------------------------------------------------------------------
Hash == Seq(Nat)

\* The all-zero hash and the made-up parent of the first node: no node has it.
NoHash == << >>

\* A combined signature is the set of hashes its partial signatures sign: one
\* hash h makes a signature of h, several make one that is valid for no node,
\* and the empty set is the zeroed signature of INIT_QC.
QC == [view : Nat, node : Hash, sign : SUBSET Hash]

TreeNode == [height : Nat, parent : Hash, justify : QC]

HashOf(n) == Append(n.parent, n.height)

INIT_NODE == [height  |-> 0,
              parent  |-> NoHash,
              justify |-> [view |-> 0, node |-> NoHash, sign |-> {}]]

INIT_QC == [view |-> 0, node |-> HashOf(INIT_NODE), sign |-> {}]

IsInitQC(qc) == qc.sign = INIT_QC.sign

-----------------------------------------------------------------------------
\* Signatures of the threshold scheme (cryptokit).  The code signs the bytes of a
\* node, its justify included; as a view has one proposal, the hash tells the
\* signed nodes apart just as well.
Sign(n) == HashOf(n)

ValidateVote(prop, sign) == sign = HashOf(prop)

CombinePartialSign(signs) == signs

ValidateQC(n, sign) == sign = {HashOf(n)}

\* Mutant: off by one.
ThresholdLow == (2 * Cardinality(Replica)) \div 3 - 1

\* More than this many signatures, or NewView messages, are a quorum.
Threshold == (2 * Cardinality(Replica)) \div 3

GetLeader(v) == LeaderOf[v]
=============================================================================
