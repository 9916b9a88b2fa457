--------------------------- MODULE MCReplication ---------------------------
(***************************************************************************)
(* Model-checking instance of Replication: three nodes, one key whose      *)
(* replicas are all three nodes (N = 3, the default), R = W = 2.           *)
(***************************************************************************)
EXTENDS Replication, TLC

CONSTANTS n1, n2, n3, k1

\* ring.GetNodes(k1, 3) on a three-node ring: every node, in ring order.
MCPref == [k \in {k1} |-> <<n1, n2, n3>>]

\* Two timestamps: two operations in one millisecond, or one after another.
MCMaxTs == 2


=============================================================================
