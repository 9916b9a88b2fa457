--------------------------- MODULE MCMembership ---------------------------
(***************************************************************************)
(* Three nodes started as in the repository's README: node1 alone, node2   *)
(* seeded with node1, node3 seeded with node1 and node2.                   *)
(***************************************************************************)
EXTENDS Membership, TLC

CONSTANTS n1, n2, n3

MCNodes == {n1, n2, n3}
MCSeeds == (n1 :> {}) @@ (n2 :> {n1}) @@ (n3 :> {n1, n2})
\* Synchronised clocks, and node3's clock one interval ahead.
NoSkew == [n \in MCNodes |-> 0]
Node3Ahead == [n \in MCNodes |-> IF n = n3 THEN 1 ELSE 0]
\* The unsigned Timestamp wraps at 2^64 ms.  A difference that is negative
\* wraps to nearly the modulus, far above any timeout; every modulus above
\* AgeCap + the largest skew gives the same comparisons, and TLC's
\* integers stop at 2^31, so 2^20 intervals stand for it.
MCClockModulus == 2^20
\* Ring positions: a hash space of 4; the nodes' vnodes collide at 2.
MCHashSpace == 4
MCVnodePos == (n1 :> {0, 2}) @@ (n2 :> {2, 3}) @@ (n3 :> {1})
\* Two nodes: node2 seeded with node1.
MCNodes2 == {n1, n2}
MCVnodePos2 == (n1 :> {0, 2}) @@ (n2 :> {2, 3})
MCSeeds2 == (n1 :> {}) @@ (n2 :> {n1})
NoSkew2 == [n \in MCNodes2 |-> 0]
\* node2's wall clock runs one interval ahead of node1's.
Node2Ahead == (n1 :> 0) @@ (n2 :> 1)
====
