----------------------------- MODULE HashRing -----------------------------
(***************************************************************************)
(* ConsistentHashRing (consistent_hash.cpp): a sorted map ring_ from       *)
(* 32-bit position to node id, and the set physical_nodes_.  Every method  *)
(* runs whole under the ring's mutex, so the ring is a value and each      *)
(* method an operator on it; Membership keeps one ring per node and calls  *)
(* AddNode / RemoveNode from its on_join / on_leave callbacks.             *)
(*                                                                         *)
(* Hashing is abstracted to constants: the hash space 0..HashSpace-1       *)
(* stands for the uint32 positions, VnodePos[n] for the positions          *)
(* Hash(VnodeKey(n, i)) of n's VIRTUAL_NODES_PER_NODE vnodes, and a key    *)
(* is its hash h.  Two nodes' vnodes may share a position (a collision);   *)
(* ring_[hash] = node_id then keeps the last writer.                       *)
(***************************************************************************)
EXTENDS Naturals, Sequences, FiniteSets, SequencesExt

CONSTANTS
    Nodes,      \* node ids
    HashSpace,  \* number of ring positions
    VnodePos,   \* [Nodes -> SUBSET 0..HashSpace-1]: each node's vnode positions
    NoOwner     \* ring_ has no entry at a position

ASSUME HashSpace \in Nat \ {0}
ASSUME \A n \in Nodes : VnodePos[n] \subseteq 0..HashSpace-1 /\ VnodePos[n] # {}

Positions == 0..HashSpace-1
Rings == [nodes : SUBSET Nodes, at : [Positions -> Nodes \cup {NoOwner}]]

EmptyRing == [nodes |-> {}, at |-> [p \in Positions |-> NoOwner]]

\* AddNode: a no-op for a present node; otherwise insert it and write each
\* of its vnode positions, overwriting whatever node held the position.
AddNode(r, n) ==
    IF n \in r.nodes THEN r
    ELSE [nodes |-> r.nodes \cup {n},
          at    |-> [p \in Positions |-> IF p \in VnodePos[n] THEN n ELSE r.at[p]]]

\* RemoveNode: a no-op for an absent node; otherwise erase each of its
\* vnode positions, whoever holds the position now.
RemoveNode(r, n) ==
    IF n \notin r.nodes THEN r
    ELSE [nodes |-> r.nodes \ {n},
          at    |-> [p \in Positions |-> IF p \in VnodePos[n] THEN NoOwner ELSE r.at[p]]]

\* The positions ring_ has an entry for.
Occupied(r) == {p \in Positions : r.at[p] # NoOwner}

\* Mutant: the walk starts at lower_bound (the first position >= h).
ClockwiseFromLowerBound(r, h) ==
    SetToSortSeq({p \in Occupied(r) : p >= h}, <) \o SetToSortSeq({p \in Occupied(r) : p < h}, <)

\* The ring_ entries in the order the walk visits them: from
\* upper_bound(h), the first position > h, to the end, then from begin().
Clockwise(r, h) ==
    SetToSortSeq({p \in Occupied(r) : p > h}, <) \o SetToSortSeq({p \in Occupied(r) : p <= h}, <)

\* GetPrimaryNode: the owner of the first entry of the walk (the ring must
\* not be empty; the code throws then).
GetPrimaryNode(r, h) == r.at[Head(Clockwise(r, h))]

\* The while loop of GetNodes: take the next entry, keep its node if not
\* seen yet, stop at count nodes or once every entry has been visited.
RECURSIVE Walk(_, _, _, _)
Walk(r, ps, count, result) ==
    IF Len(result) >= count \/ ps = << >> THEN result
    ELSE LET n == r.at[Head(ps)]
         IN  Walk(r, Tail(ps), count,
                  IF n \in Range(result) THEN result ELSE Append(result, n))

\* GetNodes: count is clamped to the number of physical nodes first.
GetNodes(r, h, count) ==
    Walk(r, Clockwise(r, h), IF count > Cardinality(r.nodes) THEN Cardinality(r.nodes)
                             ELSE count, << >>)

-----------------------------------------------------------------------------
(***************************************************************************)
(* A reference definition of the preference list, independent of the      *)
(* walk: the nodes on the ring ordered by how far clockwise from h their   *)
(* nearest position lies, as many as asked and as there are nodes.        *)
(***************************************************************************)
Distance(h, p) == (p + HashSpace - h - 1) % HashSpace

Owners(r) == {r.at[p] : p \in Occupied(r)}

Nearest(r, h, n) == Min({Distance(h, p) : p \in {q \in Occupied(r) : r.at[q] = n}})

PreferenceList(r, h, count) ==
    LET byDistance == SetToSortSeq(Owners(r), LAMBDA a, b : Nearest(r, h, a) < Nearest(r, h, b))
        k == Min({count, Cardinality(r.nodes), Len(byDistance)})
    IN  SubSeq(byDistance, 1, k)

=============================================================================
