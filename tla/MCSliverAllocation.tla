------------------------- MODULE MCSliverAllocation -------------------------
(* SliverAllocation on small sets of model values. *)
EXTENDS SliverAllocationLease, TLC

CONSTANTS c1, c2, px, u1, u2, t1, t2, d1, d2, g1, g2

\* Containers, threads, slices and tags are interchangeable.
FullSymmetry ==
    Permutations(Containers \ ProxyContainers) \cup Permutations(Callers) \cup
    Permutations(Deleters) \cup Permutations(URNs) \cup Permutations(Tags)
=============================================================================
