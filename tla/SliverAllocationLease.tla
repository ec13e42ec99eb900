----------------------- MODULE SliverAllocationLease -----------------------
(***************************************************************************)
(* SliverAllocation implements ContainerLease, with the holder of a        *)
(* container read off the pools, the resources lists of the Allocate calls *)
(* and the slivers of the slices.                                          *)
(***************************************************************************)
EXTENDS SliverAllocation

CONSTANTS Free, Lost

ASSUME HolderAssumption ==
    /\ Free # Lost
    /\ {Free, Lost} \cap (Callers \cup URNs) = {}
    /\ Callers \cap URNs = {}

\* The slice objects from which the code can still reach a sliver.
Reachable(s) ==
    \/ slices[s.slice.urn] = s.slice
    \/ \E t \in Callers : pc[t] = "add" /\ target[t] = s.slice
    \/ \E w \in Deleters : s \in todo[w] \/ (step[w] = "reset" /\ cur[w] = s)

HolderOf(c) ==
    IF pool[c] > 0 THEN Free
    ELSE IF \E t \in Callers : held[t][c] > 0
    THEN CHOOSE t \in Callers : held[t][c] > 0
    ELSE IF \E s \in Slivers : s.res = c /\ Leased(s) /\ Reachable(s)
    THEN (CHOOSE s \in Slivers : s.res = c /\ Leased(s) /\ Reachable(s)).slice.urn
    ELSE Lost

Lease == INSTANCE ContainerLease
            WITH holder <- [c \in Containers |-> HolderOf(c)]

\* Whatever the interleaving of Allocate calls, deletions and expirations, a
\* container only changes hands as ContainerLease says: matchResource takes
\* it from free, add_resource gives it to the slice of that call, reset frees
\* it, and only a failed call or a forgotten slice loses it.
ImplementsLease == Lease!Spec

\* No container gets lost otherwise than ContainerLease has to allow: by a call
\* that returns before it builds its slice (one that builds it has added all it
\* had matched), or when the entry of AM._slices that leads to the container's
\* sliver is deleted or replaced.
LossExplained ==
    \A c \in Containers : HolderOf(c) # Lost /\ HolderOf(c)' = Lost =>
        \/ \E t \in Callers : HolderOf(c) = t /\ pc[t] # "add" /\ pc'[t] = "idle"
        \/ \E s \in Slivers : /\ s.res = c /\ Leased(s)
                              /\ slices[s.slice.urn] = s.slice
                              /\ slices'[s.slice.urn] # s.slice
LossesExplained == [][LossExplained]_vars

\* When a node that any container could serve is answered TOO_BIG, somebody has
\* the containers (the comment in Allocate: "There aren't enough resources"):
\* the pools are never empty while no slice and no call has any container.
TooBigMeansInUse ==
    \A t \in Callers : PoolsEmpty(t) =>
        \E c \in Containers : HolderOf(c) \notin {Free, Lost}
=============================================================================
