--------------------------- MODULE ContainerLease ---------------------------
(***************************************************************************)
(* What the aggregate manager promises about its containers, without its   *)
(* threads, locks and lists.  At any moment a container has one holder: it *)
(* is free, or held by one Allocate call, or by one slice, or it is lost:  *)
(* nobody can use it or give it back until the state file is deleted.  A   *)
(* container goes from free to a call to a slice and back to free; it never*)
(* passes from one slice or call to another, and it is never free while    *)
(* somebody holds it.                                                      *)
(***************************************************************************)
CONSTANTS Containers, Callers, URNs, Free, Lost

VARIABLE holder

Init == holder = [c \in Containers |-> Free]

\* An Allocate call takes a free container.
Take(t, c) ==
    /\ holder[c] = Free
    /\ holder' = [holder EXCEPT ![c] = t]

\* An Allocate call that fails loses what it took.
Abandon(t) ==
    holder' = [c \in Containers |-> IF holder[c] = t THEN Lost ELSE holder[c]]

\* An Allocate call gives the slice one of the containers it took.
Grant(t, c, u) ==
    /\ holder[c] = t
    /\ holder' = [holder EXCEPT ![c] = u]

\* A sliver of the slice is deleted or expires.
GiveBack(c) ==
    /\ holder[c] \in URNs
    /\ holder' = [holder EXCEPT ![c] = Free]

\* The aggregate manager forgets a slice object with all its slivers.
Forget(u) ==
    \E C \in SUBSET {c \in Containers : holder[c] = u} :
        holder' = [c \in Containers |-> IF c \in C THEN Lost ELSE holder[c]]

Next ==
    \/ \E t \in Callers : \/ Abandon(t)
                          \/ \E c \in Containers :
                                Take(t, c) \/ \E u \in URNs : Grant(t, c, u)
    \/ \E c \in Containers : GiveBack(c)
    \/ \E u \in URNs : Forget(u)

Spec == Init /\ [][Next]_holder
=============================================================================
