----------------------- MODULE SliverAllocationProofs -----------------------
(***************************************************************************)
(* Theorems about SliverAllocation, for any number of containers, slices   *)
(* and threads.  Those about deletions assume that no two of them work on  *)
(* one slice at a time: without it they are false, as the run              *)
(* stuck_expiry shows.                                                     *)
(***************************************************************************)
EXTENDS SliverAllocation, TLAPS

\* The locals of a thread have the values their use at that point needs.
LocalsOK ==
    /\ \A t \in Callers : pc[t] # "idle" => req[t] \in Requests
    /\ \A t \in Callers : pc[t] \in {"add", "refuse"} =>
          target[t] \in SliceObjs /\ target[t].urn = req[t].urn
    /\ \A w \in Deleters : step[w] \in {"reset", "remove", "check", "forget"} =>
          cur[w] \in Slivers
    /\ \A w \in Deleters : step[w] \in {"idle", "acquire"} =>
          todo[w] = {} /\ cur[w] = None

\* AM._slices and Slice._slivers agree with the objects they list.
ListsOK ==
    /\ \A u \in URNs : slices[u] # None => slices[u].urn = u
    /\ \A o \in SliceObjs : \A s \in slivers[o] : s.slice = o

\* What a deletion is about to delete is still in its slice.
JobsAttached ==
    \A w \in Deleters :
        /\ \A s \in todo[w] : s \in slivers[s.slice]
        /\ step[w] \in {"reset", "remove"} =>
              cur[w] \in slivers[cur[w].slice] /\ cur[w] \notin todo[w]

\* Two deletions never work on one slice.
JobsDisjoint ==
    \A w, v \in Deleters : \A s \in JobSlivers(w), r \in JobSlivers(v) :
        s.slice.urn = r.slice.urn => w = v

\* A deletion works on the one Slice object that AM._slices had for the URN,
\* which keeps an entry until the deletion removes it.
JobsKnown ==
    \A w \in Deleters :
        /\ \A s \in JobSlivers(w) : slices[s.slice.urn] # None
        /\ \A s, r \in JobSlivers(w) :
              s.slice.urn = r.slice.urn => s.slice = r.slice

\* A deletion forgets a slice when it has nothing left to delete in it.
ForgetsLast ==
    \A w \in Deleters : step[w] = "forget" =>
        \A s \in todo[w] : s.slice.urn # cur[w].slice.urn

TypeInv == TypeOK /\ LocalsOK /\ ListsOK
JobInv == JobsAttached /\ JobsDisjoint /\ JobsKnown /\ ForgetsLast
IInv == TypeInv /\ JobInv /\ ContainerExclusive

-----------------------------------------------------------------------------
(* Types *)

\* list.remove and add_resource leave lists of the same kind.
LEMMA ListsStaySo ==
    ASSUME slivers \in [SliceObjs -> SUBSET Slivers],
           \/ \E w \in Deleters : RemoveSliver(w)
           \/ \E t \in Callers : AddResource(t)
    PROVE  slivers' \in [SliceObjs -> SUBSET Slivers]
BY DEF RemoveSliver, AddResource

\* Every step keeps the types, the locals and the lists as they should be.
LEMMA TypeInvStep == TypeInv /\ [Next]_vars => TypeInv'
<1> SUFFICES ASSUME TypeInv, [Next]_vars PROVE TypeInv'
  OBVIOUS
<1> USE ConstantsAssumption, NoneAssumption
    DEF TypeInv, TypeOK, LocalsOK, ListsOK, shared, callerVars, deleterVars
<1>1. ASSUME NEW t \in Callers, NEW r \in Requests, Allocate(t, r) PROVE TypeInv'
  BY <1>1 DEF Allocate
<1>2. ASSUME NEW t \in Callers, AcquireLock(t) PROVE TypeInv'
  <2> USE <1>2 DEF AcquireLock
  <2>1. CASE req[t].nodes = 0 /\ ~FlawedNode(req[t])
    <3>1. /\ pc' = [pc EXCEPT ![t] = "idle"]
          /\ req' = [req EXCEPT ![t] = None]
          /\ held' = [held EXCEPT ![t] = NoneHeld]
          /\ target' = [target EXCEPT ![t] = None]
          /\ UNCHANGED allocateLock
      BY <2>1 DEF Return
    <3>2. QED
      BY <3>1 DEF NoneHeld
  <2>2. CASE ~(req[t].nodes = 0 /\ ~FlawedNode(req[t]))
    <3>1. /\ allocateLock' = t
          /\ pc' = [pc EXCEPT ![t] = IF ProxyContainers = {} THEN "match"
                                     ELSE "proxy"]
          /\ UNCHANGED <<req, held, target>>
      BY <2>2
    <3>2. QED
      BY <3>1
  <2>3. QED
    BY <2>1, <2>2
<1>3. ASSUME NEW t \in Callers, MatchProxy(t) PROVE TypeInv'
  BY <1>3 DEF MatchProxy, TakeFrom
<1>4. ASSUME NEW t \in Callers, MatchNode(t) PROVE TypeInv'
  <2> USE <1>4 DEF MatchNode
  <2>1. req'[t] \in Requests /\ req' \in [Callers -> Requests \cup {None}]
    <3>1. req[t] \in Requests /\ req[t].nodes - 1 \in 0..MaxNodes
      BY DEF Requests
    <3>2. [req[t] EXCEPT !.nodes = @ - 1] \in Requests
      BY <3>1 DEF Requests
    <3>3. req' = [req EXCEPT ![t] = [req[t] EXCEPT !.nodes = @ - 1]]
      OBVIOUS
    <3>4. QED
      BY <3>2, <3>3
  <2>2. PICK c \in Containers :
          /\ pool[c] > 0
          /\ pool' = [pool EXCEPT ![c] = @ - 1]
          /\ held' = [held EXCEPT ![t][c] = @ + 1]
          /\ chosen' = [chosen EXCEPT ![c] = TRUE]
    BY DEF TakeFrom
  <2>3. /\ pool' \in [Containers -> Nat]
        /\ held' \in [Callers -> [Containers -> Nat]]
        /\ chosen' \in [Containers -> BOOLEAN]
    BY <2>2
  <2>4. TypeOK'
    BY <2>1, <2>3
  <2>5. LocalsOK'
    BY <2>1
  <2>6. ListsOK'
    OBVIOUS
  <2>7. QED
    BY <2>4, <2>5, <2>6
<1>5. ASSUME NEW t \in Callers, AbortAllocation(t) PROVE TypeInv'
  BY <1>5 DEF AbortAllocation, Return, NoneHeld
<1>6. ASSUME NEW t \in Callers, ReleaseLock(t) PROVE TypeInv'
  <2> USE <1>6 DEF ReleaseLock
  <2>1. CASE req[t].flaw = "option"
    <3>1. /\ pc' = [pc EXCEPT ![t] = "idle"]
          /\ req' = [req EXCEPT ![t] = None]
          /\ held' = [held EXCEPT ![t] = NoneHeld]
          /\ target' = [target EXCEPT ![t] = None]
      BY <2>1 DEF Return
    <3>2. QED
      BY <3>1 DEF NoneHeld
  <2>2. CASE req[t].flaw # "option"
    <3>1. /\ pc' = [pc EXCEPT ![t] = "lookup"]
          /\ UNCHANGED <<req, held, target>>
      BY <2>2
    <3>2. QED
      BY <3>1
  <2>3. QED
    BY <2>1, <2>2
<1>7. ASSUME NEW t \in Callers, NewSlice(t) PROVE TypeInv'
  BY <1>7 DEF NewSlice
<1>8. ASSUME NEW t \in Callers, ExistingSlice(t) PROVE TypeInv'
  <2> USE <1>8 DEF ExistingSlice
  <2> DEFINE o == slices[req[t].urn]
  <2>1. req[t] \in Requests /\ req[t].urn \in URNs
    BY DEF Requests
  <2>2. o \in SliceObjs /\ o.urn = req[t].urn
    BY <2>1
  <2>3. target' = [target EXCEPT ![t] = o]
    OBVIOUS
  <2>4. \E v \in {"add", "refuse"} : pc' = [pc EXCEPT ![t] = v]
    OBVIOUS
  <2>5. UNCHANGED <<shared, req, held, deleterVars>>
    OBVIOUS
  <2> HIDE <1>8 DEF o, ExistingSlice
  <2>6. TypeOK'
    BY <2>2, <2>3, <2>4, <2>5
  <2>7. LocalsOK'
    BY <2>1, <2>2, <2>3, <2>4, <2>5
  <2>8. ListsOK'
    BY <2>5
  <2>9. QED
    BY <2>6, <2>7, <2>8
<1>9. ASSUME NEW t \in Callers, RefuseExisting(t) PROVE TypeInv'
  BY <1>9 DEF RefuseExisting, Return, NoneHeld
<1>10. ASSUME NEW t \in Callers, AddResource(t) PROVE TypeInv'
  <2> USE <1>10 DEF AddResource, Slivers
  <2>1. TypeOK'
    OBVIOUS
  <2>2. LocalsOK'
    OBVIOUS
  <2>3. ListsOK'
    OBVIOUS
  <2>4. QED
    BY <2>1, <2>2, <2>3
<1>11. ASSUME NEW t \in Callers, PublishSlice(t) PROVE TypeInv'
  <2> USE <1>11 DEF PublishSlice, Return, NoneHeld
  <2>1. target[t] \in SliceObjs /\ target[t].urn = req[t].urn
    OBVIOUS
  <2>2. TypeOK'
    BY <2>1
  <2>3. LocalsOK'
    OBVIOUS
  <2>4. ListsOK'
    BY <2>1
  <2>5. QED
    BY <2>2, <2>3, <2>4
<1>12. ASSUME NEW w \in Deleters, NEW u \in URNs, Delete(w, u) PROVE TypeInv'
  BY <1>12 DEF Delete, Admissible
<1>13. ASSUME NEW w \in Deleters, ExpireCheck(w) PROVE TypeInv'
  BY <1>13 DEF ExpireCheck
<1>14. ASSUME NEW w \in Deleters, ExpireAcquire(w) PROVE TypeInv'
  BY <1>14 DEF ExpireAcquire, Due, Admissible
<1>15. ASSUME NEW w \in Deleters, Deprovision(w) PROVE TypeInv'
  <2> USE <1>15 DEF Deprovision, Slivers
  <2>1. TypeOK'
    OBVIOUS
  <2>2. LocalsOK'
    OBVIOUS
  <2>3. ListsOK'
    OBVIOUS
  <2>4. QED
    BY <2>1, <2>2, <2>3
<1>16. ASSUME NEW w \in Deleters, ResetResource(w) PROVE TypeInv'
  <2> USE <1>16 DEF ResetResource, Slivers
  <2>1. TypeOK'
    OBVIOUS
  <2>2. LocalsOK'
    OBVIOUS
  <2>3. ListsOK'
    OBVIOUS
  <2>4. QED
    BY <2>1, <2>2, <2>3
<1>17. ASSUME NEW w \in Deleters, RemoveSliver(w) PROVE TypeInv'
  <2> USE <1>17 DEF RemoveSliver
  <2>1. TypeOK'
    <3>1. slivers' \in [SliceObjs -> SUBSET Slivers]
      BY ListsStaySo
    <3>2. expired' \in SUBSET Slivers
      OBVIOUS
    <3>3. step' \in [Deleters -> {"idle", "acquire", "next", "reset", "remove",
                                  "check", "forget"}]
      <4>1. step'[w] \in {"check", "next"}
        OBVIOUS
      <4>2. QED
        BY <4>1
    <3>4. QED
      BY <3>1, <3>2, <3>3
  <2>2. LocalsOK'
    OBVIOUS
  <2>3. ListsOK'
    OBVIOUS
  <2>4. QED
    BY <2>1, <2>2, <2>3
<1>18. ASSUME NEW w \in Deleters, RemoveRaises(w) PROVE TypeInv'
  BY <1>18 DEF RemoveRaises, EndRun
<1>19. ASSUME NEW w \in Deleters, CheckEmpty(w) PROVE TypeInv'
  <2>1. UNCHANGED <<shared, callerVars, kind, todo>>
    BY <1>19 DEF CheckEmpty
  <2>2. CASE slivers[cur[w].slice] = {}
    <3>1. step[w] = "check" /\ step' = [step EXCEPT ![w] = "forget"]
          /\ UNCHANGED cur
      BY <1>19, <2>2 DEF CheckEmpty
    <3>2. QED
      BY <2>1, <3>1
  <2>3. CASE slivers[cur[w].slice] # {}
    <3>1. /\ step[w] = "check" /\ step' = [step EXCEPT ![w] = "next"]
          /\ cur' = [cur EXCEPT ![w] = None]
      BY <1>19, <2>3 DEF CheckEmpty
    <3>2. QED
      BY <2>1, <3>1
  <2>4. QED
    BY <2>2, <2>3
<1>20. ASSUME NEW w \in Deleters, ForgetSlice(w) PROVE TypeInv'
  <2> USE <1>20 DEF ForgetSlice, Slivers
  <2>1. TypeOK'
    OBVIOUS
  <2>2. LocalsOK'
    OBVIOUS
  <2>3. ListsOK'
    OBVIOUS
  <2>4. QED
    BY <2>1, <2>2, <2>3
<1>21. ASSUME NEW w \in Deleters, ForgetRaises(w) PROVE TypeInv'
  BY <1>21 DEF ForgetRaises, EndRun
<1>22. ASSUME NEW w \in Deleters, FinishRun(w) PROVE TypeInv'
  BY <1>22 DEF FinishRun, EndRun
<1>23. ASSUME NEW s \in Slivers, Lapse(s) PROVE TypeInv'
  BY <1>23 DEF Lapse
<1>24. CASE UNCHANGED vars
  BY <1>24 DEF vars
<1>25. QED
  BY <1>1, <1>2, <1>3, <1>4, <1>5, <1>6, <1>7, <1>8, <1>9, <1>10, <1>11, <1>12, <1>13, <1>14, <1>15, <1>16, <1>17, <1>18, <1>19, <1>20, <1>21, <1>22, <1>23, <1>24 DEF Next, CallStep, RunStep

\* The initial state has them so.
LEMMA TypeInvInit == Init => TypeInv
<1> SUFFICES ASSUME Init PROVE TypeInv
  OBVIOUS
<1> USE DEF Init
<1>1. TypeOK
  BY DEF TypeOK, NoneHeld
<1>2. LocalsOK
  BY DEF LocalsOK
<1>3. ListsOK
  BY DEF ListsOK
<1>4. QED
  BY <1>1, <1>2, <1>3 DEF TypeInv

\* Every value a thread, a pool or a slice ever holds is one its type has: in
\* particular no pool is taken from when it is empty, whatever the
\* interleaving of matchResource, reset and the deletions.
THEOREM TypeCorrect == Spec => []TypeOK
<1>1. Spec => []TypeInv
  BY TypeInvInit, TypeInvStep, PTL DEF Spec
<1>2. TypeInv => TypeOK
  BY DEF TypeInv
<1>3. QED
  BY <1>1, <1>2, PTL

-----------------------------------------------------------------------------
(* The locks *)

\* Between AcquireLock and the step that gives ALLOCATE_LOCK back, no other
\* call matches resources.
THEOREM MatchingIsExclusive == Spec => []MatchingExclusive
<1>1. Init => MatchingExclusive
  BY DEF Init, MatchingExclusive
<1>2. TypeInv /\ MatchingExclusive /\ [Next]_vars => MatchingExclusive'
  <2> SUFFICES ASSUME TypeInv, MatchingExclusive, [Next]_vars
               PROVE MatchingExclusive'
    OBVIOUS
  <2> USE NoneAssumption DEF MatchingExclusive, TypeInv, TypeOK
  <2>1. CASE UNCHANGED <<pc, allocateLock>>
    BY <2>1
  <2>2. ASSUME NEW t \in Callers, NEW r \in Requests, Allocate(t, r)
        PROVE MatchingExclusive'
    BY <2>2 DEF Allocate, shared
  <2>3. ASSUME NEW t \in Callers, AcquireLock(t) PROVE MatchingExclusive'
    BY <2>3 DEF AcquireLock, Return
  <2>4. ASSUME NEW t \in Callers, MatchProxy(t) PROVE MatchingExclusive'
    BY <2>4 DEF MatchProxy
  <2>5. ASSUME NEW t \in Callers, AbortAllocation(t)
        PROVE MatchingExclusive'
    BY <2>5 DEF AbortAllocation, TooBig, BadNode, PoolsEmpty, AtFlawedNode, Return
  <2>6. ASSUME NEW t \in Callers, ReleaseLock(t) PROVE MatchingExclusive'
    BY <2>6 DEF ReleaseLock, Return
  <2>7. ASSUME NEW t \in Callers,
               \/ NewSlice(t) \/ ExistingSlice(t) \/ RefuseExisting(t)
               \/ PublishSlice(t)
        PROVE MatchingExclusive'
    BY <2>7 DEF NewSlice, ExistingSlice, RefuseExisting, PublishSlice, Return,
                shared
  <2>8. ASSUME NEW t \in Callers, MatchNode(t) \/ AddResource(t)
        PROVE UNCHANGED <<pc, allocateLock>>
    BY <2>8 DEF MatchNode, AddResource
  <2>9. ASSUME NEW w \in Deleters,
               \/ \E u \in URNs : Delete(w, u)
               \/ ExpireCheck(w) \/ ExpireAcquire(w) \/ RunStep(w)
        PROVE UNCHANGED <<pc, allocateLock>>
    BY <2>9 DEF Delete, ExpireCheck, ExpireAcquire, RunStep, Deprovision,
                ResetResource, RemoveSliver, RemoveRaises, CheckEmpty,
                ForgetSlice, ForgetRaises, FinishRun, shared, callerVars
  <2>10. ASSUME NEW s \in Slivers, Lapse(s)
         PROVE UNCHANGED <<pc, allocateLock>>
    BY <2>10 DEF Lapse, callerVars
  <2>11. QED
    BY <2>1, <2>2, <2>3, <2>4, <2>5, <2>6, <2>7, <2>8, <2>9, <2>10
       DEF Next, CallStep, vars, shared, callerVars
<1>3. Spec => []TypeInv
  BY TypeInvInit, TypeInvStep, PTL DEF Spec
<1>4. QED
  BY <1>1, <1>2, <1>3, PTL DEF Spec

\* expire_slivers never runs in two threads at a time, though it tests
\* EXPIRE_LOCK before it takes it; overlapping deletions included.
THEOREM ExpiryIsExclusive == Spec => []ExpiryExclusive
<1>1. Init => ExpiryExclusive
  BY DEF Init, ExpiryExclusive
<1>2. TypeInv /\ ExpiryExclusive /\ [Next]_vars => ExpiryExclusive'
  <2> SUFFICES ASSUME TypeInv, ExpiryExclusive, [Next]_vars
               PROVE ExpiryExclusive'
    OBVIOUS
  <2> USE DEF ExpiryExclusive, TypeInv, TypeOK
  <2>1. CASE UNCHANGED <<kind, expireLocked>>
    BY <2>1
  <2>2. ASSUME NEW t \in Callers,
               (\E r \in Requests : Allocate(t, r)) \/ CallStep(t)
        PROVE UNCHANGED <<kind, expireLocked>>
    BY <2>2 DEF Allocate, CallStep, AcquireLock, MatchProxy, MatchNode,
                AbortAllocation, ReleaseLock, NewSlice, ExistingSlice,
                RefuseExisting, AddResource, PublishSlice, shared, deleterVars
  <2>3. ASSUME NEW s \in Slivers, Lapse(s)
        PROVE UNCHANGED <<kind, expireLocked>>
    BY <2>3 DEF Lapse, deleterVars
  <2>4. ASSUME NEW w \in Deleters,
               \/ ExpireCheck(w) \/ Deprovision(w) \/ ResetResource(w)
               \/ RemoveSliver(w) \/ CheckEmpty(w) \/ ForgetSlice(w)
        PROVE UNCHANGED <<kind, expireLocked>>
    BY <2>4 DEF ExpireCheck, Deprovision, ResetResource, RemoveSliver,
                CheckEmpty, ForgetSlice, shared
  <2>5. ASSUME NEW w \in Deleters,
               \/ \E u \in URNs : Delete(w, u)
               \/ RemoveRaises(w) \/ ForgetRaises(w)
        PROVE ExpiryExclusive'
    BY <2>5 DEF Delete, RemoveRaises, ForgetRaises, EndRun, shared
  <2>6. ASSUME NEW w \in Deleters, ExpireAcquire(w) PROVE ExpiryExclusive'
    BY <2>6 DEF ExpireAcquire
  <2>7. ASSUME NEW w \in Deleters, FinishRun(w) PROVE ExpiryExclusive'
    BY <2>7 DEF FinishRun, EndRun
  <2>8. QED
    BY <2>1, <2>2, <2>3, <2>4, <2>5, <2>6, <2>7
       DEF Next, RunStep, vars, shared, deleterVars
<1>3. Spec => []TypeInv
  BY TypeInvInit, TypeInvStep, PTL DEF Spec
<1>4. QED
  BY <1>1, <1>2, <1>3, PTL DEF Spec

-----------------------------------------------------------------------------
(* Deletions *)

\* A step that gives no deletion more to do, and forgets no slice, leaves the
\* deletions disjoint and their slices known.
LEMMA FewerJobs ==
  ASSUME JobInv,
         \A w \in Deleters : JobSlivers(w)' \subseteq JobSlivers(w),
         \A w \in Deleters : \A s \in JobSlivers(w) :
            slices[s.slice.urn] # None => slices'[s.slice.urn] # None
  PROVE  JobsDisjoint' /\ JobsKnown'
<1>1. JobsDisjoint'
  BY DEF JobInv, JobsDisjoint
<1>2. JobsKnown'
  BY DEF JobInv, JobsKnown
<1>3. QED
  BY <1>1, <1>2

\* The steps of Allocate, and time, leave the deletions what they need.
LEMMA JobInvCall ==
  ASSUME TypeInv, JobInv,
         \/ \E t \in Callers : (\E r \in Requests : Allocate(t, r)) \/ CallStep(t)
         \/ \E s \in Slivers : Lapse(s)
         \/ UNCHANGED vars
  PROVE  JobInv'
<1> USE DEF TypeInv, TypeOK
<1>1. UNCHANGED <<step, todo, cur>>
  BY DEF CallStep, Allocate, AcquireLock, MatchProxy, MatchNode,
         AbortAllocation, ReleaseLock, NewSlice, ExistingSlice, RefuseExisting,
         AddResource, PublishSlice, Lapse, shared, deleterVars, vars
<1>2. \A w \in Deleters : JobSlivers(w)' = JobSlivers(w)
  BY <1>1 DEF JobSlivers
<1>3. ForgetsLast'
  BY <1>1 DEF JobInv, ForgetsLast
<1>4. CASE UNCHANGED <<slices, slivers>>
  BY <1>1, <1>2, <1>3, <1>4, FewerJobs DEF JobInv, JobsAttached
<1>5. ASSUME NEW t \in Callers, NewSlice(t) PROVE JobInv'
  <2>1. PICK o \in SliceObjs : FreshSlice(o) /\ slivers' = [slivers EXCEPT ![o] = {}]
    BY <1>5 DEF NewSlice
  <2>2. \A w \in Deleters : \A s \in JobSlivers(w) :
          s \in Slivers /\ slivers'[s.slice] = slivers[s.slice]
    BY <2>1 DEF FreshSlice, JobSlivers, Slivers
  <2>3. JobsAttached'
    <3>1. \A w \in Deleters : \A s \in todo'[w] : s \in slivers'[s.slice]
      BY <1>1, <2>2 DEF JobInv, JobsAttached, JobSlivers
    <3>2. ASSUME NEW w \in Deleters, step[w] \in {"reset", "remove"}
          PROVE  cur[w] \in slivers'[cur[w].slice] /\ cur[w] \notin todo[w]
      <4>1. cur[w] \in JobSlivers(w)
        BY <3>2, NoneAssumption DEF JobSlivers, LocalsOK
      <4>2. QED
        BY <2>2, <3>2, <4>1 DEF JobInv, JobsAttached
    <3>3. QED
      BY <1>1, <3>1, <3>2 DEF JobsAttached
  <2>4. UNCHANGED slices
    BY <1>5 DEF NewSlice
  <2>5. QED
    BY <1>2, <1>3, <2>3, <2>4, FewerJobs DEF JobInv
<1>6. ASSUME NEW t \in Callers, AddResource(t) PROVE JobInv'
  <2>1. UNCHANGED slices /\ \A o \in SliceObjs : slivers[o] \subseteq slivers'[o]
    BY <1>6 DEF AddResource
  <2>2. \A s \in Slivers : s.slice \in SliceObjs
    BY DEF Slivers
  <2>3. JobsAttached'
    BY <1>1, <2>1, <2>2 DEF JobInv, JobsAttached, LocalsOK
  <2>4. QED
    BY <1>2, <1>3, <2>1, <2>3, FewerJobs DEF JobInv
<1>7. ASSUME NEW t \in Callers, PublishSlice(t) PROVE JobInv'
  <2>1. UNCHANGED slivers /\ slices' = [slices EXCEPT ![req[t].urn] = target[t]]
    BY <1>7 DEF PublishSlice
  <2>2. target[t] # None
    BY <1>7, NoneAssumption DEF PublishSlice, LocalsOK
  <2>3. \A u \in URNs : slices[u] # None => slices'[u] # None
    BY <2>1, <2>2
  <2>4. \A w \in Deleters : \A s \in JobSlivers(w) : s.slice.urn \in URNs
    BY DEF JobSlivers, Slivers, SliceObjs
  <2>5. JobsAttached'
    BY <1>1, <2>1 DEF JobInv, JobsAttached
  <2>6. QED
    BY <1>2, <1>3, <2>3, <2>4, <2>5, FewerJobs DEF JobInv
<1>8. QED
  BY <1>4, <1>5, <1>6, <1>7
     DEF CallStep, Allocate, AcquireLock, MatchProxy, MatchNode,
         AbortAllocation, ReleaseLock, ExistingSlice, RefuseExisting, Lapse,
         shared, vars

\* So do the steps that begin a deletion, as long as it does not overlap.
LEMMA JobInvBegin ==
  ASSUME TypeInv, JobInv, ~OverlappingDeletes, NEW w \in Deleters,
         \/ \E u \in URNs : Delete(w, u)
         \/ ExpireCheck(w) \/ ExpireAcquire(w)
  PROVE  JobInv'
<1> USE DEF TypeInv, TypeOK
<1>1. CASE ExpireCheck(w)
  <2>1. /\ step[w] = "idle" /\ step' = [step EXCEPT ![w] = "acquire"]
        /\ UNCHANGED <<slices, slivers, todo, cur>>
    BY <1>1 DEF ExpireCheck, shared
  <2>2. \A v \in Deleters : JobSlivers(v)' = JobSlivers(v)
    BY <2>1 DEF JobSlivers
  <2>3. JobsAttached' /\ ForgetsLast'
    BY <2>1 DEF JobInv, JobsAttached, ForgetsLast
  <2>4. QED
    BY <2>1, <2>2, <2>3, FewerJobs DEF JobInv
<1>2. CASE (\E u \in URNs : Delete(w, u)) \/ ExpireAcquire(w)
  \* The new work S consists of slivers attached to known slices.
  <2>1. PICK S \in SUBSET Slivers :
          /\ Admissible(w, S)
          /\ todo' = [todo EXCEPT ![w] = S]
          /\ \A s \in S : /\ s \in slivers[s.slice]
                          /\ slices[s.slice.urn] = s.slice
    <3>1. ASSUME NEW u \in URNs, Delete(w, u)
          PROVE  \E S \in SUBSET Slivers :
                    /\ Admissible(w, S)
                    /\ todo' = [todo EXCEPT ![w] = S]
                    /\ \A s \in S : /\ s \in slivers[s.slice]
                                    /\ slices[s.slice.urn] = s.slice
      <4>1. PICK S \in SUBSET slivers[slices[u]] :
              Admissible(w, S) /\ todo' = [todo EXCEPT ![w] = S]
        BY <3>1 DEF Delete
      <4>2. slices[u] \in SliceObjs /\ slices[u].urn = u
        BY <3>1 DEF Delete, ListsOK
      <4>3. slivers[slices[u]] \subseteq Slivers
        BY <4>2
      <4>4. \A s \in S : s.slice = slices[u]
        BY <4>2 DEF ListsOK
      <4>5. QED
        BY <4>1, <4>2, <4>3, <4>4
    <3>2. CASE ExpireAcquire(w)
      <4>1. Due \in SUBSET Slivers
        BY DEF Due
      <4>2. \A s \in Due : s \in slivers[s.slice] /\ slices[s.slice.urn] = s.slice
        BY DEF Due
      <4>3. Admissible(w, Due) /\ todo' = [todo EXCEPT ![w] = Due]
        BY <3>2 DEF ExpireAcquire
      <4>4. QED
        BY <4>1, <4>2, <4>3
    <3>3. QED
      BY <1>2, <3>1, <3>2
  <2>2. /\ step[w] \in {"idle", "acquire"}
        /\ step' = [step EXCEPT ![w] = "next"]
        /\ UNCHANGED <<slices, slivers, cur>>
    BY <1>2 DEF Delete, ExpireAcquire, shared
  <2>3. JobSlivers(w)' = S
    BY <2>1, <2>2 DEF JobSlivers, LocalsOK
  <2>4. \A v \in Deleters : v # w => JobSlivers(v)' = JobSlivers(v)
    BY <2>1, <2>2 DEF JobSlivers
  <2>5. \A v \in Deleters : v # w =>
          \A s \in S, r \in JobSlivers(v) : s.slice.urn # r.slice.urn
    BY <2>1 DEF Admissible, JobURNs
  <2>6. JobsDisjoint'
    <3> SUFFICES ASSUME NEW v1 \in Deleters, NEW v2 \in Deleters,
                        NEW s \in JobSlivers(v1)', NEW r \in JobSlivers(v2)',
                        s.slice.urn = r.slice.urn
                 PROVE  v1 = v2
      BY DEF JobsDisjoint
    <3>1. CASE v1 = w
      BY <2>3, <2>4, <2>5, <3>1
    <3>2. CASE v2 = w
      BY <2>3, <2>4, <2>5, <3>2
    <3>3. CASE v1 # w /\ v2 # w
      BY <2>4, <3>3 DEF JobInv, JobsDisjoint
    <3>4. QED
      BY <3>1, <3>2, <3>3
  <2>7. \A s \in S : s.slice \in SliceObjs
    BY DEF Slivers
  <2>8. JobsKnown'
    <3>1. \A s \in S : slices'[s.slice.urn] # None
      BY <2>1, <2>2, <2>7, NoneAssumption
    <3>2. \A s, r \in S : s.slice.urn = r.slice.urn => s.slice = r.slice
      BY <2>1
    <3>3. \A v \in Deleters : v # w =>
            /\ \A s \in JobSlivers(v)' : slices'[s.slice.urn] # None
            /\ \A s, r \in JobSlivers(v)' :
                  s.slice.urn = r.slice.urn => s.slice = r.slice
      BY <2>2, <2>4 DEF JobInv, JobsKnown
    <3>4. QED
      BY <2>3, <3>1, <3>2, <3>3 DEF JobsKnown
  <2>9. JobsAttached'
    BY <2>1, <2>2 DEF JobInv, JobsAttached
  <2>10. ForgetsLast'
    BY <2>1, <2>2 DEF JobInv, ForgetsLast
  <2>11. QED
    BY <2>6, <2>8, <2>9, <2>10 DEF JobInv
<1>3. QED
  BY <1>1, <1>2

\* And so do the steps of a deletion.
LEMMA JobInvRun ==
  ASSUME TypeInv, JobInv, NEW w \in Deleters, RunStep(w)
  PROVE  JobInv'
<1> USE NoneAssumption DEF TypeInv, TypeOK
<1>1. CASE Deprovision(w)
  <2>1. PICK s \in todo[w] :
          /\ cur' = [cur EXCEPT ![w] = s]
          /\ todo' = [todo EXCEPT ![w] = @ \ {s}]
    BY <1>1 DEF Deprovision
  <2>2. step' = [step EXCEPT ![w] = "reset"] /\ UNCHANGED <<slices, slivers>>
    BY <1>1 DEF Deprovision
  <2>3. \A v \in Deleters : JobSlivers(v)' \subseteq JobSlivers(v)
    BY <2>1 DEF JobSlivers
  <2>4. JobsAttached'
    BY <2>1, <2>2 DEF JobInv, JobsAttached
  <2>5. ForgetsLast'
    BY <2>1, <2>2 DEF JobInv, ForgetsLast
  <2>6. QED
    BY <2>2, <2>3, <2>4, <2>5, FewerJobs DEF JobInv
<1>2. CASE ResetResource(w)
  <2>1. /\ step[w] = "reset" /\ step' = [step EXCEPT ![w] = "remove"]
        /\ UNCHANGED <<slices, slivers, todo, cur>>
    BY <1>2 DEF ResetResource
  <2>2. \A v \in Deleters : JobSlivers(v)' = JobSlivers(v)
    BY <2>1 DEF JobSlivers
  <2>3. JobsAttached' /\ ForgetsLast'
    BY <2>1 DEF JobInv, JobsAttached, ForgetsLast
  <2>4. QED
    BY <2>1, <2>2, <2>3, FewerJobs DEF JobInv
<1>3. CASE RemoveSliver(w)
  <2> DEFINE s == cur[w]
  <2>1. /\ step[w] = "remove" /\ s \in Slivers /\ s.slice \in SliceObjs
        /\ slivers' = [slivers EXCEPT ![s.slice] = @ \ {s}]
        /\ UNCHANGED <<slices, todo, cur>>
    BY <1>3 DEF RemoveSliver, LocalsOK, Slivers
  <2>2. \E x \in {"check", "next"} : step' = [step EXCEPT ![w] = x]
    BY <1>3 DEF RemoveSliver
  <2>3. s \in JobSlivers(w) /\ s \notin todo[w]
    BY <2>1 DEF JobSlivers, JobInv, JobsAttached
  <2>4. \A v \in Deleters : v # w => s \notin JobSlivers(v)
    BY <2>3 DEF JobInv, JobsDisjoint
  <2>5. \A v \in Deleters : JobSlivers(v)' = JobSlivers(v)
    BY <2>1 DEF JobSlivers
  <2>6. JobsAttached'
    <3> SUFFICES ASSUME NEW v \in Deleters
                 PROVE  /\ \A r \in todo'[v] : r \in slivers'[r.slice]
                        /\ step'[v] \in {"reset", "remove"} =>
                              /\ cur'[v] \in slivers'[cur'[v].slice]
                              /\ cur'[v] \notin todo'[v]
      BY DEF JobsAttached
    <3>1. \A r \in Slivers : r # s /\ r \in slivers[r.slice] => r \in slivers'[r.slice]
      BY <2>1 DEF Slivers
    <3>2. \A r \in todo[v] : r # s /\ r \in Slivers
      BY <2>3, <2>4 DEF JobSlivers
    <3>3. CASE v = w
      BY <2>1, <2>2, <3>1, <3>2, <3>3 DEF JobInv, JobsAttached
    <3>4. CASE v # w
      <4>1. step'[v] = step[v]
        BY <2>2, <3>4
      <4>2. step[v] \in {"reset", "remove"} => cur[v] \in Slivers /\ cur[v] # s
        BY <2>4, <3>4 DEF LocalsOK, JobSlivers
      <4>3. QED
        BY <2>1, <3>1, <3>2, <4>1, <4>2 DEF JobInv, JobsAttached
    <3>5. QED
      BY <3>3, <3>4
  <2>7. ForgetsLast'
    BY <2>1, <2>2 DEF JobInv, ForgetsLast
  <2>8. QED
    BY <2>1, <2>5, <2>6, <2>7, FewerJobs DEF JobInv
<1>4. CASE CheckEmpty(w)
  <2>1. step[w] = "check" /\ UNCHANGED <<slices, slivers, todo>>
    BY <1>4 DEF CheckEmpty, shared
  <2>2. \/ /\ slivers[cur[w].slice] = {} /\ UNCHANGED cur
           /\ step' = [step EXCEPT ![w] = "forget"]
        \/ /\ cur' = [cur EXCEPT ![w] = None]
           /\ step' = [step EXCEPT ![w] = "next"]
    BY <1>4 DEF CheckEmpty
  <2>3. \A v \in Deleters : JobSlivers(v)' \subseteq JobSlivers(v)
    BY <2>1, <2>2 DEF JobSlivers
  <2>4. JobsAttached'
    BY <2>1, <2>2 DEF JobInv, JobsAttached
  <2>5. slivers[cur[w].slice] = {} =>
          \A s \in todo[w] : s.slice.urn # cur[w].slice.urn
    <3>1. cur[w] \in JobSlivers(w) /\ todo[w] \subseteq JobSlivers(w)
      BY <2>1 DEF JobSlivers, LocalsOK
    <3>2. \A s \in todo[w] : s.slice.urn = cur[w].slice.urn => s.slice = cur[w].slice
      BY <3>1 DEF JobInv, JobsKnown
    <3>3. QED
      BY <3>2 DEF JobInv, JobsAttached
  <2>6. ForgetsLast'
    BY <2>1, <2>2, <2>5 DEF JobInv, ForgetsLast
  <2>7. QED
    BY <2>1, <2>3, <2>4, <2>6, FewerJobs DEF JobInv
<1>5. CASE ForgetSlice(w)
  <2> DEFINE s == cur[w]
  <2>1. /\ step[w] = "forget" /\ s \in Slivers
        /\ slices' = [slices EXCEPT ![s.slice.urn] = None]
        /\ cur' = [cur EXCEPT ![w] = None]
        /\ step' = [step EXCEPT ![w] = "next"]
        /\ UNCHANGED <<slivers, todo>>
    BY <1>5 DEF ForgetSlice, LocalsOK
  <2>2. s \in JobSlivers(w)
    BY <2>1 DEF JobSlivers
  <2>3. \A v \in Deleters : v # w => JobSlivers(v)' = JobSlivers(v)
    BY <2>1 DEF JobSlivers
  <2>4. JobSlivers(w)' = todo[w] /\ todo[w] \subseteq JobSlivers(w)
    BY <2>1 DEF JobSlivers
  <2>5. \A v \in Deleters : \A r \in JobSlivers(v)' :
          r \in JobSlivers(v) /\ r.slice.urn # s.slice.urn
    BY <2>1, <2>2, <2>3, <2>4 DEF JobInv, JobsDisjoint, ForgetsLast
  <2>6. \A v \in Deleters : \A r \in JobSlivers(v) : r.slice.urn \in URNs
    BY DEF JobSlivers, Slivers, SliceObjs
  <2>7. \A v \in Deleters : \A r \in JobSlivers(v)' : slices'[r.slice.urn] # None
    <3> SUFFICES ASSUME NEW v \in Deleters, NEW r \in JobSlivers(v)'
                 PROVE  slices'[r.slice.urn] # None
      OBVIOUS
    <3>1. r \in JobSlivers(v) /\ r.slice.urn # s.slice.urn
      BY <2>5
    <3>2. r.slice.urn \in URNs /\ slices[r.slice.urn] # None
      BY <2>6, <3>1 DEF JobInv, JobsKnown
    <3>3. QED
      BY <2>1, <3>1, <3>2
  <2>8. JobsKnown'
    BY <2>5, <2>7 DEF JobInv, JobsKnown
  <2>9. JobsDisjoint'
    BY <2>5 DEF JobInv, JobsDisjoint
  <2>10. JobsAttached' /\ ForgetsLast'
    BY <2>1 DEF JobInv, JobsAttached, ForgetsLast
  <2>11. QED
    BY <2>8, <2>9, <2>10 DEF JobInv
<1>6. CASE RemoveRaises(w) \/ ForgetRaises(w) \/ FinishRun(w)
  <2>1. /\ step' = [step EXCEPT ![w] = "idle"]
        /\ todo' = [todo EXCEPT ![w] = {}]
        /\ cur' = [cur EXCEPT ![w] = None]
        /\ UNCHANGED <<slices, slivers>>
    BY <1>6 DEF RemoveRaises, ForgetRaises, FinishRun, EndRun, shared
  <2>2. \A v \in Deleters : JobSlivers(v)' \subseteq JobSlivers(v)
    BY <2>1 DEF JobSlivers
  <2>3. JobsAttached'
    BY <2>1 DEF JobInv, JobsAttached
  <2>4. ForgetsLast'
    BY <2>1 DEF JobInv, ForgetsLast
  <2>5. QED
    BY <2>1, <2>2, <2>3, <2>4, FewerJobs DEF JobInv
<1>7. QED
  BY <1>1, <1>2, <1>3, <1>4, <1>5, <1>6 DEF RunStep

LEMMA JobInvAlways == ~OverlappingDeletes => (Spec => [](TypeInv /\ JobInv))
<1> SUFFICES ASSUME ~OverlappingDeletes PROVE Spec => [](TypeInv /\ JobInv)
  OBVIOUS
<1>1. Init => JobInv
  BY DEF Init, JobInv, JobsAttached, JobsDisjoint, JobsKnown, ForgetsLast,
         JobSlivers
<1>2. TypeInv /\ JobInv /\ [Next]_vars => (TypeInv /\ JobInv)'
  BY TypeInvStep, JobInvCall, JobInvBegin, JobInvRun DEF Next
<1>3. QED
  BY <1>1, <1>2, TypeInvInit, PTL DEF Spec

\* As long as no two deletions work on one slice, neither _slivers.remove nor
\* del self._slices[urn] raises, whatever Allocate and the clock do meanwhile.
THEOREM NoDeletionRaises == ~OverlappingDeletes => (Spec => []DeletionsDoNotRaise)
<1>1. TypeInv /\ JobInv => DeletionsDoNotRaise
  <2> SUFFICES ASSUME TypeInv, JobInv, NEW w \in Deleters
               PROVE  /\ step[w] = "remove" => cur[w] \in slivers[cur[w].slice]
                      /\ step[w] = "forget" => slices[cur[w].slice.urn] # None
    BY DEF DeletionsDoNotRaise
  <2>1. step[w] = "remove" => cur[w] \in slivers[cur[w].slice]
    BY DEF JobInv, JobsAttached
  <2>2. step[w] = "forget" => cur[w] \in JobSlivers(w)
    BY NoneAssumption DEF TypeInv, LocalsOK, JobSlivers
  <2>3. QED
    BY <2>1, <2>2 DEF JobInv, JobsKnown
<1>2. QED
  BY <1>1, JobInvAlways, PTL

-----------------------------------------------------------------------------
(* The locks *)

\* A call that does not match leaves ALLOCATE_LOCK to its owner.
LEMMA CallKeepsOwner ==
  ASSUME TypeInv, AllocateLockHasOwner, NEW t \in Callers,
         (\E r \in Requests : Allocate(t, r)) \/ CallStep(t)
  PROVE  AllocateLockHasOwner' /\ UNCHANGED <<expireLocked, kind, step>>
<1> USE NoneAssumption DEF TypeInv, TypeOK, AllocateLockHasOwner
<1>1. UNCHANGED <<expireLocked, kind, step>>
  BY DEF Allocate, CallStep, AcquireLock, MatchProxy, MatchNode,
         AbortAllocation, ReleaseLock, NewSlice, ExistingSlice,
         RefuseExisting, AddResource, PublishSlice, shared, deleterVars
<1>2. CASE \E r \in Requests : Allocate(t, r)
  BY <1>1, <1>2 DEF Allocate, shared
<1>3. CASE AcquireLock(t)
  BY <1>1, <1>3 DEF AcquireLock, Return
<1>4. CASE MatchProxy(t) \/ MatchNode(t) \/ AddResource(t)
  BY <1>1, <1>4 DEF MatchProxy, MatchNode, AddResource
<1>5. CASE AbortAllocation(t) \/ ReleaseLock(t)
  BY <1>1, <1>5 DEF AbortAllocation, ReleaseLock
<1>6. CASE NewSlice(t) \/ ExistingSlice(t) \/ RefuseExisting(t) \/ PublishSlice(t)
  BY <1>1, <1>6 DEF NewSlice, ExistingSlice, RefuseExisting, PublishSlice, Return,
                    shared
<1>7. QED
  BY <1>1, <1>2, <1>3, <1>4, <1>5, <1>6 DEF CallStep

\* Deletions and expirations leave it alone.
LEMMA DeletionsKeepOwner ==
  ASSUME NEW w \in Deleters,
         \/ \E u \in URNs : Delete(w, u)
         \/ ExpireCheck(w) \/ ExpireAcquire(w) \/ RunStep(w)
  PROVE  UNCHANGED <<pc, allocateLock>>
BY DEF Delete, ExpireCheck, ExpireAcquire, RunStep, Deprovision, ResetResource,
       RemoveSliver, RemoveRaises, CheckEmpty, ForgetSlice, ForgetRaises, FinishRun,
       callerVars, shared

\* ALLOCATE_LOCK is held by a call that is matching, and will give it back
\* whichever way it goes, however deletions overlap and raise: an exception in
\* delete_sliver costs EXPIRE_LOCK, never ALLOCATE_LOCK.
THEOREM AllocateLockIsOwned == Spec => []AllocateLockHasOwner
<1>1. Init => AllocateLockHasOwner
  BY DEF Init, AllocateLockHasOwner
<1>2. TypeInv /\ AllocateLockHasOwner /\ [Next]_vars => AllocateLockHasOwner'
  <2> SUFFICES ASSUME TypeInv, AllocateLockHasOwner, [Next]_vars
               PROVE  AllocateLockHasOwner'
    OBVIOUS
  <2>1. CASE UNCHANGED <<pc, allocateLock>>
    BY <2>1 DEF AllocateLockHasOwner
  <2>2. CASE (\E s \in Slivers : Lapse(s)) \/ UNCHANGED vars
    BY <2>1, <2>2 DEF Lapse, vars, shared, callerVars
  <2>3. QED
    BY <2>1, <2>2, CallKeepsOwner, DeletionsKeepOwner DEF Next
<1>3. QED
  BY <1>1, <1>2, TypeInvInit, TypeInvStep, PTL DEF Spec

\* As long as no two deletions work on one slice, no lock is ever left behind:
\* that the locks are free again and again needs fairness, that somebody who
\* can free them has them does not.
THEOREM LocksAreOwned == ~OverlappingDeletes => (Spec => []LocksHaveOwners)
<1> SUFFICES ASSUME ~OverlappingDeletes PROVE Spec => []LocksHaveOwners
  OBVIOUS
<1>1. Init => LocksHaveOwners
  BY DEF Init, LocksHaveOwners, AllocateLockHasOwner, ExpireLockHasOwner
<1>2. TypeInv /\ DeletionsDoNotRaise /\ LocksHaveOwners /\ [Next]_vars
        => LocksHaveOwners'
  <2> SUFFICES ASSUME TypeInv, DeletionsDoNotRaise, LocksHaveOwners, [Next]_vars
               PROVE LocksHaveOwners'
    OBVIOUS
  <2> USE DEF TypeInv, TypeOK, LocksHaveOwners, AllocateLockHasOwner, ExpireLockHasOwner
  <2>1. CASE UNCHANGED <<pc, allocateLock, step, kind, expireLocked>>
    BY <2>1
  <2>2. ASSUME NEW w \in Deleters,
               \/ \E u \in URNs : Delete(w, u)
               \/ ExpireCheck(w)
        PROVE LocksHaveOwners'
    <3>1. UNCHANGED <<pc, allocateLock, expireLocked>> /\ step[w] = "idle"
      BY <2>2 DEF Delete, ExpireCheck, shared, callerVars
    <3>2. \A v \in Deleters : v # w => step'[v] = step[v] /\ kind'[v] = kind[v]
      BY <2>2 DEF Delete, ExpireCheck
    <3>3. QED
      BY <3>1, <3>2
  <2>3. ASSUME NEW w \in Deleters, ExpireAcquire(w) PROVE LocksHaveOwners'
    BY <2>3 DEF ExpireAcquire, callerVars
  <2>4. ASSUME NEW w \in Deleters,
               \/ Deprovision(w) \/ ResetResource(w) \/ RemoveSliver(w)
               \/ CheckEmpty(w) \/ ForgetSlice(w)
        PROVE LocksHaveOwners'
    <3>1. UNCHANGED <<pc, allocateLock, expireLocked, kind>>
      BY <2>4 DEF Deprovision, ResetResource, RemoveSliver, CheckEmpty, ForgetSlice,
                  shared, callerVars
    <3>2. \A v \in Deleters : step[v] \notin {"idle", "acquire"} =>
            step'[v] \notin {"idle", "acquire"}
      BY <2>4 DEF Deprovision, ResetResource, RemoveSliver, CheckEmpty, ForgetSlice
    <3>3. QED
      BY <3>1, <3>2
  <2>5. ASSUME NEW w \in Deleters, RemoveRaises(w) \/ ForgetRaises(w) PROVE FALSE
    BY <2>5 DEF RemoveRaises, ForgetRaises, DeletionsDoNotRaise
  <2>6. ASSUME NEW w \in Deleters, FinishRun(w) PROVE LocksHaveOwners'
    BY <2>6 DEF FinishRun, EndRun, callerVars
  <2>7. ASSUME NEW s \in Slivers, Lapse(s)
        PROVE UNCHANGED <<pc, allocateLock, step, kind, expireLocked>>
    BY <2>7 DEF Lapse, callerVars, deleterVars
  <2>8. QED
    BY <2>1, <2>2, <2>3, <2>4, <2>5, <2>6, <2>7, CallKeepsOwner
       DEF Next, RunStep, vars, shared, callerVars, deleterVars
<1>3. Spec => []TypeInv
  BY TypeInvInit, TypeInvStep, PTL DEF Spec
<1>4. Spec => []DeletionsDoNotRaise
  BY NoDeletionRaises
<1>5. QED
  BY <1>1, <1>2, <1>3, <1>4, PTL DEF Spec

-----------------------------------------------------------------------------
(* Every container has at most one holder *)

\* A step that adds no container to a pool, to a call's resources or to the
\* leased slivers keeps the holders exclusive.
LEMMA FewerHolders ==
  ASSUME TypeInv, TypeInv', ContainerExclusive,
         \A c \in Containers : pool'[c] <= pool[c],
         \A t \in Callers, c \in Containers : held'[t][c] <= held[t][c],
         \A s \in Slivers : Leased(s)' => Leased(s)
  PROVE  ContainerExclusive'
<1> USE DEF TypeInv, TypeOK
<1>1. \A c \in Containers : pool[c] \in Nat /\ pool'[c] \in Nat
  OBVIOUS
<1>2. \A t \in Callers, c \in Containers : held[t][c] \in Nat /\ held'[t][c] \in Nat
  OBVIOUS
<1>3. \A s \in Slivers : s.res \in Containers
  BY DEF Slivers
<1> HIDE DEF TypeInv, TypeOK
<1>4. \A c \in Containers : pool'[c] <= 1
  BY <1>1 DEF ContainerExclusive
<1>5. \A t \in Callers, c \in Containers :
        held'[t][c] > 0 => held'[t][c] = 1 /\ pool'[c] = 0
  BY <1>1, <1>2 DEF ContainerExclusive
<1>6. \A t1, t2 \in Callers, c \in Containers :
        held'[t1][c] > 0 /\ held'[t2][c] > 0 => t1 = t2
  BY <1>2 DEF ContainerExclusive
<1>7. \A s \in Slivers : Leased(s)' =>
        pool'[s.res] = 0 /\ \A t \in Callers : held'[t][s.res] = 0
  BY <1>1, <1>2, <1>3 DEF ContainerExclusive
<1>8. \A s1, s2 \in Slivers :
        Leased(s1)' /\ Leased(s2)' /\ s1.res = s2.res => s1 = s2
  BY DEF ContainerExclusive
<1>9. QED
  BY <1>4, <1>5, <1>6, <1>7, <1>8 DEF ContainerExclusive

\* matchResource moves a container from its pool to the call.
LEMMA TakeKeepsExclusive ==
  ASSUME TypeInv, ContainerExclusive, NEW t \in Callers,
         NEW S \in SUBSET Containers, TakeFrom(t, S),
         UNCHANGED <<slivers, deleterVars>>
  PROVE  ContainerExclusive'
<1> USE DEF TypeInv, TypeOK
<1>1. PICK c \in Containers :
        /\ pool[c] > 0
        /\ pool' = [pool EXCEPT ![c] = @ - 1]
        /\ held' = [held EXCEPT ![t][c] = @ + 1]
  BY DEF TakeFrom
<1>2. pool[c] = 1 /\ \A x \in Callers : held[x][c] = 0
  BY <1>1 DEF ContainerExclusive
<1>3. pool'[c] = 0 /\ held'[t][c] = 1 /\ \A x \in Callers : x # t => held'[x][c] = 0
  BY <1>1, <1>2
<1>4. \A d \in Containers : d # c =>
        pool'[d] = pool[d] /\ \A x \in Callers : held'[x][d] = held[x][d]
  BY <1>1
<1>5. \A s \in Slivers : Leased(s)' = Leased(s)
  BY DEF Leased, Returned, deleterVars
<1>6. \A s \in Slivers : s.res \in Containers /\ (Leased(s) => s.res # c)
  BY <1>2 DEF ContainerExclusive, Slivers
<1> HIDE DEF TypeInv, TypeOK
<1>7. \A d \in Containers : pool'[d] <= 1
  BY <1>3, <1>4 DEF ContainerExclusive
<1>8. \A x \in Callers, d \in Containers :
        held'[x][d] > 0 => held'[x][d] = 1 /\ pool'[d] = 0
  BY <1>3, <1>4 DEF ContainerExclusive
<1>9. \A x, y \in Callers, d \in Containers :
        held'[x][d] > 0 /\ held'[y][d] > 0 => x = y
  BY <1>3, <1>4 DEF ContainerExclusive
<1>10. \A s \in Slivers : Leased(s)' =>
         pool'[s.res] = 0 /\ \A x \in Callers : held'[x][s.res] = 0
  BY <1>4, <1>5, <1>6 DEF ContainerExclusive
<1>11. \A s1, s2 \in Slivers :
         Leased(s1)' /\ Leased(s2)' /\ s1.res = s2.res => s1 = s2
  BY <1>5 DEF ContainerExclusive
<1>12. QED
  BY <1>7, <1>8, <1>9, <1>10, <1>11 DEF ContainerExclusive

\* add_resource moves a container from the call to a sliver.
LEMMA AddKeepsExclusive ==
  ASSUME TypeInv, ContainerExclusive, NEW t \in Callers, AddResource(t)
  PROVE  ContainerExclusive'
<1> USE DEF TypeInv, TypeOK
<1>1. PICK s \in Slivers :
        /\ s.slice = target[t]
        /\ held[t][s.res] > 0
        /\ slivers' = [slivers EXCEPT ![target[t]] = @ \cup {s}]
        /\ held' = [held EXCEPT ![t][s.res] = @ - 1]
  BY DEF AddResource
<1>2. UNCHANGED <<pool, deleterVars>>
  BY DEF AddResource
<1> DEFINE c == s.res
<1>3. c \in Containers /\ held[t][c] = 1 /\ pool[c] = 0
  BY <1>1 DEF ContainerExclusive, Slivers
<1>4. \A x \in Callers : held'[x][c] = 0
  <2>1. held'[t][c] = 0
    BY <1>1, <1>3
  <2>2. ASSUME NEW x \in Callers, x # t PROVE held'[x][c] = 0
    <3>1. held'[x] = held[x] /\ held[x][c] \in Nat
      BY <1>1, <1>3, <2>2
    <3>2. ~(held[x][c] > 0)
      BY <1>3, <2>2 DEF ContainerExclusive
    <3>3. QED
      BY <3>1, <3>2
  <2>3. QED
    BY <2>1, <2>2
<1>5. \A d \in Containers : d # c => \A x \in Callers : held'[x][d] = held[x][d]
  BY <1>1, <1>3
<1>6. \A r \in Slivers : r.res \in Containers /\ r.slice \in SliceObjs
  BY DEF Slivers
<1>7. \A r \in Slivers : Leased(r) => r.res # c
  BY <1>1, <1>3 DEF ContainerExclusive
<1>8. \A r \in Slivers : r # s => (Leased(r)' => Leased(r))
  BY <1>1, <1>2, <1>6 DEF Leased, Returned, deleterVars
<1> HIDE DEF TypeInv, TypeOK, c
<1>9. \A d \in Containers : pool'[d] <= 1
  BY <1>2 DEF ContainerExclusive
<1>10. \A x \in Callers, d \in Containers :
         held'[x][d] > 0 => held'[x][d] = 1 /\ pool'[d] = 0
  BY <1>2, <1>4, <1>5 DEF ContainerExclusive
<1>11. \A x, y \in Callers, d \in Containers :
         held'[x][d] > 0 /\ held'[y][d] > 0 => x = y
  BY <1>4, <1>5 DEF ContainerExclusive
<1>12. \A r \in Slivers : Leased(r)' =>
         pool'[r.res] = 0 /\ \A x \in Callers : held'[x][r.res] = 0
  BY <1>2, <1>3, <1>4, <1>5, <1>6, <1>8 DEF ContainerExclusive, c
<1>13. \A r1, r2 \in Slivers :
         Leased(r1)' /\ Leased(r2)' /\ r1.res = r2.res => r1 = r2
  BY <1>7, <1>8 DEF ContainerExclusive, c
<1>14. QED
  BY <1>9, <1>10, <1>11, <1>12, <1>13 DEF ContainerExclusive

\* reset moves a container from a sliver to its pool.  Here the deletions must
\* be disjoint: another thread would return the container a second time.
LEMMA ResetKeepsExclusive ==
  ASSUME TypeInv, JobInv, ContainerExclusive, NEW w \in Deleters,
         ResetResource(w)
  PROVE  ContainerExclusive'
<1> USE DEF TypeInv, TypeOK
<1> DEFINE s == cur[w]
           c == s.res
<1>1. /\ step[w] = "reset" /\ step' = [step EXCEPT ![w] = "remove"]
      /\ pool' = [pool EXCEPT ![c] = @ + 1]
      /\ UNCHANGED <<slivers, held, cur>>
  BY DEF ResetResource, callerVars
<1>2. s \in Slivers /\ c \in Containers /\ s \in slivers[s.slice]
  BY <1>1 DEF LocalsOK, JobInv, JobsAttached, Slivers
<1>3. ~Returned(s)
  <2>1. ASSUME NEW v \in Deleters, step[v] = "remove", cur[v] = s PROVE FALSE
    <3>1. s \in JobSlivers(w) /\ s \in JobSlivers(v)
      BY <1>2, <2>1, NoneAssumption DEF JobSlivers
    <3>2. w = v
      BY <3>1 DEF JobInv, JobsDisjoint
    <3>3. QED
      BY <1>1, <2>1, <3>2
  <2>2. QED
    BY <2>1 DEF Returned
<1>4. Leased(s)
  BY <1>2, <1>3 DEF Leased
<1>5. \A r \in Slivers : Leased(r)' => Leased(r) /\ r # s
  BY <1>1 DEF Leased, Returned
<1>6. \A r \in Slivers : r.res \in Containers /\ (Leased(r)' => r.res # c)
  BY <1>2, <1>4, <1>5 DEF ContainerExclusive, Slivers
<1>7. pool'[c] = 1 /\ \A x \in Callers : held[x][c] = 0
  BY <1>1, <1>2, <1>4 DEF ContainerExclusive
<1>8. \A d \in Containers : d # c => pool'[d] = pool[d]
  BY <1>1
<1> HIDE DEF TypeInv, TypeOK, s, c
<1>9. \A d \in Containers : pool'[d] <= 1
  BY <1>7, <1>8 DEF ContainerExclusive
<1>10. \A x \in Callers, d \in Containers :
         held'[x][d] > 0 => held'[x][d] = 1 /\ pool'[d] = 0
  BY <1>1, <1>7, <1>8 DEF ContainerExclusive
<1>11. \A x, y \in Callers, d \in Containers :
         held'[x][d] > 0 /\ held'[y][d] > 0 => x = y
  BY <1>1 DEF ContainerExclusive
<1>12. \A r \in Slivers : Leased(r)' =>
         pool'[r.res] = 0 /\ \A x \in Callers : held'[x][r.res] = 0
  BY <1>1, <1>5, <1>6, <1>8 DEF ContainerExclusive
<1>13. \A r1, r2 \in Slivers :
         Leased(r1)' /\ Leased(r2)' /\ r1.res = r2.res => r1 = r2
  BY <1>5 DEF ContainerExclusive
<1>14. QED
  BY <1>9, <1>10, <1>11, <1>12, <1>13 DEF ContainerExclusive

LEMMA ExclusiveCall ==
  ASSUME TypeInv, TypeInv', ContainerExclusive, NEW t \in Callers,
         (\E r \in Requests : Allocate(t, r)) \/ CallStep(t)
  PROVE  ContainerExclusive'
<1>1. CASE \/ \E r \in Requests : Allocate(t, r)
           \/ AcquireLock(t) \/ AbortAllocation(t) \/ ReleaseLock(t)
           \/ NewSlice(t) \/ ExistingSlice(t) \/ RefuseExisting(t)
           \/ PublishSlice(t)
  <2> USE DEF TypeInv, TypeOK
  <2>1. UNCHANGED <<pool, deleterVars>>
    BY <1>1 DEF Allocate, AcquireLock, AbortAllocation, ReleaseLock, NewSlice,
                ExistingSlice, RefuseExisting, PublishSlice, shared
  <2>2. UNCHANGED slivers \/ \E o \in SliceObjs : slivers' = [slivers EXCEPT ![o] = {}]
    BY <1>1 DEF Allocate, AcquireLock, AbortAllocation, ReleaseLock, NewSlice,
                ExistingSlice, RefuseExisting, PublishSlice, shared
  <2>3. \A s \in Slivers : Leased(s)' => Leased(s)
    <3>1. \A o \in SliceObjs : slivers'[o] \subseteq slivers[o]
      BY <2>2
    <3>2. \A s \in Slivers : s.slice \in SliceObjs
      BY DEF Slivers
    <3>3. QED
      BY <2>1, <3>1, <3>2 DEF Leased, Returned, deleterVars
  <2>4. UNCHANGED held \/ held' = [held EXCEPT ![t] = NoneHeld]
    BY <1>1 DEF Allocate, AcquireLock, AbortAllocation, ReleaseLock, NewSlice,
                ExistingSlice, RefuseExisting, PublishSlice, shared, Return
  <2>5. \A x \in Callers, c \in Containers : held'[x][c] <= held[x][c]
    <3>1. \A x \in Callers, c \in Containers : held[x][c] \in Nat
      OBVIOUS
    <3>2. \A x \in Callers : held'[x] = held[x] \/ held'[x] = NoneHeld
      BY <2>4
    <3>3. QED
      BY <3>1, <3>2 DEF NoneHeld
  <2>6. \A c \in Containers : pool'[c] <= pool[c]
    BY <2>1
  <2>7. QED
    BY <2>3, <2>5, <2>6, FewerHolders
<1>2. CASE MatchProxy(t)
  BY <1>2, TakeKeepsExclusive, ConstantsAssumption DEF MatchProxy
<1>3. CASE MatchNode(t)
  BY <1>3, TakeKeepsExclusive DEF MatchNode
<1>4. CASE AddResource(t)
  BY <1>4, AddKeepsExclusive
<1>5. QED
  BY <1>1, <1>2, <1>3, <1>4 DEF CallStep

LEMMA ExclusiveRun ==
  ASSUME TypeInv, TypeInv', JobInv, ContainerExclusive, NEW w \in Deleters,
         \/ \E u \in URNs : Delete(w, u)
         \/ ExpireCheck(w) \/ ExpireAcquire(w) \/ RunStep(w)
  PROVE  ContainerExclusive'
<1>1. CASE ResetResource(w)
  BY <1>1, ResetKeepsExclusive
<1>2. CASE ~ResetResource(w)
  <2> USE DEF TypeInv, TypeOK
  <2>1. UNCHANGED <<pool, held>>
    BY <1>2 DEF Delete, ExpireCheck, ExpireAcquire, RunStep, Deprovision,
                RemoveSliver, RemoveRaises, CheckEmpty, ForgetSlice,
                ForgetRaises, FinishRun, shared, callerVars
  <2>2. \A s \in Slivers : Leased(s)' => Leased(s)
    <3>1. CASE RemoveSliver(w)
      <4>1. /\ cur[w] \in Slivers /\ UNCHANGED cur
            /\ slivers' = [slivers EXCEPT ![cur[w].slice] = @ \ {cur[w]}]
            /\ \A v \in Deleters : v # w => step'[v] = step[v]
        BY <3>1 DEF RemoveSliver, LocalsOK
      <4>2. \A s \in Slivers : s.slice \in SliceObjs
        BY DEF Slivers
      <4>3. \A s \in Slivers : s = cur[w] => ~Leased(s)'
        BY <4>1, <4>2 DEF Leased
      <4>4. \A s \in Slivers : s # cur[w] => (Leased(s)' => Leased(s))
        BY <4>1, <4>2 DEF Leased, Returned
      <4>5. QED
        BY <4>3, <4>4
    <3>2. CASE ~RemoveSliver(w)
      <4>1. ~RemoveRaises(w)
        BY DEF RemoveRaises, JobInv, JobsAttached
      <4>2. UNCHANGED slivers /\ step[w] # "remove"
        BY <1>2, <3>2, <4>1
           DEF Delete, ExpireCheck, ExpireAcquire, RunStep, Deprovision,
               CheckEmpty, ForgetSlice, ForgetRaises, FinishRun, shared
      <4>3. \A v \in Deleters : v # w => step'[v] = step[v] /\ cur'[v] = cur[v]
        BY <1>2, <3>2, <4>1
           DEF Delete, ExpireCheck, ExpireAcquire, RunStep, Deprovision,
               CheckEmpty, ForgetSlice, ForgetRaises, FinishRun, EndRun, shared
      <4>4. QED
        BY <4>2, <4>3 DEF Leased, Returned
    <3>3. QED
      BY <3>1, <3>2
  <2>3. QED
    BY <2>1, <2>2, FewerHolders
<1>3. QED
  BY <1>1, <1>2

\* As long as no two deletions work on one slice, a container is listed once
\* in its pool, or held by one Allocate call, or by one sliver, whatever the
\* threads do in between.
THEOREM HoldersAreExclusive == ~OverlappingDeletes => (Spec => []ContainerExclusive)
<1> SUFFICES ASSUME ~OverlappingDeletes PROVE Spec => []ContainerExclusive
  OBVIOUS
<1>1. Init => ContainerExclusive
  BY DEF Init, ContainerExclusive, Leased, NoneHeld, Slivers
<1>2. TypeInv /\ TypeInv' /\ JobInv /\ ContainerExclusive /\ [Next]_vars
        => ContainerExclusive'
  <2> SUFFICES ASSUME TypeInv, TypeInv', JobInv, ContainerExclusive,
                      [Next]_vars
               PROVE  ContainerExclusive'
    OBVIOUS
  <2>1. CASE (\E s \in Slivers : Lapse(s)) \/ UNCHANGED vars
    <3>1. UNCHANGED <<pool, held, slivers, deleterVars>>
      BY <2>1 DEF Lapse, callerVars, vars, shared
    <3>2. QED
      BY <3>1 DEF ContainerExclusive, Leased, Returned, deleterVars
  <2>2. QED
    BY <2>1, ExclusiveCall, ExclusiveRun DEF Next
<1>3. QED
  BY <1>1, <1>2, JobInvAlways, PTL DEF Spec

=============================================================================
