--------------------- MODULE SliverAllocationLeaseProofs ---------------------
(***************************************************************************)
(* Proof that SliverAllocation implements ContainerLease as long as no two *)
(* deletions work on one slice.  What the refinement mapping says about a  *)
(* container is described without its CHOOSEs (HoldersAreFound); every     *)
(* action then either leaves the holders alone or is one of ContainerLease *)
(* and, of those that lose a container, one that LossExplained names.      *)
(***************************************************************************)
EXTENDS SliverAllocationLease, SliverAllocationProofs

\* A sliver that has its container and can still be reached.
Current(s) == Leased(s) /\ Reachable(s)

\* HolderOf without CHOOSE.
HolderFound(c) ==
    /\ pool[c] > 0 => HolderOf(c) = Free
    /\ \A t \in Callers : held[t][c] > 0 => HolderOf(c) = t
    /\ \A s \in Slivers : s.res = c /\ Current(s) => HolderOf(c) = s.slice.urn
    /\ \/ pool[c] > 0
       \/ \E t \in Callers : held[t][c] > 0
       \/ \E s \in Slivers : s.res = c /\ Current(s)
       \/ HolderOf(c) = Lost
HoldersFound == \A c \in Containers : HolderFound(c)

\* The holder of a container is where HolderOf looks for it: as the holders are
\* exclusive, it makes no difference where it looks first.
LEMMA HoldersAreFound == TypeInv /\ ContainerExclusive => HoldersFound
<1> SUFFICES ASSUME TypeInv, ContainerExclusive, NEW c \in Containers
             PROVE  HolderFound(c)
  BY DEF HoldersFound
<1> USE DEF TypeInv, TypeOK
<1>1. pool[c] \in Nat /\ \A t \in Callers : held[t][c] \in Nat
  OBVIOUS
<1> HIDE DEF TypeInv, TypeOK
<1>2. pool[c] > 0 => HolderOf(c) = Free
  BY DEF HolderOf
<1>3. ASSUME NEW t \in Callers, held[t][c] > 0 PROVE HolderOf(c) = t
  <2>1. ~(pool[c] > 0)
    BY <1>1, <1>3 DEF ContainerExclusive
  <2>2. \A x \in Callers : held[x][c] > 0 => x = t
    BY <1>3 DEF ContainerExclusive
  <2>3. QED
    BY <1>3, <2>1, <2>2 DEF HolderOf
<1>4. ASSUME NEW s \in Slivers, s.res = c, Current(s)
      PROVE  HolderOf(c) = s.slice.urn
  <2>1. ~(pool[c] > 0) /\ \A t \in Callers : ~(held[t][c] > 0)
    BY <1>1, <1>4 DEF ContainerExclusive, Current
  <2>2. \A r \in Slivers : r.res = c /\ Leased(r) /\ Reachable(r) => r = s
    BY <1>4 DEF ContainerExclusive, Current
  <2>3. (CHOOSE r \in Slivers : r.res = c /\ Leased(r) /\ Reachable(r)) = s
    BY <1>4, <2>2 DEF Current
  <2>4. QED
    BY <1>4, <2>1, <2>3 DEF HolderOf, Current
<1>5. \/ pool[c] > 0
      \/ \E t \in Callers : held[t][c] > 0
      \/ \E s \in Slivers : s.res = c /\ Current(s)
      \/ HolderOf(c) = Lost
  BY DEF HolderOf, Current
<1>6. QED
  BY <1>2, <1>3, <1>4, <1>5 DEF HolderFound

\* The two states of a step, as the proofs below use them.
Step == /\ TypeInv /\ TypeInv' /\ ContainerExclusive /\ ContainerExclusive'
        /\ HoldersFound /\ HoldersFound'

\* A container keeps its holder if nothing about it changes.
LEMMA KeepsHolder ==
  ASSUME Step, NEW c \in Containers, pool'[c] = pool[c],
         \A t \in Callers : held'[t][c] = held[t][c],
         \A s \in Slivers : s.res = c => (Current(s)' <=> Current(s))
  PROVE  HolderOf(c)' = HolderOf(c)
<1>1. HolderFound(c) /\ HolderFound(c)'
  BY DEF Step, HoldersFound
<1>2. CASE pool[c] > 0
  BY <1>1, <1>2 DEF HolderFound
<1>3. CASE \E t \in Callers : held[t][c] > 0
  BY <1>1, <1>3 DEF HolderFound
<1>4. CASE \E s \in Slivers : s.res = c /\ Current(s)
  BY <1>1, <1>4 DEF HolderFound
<1>5. CASE ~(pool[c] > 0) /\ ~(\E t \in Callers : held[t][c] > 0)
           /\ ~(\E s \in Slivers : s.res = c /\ Current(s))
  BY <1>1, <1>5 DEF HolderFound
<1>6. QED
  BY <1>2, <1>3, <1>4, <1>5

\* A step that changes no pool, no resources list and no current sliver.
LEMMA StuttersMap ==
  ASSUME Step, UNCHANGED <<pool, held>>,
         \A s \in Slivers : (Current(s)' <=> Current(s))
  PROVE  UNCHANGED [c \in Containers |-> HolderOf(c)]
<1>1. \A c \in Containers : HolderOf(c)' = HolderOf(c)
  BY KeepsHolder
<1>2. QED
  BY <1>1

\* What a step does to the lease, and why it loses what it loses.
Mapped == [Lease!Next]_[c \in Containers |-> HolderOf(c)] /\ LossExplained

\* Most steps keep the holders, or change one of them to another but Lost.
LEMMA StutterIsMapped ==
  ASSUME UNCHANGED [c \in Containers |-> HolderOf(c)]
  PROVE  Mapped
<1>1. \A c \in Containers : HolderOf(c)' = HolderOf(c)
  OBVIOUS
<1>2. LossExplained
  BY <1>1 DEF LossExplained
<1>3. QED
  BY <1>2 DEF Mapped

LEMMA HandOverIsMapped ==
  ASSUME \/ \E t \in Callers, c \in Containers :
               Lease!Take(t, c) \/ \E u \in URNs : Lease!Grant(t, c, u)
         \/ \E c \in Containers : Lease!GiveBack(c)
  PROVE  Mapped
<1>1. PICK c \in Containers, x \in Callers \cup URNs \cup {Free} :
        [d \in Containers |-> HolderOf(d)]'
          = [[d \in Containers |-> HolderOf(d)] EXCEPT ![c] = x]
  BY DEF Lease!Take, Lease!Grant, Lease!GiveBack
<1>2. \A d \in Containers : HolderOf(d)' = IF d = c THEN x ELSE HolderOf(d)
  BY <1>1
<1>3. LossExplained
  BY <1>2, HolderAssumption DEF LossExplained
<1>4. QED
  BY <1>3 DEF Mapped, Lease!Next

\* A container is held by a call only if it is in the call's resources.
LEMMA CallHolds ==
  ASSUME TypeInv, NEW c \in Containers, HolderFound(c), NEW t \in Callers,
         HolderOf(c) = t
  PROVE  held[t][c] > 0
<1>1. t # Free /\ t # Lost
  BY HolderAssumption
<1>2. ~(pool[c] > 0)
  BY <1>1 DEF HolderFound
<1>3. \A s \in Slivers : s.slice.urn \in URNs
  BY DEF Slivers, SliceObjs
<1>4. ~(\E s \in Slivers : s.res = c /\ Current(s))
  BY <1>3, HolderAssumption DEF HolderFound
<1>5. PICK x \in Callers : held[x][c] > 0
  BY <1>1, <1>2, <1>4 DEF HolderFound
<1>6. x = t
  BY <1>5 DEF HolderFound
<1>7. QED
  BY <1>5, <1>6

\* A call that returns loses what it has matched.
LEMMA ReturnMaps ==
  ASSUME Step, NEW t \in Callers, UNCHANGED pool,
         held' = [held EXCEPT ![t] = NoneHeld],
         pc[t] # "add", pc'[t] = "idle",
         \A s \in Slivers : (Current(s)' <=> Current(s))
  PROVE  Mapped
<1>1. \A x \in Callers, c \in Containers :
         held'[x][c] = IF x = t THEN 0 ELSE held[x][c]
  BY DEF Step, TypeInv, TypeOK, NoneHeld
<1>2. ASSUME NEW c \in Containers, HolderOf(c) = t PROVE HolderOf(c)' = Lost
  <2>1. HolderFound(c) /\ HolderFound(c)'
    BY DEF Step, HoldersFound
  <2>2. held[t][c] > 0
    BY <1>2, <2>1, CallHolds DEF Step
  <2>3. pool[c] = 0 /\ \A x \in Callers : x # t => ~(held[x][c] > 0)
    BY <2>2 DEF Step, ContainerExclusive
  <2>4. \A s \in Slivers : s.res = c => ~Current(s)
    BY <2>2 DEF Step, ContainerExclusive, Current
  <2>5. ~(pool'[c] > 0) /\ \A x \in Callers : ~(held'[x][c] > 0)
    BY <1>1, <2>3
  <2>6. QED
    BY <2>1, <2>4, <2>5 DEF HolderFound
<1>3. ASSUME NEW c \in Containers, HolderOf(c) # t
      PROVE  HolderOf(c)' = HolderOf(c)
  <2>1. HolderFound(c)
    BY DEF Step, HoldersFound
  <2>2. held[t][c] \in Nat /\ ~(held[t][c] > 0)
    BY <1>3, <2>1 DEF HolderFound, Step, TypeInv, TypeOK
  <2>3. \A x \in Callers : held'[x][c] = held[x][c]
    BY <1>1, <2>2
  <2>4. QED
    BY <2>3, KeepsHolder
<1>4. Lease!Abandon(t)
  BY <1>2, <1>3 DEF Lease!Abandon
<1>5. LossExplained
  BY <1>3 DEF LossExplained
<1>6. QED
  BY <1>4, <1>5 DEF Mapped, Lease!Next

\* matchResource takes a container from its pool for the call.
LEMMA TakeMaps ==
  ASSUME Step, NEW t \in Callers, NEW S \in SUBSET Containers, TakeFrom(t, S),
         \A s \in Slivers : (Current(s)' <=> Current(s))
  PROVE  Mapped
<1>1. PICK c \in S :
        /\ pool[c] > 0
        /\ pool' = [pool EXCEPT ![c] = @ - 1]
        /\ held' = [held EXCEPT ![t][c] = @ + 1]
  BY DEF TakeFrom
<1>2. c \in Containers /\ HolderFound(c) /\ HolderFound(c)'
  BY <1>1 DEF Step, HoldersFound
<1>3. held[t][c] \in Nat /\ held'[t][c] = held[t][c] + 1
  BY <1>1, <1>2 DEF Step, TypeInv, TypeOK
<1>4. HolderOf(c) = Free /\ HolderOf(c)' = t
  BY <1>1, <1>2, <1>3 DEF HolderFound
<1>5. ASSUME NEW d \in Containers, d # c PROVE HolderOf(d)' = HolderOf(d)
  <2>1. pool'[d] = pool[d] /\ \A x \in Callers : held'[x][d] = held[x][d]
    BY <1>1, <1>5 DEF Step, TypeInv, TypeOK
  <2>2. QED
    BY <2>1, KeepsHolder
<1>6. Lease!Take(t, c)
  BY <1>2, <1>4, <1>5 DEF Lease!Take
<1>7. QED
  BY <1>2, <1>6, HandOverIsMapped

\* add_resource gives the slice one of the containers of the call.
LEMMA AddMaps ==
  ASSUME Step, NEW t \in Callers, AddResource(t)
  PROVE  Mapped
<1> USE DEF Step, TypeInv, TypeOK
<1>1. PICK s \in Slivers :
        /\ s.slice = target[t]
        /\ held[t][s.res] > 0
        /\ FreshSliver(s)
        /\ slivers' = [slivers EXCEPT ![target[t]] = @ \cup {s}]
        /\ held' = [held EXCEPT ![t][s.res] = @ - 1]
  BY DEF AddResource
<1>2. pc[t] = "add" /\ UNCHANGED <<pool, slices, pc, target, deleterVars>>
  BY DEF AddResource
<1> DEFINE c == s.res
<1>3. c \in Containers /\ s.slice \in SliceObjs /\ s.slice.urn \in URNs
  BY DEF Slivers, SliceObjs
<1>4. \A r \in Slivers : Reachable(r)' = Reachable(r)
  BY <1>2 DEF Reachable, deleterVars
<1>5. \A r \in Slivers : r # s => (Current(r)' <=> Current(r))
  <2>1. \A r \in Slivers : Returned(r)' = Returned(r)
    BY <1>2 DEF Returned, deleterVars
  <2>2. \A r \in Slivers : r # s => (r \in slivers'[r.slice] <=> r \in slivers[r.slice])
    BY <1>1, <1>3 DEF Slivers
  <2>3. QED
    BY <1>4, <2>1, <2>2 DEF Current, Leased
<1>6. Current(s)'
  <2>1. s \in slivers'[s.slice] /\ Reachable(s)'
    BY <1>1, <1>2, <1>3 DEF Reachable
  <2>2. ~Returned(s)'
    BY <1>1, <1>2 DEF Returned, FreshSliver, deleterVars
  <2>3. QED
    BY <2>1, <2>2 DEF Current, Leased
<1>7. HolderFound(c) /\ HolderFound(c)'
  BY <1>3 DEF HoldersFound
<1>8. HolderOf(c) = t /\ HolderOf(c)' = s.slice.urn
  BY <1>1, <1>6, <1>7 DEF HolderFound
<1>9. ASSUME NEW d \in Containers, d # c PROVE HolderOf(d)' = HolderOf(d)
  <2>1. pool'[d] = pool[d] /\ \A x \in Callers : held'[x][d] = held[x][d]
    BY <1>1, <1>2, <1>9
  <2>2. \A r \in Slivers : r.res = d => (Current(r)' <=> Current(r))
    BY <1>5, <1>9
  <2> HIDE DEF Step, c
  <2>3. QED
    BY <2>1, <2>2, KeepsHolder
<1> HIDE DEF Step, TypeInv, TypeOK, c
<1>10. Lease!Grant(t, c, s.slice.urn)
  BY <1>3, <1>8, <1>9 DEF Lease!Grant
<1>11. QED
  BY <1>3, <1>10, HandOverIsMapped

\* reset gives a container back.
LEMMA ResetMaps ==
  ASSUME Step, JobInv, NEW w \in Deleters, ResetResource(w)
  PROVE  Mapped
<1> USE DEF Step, TypeInv, TypeOK
<1>0. cur[w] \in Slivers
  BY DEF ResetResource, LocalsOK
<1> SUFFICES ASSUME NEW s \in Slivers, s = cur[w] PROVE Mapped
  BY <1>0
<1> DEFINE c == s.res
<1>1. /\ step[w] = "reset" /\ step' = [step EXCEPT ![w] = "remove"]
      /\ pool' = [pool EXCEPT ![c] = @ + 1]
      /\ UNCHANGED <<slices, slivers, pc, target, held, todo, cur>>
  BY DEF ResetResource, callerVars
<1>2. /\ c \in Containers /\ s.slice.urn \in URNs
      /\ s \in slivers[s.slice]
  BY <1>1 DEF LocalsOK, JobInv, JobsAttached, Slivers, SliceObjs
<1>3. ~Returned(s)
  <2>1. ASSUME NEW v \in Deleters, step[v] = "remove", cur[v] = s PROVE FALSE
    <3>1. s \in JobSlivers(w) /\ s \in JobSlivers(v)
      BY <1>2, <2>1, NoneAssumption DEF JobSlivers
    <3>2. w = v
      BY <3>1 DEF JobInv, JobsDisjoint
    <3>3. QED
      BY <1>1, <2>1, <3>2
  <2>2. QED
    BY <2>1 DEF Returned
<1>4. Current(s)
  BY <1>1, <1>2, <1>3 DEF Current, Leased, Reachable
<1>5. HolderFound(c) /\ HolderFound(c)'
  BY <1>2 DEF HoldersFound
<1>6. pool'[c] > 0
  BY <1>1, <1>2
<1>7. HolderOf(c) = s.slice.urn /\ HolderOf(c)' = Free
  BY <1>2, <1>4, <1>5, <1>6 DEF HolderFound
<1>8. \A r \in Slivers : r # s => (Current(r)' <=> Current(r))
  <2>1. \A r \in Slivers : r # s => Returned(r)' = Returned(r)
    BY <1>1 DEF Returned
  <2>2. \A r \in Slivers : r # s => Reachable(r)' = Reachable(r)
    BY <1>1 DEF Reachable
  <2>3. QED
    BY <1>1, <2>1, <2>2 DEF Current, Leased
<1>9. ASSUME NEW d \in Containers, d # c PROVE HolderOf(d)' = HolderOf(d)
  <2>1. pool'[d] = pool[d] /\ \A x \in Callers : held'[x][d] = held[x][d]
    BY <1>1, <1>9
  <2>2. \A r \in Slivers : r.res = d => (Current(r)' <=> Current(r))
    BY <1>8, <1>9
  <2> HIDE DEF Step, c
  <2>3. QED
    BY <2>1, <2>2, KeepsHolder
<1> HIDE DEF Step, TypeInv, TypeOK, c
<1>10. Lease!GiveBack(c)
  BY <1>2, <1>7, <1>9 DEF Lease!GiveBack
<1>11. QED
  BY <1>2, <1>10, HandOverIsMapped

\* An assignment to AM._slices[u] loses the containers of the slice object that
\* was there, unless somebody still reaches it.
LEMMA OverwriteMaps ==
  ASSUME Step, UNCHANGED <<pool, held>>, NEW u \in URNs,
         \A s \in Slivers : Current(s)' => Current(s),
         \A s \in Slivers : Current(s) /\ ~Current(s)' =>
            /\ s.slice.urn = u
            /\ slices[u] = s.slice /\ slices'[u] # s.slice
  PROVE  Mapped
<1> DEFINE C == {c \in Containers : HolderOf(c) = u /\ HolderOf(c)' # u}
<1>1. ASSUME NEW c \in C PROVE HolderOf(c)' = Lost
  <2>1. c \in Containers /\ HolderOf(c) = u /\ HolderOf(c)' # u
    OBVIOUS
  <2>2. HolderFound(c) /\ HolderFound(c)'
    BY <2>1 DEF Step, HoldersFound
  <2>3. ~(pool[c] > 0) /\ ~(\E t \in Callers : held[t][c] > 0)
    BY <2>1, <2>2, HolderAssumption DEF HolderFound
  <2>4. \A s \in Slivers : ~(s.res = c /\ Current(s)')
    BY <2>1, <2>2 DEF HolderFound
  <2>5. QED
    BY <2>2, <2>3, <2>4 DEF HolderFound
<1>2. ASSUME NEW c \in Containers, c \notin C PROVE HolderOf(c)' = HolderOf(c)
  <2>1. CASE HolderOf(c) = u
    BY <1>2, <2>1
  <2>2. CASE HolderOf(c) # u
    <3>1. HolderFound(c)
      BY DEF Step, HoldersFound
    <3>2. \A s \in Slivers : s.res = c => (Current(s)' <=> Current(s))
      <4>1. \A s \in Slivers : s.res = c /\ Current(s) => s.slice.urn # u
        BY <2>2, <3>1 DEF HolderFound
      <4>2. QED
        BY <4>1
    <3>3. QED
      BY <3>2, KeepsHolder
  <2>3. QED
    BY <2>1, <2>2
<1>3. C \in SUBSET {c \in Containers : HolderOf(c) = u}
  OBVIOUS
<1>4. [c \in Containers |-> HolderOf(c)']
        = [c \in Containers |-> IF c \in C THEN Lost ELSE HolderOf(c)]
  BY <1>1, <1>2
<1>5. [c \in Containers |-> IF c \in C THEN Lost ELSE HolderOf(c)]
        = [c \in Containers |-> IF c \in C THEN Lost
                                ELSE [d \in Containers |-> HolderOf(d)][c]]
  OBVIOUS
<1>6. C \in SUBSET {c \in Containers : [d \in Containers |-> HolderOf(d)][c] = u}
  BY <1>3
<1>7. ASSUME NEW c \in Containers, HolderOf(c) # Lost, HolderOf(c)' = Lost
      PROVE  \E s \in Slivers : /\ s.res = c /\ Leased(s)
                                /\ slices[s.slice.urn] = s.slice
                                /\ slices'[s.slice.urn] # s.slice
  <2>1. HolderFound(c) /\ HolderFound(c)'
    BY DEF Step, HoldersFound
  <2>2. ~(pool[c] > 0) /\ ~(\E t \in Callers : held[t][c] > 0)
    BY <1>7, <2>1, HolderAssumption DEF HolderFound
  <2>3. PICK s \in Slivers : s.res = c /\ Current(s)
    BY <1>7, <2>1, <2>2 DEF HolderFound
  <2>4. s.slice.urn \in URNs
    BY DEF Slivers, SliceObjs
  <2>5. ~Current(s)'
    BY <1>7, <2>1, <2>3, <2>4, HolderAssumption DEF HolderFound
  <2>6. QED
    BY <2>3, <2>5 DEF Current
<1> HIDE DEF C
<1>8. Lease!Forget(u)
  BY <1>4, <1>5, <1>6 DEF Lease!Forget
<1>9. LossExplained
  BY <1>7 DEF LossExplained
<1>10. QED
  BY <1>8, <1>9 DEF Mapped, Lease!Next

\* What a call does: it takes and grants containers, loses them when it returns
\* early, and may put its slice object in the place of another.
LEMMA CallMaps ==
  ASSUME Step, NEW t \in Callers,
         (\E r \in Requests : Allocate(t, r)) \/ CallStep(t)
  PROVE  Mapped
<1> USE DEF Step, TypeInv, TypeOK
<1>1. ASSUME UNCHANGED <<slices, slivers, step, todo, cur>>,
             pc[t] # "add", pc'[t] # "add",
             \A x \in Callers \ {t} : pc'[x] = pc[x] /\ target'[x] = target[x]
      PROVE  \A s \in Slivers : Current(s)' <=> Current(s)
  <2>1. \A s \in Slivers : Reachable(s)' <=> Reachable(s)
    BY <1>1 DEF Reachable
  <2>2. QED
    BY <1>1, <2>1 DEF Current, Leased, Returned
<1>2. ASSUME \A s \in Slivers : Current(s)' <=> Current(s), UNCHANGED pool,
             \/ UNCHANGED held
             \/ /\ held' = [held EXCEPT ![t] = NoneHeld]
                /\ pc[t] # "add" /\ pc'[t] = "idle"
      PROVE  Mapped
  <2> HIDE DEF Step, TypeInv, TypeOK
  <2>1. CASE UNCHANGED held
    BY <1>2, <2>1, StuttersMap, StutterIsMapped
  <2>2. CASE /\ held' = [held EXCEPT ![t] = NoneHeld]
             /\ pc[t] # "add" /\ pc'[t] = "idle"
    BY <1>2, <2>2, ReturnMaps
  <2>3. QED
    BY <1>2, <2>1, <2>2
<1>3. CASE \/ \E r \in Requests : Allocate(t, r)
           \/ AcquireLock(t) \/ AbortAllocation(t) \/ ReleaseLock(t)
           \/ RefuseExisting(t)
  <2>1. /\ UNCHANGED <<pool, slices, slivers, step, todo, cur>>
        /\ pc[t] # "add"
        /\ \/ UNCHANGED held
           \/ held' = [held EXCEPT ![t] = NoneHeld] /\ pc'[t] = "idle"
    BY <1>3 DEF Allocate, AcquireLock, AbortAllocation, TooBig, BadNode,
                PoolsEmpty, AtFlawedNode,
                ReleaseLock, RefuseExisting, Return, shared, deleterVars
  <2>2. \E v \in {"idle", "acquire", "proxy", "match", "lookup"} :
           pc' = [pc EXCEPT ![t] = v]
    BY <1>3 DEF Allocate, AcquireLock, AbortAllocation, ReleaseLock,
                RefuseExisting, Return
  <2>3. UNCHANGED target \/ target' = [target EXCEPT ![t] = None]
    BY <1>3 DEF Allocate, AcquireLock, AbortAllocation, ReleaseLock,
                RefuseExisting, Return
  <2>4. /\ pc'[t] # "add"
        /\ \A x \in Callers \ {t} : pc'[x] = pc[x] /\ target'[x] = target[x]
    BY <2>2, <2>3
  <2>5. QED
    BY <1>1, <1>2, <2>1, <2>4
<1>4. CASE MatchProxy(t) \/ MatchNode(t)
  <2>1. PICK S \in SUBSET Containers : TakeFrom(t, S)
    BY <1>4, ConstantsAssumption DEF MatchProxy, MatchNode
  <2>2. UNCHANGED <<slices, slivers, target, step, todo, cur>>
    BY <1>4 DEF MatchProxy, MatchNode, deleterVars
  <2>3. \A s \in Slivers : Current(s)' <=> Current(s)
    <3>1. pc[t] # "add" /\ pc'[t] # "add" /\ \A x \in Callers \ {t} : pc'[x] = pc[x]
      BY <1>4 DEF MatchProxy, MatchNode
    <3>2. QED
      BY <1>1, <2>2, <3>1
  <2>4. QED
    BY <2>1, <2>3, TakeMaps
<1>5. CASE NewSlice(t)
  <2>1. PICK o \in SliceObjs :
          /\ FreshSlice(o)
          /\ target' = [target EXCEPT ![t] = o]
          /\ slivers' = [slivers EXCEPT ![o] = {}]
    BY <1>5 DEF NewSlice
  <2>2. /\ pc[t] # "add" /\ pc' = [pc EXCEPT ![t] = "add"]
        /\ UNCHANGED <<pool, slices, held, step, todo, cur>>
    BY <1>5 DEF NewSlice, deleterVars
  <2>3. ASSUME NEW s \in Slivers, s.slice = o PROVE ~Current(s) /\ ~Current(s)'
    <3>1. ~Current(s)'
      BY <2>1, <2>3 DEF Current, Leased
    <3>2. s.slice.urn \in URNs
      BY DEF Slivers, SliceObjs
    <3>3. ~Reachable(s)
      BY <2>1, <2>3, <3>2, NoneAssumption DEF FreshSlice, Reachable, JobSlivers
    <3>4. QED
      BY <3>1, <3>3 DEF Current
  <2>4. ASSUME NEW s \in Slivers, s.slice # o PROVE Current(s)' <=> Current(s)
    <3>1. s.slice \in SliceObjs
      BY DEF Slivers
    <3>2. slivers'[s.slice] = slivers[s.slice]
      BY <2>1, <2>4, <3>1
    <3>3. Reachable(s)' <=> Reachable(s)
      BY <2>1, <2>2, <2>4 DEF Reachable
    <3>4. QED
      BY <2>2, <3>2, <3>3 DEF Current, Leased, Returned
  <2>5. QED
    BY <1>2, <2>2, <2>3, <2>4
<1>6. CASE ExistingSlice(t)
  <2> DEFINE o == slices[req[t].urn]
  <2>1. /\ pc[t] = "lookup" /\ o # None /\ target' = [target EXCEPT ![t] = o]
        /\ \E v \in {"add", "refuse"} : pc' = [pc EXCEPT ![t] = v]
        /\ UNCHANGED <<pool, slices, slivers, held, step, todo, cur>>
    BY <1>6 DEF ExistingSlice, shared, deleterVars
  <2>2. req[t].urn \in URNs
    BY <2>1 DEF LocalsOK, Requests
  <2>3. slices[o.urn] = o
    BY <2>1, <2>2 DEF ListsOK
  <2>4. \A x \in Callers \ {t} : pc'[x] = pc[x] /\ target'[x] = target[x]
    BY <2>1
  <2>5. target'[t] = o /\ pc[t] # "add"
    BY <2>1
  <2> HIDE DEF o, Step, TypeInv, TypeOK
  <2>6. \A s \in Slivers : Reachable(s)' <=> Reachable(s)
    BY <2>1, <2>3, <2>4, <2>5 DEF Reachable
  <2>7. \A s \in Slivers : Current(s)' <=> Current(s)
    BY <2>1, <2>6 DEF Current, Leased, Returned
  <2>8. QED
    BY <1>2, <2>1, <2>7
<1>7. CASE AddResource(t)
  BY <1>7, AddMaps
<1>8. CASE PublishSlice(t)
  <2> DEFINE u == req[t].urn
  <2>1. /\ pc[t] = "add" /\ pc' = [pc EXCEPT ![t] = "idle"]
        /\ held[t] = NoneHeld /\ held' = [held EXCEPT ![t] = NoneHeld]
        /\ slices' = [slices EXCEPT ![u] = target[t]]
        /\ target' = [target EXCEPT ![t] = None]
        /\ UNCHANGED <<pool, slivers, step, todo, cur>>
    BY <1>8 DEF PublishSlice, Return, deleterVars
  <2>2. u \in URNs /\ target[t] \in SliceObjs /\ target[t].urn = u
    BY <2>1 DEF LocalsOK, Requests
  <2>3. UNCHANGED held
    BY <2>1
  <2>4. \A x \in Callers \ {t} : pc'[x] = pc[x] /\ target'[x] = target[x]
    BY <2>1
  <2>5. slices'[u] = target[t] /\ \A v \in URNs : v # u => slices'[v] = slices[v]
    BY <2>1, <2>2
  <2>6. pc'[t] # "add" /\ \A s \in Slivers : s.slice.urn \in URNs
    BY <2>1 DEF Slivers, SliceObjs
  <2> HIDE DEF u, Step, TypeInv, TypeOK
  <2>7. \A s \in Slivers : Reachable(s)' => Reachable(s)
    BY <2>1, <2>2, <2>4, <2>5, <2>6 DEF Reachable
  <2>8. \A s \in Slivers : Reachable(s) /\ ~Reachable(s)' =>
          s.slice.urn = u /\ slices[u] = s.slice /\ slices'[u] # s.slice
    BY <2>1, <2>2, <2>4, <2>5, <2>6 DEF Reachable
  <2>9. /\ \A s \in Slivers : Current(s)' => Current(s)
        /\ \A s \in Slivers : Current(s) /\ ~Current(s)' =>
              s.slice.urn = u /\ slices[u] = s.slice /\ slices'[u] # s.slice
    BY <2>1, <2>7, <2>8 DEF Current, Leased, Returned
  <2>10. QED
    BY <2>1, <2>2, <2>3, <2>9, OverwriteMaps
<1>9. QED
  BY <1>3, <1>4, <1>5, <1>6, <1>7, <1>8 DEF CallStep

\* What a deletion does: only reset and the end of a slice concern the holders.
LEMMA DeletionMaps ==
  ASSUME Step, JobInv, NEW w \in Deleters,
         \/ \E u \in URNs : Delete(w, u)
         \/ ExpireCheck(w) \/ ExpireAcquire(w) \/ RunStep(w)
  PROVE  Mapped
<1> USE DEF Step, TypeInv, TypeOK
\* The work list changes, but not what is reached through it or otherwise.
<1>1. ASSUME UNCHANGED <<pool, held, slices, slivers, pc, target>>,
             step[w] # "remove", step'[w] # "remove",
             \A v \in Deleters \ {w} :
                step'[v] = step[v] /\ todo'[v] = todo[v] /\ cur'[v] = cur[v],
             \A s \in Slivers : slices[s.slice.urn] # s.slice =>
                ((s \in todo'[w] \/ (step'[w] = "reset" /\ cur'[w] = s)) <=>
                 (s \in todo[w] \/ (step[w] = "reset" /\ cur[w] = s)))
      PROVE  Mapped
  <2> HIDE DEF Step, TypeInv, TypeOK
  <2>1. \A s \in Slivers : Reachable(s)' <=> Reachable(s)
    BY <1>1 DEF Reachable
  <2>2. \A s \in Slivers : Returned(s)' <=> Returned(s)
    BY <1>1 DEF Returned
  <2>3. \A s \in Slivers : Current(s)' <=> Current(s)
    BY <1>1, <2>1, <2>2 DEF Current, Leased
  <2>4. QED
    BY <1>1, <2>3, StuttersMap, StutterIsMapped
<1>2. CASE \E u \in URNs : Delete(w, u)
  <2>0. PICK u \in URNs : Delete(w, u)
    BY <1>2
  <2>1. PICK S \in SUBSET slivers[slices[u]] :
          /\ slices[u] # None
          /\ todo' = [todo EXCEPT ![w] = S]
          /\ step[w] = "idle" /\ step' = [step EXCEPT ![w] = "next"]
          /\ UNCHANGED <<shared, callerVars, cur>>
    BY <2>0 DEF Delete
  <2>2. todo[w] = {} /\ \A s \in S : slices[s.slice.urn] = s.slice
    BY <2>1 DEF LocalsOK, ListsOK
  <2>3. QED
    BY <1>1, <2>1, <2>2 DEF shared, callerVars
<1>3. CASE ExpireCheck(w)
  BY <1>1, <1>3 DEF ExpireCheck, shared, callerVars
<1>4. CASE ExpireAcquire(w)
  <2>1. /\ step[w] = "acquire" /\ step' = [step EXCEPT ![w] = "next"]
        /\ todo' = [todo EXCEPT ![w] = Due]
        /\ UNCHANGED <<pool, slices, slivers, callerVars, cur>>
    BY <1>4 DEF ExpireAcquire
  <2>2. todo[w] = {} /\ \A s \in Due : slices[s.slice.urn] = s.slice
    BY <2>1 DEF LocalsOK, Due
  <2>3. QED
    BY <1>1, <2>1, <2>2 DEF callerVars
<1>5. CASE Deprovision(w)
  <2>1. PICK s \in todo[w] :
          /\ cur' = [cur EXCEPT ![w] = s]
          /\ todo' = [todo EXCEPT ![w] = @ \ {s}]
          /\ step[w] = "next" /\ step' = [step EXCEPT ![w] = "reset"]
          /\ UNCHANGED <<pool, slices, slivers, callerVars>>
    BY <1>5 DEF Deprovision
  <2>2. QED
    BY <1>1, <2>1 DEF callerVars
<1>6. CASE ResetResource(w)
  BY <1>6, ResetMaps
<1>7. CASE RemoveSliver(w)
  <2>1. /\ step[w] = "remove" /\ cur[w] \in Slivers
        /\ slivers' = [slivers EXCEPT ![cur[w].slice] = @ \ {cur[w]}]
        /\ UNCHANGED <<pool, slices, callerVars, todo, cur>>
    BY <1>7 DEF RemoveSliver, LocalsOK
  <2>2. /\ step'[w] \in {"check", "next"}
        /\ \A v \in Deleters \ {w} : step'[v] = step[v]
    BY <1>7 DEF RemoveSliver
  <2>3. \A s \in Slivers : Reachable(s)' <=> Reachable(s)
    BY <2>1, <2>2 DEF Reachable, callerVars
  <2>4. \A s \in Slivers : s.slice \in SliceObjs
    BY DEF Slivers
  <2>5. \A s \in Slivers : s = cur[w] => ~Leased(s) /\ ~Leased(s)'
    BY <2>1, <2>4 DEF Leased, Returned
  <2>6. \A s \in Slivers : s # cur[w] => (Leased(s)' <=> Leased(s))
    BY <2>1, <2>2, <2>4 DEF Leased, Returned
  <2>7. \A s \in Slivers : Current(s)' <=> Current(s)
    BY <2>3, <2>5, <2>6 DEF Current
  <2>8. UNCHANGED <<pool, held>>
    BY <2>1 DEF callerVars
  <2> HIDE DEF Step, TypeInv, TypeOK
  <2>9. QED
    BY <2>7, <2>8, StuttersMap, StutterIsMapped
<1>8. CASE RemoveRaises(w) \/ ForgetRaises(w)
  <2>1. step[w] = "forget" => cur[w] \in JobSlivers(w)
    BY NoneAssumption DEF LocalsOK, JobSlivers
  <2>2. QED
    BY <1>8, <2>1 DEF RemoveRaises, ForgetRaises, JobInv, JobsAttached, JobsKnown
<1>9. CASE CheckEmpty(w)
  <2>1. /\ step[w] = "check"
        /\ \E v \in {"forget", "next"} : step' = [step EXCEPT ![w] = v]
        /\ UNCHANGED cur \/ cur' = [cur EXCEPT ![w] = None]
        /\ UNCHANGED <<shared, callerVars, todo>>
    BY <1>9 DEF CheckEmpty
  <2>2. QED
    BY <1>1, <2>1 DEF shared, callerVars
<1>10. CASE ForgetSlice(w)
  <2>1. /\ step[w] = "forget" /\ cur[w] \in Slivers
        /\ slices' = [slices EXCEPT ![cur[w].slice.urn] = None]
        /\ step' = [step EXCEPT ![w] = "next"]
        /\ UNCHANGED <<pool, slivers, callerVars, todo>>
        /\ \A v \in Deleters \ {w} : cur'[v] = cur[v]
    BY <1>10 DEF ForgetSlice, LocalsOK
  <2>2. \A s \in Slivers : s.slice \in SliceObjs /\ s.slice.urn \in URNs
    BY DEF Slivers, SliceObjs
  <2>3. PICK u \in URNs : u = cur[w].slice.urn
    BY <2>1, <2>2
  <2>4. slices'[u] = None /\ \A v \in URNs : v # u => slices'[v] = slices[v]
    BY <2>1, <2>3
  <2>5. step'[w] = "next" /\ \A v \in Deleters \ {w} : step'[v] = step[v]
    BY <2>1
  <2>6. UNCHANGED <<pc, target, todo, pool, held, slivers>>
    BY <2>1 DEF callerVars
  <2> HIDE DEF Step, TypeInv, TypeOK
  <2>7. /\ \A s \in Slivers : Reachable(s)' => Reachable(s)
        /\ \A s \in Slivers : Reachable(s) /\ ~Reachable(s)' =>
              s.slice.urn = u /\ slices[u] = s.slice /\ slices'[u] # s.slice
    BY <2>1, <2>2, <2>4, <2>5, <2>6, NoneAssumption DEF Reachable
  <2>8. \A s \in Slivers : Leased(s)' <=> Leased(s)
    BY <2>1, <2>5, <2>6 DEF Leased, Returned
  <2>9. /\ \A s \in Slivers : Current(s)' => Current(s)
        /\ \A s \in Slivers : Current(s) /\ ~Current(s)' =>
              s.slice.urn = u /\ slices[u] = s.slice /\ slices'[u] # s.slice
    BY <2>7, <2>8 DEF Current
  <2>10. QED
    BY <2>6, <2>9, OverwriteMaps
<1>11. CASE FinishRun(w)
  <2>1. /\ step[w] = "next" /\ todo[w] = {}
        /\ step' = [step EXCEPT ![w] = "idle"]
        /\ todo' = [todo EXCEPT ![w] = {}]
        /\ cur' = [cur EXCEPT ![w] = None]
        /\ UNCHANGED <<pool, slices, slivers, callerVars>>
    BY <1>11 DEF FinishRun, EndRun
  <2>2. QED
    BY <1>1, <2>1 DEF callerVars
<1>12. QED
  BY <1>2, <1>3, <1>4, <1>5, <1>6, <1>7, <1>8, <1>9, <1>10, <1>11 DEF RunStep

\* Every step of the threads and of the clock.
LEMMA NextMaps == Step /\ JobInv /\ [Next]_vars => Mapped
<1> SUFFICES ASSUME Step, JobInv, [Next]_vars PROVE Mapped
  OBVIOUS
<1>1. CASE (\E s \in Slivers : Lapse(s)) \/ UNCHANGED vars
  <2>1. UNCHANGED <<pool, held, slices, slivers, pc, target, deleterVars>>
    BY <1>1 DEF Lapse, callerVars, vars, shared
  <2>2. \A s \in Slivers : Current(s)' <=> Current(s)
    BY <2>1 DEF Current, Leased, Returned, Reachable, deleterVars
  <2>3. QED
    BY <2>1, <2>2, StuttersMap, StutterIsMapped
<1>2. QED
  BY <1>1, CallMaps, DeletionMaps DEF Next

LEMMA StepsMap == IInv /\ IInv' /\ [Next]_vars => Mapped
<1>1. TypeInv /\ ContainerExclusive => HoldersFound
  BY HoldersAreFound
<1>2. TypeInv' /\ ContainerExclusive' => HoldersFound'
  BY HoldersAreFound, PTL
<1>3. QED
  BY <1>1, <1>2, NextMaps DEF IInv, Step

LEMMA IInvAlways == ~OverlappingDeletes => (Spec => []IInv)
BY JobInvAlways, HoldersAreExclusive, PTL DEF IInv

\* ImplementsLease: as long as no two deletions work on one slice, a container
\* only changes hands from free to an Allocate call, from the call to a sliver
\* of its slice, and back to free in reset; only a call that fails and a slice
\* that is forgotten or overwritten lose one.
THEOREM LeaseImplemented == ~OverlappingDeletes => (Spec => ImplementsLease)
<1> SUFFICES ASSUME ~OverlappingDeletes PROVE Spec => ImplementsLease
  OBVIOUS
<1>1. Init => Lease!Init
  BY DEF Init, Lease!Init, HolderOf
<1>2. Spec => []IInv
  BY IInvAlways
<1>3. IInv /\ IInv' /\ [Next]_vars
        => [Lease!Next]_[c \in Containers |-> HolderOf(c)]
  BY StepsMap DEF Mapped
<1>4. QED
  BY <1>1, <1>2, <1>3, PTL DEF Spec, ImplementsLease, Lease!Spec

\* LossesExplained: ContainerLease lets any call and any slice lose what they
\* have at any time.  The code does it in two places only: a call returns early,
\* or the entry of AM._slices through which a sliver is found goes away.  In
\* particular an Allocate call that succeeds loses none of its own containers,
\* and a deletion or expiration none of a slice that it does not forget.
THEOREM LossesAreExplained == ~OverlappingDeletes => (Spec => LossesExplained)
<1> SUFFICES ASSUME ~OverlappingDeletes PROVE Spec => LossesExplained
  OBVIOUS
<1>1. Spec => []IInv
  BY IInvAlways
<1>2. IInv /\ IInv' /\ [Next]_vars => [LossExplained]_vars
  BY StepsMap DEF Mapped
<1>3. QED
  BY <1>1, <1>2, PTL DEF Spec, LossesExplained
=============================================================================
