-------------------------- MODULE StateStoreProofs --------------------------
(***************************************************************************)
(* dumpState and the restoration, for every number of threads, slices,     *)
(* containers and crashes.                                                 *)
(***************************************************************************)
EXTENDS StateStore, TLAPS

\* Which threads are about a slice, and how far a provisioning thread has come.
Local ==
  \A t \in Threads :
    /\ pc[t] \in {"idle", "publish", "remove"} => next[t] = "idle"
    /\ pc[t] \in {"setup", "finish"} => next[t] = "finish"
    /\ pc[t] \in {"publish", "remove"} =>
         /\ on[t] # None
         /\ \A s \in Threads : on[s] = on[t] => s = t \/ next[s] = "finish"
    /\ pc[t] = "publish" => took[t] # None /\ slices[on[t]] = None
    /\ next[t] = "finish" /\ on[t] # None =>
         /\ slices[on[t]] # None
         /\ pc[t] # "setup" => slices[on[t]][2] \in Up
    /\ am = "down" => pc[t] = "idle"

TypeInv == StoreTypeOK /\ Local

\* One of the two files is whole, or about to be.
CopyInv ==
  /\ \A t \in Threads : pc[t] \in {"copy", "end"} => tmp.loads = Whole
  /\ am = "up" => file.loads = Whole \/ \E t \in Threads : pc[t] = "end"

\* A thread that will dump what there is now, or has had a change in between.
WillDump(t) == pc[t] \in {"remove", "acquire", "agg"}

PastSetup(u) ==
  \E w \in Threads : next[w] = "finish" /\ pc[w] # "setup" /\ on[w] = u

NearReady(u) ==
  slices[u] # None /\ (slices[u][2] \in {"ready_busy", "ready"} \/ PastSetup(u))

SameAgg(f) == f.master = master /\ agg \subseteq f.agg
SameSliver(f, u) ==
  /\ slices[u] = None <=> f.slices[u] = None
  /\ slices[u] # None => f.slices[u][1] = slices[u][1]
  /\ NearReady(u) => f.slices[u][2] \in Up
SameSlices(f) == \A u \in Slices : SameSliver(f, u)

\* The file has what is in memory, or the dump that is being made, or one that
\* will be.
DumpInv ==
  am # "down" =>
    \/ \E t \in Threads : WillDump(t)
    \/ lock = None /\ file.loads = Whole /\ SameAgg(file) /\ SameSlices(file)
    \/ /\ lock # None /\ SameAgg(tmp)
       /\ pc[lock] \in {"close", "copy", "end"} => SameSlices(tmp)

\* A change in the middle of a dump is one of a thread that will dump.
ChangeInv ==
  \A t \in Threads : pc[t] \in {"slices", "close"} /\ mutated =>
    \E s \in Threads : pc[s] \in {"remove", "acquire"}

Inv == TypeInv /\ CopyInv /\ DumpInv /\ ChangeInv

-----------------------------------------------------------------------------
LEMMA DumpIsDump ==
  ASSUME NEW a \in SUBSET Containers, NEW m \in Masters,
         NEW s \in [Slices -> Slivers \cup {None}], NEW n \in 0..Whole
  PROVE  Dump(a, m, s, n) \in Dumps
BY DEF Dump, Dumps

LEMMA DumpFields ==
  ASSUME NEW f \in Dumps
  PROVE  /\ f.agg \in SUBSET Containers /\ f.master \in Masters
         /\ f.slices \in [Slices -> Slivers \cup {None}] /\ f.loads \in 0..Whole
BY DEF Dumps

LEMMA NoSlicesType == NoSlices \in [Slices -> Slivers \cup {None}]
BY DEF NoSlices

\* A sliver is a pair, of which SetOp changes the second component.
LEMMA SetOpType ==
  ASSUME StoreTypeOK, NEW u \in Slices, slices[u] # None, NEW op \in Ops, SetOp(u, op)
  PROVE  /\ slices' \in [Slices -> Slivers \cup {None}]
         /\ slices'[u] # None /\ slices'[u][1] = slices[u][1] /\ slices'[u][2] = op
         /\ \A v \in Slices : v # u => slices'[v] = slices[v]
         /\ \A v \in Slices : slices'[v] = None <=> slices[v] = None
<1>1. slices[u] \in Containers \X Ops
  BY DEF StoreTypeOK, Slivers
<1>2. <<slices[u][1], op>> \in Slivers /\ <<slices[u][1], op>> # None
  BY <1>1, StoreAssumption DEF Slivers
<1>3. QED
  BY <1>1, <1>2 DEF SetOp, StoreTypeOK

LEMMA InitType == Init => TypeInv
<1> SUFFICES ASSUME Init PROVE TypeInv
  OBVIOUS
<1>1. 0 \in Masters
  BY StoreAssumption DEF Masters
<1>2. tmp \in Dumps /\ file \in Dumps
  BY <1>1, DumpIsDump, NoSlicesType DEF Init, Whole
<1>3. StoreTypeOK
  BY <1>1, <1>2, NoSlicesType, StoreAssumption DEF Init, StoreTypeOK, Places, InDump
<1>4. Local
  BY DEF Init, Local
<1>5. QED
  BY <1>3, <1>4 DEF TypeInv

\* Going through dumpState, or out of it, changes nothing about the slices.
LEMMA MoveLocal ==
  ASSUME TypeInv, NEW t \in Threads, pc[t] \in {"acquire"} \cup InDump,
         NEW place \in {"acquire", next[t]} \cup InDump,
         Goto(t, place), UNCHANGED <<slices, next, on, took>>, am' \in {am, "up"}
  PROVE  Local'
<1>1. pc[t] \notin {"idle", "publish", "remove", "setup", "finish"}
  BY DEF InDump
<1>2. place \notin {"publish", "remove", "setup"}
  BY DEF InDump, TypeInv, StoreTypeOK
<1>3. \A s \in Threads : pc'[s] = IF s = t THEN place ELSE pc[s]
  BY DEF Goto, TypeInv, StoreTypeOK
<1>4. am' # "down"
  BY <1>1 DEF TypeInv, Local
<1>5. place = "idle" => next[t] = "idle"
  BY DEF InDump
<1>6. place = "finish" => next[t] = "finish"
  BY DEF InDump
<1>7. QED
  BY <1>1, <1>2, <1>3, <1>4, <1>5, <1>6 DEF TypeInv, Local

LEMMA PlaceType ==
  ASSUME TypeInv, NEW t \in Threads, NEW place \in Places, Goto(t, place)
  PROVE  /\ pc' \in [Threads -> Places]
         /\ \A s \in Threads : pc'[s] = IF s = t THEN place ELSE pc[s]
BY DEF Goto, TypeInv, StoreTypeOK

\* Only the thread in dumpState has the lock.
LEMMA OneDumper ==
  ASSUME TypeInv, NEW t \in Threads, pc[t] \in InDump
  PROVE  lock = t /\ lock # None /\ \A s \in Threads : pc[s] \in InDump => s = t
BY StoreAssumption DEF TypeInv, StoreTypeOK

LEMMA AllocateType ==
  ASSUME TypeInv, NEW t \in Threads, NEW u \in Slices, NEW c \in Containers,
         Allocate(t, u, c)
  PROVE  TypeInv'
<1>1. /\ pc' \in [Threads -> Places]
      /\ \A s \in Threads : pc'[s] = IF s = t THEN "publish" ELSE pc[s]
  BY PlaceType DEF Allocate, Places
<1>2. StoreTypeOK'
  BY <1>1 DEF Allocate, Ready, TypeInv, StoreTypeOK, InDump, mem, files, local
<1>3. /\ \A s \in Threads : on'[s] = IF s = t THEN u ELSE on[s]
      /\ \A s \in Threads : took'[s] = IF s = t THEN c ELSE took[s]
      /\ u # None /\ c # None /\ next[t] = "idle" /\ am = "up"
  BY StoreAssumption DEF Allocate, Ready, TypeInv, StoreTypeOK, Local
<1>4. slices[u] = None /\ \A s \in Threads : on[s] # u
  BY DEF Allocate, Busy
<1>5. Local'
  BY <1>1, <1>3, <1>4 DEF Allocate, TypeInv, Local
<1>6. QED
  BY <1>2, <1>5 DEF TypeInv

LEMMA AbortType ==
  ASSUME TypeInv, NEW t \in Threads, AbortAllocation(t)
  PROVE  TypeInv'
<1>1. /\ pc' \in [Threads -> Places]
      /\ \A s \in Threads : pc'[s] = IF s = t THEN "idle" ELSE pc[s]
  BY PlaceType DEF AbortAllocation, Places
<1>2. StoreTypeOK'
  BY <1>1 DEF AbortAllocation, TypeInv, StoreTypeOK, InDump, mem, files
<1>3. /\ \A s \in Threads : on'[s] = IF s = t THEN None ELSE on[s]
      /\ \A s \in Threads : took'[s] = IF s = t THEN None ELSE took[s]
      /\ next[t] = "idle"
  BY DEF AbortAllocation, TypeInv, StoreTypeOK, Local
<1>4. Local'
  BY <1>1, <1>3 DEF AbortAllocation, TypeInv, Local, mem
<1>5. QED
  BY <1>2, <1>4 DEF TypeInv

LEMMA PublishType ==
  ASSUME TypeInv, NEW t \in Threads, PublishSlice(t)
  PROVE  TypeInv'
<1>1. PICK place \in {"idle", "acquire"} : Goto(t, place)
  BY DEF PublishSlice, Save, AfterChange
<1>2. /\ pc' \in [Threads -> Places]
      /\ \A s \in Threads : pc'[s] = IF s = t THEN place ELSE pc[s]
  BY <1>1, PlaceType DEF Places
<1>3. on[t] \in Slices /\ took[t] \in Containers /\ next[t] = "idle" /\ am # "down"
  BY DEF PublishSlice, TypeInv, StoreTypeOK, Local
<1>4. <<took[t], "pending">> \in Slivers /\ <<took[t], "pending">> # None
  BY <1>3, StoreAssumption DEF Slivers, Ops
<1>5. StoreTypeOK'
  BY <1>2, <1>3, <1>4 DEF PublishSlice, TypeInv, StoreTypeOK, InDump, files
<1>6. /\ \A s \in Threads : on'[s] = IF s = t THEN None ELSE on[s]
      /\ \A s \in Threads : took'[s] = IF s = t THEN None ELSE took[s]
      /\ \A v \in Slices : v # on[t] => slices'[v] = slices[v]
  BY <1>3 DEF PublishSlice, TypeInv, StoreTypeOK
<1>7. \A s \in Threads : s # t => on[s] # on[t]
  BY <1>3 DEF PublishSlice, TypeInv, Local
<1>8. Local'
  BY <1>2, <1>3, <1>6, <1>7 DEF PublishSlice, TypeInv, StoreTypeOK, Local
<1>9. QED
  BY <1>5, <1>8 DEF TypeInv

LEMMA DeallocateType ==
  ASSUME TypeInv, NEW t \in Threads, NEW u \in Slices, Deallocate(t, u)
  PROVE  TypeInv'
<1>1. /\ pc' \in [Threads -> Places]
      /\ \A s \in Threads : pc'[s] = IF s = t THEN "remove" ELSE pc[s]
  BY PlaceType DEF Deallocate, Places
<1>2. slices[u] \in Slivers /\ slices[u][1] \in Containers /\ u # None /\ next[t] = "idle"
  BY StoreAssumption DEF Deallocate, Ready, TypeInv, StoreTypeOK, Local, Slivers
<1>3. agg' \in SUBSET Containers
  BY <1>2 DEF Deallocate, TypeInv, StoreTypeOK
<1>4. StoreTypeOK'
  BY <1>1, <1>3 DEF Deallocate, Ready, TypeInv, StoreTypeOK, InDump, files
<1>5. \A s \in Threads : on'[s] = IF s = t THEN u ELSE on[s]
  BY DEF Deallocate, TypeInv, StoreTypeOK
<1>6. \A s \in Threads : on[s] = u => next[s] = "finish"
  BY DEF Deallocate
<1>7. Local'
  BY <1>1, <1>2, <1>5, <1>6 DEF Deallocate, Ready, TypeInv, Local
<1>8. QED
  BY <1>4, <1>7 DEF TypeInv

LEMMA ForgetType ==
  ASSUME TypeInv, NEW t \in Threads, ForgetSlice(t)
  PROVE  TypeInv'
<1>1. PICK place \in {"idle", "acquire"} : Goto(t, place)
  BY DEF ForgetSlice, Save, AfterChange
<1>2. /\ pc' \in [Threads -> Places]
      /\ \A s \in Threads : pc'[s] = IF s = t THEN place ELSE pc[s]
  BY <1>1, PlaceType DEF Places
<1>3. on[t] \in Slices /\ next[t] = "idle" /\ am # "down"
  BY DEF ForgetSlice, TypeInv, StoreTypeOK, Local
<1>4. StoreTypeOK'
  BY <1>2 DEF ForgetSlice, TypeInv, StoreTypeOK, InDump, files
<1>5. /\ \A s \in Threads : on'[s] = IF on[s] = on[t] THEN None ELSE on[s]
      /\ \A v \in Slices : v # on[t] => slices'[v] = slices[v]
  BY <1>3 DEF ForgetSlice, TypeInv, StoreTypeOK
<1>6. \A s \in Threads : pc[s] \in {"publish", "remove"} /\ s # t => on[s] # on[t]
  BY <1>3 DEF ForgetSlice, TypeInv, Local
<1>7. \A s \in Threads : pc[s] \in {"publish", "remove"} => on[s] \in Slices
  BY DEF TypeInv, StoreTypeOK, Local
<1>8. Local'
  BY <1>2, <1>3, <1>5, <1>6, <1>7 DEF ForgetSlice, TypeInv, StoreTypeOK, Local
<1>9. QED
  BY <1>4, <1>8 DEF TypeInv

LEMMA ProvisionType ==
  ASSUME TypeInv, NEW t \in Threads, NEW w \in Threads, NEW u \in Slices,
         Provision(t, w, u)
  PROVE  TypeInv'
<1>1. PICK place \in {"idle", "acquire"} :
        pc' = [pc EXCEPT ![w] = "setup", ![t] = place]
  BY DEF Provision, AfterChange
<1>2. /\ pc' \in [Threads -> Places] /\ t # w
      /\ \A s \in Threads : pc'[s] = IF s = t THEN place ELSE IF s = w THEN "setup" ELSE pc[s]
  BY <1>1 DEF Provision, TypeInv, StoreTypeOK, Places
<1>3. /\ slices' \in [Slices -> Slivers \cup {None}]
      /\ \A v \in Slices : slices'[v] = None <=> slices[v] = None
      /\ \A v \in Slices : v # u => slices'[v] = slices[v]
      /\ slices[u] # None
  BY SetOpType DEF Provision, TypeInv, Ops
<1>4. StoreTypeOK'
  BY <1>2, <1>3 DEF Provision, Ready, TypeInv, StoreTypeOK, InDump, files
<1>5. /\ \A s \in Threads : on'[s] = IF s = w THEN u ELSE on[s]
      /\ \A s \in Threads : next'[s] = IF s = w THEN "finish" ELSE next[s]
      /\ \A s \in Threads : on[s] # u
      /\ next[t] = "idle" /\ am = "up"
  BY DEF Provision, Ready, Busy, TypeInv, StoreTypeOK, Local
<1>6. \A s \in Threads : pc[s] \in {"publish", "remove"} => on[s] \in Slices
  BY DEF TypeInv, StoreTypeOK, Local
<1>7. \A s \in Threads : on[s] # None => on[s] \in Slices /\ slices'[on[s]] = slices[on[s]]
  BY <1>3, <1>5 DEF TypeInv, StoreTypeOK
<1>8. Local'
  BY <1>2, <1>3, <1>5, <1>6, <1>7 DEF Provision, TypeInv, Local
<1>9. QED
  BY <1>4, <1>8 DEF TypeInv

LEMMA ActType ==
  ASSUME TypeInv, NEW t \in Threads, Act(t)
  PROVE  TypeInv'
<1>1. PICK place \in {"idle", "acquire"} : Goto(t, place)
  BY DEF Act, Save, AfterChange
<1>2. /\ pc' \in [Threads -> Places]
      /\ \A s \in Threads : pc'[s] = IF s = t THEN place ELSE pc[s]
  BY <1>1, PlaceType DEF Places
<1>3. /\ slices' \in [Slices -> Slivers \cup {None}]
      /\ \A v \in Slices : slices'[v] = None <=> slices[v] = None
      /\ \A s \in Threads : on[s] # None => slices'[on[s]] = slices[on[s]]
  <2>1. CASE UNCHANGED slices
    BY <2>1 DEF TypeInv, StoreTypeOK
  <2>2. ASSUME NEW u \in Slices, slices[u] # None, ~Busy(u), SetOp(u, "not_ready")
        PROVE  <1>3!1 /\ <1>3!2 /\ <1>3!3
    BY <2>2, SetOpType DEF TypeInv, StoreTypeOK, Busy, Ops
  <2>3. QED
    BY <2>1, <2>2 DEF Act
<1>4. StoreTypeOK'
  BY <1>2, <1>3 DEF Act, Ready, TypeInv, StoreTypeOK, InDump, files
<1>5. next[t] = "idle" /\ am = "up" /\ \A s \in Threads : pc[s] = "publish" => on[s] \in Slices
  BY DEF Act, Ready, TypeInv, StoreTypeOK, Local
<1>6. Local'
  BY <1>2, <1>3, <1>5 DEF Act, TypeInv, Local
<1>7. QED
  BY <1>4, <1>6 DEF TypeInv

\* What a provisioning thread does to its sliver.
LEMMA SetMineType ==
  ASSUME TypeInv, NEW w \in Threads, next[w] = "finish", NEW op \in Ops,
         SetMine(w, op)
  PROVE  /\ slices' \in [Slices -> Slivers \cup {None}]
         /\ \A v \in Slices : slices'[v] = None <=> slices[v] = None
         /\ \A v \in Slices :
              \/ slices'[v] = slices[v]
              \/ /\ slices[v] # None /\ slices'[v][1] = slices[v][1]
                 /\ slices'[v][2] = op /\ v = on[w]
         /\ on[w] # None => slices'[on[w]][2] = op
<1>1. CASE on[w] # None
  <2>1. on[w] \in Slices /\ slices[on[w]] # None /\ SetOp(on[w], op)
    BY <1>1 DEF SetMine, TypeInv, StoreTypeOK, Local
  <2>2. /\ slices' \in [Slices -> Slivers \cup {None}]
        /\ slices'[on[w]] # None /\ slices'[on[w]][1] = slices[on[w]][1]
        /\ slices'[on[w]][2] = op
        /\ \A v \in Slices : v # on[w] => slices'[v] = slices[v]
        /\ \A v \in Slices : slices'[v] = None <=> slices[v] = None
    BY <2>1, SetOpType DEF TypeInv
  <2>3. QED
    BY <1>1, <2>1, <2>2
<1>2. CASE on[w] = None
  <2>1. UNCHANGED slices
    BY <1>2 DEF SetMine
  <2>2. QED
    BY <1>2, <2>1 DEF TypeInv, StoreTypeOK
<1>3. QED
  BY <1>1, <1>2

\* ... of which others only see that it is failed, ready or nearly so.
LEMMA WorkerLocal ==
  ASSUME TypeInv, NEW w \in Threads, pc[w] \in {"setup", "finish"},
         NEW op \in Up, SetMine(w, op) \/ UNCHANGED slices,
         pc[w] = "setup" => SetMine(w, op) \/ on'[w] = None,
         NEW place \in {"idle", "acquire"}, Goto(w, place),
         \/ place = "idle" /\ next' = [next EXCEPT ![w] = "idle"]
            /\ on' = [on EXCEPT ![w] = None]
         \/ place = "acquire" /\ UNCHANGED <<next, on>>,
         UNCHANGED <<agg, master, files, lock, mutated, am, crashes, took>>
  PROVE  TypeInv'
<1>1. /\ pc' \in [Threads -> Places]
      /\ \A s \in Threads : pc'[s] = IF s = w THEN place ELSE pc[s]
  BY PlaceType DEF Places
<1>2. next[w] = "finish" /\ am # "down"
  BY DEF TypeInv, Local
<1>3. /\ slices' \in [Slices -> Slivers \cup {None}]
      /\ \A v \in Slices : slices'[v] = None <=> slices[v] = None
      /\ \A v \in Slices : slices'[v] = slices[v] \/ slices'[v][2] \in Up
      /\ pc[w] = "setup" /\ on'[w] # None => slices'[on[w]][2] \in Up
  <2>1. CASE SetMine(w, op)
    <3>1. op \in Ops
      BY DEF Up, Ops
    <3>2. on'[w] # None => on[w] # None
      BY DEF TypeInv, StoreTypeOK
    <3>3. QED
      BY <1>2, <2>1, <3>1, <3>2, SetMineType
  <2>2. CASE UNCHANGED slices /\ (pc[w] = "finish" \/ on'[w] = None)
    BY <2>2 DEF TypeInv, StoreTypeOK
  <2>3. QED
    BY <2>1, <2>2
<1>4. StoreTypeOK'
  BY <1>1, <1>3 DEF TypeInv, StoreTypeOK, InDump, files
<1>5. /\ \A s \in Threads : next'[s] = IF s = w /\ place = "idle" THEN "idle" ELSE next[s]
      /\ \A s \in Threads : on'[s] = IF s = w /\ place = "idle" THEN None ELSE on[s]
      /\ \A s \in Threads : on[s] # None => on[s] \in Slices
  BY DEF TypeInv, StoreTypeOK
<1>6. Local'
  <2> SUFFICES ASSUME NEW s \in Threads
               PROVE  /\ pc'[s] \in {"idle", "publish", "remove"} => next'[s] = "idle"
                      /\ pc'[s] \in {"setup", "finish"} => next'[s] = "finish"
                      /\ pc'[s] \in {"publish", "remove"} =>
                           /\ on'[s] # None
                           /\ \A r \in Threads : on'[r] = on'[s] => r = s \/ next'[r] = "finish"
                      /\ pc'[s] = "publish" => took'[s] # None /\ slices'[on'[s]] = None
                      /\ next'[s] = "finish" /\ on'[s] # None =>
                           /\ slices'[on'[s]] # None
                           /\ pc'[s] # "setup" => slices'[on'[s]][2] \in Up
                      /\ am' = "down" => pc'[s] = "idle"
    BY DEF Local
  <2>1. CASE s = w
    BY <1>1, <1>2, <1>3, <1>5, <2>1 DEF TypeInv, Local
  <2>2. CASE s # w
    BY <1>1, <1>2, <1>3, <1>5, <2>2 DEF TypeInv, Local
  <2>3. QED
    BY <2>1, <2>2
<1>7. QED
  BY <1>4, <1>6 DEF TypeInv

LEMMA WorkerType ==
  ASSUME TypeInv, NEW w \in Threads,
         \/ SetupFails(w) \/ ReadyBusy(w) \/ Install(w) \/ InstallRaises(w)
         \/ Finish(w)
  PROVE  TypeInv'
<1>1. {"failed", "ready_busy", "ready"} \subseteq Up
  BY DEF Up
<1>2. CASE SetupFails(w)
  <2>1. on'[w] = None
    BY <1>2 DEF SetupFails, TypeInv, StoreTypeOK
  <2>2. QED
    BY <1>1, <1>2, <2>1, WorkerLocal DEF SetupFails
<1>3. CASE ReadyBusy(w)
  BY <1>1, <1>3, WorkerLocal DEF ReadyBusy, local
<1>4. CASE Install(w)
  BY <1>1, <1>4, WorkerLocal DEF Install, local
<1>5. CASE Finish(w)
  BY <1>1, <1>5, WorkerLocal DEF Finish
<1>6. CASE InstallRaises(w)
  <2>1. on'[w] = None
    BY <1>6 DEF InstallRaises, TypeInv, StoreTypeOK
  <2>2. QED
    BY <1>1, <1>6, <2>1, WorkerLocal DEF InstallRaises, mem
<1>7. QED
  BY <1>2, <1>3, <1>4, <1>5, <1>6

DumpStep(t) ==
  \/ AcquireDumpLock(t) \/ PickleAgg(t) \/ PickleSlices(t) \/ PickleFails(t)
  \/ CloseTmp(t) \/ BeginCopy(t) \/ EndCopy(t)

LEMMA DumpStepType ==
  ASSUME TypeInv, NEW t \in Threads, DumpStep(t)
  PROVE  TypeInv'
<1> USE DEF TypeInv
<1>1. /\ tmp.agg \in SUBSET Containers /\ tmp.master \in Masters
      /\ tmp.slices \in [Slices -> Slivers \cup {None}]
  BY DumpFields DEF StoreTypeOK
<1>2. CASE AcquireDumpLock(t)
  <2>1. StoreTypeOK'
    BY <1>2, PlaceType, StoreAssumption DEF AcquireDumpLock, StoreTypeOK, Places, InDump, mem, files, local
  <2>2. Local'
    BY <1>2, MoveLocal DEF AcquireDumpLock, InDump, mem, local
  <2>3. QED
    BY <2>1, <2>2
<1>3. CASE PickleAgg(t)
  <2>1. tmp' \in Dumps
    BY <1>3, DumpIsDump, NoSlicesType DEF PickleAgg, StoreTypeOK, Whole
  <2>2. /\ pc' \in [Threads -> Places]
        /\ \A s \in Threads : pc'[s] = IF s = t THEN "slices" ELSE pc[s]
    BY <1>3, PlaceType DEF PickleAgg, Places
  <2>3. \A s \in Threads : lock' = s <=> pc'[s] \in InDump
    BY <1>3, <2>2 DEF PickleAgg, StoreTypeOK, InDump
  <2>4. StoreTypeOK'
    BY <1>3, <2>1, <2>2, <2>3 DEF PickleAgg, StoreTypeOK, mem, local
  <2>5. Local'
    BY <1>3, MoveLocal DEF PickleAgg, InDump, mem, local
  <2>6. QED
    BY <2>4, <2>5
<1>4. CASE PickleSlices(t)
  <2>1. tmp' \in Dumps
    BY <1>1, <1>4, DumpIsDump DEF PickleSlices, StoreTypeOK, Whole
  <2>2. StoreTypeOK'
    BY <1>4, <2>1, PlaceType DEF PickleSlices, StoreTypeOK, Places, InDump, mem, local
  <2>3. Local'
    BY <1>4, MoveLocal DEF PickleSlices, InDump, mem, local
  <2>4. QED
    BY <2>2, <2>3
<1>5. CASE PickleFails(t)
  <2>1. next[t] \in Places \ InDump /\ pc[t] \in InDump
    BY <1>5 DEF PickleFails, StoreTypeOK, Places, InDump
  <2>2. StoreTypeOK'
    BY <1>5, <2>1, PlaceType, OneDumper, StoreAssumption DEF PickleFails, StoreTypeOK, mem, files, local
  <2>3. Local'
    BY <1>5, <2>1, MoveLocal DEF PickleFails, mem, local
  <2>4. QED
    BY <2>2, <2>3
<1>6. CASE CloseTmp(t)
  <2>1. tmp' \in Dumps
    BY <1>1, <1>6, DumpIsDump DEF CloseTmp, StoreTypeOK, Whole
  <2>2. StoreTypeOK'
    BY <1>6, <2>1, PlaceType DEF CloseTmp, StoreTypeOK, Places, InDump, mem, local
  <2>3. Local'
    BY <1>6, MoveLocal DEF CloseTmp, InDump, mem, local
  <2>4. QED
    BY <2>2, <2>3
<1>7. CASE BeginCopy(t)
  <2>1. file' \in Dumps
    <3>1. PICK n \in 0..(Whole - 1) : file' = Dump(tmp.agg, tmp.master, tmp.slices, n)
      BY <1>7 DEF BeginCopy
    <3>2. n \in 0..Whole
      BY DEF Whole
    <3>3. QED
      BY <1>1, <3>1, <3>2, DumpIsDump
  <2>2. StoreTypeOK'
    BY <1>7, <2>1, PlaceType DEF BeginCopy, StoreTypeOK, Places, InDump, mem, local
  <2>3. Local'
    BY <1>7, MoveLocal DEF BeginCopy, InDump, mem, local
  <2>4. QED
    BY <2>2, <2>3
<1>8. CASE EndCopy(t)
  <2>1. next[t] \in Places \ InDump /\ pc[t] \in InDump
    BY <1>8 DEF EndCopy, StoreTypeOK, Places, InDump
  <2>2. StoreTypeOK'
    BY <1>8, <2>1, PlaceType, OneDumper, StoreAssumption DEF EndCopy, StoreTypeOK, mem, local
  <2>3. Local'
    BY <1>8, <2>1, MoveLocal DEF EndCopy, mem, local
  <2>4. QED
    BY <2>2, <2>3
<1>9. QED
  BY <1>2, <1>3, <1>4, <1>5, <1>6, <1>7, <1>8 DEF DumpStep

LEMMA BootType ==
  ASSUME TypeInv, Crash \/ Restore \/ \E t \in Threads : StartAnew(t)
  PROVE  TypeInv'
<1> USE DEF TypeInv
<1>1. /\ file.agg \in SUBSET Containers /\ file.master \in Masters
      /\ file.slices \in [Slices -> Slivers \cup {None}]
  BY DumpFields DEF StoreTypeOK
<1>2. CASE Crash
  <2>1. 0 \in Masters /\ crashes' \in Masters
    BY <1>2, StoreAssumption DEF Crash, StoreTypeOK, Masters
  <2>2. StoreTypeOK'
    BY <1>2, <2>1, NoSlicesType, StoreAssumption DEF Crash, StoreTypeOK, Places, InDump, files
  <2>3. Local'
    BY <1>2 DEF Crash, Local
  <2>4. QED
    BY <2>2, <2>3
<1>3. CASE Restore
  <2>1. \A t \in Threads : pc[t] = "idle" /\ next[t] = "idle"
    BY <1>3 DEF Restore, Local
  <2>2. StoreTypeOK'
    BY <1>1, <1>3 DEF Restore, StoreTypeOK, files, local
  <2>3. Local'
    BY <1>3, <2>1 DEF Restore, Local, local
  <2>4. QED
    BY <2>2, <2>3
<1>4. ASSUME NEW t \in Threads, StartAnew(t) PROVE TypeInv'
  <2>1. \A s \in Threads : pc[s] = "idle" /\ next[s] = "idle"
    BY <1>4 DEF StartAnew, Local
  <2>2. /\ pc' \in [Threads -> Places]
        /\ \A s \in Threads : pc'[s] = IF s = t THEN "acquire" ELSE "idle"
    BY <1>4, <2>1, PlaceType DEF StartAnew, Places
  <2>3. agg' \in SUBSET Containers /\ slices' \in [Slices -> Slivers \cup {None}]
    BY <1>1, <1>4, NoSlicesType DEF StartAnew, StoreTypeOK, Containers
  <2>4. StoreTypeOK'
    BY <1>4, <2>1, <2>2, <2>3 DEF StartAnew, StoreTypeOK, InDump, files, local
  <2>5. Local'
    BY <1>4, <2>1, <2>2 DEF StartAnew, Local, local
  <2>6. QED
    BY <2>4, <2>5
<1>5. QED
  BY <1>2, <1>3, <1>4

LEMMA NextType == TypeInv /\ [Next]_vars => TypeInv'
<1> SUFFICES ASSUME TypeInv, [Next]_vars PROVE TypeInv'
  OBVIOUS
<1>1. CASE UNCHANGED vars
  BY <1>1 DEF vars, TypeInv, StoreTypeOK, Local
<1>2. ASSUME NEW t \in Threads, Work(t) PROVE TypeInv'
  BY <1>2, AbortType, PublishType, ForgetType, WorkerType, DumpStepType DEF Work, DumpStep
<1>3. ASSUME NEW t \in Threads, Call(t) PROVE TypeInv'
  BY <1>3, AllocateType, DeallocateType, ProvisionType, ActType DEF Call
<1>4. QED
  BY <1>1, <1>2, <1>3, BootType DEF Next

-----------------------------------------------------------------------------
\* The steps outside dumpState, as dumpState sees them.

OutsideStep(t) ==
  \/ AbortAllocation(t) \/ PublishSlice(t) \/ ForgetSlice(t)
  \/ SetupFails(t) \/ ReadyBusy(t) \/ Install(t) \/ InstallRaises(t) \/ Finish(t)
  \/ Call(t)

SameDumps ==
  /\ UNCHANGED <<tmp, file, lock, am>> /\ am # "down"
  /\ \A s \in Threads : pc[s] \in InDump \/ pc'[s] \in InDump => pc'[s] = pc[s]

\* It changes something and is going to dump it ...
Change == \E t \in Threads : pc'[t] \in {"remove", "acquire"}
\* ... or nothing that a dump would lack.
Quiet ==
  /\ mutated' = mutated /\ master' = master /\ agg' \subseteq agg
  /\ \A s \in Threads : WillDump(s) => pc'[s] = pc[s]
  /\ \A u \in Slices : slices'[u] = None <=> slices[u] = None
  /\ \A u \in Slices : slices[u] # None => slices'[u][1] = slices[u][1]
  /\ \A u \in Slices : NearReady(u)' => NearReady(u)

LEMMA OutsideFrame ==
  ASSUME TypeInv, NEW t \in Threads, OutsideStep(t)
  PROVE  SameDumps
<1> USE DEF TypeInv, StoreTypeOK
<1>1. CASE AbortAllocation(t)
  BY <1>1 DEF SameDumps, AbortAllocation, Goto, InDump, Local, mem, files
<1>2. CASE PublishSlice(t) \/ ForgetSlice(t) \/ Act(t)
  <2>1. PICK place \in {"idle", "acquire"} : Goto(t, place)
    BY <1>2 DEF PublishSlice, ForgetSlice, Act, Save, AfterChange
  <2>2. \A s \in Threads : pc'[s] = IF s = t THEN place ELSE pc[s]
    BY <2>1 DEF Goto
  <2>3. pc[t] \in {"publish", "remove", "idle"} /\ am # "down"
    BY <1>2 DEF PublishSlice, ForgetSlice, Act, Ready, Local
  <2>4. QED
    BY <1>2, <2>2, <2>3 DEF SameDumps, PublishSlice, ForgetSlice, Act, InDump, files
<1>3. CASE SetupFails(t)
  BY <1>3 DEF SameDumps, SetupFails, Goto, InDump, Local, files
<1>4. CASE ReadyBusy(t)
  BY <1>4 DEF SameDumps, ReadyBusy, Goto, InDump, Local, files
<1>5. CASE Install(t)
  BY <1>5 DEF SameDumps, Install, Goto, InDump, Local, files
<1>6. CASE InstallRaises(t) \/ Finish(t)
  BY <1>6 DEF SameDumps, InstallRaises, Finish, Goto, InDump, Local, files, mem
<1>7. ASSUME NEW u \in Slices, NEW c \in Containers, Allocate(t, u, c)
      PROVE  SameDumps
  BY <1>7 DEF SameDumps, Allocate, Ready, Goto, InDump, files
<1>8. ASSUME NEW u \in Slices, Deallocate(t, u) PROVE SameDumps
  BY <1>8 DEF SameDumps, Deallocate, Ready, Goto, InDump, files
<1>9. ASSUME NEW w \in Threads, NEW u \in Slices, Provision(t, w, u) PROVE SameDumps
  <2>1. PICK place \in {"idle", "acquire"} :
          pc' = [pc EXCEPT ![w] = "setup", ![t] = place]
    BY <1>9 DEF Provision, AfterChange
  <2>2. QED
    BY <1>9, <2>1 DEF SameDumps, Provision, Ready, InDump, files
<1>10. QED
  BY <1>1, <1>2, <1>3, <1>4, <1>5, <1>6, <1>7, <1>8, <1>9 DEF OutsideStep, Call

LEMMA OutsideChange ==
  ASSUME TypeInv, ~CallsRaise, NEW t \in Threads, OutsideStep(t)
  PROVE  Change \/ Quiet
<1> USE DEF TypeInv, StoreTypeOK
<1>1. CASE PublishSlice(t) \/ ForgetSlice(t) \/ Act(t)
  BY <1>1 DEF PublishSlice, ForgetSlice, Act, Save, AfterChange, Goto, Change
<1>2. CASE ReadyBusy(t) \/ Install(t)
  BY <1>2 DEF ReadyBusy, Install, Goto, Change
<1>3. ASSUME NEW u \in Slices, Deallocate(t, u) PROVE Change
  BY <1>3 DEF Deallocate, Goto, Change
<1>4. ASSUME NEW w \in Threads, NEW u \in Slices, Provision(t, w, u) PROVE Change
  BY <1>4 DEF Provision, AfterChange, Change
<1>5. CASE AbortAllocation(t)
  <2>1. /\ \A s \in Threads : pc'[s] = IF s = t THEN "idle" ELSE pc[s]
        /\ \A s \in Threads : on'[s] = IF s = t THEN None ELSE on[s]
        /\ UNCHANGED <<agg, master, slices, mutated, next>>
    BY <1>5 DEF AbortAllocation, Goto, mem
  <2>2. next[t] = "idle" /\ pc[t] = "publish"
    BY <1>5 DEF AbortAllocation, Local
  <2>3. \A u \in Slices : NearReady(u)' => NearReady(u)
    BY <2>1, <2>2 DEF NearReady, PastSetup
  <2>4. QED
    BY <2>1, <2>2, <2>3 DEF Quiet, WillDump
<1>6. ASSUME NEW v \in Slices, NEW c \in Containers, Allocate(t, v, c)
      PROVE  Quiet
  <2>1. /\ \A s \in Threads : pc'[s] = IF s = t THEN "publish" ELSE pc[s]
        /\ \A s \in Threads : on'[s] = IF s = t THEN v ELSE on[s]
        /\ UNCHANGED <<master, slices, mutated, next>> /\ agg' \subseteq agg
    BY <1>6 DEF Allocate, Goto
  <2>2. next[t] = "idle" /\ pc[t] = "idle"
    BY <1>6 DEF Allocate, Ready, Local
  <2>3. \A u \in Slices : NearReady(u)' => NearReady(u)
    BY <2>1, <2>2 DEF NearReady, PastSetup
  <2>4. QED
    BY <2>1, <2>2, <2>3 DEF Quiet, WillDump
<1>7. CASE SetupFails(t) \/ InstallRaises(t) \/ Finish(t)
  <2>1. /\ \A s \in Threads : pc'[s] = IF s = t THEN "idle" ELSE pc[s]
        /\ \A s \in Threads : on'[s] = IF s = t THEN None ELSE on[s]
        /\ \A s \in Threads : next'[s] = IF s = t THEN "idle" ELSE next[s]
        /\ UNCHANGED <<agg, master, mutated>>
        /\ pc[t] \in {"setup", "finish"} /\ next[t] = "finish"
    BY <1>7 DEF SetupFails, InstallRaises, Finish, Goto, Local, mem
  <2>2. \A u \in Slices : PastSetup(u)' => PastSetup(u)
    BY <2>1 DEF PastSetup
  <2>3. CASE UNCHANGED slices
    BY <2>1, <2>2, <2>3 DEF Quiet, WillDump, NearReady
  <2>4. CASE SetupFails(t) /\ SetMine(t, "failed")
    <3>1. /\ \A v \in Slices : slices'[v] = None <=> slices[v] = None
          /\ \A v \in Slices :
               \/ slices'[v] = slices[v]
               \/ /\ slices[v] # None /\ slices'[v][1] = slices[v][1]
                  /\ slices'[v][2] = "failed"
      BY <2>1, <2>4, SetMineType DEF Ops
    <3>2. \A u \in Slices : NearReady(u)' => NearReady(u)
      BY <2>2, <3>1 DEF NearReady
    <3>3. QED
      BY <2>1, <3>1, <3>2 DEF Quiet, WillDump
  <2>5. CASE Finish(t)
    <3>1. /\ \A v \in Slices : slices'[v] = None <=> slices[v] = None
          /\ \A v \in Slices :
               \/ slices'[v] = slices[v]
               \/ /\ slices[v] # None /\ slices'[v][1] = slices[v][1] /\ v = on[t]
      BY <2>1, <2>5, SetMineType DEF Finish, Ops
    <3>2. PastSetup(on[t])
      BY <2>1, <2>5 DEF Finish, PastSetup
    <3>3. \A u \in Slices : NearReady(u)' => NearReady(u)
      BY <2>2, <3>1, <3>2 DEF NearReady
    <3>4. QED
      BY <2>1, <3>1, <3>3 DEF Quiet, WillDump
  <2>6. QED
    BY <1>7, <2>3, <2>4, <2>5 DEF SetupFails, InstallRaises, mem
<1>8. QED
  BY <1>1, <1>2, <1>3, <1>4, <1>5, <1>6, <1>7 DEF OutsideStep, Call

-----------------------------------------------------------------------------
\* A whole copy.

LEMMA CopyStep ==
  ASSUME TypeInv, CopyInv, [Next]_vars
  PROVE  CopyInv'
<1> USE DEF TypeInv
<1>1. CASE UNCHANGED vars
  BY <1>1 DEF vars, CopyInv
<1>2. ASSUME NEW t \in Threads, OutsideStep(t) PROVE CopyInv'
  BY <1>2, OutsideFrame DEF SameDumps, CopyInv, InDump
<1>3. ASSUME NEW t \in Threads, DumpStep(t) PROVE CopyInv'
  <2>1. \A s \in Threads : pc[t] \in InDump /\ s # t => pc[s] \notin InDump
    BY OneDumper
  <2> USE DEF StoreTypeOK
  <2>2. CASE AcquireDumpLock(t)
    BY <2>2 DEF AcquireDumpLock, Goto, CopyInv, files
  <2>3. CASE PickleAgg(t)
    BY <2>1, <2>3 DEF PickleAgg, Goto, CopyInv, InDump
  <2>4. CASE PickleSlices(t)
    BY <2>1, <2>4 DEF PickleSlices, Goto, CopyInv, InDump
  <2>5. CASE PickleFails(t)
    BY <2>1, <2>5 DEF PickleFails, Goto, CopyInv, InDump, files
  <2>6. CASE CloseTmp(t)
    BY <2>1, <2>6 DEF CloseTmp, Goto, CopyInv, InDump, Dump
  <2>7. CASE BeginCopy(t)
    BY <2>1, <2>7 DEF BeginCopy, Goto, CopyInv, InDump
  <2>8. CASE EndCopy(t)
    BY <2>1, <2>8 DEF EndCopy, Goto, CopyInv, InDump
  <2>9. QED
    BY <1>3, <2>2, <2>3, <2>4, <2>5, <2>6, <2>7, <2>8 DEF DumpStep
<1>4. CASE Crash
  BY <1>4 DEF Crash, CopyInv
<1>5. CASE Restore
  BY <1>5 DEF Restore, CopyInv, Local, files
<1>6. ASSUME NEW t \in Threads, StartAnew(t) PROVE CopyInv'
  BY <1>6 DEF StartAnew, Goto, CopyInv, Local, StoreTypeOK, files
<1>7. QED
  BY <1>1, <1>2, <1>3, <1>4, <1>5, <1>6 DEF Next, Work, OutsideStep, DumpStep

\* The variables keep their types, and a thread is in dumpState exactly while it
\* holds DUMP_LOCK.
THEOREM StoreTypes == Spec => []StoreTypeOK
<1>1. TypeInv => StoreTypeOK
  BY DEF TypeInv
<1>2. QED
  BY InitType, NextType, <1>1, PTL DEF Spec

\* A dump that leaves neither file whole is one of a start that found
\* no file that loads.
LEMMA CopyKeptStep ==
  ASSUME TypeInv, CopyInv, [Next]_vars
  PROVE  CopyKept
<1> USE DEF TypeInv, CopyKept, HasCopy
<1>1. CASE UNCHANGED <<tmp, file>>
  BY <1>1
<1>2. ASSUME NEW t \in Threads, DumpStep(t) PROVE CopyKept
  <2>1. \A s \in Threads : pc[t] \in InDump /\ s # t => pc[s] \notin InDump
    BY OneDumper
  <2>2. pc[t] # "idle" /\ am \in {"boot", "up"}
    BY <1>2 DEF DumpStep, AcquireDumpLock, PickleAgg, PickleSlices, PickleFails,
                CloseTmp, BeginCopy, EndCopy, Local, StoreTypeOK
  <2>3. CASE PickleAgg(t) \/ PickleSlices(t)
    <3>1. pc[t] \in InDump /\ pc[t] # "end" /\ file' = file
      BY <2>3 DEF PickleAgg, PickleSlices, InDump
    <3>2. am = "up" => file.loads = Whole
      BY <2>1, <3>1 DEF CopyInv, InDump
    <3>3. QED
      BY <2>2, <3>1, <3>2
  <2>4. CASE CloseTmp(t)
    BY <2>4 DEF CloseTmp, Dump
  <2>5. CASE BeginCopy(t) \/ EndCopy(t)
    BY <2>5 DEF BeginCopy, EndCopy, CopyInv
  <2>6. CASE AcquireDumpLock(t) \/ PickleFails(t)
    BY <2>6, <1>1 DEF AcquireDumpLock, PickleFails, files
  <2>7. QED
    BY <1>2, <2>3, <2>4, <2>5, <2>6 DEF DumpStep
<1>3. ASSUME NEW t \in Threads, OutsideStep(t) PROVE CopyKept
  BY <1>1, <1>3, OutsideFrame DEF SameDumps
<1>4. CASE UNCHANGED vars \/ Crash \/ Restore \/ \E t \in Threads : StartAnew(t)
  BY <1>1, <1>4 DEF vars, Crash, Restore, StartAnew, files
<1>5. QED
  BY <1>2, <1>3, <1>4 DEF Next, Work, OutsideStep, DumpStep

\* While the AM is up, STATE_FILENAME or its .tmp loads, however many threads
\* dump; and only the dump of a start that found no file that loads loses the last
\* whole copy (dumpState and __init__, testbed.py).
THEOREM WholeCopyKept == Spec => AWholeCopy
<1>1. Init => TypeInv /\ CopyInv
  BY InitType DEF Init, CopyInv
<1>2. (TypeInv /\ CopyInv) /\ [Next]_vars => (TypeInv /\ CopyInv)'
  BY NextType, CopyStep
<1>3. TypeInv /\ CopyInv => (am = "up" => HasCopy)
  BY DEF TypeInv, CopyInv, HasCopy
<1>4. (TypeInv /\ CopyInv) /\ [Next]_vars => [CopyKept]_vars
  BY CopyKeptStep
<1>5. QED
  BY <1>1, <1>2, <1>3, <1>4, PTL DEF Spec, AWholeCopy

-----------------------------------------------------------------------------
\* What is saved.

LEMMA ChangeStep ==
  ASSUME TypeInv, ChangeInv, ~CallsRaise, [Next]_vars
  PROVE  ChangeInv'
<1> USE DEF TypeInv
<1>1. CASE UNCHANGED vars
  BY <1>1 DEF vars, ChangeInv
<1>2. ASSUME NEW t \in Threads, OutsideStep(t) PROVE ChangeInv'
  <2>1. SameDumps
    BY <1>2, OutsideFrame
  <2>2. CASE Change
    BY <2>2 DEF Change, ChangeInv
  <2>3. CASE Quiet
    BY <2>1, <2>3 DEF SameDumps, Quiet, WillDump, ChangeInv, InDump
  <2>4. QED
    BY <1>2, <2>2, <2>3, OutsideChange
<1>3. ASSUME NEW t \in Threads, DumpStep(t) PROVE ChangeInv'
  <2>1. \A s \in Threads : pc[t] \in InDump /\ s # t => pc[s] \notin InDump
    BY OneDumper
  <2> USE DEF StoreTypeOK
  <2>2. CASE AcquireDumpLock(t)
    <3>1. \A s \in Threads : pc[s] \notin InDump
      BY <2>2, StoreAssumption DEF AcquireDumpLock
    <3>2. QED
      BY <2>2, <3>1 DEF AcquireDumpLock, Goto, ChangeInv, InDump
  <2>3. CASE PickleAgg(t)
    BY <2>3 DEF PickleAgg, ChangeInv
  <2>4. CASE PickleSlices(t)
    BY <2>1, <2>4 DEF PickleSlices, Goto, ChangeInv, InDump
  <2>5. CASE PickleFails(t)
    BY <2>1, <2>5 DEF PickleFails, Goto, ChangeInv, InDump
  <2>6. CASE CloseTmp(t) \/ BeginCopy(t) \/ EndCopy(t)
    BY <2>1, <2>6 DEF CloseTmp, BeginCopy, EndCopy, Goto, ChangeInv, InDump
  <2>7. QED
    BY <1>3, <2>2, <2>3, <2>4, <2>5, <2>6 DEF DumpStep
<1>4. CASE Crash
  BY <1>4 DEF Crash, ChangeInv
<1>5. CASE Restore
  BY <1>5 DEF Restore, ChangeInv
<1>6. ASSUME NEW t \in Threads, StartAnew(t) PROVE ChangeInv'
  BY <1>6 DEF StartAnew, Goto, ChangeInv, StoreTypeOK
<1>7. QED
  BY <1>1, <1>2, <1>3, <1>4, <1>5, <1>6 DEF Next, Work, OutsideStep, DumpStep

\* What is read from memory is in the dump.
LEMMA ReadSlices ==
  ASSUME TypeInv, NEW f, f.slices = slices
  PROVE  SameSlices(f)
<1>1. ASSUME NEW u \in Slices, NearReady(u) PROVE slices[u][2] \in Up
  <2>1. CASE slices[u][2] \in {"ready_busy", "ready"}
    BY <2>1 DEF Up
  <2>2. CASE PastSetup(u)
    BY <2>2, StoreAssumption DEF PastSetup, TypeInv, Local
  <2>3. QED
    BY <1>1, <2>1, <2>2 DEF NearReady
<1>2. QED
  BY <1>1 DEF SameSlices, SameSliver

LEMMA QuietSlices ==
  ASSUME Quiet, NEW f \in Dumps, f' = f, SameSlices(f)
  PROVE  SameSlices(f)'
BY DEF Quiet, SameSlices, SameSliver

\* dumpState changes nothing but the files.
LEMMA DumpFrame ==
  ASSUME TypeInv, NEW t \in Threads, DumpStep(t)
  PROVE  /\ UNCHANGED <<agg, master, slices>> /\ am # "down"
         /\ \A s \in Threads : s # t => pc'[s] = pc[s]
         /\ \A u \in Slices : NearReady(u)' <=> NearReady(u)
<1> USE DEF TypeInv, StoreTypeOK
<1>1. UNCHANGED <<agg, master, slices, next, on>> /\ pc[t] \notin {"idle", "setup"}
  BY DEF DumpStep, AcquireDumpLock, PickleAgg, PickleSlices, PickleFails, CloseTmp,
         BeginCopy, EndCopy, mem, local
<1>2. \E place \in InDump \cup {"idle", "finish"} : Goto(t, place)
  BY DEF DumpStep, AcquireDumpLock, PickleAgg, PickleSlices, PickleFails, CloseTmp,
         BeginCopy, EndCopy, InDump
<1>3. pc'[t] # "setup" /\ \A s \in Threads : s # t => pc'[s] = pc[s]
  BY <1>2 DEF Goto, InDump
<1>4. \A u \in Slices : PastSetup(u)' <=> PastSetup(u)
  BY <1>1, <1>3 DEF PastSetup
<1>5. QED
  BY <1>1, <1>3, <1>4 DEF NearReady, Local

LEMMA DumpInvStep ==
  ASSUME TypeInv, CopyInv, ChangeInv, DumpInv, ~CallsRaise, [Next]_vars
  PROVE  DumpInv'
<1> USE DEF TypeInv
<1>1. CASE UNCHANGED vars
  <2>1. \A u \in Slices : NearReady(u)' <=> NearReady(u)
    BY <1>1 DEF vars, NearReady, PastSetup
  <2>2. \A t \in Threads : WillDump(t)' <=> WillDump(t)
    BY <1>1 DEF vars, WillDump
  <2>3. /\ SameAgg(tmp)' <=> SameAgg(tmp)
        /\ SameAgg(file)' <=> SameAgg(file)
        /\ SameSlices(tmp)' <=> SameSlices(tmp)
        /\ SameSlices(file)' <=> SameSlices(file)
    BY <1>1, <2>1 DEF vars, SameAgg, SameSlices, SameSliver
  <2>4. QED
    BY <1>1, <2>2, <2>3 DEF vars, DumpInv
<1>2. ASSUME NEW t \in Threads, OutsideStep(t) PROVE DumpInv'
  <2>1. SameDumps
    BY <1>2, OutsideFrame
  <2>2. CASE Change
    BY <2>2 DEF Change, DumpInv, WillDump
  <2>3. CASE Quiet
    <3>1. CASE \E s \in Threads : WillDump(s)
      BY <2>3, <3>1 DEF Quiet, DumpInv, WillDump
    <3>2. CASE lock = None /\ file.loads = Whole /\ SameAgg(file) /\ SameSlices(file)
      <4>1. SameSlices(file)'
        BY <2>1, <2>3, <3>2, QuietSlices DEF SameDumps, StoreTypeOK
      <4>2. QED
        BY <2>1, <2>3, <3>2, <4>1 DEF SameDumps, Quiet, SameAgg, DumpInv
    <3>3. CASE /\ lock # None /\ SameAgg(tmp)
               /\ pc[lock] \in {"close", "copy", "end"} => SameSlices(tmp)
      <4>1. SameAgg(tmp)' /\ lock' = lock /\ pc'[lock] = pc[lock]
        BY <2>1, <2>3, <3>3 DEF SameDumps, Quiet, SameAgg, StoreTypeOK
      <4>2. SameSlices(tmp) => SameSlices(tmp)'
        BY <2>1, <2>3, QuietSlices DEF SameDumps, StoreTypeOK
      <4>3. QED
        BY <3>3, <4>1, <4>2 DEF DumpInv
    <3>4. QED
      BY <2>1, <3>1, <3>2, <3>3 DEF DumpInv, SameDumps
  <2>4. QED
    BY <1>2, <2>2, <2>3, OutsideChange
<1>3. ASSUME NEW t \in Threads, DumpStep(t) PROVE DumpInv'
  <2>1. /\ UNCHANGED <<agg, master, slices>> /\ am # "down"
        /\ \A s \in Threads : s # t => pc'[s] = pc[s]
        /\ \A u \in Slices : NearReady(u)' <=> NearReady(u)
    BY <1>3, DumpFrame
  <2>2. \A s \in Threads : pc[t] \in InDump => lock = t /\ (s # t => pc[s] \notin InDump)
    BY OneDumper
  <2>3. /\ SameAgg(tmp) /\ tmp'.agg = tmp.agg /\ tmp'.master = tmp.master => SameAgg(tmp)'
        /\ SameSlices(tmp) /\ tmp'.slices = tmp.slices => SameSlices(tmp)'
    BY <2>1 DEF SameAgg, SameSlices, SameSliver
  <2>4. ASSUME NEW s \in Threads, s # t, WillDump(s) PROVE DumpInv'
    BY <2>1, <2>4 DEF WillDump, DumpInv
  <2>5. CASE AcquireDumpLock(t)
    BY <2>5 DEF AcquireDumpLock, Goto, StoreTypeOK, DumpInv, WillDump
  <2>6. CASE PickleAgg(t)
    <3>1. tmp'.agg = agg /\ tmp'.master = master /\ lock' = t /\ lock' # None
      BY <2>2, <2>6, StoreAssumption DEF PickleAgg, Dump, InDump
    <3>2. SameAgg(tmp)'
      BY <2>1, <3>1 DEF SameAgg
    <3>3. pc'[t] = "slices"
      BY <2>6 DEF PickleAgg, Goto, StoreTypeOK
    <3>4. QED
      BY <3>1, <3>2, <3>3 DEF DumpInv
  <2>7. CASE PickleSlices(t)
    <3>1. /\ tmp'.agg = tmp.agg /\ tmp'.master = tmp.master /\ tmp'.slices = slices
          /\ lock = t /\ lock' = t /\ t # None /\ pc[t] = "slices"
      BY <2>2, <2>7, StoreAssumption DEF PickleSlices, Dump, InDump
    <3>2. SameSlices(tmp')
      BY <3>1, ReadSlices
    <3>3. SameSlices(tmp)'
      BY <2>1, <3>2 DEF SameSlices, SameSliver
    <3>4. (\E s \in Threads : s # t /\ WillDump(s)) \/ SameAgg(tmp)
      BY <2>1, <3>1 DEF DumpInv, WillDump
    <3>5. QED
      BY <2>3, <2>4, <3>1, <3>3, <3>4 DEF DumpInv
  <2>8. CASE PickleFails(t)
    <3>1. \E s \in Threads : pc[s] \in {"remove", "acquire"} /\ s # t
      BY <2>8 DEF PickleFails, ChangeInv
    <3>2. QED
      BY <2>4, <3>1 DEF WillDump
  <2>9. CASE CloseTmp(t) \/ BeginCopy(t)
    <3>1. /\ tmp'.agg = tmp.agg /\ tmp'.master = tmp.master /\ tmp'.slices = tmp.slices
          /\ lock = t /\ lock' = t /\ t # None /\ pc[t] \in {"close", "copy"}
      BY <2>2, <2>9, StoreAssumption DEF CloseTmp, BeginCopy, Dump, InDump
    <3>2. (\E s \in Threads : s # t /\ WillDump(s)) \/ (SameAgg(tmp) /\ SameSlices(tmp))
      BY <2>1, <3>1 DEF DumpInv, WillDump
    <3>3. QED
      BY <2>3, <2>4, <3>1, <3>2 DEF DumpInv
  <2>10. CASE EndCopy(t)
    <3>1. /\ lock = t /\ t # None /\ pc[t] = "end" /\ lock' = None /\ file' = tmp
          /\ tmp' = tmp /\ tmp.loads = Whole
      BY <2>2, <2>10, StoreAssumption DEF EndCopy, CopyInv, InDump
    <3>2. (\E s \in Threads : s # t /\ WillDump(s)) \/ (SameAgg(tmp) /\ SameSlices(tmp))
      BY <2>1, <3>1 DEF DumpInv, WillDump
    <3>3. SameAgg(tmp) /\ SameSlices(tmp) => SameAgg(file)' /\ SameSlices(file)'
      BY <2>1, <3>1 DEF SameAgg, SameSlices, SameSliver
    <3>4. QED
      BY <2>4, <3>1, <3>2, <3>3 DEF DumpInv
  <2>11. QED
    BY <1>3, <2>5, <2>6, <2>7, <2>8, <2>9, <2>10 DEF DumpStep
<1>4. CASE Crash
  BY <1>4 DEF Crash, DumpInv
<1>5. CASE Restore
  <2>1. \A s \in Threads : pc[s] = "idle" /\ next[s] = "idle"
    BY <1>5 DEF Restore, Local
  <2>2. lock' = None
    BY <1>5, <2>1 DEF Restore, StoreTypeOK, InDump
  <2>3. SameAgg(file)'
    BY <1>5 DEF Restore, SameAgg, files
  <2>4. \A u \in Slices : NearReady(u)' => slices'[u][2] \in {"ready_busy", "ready"}
    BY <1>5, <2>1 DEF Restore, NearReady, PastSetup, local
  <2>5. SameSlices(file)'
    BY <1>5, <2>4 DEF Restore, SameSlices, SameSliver, files, Up
  <2>6. QED
    BY <1>5, <2>2, <2>3, <2>5 DEF Restore, files, DumpInv
<1>6. ASSUME NEW t \in Threads, StartAnew(t) PROVE DumpInv'
  BY <1>6 DEF StartAnew, Goto, StoreTypeOK, DumpInv, WillDump
<1>7. QED
  BY <1>1, <1>2, <1>3, <1>4, <1>5, <1>6 DEF Next, Work, OutsideStep, DumpStep

\* When no call or thread is at work, a restart gives back every sliver and
\* every free container (dumpState, __init__), provided that no call raises
\* between a change and its dump.
THEOREM QuiescentStateIsSaved ==
  ASSUME ~CallsRaise
  PROVE  Spec => []QuiescentIsSaved
<1>1. Init => Inv
  BY InitType DEF Init, Inv, CopyInv, DumpInv, ChangeInv
<1>2. Inv /\ [Next]_vars => Inv'
  BY NextType, CopyStep, ChangeStep, DumpInvStep DEF Inv
<1>3. Inv => QuiescentIsSaved
  <2> SUFFICES ASSUME Inv, am = "up", \A t \in Threads : pc[t] = "idle"
               PROVE  Saved(file)
    BY DEF QuiescentIsSaved
  <2>1. lock = None
    BY DEF Inv, TypeInv, StoreTypeOK, InDump
  <2>2. file.loads = Whole /\ SameAgg(file) /\ SameSlices(file)
    BY <2>1 DEF Inv, DumpInv, WillDump
  <2>3. QED
    BY <2>2 DEF Saved, SavedSliver, SameAgg, SameSlices, SameSliver, NearReady
<1>4. QED
  BY <1>1, <1>2, <1>3, PTL DEF Spec
=============================================================================
