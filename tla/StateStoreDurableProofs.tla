----------------------- MODULE StateStoreDurableProofs -----------------------
(***************************************************************************)
(* Proof that both parts of the state file are DurableStores, for every    *)
(* number of threads, slices, containers and stops of the AM, and whether  *)
(* or not calls raise.                                                     *)
(***************************************************************************)
EXTENDS StateStoreDurable, StateStoreProofs

\* During the copy the file is a beginning of the temporary file.
EndInv ==
  \A t \in Threads : pc[t] = "end" =>
    /\ file.loads # Whole
    /\ file.agg = tmp.agg /\ file.master = tmp.master /\ file.slices = tmp.slices

DInv == TypeInv /\ CopyInv /\ EndInv

\* What the two stores make of a step.
Mapped ==
  /\ [SlicesStore!Next]_(SlicesStore!vars)
  /\ [PoolStore!Next]_(PoolStore!vars)

\* What the stores see of memory and file, apart from the values.
Making(P) == \E t \in Threads : pc[t] \in P
SlicesPlaces == {"close", "copy"}
PoolPlaces == {"slices", "close", "copy"}

\* Their variables, one by one.
LEMMA StoreVars ==
  /\ SlicesStore!vars = <<Memory(slices), InTheMaking(SlicesPlaces, tmp.slices),
                          file.slices, Copy>>
  /\ PoolStore!vars = <<Memory(<<agg, master>>),
                        InTheMaking(PoolPlaces, <<tmp.agg, tmp.master>>),
                        <<file.agg, file.master>>, Copy>>
BY DEF SlicesStore!vars, PoolStore!vars, SlicesPlaces, PoolPlaces

\* Nobody else is in dumpState when a thread takes a step of it.
LEMMA DumpAlone ==
  ASSUME TypeInv, NEW t \in Threads, DumpStep(t), NEW P \in SUBSET InDump
  PROVE  /\ Making(P) <=> pc[t] \in P
         /\ (\E s \in Threads : pc'[s] \in P) <=> pc'[t] \in P
<1>1. \A s \in Threads : s # t => pc'[s] = pc[s]
  BY DumpFrame
<1>2. \A s \in Threads : s # t => pc[s] \notin InDump
  <2>1. CASE pc[t] \in InDump
    BY <2>1, OneDumper
  <2>2. CASE AcquireDumpLock(t)
    BY <2>2, StoreAssumption DEF AcquireDumpLock, TypeInv, StoreTypeOK
  <2>3. QED
    BY <2>1, <2>2 DEF DumpStep, PickleAgg, PickleSlices, PickleFails, CloseTmp,
                      BeginCopy, EndCopy, InDump
<1>3. QED
  BY <1>1, <1>2 DEF Making

LEMMA EndStep ==
  ASSUME TypeInv, CopyInv, EndInv, [Next]_vars
  PROVE  EndInv'
<1> USE DEF TypeInv, EndInv
<1>1. CASE UNCHANGED vars
  BY <1>1 DEF vars
<1>2. ASSUME NEW t \in Threads, OutsideStep(t) PROVE EndInv'
  BY <1>2, OutsideFrame DEF SameDumps, InDump
<1>3. ASSUME NEW t \in Threads, DumpStep(t) PROVE EndInv'
  <2>1. \A s \in Threads : pc'[s] = "end" => s = t
    <3>1. {"end"} \in SUBSET InDump
      BY DEF InDump
    <3>2. ASSUME NEW s \in Threads, pc'[s] = "end", s # t PROVE FALSE
      <4>1. pc[s] = "end"
        BY <1>3, <3>2, DumpFrame
      <4>2. pc[t] = "end"
        BY <1>3, <3>1, <4>1, DumpAlone DEF Making
      <4>3. QED
        BY <3>2, <4>1, <4>2, OneDumper DEF InDump
    <3>3. QED
      BY <3>2
  <2> USE DEF StoreTypeOK
  <2>2. CASE BeginCopy(t)
    <3>1. file'.loads # Whole /\ file'.agg = tmp.agg /\ file'.master = tmp.master
          /\ file'.slices = tmp.slices /\ tmp' = tmp
      BY <2>2 DEF BeginCopy, Dump, Whole
    <3>2. QED
      BY <3>1
  <2>3. CASE ~BeginCopy(t)
    <3>1. pc'[t] # "end"
      BY <1>3, <2>3 DEF DumpStep, AcquireDumpLock, PickleAgg, PickleSlices, PickleFails,
                        CloseTmp, EndCopy, Goto
    <3>2. QED
      BY <2>1, <3>1
  <2>4. QED
    BY <2>2, <2>3
<1>4. CASE Crash
  BY <1>4 DEF Crash
<1>5. CASE Restore
  BY <1>5 DEF Restore, files
<1>6. ASSUME NEW t \in Threads, StartAnew(t) PROVE EndInv'
  BY <1>6 DEF StartAnew, Goto, StoreTypeOK, files
<1>7. QED
  BY <1>1, <1>2, <1>3, <1>4, <1>5, <1>6 DEF Next, Work, OutsideStep, DumpStep

-----------------------------------------------------------------------------
\* Calls and threads change the memory.
LEMMA OutsideMaps ==
  ASSUME TypeInv, NEW t \in Threads, OutsideStep(t)
  PROVE  Mapped
<1>1. UNCHANGED <<tmp, file, am>> /\ am # "down"
  BY OutsideFrame DEF SameDumps
<1>2. \A P \in SUBSET InDump :
        (\E s \in Threads : pc'[s] \in P) <=> (\E s \in Threads : pc[s] \in P)
  BY OutsideFrame DEF SameDumps
<1>3. SlicesPlaces \in SUBSET InDump /\ PoolPlaces \in SUBSET InDump /\ {"end"} \in SUBSET InDump
  BY DEF SlicesPlaces, PoolPlaces, InDump
<1>4. UNCHANGED Copy
  BY <1>1, <1>2, <1>3 DEF Copy
<1>5. SlicesStore!Change
  BY <1>1, <1>2, <1>3, <1>4
     DEF SlicesStore!Change, SlicesStore!Running, Memory, InTheMaking, SlicesPlaces
<1>6. PoolStore!Change
  BY <1>1, <1>2, <1>3, <1>4
     DEF PoolStore!Change, PoolStore!Running, Memory, InTheMaking, PoolPlaces
<1>7. QED
  BY <1>5, <1>6 DEF Mapped, SlicesStore!Next, PoolStore!Next

\* The memory before and after a step of dumpState.
LEMMA DumpMemory ==
  ASSUME TypeInv, NEW t \in Threads, DumpStep(t)
  PROVE  /\ Memory(slices) = {slices} /\ Memory(slices)' = {slices}
         /\ Memory(<<agg, master>>) = {<<agg, master>>}
         /\ Memory(<<agg, master>>)' = {<<agg, master>>}
<1>1. UNCHANGED <<agg, master, slices>> /\ am # "down"
  BY DumpFrame
<1>2. am' # "down"
  BY <1>1 DEF DumpStep, AcquireDumpLock, PickleAgg, PickleSlices, PickleFails, CloseTmp,
         BeginCopy, EndCopy
<1>3. QED
  BY <1>1, <1>2 DEF Memory

\* dumpState: each part is read in one step, and both are copied in the same.
LEMMA DumpMaps ==
  ASSUME DInv, NEW t \in Threads, DumpStep(t)
  PROVE  Mapped
<1> DEFINE ms == Memory(slices)
           mp == Memory(<<agg, master>>)
           ss == InTheMaking(SlicesPlaces, tmp.slices)
           sp == InTheMaking(PoolPlaces, <<tmp.agg, tmp.master>>)
           fs == file.slices
           fp == <<file.agg, file.master>>
<1>1. ms = {slices} /\ ms' = {slices} /\ mp = {<<agg, master>>} /\ mp' = {<<agg, master>>}
  BY DumpMemory DEF DInv
<1>2. SlicesPlaces \in SUBSET InDump /\ PoolPlaces \in SUBSET InDump /\ {"end"} \in SUBSET InDump
  BY DEF SlicesPlaces, PoolPlaces, InDump
<1>3. /\ ss = IF pc[t] \in SlicesPlaces THEN {tmp.slices} ELSE {}
      /\ ss' = IF pc'[t] \in SlicesPlaces THEN {tmp'.slices} ELSE {}
      /\ sp = IF pc[t] \in PoolPlaces THEN {<<tmp.agg, tmp.master>>} ELSE {}
      /\ sp' = IF pc'[t] \in PoolPlaces THEN {<<tmp'.agg, tmp'.master>>} ELSE {}
  BY <1>2, DumpAlone DEF InTheMaking, Making, DInv
<1>4. /\ Copy = IF file.loads = Whole THEN "whole"
                ELSE IF pc[t] = "end" THEN "copying" ELSE "torn"
      /\ Copy' = IF file'.loads = Whole THEN "whole"
                 ELSE IF pc'[t] = "end" THEN "copying" ELSE "torn"
  BY <1>2, DumpAlone DEF Copy, Making, DInv
<1>5. \A place : Goto(t, place) => pc'[t] = place
  BY DEF Goto, DInv, TypeInv, StoreTypeOK
<1> DEFINE Stutters == UNCHANGED <<ms, ss, fs, Copy>>
           PoolStutters == UNCHANGED <<mp, sp, fp, Copy>>
<1>6. /\ Stutters \/ SlicesStore!Next => [SlicesStore!Next]_(SlicesStore!vars)
      /\ PoolStutters \/ PoolStore!Next => [PoolStore!Next]_(PoolStore!vars)
  BY StoreVars DEF SlicesStore!vars, PoolStore!vars, SlicesPlaces, PoolPlaces
<1> USE DEF SlicesPlaces, PoolPlaces
<1>7. CASE AcquireDumpLock(t)
  <2>1. pc[t] = "acquire" /\ pc'[t] = "agg" /\ UNCHANGED <<tmp, file>>
    BY <1>5, <1>7 DEF AcquireDumpLock, files
  <2>2. Stutters /\ PoolStutters
    BY <1>1, <1>3, <1>4, <2>1
  <2>3. QED
    BY <1>6, <2>2 DEF Mapped
<1>8. CASE PickleAgg(t)
  <2>1. pc[t] = "agg" /\ pc'[t] = "slices" /\ UNCHANGED file
        /\ tmp'.agg = agg /\ tmp'.master = master
    BY <1>5, <1>8 DEF PickleAgg, Dump
  <2>2. Stutters
    BY <1>1, <1>3, <1>4, <2>1
  <2>3. PoolStore!Snapshot
    BY <1>1, <1>3, <1>4, <2>1 DEF PoolStore!Snapshot, PoolStore!Running
  <2>4. QED
    BY <1>6, <2>2, <2>3 DEF Mapped, PoolStore!Next
<1>9. CASE PickleSlices(t)
  <2>1. pc[t] = "slices" /\ pc'[t] = "close" /\ UNCHANGED file
        /\ tmp'.agg = tmp.agg /\ tmp'.master = tmp.master /\ tmp'.slices = slices
    BY <1>5, <1>9 DEF PickleSlices, Dump
  <2>2. SlicesStore!Snapshot
    BY <1>1, <1>3, <1>4, <2>1 DEF SlicesStore!Snapshot, SlicesStore!Running
  <2>3. PoolStutters
    BY <1>1, <1>3, <1>4, <2>1
  <2>4. QED
    BY <1>6, <2>2, <2>3 DEF Mapped, SlicesStore!Next
<1>10. CASE PickleFails(t)
  <2>1. pc[t] \in {"slices", "close"} /\ pc'[t] \in {"idle", "finish"} /\ UNCHANGED <<tmp, file>>
    BY <1>5, <1>10 DEF PickleFails, files, DInv, TypeInv, StoreTypeOK
  <2>2. SlicesStore!Drop /\ PoolStore!Drop
    BY <1>1, <1>3, <1>4, <2>1 DEF SlicesStore!Drop, PoolStore!Drop
  <2>3. QED
    BY <1>6, <2>2 DEF Mapped, SlicesStore!Next, PoolStore!Next
<1>11. CASE CloseTmp(t)
  <2>1. pc[t] = "close" /\ pc'[t] = "copy" /\ UNCHANGED file
        /\ tmp'.agg = tmp.agg /\ tmp'.master = tmp.master /\ tmp'.slices = tmp.slices
    BY <1>5, <1>11 DEF CloseTmp, Dump
  <2>2. Stutters /\ PoolStutters
    BY <1>1, <1>3, <1>4, <2>1
  <2>3. QED
    BY <1>6, <2>2 DEF Mapped
<1>12. CASE BeginCopy(t)
  <2>1. /\ pc[t] = "copy" /\ pc'[t] = "end"
        /\ file'.agg = tmp.agg /\ file'.master = tmp.master /\ file'.slices = tmp.slices
        /\ file'.loads # Whole
    BY <1>5, <1>12 DEF BeginCopy, Dump, Whole
  <2>2. SlicesStore!BeginCopy /\ PoolStore!BeginCopy
    BY <1>1, <1>3, <1>4, <2>1 DEF SlicesStore!BeginCopy, PoolStore!BeginCopy
  <2>3. QED
    BY <1>6, <2>2 DEF Mapped, SlicesStore!Next, PoolStore!Next
<1>13. CASE EndCopy(t)
  <2>1. /\ pc[t] = "end" /\ pc'[t] \in {"idle", "finish"}
        /\ file' = tmp /\ tmp.loads = Whole /\ file.loads # Whole
        /\ file.agg = tmp.agg /\ file.master = tmp.master /\ file.slices = tmp.slices
    BY <1>5, <1>13 DEF EndCopy, DInv, TypeInv, StoreTypeOK, CopyInv, EndInv
  <2>2. SlicesStore!EndCopy /\ PoolStore!EndCopy
    BY <1>1, <1>3, <1>4, <2>1 DEF SlicesStore!EndCopy, PoolStore!EndCopy
  <2>3. QED
    BY <1>6, <2>2 DEF Mapped, SlicesStore!Next, PoolStore!Next
<1>14. QED
  BY <1>7, <1>8, <1>9, <1>10, <1>11, <1>12, <1>13 DEF DumpStep

\* The AM stops, and starts again with what the file has, if it loads.
LEMMA RestartMaps ==
  ASSUME DInv, Crash \/ Restore \/ \E t \in Threads : StartAnew(t)
  PROVE  Mapped
<1> USE DEF DInv, TypeInv, Memory, InTheMaking
<1>1. CASE Crash
  <2>1. /\ am # "down" /\ am' = "down" /\ UNCHANGED <<tmp, file>>
        /\ \A t \in Threads : pc'[t] = "idle"
    BY <1>1 DEF Crash, files
  <2>2. Copy' = IF Copy = "copying" THEN "torn" ELSE Copy
    BY <2>1 DEF Copy
  <2>3. SlicesStore!Stop /\ PoolStore!Stop
    BY <2>1, <2>2 DEF SlicesStore!Stop, PoolStore!Stop, SlicesStore!Running, PoolStore!Running
  <2>4. QED
    BY <2>3 DEF Mapped, SlicesStore!Next, PoolStore!Next
<1>2. CASE Restore
  <2>1. /\ am = "down" /\ am' = "up" /\ UNCHANGED <<tmp, file, pc>>
        /\ agg' = file.agg /\ master' = file.master /\ slices' = file.slices
        /\ UNCHANGED Copy
    BY <1>2 DEF Restore, files, Copy
  <2>2. SlicesStore!Start /\ PoolStore!Start
    BY <2>1 DEF SlicesStore!Start, PoolStore!Start, SlicesStore!Running, PoolStore!Running
  <2>3. QED
    BY <2>2 DEF Mapped, SlicesStore!Next, PoolStore!Next
<1>3. ASSUME NEW t \in Threads, StartAnew(t) PROVE Mapped
  <2>1. /\ am = "down" /\ am' = "boot" /\ UNCHANGED <<tmp, file>> /\ file.loads # Whole
        /\ agg' = Slots \X {crashes} /\ master' = crashes
        /\ slices' \in {file.slices, NoSlices}
    BY <1>3 DEF StartAnew, files
  <2>2. /\ \A s \in Threads : pc[s] = "idle"
        /\ \A s \in Threads : pc'[s] \in {"idle", "acquire"}
        /\ crashes \in Masters
    BY <1>3, <2>1 DEF StartAnew, Goto, Local, StoreTypeOK
  <2>3. Copy = "torn" /\ Copy' = "torn"
    BY <2>1, <2>2 DEF Copy
  <2>4. SlicesStore!Start /\ PoolStore!Start
    BY <2>1, <2>2, <2>3
       DEF SlicesStore!Start, PoolStore!Start, SlicesStore!Running, PoolStore!Running
  <2>5. QED
    BY <2>4 DEF Mapped, SlicesStore!Next, PoolStore!Next
<1>4. QED
  BY <1>1, <1>2, <1>3

LEMMA NextMaps ==
  ASSUME DInv, [Next]_vars
  PROVE  Mapped
<1>1. CASE UNCHANGED vars
  BY <1>1 DEF vars, Mapped, SlicesStore!vars, PoolStore!vars, Memory, InTheMaking, Copy
<1>2. CASE Next
  BY <1>2, OutsideMaps, DumpMaps, RestartMaps DEF Next, Work, OutsideStep, DumpStep, DInv
<1>3. QED
  BY <1>1, <1>2

LEMMA DInvAlways == Spec => []DInv
<1>1. Init => DInv
  BY InitType DEF Init, DInv, CopyInv, EndInv
<1>2. DInv /\ [Next]_vars => DInv'
  BY NextType, CopyStep, EndStep DEF DInv
<1>3. QED
  BY <1>1, <1>2, PTL DEF Spec

\* A restart of the AM gives back _slices as it was at one moment, that at which
\* the last dump that reached the file read it; a dump never overwrites one that
\* read _slices later; only a stop during the copy may lose it.
THEOREM SlicesDurability == Spec => SlicesAreDurable
<1>1. Init => SlicesStore!Init
  BY DEF Init, SlicesStore!Init, Memory, InTheMaking, Copy, Dump, Whole
<1>2. DInv /\ [Next]_vars => [SlicesStore!Next]_(SlicesStore!vars)
  BY NextMaps DEF Mapped
<1>3. QED
  BY <1>1, <1>2, DInvAlways, PTL DEF Spec, SlicesAreDurable, SlicesStore!Spec

\* The same for the pool of _agg.
THEOREM PoolDurability == Spec => PoolIsDurable
<1>1. Init => PoolStore!Init
  BY DEF Init, PoolStore!Init, Memory, InTheMaking, Copy, Dump, Whole
<1>2. DInv /\ [Next]_vars => [PoolStore!Next]_(PoolStore!vars)
  BY NextMaps DEF Mapped
<1>3. QED
  BY <1>1, <1>2, DInvAlways, PTL DEF Spec, PoolIsDurable, PoolStore!Spec
=============================================================================
