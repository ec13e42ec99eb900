-------------------------- MODULE StateStoreDurable --------------------------
(***************************************************************************)
(* Each of the two parts of the state file is a DurableStore.  (The file as*)
(* a whole is not: dumpState reads the parts at two moments.)              *)
(***************************************************************************)
EXTENDS StateStore

Memory(v) == IF am = "down" THEN {} ELSE {v}

\* What the thread that is at one of these places has read of the part.
InTheMaking(places, v) == IF \E t \in Threads : pc[t] \in places THEN {v} ELSE {}

Copy ==
  IF file.loads = Whole THEN "whole"
  ELSE IF \E t \in Threads : pc[t] = "end" THEN "copying" ELSE "torn"

SlicesStore == INSTANCE DurableStore WITH
  Empty <- NoSlices,
  Fresh <- {NoSlices},
  mem <- Memory(slices),
  snap <- InTheMaking({"close", "copy"}, tmp.slices),
  saved <- file.slices,
  copy <- Copy

PoolStore == INSTANCE DurableStore WITH
  Empty <- <<{}, 0>>,
  Fresh <- {<<Slots \X {n}, n>> : n \in Masters},
  mem <- Memory(<<agg, master>>),
  snap <- InTheMaking({"slices", "close", "copy"}, <<tmp.agg, tmp.master>>),
  saved <- <<file.agg, file.master>>,
  copy <- Copy

\* A restart gives back the slices, all of them as they were when the last dump
\* that reached the file read them: not a mixture of two dumps, nor of the dump
\* of one thread and the changes of another.
SlicesAreDurable == SlicesStore!Spec

\* And so it does with the pool.
PoolIsDurable == PoolStore!Spec
=============================================================================
