----------------------------- MODULE StateStore -----------------------------
(***************************************************************************)
(* The state file of the aggregate manager (testbed.py): dumpState, called *)
(* by every call and thread that changes something, and the restoration in *)
(* __init__ after the AM was stopped at any moment.  What is pickled is    *)
(* reduced to two parts: _agg, here the containers that are in the pool of *)
(* its DockerMaster, and _slices, here one sliver for a slice.  Calls for  *)
(* one sliver do not overlap (SliverAllocation and Provisioning have that);*)
(* those for different ones do, and all share DUMP_LOCK.                   *)
(***************************************************************************)
EXTENDS Naturals

CONSTANTS
  Threads,     \* API calls and the threads they start
  Slices, Slots,
  HasProxy,    \* docker_am_config has a section "proxy"
  CallsRaise,  \* a call that has changed something may raise before it dumps
  MaxCrashes,  \* bound: how often the AM is stopped
  None

\* A new Aggregate gets a new DockerMaster with new containers.
Masters == 0..MaxCrashes
Containers == Slots \X Masters
Ops == {"pending", "configuring", "ready_busy", "ready", "not_ready", "failed"}
Slivers == Containers \X Ops

ASSUME StoreAssumption ==
  /\ None \notin Threads \cup Slices \cup Containers \cup Slivers
  /\ HasProxy \in BOOLEAN /\ CallsRaise \in BOOLEAN
  /\ MaxCrashes \in Nat

\* How much of a file loads: nothing, _agg, then _slices, then
\* proxy_dockermaster, then everything.
Whole == 4

VARIABLES
  agg,      \* the containers in the pool of the DockerMaster of _agg
  master,   \* that DockerMaster
  slices,   \* slices[u]: container and operational state of its sliver, or None
  tmp, file,  \* STATE_FILENAME.tmp and STATE_FILENAME
  lock,     \* DUMP_LOCK
  mutated,  \* a dictionary has got or lost a key since pickling began
  am,       \* "down", "boot" (in __init__) or "up"
  crashes,
  pc,
  next,     \* next[t]: where t goes on after dumpState
  on, took  \* the slice, and the container matched, that t is about

mem == <<agg, master, slices>>
files == <<tmp, file>>
local == <<next, on, took>>
vars == <<agg, master, slices, tmp, file, lock, mutated, am, crashes, pc, next, on, took>>

Places == {"idle", "publish", "remove", "setup", "finish",
           "acquire", "agg", "slices", "close", "copy", "end"}
InDump == {"agg", "slices", "close", "copy", "end"}

Dump(a, m, s, n) == [agg |-> a, master |-> m, slices |-> s, loads |-> n]
Dumps == [agg : SUBSET Containers, master : Masters,
          slices : [Slices -> Slivers \cup {None}], loads : 0..Whole]

StoreTypeOK ==
  /\ agg \in SUBSET Containers
  /\ master \in Masters
  /\ slices \in [Slices -> Slivers \cup {None}]
  /\ tmp \in Dumps /\ file \in Dumps
  /\ lock \in Threads \cup {None}
  /\ mutated \in BOOLEAN
  /\ am \in {"down", "boot", "up"}
  /\ crashes \in Masters
  /\ pc \in [Threads -> Places]
  /\ next \in [Threads -> {"idle", "finish"}]
  /\ on \in [Threads -> Slices \cup {None}]
  /\ took \in [Threads -> Containers \cup {None}]
  /\ \A t \in Threads : lock = t <=> pc[t] \in InDump

NoSlices == [u \in Slices |-> None]

Init ==
  /\ agg = {} /\ master = 0 /\ slices = NoSlices
  /\ tmp = Dump({}, 0, NoSlices, 0) /\ file = Dump({}, 0, NoSlices, 0)
  /\ lock = None /\ mutated = FALSE
  /\ am = "down" /\ crashes = 0
  /\ pc = [t \in Threads |-> "idle"] /\ next = [t \in Threads |-> "idle"]
  /\ on = [t \in Threads |-> None] /\ took = [t \in Threads |-> None]

-----------------------------------------------------------------------------
Goto(t, place) == pc' = [pc EXCEPT ![t] = place]
Ready(t) == am = "up" /\ pc[t] = "idle"
\* A thread that has changed something goes on to dump it.
AfterChange == {"acquire"} \cup (IF CallsRaise THEN {"idle"} ELSE {})
Save(t) == \E place \in AfterChange : Goto(t, place)
SetOp(u, op) == slices' = [slices EXCEPT ![u] = <<@[1], op>>]
\* A thread is at work for the sliver of u.
Busy(u) == \E t \in Threads : on[t] = u

-----------------------------------------------------------------------------
\* Allocate: what becomes of one container.

Allocate(t, u, c) ==
  /\ Ready(t) /\ slices[u] = None /\ ~Busy(u) /\ c \in agg
  /\ agg' = agg \ {c}
  /\ on' = [on EXCEPT ![t] = u] /\ took' = [took EXCEPT ![t] = c]
  /\ Goto(t, "publish")
  /\ UNCHANGED <<master, slices, files, lock, mutated, am, crashes, next>>

\* A call that fails now loses the container, and returns without a dump.
AbortAllocation(t) ==
  /\ pc[t] = "publish"
  /\ on' = [on EXCEPT ![t] = None] /\ took' = [took EXCEPT ![t] = None]
  /\ Goto(t, "idle")
  /\ UNCHANGED <<mem, files, lock, mutated, am, crashes, next>>

PublishSlice(t) ==
  /\ pc[t] = "publish"
  /\ slices' = [slices EXCEPT ![on[t]] = <<took[t], "pending">>]
  /\ mutated' = TRUE
  /\ on' = [on EXCEPT ![t] = None] /\ took' = [took EXCEPT ![t] = None]
  /\ Save(t)
  /\ UNCHANGED <<agg, master, files, lock, am, crashes, next>>

-----------------------------------------------------------------------------
\* Delete and expire_slivers.

\* _agg.deallocate and reset: back into the pool of its own DockerMaster, which
\* is that of _agg unless the latter is new.
Deallocate(t, u) ==
  /\ Ready(t) /\ slices[u] # None /\ \A s \in Threads : on[s] = u => next[s] = "finish"
  /\ agg' = IF slices[u][1][2] = master THEN agg \cup {slices[u][1]} ELSE agg
  /\ mutated' = TRUE
  /\ on' = [on EXCEPT ![t] = u]
  /\ Goto(t, "remove")
  /\ UNCHANGED <<master, slices, files, lock, am, crashes, next, took>>

\* The sliver leaves its slice and the slice _slices; what a provisioning thread
\* does to the sliver from now on is nobody's.
ForgetSlice(t) ==
  /\ pc[t] = "remove"
  /\ slices' = [slices EXCEPT ![on[t]] = None]
  /\ mutated' = TRUE
  /\ on' = [s \in Threads |-> IF on[s] = on[t] THEN None ELSE on[s]]
  /\ Save(t)
  /\ UNCHANGED <<agg, master, files, lock, am, crashes, next, took>>

-----------------------------------------------------------------------------
\* Provision and PerformOperationalAction.

\* Provision, geni_reload and geni_restart start a thread w, then dump.
Provision(t, w, u) ==
  /\ Ready(t) /\ Ready(w) /\ t # w
  /\ slices[u] # None /\ slices[u][2] # "configuring" /\ ~Busy(u)
  /\ SetOp(u, "configuring")
  /\ mutated' = TRUE
  /\ next' = [next EXCEPT ![w] = "finish"]
  /\ on' = [on EXCEPT ![w] = u]
  /\ \E place \in AfterChange : pc' = [pc EXCEPT ![w] = "setup", ![t] = place]
  /\ UNCHANGED <<agg, master, files, lock, am, crashes, took>>

\* Renew and geni_update_users change what is not modelled, and geni_stop.
Act(t) ==
  /\ Ready(t)
  /\ \/ UNCHANGED slices
     \/ \E u \in Slices : /\ slices[u] # None /\ slices[u][2] = "ready" /\ ~Busy(u)
                          /\ SetOp(u, "not_ready")
  /\ mutated' = TRUE
  /\ Save(t)
  /\ UNCHANGED <<agg, master, files, lock, am, crashes, next, on, took>>

\* provision_install_execute_sliver.  on[w] is None if the sliver was deleted.
SetMine(w, op) == IF on[w] = None THEN UNCHANGED slices ELSE SetOp(on[w], op)

\* It fails or raises: no dump.
SetupFails(w) ==
  /\ pc[w] = "setup"
  /\ SetMine(w, "failed") \/ UNCHANGED slices
  /\ next' = [next EXCEPT ![w] = "idle"]
  /\ on' = [on EXCEPT ![w] = None]
  /\ Goto(w, "idle")
  /\ UNCHANGED <<agg, master, files, lock, mutated, am, crashes, took>>

ReadyBusy(w) ==
  /\ pc[w] = "setup"
  /\ SetMine(w, "ready_busy")
  /\ Goto(w, "acquire")
  /\ UNCHANGED <<agg, master, files, lock, mutated, am, crashes, local>>

\* One install service, then a dump.
Install(w) ==
  /\ pc[w] = "finish"
  /\ SetMine(w, "failed") \/ UNCHANGED slices
  /\ Goto(w, "acquire")
  /\ UNCHANGED <<agg, master, files, lock, mutated, am, crashes, local>>

\* The services of the sliver, or one of them, cannot be read: the exception
\* ends the thread as it is, without a dump.
InstallRaises(w) ==
  /\ pc[w] = "finish"
  /\ next' = [next EXCEPT ![w] = "idle"]
  /\ on' = [on EXCEPT ![w] = None]
  /\ Goto(w, "idle")
  /\ UNCHANGED <<mem, files, lock, mutated, am, crashes, took>>

\* geni_ready: no dump follows.
Finish(w) ==
  /\ pc[w] = "finish"
  /\ SetMine(w, "ready")
  /\ next' = [next EXCEPT ![w] = "idle"]
  /\ on' = [on EXCEPT ![w] = None]
  /\ Goto(w, "idle")
  /\ UNCHANGED <<agg, master, files, lock, mutated, am, crashes, took>>

-----------------------------------------------------------------------------
\* dumpState.

\* Mutant: somebody is dumping already, so there is nothing to do.
AcquireOrSkip(t) ==
  /\ pc[t] = "acquire"
  /\ IF lock = None THEN lock' = t /\ Goto(t, "agg")
                    ELSE Goto(t, next[t]) /\ UNCHANGED lock
  /\ UNCHANGED <<mem, files, mutated, am, crashes, local>>

\* Mutant: DUMP_LOCK.acquire(False), whose result is not looked at.
AcquireFalse(t) ==
  /\ pc[t] = "acquire"
  /\ lock' = IF lock = None THEN t ELSE lock
  /\ Goto(t, "agg")
  /\ UNCHANGED <<mem, files, mutated, am, crashes, local>>

AcquireDumpLock(t) ==
  /\ pc[t] = "acquire"
  /\ lock = None
  /\ lock' = t
  /\ Goto(t, "agg")
  /\ UNCHANGED <<mem, files, mutated, am, crashes, local>>

\* The temporary file is truncated, and _agg pickled.
PickleAgg(t) ==
  /\ pc[t] = "agg"
  /\ tmp' = Dump(agg, master, NoSlices, 0)
  /\ mutated' = FALSE
  /\ Goto(t, "slices")
  /\ UNCHANGED <<mem, file, lock, am, crashes, local>>

\* Each part is read at a moment of its own.
PickleSlices(t) ==
  /\ pc[t] = "slices"
  /\ tmp' = Dump(tmp.agg, tmp.master, slices, 0)
  /\ Goto(t, "close")
  /\ UNCHANGED <<mem, file, lock, mutated, am, crashes, local>>

\* Mutant: "return" in the "except".
PickleReturns(t) ==
  /\ pc[t] \in {"slices", "close"}
  /\ mutated
  /\ pc' = [pc EXCEPT ![t] = next[t]]
  /\ UNCHANGED <<mem, files, lock, mutated, am, crashes, local>>

\* RuntimeError: dictionary changed size during iteration.  It is ignored.
PickleFails(t) ==
  /\ pc[t] \in {"slices", "close"}
  /\ mutated
  /\ lock' = None
  /\ Goto(t, next[t])
  /\ UNCHANGED <<mem, files, mutated, am, crashes, local>>

\* Mutant: no close before the copy.
CopyUnflushed(t) ==
  /\ pc[t] = "close"
  /\ Goto(t, "copy")
  /\ UNCHANGED <<mem, files, lock, mutated, am, crashes, local>>

CloseTmp(t) ==
  /\ pc[t] = "close"
  /\ tmp' = Dump(tmp.agg, tmp.master, tmp.slices, Whole)
  /\ Goto(t, "copy")
  /\ UNCHANGED <<mem, file, lock, mutated, am, crashes, local>>

\* copyfile: for a while the file is a part of the new one.
BeginCopy(t) ==
  /\ pc[t] = "copy"
  /\ \E n \in 0..(Whole - 1) : file' = Dump(tmp.agg, tmp.master, tmp.slices, n)
  /\ Goto(t, "end")
  /\ UNCHANGED <<mem, tmp, lock, mutated, am, crashes, local>>

EndCopy(t) ==
  /\ pc[t] = "end"
  /\ file' = tmp
  /\ lock' = None
  /\ am' = "up"
  /\ Goto(t, next[t])
  /\ UNCHANGED <<mem, tmp, mutated, crashes, local>>

-----------------------------------------------------------------------------
\* The AM stops: nothing of its memory stays.
Crash ==
  /\ am # "down" /\ crashes < MaxCrashes
  /\ am' = "down" /\ crashes' = crashes + 1
  /\ agg' = {} /\ master' = 0 /\ slices' = NoSlices
  /\ lock' = None /\ mutated' = FALSE
  /\ pc' = [t \in Threads |-> "idle"] /\ next' = [t \in Threads |-> "idle"]
  /\ on' = [t \in Threads |-> None] /\ took' = [t \in Threads |-> None]
  /\ UNCHANGED files

\* __init__ with a file that loads.
Restore ==
  /\ am = "down" /\ file.loads = Whole
  /\ agg' = file.agg /\ master' = file.master /\ slices' = file.slices
  /\ am' = "up"
  /\ UNCHANGED <<files, lock, mutated, crashes, pc, local>>

\* __init__ with no file, or one of which only the beginning loads: _agg is new,
\* _slices stays as it was loaded, and then there is a dump.  With a proxy it
\* raises if proxy_dockermaster was loaded.
StartAnew(t) ==
  /\ am = "down" /\ file.loads # Whole
  /\ ~(HasProxy /\ file.loads = 3)
  /\ agg' = Slots \X {crashes} /\ master' = crashes
  /\ slices' = IF file.loads >= 2 THEN file.slices ELSE NoSlices
  /\ am' = "boot"
  /\ Goto(t, "acquire")
  /\ UNCHANGED <<files, lock, mutated, crashes, local>>

-----------------------------------------------------------------------------
Work(t) ==
  \/ AbortAllocation(t) \/ PublishSlice(t) \/ ForgetSlice(t)
  \/ SetupFails(t) \/ ReadyBusy(t) \/ Install(t) \/ InstallRaises(t) \/ Finish(t)
  \/ AcquireDumpLock(t) \/ PickleAgg(t) \/ PickleSlices(t) \/ PickleFails(t)
  \/ CloseTmp(t) \/ BeginCopy(t) \/ EndCopy(t)

Call(t) ==
  \/ \E u \in Slices, c \in Containers : Allocate(t, u, c)
  \/ \E u \in Slices : Deallocate(t, u)
  \/ \E w \in Threads, u \in Slices : Provision(t, w, u)
  \/ Act(t)

Next ==
  \/ \E t \in Threads : Work(t) \/ Call(t) \/ StartAnew(t)
  \/ Crash \/ Restore

Spec == Init /\ [][Next]_vars

\* A thread that can go on does; a lock that is free again and again is had; the
\* list of services comes to its end.
Fairness ==
  \A t \in Threads : WF_vars(Work(t)) /\ SF_vars(AcquireDumpLock(t)) /\ SF_vars(Finish(t))
FairSpec == Spec /\ Fairness

-----------------------------------------------------------------------------
\* The dump f has what a restart must give back: the free containers, and for
\* each slice its sliver, which is at least busy getting ready if it is ready.
Up == {"ready_busy", "ready", "failed"}
SavedSliver(f, u) ==
  /\ slices[u] = None <=> f.slices[u] = None
  /\ slices[u] # None => /\ f.slices[u][1] = slices[u][1]
                         /\ slices[u][2] = "ready" => f.slices[u][2] \in Up
Saved(f) ==
  /\ f.loads = Whole
  /\ f.master = master /\ agg \subseteq f.agg
  /\ \A u \in Slices : SavedSliver(f, u)

\* When no call or thread is at work, a restart gives back every sliver and
\* every free container: though dumpState swallows the RuntimeError of a dump
\* that met another thread's change, that thread dumps again, and no dump that
\* began before overwrites a later one.
QuiescentIsSaved ==
  am = "up" /\ (\A t \in Threads : pc[t] = "idle") => Saved(file)

\* dumpState never has the file and its .tmp in the making at a time: an AM that
\* is up has a whole copy of its state on disk, and the copy outlasts every dump,
\* stop and start but one kind.  That is the dump of a start that found no file
\* that loads: __init__ does not look at .tmp, and dumpState truncates it.
HasCopy == Whole \in {tmp.loads, file.loads}
CopyKept == HasCopy /\ ~HasCopy' => am = "boot" /\ file.loads # Whole
AWholeCopy == [](am = "up" => HasCopy) /\ [][CopyKept]_vars

\* A call or thread ends, however the others keep DUMP_LOCK busy.
CallsFinish == \A t \in Threads : pc[t] # "idle" ~> pc[t] = "idle"

\* "Running docker containers will keep running when the AM stops, and can be
\* controlled again when the AM restarts" (src/README.md:10):
\* PerformOperationalAction asks for geni_ready.
ControllableAfterRestart ==
  am = "up" /\ (\A t \in Threads : pc[t] = "idle") =>
    \A u \in Slices : slices[u] # None /\ slices[u][2] = "ready" =>
      file.slices[u] # None /\ file.slices[u][2] = "ready"
=============================================================================
