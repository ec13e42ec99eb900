----------------------- MODULE ProvisioningLifeProofs -----------------------
(***************************************************************************)
(* Provisioning implements SliverLife, for any number of containers,       *)
(* threads, ports and slivers, if a container has one thread at a time.    *)
(***************************************************************************)
EXTENDS ProvisioningLife, ProvisioningProofs

\* What a thread that sets a container up, or restarts it, relies on, what it has
\* told of its sliver, and what a deprovision has done so far.
Equipped == {"reserve", "scan", "build", "run", "wait", "ssh", "install", "restart",
             "restarting"}
Deprovisioned == {"delete_rm", "delete_end", "stop_rm", "stop_end", "deprovision_rm",
                  "deprovision_end"}
Ends == {"delete_end", "stop_end", "deprovision_end"}

Progress(t) ==
    /\ pc[t] \in Equipped => chosen[on[t]]
    /\ pc[t] \in Deprovisioned => ~chosen[on[t]]
    /\ pc[t] \in Ends => box[on[t]] = None
    /\ pc[t] = "install" => op[on[t]] \in {"busy", "failed"}

\* A container at which nobody is at work has a sliver type as long as its sliver
\* can be provisioned, stopped or restarted.
Rest(c) ==
    leased[c] # "free" /\ ~Busy(c) =>
        IF chosen[c] THEN op[c] \in {"pending", "ready", "failed", "busy", "configuring"}
                     ELSE op[c] # "ready"

EInv == (\A t \in Threads : Progress(t)) /\ (\A c \in Containers : Rest(c))

-----------------------------------------------------------------------------
(* The invariant *)

LEMMA CallsKeepEInv ==
    ASSUME ~OverlappingOperations, ProvTypeOK, DInv, EInv, NEW c \in Containers,
           \/ Allocate(c) \/ ComeUp(c) \/ ProvisionWithoutKeys(c)
           \/ \E t \in Threads : \/ Provision(t, c) \/ Reload(t, c) \/ Restart(t, c)
                                 \/ Stop(t, c) \/ Delete(t, c)
    PROVE  EInv'
<1> USE DEF ProvTypeOK
<1>1. CASE Allocate(c)
  <2>1. /\ ~Busy(c)
        /\ UNCHANGED <<pc, on, box>>
        /\ chosen'[c] = TRUE /\ op'[c] = "pending"
        /\ \A d \in Containers \ {c} :
              leased'[d] = leased[d] /\ chosen'[d] = chosen[d] /\ op'[d] = op[d]
    BY <1>1 DEF Allocate, DInv, FreeIsQuiet, host, locals
  <2>2. \A t \in Threads : pc[t] # "idle" => on[t] \in Containers \ {c}
    BY <2>1 DEF Busy
  <2>3. \A t \in Threads : Progress(t)'
    BY <2>1, <2>2 DEF EInv, Progress, Equipped, Deprovisioned, Ends
  <2>4. \A d \in Containers : Rest(d)'
    BY <2>1 DEF EInv, Rest, Busy
  <2>5. QED
    BY <2>3, <2>4 DEF EInv
<1>2. CASE ComeUp(c)
  <2>1. /\ UNCHANGED <<leased, op, chosen, pc, on>>
        /\ \A d \in Containers : box[d] = None => box'[d] = None
    BY <1>2 DEF ComeUp, slivers, locals
  <2>2. \A t \in Threads : pc[t] \in Ends => on[t] \in Containers
    BY DEF Ends
  <2>3. QED
    BY <2>1, <2>2 DEF EInv, Progress, Rest, Busy
<1>3. ASSUME NEW t \in Threads,
             Provision(t, c) \/ Reload(t, c) \/ Restart(t, c) \/ Stop(t, c) \/ Delete(t, c)
      PROVE  EInv'
  <2>1. PICK s \in {"prepare", "build", "restart", "stop", "delete"} :
           /\ pc' = [pc EXCEPT ![t] = s]
           /\ s \in {"build", "restart"} => op[c] = "ready"
    BY <1>3 DEF Provision, Reload, Restart, Stop, Delete, Begin, Actionable
  <2>2. /\ pc[t] = "idle" /\ ~Busy(c) /\ leased[c] # "free"
        /\ on' = [on EXCEPT ![t] = c]
        /\ UNCHANGED <<chosen, box>>
        /\ \A d \in Containers \ {c} : op'[d] = op[d] /\ leased'[d] = leased[d]
    BY <1>3 DEF Provision, Reload, Restart, Stop, Delete, Begin, Actionable, host,
                slivers
  <2>3. pc'[t] = s /\ on'[t] = c
    BY <2>1, <2>2
  <2>4. \A u \in Threads \ {t} : pc'[u] = pc[u] /\ on'[u] = on[u]
    BY <2>1, <2>2
  <2>5. s \in {"build", "restart"} => chosen[c]
    BY <2>1, <2>2 DEF EInv, Rest
  <2>6. \A u \in Threads : Progress(u)'
    <3>1. \A u \in Threads : pc[u] # "idle" => on[u] \in Containers \ {c}
      BY <2>2 DEF Busy
    <3>2. QED
      BY <2>2, <2>3, <2>4, <2>5, <3>1 DEF EInv, Progress, Equipped, Deprovisioned, Ends
  <2>7. Busy(c)' /\ \A d \in Containers \ {c} : Busy(d)' <=> Busy(d)
    BY <2>2, <2>3, <2>4 DEF Busy
  <2>8. \A d \in Containers : Rest(d)'
    BY <2>2, <2>7 DEF EInv, Rest
  <2>9. QED
    BY <2>6, <2>8 DEF EInv
<1>4. CASE ProvisionWithoutKeys(c)
  BY <1>4 DEF ProvisionWithoutKeys, host, locals, EInv, Progress, Rest, Busy
<1>5. QED
  BY <1>1, <1>2, <1>3, <1>4

\* What the step of a thread does to the sliver type and the container it works on.
LEMMA StepsOfStages ==
    ASSUME ProvTypeOK, SetupLocal, WorkProgress, NEW t \in Threads, Progress(t), Step(t),
           NEW c \in Containers, c = on[t]
    PROVE  /\ pc'[t] \in Equipped => chosen'[c]
           /\ pc'[t] \in Deprovisioned => ~chosen'[c]
           /\ pc'[t] \in Ends => box'[c] = None
           /\ pc'[t] = "install" => op'[c] \in {"busy", "failed"}
           /\ pc'[t] = "idle" /\ leased'[c] # "free" =>
                 IF chosen'[c] THEN op'[c] \in {"ready", "failed", "busy", "configuring"}
                               ELSE op'[c] # "ready"
<1> USE DEF ProvTypeOK, Equipped, Deprovisioned, Ends
<1>1. /\ pc[t] # "idle" /\ of[t] = sliver[c]
      /\ pc[t] \notin Stopping => op[c] # "ready"
  BY StepsStayLocal DEF WorkProgress, Work
<1>2. pc[t] \in {"prepare", "reserve", "scan", "build", "run", "wait"} =>
         op[c] = "configuring"
  BY DEF SetupLocal
<1>3. /\ pc[t] \in Equipped => chosen[c]
      /\ pc[t] \in Deprovisioned => ~chosen[c]
      /\ pc[t] \in Ends => box[c] = None
      /\ pc[t] = "install" => op[c] \in {"busy", "failed"}
  BY DEF Progress
<1>4. CASE Prepare(t)
  BY <1>2, <1>3, <1>4 DEF Prepare, Goto, End, slivers, host
<1>5. CASE CopyLockedPorts(t) \/ ReservePort(t)
  BY <1>3, <1>5 DEF CopyLockedPorts, ReservePort, Goto, slivers, host
<1>6. CASE Build(t)
  BY <1>3, <1>6 DEF Build, Goto, slivers
<1>7. CASE Run(t)
  BY <1>2, <1>3, <1>7 DEF Run, Goto, End, slivers
<1>8. CASE Wait(t)
  BY <1>2, <1>3, <1>8 DEF Wait, Goto, End, slivers
<1>9. CASE ConnectSsh(t) \/ InstallFails(t) \/ Fail(t)
  BY <1>1, <1>3, <1>9 DEF ConnectSsh, InstallFails, Fail, SetOp, Goto, host, locals
<1>10. CASE Install(t)
  BY <1>1, <1>3, <1>10 DEF Install, SetOp, End, host
<1>11. CASE ReleasePort(t)
  BY <1>11 DEF ReleasePort, Advance, Release, Remove, Goto, slivers
<1>12. CASE RemoveBox(t)
  BY <1>3, <1>12 DEF RemoveBox, Advance, Remove, Forget, Goto, slivers
<1>13. CASE ForgetPort(t)
  BY <1>1, <1>3, <1>13 DEF ForgetPort, Deprovisioning, Forget, SetOp, End, Stopping
<1>14. CASE StopBox(t)
  BY <1>3, <1>14 DEF StopBox, Goto, slivers
<1>15. CASE StartBox(t)
  BY <1>1, <1>3, <1>15 DEF StartBox, SetOp, End
<1>16. CASE InstallRaises(t)
  BY <1>1, <1>3, <1>16 DEF InstallRaises, End, slivers
<1>17. QED
  BY <1>4, <1>5, <1>6, <1>7, <1>8, <1>9, <1>10, <1>11, <1>12, <1>13, <1>14, <1>15,
     <1>16 DEF Step

LEMMA StepsKeepEInv ==
    ASSUME PInv, EInv, NEW t \in Threads, Step(t)
    PROVE  EInv'
<1>. PICK c \in Containers : c = on[t]
  BY StepsStayLocal DEF PInv
<1>. ProvTypeOK /\ SetupLocal /\ WorkProgress /\ OneWorker /\ Progress(t)
  BY DEF PInv, LInv, HInv, EInv
<1>1. \A u \in Threads \ {t} : pc[u] # "idle" => on[u] \in Containers \ {c}
  BY StepsStayLocal DEF OneWorker, ProvTypeOK
<1>2. \A u \in Threads : Progress(u)'
  <2>1. ASSUME NEW u \in Threads \ {t} PROVE Progress(u)'
    <3>1. pc[u] \in Equipped \cup Deprovisioned \cup Ends => pc[u] # "idle"
      BY DEF Equipped, Deprovisioned, Ends
    <3>2. Progress(u) /\ pc'[u] = pc[u] /\ on'[u] = on[u]
      BY StepsStayLocal DEF EInv
    <3>3. pc[u] # "idle" => op'[on[u]] = op[on[u]]
      BY <1>1, StepsOfLocks
    <3>4. QED
      BY <1>1, <3>1, <3>2, <3>3, StepsStayLocal DEF Progress
  <2>2. Progress(t)'
    <3>1. pc'[t] = "idle" \/ on'[t] = c
      BY StepsStayLocal
    <3>2. pc'[t] = "idle" => pc'[t] \notin Equipped \cup Deprovisioned \cup Ends
      BY DEF Equipped, Deprovisioned, Ends
    <3>3. QED
      BY <3>1, <3>2, StepsOfStages DEF Progress
  <2>3. QED
    BY <2>1, <2>2
<1>3. \A d \in Containers : Rest(d)'
  <2>1. ASSUME NEW d \in Containers \ {c} PROVE Rest(d)'
    <3>1. /\ leased'[d] = leased[d] /\ chosen'[d] = chosen[d] /\ op'[d] = op[d]
          /\ Busy(d)' <=> Busy(d)
      BY StepsStayLocal, StepsOfLocks DEF Busy
    <3>2. Rest(d)
      BY DEF EInv
    <3>3. QED
      BY <3>1, <3>2 DEF Rest
  <2>2. Rest(c)'
    <3>1. ~Busy(c)' => pc'[t] = "idle"
      BY StepsStayLocal DEF Busy
    <3>2. QED
      BY <3>1, StepsOfStages DEF Rest
  <2>3. QED
    BY <2>1, <2>2
<1>4. QED
  BY <1>2, <1>3 DEF EInv

LEMMA EInvAlways == ~OverlappingOperations => (Spec => [](PInv /\ EInv))
<1> SUFFICES ASSUME ~OverlappingOperations PROVE Spec => [](PInv /\ EInv)
  OBVIOUS
<1>1. Init => EInv
  BY DEF Init, EInv, Progress, Rest, Equipped, Deprovisioned, Ends
<1>2. PInv /\ EInv /\ [Next]_vars => EInv'
  <2> SUFFICES ASSUME PInv, EInv, [Next]_vars PROVE EInv'
    OBVIOUS
  <2>1. CASE UNCHANGED vars
    BY <2>1 DEF vars, slivers, host, locals, EInv, Progress, Rest, Busy
  <2>2. CASE Next
    BY <2>2, CallsKeepEInv, StepsKeepEInv DEF Next, PInv
  <2>3. QED
    BY <2>1, <2>2
<1>3. QED
  BY <1>1, <1>2, PInvAlways, PTL DEF Spec

-----------------------------------------------------------------------------
(* Reading off the stage *)

Stage(t) ==
    IF pc[t] = "prepare" /\ ~chosen[on[t]] THEN "spent" ELSE StageAt(pc[t])

StageFound(c) ==
    /\ leased[c] = "free" => LifeOf(c) = "free"
    /\ leased[c] # "free" /\ ~Busy(c) => LifeOf(c) = Resting(c)
    /\ \A t \in Threads :
          leased[c] # "free" /\ pc[t] # "idle" /\ on[t] = c => LifeOf(c) = Stage(t)
StagesFound == \A c \in Containers : StageFound(c)

\* The thread that LifeOf chooses is the only one.
LEMMA StagesAreFound == OneWorker => StagesFound
<1> SUFFICES ASSUME OneWorker, NEW c \in Containers PROVE StageFound(c)
  BY DEF StagesFound
<1>1. leased[c] = "free" => LifeOf(c) = "free"
  BY DEF LifeOf
<1>2. leased[c] # "free" /\ ~Busy(c) => LifeOf(c) = Resting(c)
  BY DEF LifeOf
<1>3. ASSUME NEW t \in Threads, leased[c] # "free", pc[t] # "idle", on[t] = c
      PROVE  LifeOf(c) = Stage(t)
  <2>1. Busy(c)
    BY <1>3 DEF Busy
  <2>2. \A u \in Threads : pc[u] # "idle" /\ on[u] = c => u = t
    BY <1>3 DEF OneWorker
  <2>3. (CHOOSE u \in Threads : pc[u] # "idle" /\ on[u] = c) = t
    BY <1>3, <2>2
  <2>4. QED
    BY <1>3, <2>1, <2>3 DEF LifeOf, Stage
<1>4. QED
  BY <1>1, <1>2, <1>3 DEF StageFound

\* The two states of a step, as the proofs below use them.
Both == PInv /\ PInv' /\ EInv /\ StagesFound /\ StagesFound'

\* A sliver stays where it is if nothing happens to its container.
LEMMA KeepsStage ==
    ASSUME Both, NEW c \in Containers,
           leased'[c] = leased[c], op'[c] = op[c], chosen'[c] = chosen[c],
           \A t \in Threads : /\ pc[t] # "idle" /\ on[t] = c => pc'[t] = pc[t] /\ on'[t] = c
                              /\ pc'[t] # "idle" /\ on'[t] = c => pc[t] # "idle" /\ on[t] = c
    PROVE  LifeOf(c)' = LifeOf(c)
<1>1. StageFound(c) /\ StageFound(c)'
  BY DEF Both, StagesFound
<1>2. CASE leased[c] = "free"
  BY <1>1, <1>2 DEF StageFound
<1>3. CASE leased[c] # "free" /\ ~Busy(c)
  <2>1. ~Busy(c)'
    BY <1>3 DEF Busy
  <2>2. Resting(c)' = Resting(c)
    BY DEF Resting, Spent
  <2>3. QED
    BY <1>1, <1>3, <2>1, <2>2 DEF StageFound
<1>4. CASE leased[c] # "free" /\ Busy(c)
  <2>1. PICK t \in Threads : pc[t] # "idle" /\ on[t] = c
    BY <1>4 DEF Busy
  <2>2. pc'[t] = pc[t] /\ on'[t] = c
    BY <2>1
  <2>3. Stage(t)' = Stage(t)
    BY <2>1, <2>2 DEF Stage, StageAt
  <2>4. QED
    BY <1>1, <1>4, <2>1, <2>2, <2>3 DEF StageFound
<1>5. QED
  BY <1>2, <1>3, <1>4

-----------------------------------------------------------------------------
(* The steps of SliverLife *)

Moves(l, m, shut) ==
    \/ l = "free" /\ shut /\ m = "allocated"
    \/ l \in {"allocated", "ready", "broken", "stranded"} /\ m = "setup"
    \/ l = "setup" /\ ~shut /\ m = "install"
    \/ l = "install" /\ m \in {"ready", "stranded", "broken"}
    \/ l = "ready" /\ m = "restart"
    \/ l = "restart" /\ m = "broken"
    \/ l \in {"ready", "setup"} /\ m = "ending"
    \/ l = "ending" /\ shut /\ m = "spent"
    \/ l = "setup" /\ m = "spent"
    \/ l \in {"allocated", "ready", "broken", "stranded", "spent"} /\ m = "deleting"
    \/ l = "deleting" /\ shut /\ m = "free"

\* What may happen to one container: nothing, or its sliver moves on, or its
\* door opens or closes.
Lives(c) ==
    \/ LifeOf(c)' = LifeOf(c) /\ DoorOf(c)' = DoorOf(c)
    \/ DoorOf(c)' = DoorOf(c) /\ Moves(LifeOf(c), LifeOf(c)', DoorOf(c) = NoPort)
    \/ /\ LifeOf(c)' = LifeOf(c)
       /\ \/ LifeOf(c) = "setup" /\ DoorOf(c) = NoPort /\ DoorOf(c)' \in Ports
          \/ LifeOf(c) \in {"setup", "ending", "deleting"} /\ DoorOf(c)' = NoPort

Lived == [Life!Next]_<<[c \in Containers |-> LifeOf(c)], [c \in Containers |-> DoorOf(c)]>>

LEMMA OneLives ==
    ASSUME NEW c \in Containers, Lives(c),
           \A d \in Containers \ {c} : LifeOf(d)' = LifeOf(d) /\ DoorOf(d)' = DoorOf(d)
    PROVE  Lived
<1> DEFINE life == [d \in Containers |-> LifeOf(d)]
           door == [d \in Containers |-> DoorOf(d)]
<1>1. /\ LifeOf(c)' = LifeOf(c) => UNCHANGED life
      /\ DoorOf(c)' = DoorOf(c) => UNCHANGED door
  OBVIOUS
<1>2. /\ life' = [life EXCEPT ![c] = LifeOf(c)']
      /\ door' = [door EXCEPT ![c] = DoorOf(c)']
  OBVIOUS
<1>3. life[c] = LifeOf(c) /\ door[c] = DoorOf(c)
  OBVIOUS
<1>4. CASE LifeOf(c)' = LifeOf(c) /\ DoorOf(c)' = DoorOf(c)
  BY <1>1, <1>4 DEF Lived
<1>5. CASE DoorOf(c)' = DoorOf(c) /\ Moves(LifeOf(c), LifeOf(c)', DoorOf(c) = NoPort)
  <2> HIDE DEF life, door
  <2>1. UNCHANGED door
    BY <1>1, <1>5
  <2>2. Life!Next
    BY <1>2, <1>3, <1>5, <2>1
       DEF Moves, life, door, Life!Next, Life!Move, Life!Allocate, Life!SetUp,
           Life!Connect, Life!GetReady, Life!Strand, Life!BreakOff, Life!Restart, Life!Break, Life!GiveUp, Life!Spend,
           Life!Abort, Life!Delete, Life!Free
  <2>3. QED
    BY <2>2 DEF Lived
<1>6. CASE /\ LifeOf(c)' = LifeOf(c)
           /\ \/ LifeOf(c) = "setup" /\ DoorOf(c) = NoPort /\ DoorOf(c)' \in Ports
              \/ LifeOf(c) \in {"setup", "ending", "deleting"} /\ DoorOf(c)' = NoPort
  BY <1>1, <1>2, <1>3, <1>6 DEF Lived, Life!Next, Life!Open, Life!Close
<1>7. QED
  BY <1>4, <1>5, <1>6 DEF Lives

-----------------------------------------------------------------------------
(* The calls *)

LEMMA CallsLive ==
    ASSUME ~OverlappingOperations, Both, NEW c \in Containers,
           \/ Allocate(c) \/ ComeUp(c) \/ ProvisionWithoutKeys(c)
           \/ \E t \in Threads : \/ Provision(t, c) \/ Reload(t, c) \/ Restart(t, c)
                                 \/ Stop(t, c) \/ Delete(t, c)
    PROVE  Lived
<1>. StageFound(c) /\ StageFound(c)' /\ Rest(c) /\ ProvTypeOK /\ DInv
  BY DEF Both, StagesFound, EInv, PInv
<1> USE DEF ProvTypeOK
<1>1. CASE Allocate(c)
  <2>1. /\ leased[c] = "free" /\ leased'[c] = "leased"
        /\ chosen'[c] = TRUE /\ op'[c] = "pending"
        /\ UNCHANGED <<pc, on, box>>
        /\ \A d \in Containers \ {c} :
              leased'[d] = leased[d] /\ chosen'[d] = chosen[d] /\ op'[d] = op[d]
    BY <1>1 DEF Allocate, host, locals
  <2>2. box[c] = None /\ ~Busy(c)
    BY <2>1 DEF DInv, DeletedLeavesNothing, FreeIsQuiet
  <2>3. LifeOf(c) = "free" /\ LifeOf(c)' = "allocated"
    BY <2>1, <2>2 DEF StageFound, Busy, Resting, Spent
  <2>4. \A d \in Containers : DoorOf(d)' = DoorOf(d)
    BY <2>1 DEF DoorOf
  <2>5. Lives(c)
    BY <2>2, <2>3, <2>4 DEF Lives, Moves, DoorOf
  <2>6. \A d \in Containers \ {c} : LifeOf(d)' = LifeOf(d)
    BY <2>1, KeepsStage
  <2>7. QED
    BY <2>4, <2>5, <2>6, OneLives
<1>2. CASE ComeUp(c)
  <2>1. UNCHANGED <<leased, op, chosen, pc, on>>
    BY <1>2 DEF ComeUp, slivers, locals
  <2>2. \A d \in Containers : LifeOf(d)' = LifeOf(d)
    BY <2>1, KeepsStage
  <2>3. /\ box[c] # None /\ box'[c] # None /\ box'[c].port = box[c].port
        /\ \A d \in Containers \ {c} : box'[d] = box[d]
    BY <1>2, NoneIsNothing DEF ComeUp, Boxes
  <2>4. \A d \in Containers : DoorOf(d)' = DoorOf(d)
    BY <2>3 DEF DoorOf
  <2>5. QED
    BY <2>2, <2>4, OneLives DEF Lives
<1>3. ASSUME NEW t \in Threads,
             Provision(t, c) \/ Reload(t, c) \/ Restart(t, c) \/ Stop(t, c) \/ Delete(t, c)
      PROVE  Lived
  <2>1. PICK s \in {"prepare", "build", "restart", "stop", "delete"} :
           /\ pc' = [pc EXCEPT ![t] = s]
           /\ s \in {"build", "restart", "stop"} => op[c] = "ready"
           /\ s = "prepare" => op[c] # "configuring"
    BY <1>3 DEF Provision, Reload, Restart, Stop, Delete, Begin, Actionable
  <2>2. /\ pc[t] = "idle" /\ ~Busy(c) /\ leased[c] # "free" /\ leased'[c] # "free"
        /\ on' = [on EXCEPT ![t] = c]
        /\ UNCHANGED <<chosen, box>>
        /\ \A d \in Containers \ {c} : op'[d] = op[d] /\ leased'[d] = leased[d]
    BY <1>3 DEF Provision, Reload, Restart, Stop, Delete, Begin, Actionable, host,
                slivers
  <2>3. pc'[t] = s /\ on'[t] = c
    BY <2>1, <2>2
  <2>4. \A u \in Threads \ {t} : pc'[u] = pc[u] /\ on'[u] = on[u]
    BY <2>1, <2>2
  <2>5. LifeOf(c) = Resting(c) /\ LifeOf(c)' = Stage(t)'
    BY <2>2, <2>3 DEF StageFound
  <2>6. Stage(t)' = IF s = "prepare" /\ ~chosen[c] THEN "spent" ELSE StageAt(s)
    BY <2>2, <2>3 DEF Stage, StageAt
  <2>7. LifeOf(c)' = LifeOf(c) \/ Moves(LifeOf(c), LifeOf(c)', DoorOf(c) = NoPort)
    <3>1. chosen[c] = TRUE \/ chosen[c] = FALSE
      OBVIOUS
    <3>2. IF chosen[c]
          THEN op[c] \in {"pending", "ready", "failed", "busy", "configuring"}
          ELSE op[c] # "ready"
      BY <2>2 DEF Rest
    <3>3. CASE s = "prepare"
      BY <2>1, <2>5, <2>6, <3>1, <3>2, <3>3 DEF Moves, Resting, Spent, StageAt
    <3>4. CASE s \in {"build", "restart", "stop"}
      BY <2>1, <2>5, <2>6, <3>1, <3>2, <3>4 DEF Moves, Resting, Spent, StageAt
    <3>5. CASE s = "delete"
      BY <2>5, <2>6, <3>1, <3>2, <3>5 DEF Moves, Resting, Spent, StageAt
    <3>6. QED
      BY <3>3, <3>4, <3>5
  <2>8. \A d \in Containers : DoorOf(d)' = DoorOf(d)
    BY <2>2 DEF DoorOf
  <2>9. \A d \in Containers \ {c} : LifeOf(d)' = LifeOf(d)
    BY <2>2, <2>3, <2>4, KeepsStage
  <2>10. QED
    BY <2>7, <2>8, <2>9, OneLives DEF Lives
<1>4. CASE ProvisionWithoutKeys(c)
  <2>1. UNCHANGED <<leased, op, chosen, box, pc, on>>
    BY <1>4 DEF ProvisionWithoutKeys, host, locals
  <2>2. \A d \in Containers : LifeOf(d)' = LifeOf(d) /\ DoorOf(d)' = DoorOf(d)
    BY <2>1, KeepsStage DEF DoorOf
  <2>3. QED
    BY <2>2 DEF Lived
<1>5. QED
  BY <1>1, <1>2, <1>3, <1>4

-----------------------------------------------------------------------------
(* The steps of a thread *)

LEMMA StepLives ==
    ASSUME Both, NEW t \in Threads, Step(t), NEW c \in Containers, c = on[t]
    PROVE  Lives(c)
<1>. /\ StageFound(c) /\ StageFound(c)' /\ Progress(t) /\ Work(t)
     /\ ProvTypeOK /\ ProvTypeOK' /\ SetupLocal /\ WorkProgress /\ OneWorker
  BY DEF Both, StagesFound, EInv, PInv, LInv, HInv, WorkProgress
<1>1. pc[t] # "idle" /\ leased[c] # "free"
  BY StepsStayLocal DEF Both, PInv, DInv, FreeIsQuiet, Busy
<1>2. LifeOf(c) = Stage(t)
  BY <1>1 DEF StageFound
<1>3. pc'[t] # "idle" => LifeOf(c)' = Stage(t)' /\ on'[t] = c
  <2>1. pc'[t] # "idle" => on'[t] = c
    BY StepsStayLocal
  <2>2. pc'[t] # "idle" => leased'[c] # "free"
    BY <2>1 DEF Both, PInv, DInv, FreeIsQuiet, Busy
  <2>3. QED
    BY <2>1, <2>2 DEF StageFound
<1>4. pc'[t] = "idle" => LifeOf(c)' = IF leased'[c] = "free" THEN "free" ELSE Resting(c)'
  <2>1. pc'[t] = "idle" => ~Busy(c)'
    BY StepsStayLocal DEF OneWorker, Busy
  <2>2. QED
    BY <2>1 DEF StageFound
<1>5. /\ pc[t] \in {"prepare", "reserve", "scan", "build", "run", "wait"} =>
            op[c] = "configuring" /\ (pc[t] \in {"run", "wait"} => port[t] = sshPort[c])
      /\ pc[t] \in Equipped => chosen[c]
      /\ pc[t] \in Deprovisioned => ~chosen[c]
      /\ pc[t] \in Ends => box[c] = None
      /\ pc[t] = "install" => op[c] \in {"busy", "failed"}
      /\ pc[t] \in AfterRun => Placed(c)
      /\ of[t] = sliver[c]
  BY <1>1 DEF SetupLocal, Progress, Work
<1>6. /\ \A s \in {"build", "run", "wait", "ssh"} : StageAt(s) = "setup"
      /\ StageAt("prepare") = "setup" /\ StageAt("reserve") = "setup"
      /\ StageAt("scan") = "setup" /\ StageAt("install") = "install"
      /\ StageAt("restart") = "restart" /\ StageAt("restarting") = "restart"
      /\ \A w \in {"delete", "stop", "deprovision"} :
            StageAt(Release[w]) = IF w = "delete" THEN "deleting" ELSE "ending"
      /\ \A w \in {"delete", "stop", "deprovision"} :
            StageAt(Remove[w]) = IF w = "delete" THEN "deleting" ELSE "ending"
      /\ \A w \in {"delete", "stop", "deprovision"} :
            StageAt(Forget[w]) = IF w = "delete" THEN "deleting" ELSE "ending"
      /\ StageAt("fail") = "ending"
  BY DEF StageAt, Release, Remove, Forget
<1> USE DEF Lives, ProvTypeOK
<1>7. CASE Prepare(t)
  <2>1. pc[t] = "prepare" /\ UNCHANGED <<leased, op, chosen, box>> /\ DoorOf(c)' = DoorOf(c)
    BY <1>7 DEF Prepare, slivers, host, DoorOf
  <2>2. CASE ~chosen[c]
    <3>1. pc'[t] = "idle"
      BY <1>7, <2>2 DEF Prepare, End
    <3>2. LifeOf(c)' = "spent"
      BY <1>1, <1>4, <2>1, <2>2, <3>1 DEF Resting, Spent
    <3>3. QED
      BY <1>2, <2>1, <2>2, <3>2 DEF Stage
  <2>3. CASE chosen[c]
    <3>1. pc'[t] \in {"reserve", "build"}
      BY <1>7, <2>3 DEF Prepare, Goto
    <3>2. LifeOf(c) = "setup" /\ LifeOf(c)' = "setup"
      BY <1>2, <1>3, <1>6, <2>1, <2>3, <3>1 DEF Stage
    <3>3. QED
      BY <2>1, <3>2
  <2>4. QED
    BY <2>2, <2>3
<1>8. CASE CopyLockedPorts(t) \/ ReservePort(t)
  <2>1. pc[t] \in {"reserve", "scan"} /\ pc'[t] \in {"scan", "build"}
    BY <1>8 DEF CopyLockedPorts, ReservePort, Goto
  <2>2. DoorOf(c)' = DoorOf(c)
    BY <1>8 DEF CopyLockedPorts, ReservePort, DoorOf
  <2>3. QED
    BY <1>2, <1>3, <1>6, <2>1, <2>2 DEF Stage
<1>9. CASE Build(t)
  <2>1. pc[t] = "build" /\ pc'[t] = "run"
    BY <1>5, <1>9 DEF Build, Goto, Equipped
  <2>2. box'[c] = box[c] \/ box'[c] = None
    BY <1>9 DEF Build
  <2>3. LifeOf(c) = "setup" /\ LifeOf(c)' = "setup"
    BY <1>2, <1>3, <1>6, <2>1 DEF Stage
  <2>4. QED
    BY <2>2, <2>3 DEF DoorOf
<1>10. CASE Run(t)
  <2>1. pc[t] = "run" /\ LifeOf(c) = "setup"
    BY <1>2, <1>6, <1>10 DEF Run, Stage
  <2>2. CASE End(t)
    <3>1. pc'[t] = "idle" /\ UNCHANGED <<leased, op, chosen>>
      BY <1>10, <2>2 DEF Run, End, slivers
    <3>2. UNCHANGED box
      BY <1>10, <2>1, <2>2 DEF Run, End, Goto
    <3>3. LifeOf(c)' = "spent"
      BY <1>1, <1>4, <1>5, <2>1, <3>1 DEF Resting, Spent
    <3>4. QED
      BY <2>1, <3>2, <3>3 DEF Moves, DoorOf
  <2>3. CASE Goto(t, "fail") /\ UNCHANGED box
    <3>1. LifeOf(c)' = "ending"
      BY <1>3, <1>6, <2>1, <2>3 DEF Goto, Stage
    <3>2. QED
      BY <2>1, <2>3, <3>1 DEF Moves, DoorOf
  <2>4. CASE /\ box[c] = None /\ Publishable(port[t])
             /\ box' = [box EXCEPT ![c] = [port |-> port[t], state |-> "starting"]]
             /\ Goto(t, IF port[t] \in lockedPort THEN "wait" ELSE "ssh")
    <3>1. LifeOf(c)' = "setup"
      BY <1>3, <1>6, <2>1, <2>4 DEF Goto, Stage
    <3>2. port[t] \in Ports
      BY <2>4 DEF Publishable
    <3>3. box'[c] = [port |-> port[t], state |-> "starting"] /\ box'[c] # None
      BY <2>4, <3>2, NoneIsNothing DEF Boxes
    <3>4. DoorOf(c) = NoPort /\ DoorOf(c)' \in Ports
      BY <2>4, <3>2, <3>3 DEF DoorOf
    <3>5. QED
      BY <2>1, <3>1, <3>4
  <2>5. QED
    BY <1>10, <2>2, <2>3, <2>4 DEF Run
<1>11. CASE Wait(t)
  <2>1. pc[t] = "wait" /\ LifeOf(c) = "setup" /\ DoorOf(c)' = DoorOf(c)
    BY <1>2, <1>6, <1>11 DEF Wait, Stage, DoorOf
  <2>2. CASE pc'[t] = "idle"
    <3>1. UNCHANGED <<leased, op, chosen>>
      BY <1>11 DEF Wait, slivers
    <3>2. LifeOf(c)' = "spent"
      BY <1>1, <1>4, <1>5, <2>1, <2>2, <3>1 DEF Resting, Spent
    <3>3. QED
      BY <2>1, <3>2 DEF Moves
  <2>3. CASE pc'[t] \in {"ssh", "fail"}
    <3>1. LifeOf(c)' \in {"setup", "ending"}
      BY <1>3, <1>6, <2>3 DEF Stage
    <3>2. QED
      BY <2>1, <3>1 DEF Moves
  <2>4. QED
    BY <1>11, <2>2, <2>3 DEF Wait, Goto, End
<1>12. CASE ConnectSsh(t)
  <2>1. /\ pc[t] = "ssh" /\ pc'[t] \in {"install", "fail"} /\ DoorOf(c)' = DoorOf(c)
        /\ box[c] # None
    BY <1>5, <1>12 DEF ConnectSsh, Goto, host, DoorOf, AfterRun, Placed
  <2>2. LifeOf(c) = "setup" /\ LifeOf(c)' \in {"install", "ending"}
    BY <1>2, <1>3, <1>6, <2>1 DEF Stage
  <2>3. DoorOf(c) # NoPort
    BY <2>1, ProvisioningAssumption DEF DoorOf, Boxes, Ports, NoPort
  <2>4. QED
    BY <2>1, <2>2, <2>3 DEF Moves
<1>13. CASE InstallFails(t)
  <2>1. pc[t] = "install" /\ pc'[t] = "install" /\ DoorOf(c)' = DoorOf(c)
    BY <1>13 DEF InstallFails, host, locals, DoorOf
  <2>2. QED
    BY <1>2, <1>3, <1>6, <2>1 DEF Stage
<1>14. CASE Install(t)
  <2>1. /\ pc[t] = "install" /\ pc'[t] = "idle" /\ op'[c] = "ready"
        /\ UNCHANGED <<leased, chosen>> /\ DoorOf(c)' = DoorOf(c)
    BY <1>5, <1>14 DEF Install, SetOp, End, host, DoorOf
  <2>2. LifeOf(c) = "install" /\ LifeOf(c)' = "ready"
    BY <1>1, <1>2, <1>4, <1>5, <1>6, <2>1 DEF Stage, Resting, Spent, Equipped
  <2>3. QED
    BY <2>1, <2>2 DEF Moves
<1>15. CASE Fail(t)
  <2>1. pc[t] = "fail" /\ pc'[t] = "deprovision" /\ DoorOf(c)' = DoorOf(c)
    BY <1>15 DEF Fail, Goto, host, DoorOf
  <2>2. LifeOf(c) = "ending" /\ LifeOf(c)' = "ending"
    BY <1>2, <1>3, <2>1 DEF Stage, StageAt
  <2>3. QED
    BY <2>1, <2>2
<1>16. CASE ReleasePort(t)
  <2>1. PICK w \in {"delete", "stop", "deprovision"} :
           pc[t] = Release[w] /\ pc'[t] = Remove[w]
    BY <1>16 DEF ReleasePort, Advance, Goto, Remove
  <2>2. pc[t] # "prepare" /\ pc'[t] # "prepare" /\ pc'[t] # "idle"
    BY <2>1 DEF Release, Remove
  <2>3. LifeOf(c)' = LifeOf(c)
    BY <1>2, <1>3, <1>6, <2>1, <2>2 DEF Stage
  <2>4. QED
    BY <1>16, <2>3 DEF ReleasePort, DoorOf
<1>17. CASE RemoveBox(t)
  <2>1. PICK w \in {"delete", "stop", "deprovision"} :
           pc[t] = Remove[w] /\ pc'[t] = Forget[w]
    BY <1>17 DEF RemoveBox, Advance, Goto, Forget
  <2>2. pc[t] # "prepare" /\ pc'[t] # "prepare" /\ pc'[t] # "idle"
    BY <2>1 DEF Remove, Forget
  <2>3. LifeOf(c)' = LifeOf(c) /\ LifeOf(c) \in {"ending", "deleting"}
    BY <1>2, <1>3, <1>6, <2>1, <2>2 DEF Stage
  <2>4. DoorOf(c)' = NoPort
    BY <1>17 DEF RemoveBox, DoorOf
  <2>5. QED
    BY <2>3, <2>4
<1>18. CASE ForgetPort(t)
  <2>1. /\ pc[t] \in Ends /\ pc'[t] = "idle" /\ UNCHANGED <<chosen, box>>
        /\ leased'[c] = IF pc[t] = "delete_end" THEN "free" ELSE leased[c]
    BY <1>18 DEF ForgetPort, Deprovisioning, Forget, End, Ends, host
  <2>2. DoorOf(c) = NoPort /\ DoorOf(c)' = NoPort
    BY <1>5, <2>1 DEF DoorOf
  <2>3. CASE pc[t] = "delete_end"
    <3>1. LifeOf(c) = "deleting" /\ LifeOf(c)' = "free"
      BY <1>2, <1>4, <2>1, <2>3 DEF Stage, StageAt
    <3>2. QED
      BY <2>2, <3>1 DEF Moves
  <2>4. CASE pc[t] # "delete_end"
    <3>1. LifeOf(c) = "ending"
      BY <1>2, <2>1, <2>4 DEF Stage, StageAt, Ends
    <3>2. ~chosen'[c]
      BY <1>5, <2>1 DEF Deprovisioned, Ends
    <3>3. LifeOf(c)' = "spent"
      BY <1>1, <1>4, <2>1, <2>4, <3>2 DEF Resting, Spent
    <3>4. QED
      BY <2>2, <3>1, <3>3 DEF Moves
  <2>5. QED
    BY <2>3, <2>4
<1>19. CASE StopBox(t)
  <2>1. pc[t] = "restart" /\ pc'[t] = "restarting"
    BY <1>19 DEF StopBox, Goto
  <2>2. DoorOf(c)' = DoorOf(c)
    BY <1>19, NoneIsNothing DEF StopBox, DoorOf, Boxes
  <2>3. QED
    BY <1>2, <1>3, <1>6, <2>1, <2>2 DEF Stage
<1>20. CASE StartBox(t)
  <2>1. /\ pc[t] = "restarting" /\ pc'[t] = "idle" /\ op'[c] = "failed"
        /\ UNCHANGED <<leased, chosen>>
    BY <1>5, <1>20 DEF StartBox, SetOp, End
  <2>2. DoorOf(c)' = DoorOf(c)
    BY <1>20, NoneIsNothing DEF StartBox, DoorOf, Boxes
  <2>3. LifeOf(c) = "restart" /\ LifeOf(c)' = "broken"
    BY <1>1, <1>2, <1>4, <1>5, <1>6, <2>1 DEF Stage, Resting, Spent, Equipped
  <2>4. QED
    BY <2>2, <2>3 DEF Moves
<1>21. CASE InstallRaises(t)
  <2>1. /\ pc[t] = "install" /\ pc'[t] = "idle"
        /\ UNCHANGED <<leased, op, chosen>> /\ DoorOf(c)' = DoorOf(c)
    BY <1>21 DEF InstallRaises, End, slivers, host, DoorOf
  <2>2. LifeOf(c) = "install"
    BY <1>2, <1>6, <2>1 DEF Stage
  <2>3. op'[c] \in {"busy", "failed"} /\ chosen'[c] /\ leased'[c] # "free"
    BY <1>1, <1>5, <2>1 DEF Equipped
  <2>4. LifeOf(c)' \in {"stranded", "broken"}
    BY <1>4, <2>1, <2>3 DEF Resting, Spent
  <2>5. QED
    BY <2>1, <2>2, <2>4 DEF Moves
<1>22. QED
  BY <1>7, <1>8, <1>9, <1>10, <1>11, <1>12, <1>13, <1>14, <1>15, <1>16, <1>17,
     <1>18, <1>19, <1>20, <1>21 DEF Step

LEMMA StepsLive ==
    ASSUME Both, NEW t \in Threads, Step(t)
    PROVE  Lived
<1>. ProvTypeOK /\ SetupLocal /\ OneWorker
  BY DEF Both, PInv, LInv
<1>1. PICK c \in Containers : c = on[t]
  BY StepsStayLocal
<1>2. Lives(c)
  BY <1>1, StepLives
<1>3. ASSUME NEW d \in Containers \ {c}
      PROVE  LifeOf(d)' = LifeOf(d) /\ DoorOf(d)' = DoorOf(d)
  <2>1. /\ leased'[d] = leased[d] /\ chosen'[d] = chosen[d] /\ box'[d] = box[d]
        /\ op'[d] = op[d]
    BY <1>1, StepsStayLocal, StepsOfLocks
  <2>2. /\ \A u \in Threads \ {t} : pc'[u] = pc[u] /\ on'[u] = on[u]
        /\ on[t] # d /\ (pc'[t] = "idle" \/ on'[t] # d)
    BY <1>1, StepsStayLocal
  <2>3. LifeOf(d)' = LifeOf(d)
    BY <2>1, <2>2, KeepsStage
  <2>4. QED
    BY <2>1, <2>3 DEF DoorOf
<1>4. QED
  BY <1>2, <1>3, OneLives

-----------------------------------------------------------------------------
\* ImplementsLife: as long as a container has one thread at a time, a sliver
\* goes through the stages of SliverLife only.  It gets ready only behind the
\* container that was set up for it, which then stays, on its port, until
\* somebody acts on the sliver, and after a deprovision it is never provisioned
\* again.
THEOREM LifeImplemented == ~OverlappingOperations => (Spec => ImplementsLife)
<1> SUFFICES ASSUME ~OverlappingOperations PROVE Spec => ImplementsLife
  OBVIOUS
<1>1. Init => Life!Init
  BY DEF Init, Life!Init, LifeOf, DoorOf
<1>2. PInv => StagesFound
  BY StagesAreFound DEF PInv, LInv
<1>3. PInv' => StagesFound'
  BY <1>2, PTL
<1>4. PInv /\ PInv' /\ EInv /\ [Next]_vars => Lived
  <2> SUFFICES ASSUME PInv, PInv', EInv, [Next]_vars PROVE Lived
    OBVIOUS
  <2>1. Both
    BY <1>2, <1>3 DEF Both
  <2>2. CASE UNCHANGED vars
    <3>1. UNCHANGED <<leased, op, chosen, box, pc, on>>
      BY <2>2 DEF vars, slivers, host, locals
    <3>2. \A c \in Containers : LifeOf(c)' = LifeOf(c) /\ DoorOf(c)' = DoorOf(c)
      BY <2>1, <3>1, KeepsStage DEF DoorOf
    <3>3. QED
      BY <3>2 DEF Lived
  <2>3. CASE Next
    BY <2>1, <2>3, CallsLive, StepsLive DEF Next
  <2>4. QED
    BY <2>2, <2>3
<1>5. PInv /\ PInv' /\ EInv /\ [Next]_vars
        => [Life!Next]_<<[c \in Containers |-> LifeOf(c)], [c \in Containers |-> DoorOf(c)]>>
  BY <1>4 DEF Lived
<1>6. QED
  BY <1>1, <1>5, EInvAlways, PTL DEF Spec, ImplementsLife, Life!Spec, Life!vars
=============================================================================
