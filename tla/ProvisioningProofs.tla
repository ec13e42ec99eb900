------------------------- MODULE ProvisioningProofs -------------------------
(***************************************************************************)
(* Theorems about Provisioning, for any number of containers, threads,     *)
(* ports and slivers, and whether or not operations overlap.               *)
(***************************************************************************)
EXTENDS Provisioning, TLAPS

\* While a thread looks for a port, its copy of locked_port lacks none of the
\* ports that are locked: others may unlock ports meanwhile, but only the holder
\* of the lock locks one.
CopyComplete ==
    \A t \in Threads : pc[t] = "scan" => lockedPort \subseteq snap[t]

RInv == ProvTypeOK /\ CopyComplete

LEMMA InitRInv == Init => RInv
BY ProvisioningAssumption, NoneIsNothing
   DEF Init, RInv, ProvTypeOK, CopyComplete, Steps, Ports, NoPort, TooHigh, Boxes

-----------------------------------------------------------------------------
(* The calls keep the invariant. *)

LEMMA CallsKeepRInv ==
    ASSUME RInv, NEW c \in Containers,
           \/ Allocate(c) \/ ComeUp(c) \/ ProvisionWithoutKeys(c)
           \/ \E t \in Threads : \/ Provision(t, c) \/ Reload(t, c) \/ Restart(t, c)
                                 \/ Stop(t, c) \/ Delete(t, c)
    PROVE  RInv'
<1> USE NoneIsNothing DEF RInv, ProvTypeOK, CopyComplete, Steps
<1>1. CASE Allocate(c)
  BY <1>1 DEF Allocate, host, locals
<1>2. CASE ComeUp(c)
  BY <1>2 DEF ComeUp, slivers, locals, Boxes
<1>3. ASSUME NEW t \in Threads, Provision(t, c) PROVE RInv'
  BY <1>3 DEF Provision, Begin, host
<1>4. ASSUME NEW t \in Threads, Reload(t, c) PROVE RInv'
  BY <1>4 DEF Reload, Begin, host
<1>5. ASSUME NEW t \in Threads, Restart(t, c) PROVE RInv'
  BY <1>5 DEF Restart, Begin, host
<1>6. ASSUME NEW t \in Threads, Stop(t, c) PROVE RInv'
  BY <1>6 DEF Stop, Begin, host, slivers
<1>7. ASSUME NEW t \in Threads, Delete(t, c) PROVE RInv'
  BY <1>7 DEF Delete, Begin, host
<1>8. CASE ProvisionWithoutKeys(c)
  BY <1>8 DEF ProvisionWithoutKeys, host, locals
<1>9. QED
  BY <1>1, <1>2, <1>3, <1>4, <1>5, <1>6, <1>7, <1>8

-----------------------------------------------------------------------------
(* The steps of a thread keep it. *)

LEMMA StepsKeepRInv ==
    ASSUME RInv, NEW t \in Threads, Step(t)
    PROVE  RInv'
<1> USE NoneIsNothing DEF RInv, ProvTypeOK, CopyComplete, Steps
<1>1. CASE Prepare(t)
  BY <1>1 DEF Prepare, Goto, End, slivers, host, NoPort
<1>2. CASE CopyLockedPorts(t)
  BY <1>2 DEF CopyLockedPorts, Goto, slivers
<1>3. CASE ReservePort(t)
  BY <1>3 DEF ReservePort, Goto, slivers
<1>4. CASE Build(t)
  BY <1>4 DEF Build, Goto, End, slivers, NoPort
<1>5. CASE Run(t)
  <2>1. UNCHANGED <<sliver, leased, alloc, op, chosen, sshPort, lockedPort, portLock>>
    BY <1>5 DEF Run, slivers
  <2>2. pc[t] = "run" /\ box' \in [Containers -> Boxes \cup {None}]
    BY <1>5 DEF Run, Publishable, Boxes
  <2>3. CASE End(t)
    BY <2>1, <2>2, <2>3 DEF End, NoPort
  <2>4. CASE ~End(t)
    <3>1. /\ \E s \in {"wait", "ssh", "fail"} : pc' = [pc EXCEPT ![t] = s]
          /\ UNCHANGED <<on, of, port, snap>>
      BY <1>5, <2>4 DEF Run, Goto
    <3>2. QED
      BY <2>1, <2>2, <3>1
  <2>5. QED
    BY <2>3, <2>4
<1>6. CASE Wait(t)
  BY <1>6 DEF Wait, Goto, End, slivers, NoPort
<1>7. CASE ConnectSsh(t)
  BY <1>7 DEF ConnectSsh, Goto, SetOp, host
<1>8. CASE InstallFails(t)
  BY <1>8 DEF InstallFails, SetOp, host, locals
<1>9. CASE Install(t)
  BY <1>9 DEF Install, SetOp, End, host, NoPort
<1>10. CASE Fail(t)
  BY <1>10 DEF Fail, SetOp, Goto, host
<1>11. CASE ReleasePort(t)
  BY <1>11 DEF ReleasePort, Advance, Release, Remove, Goto, slivers
<1>12. CASE RemoveBox(t)
  BY <1>12 DEF RemoveBox, Advance, Remove, Forget, Goto, slivers
<1>13. CASE ForgetPort(t)
  BY <1>13 DEF ForgetPort, Deprovisioning, Forget, SetOp, End, host, NoPort
<1>14. CASE StopBox(t)
  BY <1>14 DEF StopBox, Goto, slivers, Boxes
<1>15. CASE StartBox(t)
  BY <1>15 DEF StartBox, SetOp, End, NoPort, Boxes
<1>16. CASE InstallRaises(t)
  BY <1>16 DEF InstallRaises, End, slivers, host, NoPort
<1>17. QED
  BY <1>1, <1>2, <1>3, <1>4, <1>5, <1>6, <1>7, <1>8, <1>9, <1>10, <1>11, <1>12,
     <1>13, <1>14, <1>15, <1>16 DEF Step

LEMMA NextKeepsRInv == RInv /\ [Next]_vars => RInv'
<1> SUFFICES ASSUME RInv, [Next]_vars PROVE RInv'
  OBVIOUS
<1>1. CASE UNCHANGED vars
  BY <1>1 DEF vars, slivers, host, locals, RInv, ProvTypeOK, CopyComplete
<1>2. CASE Next
  BY <1>2, CallsKeepRInv, StepsKeepRInv DEF Next
<1>3. QED
  BY <1>1, <1>2

\* The types of Provisioning: in particular, the port lock is held by a thread
\* exactly while it looks for a port, so reserveNextPort excludes itself.
THEOREM ProvisioningTypes == Spec => []ProvTypeOK
<1>1. RInv => ProvTypeOK
  BY DEF RInv
<1>2. QED
  BY <1>1, InitRInv, NextKeepsRInv, PTL DEF Spec

-----------------------------------------------------------------------------
(* Reservations *)

LEMMA OthersKeepSshPort ==
    ASSUME NEW t \in Threads, Step(t), ~ReservePort(t), ~ForgetPort(t)
    PROVE  UNCHANGED sshPort
BY DEF Step, Prepare, CopyLockedPorts, Build, Run, Wait, ConnectSsh, InstallFails,
       Install, InstallRaises, Fail, ReleasePort, RemoveBox, StopBox, StartBox

LEMMA CallsKeepSshPort ==
    ASSUME NEW c \in Containers,
           \/ Allocate(c) \/ ComeUp(c) \/ ProvisionWithoutKeys(c)
           \/ \E t \in Threads : \/ Provision(t, c) \/ Reload(t, c) \/ Restart(t, c)
                                 \/ Stop(t, c) \/ Delete(t, c)
    PROVE  UNCHANGED sshPort
BY DEF Allocate, ComeUp, ProvisionWithoutKeys, Provision, Reload, Restart, Stop, Delete

\* reserveNextPort never gives a container a port that is locked for another,
\* whatever is locked and unlocked while it reads netstat.
THEOREM ReservationsAreFresh == Spec => ReservesFreshPort
<1> DEFINE Fresh == \A c \in Containers :
                sshPort'[c] # sshPort[c] => sshPort'[c] \notin lockedPort
<1>1. RInv /\ [Next]_vars => [Fresh]_vars
  <2> SUFFICES ASSUME RInv, Next PROVE Fresh
    OBVIOUS
  <2>1. ASSUME NEW t \in Threads, ReservePort(t) PROVE Fresh
    BY <2>1 DEF ReservePort, RInv, ProvTypeOK, CopyComplete
  <2>2. ASSUME NEW t \in Threads, ForgetPort(t) PROVE Fresh
    <3>1. NoPort \notin lockedPort
      BY ProvisioningAssumption DEF RInv, ProvTypeOK, Ports, NoPort
    <3>2. sshPort \in [Containers -> Ports \cup {NoPort, TooHigh}]
      BY DEF RInv, ProvTypeOK
    <3>3. QED
      BY <2>2, <3>1, <3>2 DEF ForgetPort
  <2>3. CASE UNCHANGED sshPort
    BY <2>3
  <2>4. QED
    BY <2>1, <2>2, <2>3, OthersKeepSshPort, CallsKeepSshPort DEF Next
<1>2. QED
  BY <1>1, InitRInv, NextKeepsRInv, PTL DEF Spec, ReservesFreshPort

-----------------------------------------------------------------------------
(* Deletions *)

OneWorker ==
    \A t, u \in Threads :
        pc[t] # "idle" /\ pc[u] # "idle" /\ on[t] = on[u] => t = u

\* What a Delete has done so far to its container.
DeletionProgress ==
    \A t \in Threads :
        /\ pc[t] \in {"delete_rm", "delete_end"} => ~chosen[on[t]]
        /\ pc[t] = "delete_end" => box[on[t]] = None

\* Nobody works on a free container, and nothing is left in it.
FreeIsQuiet == \A c \in Containers : leased[c] = "free" => ~Busy(c)

DInv == OneWorker /\ DeletionProgress /\ FreeIsQuiet /\ DeletedLeavesNothing

LEMMA CallsKeepDInv ==
    ASSUME ~OverlappingOperations, ProvTypeOK, DInv, NEW c \in Containers,
           \/ Allocate(c) \/ ComeUp(c) \/ ProvisionWithoutKeys(c)
           \/ \E t \in Threads : \/ Provision(t, c) \/ Reload(t, c) \/ Restart(t, c)
                                 \/ Stop(t, c) \/ Delete(t, c)
    PROVE  DInv'
<1> USE DEF DInv, OneWorker, DeletionProgress, FreeIsQuiet, DeletedLeavesNothing, Busy
<1>1. CASE Allocate(c)
  BY <1>1 DEF Allocate, host, locals, ProvTypeOK
<1>2. CASE ComeUp(c)
  BY <1>2 DEF ComeUp, slivers, locals, ProvTypeOK
<1>3. ASSUME NEW t \in Threads,
             Provision(t, c) \/ Reload(t, c) \/ Restart(t, c) \/ Stop(t, c) \/ Delete(t, c)
      PROVE  DInv'
  <2>1. /\ leased[c] # "free" /\ pc[t] = "idle" /\ ~Busy(c)
        /\ on' = [on EXCEPT ![t] = c]
        /\ \E s \in {"prepare", "build", "restart", "stop", "delete"} :
              pc' = [pc EXCEPT ![t] = s]
        /\ UNCHANGED <<chosen, sshPort, box>>
        /\ \A d \in Containers : leased'[d] = "free" => leased[d] = "free"
    BY <1>3 DEF Provision, Reload, Restart, Stop, Delete, Begin, Actionable, host,
                slivers, ProvTypeOK
  <2>2. \A d \in Containers : leased'[d] = "free" => d # c
    BY <2>1
  <2>3. QED
    BY <2>1, <2>2 DEF ProvTypeOK, Steps
<1>4. CASE ProvisionWithoutKeys(c)
  BY <1>4 DEF ProvisionWithoutKeys, host, locals
<1>5. QED
  BY <1>1, <1>2, <1>3, <1>4

\* A thread works on its own container only, and stays there until it ends.
LEMMA StepsStayLocal ==
    ASSUME ProvTypeOK, NEW t \in Threads, Step(t)
    PROVE  /\ pc[t] # "idle" /\ on[t] \in Containers
           /\ \A u \in Threads \ {t} : pc'[u] = pc[u] /\ on'[u] = on[u]
           /\ pc'[t] = "idle" \/ on'[t] = on[t]
           /\ \A c \in Containers \ {on[t]} :
                 /\ leased'[c] = leased[c] /\ chosen'[c] = chosen[c]
                 /\ box'[c] = box[c] /\ sshPort'[c] = sshPort[c]
<1> USE DEF ProvTypeOK, Steps
<1>1. CASE Prepare(t) \/ CopyLockedPorts(t) \/ ReservePort(t) \/ Build(t) \/ Run(t)
  BY <1>1 DEF Prepare, CopyLockedPorts, ReservePort, Build, Run, Goto, End,
              slivers, host
<1>2. CASE Wait(t) \/ ConnectSsh(t) \/ InstallFails(t) \/ Install(t)
         \/ InstallRaises(t) \/ Fail(t)
  BY <1>2 DEF Wait, ConnectSsh, InstallFails, Install, InstallRaises, Fail, Goto, End, slivers,
              host, locals
<1>3. CASE ReleasePort(t) \/ RemoveBox(t) \/ ForgetPort(t)
  BY <1>3 DEF ReleasePort, RemoveBox, ForgetPort, Advance, Deprovisioning, Release,
              Remove, Forget, Goto, End, slivers, host
<1>4. CASE StopBox(t) \/ StartBox(t)
  BY <1>4 DEF StopBox, StartBox, Goto, End, slivers, host
<1>5. QED
  BY <1>1, <1>2, <1>3, <1>4 DEF Step

\* What the step of a thread does to its container.
LEMMA StepsOfDeletion ==
    ASSUME ProvTypeOK, NEW t \in Threads, Step(t)
    PROVE  LET c == on[t] IN
           /\ leased'[c] = "free" =>
                 \/ leased[c] = "free"
                 \/ pc[t] = "delete_end" /\ pc'[t] = "idle" /\ sshPort'[c] = NoPort
                       /\ chosen'[c] = chosen[c] /\ box'[c] = box[c]
           /\ pc'[t] = "delete_rm" => ~chosen'[c]
           /\ pc'[t] = "delete_end" =>
                 pc[t] = "delete_rm" /\ box'[c] = None /\ chosen'[c] = chosen[c]
<1> USE DEF ProvTypeOK, Steps
<1>1. CASE Prepare(t) \/ CopyLockedPorts(t) \/ ReservePort(t) \/ Build(t) \/ Run(t)
  BY <1>1 DEF Prepare, CopyLockedPorts, ReservePort, Build, Run, Goto, End, slivers
<1>2. CASE Wait(t) \/ ConnectSsh(t) \/ InstallFails(t) \/ Install(t)
         \/ InstallRaises(t) \/ Fail(t)
  BY <1>2 DEF Wait, ConnectSsh, InstallFails, Install, InstallRaises, Fail, Goto, End, slivers, locals
<1>3. CASE ReleasePort(t) \/ RemoveBox(t) \/ ForgetPort(t)
  BY <1>3 DEF ReleasePort, RemoveBox, ForgetPort, Advance, Deprovisioning, Release,
              Remove, Forget, Goto, End, slivers, host
<1>4. CASE StopBox(t) \/ StartBox(t)
  BY <1>4 DEF StopBox, StartBox, Goto, End, slivers
<1>5. QED
  BY <1>1, <1>2, <1>3, <1>4 DEF Step

LEMMA StepsKeepDInv ==
    ASSUME ProvTypeOK, ProvTypeOK', DInv, NEW t \in Threads, Step(t)
    PROVE  DInv'
<1>. PICK c \in Containers : c = on[t]
  BY StepsStayLocal
<1>1. \A u \in Threads \ {t} : pc[u] # "idle" => on[u] # c
  BY StepsStayLocal DEF DInv, OneWorker
<1>2. OneWorker'
  BY <1>1, StepsStayLocal DEF DInv, OneWorker
<1>3. DeletionProgress'
  <2>1. ASSUME NEW u \in Threads \ {t}, pc'[u] \in {"delete_rm", "delete_end"}
        PROVE  on'[u] = on[u] /\ on[u] \in Containers \ {c} /\ pc'[u] = pc[u]
    BY <1>1, <2>1, StepsStayLocal DEF ProvTypeOK
  <2>2. pc'[t] \in {"delete_rm", "delete_end"} => on'[t] = c
    BY StepsStayLocal
  <2>3. QED
    BY <2>1, <2>2, StepsStayLocal, StepsOfDeletion DEF DInv, DeletionProgress
<1>4. FreeIsQuiet' /\ DeletedLeavesNothing'
  <2>1. ASSUME NEW d \in Containers, d # c, leased'[d] = "free"
        PROVE  ~Busy(d)' /\ box'[d] = None /\ sshPort'[d] = NoPort /\ ~chosen'[d]
    BY <2>1, StepsStayLocal DEF DInv, FreeIsQuiet, DeletedLeavesNothing, Busy
  <2>2. leased[c] # "free"
    BY StepsStayLocal DEF DInv, FreeIsQuiet, Busy
  <2>3. ASSUME leased'[c] = "free"
        PROVE  ~Busy(c)' /\ box'[c] = None /\ sshPort'[c] = NoPort /\ ~chosen'[c]
    BY <1>1, <2>2, <2>3, StepsStayLocal, StepsOfDeletion
       DEF DInv, DeletionProgress, Busy
  <2>4. QED
    BY <2>1, <2>3 DEF FreeIsQuiet, DeletedLeavesNothing
<1>5. QED
  BY <1>2, <1>3, <1>4 DEF DInv

\* As long as a container has one thread at a time, it comes back from Delete
\* without a docker container, an SSH port or a sliver type.
THEOREM DeletionsLeaveNothing ==
    ~OverlappingOperations => (Spec => []DeletedLeavesNothing)
<1> SUFFICES ASSUME ~OverlappingOperations PROVE Spec => []DeletedLeavesNothing
  OBVIOUS
<1>1. Init => DInv
  BY DEF Init, DInv, OneWorker, DeletionProgress, FreeIsQuiet,
         DeletedLeavesNothing, Busy
<1>2. ProvTypeOK /\ ProvTypeOK' /\ DInv /\ [Next]_vars => DInv'
  <2> SUFFICES ASSUME ProvTypeOK, ProvTypeOK', DInv, [Next]_vars PROVE DInv'
    OBVIOUS
  <2>1. CASE UNCHANGED vars
    BY <2>1 DEF vars, slivers, host, locals, DInv, OneWorker, DeletionProgress,
                FreeIsQuiet, DeletedLeavesNothing, Busy
  <2>2. CASE Next
    BY <2>2, CallsKeepDInv, StepsKeepDInv DEF Next
  <2>3. QED
    BY <2>1, <2>2
<1>3. DInv => DeletedLeavesNothing
  BY DEF DInv
<1>4. QED
  BY <1>1, <1>2, <1>3, ProvisioningTypes, PTL DEF Spec

-----------------------------------------------------------------------------
(* Locked ports *)

\* The thread of a container that may have locked a port is at a step that leads
\* to its unlocking, or has died and left the container in configuration, from
\* where only Delete leads on.
Locker(c) ==
    \/ \E t \in Threads :
          /\ on[t] = c
          /\ pc[t] \in {"build", "run", "wait", "fail", "deprovision", "delete"}
    \/ ~Busy(c) /\ op[c] = "configuring"

LocksOwned == \A p \in lockedPort : \E c \in Containers : sshPort[c] = p /\ Locker(c)

SetupLocal ==
    \A t \in Threads :
        /\ pc[t] \in {"prepare", "reserve", "scan", "build", "run", "wait"} =>
              op[on[t]] = "configuring"
        /\ pc[t] \in {"run", "wait"} => port[t] = sshPort[on[t]]

LInv == OneWorker /\ LocksOwned /\ SetupLocal

LEMMA CallsKeepLInv ==
    ASSUME ~OverlappingOperations, ProvTypeOK, LInv, DInv, NEW c \in Containers,
           \/ Allocate(c) \/ ComeUp(c) \/ ProvisionWithoutKeys(c)
           \/ \E t \in Threads : \/ Provision(t, c) \/ Reload(t, c) \/ Restart(t, c)
                                 \/ Stop(t, c) \/ Delete(t, c)
    PROVE  LInv'
<1>1. CASE Allocate(c)
  <2>1. sshPort[c] = NoPort /\ NoPort \notin lockedPort
    BY <1>1, ProvisioningAssumption
       DEF Allocate, DInv, DeletedLeavesNothing, ProvTypeOK, Ports, NoPort
  <2>2. /\ ~Busy(c)
        /\ \A d \in Containers \ {c} : op'[d] = op[d]
        /\ UNCHANGED <<pc, on, port, sshPort, lockedPort>>
    BY <1>1 DEF Allocate, DInv, FreeIsQuiet, host, locals, ProvTypeOK
  <2>3. OneWorker'
    BY <2>2 DEF LInv, OneWorker
  <2>4. \A t \in Threads : pc[t] # "idle" => on[t] \in Containers \ {c}
    BY <2>2 DEF Busy, ProvTypeOK
  <2>5. SetupLocal'
    BY <2>2, <2>4 DEF LInv, SetupLocal
  <2>6. \A d \in Containers \ {c} : Locker(d) => Locker(d)'
    BY <2>2 DEF Locker, Busy
  <2>7. LocksOwned'
    BY <2>1, <2>2, <2>6 DEF LInv, LocksOwned
  <2>8. QED
    BY <2>3, <2>5, <2>7 DEF LInv
<1>2. CASE ComeUp(c)
  BY <1>2 DEF ComeUp, slivers, locals, LInv, OneWorker, LocksOwned, SetupLocal,
              Locker, Busy
<1>3. ASSUME NEW t \in Threads,
             Provision(t, c) \/ Reload(t, c) \/ Restart(t, c) \/ Stop(t, c) \/ Delete(t, c)
      PROVE  LInv'
  <2>1. PICK s \in {"prepare", "build", "restart", "stop", "delete"} :
           /\ pc' = [pc EXCEPT ![t] = s]
           /\ s \in {"prepare", "build"} => op'[c] = "configuring"
           /\ s # "delete" => op[c] # "configuring"
    BY <1>3 DEF Provision, Reload, Restart, Stop, Delete, Begin, Actionable, ProvTypeOK
  <2>2. /\ pc[t] = "idle" /\ ~Busy(c)
        /\ on' = [on EXCEPT ![t] = c]
        /\ UNCHANGED <<port, sshPort, lockedPort>>
        /\ \A d \in Containers \ {c} : op'[d] = op[d]
    BY <1>3 DEF Provision, Reload, Restart, Stop, Delete, Begin, host, slivers,
                ProvTypeOK
  <2>3. \A u \in Threads \ {t} : /\ pc'[u] = pc[u] /\ on'[u] = on[u]
                                 /\ pc[u] # "idle" => on[u] \in Containers \ {c}
    BY <2>1, <2>2 DEF Busy, ProvTypeOK
  <2>4. pc'[t] = s /\ on'[t] = c
    BY <2>1, <2>2 DEF ProvTypeOK
  <2>5. OneWorker'
    BY <2>3, <2>4 DEF LInv, OneWorker
  <2>6. SetupLocal'
    BY <2>1, <2>2, <2>3, <2>4 DEF LInv, SetupLocal
  <2>7. \A d \in Containers \ {c} : Locker(d) => Locker(d)'
    BY <2>2, <2>3, <2>4 DEF Locker, Busy
  <2>8. Locker(c) => Locker(c)'
    BY <2>1, <2>2, <2>4 DEF Locker, Busy
  <2>9. QED
    BY <2>2, <2>5, <2>6, <2>7, <2>8 DEF LInv, LocksOwned
<1>4. CASE ProvisionWithoutKeys(c)
  BY <1>4 DEF ProvisionWithoutKeys, host, locals, LInv, OneWorker, LocksOwned,
              SetupLocal, Locker, Busy
<1>5. QED
  BY <1>1, <1>2, <1>3, <1>4

\* What the step of a thread does to locked_port and to what it may have locked.
LEMMA StepsOfLocks ==
    ASSUME ProvTypeOK, SetupLocal, NEW t \in Threads, Step(t),
           NEW c \in Containers, c = on[t]
    PROVE  /\ \A p \in lockedPort' : p \in lockedPort \/ (sshPort'[c] = p /\ pc'[t] = "build")
           /\ pc[t] \in {"build", "run", "wait", "fail", "deprovision", "delete"}
                 /\ sshPort[c] \in lockedPort'
              => /\ sshPort'[c] = sshPort[c]
                 /\ \/ pc'[t] \in {"build", "run", "wait", "fail", "deprovision", "delete"}
                    \/ pc'[t] = "idle" /\ op'[c] = "configuring"
           /\ pc'[t] \in {"prepare", "reserve", "scan", "build", "run", "wait"} =>
                 op'[c] = "configuring"
           /\ pc'[t] \in {"run", "wait"} => port'[t] = sshPort'[c]
           /\ \A d \in Containers \ {c} : op'[d] = op[d]
           /\ \A u \in Threads \ {t} : port'[u] = port[u]
<1> USE DEF ProvTypeOK, Steps, SetupLocal
<1>1. CASE Prepare(t) \/ CopyLockedPorts(t) \/ ReservePort(t)
  BY <1>1 DEF Prepare, CopyLockedPorts, ReservePort, Goto, End, slivers, host
<1>2. CASE Build(t)
  BY <1>2 DEF Build, Goto, End, slivers
<1>3. CASE Run(t)
  BY <1>3 DEF Run, Goto, End, slivers
<1>4. CASE Wait(t)
  BY <1>4 DEF Wait, Goto, End, slivers
<1>5. CASE ConnectSsh(t) \/ InstallFails(t) \/ Install(t)
         \/ InstallRaises(t) \/ Fail(t)
  BY <1>5 DEF ConnectSsh, InstallFails, Install, InstallRaises, Fail, Goto, End,
              SetOp, slivers, host, locals
<1>6. CASE ReleasePort(t) \/ RemoveBox(t)
  BY <1>6 DEF ReleasePort, RemoveBox, Advance, Release, Remove, Forget, Goto, slivers
<1>7. CASE ForgetPort(t)
  BY <1>7 DEF ForgetPort, Deprovisioning, Forget, End, SetOp, host
<1>8. CASE StopBox(t) \/ StartBox(t)
  BY <1>8 DEF StopBox, StartBox, Goto, End, SetOp, slivers
<1>9. QED
  BY <1>1, <1>2, <1>3, <1>4, <1>5, <1>6, <1>7, <1>8 DEF Step

LEMMA StepsKeepLInv ==
    ASSUME ProvTypeOK, LInv, NEW t \in Threads, Step(t)
    PROVE  LInv'
<1>. PICK c \in Containers : c = on[t]
  BY StepsStayLocal
<1>. SetupLocal
  BY DEF LInv
<1>1. \A u \in Threads \ {t} : pc[u] # "idle" => on[u] \in Containers \ {c}
  BY StepsStayLocal DEF LInv, OneWorker, ProvTypeOK
<1>2. OneWorker'
  BY <1>1, StepsStayLocal DEF LInv, OneWorker
<1>3. SetupLocal'
  <2>1. ASSUME NEW u \in Threads \ {t}, pc[u] # "idle"
        PROVE  /\ op'[on[u]] = op[on[u]] /\ sshPort'[on[u]] = sshPort[on[u]]
               /\ port'[u] = port[u]
    BY <1>1, <2>1, StepsStayLocal, StepsOfLocks
  <2>2. QED
    BY <2>1, StepsStayLocal, StepsOfLocks DEF SetupLocal
<1>4. \A d \in Containers \ {c} : Locker(d) => Locker(d)' /\ sshPort'[d] = sshPort[d]
  BY StepsStayLocal, StepsOfLocks DEF Locker, Busy
<1>5. \A p \in lockedPort' \ lockedPort : sshPort'[c] = p /\ Locker(c)'
  BY StepsStayLocal, StepsOfLocks DEF Locker
<1>6. Locker(c) /\ sshPort[c] \in lockedPort' => sshPort'[c] = sshPort[c] /\ Locker(c)'
  <2>1. Locker(c) => pc[t] \in {"build", "run", "wait", "fail", "deprovision", "delete"}
    BY <1>1, StepsStayLocal DEF Locker, Busy
  <2>2. pc'[t] = "idle" => ~Busy(c)'
    BY <1>1, StepsStayLocal DEF Busy
  <2>3. QED
    BY <2>1, <2>2, StepsStayLocal, StepsOfLocks DEF Locker
<1>7. LocksOwned'
  BY <1>4, <1>5, <1>6 DEF LInv, LocksOwned
<1>8. QED
  BY <1>2, <1>3, <1>7 DEF LInv

\* As long as a container has one thread at a time, every locked port is the
\* port of a container, whichever way the thread that locked it ended.
THEOREM LockedPortsAreKnown == ~OverlappingOperations => (Spec => []NoPortLeak)
<1> SUFFICES ASSUME ~OverlappingOperations PROVE Spec => []NoPortLeak
  OBVIOUS
<1>1. Init => DInv /\ LInv
  BY DEF Init, DInv, OneWorker, DeletionProgress, FreeIsQuiet,
         DeletedLeavesNothing, Busy, LInv, LocksOwned, SetupLocal
<1>2. ProvTypeOK /\ ProvTypeOK' /\ DInv /\ LInv /\ [Next]_vars => DInv' /\ LInv'
  <2> SUFFICES ASSUME ProvTypeOK, ProvTypeOK', DInv, LInv, [Next]_vars
               PROVE  DInv' /\ LInv'
    OBVIOUS
  <2>1. CASE UNCHANGED vars
    BY <2>1 DEF vars, slivers, host, locals, DInv, OneWorker, DeletionProgress,
                FreeIsQuiet, DeletedLeavesNothing, Busy, LInv, LocksOwned,
                SetupLocal, Locker
  <2>2. CASE Next
    BY <2>2, CallsKeepDInv, StepsKeepDInv, CallsKeepLInv, StepsKeepLInv DEF Next
  <2>3. QED
    BY <2>1, <2>2
<1>3. LInv => NoPortLeak
  BY DEF LInv, LocksOwned, NoPortLeak
<1>4. QED
  BY <1>1, <1>2, <1>3, ProvisioningTypes, PTL DEF Spec

-----------------------------------------------------------------------------
(* Ready slivers *)

Placed(c) == box[c] # None /\ box[c].port = sshPort[c]
Stopping == {"stop", "stop_rm", "stop_end"}
AfterRun == {"wait", "ssh", "install"}

\* A thread works for the sliver its container is leased to, which is ready only
\* while it is being stopped; once docker run has succeeded, the container that
\* will be declared ready is there.
Work(t) ==
    pc[t] # "idle" =>
        /\ of[t] = sliver[on[t]]
        /\ pc[t] \in AfterRun => Placed(on[t])
        /\ pc[t] \notin Stopping => op[on[t]] # "ready"
WorkProgress == \A t \in Threads : Work(t)

\* Whatever its allocation state: Provision may set that at any time.
Ready(c) == leased[c] # "free" /\ op[c] = "ready"
ReadyPlaced == \A c \in Containers : Ready(c) /\ ~Busy(c) => Placed(c)

HInv == WorkProgress /\ ReadyPlaced

LEMMA CallsKeepHInv ==
    ASSUME ~OverlappingOperations, ProvTypeOK, DInv, HInv, NEW c \in Containers,
           \/ Allocate(c) \/ ComeUp(c) \/ ProvisionWithoutKeys(c)
           \/ \E t \in Threads : \/ Provision(t, c) \/ Reload(t, c) \/ Restart(t, c)
                                 \/ Stop(t, c) \/ Delete(t, c)
    PROVE  HInv'
<1>1. CASE Allocate(c)
  <2>1. ~Busy(c)
    BY <1>1 DEF Allocate, DInv, FreeIsQuiet
  <2>2. /\ UNCHANGED <<pc, on, of, box, sshPort>>
        /\ op'[c] = "pending"
        /\ \A d \in Containers \ {c} : /\ sliver'[d] = sliver[d] /\ op'[d] = op[d]
                                        /\ leased'[d] = leased[d] /\ alloc'[d] = alloc[d]
    BY <1>1 DEF Allocate, host, locals, ProvTypeOK
  <2>3. WorkProgress'
    BY <2>1, <2>2 DEF HInv, WorkProgress, Work, Placed, Busy, ProvTypeOK
  <2>4. ReadyPlaced'
    BY <2>2 DEF HInv, ReadyPlaced, Ready, Placed, Busy
  <2>5. QED
    BY <2>3, <2>4 DEF HInv
<1>2. CASE ComeUp(c)
  <2>1. \A d \in Containers : Placed(d) => Placed(d)'
    BY <1>2, NoneIsNothing DEF ComeUp, Placed, ProvTypeOK, Boxes
  <2>2. UNCHANGED <<slivers, sshPort, locals>>
    BY <1>2 DEF ComeUp
  <2>3. QED
    BY <2>1, <2>2 DEF HInv, WorkProgress, Work, ReadyPlaced, Ready, Placed,
                      Busy, slivers, locals, ProvTypeOK
<1>3. ASSUME NEW t \in Threads,
             Provision(t, c) \/ Reload(t, c) \/ Restart(t, c) \/ Stop(t, c) \/ Delete(t, c)
      PROVE  HInv'
  <2>1. PICK s \in {"prepare", "build", "restart", "stop", "delete"} :
           /\ pc' = [pc EXCEPT ![t] = s]
           /\ s # "stop" => op'[c] # "ready"
    BY <1>3 DEF Provision, Reload, Restart, Stop, Delete, Begin, ProvTypeOK
  <2>2. /\ pc[t] = "idle" /\ ~Busy(c)
        /\ on' = [on EXCEPT ![t] = c] /\ of' = [of EXCEPT ![t] = sliver[c]]
        /\ UNCHANGED <<sliver, sshPort, box>>
        /\ \A d \in Containers \ {c} : /\ op'[d] = op[d] /\ alloc'[d] = alloc[d]
                                        /\ leased'[d] = leased[d]
    BY <1>3 DEF Provision, Reload, Restart, Stop, Delete, Begin, host, slivers,
                ProvTypeOK
  <2>3. \A u \in Threads \ {t} :
           /\ pc'[u] = pc[u] /\ on'[u] = on[u] /\ of'[u] = of[u]
           /\ pc[u] # "idle" => on[u] \in Containers \ {c}
    BY <2>1, <2>2 DEF Busy, ProvTypeOK
  <2>4. pc'[t] = s /\ on'[t] = c /\ of'[t] = sliver[c]
    BY <2>1, <2>2 DEF ProvTypeOK
  <2>5. WorkProgress'
    BY <2>1, <2>2, <2>3, <2>4 DEF HInv, WorkProgress, Work, Placed, AfterRun, Stopping
  <2>6. Busy(c)' /\ \A d \in Containers \ {c} : Busy(d) => Busy(d)'
    BY <2>2, <2>3, <2>4 DEF Busy
  <2>7. ReadyPlaced'
    BY <2>2, <2>6 DEF HInv, ReadyPlaced, Ready, Placed
  <2>8. QED
    BY <2>5, <2>7 DEF HInv
<1>4. CASE ProvisionWithoutKeys(c)
  BY <1>4 DEF ProvisionWithoutKeys, host, locals, HInv, WorkProgress, Work,
              ReadyPlaced, Ready, Placed, Busy
<1>5. QED
  BY <1>1, <1>2, <1>3, <1>4

\* What the step of a thread does to its sliver's state and its container.
LEMMA StepsOfReady ==
    ASSUME ProvTypeOK, SetupLocal, WorkProgress, NEW t \in Threads, Step(t),
           NEW c \in Containers, c = on[t]
    PROVE  /\ UNCHANGED <<sliver, alloc>>
           /\ \A u \in Threads \ {t} : of'[u] = of[u]
           /\ pc'[t] # "idle" => of'[t] = of[t]
           /\ pc'[t] \in AfterRun => Placed(c)'
           /\ op'[c] = "ready" =>
                 pc'[t] \in Stopping \/ (pc'[t] = "idle" /\ Placed(c)')
<1> USE DEF ProvTypeOK, Steps, AfterRun, Stopping, Placed
<1>1. pc[t] # "idle" /\ of[t] = sliver[c]
  BY StepsStayLocal DEF WorkProgress, Work
<1>2. pc[t] \in AfterRun => Placed(c)
  BY <1>1 DEF WorkProgress, Work
<1>3. pc[t] \notin Stopping => op[c] # "ready"
  BY <1>1 DEF WorkProgress, Work
<1>4. CASE Prepare(t) \/ CopyLockedPorts(t) \/ ReservePort(t) \/ Build(t)
  BY <1>3, <1>4 DEF Prepare, CopyLockedPorts, ReservePort, Build, Goto, End,
                    slivers, host
<1>5. CASE Run(t)
  <2>1. pc[t] = "run" /\ port[t] = sshPort[c]
    BY <1>5 DEF Run, SetupLocal
  <2>2. UNCHANGED <<sliver, leased, alloc, op, sshPort>>
    BY <1>5 DEF Run, slivers
  <2>3. CASE End(t)
    BY <1>3, <2>1, <2>2, <2>3 DEF End
  <2>4. CASE Goto(t, "fail")
    BY <1>3, <2>1, <2>2, <2>4 DEF Goto
  <2>5. CASE /\ box' = [box EXCEPT ![c] = [port |-> port[t], state |-> "starting"]]
             /\ Goto(t, IF port[t] \in lockedPort THEN "wait" ELSE "ssh")
    <3>1. box'[c].port = port[t] /\ box'[c] = [port |-> port[t], state |-> "starting"]
      BY <2>5
    <3>2. port[t] \in Ports
      BY <1>5, <2>5, <2>1 DEF Run, Goto, End, Publishable
    <3>3. box'[c] # None
      BY <3>1, <3>2, NoneIsNothing DEF Boxes
    <3>4. QED
      BY <1>3, <2>1, <2>2, <2>5, <3>1, <3>3 DEF Goto
  <2>6. QED
    BY <1>5, <2>3, <2>4, <2>5 DEF Run
<1>6. CASE Wait(t) \/ ConnectSsh(t) \/ InstallFails(t) \/ Install(t)
         \/ InstallRaises(t) \/ Fail(t)
  BY <1>1, <1>2, <1>3, <1>6
     DEF Wait, ConnectSsh, InstallFails, Install, InstallRaises, Fail, Goto, End, SetOp, slivers,
         host, locals
<1>7. CASE ReleasePort(t) \/ RemoveBox(t)
  <2>1. PICK w \in {"delete", "stop", "deprovision"} :
           \/ pc[t] = Release[w] /\ Goto(t, Remove[w])
           \/ pc[t] = Remove[w] /\ Goto(t, Forget[w])
    BY <1>7 DEF ReleasePort, RemoveBox, Advance
  <2>2. UNCHANGED <<slivers, sshPort>>
    BY <1>7 DEF ReleasePort, RemoveBox
  <2>3. CASE w = "stop"
    BY <2>1, <2>2, <2>3 DEF Release, Remove, Forget, Goto, slivers
  <2>4. CASE w # "stop"
    BY <1>3, <2>1, <2>2, <2>4 DEF Release, Remove, Forget, Goto, slivers
  <2>5. QED
    BY <2>3, <2>4
<1>8. CASE ForgetPort(t)
  BY <1>1, <1>3, <1>8 DEF ForgetPort, Deprovisioning, Forget, End, SetOp, host
<1>9. CASE StopBox(t) \/ StartBox(t)
  BY <1>1, <1>3, <1>9 DEF StopBox, StartBox, Goto, End, SetOp, slivers
<1>10. QED
  BY <1>4, <1>5, <1>6, <1>7, <1>8, <1>9 DEF Step

LEMMA StepsKeepHInv ==
    ASSUME ProvTypeOK, LInv, DInv, HInv, NEW t \in Threads, Step(t)
    PROVE  HInv'
<1>. PICK c \in Containers : c = on[t]
  BY StepsStayLocal
<1>. SetupLocal /\ WorkProgress
  BY DEF LInv, HInv
<1>1. \A u \in Threads \ {t} : pc[u] # "idle" => on[u] \in Containers \ {c}
  BY StepsStayLocal DEF LInv, OneWorker, ProvTypeOK
<1>2. \A d \in Containers \ {c} :
         op'[d] = op[d] /\ leased'[d] = leased[d] /\ (Placed(d) => Placed(d)')
  BY StepsStayLocal, StepsOfLocks DEF Placed
<1>3. WorkProgress'
  <2>1. ASSUME NEW u \in Threads \ {t} PROVE Work(u)'
    <3>1. pc'[u] = pc[u] /\ on'[u] = on[u] /\ of'[u] = of[u] /\ sliver' = sliver
      BY StepsStayLocal, StepsOfReady
    <3>2. SUFFICES ASSUME pc[u] # "idle" PROVE Work(u)'
      BY <3>1 DEF Work
    <3>3. PICK d \in Containers \ {c} : d = on[u]
      BY <1>1, <3>2
    <3>4. Work(u)
      BY DEF WorkProgress
    <3>5. op'[d] = op[d] /\ (Placed(d) => Placed(d)')
      BY <1>2
    <3>6. QED
      BY <3>1, <3>2, <3>3, <3>4, <3>5 DEF Work, Placed
  <2>2. Work(t)'
    <3>1. Work(t)
      BY DEF WorkProgress
    <3>2. SUFFICES ASSUME pc'[t] # "idle" PROVE Work(t)'
      BY DEF Work
    <3>3. pc[t] # "idle" /\ on'[t] = c
      BY <3>2, StepsStayLocal
    <3>4. of'[t] = of[t] /\ sliver' = sliver /\ (pc'[t] \in AfterRun => Placed(c)')
      BY <3>2, StepsOfReady
    <3>5. pc'[t] \notin Stopping => op'[c] # "ready"
      BY <3>2, StepsOfReady
    <3>6. QED
      BY <3>1, <3>3, <3>4, <3>5 DEF Work, Placed
  <2>3. QED
    BY <2>1, <2>2 DEF WorkProgress
<1>4. ReadyPlaced'
  <2>1. ASSUME NEW d \in Containers \ {c}, Ready(d)', ~Busy(d)'
        PROVE  Placed(d)'
    <3>1. Ready(d)
      BY <1>2, <2>1, StepsOfReady DEF Ready
    <3>2. ~Busy(d)
      BY <2>1, StepsStayLocal DEF Busy
    <3>3. QED
      BY <1>2, <3>1, <3>2 DEF HInv, ReadyPlaced, Placed
  <2>2. ASSUME Ready(c)', ~Busy(c)' PROVE Placed(c)'
    <3>1. op'[c] = "ready" /\ pc'[t] = "idle"
      BY <2>2, StepsStayLocal DEF Ready, Busy
    <3>2. QED
      BY <3>1, StepsOfReady DEF Stopping
  <2>3. QED
    BY <2>1, <2>2 DEF ReadyPlaced, Placed
<1>5. QED
  BY <1>3, <1>4 DEF HInv

\* All of these invariants together.
PInv == ProvTypeOK /\ DInv /\ LInv /\ HInv

LEMMA InitPInv == Init => DInv /\ LInv /\ HInv
BY DEF Init, DInv, OneWorker, DeletionProgress, FreeIsQuiet,
       DeletedLeavesNothing, Busy, LInv, LocksOwned, SetupLocal, HInv,
       WorkProgress, Work, ReadyPlaced, Ready

LEMMA NextKeepsPInv ==
    ASSUME ~OverlappingOperations
    PROVE  PInv /\ ProvTypeOK' /\ [Next]_vars => PInv'
<1> SUFFICES ASSUME PInv, ProvTypeOK', [Next]_vars
             PROVE  DInv' /\ LInv' /\ HInv'
  BY DEF PInv
<1> USE DEF PInv
<1>1. CASE UNCHANGED vars
  BY <1>1 DEF vars, slivers, host, locals, DInv, OneWorker, DeletionProgress,
              FreeIsQuiet, DeletedLeavesNothing, Busy, LInv, LocksOwned,
              SetupLocal, Locker, HInv, WorkProgress, Work, ReadyPlaced, Ready,
              Placed
<1>2. CASE Next
  BY <1>2, CallsKeepDInv, StepsKeepDInv, CallsKeepLInv, StepsKeepLInv,
     CallsKeepHInv, StepsKeepHInv DEF Next
<1>3. QED
  BY <1>1, <1>2

LEMMA PInvAlways == ~OverlappingOperations => (Spec => []PInv)
<1> SUFFICES ASSUME ~OverlappingOperations PROVE Spec => []PInv
  OBVIOUS
<1>1. Init /\ ProvTypeOK => PInv
  BY InitPInv DEF PInv
<1>2. QED
  BY <1>1, NextKeepsPInv, ProvisioningTypes, PTL DEF Spec

\* As long as a container has one thread at a time, a sliver that is ready has
\* its docker container, on the port that the manifest gives the user.
THEOREM ReadySliversRun == ~OverlappingOperations => (Spec => []ReadyHasContainer)
<1>1. PInv => ReadyHasContainer
  BY DEF PInv, HInv, ReadyPlaced, Ready, Placed, ReadyHasContainer, Actionable
<1>2. QED
  BY <1>1, PInvAlways, PTL
=============================================================================
