---------------------------- MODULE Provisioning ----------------------------
(***************************************************************************)
(* From an allocated sliver to a running Docker container and back:        *)
(* Provision, PerformOperationalAction and the end of Delete (testbed.py), *)
(* the DockerContainer methods they call (dockercontainer.py), and the     *)
(* DockerManager that starts containers and hands out the SSH ports of one *)
(* host (gcf_to_docker.py).  Every call and the thread it starts for a     *)
(* sliver is one of the Threads; docker and the network are external.      *)
(*                                                                         *)
(* A DockerContainer object is leased to one sliver after another.  A      *)
(* thread keeps the sliver it was started for, and the container, whatever *)
(* becomes of them meanwhile.                                              *)
(***************************************************************************)
EXTENDS Naturals, FiniteSets

CONSTANTS
    Containers,            \* DockerContainer objects of one host
    Threads,
    MaxPort,               \* ports from starting_ipv4_port to the last one
    Slivers,               \* identities for slivers, used again and again
    Actions,               \* what clients use of geni_stop, _restart, _reload
    OverlappingOperations, \* may two threads work on one container at a time?
    None

ASSUME ProvisioningAssumption ==
    /\ MaxPort \in Nat
    /\ Actions \subseteq {"stop", "restart", "reload"}
    /\ OverlappingOperations \in BOOLEAN

Ports == 1..MaxPort
NoPort == 0              \* ssh_port = 22, none reserved
TooHigh == MaxPort + 1   \* any number after the last port

\* A container known to docker under the name of the DockerContainer.
Boxes == [port : Ports, state : {"starting", "up", "down"}]

ASSUME NoneIsNothing == None \notin Boxes \cup Threads \cup Containers \cup Slivers

VARIABLES
    sliver,    \* the sliver a container was last leased to
    leased,    \* is that sliver still there?
    alloc, op, \* its allocation state and operational state
    chosen,    \* DockerContainer.chosen_sliver_type is set
    sshPort,   \* DockerContainer.ssh_port
    lockedPort,\* locked_port
    portLock,  \* lock
    box,       \* docker's container of that name
    pc, on, of,\* of a thread: where it is, its container, its sliver
    port, snap \* its ssh_port argument of startNew, and _locked_port

slivers == <<sliver, leased, alloc, op>>
host == <<lockedPort, portLock, box>>
locals == <<pc, on, of, port, snap>>
vars == <<slivers, chosen, sshPort, host, locals>>

-----------------------------------------------------------------------------
\* netstat: isContainerUp(p).  On port 22 the host's own SSH server listens.
Listening(p) ==
    p = NoPort \/ \E c \in Containers : box[c] # None /\ box[c].port = p /\ box[c].state = "up"

\* docker can publish port p.
Publishable(p) ==
    /\ p \in Ports
    /\ \A c \in Containers : box[c] # None /\ box[c].port = p => box[c].state = "down"

Busy(c) == \E t \in Threads : pc[t] # "idle" /\ on[t] = c

\* A client starts an operation on container c.
Begin(t, c, step) ==
    /\ pc[t] = "idle"
    /\ OverlappingOperations \/ ~Busy(c)
    /\ pc' = [pc EXCEPT ![t] = step]
    /\ on' = [on EXCEPT ![t] = c]
    /\ of' = [of EXCEPT ![t] = sliver[c]]

Goto(t, step) == pc' = [pc EXCEPT ![t] = step] /\ UNCHANGED <<on, of>>

\* The thread ends, by its return or by an exception.
End(t) ==
    /\ pc' = [pc EXCEPT ![t] = "idle"]
    /\ on' = [on EXCEPT ![t] = None]
    /\ of' = [of EXCEPT ![t] = None]
    /\ port' = [port EXCEPT ![t] = NoPort]
    /\ snap' = [snap EXCEPT ![t] = {}]

\* sliver.setOperationalState(s): seen by nobody if the sliver is gone.
SetOp(t, s) ==
    op' = IF of[t] = sliver[on[t]] THEN [op EXCEPT ![on[t]] = s] ELSE op

-----------------------------------------------------------------------------
(* The calls *)

\* Allocate: matchResource and chosen_sliver_type, for a sliver that no thread
\* takes for an earlier one.
Allocate(c) ==
    /\ leased[c] = "free"
    /\ \E s \in Slivers : /\ \A t \in Threads : on[t] = c => of[t] # s
                          /\ sliver' = [sliver EXCEPT ![c] = s]
    /\ leased' = [leased EXCEPT ![c] = "leased"]
    /\ alloc' = [alloc EXCEPT ![c] = "allocated"]
    /\ op' = [op EXCEPT ![c] = "pending"]
    /\ chosen' = [chosen EXCEPT ![c] = TRUE]
    /\ UNCHANGED <<sshPort, host, locals>>

\* Provision skips the slivers that are being configured.
Provision(t, c) ==
    /\ leased[c] # "free"
    /\ op[c] # "configuring"
    /\ alloc' = [alloc EXCEPT ![c] = "provisioned"]
    /\ op' = [op EXCEPT ![c] = "configuring"]
    /\ Begin(t, c, "prepare")
    /\ UNCHANGED <<sliver, leased, chosen, sshPort, host, port, snap>>

\* Provision without a key of a user answers BAD_ARGS, but has already extended
\* the lease and set the allocation state: of all slivers, as it also does of
\* those that it skips because they are being configured.
ProvisionWithoutKeys(c) ==
    /\ leased[c] # "free"
    /\ alloc' = [alloc EXCEPT ![c] = "provisioned"]
    /\ UNCHANGED <<sliver, leased, op, chosen, sshPort, host, locals>>

\* PerformOperationalAction acts on provisioned slivers that are ready.
Actionable(c) == leased[c] # "free" /\ alloc[c] = "provisioned" /\ op[c] = "ready"

Reload(t, c) ==
    /\ "reload" \in Actions /\ Actionable(c)
    /\ op' = [op EXCEPT ![c] = "configuring"]
    /\ Begin(t, c, "build")
    /\ UNCHANGED <<sliver, leased, alloc, chosen, sshPort, host, port, snap>>

Restart(t, c) ==
    /\ "restart" \in Actions /\ Actionable(c)
    /\ op' = [op EXCEPT ![c] = "configuring"]
    /\ Begin(t, c, "restart")
    /\ UNCHANGED <<sliver, leased, alloc, chosen, sshPort, host, port, snap>>

Stop(t, c) ==
    /\ "stop" \in Actions /\ Actionable(c)
    /\ Begin(t, c, "stop")
    /\ UNCHANGED <<slivers, chosen, sshPort, host, port, snap>>

\* delete_sliver first resets the states of the sliver.
Delete(t, c) ==
    /\ leased[c] = "leased"
    /\ leased' = [leased EXCEPT ![c] = "deleting"]
    /\ alloc' = [alloc EXCEPT ![c] = "unallocated"]
    /\ op' = [op EXCEPT ![c] = "pending"]
    /\ Begin(t, c, "delete")
    /\ UNCHANGED <<sliver, chosen, sshPort, host, port, snap>>

-----------------------------------------------------------------------------
(* preprovision: the SSH port *)

\* It raises without a chosen_sliver_type; the port is kept if it is in use.
Prepare(t) ==
    LET c == on[t] IN
    /\ pc[t] = "prepare"
    /\ \/ ~chosen[c] /\ End(t)
       \/ /\ chosen[c] /\ (sshPort[c] = NoPort \/ ~Listening(sshPort[c]))
          /\ Goto(t, "reserve") /\ UNCHANGED <<port, snap>>
       \/ /\ chosen[c] /\ sshPort[c] # NoPort /\ Listening(sshPort[c])
          /\ Goto(t, "build") /\ UNCHANGED <<port, snap>>
    /\ UNCHANGED <<slivers, chosen, sshPort, host>>

\* Mutant: reserveNextPort without the lock.
CopyWithoutLock(t) ==
    /\ pc[t] = "reserve"
    /\ snap' = [snap EXCEPT ![t] = lockedPort]
    /\ Goto(t, "scan")
    /\ UNCHANGED <<slivers, chosen, sshPort, host, port>>

\* reserveNextPort: under the lock, getNextPort first copies locked_port,
CopyLockedPorts(t) ==
    /\ pc[t] = "reserve"
    /\ portLock = None
    /\ portLock' = t
    /\ snap' = [snap EXCEPT ![t] = lockedPort]
    /\ Goto(t, "scan")
    /\ UNCHANGED <<slivers, chosen, sshPort, lockedPort, box, port>>

\* then asks netstat, and takes the first number that is in neither.
ReservePort(t) ==
    /\ pc[t] = "scan"
    /\ \E p \in Ports \cup {TooHigh} :
        /\ ~Listening(p) /\ p \notin snap[t]
        /\ \A q \in Ports : q < p => Listening(q) \/ q \in snap[t]
        /\ lockedPort' = lockedPort \cup ({p} \cap Ports)
        /\ sshPort' = [sshPort EXCEPT ![on[t]] = p]
    /\ portLock' = None
    /\ Goto(t, "build")
    /\ UNCHANGED <<slivers, chosen, box, port, snap>>

-----------------------------------------------------------------------------
(* provision_install_execute_sliver *)

\* provision raises without a chosen_sliver_type.  An old container that still
\* runs is removed; the arguments of startNew are evaluated before it starts.
Build(t) ==
    LET c == on[t] IN
    /\ pc[t] = "build"
    /\ \/ ~chosen[c] /\ End(t) /\ UNCHANGED box
       \/ /\ chosen[c]
          /\ box' = [box EXCEPT ![c] = IF Listening(sshPort[c]) THEN None ELSE @]
          /\ port' = [port EXCEPT ![t] = sshPort[c]]
          /\ Goto(t, "run")
          /\ UNCHANGED snap
    /\ UNCHANGED <<slivers, chosen, sshPort, lockedPort, portLock>>

\* Mutant: the result of docker run is not looked at.
RunUnchecked(t) ==
    LET c == on[t] IN
    /\ pc[t] = "run"
    /\ box' = [box EXCEPT ![c] = IF @ = None /\ Publishable(port[t])
                                 THEN [port |-> port[t], state |-> "starting"] ELSE @]
    /\ Goto(t, IF port[t] \in lockedPort THEN "wait" ELSE "ssh")
    /\ UNCHANGED <<slivers, chosen, sshPort, lockedPort, portLock, port, snap>>

\* startNew raises if there is no such image.  docker run succeeds only if the
\* name and the port are free, and may fail for other reasons.
Run(t) ==
    LET c == on[t] IN
    /\ pc[t] = "run"
    /\ \/ /\ box[c] = None /\ Publishable(port[t])
          /\ box' = [box EXCEPT ![c] = [port |-> port[t], state |-> "starting"]]
          /\ Goto(t, IF port[t] \in lockedPort THEN "wait" ELSE "ssh")
          /\ UNCHANGED <<port, snap>>
       \/ Goto(t, "fail") /\ UNCHANGED <<box, port, snap>>
       \/ End(t) /\ UNCHANGED box
    /\ UNCHANGED <<slivers, chosen, sshPort, lockedPort, portLock>>

\* Mutant: the wait for the container to listen has no end.
WaitForever(t) ==
    /\ pc[t] = "wait"
    /\ \/ /\ Listening(port[t])
          /\ lockedPort' = lockedPort \ {port[t]}
          /\ Goto(t, "ssh")
       \/ ~Listening(port[t]) /\ UNCHANGED <<lockedPort, pc, on, of>>
    /\ UNCHANGED <<slivers, chosen, sshPort, portLock, box, port, snap>>

\* A port that was locked is unlocked when the container listens, within 45
\* seconds; list.remove raises if somebody else has unlocked it meanwhile.
Wait(t) ==
    /\ pc[t] = "wait"
    /\ \/ /\ Listening(port[t]) /\ port[t] \in lockedPort
          /\ lockedPort' = lockedPort \ {port[t]}
          /\ Goto(t, "ssh") /\ UNCHANGED <<port, snap>>
       \/ Listening(port[t]) /\ port[t] \notin lockedPort /\ End(t) /\ UNCHANGED lockedPort
       \/ /\ ~Listening(port[t])
          /\ Goto(t, "fail") /\ UNCHANGED <<lockedPort, port, snap>>
    /\ UNCHANGED <<slivers, chosen, sshPort, portLock, box>>

\* waitForSshConnection, on the port the container has by now.
ConnectSsh(t) ==
    /\ pc[t] = "ssh"
    /\ \/ /\ Listening(sshPort[on[t]])
          /\ SetOp(t, "busy") /\ Goto(t, "install")
       \/ ~Listening(sshPort[on[t]]) /\ Goto(t, "fail") /\ UNCHANGED op
    /\ UNCHANGED <<sliver, leased, alloc, chosen, sshPort, host, port, snap>>

\* An install service fails: the next ones are tried nevertheless.
InstallFails(t) ==
    /\ pc[t] = "install"
    /\ SetOp(t, "failed")
    /\ UNCHANGED <<sliver, leased, alloc, chosen, sshPort, host, locals>>

\* The end of the install services, after which the sliver is ready even if
\* an installation failed.
Install(t) ==
    /\ pc[t] = "install"
    /\ SetOp(t, "ready")
    /\ End(t)
    /\ UNCHANGED <<sliver, leased, alloc, chosen, sshPort, host>>

\* An exception ends the thread among the install services: the request has no
\* default namespace or no such node, a service no url or install_path.  Nobody
\* catches it, and the sliver stays geni_ready_busy, or geni_failed.
InstallRaises(t) ==
    /\ pc[t] = "install"
    /\ End(t)
    /\ UNCHANGED <<slivers, chosen, sshPort, host>>

\* The sliver has failed; its resource will be deprovisioned.
Fail(t) ==
    /\ pc[t] = "fail"
    /\ SetOp(t, "failed")
    /\ Goto(t, "deprovision")
    /\ UNCHANGED <<sliver, leased, alloc, chosen, sshPort, host, port, snap>>

-----------------------------------------------------------------------------
(* deprovision, called by the three threads that give a container up *)

\* At the step s of a deprovision that a Delete ("delete"), geni_stop ("stop")
\* or a failed thread ("deprovision") began.
Deprovisioning(t, s) == \E w \in {"delete", "stop", "deprovision"} : pc[t] = s[w]

Release == [w \in {"delete", "stop", "deprovision"} |-> w]
Remove == [delete |-> "delete_rm", stop |-> "stop_rm", deprovision |-> "deprovision_rm"]
Forget == [delete |-> "delete_end", stop |-> "stop_end", deprovision |-> "deprovision_end"]

Advance(t, from, to) ==
    \E w \in {"delete", "stop", "deprovision"} : pc[t] = from[w] /\ Goto(t, to[w])

\* Mutant: deprovision does not release the port.
KeepPort(t) ==
    /\ Advance(t, Release, Remove)
    /\ chosen' = [chosen EXCEPT ![on[t]] = FALSE]
    /\ UNCHANGED <<slivers, sshPort, host, port, snap>>

\* Mutant: the overridden deprovision, which resets chosen_sliver_type, is not
\* called.
KeepType(t) ==
    /\ Advance(t, Release, Remove)
    /\ lockedPort' = lockedPort \ {sshPort[on[t]]}
    /\ UNCHANGED <<slivers, chosen, sshPort, portLock, box, port, snap>>

\* chosen_sliver_type = None, and releasePort.
ReleasePort(t) ==
    /\ Advance(t, Release, Remove)
    /\ chosen' = [chosen EXCEPT ![on[t]] = FALSE]
    /\ lockedPort' = lockedPort \ {sshPort[on[t]]}
    /\ UNCHANGED <<slivers, sshPort, portLock, box, port, snap>>

\* Mutant: docker rm without -f fails on a running container.
RemoveStopped(t) ==
    /\ Advance(t, Remove, Forget)
    /\ box' = [box EXCEPT ![on[t]] = IF @ # None /\ @.state = "up" THEN @ ELSE None]
    /\ UNCHANGED <<slivers, chosen, sshPort, lockedPort, portLock, port, snap>>

\* docker rm -f
RemoveBox(t) ==
    /\ Advance(t, Remove, Forget)
    /\ box' = [box EXCEPT ![on[t]] = None]
    /\ UNCHANGED <<slivers, chosen, sshPort, lockedPort, portLock, port, snap>>

\* ssh_port = 22; a deleted sliver's container then goes back to its pool.
ForgetPort(t) ==
    LET c == on[t] IN
    /\ Deprovisioning(t, Forget)
    /\ sshPort' = [sshPort EXCEPT ![c] = NoPort]
    /\ leased' = [leased EXCEPT ![c] = IF pc[t] = "delete_end" THEN "free" ELSE @]
    /\ IF pc[t] = "stop_end" THEN SetOp(t, "notready") ELSE UNCHANGED op
    /\ End(t)
    /\ UNCHANGED <<sliver, alloc, chosen, host>>

-----------------------------------------------------------------------------
(* thread_restart *)

\* docker restart stops the container, and starts it again.
StopBox(t) ==
    /\ pc[t] = "restart"
    /\ box' = [box EXCEPT ![on[t]] = IF @ = None THEN None ELSE [@ EXCEPT !.state = "down"]]
    /\ Goto(t, "restarting")
    /\ UNCHANGED <<slivers, chosen, sshPort, lockedPort, portLock, port, snap>>

\* DockerContainer.restart returns nothing, which thread_restart takes for a
\* failure.
StartBox(t) ==
    LET c == on[t] IN
    /\ pc[t] = "restarting"
    /\ box' = [box EXCEPT ![c] = IF @ # None /\ Publishable(@.port)
                                 THEN [@ EXCEPT !.state = "starting"] ELSE @]
    /\ SetOp(t, "failed")
    /\ End(t)
    /\ UNCHANGED <<sliver, leased, alloc, chosen, sshPort, lockedPort, portLock>>

\* docker: a container that starts will listen, or has a command that ends.
ComeUp(c) ==
    /\ box[c] # None /\ box[c].state = "starting"
    /\ \E s \in {"up", "down"} : box' = [box EXCEPT ![c].state = s]
    /\ UNCHANGED <<slivers, chosen, sshPort, lockedPort, portLock, locals>>

-----------------------------------------------------------------------------
Init ==
    /\ sliver = [c \in Containers |-> None]
    /\ leased = [c \in Containers |-> "free"]
    /\ alloc = [c \in Containers |-> "unallocated"]
    /\ op = [c \in Containers |-> "pending"]
    /\ chosen = [c \in Containers |-> FALSE]
    /\ sshPort = [c \in Containers |-> NoPort]
    /\ lockedPort = {}
    /\ portLock = None
    /\ box = [c \in Containers |-> None]
    /\ pc = [t \in Threads |-> "idle"]
    /\ on = [t \in Threads |-> None]
    /\ of = [t \in Threads |-> None]
    /\ port = [t \in Threads |-> NoPort]
    /\ snap = [t \in Threads |-> {}]

Step(t) ==
    \/ Prepare(t) \/ CopyLockedPorts(t) \/ ReservePort(t) \/ Build(t) \/ Run(t)
    \/ Wait(t) \/ ConnectSsh(t) \/ InstallFails(t) \/ Install(t)
    \/ InstallRaises(t) \/ Fail(t) \/ ReleasePort(t) \/ RemoveBox(t) \/ ForgetPort(t)
    \/ StopBox(t) \/ StartBox(t)

Next ==
    \/ \E c \in Containers : Allocate(c) \/ ComeUp(c) \/ ProvisionWithoutKeys(c)
    \/ \E t \in Threads, c \in Containers :
          Provision(t, c) \/ Reload(t, c) \/ Restart(t, c) \/ Stop(t, c) \/ Delete(t, c)
    \/ \E t \in Threads : Step(t)

Spec == Init /\ [][Next]_vars

\* A thread that can run does, and has finitely many services to install; the
\* lock is not kept from one for ever.
Fairness ==
    \A t \in Threads : /\ WF_vars(Step(t) /\ pc'[t] # pc[t])
                       /\ SF_vars(CopyLockedPorts(t))

FairSpec == Spec /\ Fairness
-----------------------------------------------------------------------------
Steps == {"idle", "prepare", "reserve", "scan", "build", "run", "wait", "ssh",
          "install", "fail", "restart", "restarting", "delete", "delete_rm",
          "delete_end", "stop", "stop_rm", "stop_end", "deprovision",
          "deprovision_rm", "deprovision_end"}

\* The values of the variables.  The port lock is held by a thread exactly
\* while it looks for a port (reserveNextPort).
ProvTypeOK ==
    /\ sliver \in [Containers -> Slivers \cup {None}]
    /\ leased \in [Containers -> {"free", "leased", "deleting"}]
    /\ alloc \in [Containers -> {"unallocated", "allocated", "provisioned"}]
    /\ op \in [Containers -> {"pending", "notready", "configuring", "ready", "busy", "failed"}]
    /\ chosen \in [Containers -> BOOLEAN]
    /\ sshPort \in [Containers -> Ports \cup {NoPort, TooHigh}]
    /\ lockedPort \subseteq Ports
    /\ box \in [Containers -> Boxes \cup {None}]
    /\ pc \in [Threads -> Steps]
    /\ on \in [Threads -> Containers \cup {None}]
    /\ of \in [Threads -> Slivers \cup {None}]
    /\ port \in [Threads -> Ports \cup {NoPort, TooHigh}]
    /\ snap \in [Threads -> SUBSET Ports]
    /\ portLock \in Threads \cup {None}
    /\ \A t \in Threads : /\ pc[t] = "scan" <=> portLock = t
                          /\ pc[t] = "idle" <=> on[t] = None

\* A port is reserved for one container only: reserveNextPort (lines 76-81)
\* never hands out a port that is still locked for another, although the copy of
\* locked_port that it searches is older than the moment it appends to it.
ReservesFreshPort ==
    [][\A c \in Containers :
          sshPort'[c] # sshPort[c] => sshPort'[c] \notin lockedPort]_vars

\* An operational state of geni_ready promises a container of docker on the port
\* that the manifest gives the user, whatever docker and the network answered
\* to the thread that worked on the sliver (testbed.py, 608-638).
ReadyHasContainer ==
    \A c \in Containers : Actionable(c) /\ ~Busy(c) =>
        box[c] # None /\ box[c].port = sshPort[c]

\* A container that is free to be matched again has nothing left of the sliver
\* that had it: not in docker, no SSH port and no sliver type (deprovision).
DeletedLeavesNothing ==
    \A c \in Containers : leased[c] = "free" =>
        box[c] = None /\ sshPort[c] = NoPort /\ ~chosen[c]

\* A locked port is the port of some container, which will unlock it: a port
\* that no container has any more is locked until the daemon restarts.
NoPortLeak == \A p \in lockedPort : \E c \in Containers : sshPort[c] = p

\* Whatever docker and other threads do, the thread of a call comes to an end,
\* by its return or by an exception (startNew waits 45 s at most).
WorkersFinish == \A t \in Threads : pc[t] # "idle" ~> pc[t] = "idle"

(* What the advertisement says and the code does not do *)

\* advert_header: the next state of geni_restart is geni_ready.  A thread_restart
\* that ends with its docker container started again leaves its sliver ready.
RestartLeadsToReady ==
    [][\A t \in Threads :
          pc[t] = "restarting" /\ pc'[t] = "idle" /\ box'[on[t]] # None
             /\ box'[on[t]].state # "down" => op'[on[t]] = "ready"]_vars
=============================================================================
