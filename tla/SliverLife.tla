------------------------------ MODULE SliverLife ------------------------------
(***************************************************************************)
(* What the user of a sliver may rely on, without the threads that work on *)
(* it: the stages of a sliver from Allocate to the end of Delete, and the  *)
(* door, the port at which docker publishes its container.  A new sliver   *)
(* finds no door of an earlier one.  A sliver gets ready only behind a     *)
(* door, and keeps that door until somebody acts on it.  One that was      *)
(* stopped, or could not be set up, is spent: it is of no use but to be    *)
(* deleted.  One whose installation an exception has cut short is          *)
(* stranded: it says that it is getting ready, and nobody is at work.      *)
(***************************************************************************)
CONSTANTS Containers, Ports, Closed

VARIABLES life, door

vars == <<life, door>>

Stages == {"free", "allocated", "setup", "install", "ready", "restart", "broken",
           "stranded", "ending", "spent", "deleting"}

Init ==
    /\ life = [c \in Containers |-> "free"]
    /\ door = [c \in Containers |-> Closed]

Move(c, from, to) ==
    /\ life[c] \in from
    /\ life' = [life EXCEPT ![c] = to]
    /\ UNCHANGED door

Allocate(c) == door[c] = Closed /\ Move(c, {"free"}, "allocated")

\* Provision, or geni_reload: of a sliver that is new, ready, was stranded, or
\* did not come back from a restart.
SetUp(c) == Move(c, {"allocated", "ready", "broken", "stranded"}, "setup")

\* The container of docker comes and goes only while a thread is at work on it.
Open(c) ==
    /\ life[c] = "setup" /\ door[c] = Closed
    /\ \E p \in Ports : door' = [door EXCEPT ![c] = p]
    /\ UNCHANGED life
Close(c) ==
    /\ life[c] \in {"setup", "ending", "deleting"}
    /\ door' = [door EXCEPT ![c] = Closed]
    /\ UNCHANGED life

Connect(c) == door[c] # Closed /\ Move(c, {"setup"}, "install")
GetReady(c) == Move(c, {"install"}, "ready")

\* An exception ends the installation: before a service has failed, or after.
Strand(c) == Move(c, {"install"}, "stranded")
BreakOff(c) == Move(c, {"install"}, "broken")

\* The restart is taken for a failure, whatever becomes of it.
Restart(c) == Move(c, {"ready"}, "restart")
Break(c) == Move(c, {"restart"}, "broken")

\* geni_stop, or a failure to set the sliver up.
GiveUp(c) == Move(c, {"ready", "setup"}, "ending")
Spend(c) == door[c] = Closed /\ Move(c, {"ending"}, "spent")

\* An exception ends the setting up, and leaves the door as it is.
Abort(c) == Move(c, {"setup"}, "spent")

Delete(c) ==
    Move(c, {"allocated", "ready", "broken", "stranded", "spent"}, "deleting")
Free(c) == door[c] = Closed /\ Move(c, {"deleting"}, "free")

Next ==
    \E c \in Containers :
        \/ Allocate(c) \/ SetUp(c) \/ Open(c) \/ Close(c) \/ Connect(c) \/ GetReady(c)
        \/ Strand(c) \/ BreakOff(c) \/ Restart(c) \/ Break(c) \/ GiveUp(c) \/ Spend(c)
        \/ Abort(c) \/ Delete(c) \/ Free(c)

Spec == Init /\ [][Next]_vars
=============================================================================
