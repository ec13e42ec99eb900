-------------------------- MODULE ProvisioningLife --------------------------
(***************************************************************************)
(* Provisioning implements SliverLife, with the stage of a sliver read off *)
(* the thread that works on its container or, while there is none, off its *)
(* operational state and chosen_sliver_type.                               *)
(***************************************************************************)
EXTENDS Provisioning

\* The stage of a sliver while a thread is at step s.
StageAt(s) ==
    CASE s \in {"prepare", "reserve", "scan", "build", "run", "wait", "ssh"} -> "setup"
      [] s = "install" -> "install"
      [] s \in {"restart", "restarting"} -> "restart"
      [] s \in {"delete", "delete_rm", "delete_end"} -> "deleting"
      [] OTHER -> "ending"

\* Nothing but Delete acts on it: preprovision raises without a sliver type, and
\* Provision skips a sliver that is configuring.
Spent(c) == ~chosen[c] \/ op[c] = "configuring"

Resting(c) ==
    IF Spent(c) THEN "spent"
    ELSE CASE op[c] = "pending" -> "allocated"
           [] op[c] = "ready" -> "ready"
           [] op[c] = "busy" -> "stranded"
           [] OTHER -> "broken"

LifeOf(c) ==
    IF leased[c] = "free" THEN "free"
    ELSE IF ~Busy(c) THEN Resting(c)
    ELSE LET s == pc[CHOOSE t \in Threads : pc[t] # "idle" /\ on[t] = c]
         IN  IF s = "prepare" /\ ~chosen[c] THEN "spent" ELSE StageAt(s)

DoorOf(c) == IF box[c] = None THEN NoPort ELSE box[c].port

Life == INSTANCE SliverLife
           WITH life <- [c \in Containers |-> LifeOf(c)],
                door <- [c \in Containers |-> DoorOf(c)],
                Closed <- NoPort

\* As long as a container has one thread at a time, a sliver lives as SliverLife
\* says, whatever docker answers and whatever is done to other slivers:
\* a deprovisioned one is never provisioned again ("deprovision also prevents
\* reprovisioning", PerformOperationalAction), and a ready one keeps its
\* container on its port until somebody acts on it.
ImplementsLife == Life!Spec
=============================================================================
