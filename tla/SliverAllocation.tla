-------------------------- MODULE SliverAllocation --------------------------
(***************************************************************************)
(* The part of DockerAggregateManager (testbed.py) that moves containers   *)
(* between the pools of the DockerMasters and the slices: Allocate, Delete *)
(* with its thread_delete, and expire_slivers.  With multithread=true each *)
(* API call runs on a server thread of its own; every Delete starts one    *)
(* more thread, and a daemon thread runs expire_slivers for ever.  A step  *)
(* of this module is a piece of such a thread between two points where     *)
(* another thread can observe or change the shared objects.                *)
(*                                                                         *)
(* Callers are the threads that run Allocate.  Deleters are the threads    *)
(* that run thread_delete or expire_slivers (on behalf of the daemon or of *)
(* any API call, all of which begin with it).                              *)
(***************************************************************************)
EXTENDS Naturals, FiniteSets

CONSTANTS
    Containers,         \* the DockerContainer objects of all DockerMasters
    ProxyContainers,    \* those of proxy_dockermaster, {} if there is none
    URNs,               \* slice URNs
    Callers, Deleters,  \* threads, by the role they play
    Tags,               \* tell Slice and Sliver objects apart (a bound)
    Flaws,              \* what may be wrong with a request (see Requests)
    MaxNodes,           \* bound: nodes of one request
    MaxCopies,          \* bound: lists a container is in when a deletion overlaps
    OverlappingDeletes, \* may two deletions work on one slice at a time?
    None

ASSUME ConstantsAssumption ==
    /\ ProxyContainers \subseteq Containers
    /\ Flaws \subseteq {"none", "node", "match", "option"}
    /\ MaxNodes \in Nat
    /\ MaxCopies \in Nat \ {0}
    /\ OverlappingDeletes \in BOOLEAN

(***************************************************************************)
(* A Slice object is known by its URN and a tag, as two calls may build    *)
(* two objects for one URN; a Sliver by its slice, its resource and a tag. *)
(***************************************************************************)
SliceObjs == [urn : URNs, tag : Tags]
Slivers == [slice : SliceObjs, res : Containers, tag : Tags]

ASSUME NoneAssumption ==
    None \notin Callers \cup Deleters \cup SliceObjs \cup Slivers

\* What an Allocate call asks for: a number of nodes that any container can
\* serve, perhaps followed by one without client_id or sliver_type ("node") or
\* by one that no DockerMaster serves, full as its pool may be: a sliver type
\* it does not support, exclusive="true", an unknown component_id ("match"); or
\* the option geni_start_time ("option").
Requests == [urn : URNs, nodes : 0..MaxNodes, flaw : Flaws]

FlawedNode(r) == r.flaw \in {"node", "match"}

VARIABLES
    pool,         \* how often a container is listed in its DockerMaster's pool
    chosen,       \* is the container's chosen_sliver_type set?
    slices,       \* AM._slices
    slivers,      \* Slice._slivers
    expired,      \* the slivers whose expiration has passed
    allocateLock, \* ALLOCATE_LOCK, and who took it
    expireLocked, \* EXPIRE_LOCK
    pc, req, held, target,   \* locals of the Callers: resources, newslice
    step, kind, todo, cur    \* locals of the Deleters: slivers, sliver

shared == <<pool, chosen, slices, slivers, expired, allocateLock, expireLocked>>
callerVars == <<pc, req, held, target>>
deleterVars == <<step, kind, todo, cur>>
vars == <<shared, callerVars, deleterVars>>

-----------------------------------------------------------------------------
(* What the threads still refer to *)

\* The slivers a deletion has yet to finish with.
JobSlivers(w) == todo[w] \cup ({cur[w]} \ {None})

\* The slices in which thread w deletes something.
JobURNs(w) == {s.slice.urn : s \in JobSlivers(w)}

\* Slice(slice_urn) and Sliver(...) return objects nobody refers to yet.
FreshSlice(o) ==
    /\ \A u \in URNs : slices[u] # o
    /\ \A t \in Callers : target[t] # o
    /\ \A w \in Deleters : \A s \in JobSlivers(w) : s.slice # o
FreshSliver(s) ==
    /\ s \notin slivers[s.slice]
    /\ \A w \in Deleters :
          s \notin todo[w] /\ ~(step[w] \in {"reset", "remove"} /\ cur[w] = s)

-----------------------------------------------------------------------------
(* Allocate *)

NoneHeld == [c \in Containers |-> 0]

\* The call returns: what it still holds is garbage for Python.
Return(t) ==
    /\ pc' = [pc EXCEPT ![t] = "idle"]
    /\ req' = [req EXCEPT ![t] = None]
    /\ held' = [held EXCEPT ![t] = NoneHeld]
    /\ target' = [target EXCEPT ![t] = None]

\* Everything before ALLOCATE_LOCK: only the arguments matter afterwards.
Allocate(t, r) ==
    /\ pc[t] = "idle"
    /\ pc' = [pc EXCEPT ![t] = "acquire"]
    /\ req' = [req EXCEPT ![t] = r]
    /\ UNCHANGED <<shared, held, target, deleterVars>>

\* Mutant: the call does not wait for the lock.
AcquireLockUnchecked(t) ==
    /\ pc[t] = "acquire"
    /\ allocateLock' = t
    /\ pc' = [pc EXCEPT ![t] = IF ProxyContainers = {} THEN "match" ELSE "proxy"]
    /\ UNCHANGED <<pool, chosen, slices, slivers, expired, expireLocked,
                   req, held, target, deleterVars>>

\* The lock is taken; a request without a node for this AM gives it back and
\* answers SEARCH_FAILED.
AcquireLock(t) ==
    /\ pc[t] = "acquire"
    /\ allocateLock = None
    /\ IF req[t].nodes = 0 /\ ~FlawedNode(req[t])
       THEN Return(t) /\ UNCHANGED allocateLock
       ELSE /\ allocateLock' = t
            /\ pc' = [pc EXCEPT ![t] = IF ProxyContainers = {} THEN "match"
                                       ELSE "proxy"]
            /\ UNCHANGED <<req, held, target>>
    /\ UNCHANGED <<pool, chosen, slices, slivers, expired, expireLocked,
                   deleterVars>>

\* Mutant: without "if len(self.pool) == 0".
TakeFromUnchecked(t, S) ==
    \E c \in S :
        /\ pool' = [pool EXCEPT ![c] = @ - 1]
        /\ held' = [held EXCEPT ![t][c] = @ + 1]
        /\ chosen' = [chosen EXCEPT ![c] = TRUE]

\* matchResource of a DockerMaster takes a container out of the pool: the
\* first one, or the one the node names as component_id.
TakeFrom(t, S) ==
    \E c \in S :
        /\ pool[c] > 0
        /\ pool' = [pool EXCEPT ![c] = @ - 1]
        /\ held' = [held EXCEPT ![t][c] = @ + 1]
        /\ chosen' = [chosen EXCEPT ![c] = TRUE]

Exhausted(S) == \A c \in S : pool[c] = 0

MatchProxy(t) ==
    /\ pc[t] = "proxy"
    /\ TakeFrom(t, ProxyContainers)
    /\ pc' = [pc EXCEPT ![t] = "match"]
    /\ UNCHANGED <<slices, slivers, expired, allocateLock, expireLocked,
                   req, target, deleterVars>>

MatchNode(t) ==
    /\ pc[t] = "match"
    /\ req[t].nodes > 0
    /\ TakeFrom(t, Containers \ ProxyContainers)
    /\ req' = [req EXCEPT ![t].nodes = @ - 1]
    /\ UNCHANGED <<slices, slivers, expired, allocateLock, expireLocked,
                   pc, target, deleterVars>>

\* matchResource answers None when no container is left, or at a node that no
\* DockerMaster serves.  Both are answered TOO_BIG, and a node without
\* client_id or sliver_type BAD_ARGS.
PoolsEmpty(t) ==
    \/ pc[t] = "proxy" /\ Exhausted(ProxyContainers)
    \/ /\ pc[t] = "match" /\ req[t].nodes > 0
       /\ Exhausted(Containers \ ProxyContainers)
AtFlawedNode(t, flaw) ==
    pc[t] = "match" /\ req[t].nodes = 0 /\ req[t].flaw = flaw
TooBig(t) == PoolsEmpty(t) \/ AtFlawedNode(t, "match")
BadNode(t) == AtFlawedNode(t, "node")

\* Mutant: abort_resource_allocation without the release.
AbortKeepsLock(t) ==
    /\ TooBig(t) \/ BadNode(t)
    /\ chosen' = [c \in Containers |-> chosen[c] /\ held[t][c] = 0]
    /\ Return(t)
    /\ UNCHANGED <<pool, slices, slivers, expired, allocateLock, expireLocked,
                   deleterVars>>

\* abort_resource_allocation and the error result.  DockerContainer.deallocate
\* marks the resource available but does not put it back into the pool.
AbortAllocation(t) ==
    /\ TooBig(t) \/ BadNode(t)
    /\ chosen' = [c \in Containers |-> chosen[c] /\ held[t][c] = 0]
    /\ allocateLock' = None
    /\ Return(t)
    /\ UNCHANGED <<pool, slices, slivers, expired, expireLocked, deleterVars>>

\* All nodes are matched.  geni_start_time is refused only now.
ReleaseLock(t) ==
    /\ pc[t] = "match" /\ req[t].nodes = 0 /\ ~FlawedNode(req[t])
    /\ allocateLock' = None
    /\ IF req[t].flaw = "option"
       THEN Return(t)
       ELSE /\ pc' = [pc EXCEPT ![t] = "lookup"]
            /\ UNCHANGED <<req, held, target>>
    /\ UNCHANGED <<pool, chosen, slices, slivers, expired, expireLocked,
                   deleterVars>>

\* The slice is not known: build a new one.
NewSlice(t) ==
    /\ pc[t] = "lookup"
    /\ slices[req[t].urn] = None
    /\ \E o \in SliceObjs :
        /\ o.urn = req[t].urn
        /\ FreshSlice(o)
        /\ target' = [target EXCEPT ![t] = o]
        /\ slivers' = [slivers EXCEPT ![o] = {}]
        /\ expired' = {s \in expired : s.slice # o}
    /\ pc' = [pc EXCEPT ![t] = "add"]
    /\ UNCHANGED <<pool, chosen, slices, allocateLock, expireLocked,
                   req, held, deleterVars>>

\* The slice is known: it is used again if no sliver of it overlaps now.  A
\* sliver that has not expired overlaps; one that has may outlive its
\* expiration, or not.
ExistingSlice(t) ==
    LET o == slices[req[t].urn] IN
    /\ pc[t] = "lookup"
    /\ o # None
    /\ target' = [target EXCEPT ![t] = o]
    /\ \/ slivers[o] \subseteq expired /\ pc' = [pc EXCEPT ![t] = "add"]
       \/ slivers[o] # {} /\ pc' = [pc EXCEPT ![t] = "refuse"]
    /\ UNCHANGED <<shared, req, held, deleterVars>>

\* Mutant: what is deallocated also goes back into its pool.
RefuseReturns(t) ==
    /\ pc[t] = "refuse"
    /\ allocateLock = None
    /\ pool' = [c \in Containers |->
                  IF \E s \in slivers[target[t]] : s.res = c THEN pool[c] + 1
                  ELSE pool[c]]
    /\ Return(t)
    /\ UNCHANGED <<chosen, slices, slivers, expired, allocateLock, expireLocked,
                   deleterVars>>

\* ALREADY_EXISTS: under ALLOCATE_LOCK, the resources of the slivers the
\* slice already has are deallocated; those just matched are not.
RefuseExisting(t) ==
    /\ pc[t] = "refuse"
    /\ allocateLock = None
    /\ chosen' = [c \in Containers |->
                    chosen[c] /\ \A s \in slivers[target[t]] : s.res # c]
    /\ Return(t)
    /\ UNCHANGED <<pool, slices, slivers, expired, allocateLock, expireLocked,
                   deleterVars>>

\* newslice.add_resource for one of the resources.
AddResource(t) ==
    /\ pc[t] = "add"
    /\ \E s \in Slivers :
        /\ s.slice = target[t]
        /\ held[t][s.res] > 0
        /\ FreshSliver(s)
        /\ slivers' = [slivers EXCEPT ![target[t]] = @ \cup {s}]
        /\ held' = [held EXCEPT ![t][s.res] = @ - 1]
        /\ expired' = expired \ {s}
    /\ UNCHANGED <<pool, chosen, slices, allocateLock, expireLocked,
                   pc, req, target, deleterVars>>

\* Mutant: a failing add_resource ends the loop, not the call.
PublishEarly(t) ==
    /\ pc[t] = "add"
    /\ slices' = [slices EXCEPT ![req[t].urn] = target[t]]
    /\ Return(t)
    /\ UNCHANGED <<pool, chosen, slivers, expired, allocateLock, expireLocked,
                   deleterVars>>

\* self._slices[slice_urn] = newslice, and the answer.
PublishSlice(t) ==
    /\ pc[t] = "add"
    /\ held[t] = NoneHeld
    /\ slices' = [slices EXCEPT ![req[t].urn] = target[t]]
    /\ Return(t)
    /\ UNCHANGED <<pool, chosen, slivers, expired, allocateLock, expireLocked,
                   deleterVars>>

-----------------------------------------------------------------------------
(* Delete and expire_slivers *)

\* How often a container is listed, in pools, resources lists and slices.
Copies(c) ==
    pool[c]
    + Cardinality({e \in Callers \X (1..MaxCopies) : e[2] <= held[e[1]][c]})
    + Cardinality({s \in Slivers : s.res = c /\ s \in slivers[s.slice]})

\* The environment: with OverlappingDeletes, clients and the daemon delete
\* whenever they like (up to the bound MaxCopies); without it they never
\* start on a slice in which another thread is still deleting.
Admissible(w, S) ==
    \A s \in S :
        \/ \A v \in Deleters \ {w} : s.slice.urn \notin JobURNs(v)
        \/ OverlappingDeletes /\ Copies(s.res) < MaxCopies

\* Delete decodes the URNs of a slice or of some of its slivers and starts
\* thread_delete with the list.  (With an empty list the thread only raises.)
Delete(w, u) ==
    /\ step[w] = "idle"
    /\ slices[u] # None
    /\ \E S \in SUBSET slivers[slices[u]] \ {{}} :
        /\ Admissible(w, S)
        /\ todo' = [todo EXCEPT ![w] = S]
    /\ step' = [step EXCEPT ![w] = "next"]
    /\ kind' = [kind EXCEPT ![w] = "delete"]
    /\ UNCHANGED <<shared, callerVars, cur>>

\* EXPIRE_LOCK.locked() answered False.  (If it answers True the thread does
\* nothing.)
ExpireCheck(w) ==
    /\ step[w] = "idle"
    /\ ~expireLocked
    /\ step' = [step EXCEPT ![w] = "acquire"]
    /\ UNCHANGED <<shared, callerVars, kind, todo, cur>>

\* The expired slivers of the slices in AM._slices.
Due == {s \in expired : slices[s.slice.urn] = s.slice /\ s \in slivers[s.slice]}

\* Mutant: the lock was free a moment ago, so it is not waited for.
ExpireAcquireUnchecked(w) ==
    /\ step[w] = "acquire"
    /\ Admissible(w, Due)
    /\ expireLocked' = TRUE
    /\ todo' = [todo EXCEPT ![w] = Due]
    /\ step' = [step EXCEPT ![w] = "next"]
    /\ kind' = [kind EXCEPT ![w] = "expire"]
    /\ UNCHANGED <<pool, chosen, slices, slivers, expired, allocateLock,
                   callerVars, cur>>

\* EXPIRE_LOCK.acquire(), and the list of the expired slivers.
ExpireAcquire(w) ==
    /\ step[w] = "acquire"
    /\ ~expireLocked
    /\ Admissible(w, Due)
    /\ expireLocked' = TRUE
    /\ todo' = [todo EXCEPT ![w] = Due]
    /\ step' = [step EXCEPT ![w] = "next"]
    /\ kind' = [kind EXCEPT ![w] = "expire"]
    /\ UNCHANGED <<pool, chosen, slices, slivers, expired, allocateLock,
                   callerVars, cur>>

\* slyce.delete_sliver(sliver), in three steps: deprovision the resource,
Deprovision(w) ==
    /\ step[w] = "next"
    /\ \E s \in todo[w] :
        /\ cur' = [cur EXCEPT ![w] = s]
        /\ todo' = [todo EXCEPT ![w] = @ \ {s}]
        /\ chosen' = [chosen EXCEPT ![s.res] = FALSE]
    /\ step' = [step EXCEPT ![w] = "reset"]
    /\ UNCHANGED <<pool, slices, slivers, expired, allocateLock, expireLocked,
                   callerVars, kind>>

\* reset it, which puts it back into its DockerMaster's pool,
ResetResource(w) ==
    /\ step[w] = "reset"
    /\ pool' = [pool EXCEPT ![cur[w].res] = @ + 1]
    /\ step' = [step EXCEPT ![w] = "remove"]
    /\ UNCHANGED <<chosen, slices, slivers, expired, allocateLock,
                   expireLocked, callerVars, kind, todo, cur>>

\* The thread's run is over.  An exception leaves EXPIRE_LOCK as it is.
EndRun(w) ==
    /\ step' = [step EXCEPT ![w] = "idle"]
    /\ todo' = [todo EXCEPT ![w] = {}]
    /\ cur' = [cur EXCEPT ![w] = None]
    /\ kind' = [kind EXCEPT ![w] = "delete"]

\* Mutant: the resource is reset once more when its sliver is removed.
RemoveResetsAgain(w) ==
    LET s == cur[w] IN
    /\ step[w] = "remove"
    /\ s \in slivers[s.slice]
    /\ slivers' = [slivers EXCEPT ![s.slice] = @ \ {s}]
    /\ pool' = [pool EXCEPT ![s.res] = 1]
    /\ step' = [step EXCEPT ![w] = "check"]
    /\ UNCHANGED <<chosen, slices, expired, allocateLock, expireLocked,
                   callerVars, kind, todo, cur>>

\* and remove the sliver from the slice's list.  expire_slivers then looks
\* whether the slice is empty, thread_delete after its last sliver.
RemoveSliver(w) ==
    LET s == cur[w] IN
    /\ step[w] = "remove"
    /\ s \in slivers[s.slice]
    /\ slivers' = [slivers EXCEPT ![s.slice] = @ \ {s}]
    /\ expired' = expired \ {s}
    /\ step' = [step EXCEPT ![w] =
                  IF kind[w] = "expire" \/ todo[w] = {} THEN "check" ELSE "next"]
    /\ UNCHANGED <<pool, chosen, slices, allocateLock, expireLocked,
                   callerVars, kind, todo, cur>>

\* list.remove raises ValueError when the sliver is no longer there.
RemoveRaises(w) ==
    /\ step[w] = "remove"
    /\ cur[w] \notin slivers[cur[w].slice]
    /\ EndRun(w)
    /\ UNCHANGED <<shared, callerVars>>

\* Mutant: the slice is forgotten whatever is left of it.
CheckNothing(w) ==
    /\ step[w] = "check"
    /\ step' = [step EXCEPT ![w] = "forget"]
    /\ UNCHANGED <<shared, callerVars, kind, todo, cur>>

\* Is the slice now empty?  If so its images are deleted, which takes a while.
CheckEmpty(w) ==
    /\ step[w] = "check"
    /\ IF slivers[cur[w].slice] = {}
       THEN step' = [step EXCEPT ![w] = "forget"] /\ UNCHANGED cur
       ELSE /\ step' = [step EXCEPT ![w] = "next"]
            /\ cur' = [cur EXCEPT ![w] = None]
    /\ UNCHANGED <<shared, callerVars, kind, todo>>

\* del self._slices[slyce.urn]
ForgetSlice(w) ==
    /\ step[w] = "forget"
    /\ slices[cur[w].slice.urn] # None
    /\ slices' = [slices EXCEPT ![cur[w].slice.urn] = None]
    /\ step' = [step EXCEPT ![w] = "next"]
    /\ cur' = [cur EXCEPT ![w] = None]
    /\ UNCHANGED <<pool, chosen, slivers, expired, allocateLock, expireLocked,
                   callerVars, kind, todo>>

\* del raises KeyError when the slice is no longer there.
ForgetRaises(w) ==
    /\ step[w] = "forget"
    /\ slices[cur[w].slice.urn] = None
    /\ EndRun(w)
    /\ UNCHANGED <<shared, callerVars>>

\* Mutant: expire_slivers without EXPIRE_LOCK.release().
FinishKeepsLock(w) ==
    /\ step[w] = "next"
    /\ todo[w] = {}
    /\ EndRun(w)
    /\ UNCHANGED <<shared, callerVars>>

\* thread_delete ends; expire_slivers gives EXPIRE_LOCK back.
FinishRun(w) ==
    /\ step[w] = "next"
    /\ todo[w] = {}
    /\ expireLocked' = (expireLocked /\ kind[w] # "expire")
    /\ EndRun(w)
    /\ UNCHANGED <<pool, chosen, slices, slivers, expired, allocateLock,
                   callerVars>>

\* Time passes the expiration of a sliver of a slice in AM._slices (that of
\* any other is never looked at).
Lapse(s) ==
    /\ slices[s.slice.urn] = s.slice
    /\ s \in slivers[s.slice]
    /\ s \notin expired
    /\ expired' = expired \cup {s}
    /\ UNCHANGED <<pool, chosen, slices, slivers, allocateLock, expireLocked,
                   callerVars, deleterVars>>

-----------------------------------------------------------------------------
Init ==
    /\ pool = [c \in Containers |-> 1]
    /\ chosen = [c \in Containers |-> FALSE]
    /\ slices = [u \in URNs |-> None]
    /\ slivers = [o \in SliceObjs |-> {}]
    /\ expired = {}
    /\ allocateLock = None
    /\ expireLocked = FALSE
    /\ pc = [t \in Callers |-> "idle"]
    /\ req = [t \in Callers |-> None]
    /\ held = [t \in Callers |-> NoneHeld]
    /\ target = [t \in Callers |-> None]
    /\ step = [w \in Deleters |-> "idle"]
    /\ kind = [w \in Deleters |-> "delete"]
    /\ todo = [w \in Deleters |-> {}]
    /\ cur = [w \in Deleters |-> None]

\* A call in progress, and a deletion in progress.
CallStep(t) ==
    \/ AcquireLock(t) \/ MatchProxy(t) \/ MatchNode(t) \/ AbortAllocation(t)
    \/ ReleaseLock(t) \/ NewSlice(t) \/ ExistingSlice(t) \/ RefuseExisting(t)
    \/ AddResource(t) \/ PublishSlice(t)
RunStep(w) ==
    \/ Deprovision(w) \/ ResetResource(w) \/ RemoveSliver(w) \/ RemoveRaises(w)
    \/ CheckEmpty(w) \/ ForgetSlice(w) \/ ForgetRaises(w) \/ FinishRun(w)

Next ==
    \/ \E t \in Callers : (\E r \in Requests : Allocate(t, r)) \/ CallStep(t)
    \/ \E w \in Deleters : \/ \E u \in URNs : Delete(w, u)
                           \/ ExpireCheck(w) \/ ExpireAcquire(w) \/ RunStep(w)
    \/ \E s \in Slivers : Lapse(s)

Spec == Init /\ [][Next]_vars

(***************************************************************************)
(* A thread that runs goes on running.  The daemon never stops asking for  *)
(* EXPIRE_LOCK, every five minutes, and is not starved of it.              *)
(***************************************************************************)
Fairness ==
    /\ \A t \in Callers : WF_vars(CallStep(t))
    /\ \A w \in Deleters : /\ WF_vars(RunStep(w))
                           /\ SF_vars(ExpireCheck(w))
                           /\ SF_vars(ExpireAcquire(w))

FairSpec == Spec /\ Fairness

-----------------------------------------------------------------------------
(* Properties *)

TypeOK ==
    /\ pool \in [Containers -> Nat]
    /\ chosen \in [Containers -> BOOLEAN]
    /\ slices \in [URNs -> SliceObjs \cup {None}]
    /\ slivers \in [SliceObjs -> SUBSET Slivers]
    /\ expired \in SUBSET Slivers
    /\ allocateLock \in Callers \cup {None}
    /\ expireLocked \in BOOLEAN
    /\ pc \in [Callers -> {"idle", "acquire", "proxy", "match", "lookup", "add",
                           "refuse"}]
    /\ req \in [Callers -> Requests \cup {None}]
    /\ held \in [Callers -> [Containers -> Nat]]
    /\ target \in [Callers -> SliceObjs \cup {None}]
    /\ step \in [Deleters -> {"idle", "acquire", "next", "reset", "remove",
                              "check", "forget"}]
    /\ kind \in [Deleters -> {"delete", "expire"}]
    /\ todo \in [Deleters -> SUBSET Slivers]
    /\ cur \in [Deleters -> Slivers \cup {None}]

\* A sliver whose container is back in the pool, but which is still in its
\* slice's list.
Returned(s) == \E w \in Deleters : step[w] = "remove" /\ cur[w] = s

\* A sliver entitled to its container.
Leased(s) == s \in slivers[s.slice] /\ ~Returned(s)

\* A container has at most one holder: its pool (where it is listed once), one
\* Allocate call that matched it, or one sliver.  matchResource, add_resource
\* and reset (through onResetChild) keep this for any interleaving of the
\* Allocate calls, as long as no two deletions work on one slice.
ContainerExclusive ==
    /\ \A c \in Containers : pool[c] <= 1
    /\ \A t \in Callers, c \in Containers :
          held[t][c] > 0 => held[t][c] = 1 /\ pool[c] = 0
    /\ \A t1, t2 \in Callers, c \in Containers :
          held[t1][c] > 0 /\ held[t2][c] > 0 => t1 = t2
    /\ \A s \in Slivers : Leased(s) =>
          pool[s.res] = 0 /\ \A t \in Callers : held[t][s.res] = 0
    /\ \A s1, s2 \in Slivers :
          Leased(s1) /\ Leased(s2) /\ s1.res = s2.res => s1 = s2

\* Neither _slivers.remove nor del self._slices[urn] raises, so that a deletion
\* always reaches its end (and, in expire_slivers, EXPIRE_LOCK.release()).
DeletionsDoNotRaise ==
    \A w \in Deleters :
        /\ step[w] = "remove" => cur[w] \in slivers[cur[w].slice]
        /\ step[w] = "forget" => slices[cur[w].slice.urn] # None

\* Only one call at a time matches resources.
MatchingExclusive ==
    \A t \in Callers : pc[t] \in {"proxy", "match"} => allocateLock = t

\* Only one thread at a time expires slivers, though expire_slivers first looks
\* whether EXPIRE_LOCK is free and then takes it, and though a deletion that
\* raises never gives it back.
ExpiryExclusive ==
    \A w \in Deleters : kind[w] = "expire" =>
        expireLocked /\ \A v \in Deleters : kind[v] = "expire" => v = w

\* Neither lock is left behind: ALLOCATE_LOCK is only held by a call that is
\* matching, on whichever of the seven ways out of the locked part calls leave,
\* and EXPIRE_LOCK only while expire_slivers works in some thread.
AllocateLockHasOwner == allocateLock # None => pc[allocateLock] \in {"proxy", "match"}
ExpireLockHasOwner ==
    expireLocked => \E w \in Deleters : kind[w] = "expire" /\ step[w] \notin {"idle", "acquire"}
LocksHaveOwners == AllocateLockHasOwner /\ ExpireLockHasOwner

\* However an Allocate call ends, ALLOCATE_LOCK is given back.
AllocateLockReleased == (allocateLock # None) ~> (allocateLock = None)

\* expire_slivers: "Look for expired slivers and clean them up" - a sliver of a
\* slice in AM._slices that has expired does not stay.
ExpiredSliversReclaimed ==
    \A s \in Slivers : (s \in Due) ~> (s \notin Due)

(* What comments, messages or documents say and some behaviours contradict *)

\* "accept only if no existing sliver overlaps": the slivers that Allocate
\* accepted for one slice URN are all slivers of one Slice object.
OneSlicePerURN ==
    \A s1, s2 \in Slivers :
        Leased(s1) /\ Leased(s2) /\ s1.slice.urn = s2.slice.urn =>
            s1.slice = s2.slice
=============================================================================
