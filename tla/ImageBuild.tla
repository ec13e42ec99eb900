----------------------------- MODULE ImageBuild -----------------------------
(***************************************************************************)
(* How DockerManager.startNew (gcf_to_docker.py) comes by the image of a   *)
(* container: processImage, which builds an image from a URL or one of     *)
(* Docker Hub with an SSH server, and the building of the default image    *)
(* when docker run cannot find an image.  Builds are serialised by the     *)
(* locks of the module-global dictionary "building", which are made when   *)
(* they are first needed.  Provisioning has startNew as a whole; this      *)
(* module has its images only, and for them no ports.                      *)
(***************************************************************************)
EXTENDS Naturals

CONSTANTS
  Threads,       \* threads that start containers on one Docker host
  Slices, Urls,  \* an image asked for is private to its slice, and comes
  Hubs,          \*   from a URL or from Docker Hub,
  Tagged,        \*   where its name may have a tag ("debian:jessie")
  Default,       \* the image of containers for which none is asked
  None,
  DeletesInUse   \* a slice may be deleted while a thread works for it

\* "urn::name", what Allocate stores in resource.image.
Requests == Slices \X (Urls \cup Hubs)
\* docker's names: the hash of "urn::url", the bare name from Docker Hub.
Names == (Slices \X Urls) \cup Hubs \cup {Default}
HubKeys == Slices \X Hubs
Keys == Names \cup HubKeys
\* A Lock object is named by its key and the thread that made it.
Locks == Keys \X Threads

ASSUME ImageAssumption ==
  /\ None \notin Threads \cup Requests \cup Keys
  /\ Names \cap HubKeys = {}
  /\ \A h \in Hubs : h \notin Urls
  /\ Tagged \subseteq Hubs
  /\ DeletesInUse \in BOOLEAN

VARIABLES
  images,    \* the images that the Docker host has
  building,  \* building[k]: who made the lock that the dictionary has for k
  made,      \* every lock that was made
  holder,    \* holder[l]: the thread that acquired the lock l, or None
  pc,
  want,      \* want[t]: the image asked for, None for the default
  key,       \* key[t]: the key of the build that t is about
  lockOf     \* lockOf[t]: the maker of the lock that t waits for

vars == <<images, building, made, holder, pc, want, key, lockOf>>

Places == {"idle", "check", "build_url", "look", "make", "take", "wait",
           "build", "rerun", "unlock", "run"}

ImageTypeOK ==
  /\ images \in SUBSET Names
  /\ building \in [Keys -> Threads \cup {None}]
  /\ made \in SUBSET Locks
  /\ holder \in [Locks -> Threads \cup {None}]
  /\ pc \in [Threads -> Places]
  /\ want \in [Threads -> Requests \cup {None}]
  /\ key \in [Threads -> Keys \cup {None}]
  /\ lockOf \in [Threads -> Threads \cup {None}]

Init ==
  /\ images = {}
  /\ building = [k \in Keys |-> None]
  /\ made = {}
  /\ holder = [l \in Locks |-> None]
  /\ pc = [t \in Threads |-> "idle"]
  /\ want = [t \in Threads |-> None]
  /\ key = [t \in Threads |-> None]
  /\ lockOf = [t \in Threads |-> None]

-----------------------------------------------------------------------------
ImageOf(r) ==
  IF r = None THEN Default ELSE IF r[2] \in Urls THEN r ELSE r[2]

\* The lock that the dictionary has now for the key of t.
TableLock(t) == <<key[t], building[key[t]]>>
\* The build that the lock protects, and what follows until it is released.
InSection(t, k) == pc[t] \in {"build", "rerun", "unlock"} /\ key[t] = k
\* Two threads each made a lock for this key.
Raced(k) == \E c, d \in Threads : c # d /\ {<<k, c>>, <<k, d>>} \subseteq made

Goto(t, place) == pc' = [pc EXCEPT ![t] = place]
\* startNew returns True or what went wrong, or raises: Provisioning has what
\* becomes of the container.
Finish(t) ==
  /\ pc' = [pc EXCEPT ![t] = "idle"]
  /\ want' = [want EXCEPT ![t] = None]
  /\ key' = [key EXCEPT ![t] = None]
  /\ lockOf' = [lockOf EXCEPT ![t] = None]

-----------------------------------------------------------------------------
\* startNew and processImage.

\* Mutant: Allocate stores the name without the slice's URN.
StartBareName(t, r) ==
  /\ pc[t] = "idle"
  /\ Goto(t, IF r = None THEN "run" ELSE "check")
  /\ want' = [want EXCEPT ![t] = IF r = None THEN None ELSE r[2]]
  /\ UNCHANGED <<images, building, made, holder, key, lockOf>>

StartNew(t, r) ==
  /\ pc[t] = "idle"
  /\ Goto(t, IF r = None THEN "run" ELSE "check")
  /\ want' = [want EXCEPT ![t] = r]
  /\ UNCHANGED <<images, building, made, holder, key, lockOf>>

\* docker images | grep -x shows repositories without their tags: a name with a
\* tag is never found.
Listed(r) == ImageOf(r) \in images /\ r[2] \notin Tagged

\* Is there an image of this name?
CheckImage(t) ==
  /\ pc[t] = "check"
  /\ \/ Listed(want[t]) /\ Goto(t, "run") /\ UNCHANGED key
     \/ /\ ~Listed(want[t])
        /\ IF want[t][2] \in Urls
           THEN Goto(t, "build_url") /\ UNCHANGED key
           ELSE Goto(t, "look") /\ key' = [key EXCEPT ![t] = want[t]]
  /\ UNCHANGED <<images, building, made, holder, want, lockOf>>

\* No lock.  An error is returned as the name of the image, which startNew
\* refuses with an exception.
BuildExternalImage(t) ==
  /\ pc[t] = "build_url"
  /\ \/ /\ images' = images \cup {ImageOf(want[t])}
        /\ Goto(t, "run")
        /\ UNCHANGED <<want, key, lockOf>>
     \/ Finish(t) /\ UNCHANGED images
  /\ UNCHANGED <<building, made, holder>>

\* docker run succeeds or fails.  If it fails because it cannot find the image,
\* the default image is built.
DockerRun(t) ==
  /\ pc[t] = "run"
  /\ \/ Finish(t)
     \/ /\ ImageOf(want[t]) \notin images
        /\ Goto(t, "look")
        /\ key' = [key EXCEPT ![t] = ImageOf(want[t])]
        /\ UNCHANGED <<want, lockOf>>
  /\ UNCHANGED <<images, building, made, holder>>

-----------------------------------------------------------------------------
\* The locks; the same lines in processImage and in startNew.

\* if building.get(k, None) is None:
Look(t) ==
  /\ pc[t] = "look"
  /\ Goto(t, IF building[key[t]] = None THEN "make" ELSE "take")
  /\ UNCHANGED <<images, building, made, holder, want, key, lockOf>>

\* building[k] = threading.Lock()
Make(t) ==
  /\ pc[t] = "make"
  /\ building' = [building EXCEPT ![key[t]] = t]
  /\ made' = made \cup {<<key[t], t>>}
  /\ Goto(t, "take")
  /\ UNCHANGED <<images, holder, want, key, lockOf>>

\* building[k].acquire(): the lock of this moment is the one to wait for.
Take(t) ==
  /\ pc[t] = "take"
  /\ lockOf' = [lockOf EXCEPT ![t] = building[key[t]]]
  /\ Goto(t, "wait")
  /\ UNCHANGED <<images, building, made, holder, want, key>>

\* Mutant: building[k].acquire(False), whose result is not looked at.
AcquireFalse(t) ==
  /\ pc[t] = "wait"
  /\ holder' = [holder EXCEPT ![<<key[t], lockOf[t]>>] =
                  IF @ = None THEN t ELSE @]
  /\ Goto(t, "build")
  /\ UNCHANGED <<images, building, made, want, key, lockOf>>

Acquire(t) ==
  /\ pc[t] = "wait"
  /\ holder[<<key[t], lockOf[t]>>] = None
  /\ holder' = [holder EXCEPT ![<<key[t], lockOf[t]>>] = t]
  /\ Goto(t, "build")
  /\ UNCHANGED <<images, building, made, want, key, lockOf>>

\* building[k].release(): the lock of this moment, whoever acquired it.  One
\* that nobody has acquired raises thread.error.
Unlock(t) ==
  /\ pc[t] = "unlock"
  /\ holder' = [holder EXCEPT ![TableLock(t)] = None]
  /\ IF holder[TableLock(t)] = None
     THEN Finish(t)
     ELSE IF key[t] \in HubKeys
     THEN /\ Goto(t, "run")
          /\ key' = [key EXCEPT ![t] = None]
          /\ lockOf' = [lockOf EXCEPT ![t] = None]
          /\ UNCHANGED want
     ELSE Finish(t)
  /\ UNCHANGED <<images, building, made>>

-----------------------------------------------------------------------------
\* buildSshImage.  If it fails, processImage returns without the release.
BuildSshImage(t) ==
  /\ pc[t] = "build"
  /\ key[t] \in HubKeys
  /\ \/ /\ images' = images \cup {ImageOf(want[t])}
        /\ Goto(t, "unlock")
        /\ UNCHANGED <<want, key, lockOf>>
     \/ Finish(t) /\ UNCHANGED images
  /\ UNCHANGED <<building, made, holder>>

\* Mutant: the error path releases the lock, and "finally" does once more.
ReleaseTwice(t) ==
  /\ pc[t] = "build"
  /\ key[t] \notin HubKeys
  /\ \/ images' = images \cup {Default} /\ Goto(t, "rerun") /\ UNCHANGED holder
     \/ /\ Goto(t, "unlock")
        /\ holder' = [holder EXCEPT ![TableLock(t)] = None]
        /\ UNCHANGED images
  /\ UNCHANGED <<building, made, want, key, lockOf>>

\* Mutant: release() at the end of the "try", not in a "finally".
BuildWithoutFinally(t) ==
  /\ pc[t] = "build"
  /\ key[t] \notin HubKeys
  /\ \/ /\ images' = images \cup {Default}
        /\ Goto(t, "rerun")
        /\ UNCHANGED <<want, key, lockOf>>
     \/ Finish(t) /\ UNCHANGED images
  /\ UNCHANGED <<building, made, holder>>

\* docker build of the default image ...
BuildDefault(t) ==
  /\ pc[t] = "build"
  /\ key[t] \notin HubKeys
  /\ \/ /\ images' = images \cup {Default}
        /\ Goto(t, "rerun")
     \/ Goto(t, "unlock") /\ UNCHANGED images
  /\ UNCHANGED <<building, made, holder, want, key, lockOf>>

\* Mutant: the second docker run fails without a "finally".
RunWithoutFinally(t) ==
  /\ pc[t] = "rerun"
  /\ \/ Goto(t, "unlock") /\ UNCHANGED <<want, key, lockOf>>
     \/ Finish(t)
  /\ UNCHANGED <<images, building, made, holder>>

\* ... and docker run again; finally the lock is released.
RunAgain(t) ==
  /\ pc[t] = "rerun"
  /\ Goto(t, "unlock")
  /\ UNCHANGED <<images, building, made, holder, want, key, lockOf>>

\* startNew is at work for a container of the slice.
InUse(s) == \E t \in Threads : want[t] # None /\ want[t][1] = s

\* A slice is deleted: docker rmi of its images in turn, until one fails.
DeleteImages(s) ==
  /\ InUse(s) => DeletesInUse
  /\ \E gone \in SUBSET {n \in images : n \in {s} \X Urls} :
       gone # {} /\ images' = images \ gone
  /\ UNCHANGED <<building, made, holder, pc, want, key, lockOf>>

-----------------------------------------------------------------------------
Step(t) ==
  \/ CheckImage(t) \/ BuildExternalImage(t) \/ DockerRun(t)
  \/ Look(t) \/ Make(t) \/ Take(t) \/ Acquire(t) \/ Unlock(t)
  \/ BuildSshImage(t) \/ BuildDefault(t) \/ RunAgain(t)

Next ==
  \/ \E t \in Threads :
       Step(t) \/ \E r \in Requests \cup {None} : StartNew(t, r)
  \/ \E s \in Slices : DeleteImages(s)

Spec == Init /\ [][Next]_vars

\* A thread that can go on does; a lock that is free again and again is had.
Fairness == \A t \in Threads : WF_vars(Step(t)) /\ SF_vars(Acquire(t))
FairSpec == Spec /\ Fairness

-----------------------------------------------------------------------------
\* As long as the test-and-set of the dictionary has made one lock for a key,
\* one thread builds it at a time (startNew, processImage): deletions and
\* failed builds do not let a second one in.
OneBuilder ==
  \A k \in Keys : ~Raced(k) =>
    \A s, t \in Threads : InSection(s, k) /\ InSection(t, k) => s = t

\* ... and building[k].release() gives back the lock that this thread has
\* acquired: neither another's, nor one that is free, which would raise.
ReleasesItsOwn ==
  \A t \in Threads : pc[t] = "unlock" /\ ~Raced(key[t]) =>
    holder[TableLock(t)] = t

\* ... and a lock of startNew is held by a thread that is going to release it,
\* however build and run end (processImage has no such guarantee).
RunLockGivenBack ==
  \A k \in Names, c, t \in Threads :
    ~Raced(k) /\ holder[<<k, c>>] = t => InSection(t, k)

\* ... so that a thread which waits for it in startNew gets its turn.
WaitersServed ==
  \A t \in Threads, k \in Names :
    pc[t] = "wait" /\ key[t] = k ~> pc[t] # "wait" \/ Raced(k)
=============================================================================
