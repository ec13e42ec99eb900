-------------------------- MODULE ImageBuildProofs --------------------------
(***************************************************************************)
(* The locks of ImageBuild, for every number of threads, slices and images *)
(* and whether or not slices are deleted while in use.                     *)
(***************************************************************************)
EXTENDS ImageBuild, TLAPS

\* Where a thread has a key, and where it has a lock.
Keyed == {"look", "make", "take", "wait", "build", "rerun", "unlock"}
Locked == {"build", "rerun", "unlock"}

Local ==
  \A t \in Threads :
    /\ pc[t] \in Keyed => key[t] # None
    /\ pc[t] \in {"take", "wait"} \cup Locked => building[key[t]] # None
    /\ pc[t] \in {"wait"} \cup Locked => <<key[t], lockOf[t]>> \in made /\ lockOf[t] # None
    /\ pc[t] \in {"check", "build_url"} => want[t] # None
    /\ pc[t] = "rerun" => key[t] \in Names

\* The dictionary has a lock that was made, if one was; only such are held.
Table ==
  /\ \A k \in Keys : building[k] # None => <<k, building[k]>> \in made
  /\ \A k \in Keys, c \in Threads : <<k, c>> \in made => building[k] # None
  /\ \A l \in Locks : holder[l] # None => l \in made

\* A thread in a section holds the lock of the dictionary.
Held ==
  \A k \in Keys, t \in Threads :
    ~Raced(k) /\ InSection(t, k) => holder[<<k, building[k]>>] = t

Inv == ImageTypeOK /\ Local /\ Table /\ Held /\ RunLockGivenBack

\* A key has one lock at a time unless two threads raced.
LEMMA OneLock ==
  ASSUME ImageTypeOK, Table, NEW k \in Keys, ~Raced(k),
         NEW c \in Threads, <<k, c>> \in made
  PROVE  c = building[k]
<1>1. building[k] \in Threads /\ <<k, building[k]>> \in made
  BY ImageAssumption DEF Table, ImageTypeOK
<1>2. QED
  BY <1>1 DEF Raced

\* Locks are only added.
LEMMA RacedStays ==
  ASSUME NEW k, made \subseteq made', Raced(k)
  PROVE  Raced(k)'
BY DEF Raced

LEMMA ImageOfName ==
  ASSUME NEW r \in Requests \cup {None}
  PROVE  ImageOf(r) \in Names /\ ImageOf(r) \in Keys
<1>1. CASE r = None
  BY <1>1 DEF ImageOf, Names, Keys
<1>2. CASE r # None
  <2>1. PICK s \in Slices, n \in Urls \cup Hubs : r = <<s, n>>
    BY <1>2 DEF Requests
  <2>2. QED
    BY <1>2, <2>1 DEF ImageOf, Names, Keys
<1>3. QED
  BY <1>1, <1>2

LEMMA InitInv == Init => Inv
<1> SUFFICES ASSUME Init PROVE Inv
  OBVIOUS
<1>1. ImageTypeOK
  BY DEF Init, ImageTypeOK, Places
<1>2. Local /\ Held
  BY DEF Init, Local, Keyed, Locked, Held, InSection
<1>3. Table
  BY DEF Init, Table
<1>4. RunLockGivenBack
  BY ImageAssumption DEF Init, RunLockGivenBack, Keys, Locks
<1>5. QED
  BY <1>1, <1>2, <1>3, <1>4 DEF Inv

\* A thread ends, or goes on, without touching any lock.
LEMMA FreeStep ==
  ASSUME Inv, NEW t \in Threads, pc[t] \notin Locked, NEW place \in Places \ Locked,
         pc' = [pc EXCEPT ![t] = place],
         UNCHANGED <<building, made, holder>>,
         images' \in SUBSET Names,
         \A s \in Threads : s # t =>
           want'[s] = want[s] /\ key'[s] = key[s] /\ lockOf'[s] = lockOf[s],
         want' \in [Threads -> Requests \cup {None}],
         key' \in [Threads -> Keys \cup {None}],
         lockOf' \in [Threads -> Threads \cup {None}],
         place \in Keyed => key'[t] # None,
         place \in {"take", "wait"} => building[key'[t]] # None,
         place = "wait" => <<key'[t], lockOf'[t]>> \in made /\ lockOf'[t] # None,
         place \in {"check", "build_url"} => want'[t] # None
  PROVE  Inv'
<1>1. ImageTypeOK'
  BY DEF Inv, ImageTypeOK
<1>2. \A s \in Threads : \A k : InSection(s, k)' <=> InSection(s, k)
  BY DEF Inv, ImageTypeOK, InSection, Locked
<1>3. Local'
  BY DEF Inv, ImageTypeOK, Local, Locked
<1>4. Table'
  BY DEF Inv, Table
<1>5. \A k : Raced(k)' <=> Raced(k)
  BY DEF Raced
<1>6. Held' /\ RunLockGivenBack'
  BY <1>2, <1>5 DEF Inv, Held, RunLockGivenBack
<1>7. QED
  BY <1>1, <1>3, <1>4, <1>6 DEF Inv

\* The thread that makes a lock: either the first of its key, when nobody is in
\* the section, or the key is raced from now on.
LEMMA MakeStep ==
  ASSUME Inv, NEW t \in Threads, Make(t)
  PROVE  Inv'
<1> DEFINE k == key[t]
<1>1. k \in Keys /\ t # None /\ <<k, t>> \in Locks
  BY ImageAssumption DEF Make, Inv, Local, Keyed, ImageTypeOK, Locks
<1>2. ImageTypeOK'
  BY <1>1 DEF Make, Goto, Inv, ImageTypeOK, Places
<1>3. Local'
  BY <1>1 DEF Make, Goto, Inv, ImageTypeOK, Local, Keyed, Locked
<1>4. Table'
  BY <1>1 DEF Make, Inv, ImageTypeOK, Table
<1>5. ASSUME NEW j \in Keys, ~Raced(j)', NEW s \in Threads, InSection(s, j)'
      PROVE  ~Raced(j) /\ InSection(s, j) /\ building'[j] = building[j]
  <2>1. InSection(s, j) /\ <<j, lockOf[s]>> \in made /\ lockOf[s] \in Threads
    <3>1. InSection(s, j)
      BY <1>5 DEF Make, Goto, Inv, ImageTypeOK, InSection
    <3>2. pc[s] \in Locked /\ key[s] = j
      BY <3>1 DEF InSection, Locked
    <3>3. <<j, lockOf[s]>> \in made /\ lockOf[s] # None
      BY <3>2 DEF Inv, Local
    <3>4. QED
      BY <3>1, <3>3 DEF Inv, ImageTypeOK
  <2>2. ~Raced(j)
    BY <1>5, RacedStays DEF Make
  <2>3. CASE j = k
    <3>1. lockOf[s] # t => Raced(j)'
      BY <2>1, <2>3 DEF Make, Raced
    <3>2. lockOf[s] = t
      BY <1>5, <2>3, <3>1
    <3>3. building[k] = t
      BY <1>1, <2>1, <2>2, <2>3, <3>2, OneLock DEF Inv
    <3>4. QED
      BY <1>1, <2>1, <2>2, <2>3, <3>3 DEF Make, Inv, ImageTypeOK
  <2>4. CASE j # k
    BY <2>1, <2>2, <2>4 DEF Make, Inv, ImageTypeOK
  <2>5. QED
    BY <2>3, <2>4
<1>6. Held'
  BY <1>5 DEF Make, Inv, Held
<1>7. RunLockGivenBack'
  <2>1. SUFFICES ASSUME NEW j \in Names, NEW c \in Threads, NEW s \in Threads,
                        ~Raced(j)', holder'[<<j, c>>] = s
                 PROVE  InSection(s, j)'
    BY DEF RunLockGivenBack
  <2>2. ~Raced(j)
    BY <2>1, RacedStays DEF Make
  <2>3. InSection(s, j)
    BY <2>1, <2>2 DEF Make, Inv, RunLockGivenBack
  <2>4. QED
    BY <2>3 DEF Make, Goto, Inv, ImageTypeOK, InSection
<1>8. QED
  BY <1>2, <1>3, <1>4, <1>6, <1>7 DEF Inv

LEMMA AcquireStep ==
  ASSUME Inv, NEW t \in Threads, Acquire(t)
  PROVE  Inv'
<1> DEFINE k == key[t]
           l == <<k, lockOf[t]>>
<1>1. /\ k \in Keys /\ lockOf[t] \in Threads /\ l \in Locks /\ l \in made
      /\ holder[l] = None /\ building[k] # None
  BY DEF Acquire, Inv, Local, Keyed, ImageTypeOK, Locks
<1>2. ImageTypeOK'
  BY <1>1 DEF Acquire, Goto, Inv, ImageTypeOK, Places
<1>3. Local'
  BY DEF Acquire, Goto, Inv, ImageTypeOK, Local, Keyed, Locked
<1>4. Table'
  BY <1>1 DEF Acquire, Inv, ImageTypeOK, Table
<1>5. \A j : Raced(j)' <=> Raced(j)
  BY DEF Acquire, Raced
<1>6. \A s \in Threads : \A j : InSection(s, j)' <=> InSection(s, j) \/ (s = t /\ j = k)
  BY DEF Acquire, Goto, Inv, ImageTypeOK, InSection
<1>7. Held'
  <2>1. SUFFICES ASSUME NEW j \in Keys, NEW s \in Threads, ~Raced(j), InSection(s, j)'
                 PROVE  holder'[<<j, building[j]>>] = s
    BY <1>5 DEF Held, Acquire
  <2>2. CASE s = t /\ j = k
    <3>1. lockOf[t] = building[k]
      BY <1>1, <2>1, <2>2, OneLock DEF Inv
    <3>2. QED
      BY <1>1, <2>2, <3>1 DEF Acquire, Inv, ImageTypeOK
  <2>3. CASE InSection(s, j)
    <3>1. holder[<<j, building[j]>>] = s
      BY <2>1, <2>3 DEF Inv, Held
    <3>2. <<j, building[j]>> # l
      BY <1>1, <3>1, ImageAssumption
    <3>3. QED
      BY <3>1, <3>2, <1>1 DEF Acquire, Inv, ImageTypeOK
  <2>4. QED
    BY <1>6, <2>1, <2>2, <2>3
<1>8. RunLockGivenBack'
  <2>1. SUFFICES ASSUME NEW j \in Names, NEW c \in Threads, NEW s \in Threads,
                        ~Raced(j), holder'[<<j, c>>] = s
                 PROVE  InSection(s, j)'
    BY <1>5 DEF RunLockGivenBack
  <2>2. <<j, c>> \in Locks
    BY DEF Locks, Keys
  <2>3. CASE <<j, c>> = l
    BY <1>1, <1>6, <2>1, <2>3 DEF Acquire, Inv, ImageTypeOK
  <2>4. CASE <<j, c>> # l
    <3>1. holder[<<j, c>>] = s
      BY <1>1, <2>1, <2>2, <2>4 DEF Acquire, Inv, ImageTypeOK
    <3>2. QED
      BY <1>6, <2>1, <3>1 DEF Inv, RunLockGivenBack
  <2>5. QED
    BY <2>3, <2>4
<1>9. QED
  BY <1>2, <1>3, <1>4, <1>7, <1>8 DEF Inv

\* A thread that leaves its section, with the lock or without.
LEMMA LeaveStep ==
  ASSUME Inv, NEW t \in Threads, pc[t] \in Locked,
         NEW place \in {"idle", "run"}, pc' = [pc EXCEPT ![t] = place],
         UNCHANGED <<building, made>>, images' \in SUBSET Names,
         \A s \in Threads : s # t =>
           want'[s] = want[s] /\ key'[s] = key[s] /\ lockOf'[s] = lockOf[s],
         want' \in [Threads -> Requests \cup {None}],
         key' \in [Threads -> Keys \cup {None}],
         lockOf' \in [Threads -> Threads \cup {None}],
         \/ holder' = [holder EXCEPT ![TableLock(t)] = None]
         \/ key[t] \in HubKeys /\ UNCHANGED holder
  PROVE  Inv'
<1> DEFINE k == key[t]
           l == TableLock(t)
<1>1. /\ k \in Keys /\ building[k] \in Threads /\ l = <<k, building[k]>> /\ l \in Locks
      /\ InSection(t, k)
  BY DEF Inv, Local, Keyed, Locked, ImageTypeOK, Locks, TableLock, InSection
<1>2. ImageTypeOK'
  BY <1>1 DEF Inv, ImageTypeOK, Places
<1>3. \A j : Raced(j)' <=> Raced(j)
  BY DEF Raced
<1>4. \A s \in Threads : \A j : InSection(s, j)' <=> InSection(s, j) /\ s # t
  BY DEF Inv, ImageTypeOK, InSection
<1>5. Local'
  BY DEF Inv, ImageTypeOK, Local, Keyed, Locked
<1>6. Table'
  BY <1>1 DEF Inv, ImageTypeOK, Table
<1>7. Held'
  <2>1. SUFFICES ASSUME NEW j \in Keys, NEW s \in Threads, ~Raced(j), InSection(s, j), s # t
                 PROVE  holder'[<<j, building[j]>>] = s
    BY <1>3, <1>4 DEF Held
  <2>2. holder[<<j, building[j]>>] = s
    BY <2>1 DEF Inv, Held
  <2>3. j = k => holder[<<j, building[j]>>] = t
    BY <1>1, <2>1 DEF Inv, Held
  <2>4. <<j, building[j]>> # l
    BY <1>1, <2>1, <2>2, <2>3
  <2>5. pc[s] \in Locked /\ key[s] = j
    BY <2>1 DEF InSection, Locked
  <2>6. building[j] \in Threads
    BY <2>1, <2>5 DEF Inv, Local, ImageTypeOK
  <2>7. <<j, building[j]>> \in Locks
    BY <2>1, <2>6 DEF Locks
  <2>8. CASE UNCHANGED holder
    BY <2>2, <2>8
  <2>9. CASE holder' = [holder EXCEPT ![l] = None]
    BY <2>2, <2>4, <2>7, <2>9 DEF Inv, ImageTypeOK
  <2>10. QED
    BY <2>8, <2>9
<1>8. RunLockGivenBack'
  <2>1. SUFFICES ASSUME NEW j \in Names, NEW c \in Threads, NEW s \in Threads,
                        ~Raced(j), holder'[<<j, c>>] = s
                 PROVE  InSection(s, j) /\ s # t
    BY <1>3, <1>4 DEF RunLockGivenBack
  <2>2. <<j, c>> \in Locks /\ j \in Keys /\ s # None
    BY ImageAssumption DEF Locks, Keys
  <2>3. holder[<<j, c>>] = s
    BY <1>1, <2>1, <2>2 DEF Inv, ImageTypeOK
  <2>4. InSection(s, j)
    BY <2>1, <2>3 DEF Inv, RunLockGivenBack
  <2>5. ASSUME s = t PROVE FALSE
    <3>1. j = k
      BY <1>1, <2>4, <2>5 DEF InSection
    <3>2. c = building[k]
      BY <2>1, <2>2, <2>3, <3>1, OneLock DEF Inv, Table
    <3>3. k \notin HubKeys
      BY <3>1, <2>1, ImageAssumption
    <3>4. holder'[<<j, c>>] = None
      BY <1>1, <3>1, <3>2, <3>3 DEF Inv, ImageTypeOK
    <3>5. QED
      BY <2>1, <2>2, <3>4
  <2>6. QED
    BY <2>4, <2>5
<1>9. QED
  BY <1>2, <1>5, <1>6, <1>7, <1>8 DEF Inv

\* A thread stays in its section.
LEMMA StayStep ==
  ASSUME Inv, NEW t \in Threads, NEW place \in {"rerun", "unlock"},
         pc[t] \in {"build", "rerun"}, Goto(t, place), images' \in SUBSET Names,
         UNCHANGED <<building, made, holder, want, key, lockOf>>,
         key[t] \in Names
  PROVE  Inv'
<1>1. ImageTypeOK'
  BY DEF Goto, Inv, ImageTypeOK, Places
<1>2. \A s \in Threads : \A k : InSection(s, k)' <=> InSection(s, k)
  BY DEF Goto, Inv, ImageTypeOK, InSection
<1>3. \A k : Raced(k)' <=> Raced(k)
  BY DEF Raced
<1>4. Local'
  BY DEF Goto, Inv, ImageTypeOK, Local, Keyed, Locked
<1>5. Table' /\ Held' /\ RunLockGivenBack'
  BY <1>2, <1>3 DEF Inv, Table, Held, RunLockGivenBack
<1>6. QED
  BY <1>1, <1>4, <1>5 DEF Inv

LEMMA NextInv == Inv /\ [Next]_vars => Inv'
<1> SUFFICES ASSUME Inv, [Next]_vars PROVE Inv'
  OBVIOUS
<1> USE DEF Inv
<1>1. CASE UNCHANGED vars
  <2>1. ImageTypeOK' /\ Local' /\ Table'
    BY <1>1 DEF vars, ImageTypeOK, Local, Table
  <2>2. \A k : Raced(k)' <=> Raced(k)
    BY <1>1 DEF vars, Raced
  <2>3. \A t \in Threads : \A k : InSection(t, k)' <=> InSection(t, k)
    BY <1>1 DEF vars, InSection
  <2>4. Held' /\ RunLockGivenBack'
    BY <1>1, <2>2, <2>3 DEF vars, Held, RunLockGivenBack
  <2>5. QED
    BY <2>1, <2>4
<1>2. ASSUME NEW s \in Slices, DeleteImages(s) PROVE Inv'
  <2>1. ImageTypeOK' /\ Local' /\ Table'
    BY <1>2 DEF DeleteImages, ImageTypeOK, Local, Table
  <2>2. \A k : Raced(k)' <=> Raced(k)
    BY <1>2 DEF DeleteImages, Raced
  <2>3. \A t \in Threads : \A k : InSection(t, k)' <=> InSection(t, k)
    BY <1>2 DEF DeleteImages, InSection
  <2>4. Held' /\ RunLockGivenBack'
    BY <1>2, <2>2, <2>3 DEF DeleteImages, Held, RunLockGivenBack
  <2>5. QED
    BY <2>1, <2>4
<1>3. ASSUME NEW t \in Threads, NEW r \in Requests \cup {None}, StartNew(t, r) PROVE Inv'
  <2>1. CASE r = None
    BY <1>3, <2>1, FreeStep DEF StartNew, Goto, Places, Keyed, Locked, ImageTypeOK
  <2>2. CASE r # None
    BY <1>3, <2>2, FreeStep DEF StartNew, Goto, Places, Keyed, Locked, ImageTypeOK
  <2>3. QED
    BY <2>1, <2>2
<1>4. ASSUME NEW t \in Threads, Finish(t), pc[t] \notin Locked, images' \in SUBSET Names,
             UNCHANGED <<building, made, holder>>
      PROVE  Inv'
  BY <1>4, FreeStep DEF Finish, Places, Keyed, Locked, ImageTypeOK
<1>5. ASSUME NEW t \in Threads, CheckImage(t) PROVE Inv'
  <2>1. want[t] \in Requests /\ pc[t] \notin Locked /\ want[t] # None
    BY <1>5 DEF CheckImage, Local, ImageTypeOK, Locked
  <2>2. CASE Goto(t, "run") \/ Goto(t, "build_url")
    BY <1>5, <2>1, <2>2, FreeStep DEF CheckImage, Goto, Places, Keyed, Locked, ImageTypeOK
  <2>3. CASE Goto(t, "look") /\ want[t][2] \notin Urls
    <3>1. want[t] \in Keys
      BY <2>1, <2>3 DEF Requests, HubKeys, Keys
    <3>2. want[t] # None /\ key' = [key EXCEPT ![t] = want[t]]
      BY <1>5, <2>1, <2>3 DEF CheckImage, Goto, ImageTypeOK
    <3>3. QED
      BY <1>5, <2>1, <2>3, <3>1, <3>2, FreeStep DEF CheckImage, Goto, Places, Keyed, Locked, ImageTypeOK
  <2>4. QED
    BY <1>5, <2>2, <2>3 DEF CheckImage
<1>6. ASSUME NEW t \in Threads, BuildExternalImage(t) PROVE Inv'
  <2>1. pc[t] \notin Locked /\ ImageOf(want[t]) \in Names
    BY <1>6, ImageOfName DEF BuildExternalImage, Locked, ImageTypeOK
  <2>2. CASE Finish(t) /\ UNCHANGED images
    BY <1>4, <1>6, <2>1, <2>2 DEF BuildExternalImage, ImageTypeOK
  <2>3. CASE Goto(t, "run") /\ images' = images \cup {ImageOf(want[t])}
             /\ UNCHANGED <<want, key, lockOf>>
    BY <1>6, <2>1, <2>3, FreeStep DEF BuildExternalImage, Goto, Places, Keyed, Locked, ImageTypeOK
  <2>4. QED
    BY <1>6, <2>2, <2>3 DEF BuildExternalImage
<1>7. ASSUME NEW t \in Threads, DockerRun(t) PROVE Inv'
  <2>1. pc[t] \notin Locked /\ ImageOf(want[t]) \in Keys /\ ImageOf(want[t]) # None
    BY <1>7, ImageOfName, ImageAssumption DEF DockerRun, Locked, ImageTypeOK
  <2>2. CASE Finish(t)
    BY <1>4, <1>7, <2>1, <2>2 DEF DockerRun, ImageTypeOK
  <2>3. CASE Goto(t, "look") /\ key' = [key EXCEPT ![t] = ImageOf(want[t])]
             /\ UNCHANGED <<want, lockOf>>
    BY <1>7, <2>1, <2>3, FreeStep DEF DockerRun, Goto, Places, Keyed, Locked, ImageTypeOK
  <2>4. QED
    BY <1>7, <2>2, <2>3 DEF DockerRun
<1>8. ASSUME NEW t \in Threads, Look(t) PROVE Inv'
  <2>1. key[t] # None /\ pc[t] \notin Locked
    BY <1>8 DEF Look, Local, Keyed, Locked
  <2>2. CASE building[key[t]] = None
    BY <1>8, <2>1, <2>2, FreeStep DEF Look, Goto, Places, Keyed, Locked, ImageTypeOK
  <2>3. CASE building[key[t]] # None
    BY <1>8, <2>1, <2>3, FreeStep DEF Look, Goto, Places, Keyed, Locked, ImageTypeOK
  <2>4. QED
    BY <2>2, <2>3
<1>9. ASSUME NEW t \in Threads, Take(t) PROVE Inv'
  <2>1. key[t] \in Keys /\ pc[t] \notin Locked /\ building[key[t]] # None /\ key[t] # None
    BY <1>9 DEF Take, Local, Keyed, Locked, ImageTypeOK
  <2>2. <<key[t], building[key[t]]>> \in made /\ building[key[t]] \in Threads
    BY <2>1 DEF Table, ImageTypeOK
  <2>3. lockOf'[t] = building[key[t]]
    BY <1>9 DEF Take, ImageTypeOK
  <2>4. QED
    BY <1>9, <2>1, <2>2, <2>3, FreeStep DEF Take, Goto, Places, Keyed, Locked, ImageTypeOK
<1>10. ASSUME NEW t \in Threads, Unlock(t) PROVE Inv'
  <2>1. pc[t] \in Locked
    BY <1>10 DEF Unlock, Locked
  <2>2. CASE Finish(t)
    BY <1>10, <2>1, <2>2, LeaveStep DEF Unlock, Finish, ImageTypeOK
  <2>3. CASE Goto(t, "run") /\ key' = [key EXCEPT ![t] = None]
             /\ lockOf' = [lockOf EXCEPT ![t] = None] /\ UNCHANGED want
    BY <1>10, <2>1, <2>3, LeaveStep DEF Unlock, Goto, ImageTypeOK
  <2>4. QED
    BY <1>10, <2>2, <2>3 DEF Unlock
<1>11. ASSUME NEW t \in Threads, BuildSshImage(t) PROVE Inv'
  <2>1. pc[t] \in Locked /\ ImageOf(want[t]) \in Names
    BY <1>11, ImageOfName DEF BuildSshImage, Locked, ImageTypeOK
  <2>2. CASE Finish(t) /\ UNCHANGED images
    BY <1>11, <2>1, <2>2, LeaveStep DEF BuildSshImage, Finish, ImageTypeOK
  <2>3. CASE Goto(t, "unlock") /\ images' = images \cup {ImageOf(want[t])}
             /\ UNCHANGED <<want, key, lockOf>>
    <3>1. ImageTypeOK' /\ Local'
      BY <1>11, <2>1, <2>3 DEF BuildSshImage, Goto, ImageTypeOK, Places, Local, Keyed, Locked
    <3>2. \A s \in Threads : \A k : InSection(s, k)' <=> InSection(s, k)
      BY <1>11, <2>3 DEF BuildSshImage, Goto, ImageTypeOK, InSection
    <3>3. \A k : Raced(k)' <=> Raced(k)
      BY <1>11 DEF BuildSshImage, Raced
    <3>4. Table' /\ Held' /\ RunLockGivenBack'
      BY <1>11, <3>2, <3>3 DEF BuildSshImage, Table, Held, RunLockGivenBack
    <3>5. QED
      BY <3>1, <3>4
  <2>4. QED
    BY <1>11, <2>2, <2>3 DEF BuildSshImage
<1>12. ASSUME NEW t \in Threads, BuildDefault(t) PROVE Inv'
  <2>1. key[t] \in Names /\ images' \in SUBSET Names
    BY <1>12 DEF BuildDefault, Local, Keyed, ImageTypeOK, Keys, Names
  <2>2. QED
    BY <1>12, <2>1, StayStep DEF BuildDefault
<1>13. ASSUME NEW t \in Threads, RunAgain(t) PROVE Inv'
  <2>1. key[t] \in Names /\ images' \in SUBSET Names
    BY <1>13 DEF RunAgain, Local, ImageTypeOK
  <2>2. QED
    BY <1>13, <2>1, StayStep DEF RunAgain
<1>14. QED
  BY <1>1, <1>2, <1>3, <1>5, <1>6, <1>7, <1>8, <1>9, <1>10, <1>11, <1>12, <1>13,
     MakeStep, AcquireStep DEF Next, Step

LEMMA InvAlways == Spec => []Inv
  BY InitInv, NextInv, PTL DEF Spec

\* The dictionary of build locks, the locks and the locals of startNew and
\* processImage keep their types.
THEOREM ImageTypes == Spec => []ImageTypeOK
<1>1. Inv => ImageTypeOK
  BY DEF Inv
<1>2. QED
  BY InvAlways, <1>1, PTL

\* One thread builds an image at a time (OneBuilder; the locks of startNew and
\* processImage), as long as the test-and-set has made one lock for the key.
THEOREM BuildLocksWork == Spec => []OneBuilder
<1>1. Inv => OneBuilder
  BY DEF Inv, Held, OneBuilder
<1>2. QED
  BY InvAlways, <1>1, PTL

\* A thread releases the lock it has acquired (ReleasesItsOwn), though it looks
\* the lock up once more to do so, as long as one lock was made for the key.
THEOREM LocksGoBackToTheirTaker == Spec => []ReleasesItsOwn
<1>1. Inv => ReleasesItsOwn
  <2> SUFFICES ASSUME Inv, NEW t \in Threads, pc[t] = "unlock", ~Raced(key[t])
               PROVE  holder[TableLock(t)] = t
    BY DEF ReleasesItsOwn
  <2>1. key[t] \in Keys /\ InSection(t, key[t])
    BY DEF Inv, Local, Keyed, ImageTypeOK, InSection
  <2>2. QED
    BY <2>1 DEF Inv, Held, TableLock
<1>2. QED
  BY InvAlways, <1>1, PTL

\* A lock of startNew is held only by a thread that is going to release it,
\* however build and run end (RunLockGivenBack), as long as one lock was made
\* for the key.
THEOREM StartNewReleases == Spec => []RunLockGivenBack
<1>1. Inv => RunLockGivenBack
  BY DEF Inv
<1>2. QED
  BY InvAlways, <1>1, PTL
=============================================================================
