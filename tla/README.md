# Verification of the Docker aggregate manager

TLA+ models of `gcf_docker_plugin`, an aggregate manager (AM) for the GENI AM
API v3 that gives its users Docker containers.  The modules are model-checked
with TLC and their main safety properties are proved with TLAPS.  All paths
below are relative to `src/gcf_docker_plugin/` unless they begin with `src/`.

Contents: the system (1), the modules and how they correspond to the code (2),
the runs (3), fairness (4), the proofs (5), what is wrong in the code (6), what
is assumed (7), what is not modelled (8), the plan (9).

## 1. The system

### Words

A *DockerMaster* is a pool of *DockerContainer* objects, created when the AM
starts; a *DockerManager* runs the `docker` commands on one host, in the AM's
process or, through Pyro4, in another.  A user *allocates* containers: each
becomes the resource of a *sliver*, in a *slice* named by a URN.  He then
*provisions* the slivers, which builds or fetches an image and runs a Docker
container with an SSH port, acts on them (stop, restart, reload) and *deletes*
them, or lets them *expire*.

### Threads

With `multithread=true` the XML-RPC server runs every API call on a thread of
its own.  `Provision`, `PerformOperationalAction` and `Delete` start further
threads and answer before these have ended (`Delete` waits 0.5 s for its
thread, `testbed.py:1015`).  A daemon thread calls `expire_slivers` every 300 s
for ever, and every API call begins by calling it too.  The DockerManager
serves all of these threads.  There are five locks (`ALLOCATE_LOCK`,
`EXPIRE_LOCK`, `DUMP_LOCK`, the port lock of the DockerManager and a lock per
image that is being built); most of the shared state is under none of them.

### Components

| Component | State | Operations | Works with | Hard behaviour | What makes it correct |
|---|---|---|---|---|---|
| Allocation, deletion and expiration (`testbed.py`, `dockermaster.py`, parts of `dockercontainer.py`, `extendedresource.py`) | `AM._slices`, `Slice._slivers`, `DockerMaster.pool`, `available`, `chosen_sliver_type`, `ALLOCATE_LOCK`, `EXPIRE_LOCK` | `Allocate`, `Delete` and `thread_delete`, `expire_slivers`, `matchResource`, `deallocate`, `reset`/`onResetChild` | calls Provisioning's `deprovision`; dumps the state after each call | calls that interleave outside `ALLOCATE_LOCK`; seven ways out of the locked part; deletions of the same sliver; exceptions that keep `EXPIRE_LOCK`; pools that run empty | a container has one holder; nothing is lost except by an error; matching and expiring exclude themselves; expired slivers go; a lock that is taken has an owner, who gives it back |
| Provisioning (`testbed.py`, `dockercontainer.py`, `extendedresource.py`, `gcf_to_docker.py`) | allocation and operational states of slivers, `ssh_port`, `chosen_sliver_type`, `locked_port`, the port lock, Docker's containers | `Provision`, `PerformOperationalAction` and their threads, `preprovision`, `provision`, `restart`, `deprovision`, `reserveNextPort`, `startNew`, `removeContainer`, `waitForSshConnection` | `docker`, `netstat`; Images; Users and commands | threads outlive the call and the sliver; stale copy of the locked ports; docker fails at any step; retries after a failure | no port for two containers; a ready sliver has its container and keeps it; a deprovisioned one stays out of use; deletion leaves nothing; every locked port is unlocked; threads end |
| Images (`gcf_to_docker.py`: `processImage`, `buildSshImage`, `buildExternalImage`, `deleteImage`) | the images Docker has, the dictionary `building` of locks per image | build, fetch, delete an image | called by `startNew` and by the deletion of a slice | test-then-set of `building`; `release()` of whatever lock the dictionary has; a lock that is not released when a build fails; an image that is deleted while it is used | an image is built by one thread at a time; a thread releases its own lock; nobody waits for ever |
| Persistence (`testbed.py`: `dumpState`, the restoration in `__init__`) | the state file and the temporary file it is copied from, `DUMP_LOCK` | dump after each call that changes something, restore when the AM starts | pickles everything the other components keep | a dump while others write; a `RuntimeError` that is swallowed; a stop in the middle of the copy; a restoration that fails half-way | the file comes to hold what the AM has; each part of it is what one moment had, never an older one again; there is a whole file at any moment; a dump always ends |
| Terms and conditions (`terms_conditions/`) | an SQLite table of users, what they accepted and until when; the connection attribute of two shared objects | accept, decline, show, is accepted | asked by `Allocate` | threads of the web site and of the API that replace each other's connection; errors between statement and commit; expiry between reading and answer | each request takes effect at one instant or not at all; nobody allocates without a valid acceptance |
| Users and commands (`gcf_to_docker.py`, `dockercontainer.py`: `setupUser`, `setupContainer`, `installCommand`, `executeCommand`) | users and keys inside a container | set up users, install, execute | the end of provisioning | fails in the middle | – |
| Remote DockerManager (`daemon_dockermanager.py`) | none of its own | exposes a DockerManager through Pyro4 | – | – | – |
| RSpec documents (`testbed.py`, `extendedresource.py`) | none | `ListResources`, `Describe`, `Status`, manifest, advertisement | reads the others | – | – |
| GENI base classes (`src/geni-tools`, an empty submodule) | slices, slivers, credentials | `Slice`, `Sliver`, `decode_urns`, `Renew`, `Shutdown` | base of the AM | – | – |
| Example resource, installation | none | – | – | – | – |

`PROJECT.json` lists these components with their status, and under "hazards"
each of the hard behaviours at its line with the properties that watch it.

## 2. The modules

| Module | What it is |
|---|---|
| `SliverAllocation` | containers between pools, `Allocate` calls and slices; `Allocate`, `Delete`, `expire_slivers` |
| `ContainerLease` | abstract specification: what the AM promises about who holds a container |
| `SliverAllocationLease` | refinement mapping from `SliverAllocation` to `ContainerLease` |
| `SliverAllocationProofs` | theorems about `SliverAllocation` |
| `SliverAllocationLeaseProofs` | proof of the refinement |
| `MCSliverAllocation` | values of the constants and symmetry for TLC |
| `Provisioning` | slivers between allocation and a running container, and back; SSH ports |
| `ProvisioningProofs` | theorems about `Provisioning` |
| `SliverLife` | abstract specification: the stages of a sliver, and when its SSH port is open |
| `ProvisioningLife` | refinement mapping from `Provisioning` to `SliverLife` |
| `ProvisioningLifeProofs` | proof of the refinement |
| `MCProvisioning` | values of the constants and symmetry for TLC |
| `ImageBuild` | how `startNew` comes by an image; the table of build locks |
| `ImageBuildProofs`, `MCImageBuild` | theorems; symmetry for TLC |
| `StateStore` | dumps of the state, stops of the AM, restoration |
| `StateStoreProofs`, `MCStateStore` | theorems; symmetry for TLC |
| `DurableStore` | abstract specification: a value that is dumped to a file and restored from it |
| `StateStoreDurable` | two refinement mappings from `StateStore` to `DurableStore`: the slices and the pool |
| `StateStoreDurableProofs` | proofs of both refinements |
| `TermsConditions` | requests that accept, decline, show and check the terms |
| `AcceptanceRegister` | abstract specification: an atomic register per user, with an expiry |
| `TermsConditionsRegister` | refinement mapping from `TermsConditions` to `AcceptanceRegister` |
| `TermsConditionsProofs`, `MCTermsConditions` | theorems, the refinement among them; symmetry for TLC |

`SliverAllocation` and `Provisioning` look at the same objects at two scales.
The first has slices, lists, pools and the locks of the AM, and knows of a
container only where it is and whether it has a sliver type.  The second takes
one lease of a container after another as given (`Allocate(c)`, and the end of
`Delete(t, c)`) and models what happens inside.  They meet at `deprovision`,
one atomic step in the first and three in the second, and at
`chosen_sliver_type`, which both keep.

`ImageBuild` opens the step of `Provisioning` in which `startNew` gets its image
(`Run` there succeeds or fails), `TermsConditions` the check at the beginning of
`Allocate`, which `SliverAllocation` leaves out since a refusal changes nothing,
and `StateStore` the `dumpState` at the end of the calls.  `StateStore` repeats
the life of a sliver in a few actions, one per change that is followed, or not
followed, by a dump; the detail is in the two large modules.

### SliverAllocation

A step is a piece of a thread between two points where another thread can see
or change a shared object.  A thread is a constant that plays a role again and
again: `Callers` run `Allocate`; `Deleters` run `thread_delete` or
`expire_slivers`.

| Variable | In the code |
|---|---|
| `pool[c]` | how often `c` is in `DockerMaster.pool` (a list: nothing prevents twice) |
| `chosen[c]` | `c.chosen_sliver_type is not None` |
| `slices[u]` | `self._slices[u]`, or `None` |
| `slivers[o]` | `o._slivers` of the Slice object `o` |
| `expired` | slivers whose `expiration()` has passed |
| `allocateLock`, `expireLocked` | `ALLOCATE_LOCK` (with its owner), `EXPIRE_LOCK` |
| `pc`, `req`, `held`, `target` | of an `Allocate` call: where it is, nodes left to match, `resources`, `newslice` |
| `step`, `kind`, `todo`, `cur` | of a deletion: where it is, `thread_delete` or `expire_slivers`, slivers left, `sliver` |

Slices and slivers are Python objects: two `Allocate` calls may build two Slice
objects for one URN.  They are told apart by a tag.  A tag is used again once
nothing in the program refers to the object (`FreshSlice`, `FreshSliver`), so
that a bounded number of tags allows unbounded behaviours.

What is wrong with a request is its `flaw`, a value of `Flaws`: nothing; a node
without `client_id` or sliver type, answered BAD_ARGS; a node that no
DockerMaster serves however full its pool is (`dockermaster.py:62-74`: a sliver
type it does not support, `exclusive="true"`, an unknown `component_id`),
answered TOO_BIG like an empty pool; or `geni_start_time`, refused after the
lock was released.

| Action | `testbed.py` |
|---|---|
| `Allocate`, `AcquireLock` | 383–420: arguments, `ALLOCATE_LOCK.acquire()`, a request without a node |
| `MatchProxy`, `MatchNode`, `AbortAllocation`, `ReleaseLock` | 425–523: `matchResource` for a proxy and for each node; TOO_BIG and BAD_ARGS through `abort_resource_allocation`; the end times and `geni_start_time` |
| `NewSlice`, `ExistingSlice`, `RefuseExisting`, `AddResource`, `PublishSlice` | 525–575 |
| `Delete`, `Deprovision`, `ResetResource`, `RemoveSliver`, `CheckEmpty`, `ForgetSlice` | 979–1020 and `delete_sliver` |
| `ExpireCheck`, `ExpireAcquire`, `FinishRun` | 1143–1177 |
| `RemoveRaises`, `ForgetRaises` | the exceptions of `list.remove` and `del` in the above |
| `Lapse` | the clock |

### Provisioning

`Threads` are the API calls and the threads they start.  A thread keeps the
container (`on`) and the sliver (`of`) it was started for, whatever becomes of
them meanwhile.  `SetOp` therefore changes the operational state only if the
container still belongs to that sliver: the thread sets the state of a Sliver
object that nobody reads any more otherwise.

| Variable | In the code |
|---|---|
| `sliver[c]`, `leased[c]` | the sliver whose resource `c` is, and whether it is in its slice, being deleted, or gone |
| `alloc[c]`, `op[c]` | `allocationState()`, `operationalState()` of it |
| `chosen[c]`, `sshPort[c]` | `chosen_sliver_type`, `ssh_port` (22 is `NoPort`; a number after the last port is `TooHigh`) |
| `lockedPort`, `portLock` | `DockerManager.locked_port`, `.lock` |
| `box[c]` | Docker's container of that name: its port, and whether it starts, listens or has stopped |
| `pc`, `port`, `snap` | of a thread: where it is, the argument `ssh_port` of `startNew`, the copy `_locked_port` |

| Action | Code |
|---|---|
| `Provision`, `Prepare` | `testbed.py:652-760`, `preprovision` in `extendedresource.py` and `dockercontainer.py` |
| `ProvisionWithoutKeys` | `testbed.py:698-736`: a user without a key; BAD_ARGS is answered after the allocation state has changed |
| `CopyLockedPorts`, `ReservePort` | `gcf_to_docker.py:48-83` (`isContainerUp`, `getNextPort`, `reserveNextPort`) |
| `Build`, `Run`, `Wait` | `DockerContainer.provision`, `startNew` |
| `ConnectSsh`, `InstallFails`, `Install`, `Fail` | `provision_install_execute_sliver`, `testbed.py:600-640` |
| `InstallRaises` | the exceptions at `testbed.py:588`, `624` and in `installCommand` (`gcf_to_docker.py:368-371`): nobody catches them, and the thread ends |
| `ReleasePort`, `RemoveBox`, `ForgetPort` | `deprovision`, called by `Delete`, `geni_stop` and a failed thread |
| `Reload`, `Restart`, `Stop`, `StopBox`, `StartBox` | `PerformOperationalAction` and its threads |
| `Delete` | `delete_sliver` |
| `ComeUp` | Docker (external) |

### ImageBuild

| Variable | In the code |
|---|---|
| `images` | the repositories `docker images` lists |
| `building[k]`, `made` | `building` (`gcf_to_docker.py:43`); a Lock object is named by its key and the thread that made it |
| `holder[l]` | who acquired that Lock object |
| `want[t]`, `key[t]`, `lockOf[t]` | of a thread in `startNew`: the argument `image`; the key (`image` or `imageName`) and the Lock object it waits for |

An image from a URL is named by the hash of `urn::url` and is built without a
lock; one from Docker Hub has its bare name in docker but `urn::name` as its key
in `building`; the default image is built under the name of the image that
`docker run` did not find.  `HubKeys` and `Names` keep these apart.  `Tagged` are
the names of Docker Hub that have a tag ("debian:jessie"): the `grep -x` among
repositories without tags never finds one (`Listed`), so that it is fetched again
each time.

| Action | `gcf_to_docker.py` |
|---|---|
| `StartNew`, `CheckImage`, `BuildExternalImage` | 89–97, 275–294, 305–351 |
| `DockerRun`, `BuildDefault`, `RunAgain` | 106–123 |
| `Look`, `Make`, `Take`, `Acquire`, `Unlock` | 115–117, 123 and the same in 295–297, 301 |
| `BuildSshImage` | 257–271, 298–300: a failure returns without the release |
| `DeleteImages` | 250–254, called at `testbed.py:1004` and `1169` |

### StateStore

| Variable | In the code |
|---|---|
| `agg`, `master` | the pool of the DockerMaster of `self._agg`, and which DockerMaster that is (a failed restoration makes a new one) |
| `slices[u]` | `self._slices`: container and operational state of the one sliver, or `None` |
| `tmp`, `file` | the two files: what was pickled, and how many of its parts load |
| `lock`, `mutated` | `DUMP_LOCK`; a dictionary has changed its size since the pickling began |
| `am`, `crashes` | whether the AM is down, in `__init__` or up; how often it was stopped |
| `pc`, `next`, `on`, `took` | of a call or thread: where it is, where it goes on after `dumpState`, its slice and container |

| Action | `testbed.py` |
|---|---|
| `Allocate`, `AbortAllocation`, `PublishSlice` | 466–489, 422–425, 550–573 |
| `Deallocate`, `ForgetSlice` | 990–999, 1000–1012 and 1162–1175 |
| `Provision`, `Act` | 717–737 (also `geni_reload`, `geni_restart`), 866–901 (also `Renew`) |
| `SetupFails`, `ReadyBusy`, `Install`, `InstallRaises`, `Finish` | 609–638: which changes of the state are dumped, and the exceptions that end the thread without a dump |
| `AcquireDumpLock`, `PickleAgg`, `PickleSlices`, `PickleFails`, `CloseTmp`, `BeginCopy`, `EndCopy` | 1179–1197 |
| `Crash`, `Restore`, `StartAnew` | the AM stops; 155–165; 166–236 |

`copyfile` truncates and rewrites the file: between `BeginCopy` and `EndCopy`
any number of its parts may load.  `StartAnew` keeps what did load: `__init__`
assigns one attribute after the other, so that a file that ends after `_slices`
gives slivers whose containers belong to a DockerMaster that `_agg` does not
have.  A `Provision` without a key changes nothing that this module keeps.

### TermsConditions

| Variable | In the code |
|---|---|
| `now` | the clock, in units of which `Duration` is 365 days and `Margin` 10 minutes |
| `accepts[u]` | the committed row of the table |
| `con[d]` | `self.con` of the `TermsAndConditionsDB` of the site, or of the API: the thread that opened it |
| `pc`, `req`, `reply` | of a thread: where it is, client, row to write or row read, answer |

| Action | Code |
|---|---|
| `do_PUT`, `do_DELETE`, `do_GET` | `terms_conditions_site_request_handler.py:135-163`, `117-133`, `216-230` |
| `Allocate` | `testbed.py:362-372` |
| `Connect`, `Cursor`, `Select`, `BeginWrite`, `Commit`, `Close` | the statements of `find_user_accepts`, `register_user_accepts`, `delete_user_accepts` |
| `Respond` | the answer, with the time of then; `do_GET` sends its status line 200 before it looks at the client (217–222), so that the site answers 200, with nothing shown, where `report_forbidden` was to answer 403 |
| `DatabaseError`, `Tick` | SQLite (external), the clock |

`TermsAndConditionsDB` keeps its connection in `self.con`, and each of the two
singletons has one such object for all threads.  A thread may find the
connection of another there, which Python's `sqlite3` refuses to use from a
thread that did not open it: the request raises, after its commit if it is
`close()` that finds it.

### AcceptanceRegister

Each call to the terms takes effect at one instant between its start and its
answer, or raises, before or after it took effect.  `Answer` grants access only
on what the register held at that instant, if it holds for another `Margin` at
the time of the answer.

### ContainerLease

One variable, the holder of each container: free, an `Allocate` call, a slice,
or lost.  Containers are taken, granted, given back, abandoned or forgotten;
one never goes from a call to another call, or from a slice to another slice,
without being free in between.  That a call which fails *loses* what it had
matched is what the code does (finding `too_big`); a corrected
`abort_resource_allocation` would strengthen `Abandon` to give them back.

### SliverLife

Two variables per container: the stage of its sliver and its door, the port at
which docker publishes it.

```
free -> allocated -> setup -> install -> ready -> setup, restart, ending, deleting
                     setup -> ending -> spent       restart -> broken -> setup, deleting
                     setup -> spent                 allocated, spent -> deleting -> free
                     install -> stranded, broken    stranded -> setup, deleting
```

The door opens during setup only, and closes during setup, ending and deleting.
`LifeOf` reads the stage off the step of the thread at work on the container.
Without one, a sliver is *spent* if it has no sliver type (`preprovision` would
raise) or is `geni_configuring` (`Provision` skips it), else what its operational
state says.  A `Provision` of a spent sliver is a stutter.  A sliver whose installation
an exception has cut short is *stranded*: it is `geni_ready_busy` and nobody is at
work on it (or it is *broken*, `geni_failed`, if a service had failed before).

As with the lease, what disappoints is in the abstract specification where the
code does it: a restart leads to *broken*, because `restart` returns nothing
(the run `restart_fails` shows that the advertisement says otherwise), and no
action leads back from *spent*, because `geni_start` is `pass`.  `SliverLife` is
what the code keeps, not what its advertisement promises.

### DurableStore

Four variables for one part of the state: its value in the running AM (none
while it is stopped), the value that is being dumped, what the file has, and
whether the copy of the file is whole, in the making, or was cut off.
`StateStoreDurable` instantiates it twice, for `_slices` and for the pool of
`_agg`, as `dumpState` reads the two at different moments: each is durable, the
pair is not one snapshot (6).

| `DurableStore` | `StateStore` |
|---|---|
| `Snapshot` | `PickleSlices`, or `PickleAgg` |
| `Drop` | `PickleFails` |
| `BeginCopy`, `EndCopy` | the same |
| `Stop` | `Crash` |
| `Start` | `Restore`, `StartAnew` |
| `Change`, or a stutter | all others |

## 3. The runs

### Bounds

`Containers`, `URNs`, `Callers`, `Deleters`, `Threads` are model values.
`Tags` and `Slivers` bound how many objects exist at a time, `MaxNodes` the
nodes of one request, `MaxCopies` how often a container is listed when
deletions overlap, `MaxPort` the ports of the host.  Two containers are enough
for a container to be confused with another; two callers, or two deleters, for
a race; two tags for two Slice objects of one URN; as many ports as containers,
or one for both threads, for the ports to run out.  The races found (6) need no
more, and the proofs (5) do not depend on the bounds.

In `images` one thread of two is enough for each race of two, as a lock per
thread and key is all that can be made; one slice, one URL and one name of
Docker Hub give every kind of key.  In `store` a second stop would meet the same
files as the first, as the AM may stop again only after it has dumped or
restored; the larger instance with two slices and two containers
(10.7 million states, no liveness) has no error either.  In `terms` users are
independent of each other except for the connections, which two threads of one
user exchange as well; `Duration = 1`, `Margin = 1` and `MaxTime = 2` let a row
expire while it is written, stored, read and answered.

The one name of Docker Hub in `images` has a tag, which brings the most fetches:
one without a tag behaves like the image from a URL in this respect, and the
theorems are for any `Tagged`.

Deadlock is checked in the passing runs except two: threads start again, so the
model must not stop.  In `images` it may: a failed `buildSshImage` keeps its
lock, and all threads may come to wait for it.  In `store` it may: with a proxy
in the configuration and a file that ends after `proxy_dockermaster`, `__init__`
raises whenever it is started (`testbed.py:210`).  In `stuck_expiry` and
`state_lost` it is not checked because bounds may be used up.

| Run | Instance | Question and answer |
|---|---|---|
| `exclusive` | 2 containers, 1 URN, 2 callers, 1 deleter, 2 tags, 1 node | `ContainerExclusive`, `MatchingExclusive`, `TypeOK`: no interleaving gives a container a second holder, and calls match one at a time; `ImplementsLease`: the code implements `ContainerLease`; `LossesExplained`: of the losses it allows, only those by a call that returns before it builds its slice, and by a change of an entry of `_slices`, occur |
| `expiry` | 1 container, 1 proxy, 1 caller, 2 deleters, fair | `ExpiredSliversReclaimed`: an expired sliver goes, if no deletion overlaps; `DeletionsDoNotRaise`: whatever `Allocate` does meanwhile; `AllocateLockReleased`: each way out of the locked part gives the lock back; `LocksHaveOwners`: a lock that is taken has a thread at a step from which it gives it back |
| `overlap` | 1 container, 1 caller, 2 deleters that overlap, 2 tags | `ExpiryExclusive`: even when deletions raise, one thread expires at a time |
| `provision` | 2 containers, 2 threads, 2 ports, all actions, fair | `ProvTypeOK`, `ReadyHasContainer`, `DeletedLeavesNothing`, `NoPortLeak`, with one thread for a container at a time, docker failing and installations raising as they like; `ReservesFreshPort`: a locked port is not given away, though `getNextPort` searches an old copy; `ImplementsLife`: slivers live as `SliverLife` says; `WorkersFinish`: every thread ends, however the threads compete for the port lock |
| `images` | 2 threads, 1 slice, 1 URL, 1 hub image, fair | `OneBuilder`, `ReleasesItsOwn`, `RunLockGivenBack`, `WaitersServed`: as long as the test-and-set of `building` has not made two locks for a key, an image has one builder, who releases the lock he acquired, and, in `startNew`, however build and run end, so that who waits gets his turn |
| `store` | 2 threads, 1 slice, 1 container, 1 stop, fair | `QuiescentIsSaved`: when nobody is at work, the file holds every sliver and every free container, whatever dumps failed; `AWholeCopy`: while the AM is up, the file or its temporary copy is whole, and nothing loses the last whole copy but the dump of a start that found no file that loads; `CallsFinish`: the lock is had and given back; `SlicesAreDurable`, `PoolIsDurable`: a restart gives each part as it was when the last dump that reached the file read it |
| `terms` | 1 user, 2 threads, 3 instants | `ImplementsRegister`: the requests implement `AcceptanceRegister`; `StoredAccessAgrees`: what the site shows is what `Allocate` derives |

The runs that end in a violation are listed in (6).

`OverlappingDeletes` and `OverlappingOperations` name the assumption under
which most properties hold: clients and the daemon do not start work on a slice
(or container) on which a thread is still working.  The code does not enforce
it.  `overlap` and the theorems without a hypothesis do without it, and so does
`WorkersFinish`: `provision` with one container, two slivers, one port and
`OverlappingOperations = TRUE` (96,547 states) satisfies it as well.
For the others, setting the constant to TRUE in the run's configuration shows
what goes wrong (with `MaxCopies = 2` and, for `Provisioning`, two identities
more in `Slivers`): (6) lists it.

For every property of a passing run `PROJECT.json` has a mutant: a plausible
mistake in the code (a lock not taken, a result not looked at, a missing
`release`) with which TLC finds the property violated.

## 4. Fairness

*SliverAllocation.*  Weak fairness of `CallStep(t)` and `RunStep(w)`: a Python
thread that can go on does; the steps before and between calls carry none, as
nobody has to call.  Strong fairness of `ExpireCheck(w)` and
`ExpireAcquire(w)`: the daemon tries every 300 s for ever, and so do all API
calls, so that if `EXPIRE_LOCK` is free again and again one of them finds it
free.  With weak fairness two deleters could alternate so that the thread of
interest is never let in.  There is no fairness of `Lapse` or of `Delete`.

*ImageBuild.*  Weak fairness of a thread's steps (builds end) and strong
fairness of `Acquire`: several threads may want a lock, and Python gives it to
one of them.  None of `StartNew` and `DeleteImages`.

*StateStore.*  Weak fairness of a thread's steps; strong fairness of
`AcquireDumpLock`, for the same reason, and of `Finish`, which is what "the list
of install services is finite" means for a thread that dumps once per service.
None of `Crash`, `Restore`, `StartAnew` and of the calls: `CallsFinish` is about
calls that were made, and a stop ends them.

*TermsConditions* has no liveness property: a request ends by its program text,
with an exception if with nothing else.

*Provisioning.*  Weak fairness of the steps of a thread that change where it is
(`startNew` waits at most 45 s, `waitForSshConnection` makes 20 attempts, the
list of services is finite: `InstallFails` alone does not go on for ever), and
strong fairness of taking the port lock, which its owner holds only for a
`netstat`.  There is no fairness of `ComeUp`: threads end even if Docker
never answers as hoped.

## 5. The proofs

They hold for every number of containers, threads, slices, tags, nodes and
ports, and assume no more than the ASSUMEs of the modules (bounds are numbers,
`None` is not one of the objects).  The two assumptions on the environment are
hypotheses of the theorems that need them.

### SliverAllocationProofs

| Theorem | Statement | Hypothesis |
|---|---|---|
| `TypeCorrect` | `Spec => []TypeOK` | – |
| `MatchingIsExclusive` | `Spec => []MatchingExclusive` | – |
| `ExpiryIsExclusive` | `Spec => []ExpiryExclusive` | – |
| `NoDeletionRaises` | `Spec => []DeletionsDoNotRaise` | `~OverlappingDeletes` |
| `HoldersAreExclusive` | `Spec => []ContainerExclusive` | `~OverlappingDeletes` |
| `AllocateLockIsOwned` | `Spec => []AllocateLockHasOwner` | – |
| `LocksAreOwned` | `Spec => []LocksHaveOwners` | `~OverlappingDeletes` |

`TypeOK` is not inductive, because a deletion uses `cur[w]` as a sliver and a
call uses `req[t]` as a request.  `TypeInv` adds what each place in the code
may rely on: that a call that is not idle has a request, that one which adds
resources has a slice of the URN it was asked for, that a deletion which is not
at its beginning has a sliver.

`NoDeletionRaises` needs `JobInv`: two deletions never have slivers of one URN,
what a deletion has still to do is still in its slice's list, and the slice it
is about to forget is still known.  The URN is the point: it is not enough that
two deletions have different slivers, as the one that empties the slice first
would make the other's `del` raise; and two Slice objects of one URN share the
entry of `_slices`.

`HoldersAreExclusive` needs both: `ContainerExclusive` alone does not survive
`reset`, which puts the container into its pool while its sliver is still in
the list.  The step is safe because the sliver was leased until then (`JobInv`)
and is `Returned` afterwards.  The invariant is
`TypeInv /\ JobInv /\ ContainerExclusive`.

`LocksAreOwned` is the safety half of the two liveness properties of the locks: a
lock that is taken has a thread that will give it back, so that fairness is all
they need besides.  For `ALLOCATE_LOCK` it is inductive with the types, and needs no
hypothesis (`AllocateLockIsOwned`).
`EXPIRE_LOCK` needs `NoDeletionRaises`, because a deletion that raises ends
`expire_slivers` with the lock still taken; without the hypothesis it is false
(`stuck_expiry`).

### SliverAllocationLeaseProofs

| Theorem | Statement | Hypothesis |
|---|---|---|
| `LeaseImplemented` | `Spec => ImplementsLease` | `~OverlappingDeletes` |
| `LossesAreExplained` | `Spec => LossesExplained` | `~OverlappingDeletes` |

`HolderOf` looks for the holder of a container in the pools first, then in the
calls, then in the slices.  `HoldersAreFound` says that the order makes no
difference, because of `ContainerExclusive`; from there on the proof has only to
compare what is in the three places before and after a step (`KeepsHolder`).
The actions that do something to the lease: `matchResource` is `Take`,
`add_resource` is `Grant`, `reset` is `GiveBack`, any early return of
`Allocate` is `Abandon`, and both `del self._slices[urn]` and
`self._slices[slice_urn] = newslice` are `Forget`: the second when another call
has published an object for the URN in the meantime.  All others stutter; for
`CheckEmpty`, `FinishRun` and the lookups this needs that what a thread leaves or
picks up can also be reached otherwise.

`ContainerLease` lets a call abandon, and a slice forget, what it has at any
time.  `LossesExplained` is the action property that says when this happens.  Both
are proved of each step at once (`Mapped`): whoever shows which step of the lease
an action is also shows that no container became `Lost`, or why.

### ProvisioningProofs

| Theorem | Statement | Hypothesis |
|---|---|---|
| `ProvisioningTypes` | `Spec => []ProvTypeOK` | – |
| `ReservationsAreFresh` | `Spec => ReservesFreshPort` | – |
| `DeletionsLeaveNothing` | `Spec => []DeletedLeavesNothing` | `~OverlappingOperations` |
| `LockedPortsAreKnown` | `Spec => []NoPortLeak` | `~OverlappingOperations` |
| `ReadySliversRun` | `Spec => []ReadyHasContainer` | `~OverlappingOperations` |

`ReservationsAreFresh` is an action property.  Between the copy of
`locked_port` and the `append` other threads may unlock ports, never lock any,
because they need the lock: `CopyComplete` says that `locked_port` is contained
in the copy of the thread that holds the lock.  With `ProvTypeOK` (the lock is
held exactly while looking for a port) it is inductive (`RInv`).

`DeletionsLeaveNothing` follows the three steps of `deprovision`:
`DeletionProgress` says what is already gone at each, `FreeIsQuiet` that no
thread works on a free container, `OneWorker` that no two threads work on one.
`LockedPortsAreKnown` needs `SetupLocal` (a thread that runs a container has
the port of the container as its argument) and `LocksOwned` (the ports that are
locked are those of containers that are being set up), because a port is locked
through one variable, `ssh_port`, and unlocked through another, the argument of
`startNew`.

`ReadySliversRun` adds `WorkProgress` to both: the thread at work on a container
is the thread of the sliver the container is leased to (`Allocate` only takes a
container on which nobody works), a sliver stays ready only while `deprovision`
has not yet removed its container, and once `docker run` has succeeded the
container is there, on the port of the argument, until the sliver is declared
ready.  These invariants were checked with TLC on `provision` before they
were proved.  `PInv` is all of them.

### ProvisioningLifeProofs

| Theorem | Statement | Hypothesis |
|---|---|---|
| `LifeImplemented` | `Spec => ImplementsLife` | `~OverlappingOperations` |

`PInv` does not say enough about `chosen_sliver_type`.  `EInv` adds that a thread
which sets a container up, or restarts it, has a sliver type (`Equipped`: nobody
deprovisions meanwhile), that a deprovision has already cleared it and, at its
end, removed the container, and that a sliver at rest which may be acted on has
one (`Rest`).  A sliver on which services are being installed is
`geni_ready_busy` or `geni_failed`, which is what an exception among them leaves
it in.  `Rest` is what makes a ready sliver different from one that was
stopped: only the operational state keeps the user from acting on the latter.

`LifeOf` chooses a thread that works on the container; `StagesAreFound` says that
with `OneWorker` it is the only one, in the state before and in the one after a
step.  A step then concerns one container (`StepsStayLocal`, `StepsOfLocks`),
which leaves the others where they are (`KeepsStage`), and for the one it
concerns either nothing is to be seen, or its sliver moves, or its door does
(`Lives`).  `StepLives` shows this action by action, and `OneLives` that it makes
a step of `SliverLife`.

### ImageBuildProofs

| Theorem | Statement | Hypothesis |
|---|---|---|
| `ImageTypes` | `Spec => []ImageTypeOK` | – |
| `BuildLocksWork` | `Spec => []OneBuilder` | – |
| `LocksGoBackToTheirTaker` | `Spec => []ReleasesItsOwn` | – |
| `StartNewReleases` | `Spec => []RunLockGivenBack` | – |

The properties have `~Raced(k)`, which no step makes true again.  The invariant
says that a lock in the dictionary was made, that what a thread waits for was
made for its key, and that a thread in the section holds the lock it waited for;
while there is one lock for the key, this is the lock of the dictionary, whence
all three properties.

### StateStoreProofs

| Theorem | Statement | Hypothesis |
|---|---|---|
| `StoreTypes` | `Spec => []StoreTypeOK` | – |
| `WholeCopyKept` | `Spec => AWholeCopy` | – |
| `QuiescentStateIsSaved` | `Spec => []QuiescentIsSaved` | `~CallsRaise` |

`AWholeCopy` is an invariant of an AM that is up and an action property of every
step, starts included.  It needs what each place of `dumpState` says about the two
files (`CopyInv`: before the copy the file is whole, unless the AM is still
starting, and during the copy the temporary file is), and that one thread dumps
at a time.  That a step loses the last whole copy (`CopyKeptStep`) leaves only
the two writes to the temporary file, of an AM that is starting.  `QuiescentIsSaved` is not inductive at all, as it says nothing while
somebody is at work.  `DumpInv` says that the memory is what the file has, or
what the dump in the making has, or that a thread is still to read it.
`ChangeInv` says that a dump which fails because of a change leaves the thread
that made the change, and this one dumps again.  The dump may have more
free containers than there are (`SameAgg`), as `abort_resource_allocation` loses
some without a dump.

### StateStoreDurableProofs

| Theorem | Statement | Hypothesis |
|---|---|---|
| `SlicesDurability` | `Spec => SlicesAreDurable` | – |
| `PoolDurability` | `Spec => PoolIsDurable` | – |

Calls that raise before they dump, stops at any point and dumps that fail are all
allowed.  The proof rests on `DUMP_LOCK`: one thread at a time is in `dumpState`
(`DumpAlone`), so that what is in the temporary file is what this thread has read.
With `CopyInv` (the temporary file is whole while it is copied) and `EndInv` (the
file being written is a beginning of it) the copy puts into the file what was
pickled.  `EndCopy` needs it, as nothing but the lock keeps another thread from
writing the temporary file during the copy.  Each step is mapped for both parts at
once (`Mapped`), as the two differ in where a thread has read them.

A stronger statement about both parts is false.  "When nobody is at work, the file
has a container in the pool and in a slice only if the AM has it in both" holds
with one slice, and fails with two: the AM is stopped between the two reads,
restores the container as free and as held, and matches it for another slice in
a call that fails.  The AM has then lost the free one (`AbortAllocation`, which does
not dump), the file has not.

### TermsConditionsProofs

| Theorem | Statement | Hypothesis |
|---|---|---|
| `TermsTypes` | `Spec => []TermsTypeOK` | – |
| `StoredAccessIsDerived` | `Spec => []StoredAccessAgrees` | – |
| `RegisterImplemented` | `Spec => ImplementsRegister` | – |

The refinement is proved action by action: `Commit` and `Select` map to
`TakeEffect`, the start and the end of a request to `Invoke`, `Answer` and
`Raise`, everything about connections to a stutter.  It needs
`StoredAccessAgrees` (the site grants on the stored field, the register on the
two documents) and that a thread is idle exactly if it has no request
(`IdleOK`).

Only model-checked: liveness (`AllocateLockReleased`,
`ExpiredSliversReclaimed`, `WorkersFinish`, `WaitersServed`, `CallsFinish`),
because the prover does not handle fairness.  Every other property of a passing
run is proved.

## 6. What the code does not keep

Each of these is a run that ends in a violation; `PROJECT.json` quotes the line
of the repository that says otherwise.

| Run | What happens |
|---|---|
| `too_big` | a request of two nodes takes the only container for the first, fails at the second, and `abort_resource_allocation` does not return the first to the pool; the next request finds the pool empty with nothing in use |
| `double_allocate` | two `Allocate` calls for a new slice both succeed, one is lost |
| `stuck_expiry` | a deletion that raises in `expire_slivers` keeps `EXPIRE_LOCK`; nothing expires any more |
| `state_lost` | a sliver becomes ready after the last dump of its thread; after a restart of the AM it is busy getting ready for ever and can neither be stopped nor restarted nor reloaded, though `src/README.md:10` says that running containers can be controlled again |
| `restart_fails` | a `geni_restart` that docker carries out ends in `geni_failed` (`StartBox`): `restart` returns nothing, which `thread_restart` takes for a failure, though the advertisement says that `geni_ready` is next (`testbed.py:1082-1085`) |

`too_big` happens with one `Allocate` call at a time, `state_lost` and
`restart_fails` with one sliver and no overlap.  In `too_big` the requests are
well-formed (`Flaws = {"none"}`); requests with a flaw lose what they had matched
as well, at a node that no DockerMaster serves and at one without `client_id` by
the same way, and with `geni_start_time`, or when the slice exists, without even
calling `deallocate` (`testbed.py:506-511`, `545`).

Behaviours of the models that have no run of their own.  With one call at a
time:

- ALREADY_EXISTS deallocates the resources of the existing slivers instead of
  those just matched (`RefuseExisting`): the existing ones lose their sliver
  type, and a later `Provision` of them raises "Internal bug: Allocate did not
  set chosen_sliver_type" (`extendedresource.py:142`).
- A provisioning that failed cannot be tried again (`Fail`, `Prepare`): it has
  cleared the sliver type, `preprovision` raises, and the sliver stays in
  `geni_configuring`, which every further `Provision` skips.
- `geni_start` does nothing (`testbed.py:850-853`), though the advertisement says
  that it leads from `geni_notready` to `geni_ready` (`testbed.py:1072-1076`): a
  stopped sliver is of no use any more (`LifeImplemented`; the comment at
  `testbed.py:870` knows that "deprovision also prevents reprovisioning").  It
  has no run, as it has no action either: nothing is done that could lead anywhere.
- An installation that raises (`InstallRaises`) leaves a sliver `geni_ready_busy`
  for ever: no operation accepts it, only another `Provision` or `Delete` helps.
- A `Provision` without a user's key is refused, but has changed the allocation
  state and the expiration of the slivers (`ProvisionWithoutKeys`).
- After a stop in the middle of `copyfile` the next start has no slivers,
  although the temporary file is whole (`AWholeCopy`, `StartAnew`).  Its own dump
  then truncates the temporary file while the other is still torn: this is the
  exception in `AWholeCopy`, after which nothing can be recovered, not by hand
  either, and if the AM stops just then both files are torn.  If the file ends
  after `proxy_dockermaster` and a proxy is configured, the AM does not start at
  all, and the temporary file stays.
- A sliver that is restored as `geni_configuring` has no thread; nothing but its
  deletion takes it out of that state (`Restore`).
- A failed build of a Docker Hub image keeps its lock (`BuildSshImage`):
  threads that want the image in that slice wait for ever.
- A Docker Hub image whose name has a tag is fetched again each time (`Listed`).
- `terms_conditions` keeps an acceptance for 365 days where its README says 356;
  `do_GET` sends the status 200 before it finds that the client is forbidden.
- `custom_request_handler_class` is set only if no state was restored
  (`testbed.py:237-243`): after a restart with a state file, the terms are
  required but their site is not served.  This is not in a model.

With calls that interleave:

- The thread of a deleted sliver goes on to reserve a port and to run a container
  that is back in its pool (`provision` with `OverlappingOperations = TRUE`
  violates `DeletedLeavesNothing`).
- Two threads find no lock in `building` and make one each (`Look`, `Make`):
  both build the image at a time, which "Don't run multiple build at the same
  time" (`gcf_to_docker.py:117`) was to exclude.  `Raced` names the case.
- Two slices build one image from Docker Hub at a time, as their keys differ.
- The AM stops after a dump that read `_agg` after, and `_slices` before, a
  container was given back, or the other way round: it is restored as free and
  as held (`PickleAgg`, `PickleSlices`), or as neither.
- A request for the terms fails because another thread has replaced the
  connection; an acceptance may have been stored although its request failed.

- `thread_delete` finds a slice empty, deletes its images, and forgets it with
  the slivers that `Allocate` has put into it meanwhile (`CheckEmpty`,
  `ForgetSlice`; `Forget` in `ContainerLease` allows it).
- Two overlapping deletions of one sliver put its container into the pool twice
  (`ContainerExclusive` with `OverlappingDeletes = TRUE`).
- A container whose command has ended does not listen, so that another one may
  get its port; the deprovision of the first then unlocks it (`ReleasePort`), while
  the other is still being set up.
- Provisioning a ready sliver again removes its container and counts on its
  port, then neither locked nor listened to, to stay free until the new one
  runs (`Build`, `Run`); another container may reserve it.
- With `OverlappingOperations = TRUE`, of two provisionings of a sliver one may
  fail and remove the container that the other declares ready
  (`ReadyHasContainer`), and a deletion between `reserveNextPort` and
  `startNew` forgets a port that stays locked (`NoPortLeak`).

## 7. Assumptions about what is outside the repository

- `geni-tools` is an empty submodule.  From how it is called:
  `Slice.delete_sliver` resets the sliver's states, deprovisions and resets its
  resource and removes it from the list; `slivers()` returns a copy;
  `add_resource` makes a Sliver and appends it.  The bookkeeping of
  `_agg.allocate` and `_agg.deallocate` is never read by the plugin.
- Assignments, `append`, `remove`, `pop` and `del` of Python's objects are
  atomic (one bytecode under the interpreter lock).
- A `Delete` whose list of slivers is empty only raises in its own thread; it
  has no action.
- `docker run` succeeds only if name and port are free, and may fail for other
  reasons; `docker rm -f` removes; a container that listens does not stop by
  itself; the host's own SSH server listens on port 22 (so `isContainerUp(22)`
  is true, which `Listening(NoPort)` says).
- SQLite: a transaction commits as a whole or not at all, one writer at a time,
  and may fail at any statement; a connection is refused to a thread that did
  not open it.  `sqlite3.connect` creates or opens the file.
- docker builds an image of a name or fails; `docker run` reports "Unable to find
  image" only if there is no image of that name; `docker rmi` removes one.
- pickle writes one part after the other, each as it was at one moment, or raises
  `RuntimeError` if a dictionary that it walks has changed its size; a file that
  is being written loads up to some part.  No I/O error happens: any exception
  but `RuntimeError` would keep `DUMP_LOCK`.
- `CallsRaise = FALSE`: a call that has changed something reaches its
  `dumpState`.  Calls for one sliver do not overlap in `StateStore`, except for
  a deletion and the thread that provisions it.
- The order of the pool, of the nodes and of the slivers is abstracted: any
  container that the code could take is taken.  The order is irrelevant for all
  properties here.

## 8. What is not modelled

- In `Allocate`: the checks of credentials and documents before the lock, as
  only their refusal matters.
- The static pages of the terms' site and its other answers (301, 404, 405), the
  creation of its two singletons; the contents of Dockerfiles and zip files;
  `public_url` and the two settings of the terms in the state file.
- Deletions that overlap on one sliver are in `SliverAllocation` only; in
  `Provisioning` a sliver is deleted once, while its other threads go on.
- Users, keys and commands inside a container, RSpec documents, the remote
  daemon, `Renew` and `Shutdown` (in the base classes), installation scripts.
- IPv6 addresses, names and formats of ports; only equality matters.

## 9. The plan

Done, in order of importance: `SliverAllocation` with its abstract
specification, its runs and proofs; `Provisioning` with its runs and proofs;
`StateStore`, `ImageBuild` and `TermsConditions` with theirs; four abstract
specifications and the proofs that they are implemented: `ContainerLease`,
`SliverLife`, `DurableStore` (twice) and `AcceptanceRegister`.

What could come next:

1. Which of the theorems survive `OverlappingDeletes` and
   `OverlappingOperations` in a weaker form: for `Provisioning`, what is true of a
   container since the last moment at which one thread at most worked on it.
2. `ImageBuild` against an abstract lock per image, as long as no key is `Raced`.
3. `MatchNodes`: the choice of a DockerMaster and a container by `Allocate` and
   `matchResource` (component_id, exclusive, sliver type) as operators, against
   a reference definition over all small pools.
4. Users and keys: `user_keys_dict`, which `geni_update_users` extends in place
   for a proxy.
5. A composition of `SliverAllocation` and `Provisioning` at `deprovision`, if
   its state space allows.
