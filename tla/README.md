# Verification of the mainline generic device

TLA+ models of the boot services in `src/services`, TLC runs that check them on
small instances, and TLAPS proofs of what matters most for every instance. The
code models are translated from is named, definition by definition, in the `map`
of `PROJECT.json`.

1. [The system](#1-the-system)
2. [Hard behaviours](#2-hard-behaviours)
3. [The modules](#3-the-modules)
4. [The runs](#4-the-runs)
5. [Fairness](#5-fairness)
6. [What is proved](#6-what-is-proved)
7. [Disagreements found](#7-disagreements-found)
8. [What is not modelled](#8-what-is-not-modelled)
9. [The plan](#9-the-plan)

## 1. The system

The repository makes Android run on any PC-like machine. Its own logic is in the
first stage of init, `generic_init`, and in a few services of later stages; the
rest is configuration, overlays and build files.

| Component | State it keeps | Operations | Correct if |
|---|---|---|---|
| first stage init (`first_stage_init.cpp`) | where the boot is | `FirstStageMain`: ueventd, mounts, ueventd again, second stage | the second stage gets the whole system, or the boot aborts |
| ueventd (`ueventd.cpp`) | handlers, listener | `ueventd_main`, `main_loop`, `parallel_main_loop` | every device is handled; it ends when the boot can go on |
| uevent listener (`uevent_listener.cpp`) | a netlink socket | `RegenerateUevents`, `Poll` | no uevent is lost for good |
| cold boot (`coldboot.cpp`, runners) | `uevent_queue_` | `Run`; runner without threads, with a thread pool, with subprocesses | every regenerated uevent reaches every handler |
| uevent dependency graph (`uevent_dependency_graph.cpp`) | `events_`, `event_paths_`, `dependencies_`, `dependency_free_events_`, a lock and a condition variable | `Add`, `WaitDependencyFreeEvent`, `MarkEventCompleted` | related uevents are handled in order, unrelated ones in parallel, none is lost |
| thread pool (`thread_pool.cpp`) | `tasks_`, `state_`, `busy_threads_`, a lock and a condition variable | `Enqueue`, `Wait`, `RunWorker` | `Wait` returns when all is done and not before |
| modalias handler (`modalias_handler.cpp`) | libmodprobe's dependency graph | `EnqueueUevent`, `EnqueueModule` | a module is loaded once, after what it depends on |
| mount handler (`mount_handler.cpp`) | the devices found and what is on them; the maps of partitions | `OnBlockDeviceAdd`, `CanQuitUeventd`, `OnPostBlockDevices` | the partitions the boot parameters ask for are found and mounted |
| mount helpers (`mount_helpers.cpp`, `switch_root.cpp`) | the mount table | `MountPartitions`, `TrySwitchSystemAsRoot` | no partition of the system is missing when it is handed on |
| device handler (`devices.cpp`) | `/dev`, `tracked_uevents_`, `bound_drivers_` | `HandleUevent` | nodes and links are those of the devices there are |
| firmware handler (`firmware_handler.cpp`) | directories, handlers, the children it forked | `HandleUevent`, `EnqueueUevent` | each request of the kernel gets an answer: the image that `ueventd.rc` names, if there is one |
| parsers (`parser.cpp`, `import_parser.cpp`, `ueventd_parser.cpp`) | the open section, the imports put off, the configuration | `ParseConfig` | what the files say is what the handlers get |
| hardware detection (`hardware_detect.cpp`) | the selections `gHwEgl`, ... | `main` | one card, one render, HALs that fit together |
| overlay remounter (`overlay_remounter.cpp`) | the stack of overlay mounts | `main` | overlays are mounted again in their order |
| modprobe, display density, health HAL, libinit, console, utilities | none worth a model | | |

Interactions. The kernel sends uevents to the listener. `ueventd_main` has all
devices announced again, collects them in the cold boot's queue, has a runner
pass each to every handler, and then goes on with what the socket brings, in a
loop of one thread or of many. The device handler makes the node of a block
device and calls the mount handler, which mounts the device to see what is on it.
Both loops and `ueventd_main` ask the mount handler, by `CanQuitUeventd`, whether
the first run may end. `FirstStageMain` then calls `OnPostBlockDevices`, which
builds a virtual fstab and has the mount helpers mount it; then `ueventd_main`
runs a second time, with a new listener and new handlers (the mount handler's state
is static and stays), to load the drivers of the vendor partition. Before each run
`ParseConfig` reads `ueventd.rc` and what it imports; the rules, directories and handlers in
it are moved into the handlers that the run constructs. Hardware
detection runs later, alone, on the device nodes of that time.

## 2. Hard behaviours

`PROJECT.json` lists them as hazards, each at its line. In short:

* *Threads and notifications.* The graph and the pool send notifications after the
  unlock, one for several released events; tasks enqueue tasks while the owner
  waits; a pool must stop at the last of them and at no other.
* *Order.* Uevents of related devices must not overtake one another although each
  follows just one predecessor; modules wait for all of their dependencies.
* *What arrives when.* Devices come up before, behind and during the walk over
  `/sys/devices`, while the socket is closed, and while a uevent is read and
  dropped; they go away and come back before their uevents are handled, and what the
  handler reads from `/sys` or the device mapper is newer than the uevent.
* *State that outlives its use.* The mount handler's state serves both runs of
  ueventd; nodes and links outlive the handler that made them.
* *A thread that waits for itself.* The thread of ueventd loads a module whose driver asks
  for firmware while it is initialised; the announcement waits for the same thread.
* *Failures half way.* `fork` fails and the parent serves a request itself, mounts fail one by one, `fs::rename` throws between two
  devices, a module fails that others wait for, a transfer of an image fails.
* *Ending.* Each run of ueventd has to end for the boot to go on.

## 3. The modules

| Module | Models | Composes |
|---|---|---|
| `UeventOrder` | what the comments promise of parallel handling: an abstract specification without graph, queue or threads | |
| `UeventGraph` | the dependency graph with `parallel_main_loop` | implements `UeventOrder` |
| `ThreadPool` | the thread pool | |
| `ColdbootModules` | the cold boot runner on the thread pool (not constructed by `ColdBoot::Run` at this commit) with the modalias handler | extends `ThreadPool`; is a use of it (proved) |
| `MountHandler` | the mount handler: scan, maps, `CanQuitUeventd`, virtual fstab | |
| `FirstStage` | first stage init, ueventd, listener, cold boot, mount helpers | extends `MountHandler` |
| `DevicePermissions` | the rules for the permissions of nodes | |
| `DeviceHandler` | the device handler with the kernel's devices, over both runs | extends `DevicePermissions` |
| `UeventdParser` | `ParseConfig`: the parser with imports, sections and single lines | extends `DevicePermissions` |
| `FirmwareHandler` | the firmware handler with its children, the loading of modules in the same thread, and the kernel that makes the requests | |
| `UeventdFirmware` | ueventd from its files to the image in the device | extends `UeventdParser` and `FirmwareHandler` |
| `HardwareDetect` | the hardware detection service | |
| `DataLemmas` | facts about sequences and maxima that the proofs share | |
| `*Proofs` | theorems | each extends its module |
| `MC*` | the instances for TLC | each extends its module |

### UeventGraph

A section under `graph_lock_` is one action; the `notify_one` that follows the
unlock is another (`ListenerNotify`, `WorkerNotify`), and so is going to sleep, so
that a notification may find nobody, or somebody who has just woken by itself
(`SpuriousWakeup`). `events` is `events_` together with `event_paths_`, `queue` is
`dependency_free_events_` and `dependents` is `dependencies_`. Paths are values
with two relations given as constants, because the code uses both: the ancestors
that its `Dirname` walk visits, and the textual prefixes that its scan from
`upper_bound` compares. They differ for `sda` and `sdaa`. The bound `MaxSeqnum` is the
number of uevents.

`SingleFileSpec` restricts the arrivals, not the program: everything that a new uevent
conflicts with conflicts also with the latest of it. Following the latest
conflict alone is then enough; without the restriction it is not (section 7).

### ThreadPool and ColdbootModules

The priority queue is a set from which `Take` takes a most urgent member; equal ones
come in any order. `fresh` holds the tasks nobody has enqueued, so that a task is
enqueued once. A `CHECK` is a guard: where it would fail the thread gets no further and TLC
reports the deadlock. In `ColdbootModules` the tasks are kernel modules. The graph of
libmodprobe is external: each of its calls is atomic, as its lock makes it, and a
module is ready when all of `modules.dep` for it is loaded. What is the repository's own is
who calls it when: the owner for a uevent, a worker for the module it has loaded, each
taking the ready modules and enqueuing them one by one outside that lock.

At this commit `ColdBoot::Run` does not construct `ColdbootRunnerThreadPool`: it takes
`ColdbootRunnerNoParallel`, and the choice of the others is commented out
(`coldboot.cpp:43-54`). The runner, the pool and `EnqueueUevent` of the handlers are
compiled in and kept up, so the two modules say what holds as soon as it is chosen again; what
the boot does now is `FirstStage`.

### MountHandler and FirstStage

A disk is a record of what the scan can find on it: partition name, file system, a
`build.prop`, directories, images. Boot parameters are a record (`config`). `OnBlockDeviceAdd`,
`CanQuitUeventd` and `Fstab` follow the code branch by branch; file names and mount
options are left out. `FirstStage` has one action for each place where ueventd reads the
socket, so that `Appear`, the kernel, may come in between. Queues of uevents are sets,
because devices come up in any order. `success` at `mount_handler.cpp:462` is
uninitialised if no volume of a device can be mounted as apfs, so `ScanAborts` has
both outcomes.

### DeviceHandler

A device is its number or `None`; tables of the device mapper have a name in
addition, drivers are bound or not. The kernel's actions put uevents in a queue;
`HandleUevent` takes one and does what the code does with the *present* state of `/sys` and
the device mapper. `nodes` and `links` are the parts of `/dev` it writes; `mknod` and
`symlink` leave what exists. Links lead to nodes by name, so a link to a node that is
gone dangles, as in the file system. Each driver's node is in a directory of
its own. `missed` records, for the properties only, the devices that went away while nobody
listened, or whose removal was in a socket when it was closed. `MaxUevents` bounds the
number of things the kernel does.

Two things are read when a uevent is handled and may have changed since it was sent. A
table of the device mapper is announced with its name or before it has one
(`devices.cpp:551`: kernels up to 5.10); then `NameTable` sends the change that brings it, and
`MakesLinks` is the arm of `HandleDevice` for it. Permissions are set by an add only, so
a rule for the name of such a table (`late`) is applied or not, as the handler was late or not.
And the directory of a disk's links is named after a device above the disk, which
`GetBlockDeviceInfo` looks up in `/sys`: if those above have gone with the disk it finds
another one, or none (`PathsFound`, `OtherPaths`), and other links are made or removed than
the disk's own. `astray` records, for the properties only, the disks to which this happened.

`modes` holds the permissions of each node: `MakeDevice`
sets them whether or not the node was there, by rules that may differ between the runs
(`DevicePermissions`; a rule is the set of paths that its pattern matches, and the
permissions).

### UeventdParser

A line is its first word and what the rest of it says, with a flag that tells whether the
number of words, users, groups and modes on it are right: that is all the parser acts on. The
nested calls `ParseData` - `EndFile` - `ParseConfig` are a list `todo` of paths: what a file
imports is put in front of it when the file ends. `section` is `section_parser`, `subsystem`
and `imports` are the members of the section parsers, `config` is the result. A file that
cannot be read, or that others may write to, is `NoFile`. Two subtleties are kept because
they are easily lost: a line is given to the first parser whose word it *starts with*, and a
second external handler is looked for by the text of its pattern, although a star at the end of
the first one's was taken off. An import cycle would be followed for ever, as in the code:
`ImportsAcyclic` excludes it. The properties say what the files mean without the
parser: `AllLines` is the text of all files in one, from which each list, setting and section
is read off.

### FirmwareHandler and UeventdFirmware

A request is a device in sysfs with the files `loading` and `data`. The kernel announces it and
waits; `request` and `buffer` are its side. Each child that ueventd forks is a process with a
`step`, and so is ueventd itself when `fork` fails; every write to the files of the request is
a step of its own, because a request that was announced twice (once when it was made, once by
the walk of the cold boot) has two children. `LoadModule` is the modalias handler in the same
thread: while the kernel initialises a module that asks for an image (`Probes`), ueventd
does nothing else, and only the kernel's timeout lets it go on. An external handler may fail, or
answer with a name that is refused. `hampered` records, for the properties only, the requests
for which `sendfile` failed or was cut short; `announced` how often each was announced.

A run of ueventd ends: `Quit` is `main_loop` when `CanQuitUeventd` holds after a uevent or when
`Poll` times out, and the exit of `ueventd_main` behind the cold boot. What the mount
handler has found is not part of this module, so that `Quit` may come at any time between
two uevents once the cold boot has handled what its walk collected (`coldboot`). Children
go on; what is in the socket is lost with it. `RequestsEnd` is about every
request of which an announcement was read: one of which none was read when ueventd quit is
left to the timeout, or to the next run, whose walk announces it again.
`UeventdFirmware` gives the firmware handler what the parser made of the files.

### HardwareDetect

A GPU is a record of what the handlers ask its driver for. `sel` holds the global
selections under the names of the source, without the `g`. Its actions are the steps of
`DetectGraphics`; every device that is hidden is a step of its own, since the rename may
throw. Nodes are in the order of their names, as the code sorts them.

`DrmDevice dev;` (`hardware_detect.cpp:847`) leaves `is_sysfb` uninitialised, and only the
names of firmware framebuffers set it, to true. So `sysfb`, the cards for which it reads as true,
is any set of cards that has those (`SysfbReads`): a real GPU may be passed over as if it
were a firmware framebuffer. `BestCard` is about what the member reads; it says nothing of such a
card in the place of a better one.

All twelve overrides of `ProcessBootOverrides` may be set, to any value. An override of one of
`gralloc_hal_service`, `hwc_hal_service` and `hw_gralloc` alone may leave HALs that do not
work together, and the user wants it so; `HalsMatch` is therefore about the HALs that are *not*
overridden: they are all of one set that works together (`HalSets`), and of a HAL that is not
overridden only the selected service is left, so that no override reaches beyond its own HAL.
Values that the maps do not have make `at` throw (`MapThrows`).

## 4. The runs

| Run | Instance | Distinct states | Shows |
|---|---|---|---|
| `graph` | 4 paths of two disks, 3 workers, 4 uevents | 34,854 | nothing is lost, duplicated or filed for ever, no wakeup is lost, each uevent is handled |
| `graph_order` | 2 workers, 4 uevents in single file | 7,090 | related uevents are handled in order; implements `UeventOrder` |
| `coldboot_modules` | 3 workers, 4 modules, with up to three dependencies | 43,777 | a stopped pool is drained, a stopping one still has work, no worker sleeps beside a task; modules after their dependencies, once, none forgotten; the cold boot ends |
| `boot` | 5 disks coming up at any time, 9 parameter sets | 413,112 | no device is missed, no null device, the whole system is mounted, both runs quit, with a cache to wait for |
| `display` | 3 places for 12 kinds of GPUs, 12 parameter sets, any reading of `is_sysfb` | 1,591,128 | best or preferred devices, all others hidden first, HALs that are not overridden fit, software rendering as fallback |
| `devices` | a zoned disk below a hub, 2 tables with 2 names that come with the table or later, a driver's device; 4 things happen; 2 sets of rules | 3,213,814 | nodes are those of the devices and have the permissions of the present rules, links lead to nodes, tables have their names |
| `ueventd_rc` | 2,048 sets of up to 5 files and 3 machines with 2 requests, 2 children; ueventd quits at any time | 150,323 | the configuration is what the files say, each announcement is served once, with the first image of the first matching handler's name; requests that were read end and ueventd gets back to its uevents |
| `graph_same_device`, `boot_sources`, `boot_only_android_dir`, `boot_second_run`, `devices_unbind` | | | violations, section 7 |

Why the bounds are enough. *graph*: an error in the order needs three uevents (two
conflicting ones that do not conflict with one another, and the one behind them);
four add one that is released together with another, so that one notification has to do
for two; three workers allow two to sleep when it comes. *coldboot_modules*:
two dependencies of one module that end at the same time on two workers while a third is
asleep, a task enqueued by a task with another running beside it, and a module that is asked
for both by a uevent and by another module. All of the tasks have the one priority of the
modalias handler; that the pool takes a most urgent task first matters to no property, and
the proofs hold for any priorities. *boot*: the entries of the shipped boot menus
(`configs/bootmgr`), defaults, two mixed ones and a recovery; the disks hold each thing they
ask for once, one partition as a directory of another, and a system that wants a cache
(`need_mount_cache`), whose partition is on a disk that nothing can be mounted from. That a cache is
asked for by the second run only is `boot_second_run`. *display*: three GPUs suffice for every pair of strategies to compete and
for a third device to be hidden; the kinds are those among which the handlers
distinguish; the parameters override the allocator, the composer and gralloc, alone and
together, with values that fit, that do not and that are none, and what touches the software
rendering. *devices*: four events let a device go, come back with another number and
go again, or one table take over another's name while both uevents wait, or come up without a name, get
one and lose it to another; the disk's links may be looked for below the system on chip, or
nowhere; tables and names
are interchangeable (`SYMMETRY`; the run has invariants only). *ueventd_rc*: three lines of
`ueventd.rc` out of eight, and four files that it may import, bring every kind of line before
and after every other, imports of imports, and the same file twice; of the machines one has
its handlers spread over two files, one has a pattern that covers a later one, one a handler whose
answer is refused and a line that is. Two requests, one of which may be announced twice, need three
children: with two, ueventd also serves some itself.

Deadlock is checked in the runs of `UeventGraph` and
`ColdbootModules`: there some thread can always go on, or (`Finished`) all are done. It is
not checked for `boot`, `display`, `devices` and `ueventd_rc`: the boot ends in the second stage
or an abort, the service ends, and the kernel need not do anything.

## 5. Fairness

* `UeventGraph`: weak fairness of the listener's notification and of each worker: a
  thread that can run runs, and handlers return. None for arrivals or spurious wakeups.
* `ThreadPool`, `ColdbootModules`: weak fairness of `Wait` and of each worker. The
  owner need not call `Enqueue` or `Wait` in `ThreadPool`; it does in
  `ColdbootModules`, where `StartInBackground` is plain code. A task of the pool
  ends after finitely many `Enqueue`s, since `fresh` is finite.
* `FirstStage`: weak fairness of the single process. `FirstRunQuits` assumes that
  all devices are up, not that they ever will be; `SecondRunQuits` needs nothing
  more, as `Poll` has a timeout.
* `UeventdFirmware`: weak fairness of the parser, of the thread that handles uevents and of each
  process that serves a request. The kernel need not make requests. Its timeout
  is taken to expire for the requests that ueventd's own thread waits for (`Probes`)
  and for no others. So `RequestsEnd` shows that of the others all those are *answered* of which
  ueventd has read an announcement before it quit. Those that were still in the socket then, or came
  later, are not answered by this run. Nothing is assumed of `Quit`: ueventd may serve for ever.
* `DeviceHandler`, `HardwareDetect`: safety only.

## 6. What is proved

All theorems hold for any values of the constants under the assumptions that the
modules name (`GraphAssumption`, `WorkersAssumption`, `PoolAssumption`,
`PoolHasWorkers`, `DepsAssumption`, `DiskAssumption`, `DeviceAssumption`,
`GpuAssumption`, `FirmwareAssumption`, `FilesAssumption`, `ImportsAcyclic`,
`HandlersAssumption`, `PatternsAssumption`). Most of
them say which sets the constants are from and that workers, tasks, children and
directories are finite. Those that say something about the program or its input are

* `WorkersAssumption` and `PoolHasWorkers`: there is at least one thread;
* `ImportsAcyclic`: no file imports itself, through whatever others, and every entry of a
  directory is a file that can be read (section 8);
* `FilesAssumption`: only files have lines, none of which is the mark that stands for the end
  of a file in the text of all files, and the names in a directory can be sorted;
* `HandlersAssumption`: the external handlers that the files name are there;
* `PatternsAssumption`: what a pattern for handlers matches is determined by its text, up to
  the star at its end: a pattern without one there matches nothing that another with the same stem
  does not.

The proofs, module by module:

* `UeventGraphProofs`. `TypeCorrect`; `EventsInOnePlace` and `PrerequisitesOutstanding`,
  which are inductive only together (`Placement`: what `MarkEventCompleted` releases
  was filed nowhere else); `WakeupsKept`; `OrderKept` by `OrderInv`, whose
  part `Covered` says that an event in the queue has no conflict left, and one that is
  filed has none but its predecessor and the conflicts of that; `Refinement`: each step
  of the graph is a step of `UeventOrder` or leaves its variables alone, `Take` being
  `Start` because of `Covered`.
* `ThreadPoolProofs`. `PoolInv`: `busy_threads_` is the number of workers with a task
  and the owner enqueues only while the pool runs; so the decrement that finds the
  pool ready to stop is the last. From it `PoolTypeCorrect`, `PoolDrained`, `PoolStops`.
  `PoolNotIdle` counts: while anybody sleeps, the tasks in the queue are at most the workers
  that are awake and will look at it, and the threads that are about to notify. It is
  inductive as soon as the queue is finite (`IdleInv`), because a worker that goes to
  sleep has found the queue empty.
* `ColdbootModulesProofs`. `ColdbootUsesPool`: every behaviour of `ModulesSpec` is one of
  the pool's `Spec`; `ColdbootDrained` follows from `PoolDrained` without a new invariant.
  `ModulesInv` says where a module is: `Placed`, that one which may be loaded is ready,
  with one thread, queued or running, and only one of these; `NoneForgotten`, that it is one
  of these, and that the list of the ready ones is empty unless a thread is about to pop
  it. `Placed` gives `ColdbootInOrder` and `ColdbootHandsOutOnce`. For `ColdbootTriesAll`,
  a module that is neither loaded nor held back by a failure when `Wait` has returned would
  have one it depends on with the fewest dependencies, and that one would be ready: the
  relation is well-founded because the dependencies are transitive, finite and without a
  cycle. `ColdbootNeverRefused` says that the guard `fresh` of the pool's model, which
  bounds the tasks, keeps no module back.
* `FirstStageProofs`. `StageInv` adds to the types and `NoDeviceMissed` that the walk is
  fresh in each run and that the mounts are reached only when `CanQuitUeventd`
  held; hence `StageTypeCorrect`, `DevicesNotMissed`, `DevicesFound`: for any disks and
  parameters, no null device is dereferenced. `SystemIsComplete` assumes `OneSystem`: a device
  that is taken for a system partition is that partition by its contents, and no other
  device has it too. The instance of the run `boot` is one of these; without the
  assumption the property is false, since the map keeps the last device found and an
  entry is made only for a device whose contents agree. `CompleteInv`: the map leads each partition to a scanned device that
  is it or has it as a directory (`MapRight`), and once the fstab is built, every partition
  comes from an entry without `no_fail` that is mounted or still to be mounted (`AllGiven`),
  so that what the second run does to the map changes nothing any more.
* `HardwareDetectProofs`. `DisplayInv`: the selected devices are those of the selection
  operators on what is there, and every handler of a card keeps the selections for the
  CPU; hence the four properties of the selection, for any number of GPUs and any reading of
  the uninitialised `is_sysfb`. `HalsBelongTogether` from `HalsKept`: until the overrides are applied
  the three HALs are of one of the `HalSets`, which the handlers of cards choose and no handler of a
  render touches; an override then replaces its own HAL, whatever its value, and the services
  of one HAL are stopped by the selection of that HAL alone. No override is excluded.
* `DeviceHandlerProofs`. `Right` relates, for one device, the queue, the present number
  and the node: behind the last removal only the present number is announced; if
  there is a device behind a removal it is announced; without a removal the node is
  right or not made. The lemmas say how it survives an event at the end of a queue
  and one taken from its head. `NodesMatch` follows for an empty queue.
  `LinksInv` does the same for permissions and links. `PermissionsRight`: a node has the
  permissions of the present rules unless an add of its device is to come; for a table
  announced before it had its name (`late`), with or without the rules for its link. `LinksCurrent`: a link
  leads to a device that is there under this name, or its removal is to come; `LinksOwned`,
  that the links of a disk are its own. Both leave out the disks that are `astray`: theirs may
  dangle, as in the code. `TablesCurrent` (`MapperCurrent`): the link of a table's name leads
  to it, or is free and the table is still to be told of, by an add or, if the name came
  late, by a change (`Told`), or leads to a table whose removal stands in the queue before
  that (`Follows`). `NamesTaken` says that only a late table has no name. Hence
  `PermissionsLast`, `LinksLead` and `TablesAreLinked`.
* `UeventdFirmwareProofs`. `FirmwareInv` counts, for each request, the processes that serve it
  and its announcements in the queue: together at most those made (`ServedOnceEach`). `AnsweredInv`
  adds what each process has found out so far (`ProcessRight`): the name is one that may be
  asked for, the directory is the first that has it, and before the commit the whole image is
  in the buffer, unless somebody else serves the same request, which needs a second
  announcement. Hence `AnswersRight`. `RcTypesOK` needs `ParserInv`, in particular that the
  open section is none that the configuration has, and that a directory's sorted list has each
  of its files once (`EntriesInOrder`, from `CountedOff`).

  The rest is about what the parser makes of the files, whatever they hold. `LinesOfEquation`:
  the recursive function `LinesOf` is what its equation says. Two functions that satisfy the
  equation for the paths up to some rank agree there (`RightOnes`), there is one for each rank
  (`RightExists`), and the union of these satisfies it everywhere. `ReadInvariant` is the
  inductive invariant: there is a sequence `text` of lines read so far such that `text` and
  `StillToRead` (the rest of the open file, what it imports, what is put off) make up
  `AllLines`, and the configuration, the open section and its options are what `text` says. The
  last is proved one line at a time, and separately for the lists (`ListsSay`), the settings
  (`SettingsSay`), the external handlers (`HandlersSay`) and the sections (`SectionsSay`). The
  hard parts are a handler line that is refused because an earlier one has its devpath, which
  changes nothing since whatever it matches is matched by that one too (`PatternsAssumption`),
  and a section, whose options may still grow until a line that ends it is read (`Closed`). When
  nothing is left to read `text` is all lines: `ParsedAsWritten`, and with `AnswersRight`
  `FilesDecide`: the handler and the image of a request are those that the *files* name, without
  any hypothesis about the parser.

  `ImportsOverride` follows from `ParsedAsWritten`'s invariant and two facts about lines. The
  last rule that matches a node is that of the last line with one (`LastRuleIsLastLine`). And
  wherever and however often a file is imported, behind every line with a rule that only this
  file has comes one that an import of it has (`OverriddenBelow`, by induction along
  `ImportDepth`). "Only" is about rules, not lines: a third file with the same rule, parsed
  later, would give it back its effect. The property says so by `Others`.
* `DataLemmas` has what several proofs need: maxima and minima of finite sets, how often
  something is in a sequence, that ranks count a finite set off, sequences that are put together
  from others (`Gathered`, the form of `FlattenSeq` of a mapped sequence), and induction over
  numbers and sequences for a *set* that is closed under the step (`SetInduction`,
  `SeqInduction`).

Only model-checked: liveness (`AllHandled`, `ColdbootEnds`, `FirstRunQuits`, `SecondRunQuits`,
`RequestsEnd`, `UeventdReturns`), which the prover cannot do under fairness. Every safety
invariant and action property of the passing runs is stated by a theorem.

The library's induction theorems take a predicate, which the installed provers cannot
instantiate. `SetInduction` and `SeqInduction` take a set instead; they rest on `SmallestExists`
and are what lets the proofs say something of recursive functions and of `FlattenSeq`.

The proofs changed the model where it could not be right for every instance. The arms of
`ParseOption` were not exclusive: for an option with a wrong number of words it was open whether
the option is refused, as in the code, or taken. And `ImportOverrides` did not allow for a third file with the
same rule.

## 7. Disagreements found

* `graph_same_device` - only the latest conflict is followed, and a textual prefix
  counts as one: uevents of `sda`, `sdaa`, `sda` let the third run beside the first.
  The parallel loop is off in the shipped configuration.
* `boot_sources` - the android dir is unmounted before the bind mounts of its
  directories are made; the live entry of the boot menu loses its firmware.
* `boot_only_android_dir` - `only_android_dir` looks outside the android dir on a device
  that has none.
* `boot_second_run` - a disk that looks like an older system makes the second run wait for a
  cache partition for ever.
* `devices_unbind` - an unbind makes a driver's node again instead of removing it. No
  shipped file declares a driver.

Met without a run of their own: `directory_iterator` throws when there is no `/dev/dri`, so
that a machine without any DRM device gets no framebuffer display
(`hardware_detect.cpp:830`; `docs/status.md:40` says it should always work; `SelectDevices` has
it as the code does). A preferred card without a render keeps another GPU's render,
and the handler of that render then undoes the CPU rendering that
`docs/status.md:56` says the framebuffer display always has. The link of a zoned disk is never
removed (`LinksLeadToNodes` excepts it), and if the devices above a disk have gone when its removal is
handled its links stay behind (excepted, too: `astray`). A rule for the name of a table is not
applied to a table that gets its name after its add (`PermissionsOfLastRules` has both).
`is_sysfb` is read uninitialised, so that any GPU may be passed over as a firmware framebuffer.
A request announced twice may be committed empty,
between the "1" and the copy of the second child, and a transfer that `sendfile` cuts short is
committed as if it were whole (`CommittedImage` excepts both; nothing in the repository
promises otherwise).

## 8. What is not modelled

* The race of `OnBlockDeviceAdd` in the parallel loop: the static state is written without
  a lock, so there is no outcome to check. `FirstStage` has the single-threaded loop.
* The size of the socket's buffer: a uevent that overflows it is lost by design.
* Permissions of sysfs attributes, SELinux labels, path strings, logging, options of mounts.
* The set up of `/dev`, `/proc` and the console; the reboot on a fatal signal; the serial
  loading of modules before ueventd, which is libmodprobe's.
* The tokenizer of the parser, which is about characters; `ParseConfigFileInsecure`, which nobody
  calls; `EnqueueUevent` of the firmware handler, which only a runner calls that
  `ColdBoot::Run` never constructs; `ColdbootRunnerSubprocess` for the same reason.
* What happens when a file of the configuration imports itself, and entries of an imported
  directory that cannot be read (`ImportsAcyclic`).
* Renames of tables of the device mapper: the handler makes a link of the new name and leaves the
  old one, which then keeps a later table of that name from its link: `TablesLinked` holds as
  long as nothing is renamed, and nothing in the repository renames a table.
* A partition that is both a device of its own and a directory of another system device: whether
  the device is mounted then depends on the order of the scans, and no document says which is
  meant. The instance of `boot` has none, and `OneSystem` excludes it for `SystemIsComplete`.
* The overlay remounter: a loop of system calls on the mount table (section 9).
* modprobe, health HAL, display density, libinit: no state that changes.
* Removal of devices in `FirstStage`: the mount handler ignores it (the TODO at
  `mount_handler.cpp:709`).

## 9. The plan

Done, in this order: uevent graph, thread pool, cold boot with modules, mount handler and
first stage, hardware detection, device handler, permissions, parser of the rc files, firmware
handler.

Proved: the safety invariants and action properties of all passing runs, and the refinement of
`UeventOrder`.

What would come next, by importance:

1. `OverlayRemounter`: the stack of mounts with retries; abstract specification: the same
   mounts in the same order.
2. Device handler and mount handler together, so that a node that is missing when a disk is
   scanned shows in the boot.
