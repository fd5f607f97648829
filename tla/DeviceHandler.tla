---------------------------- MODULE DeviceHandler ----------------------------
(***************************************************************************)
(* The device handler of ueventd: it makes and removes the device nodes    *)
(* and the links of block devices as the kernel's uevents tell, and makes  *)
(* nodes for the devices of a driver when it is bound.  The uevents are    *)
(* handled in the order in which the kernel sent them, but late: what a    *)
(* handler reads from the kernel may be newer than the event: the name of  *)
(* a device mapper table, or which device a disk is below.  ueventd runs   *)
(* twice with a new handler; nobody listens in between.                    *)
(***************************************************************************)
EXTENDS DevicePermissions

CONSTANTS
  Disks, Dms,      \* block devices: with a driver, and of the device mapper
  Children,        \* character devices, each the only one of its parent device
  DevNumbers,      \* the numbers that the kernel may give a device
  DmNames,         \* the names of device mapper tables
  PartitionName,   \* the partition name of a disk, or None
  LinkPath,        \* the directory of the links of a disk, named after the device above it
  OtherPaths,      \* what is found instead, or None, once devices above it have gone, too
  Zoned,           \* the disks with a zone model
  Rules,           \* the permission rules in the configuration of each run
  Perms, Default,  \* the permissions in them, and those of a node without a rule
  MaxUevents,      \* bound on what the kernel does
  None             \* no number, no name, no node

Devices == Disks \cup Dms \cup Children
Numbers == UNION {DevNumbers[d] : d \in Devices}

\* A node has the name of its device in /dev or /dev/block, or a name in the directory
\* of a driver.
DriverNode(c) == <<"driver", c>>
Nodes == Devices \cup {DriverNode(c) : c \in Children}

Mapper(name) == <<"mapper", name>>
ByName(path, name) == <<"by-name", path, name>>
OwnLink(path, d) == <<"own", path, d>>
ZonedLink == <<"zoned_device">>
MapperLinks == {Mapper(n) : n \in DmNames}
PathsOf(d) == ({LinkPath[d]} \cup OtherPaths[d]) \ {None}
Links == MapperLinks \cup {ZonedLink}
         \cup UNION {{OwnLink(path, d) : path \in PathsOf(d)} : d \in Disks}
         \cup UNION {{ByName(path, PartitionName[d]) : path \in PathsOf(d)} : d \in Disks}

ASSUME DeviceAssumption ==
  /\ Disks \cap Dms = {} /\ Disks \cap Children = {} /\ Dms \cap Children = {}
  /\ DevNumbers \in [Devices -> SUBSET Nat]
  /\ Zoned \subseteq Disks
  /\ MaxUevents \in Nat
  /\ Rules \in [1..2 -> Seq([paths : SUBSET (Nodes \cup Links), perm : Perms])]
  /\ Default \in Perms
  /\ None \notin Devices \cup DmNames \cup Numbers /\ \A d \in Disks : LinkPath[d] # None
  /\ \A c \in Children : DriverNode(c) \notin Devices

VARIABLES
  present,         \* the number of each device, None if it is not there
  dmName,          \* the name of the table of each device of the device mapper
  late,            \* those last announced before their table had its name
  bound,           \* the children whose parent is bound to its driver
  sent,            \* how much the kernel has done
  missed,          \* the devices that went away without ueventd having heard of it
  astray,          \* the disks with a uevent that was handled when those above had gone
  phase,           \* of ueventd: "off", "probe", "regenerate", "handle"
  run,             \* which run of ueventd
  walk,            \* the devices that RegenerateUevents has still to ask for
  queue,           \* the uevents that are not handled yet
  nodes,           \* the number of each device node, None if there is no node
  modes,           \* the permissions of each device node, None if there is no node
  links,           \* the device whose node each link leads to, None if there is no link
  trackedUevents,  \* tracked_uevents_: the numbers in those of each device
  boundDrivers     \* the keys of bound_drivers_
kernelVars == <<present, dmName, late, bound, sent>>
ueventdVars == <<phase, run, walk>>
handlerVars == <<nodes, modes, links, trackedUevents, boundDrivers>>
vars == <<kernelVars, missed, astray, ueventdVars, queue, handlerVars>>

Uevent(action, d, number) == [action |-> action, dev |-> d, number |-> number]
Uevents == [action : {"add", "change", "remove"}, dev : Devices, number : Numbers]
           \cup [action : {"bind", "unbind"}, dev : Children, number : {None}]

Init ==
  /\ present = [d \in Devices |-> None] /\ dmName = [d \in Dms |-> None]
  /\ late = {} /\ bound = {} /\ sent = 0 /\ missed = {} /\ astray = {}
  /\ phase = "off" /\ run = 0 /\ walk = {} /\ queue = <<>>
  /\ nodes = [n \in Nodes |-> None] /\ modes = nodes /\ links = [l \in Links |-> None]
  /\ trackedUevents = [d \in Devices |-> <<>>] /\ boundDrivers = {}

-----------------------------------------------------------------------------
(* The kernel *)

\* The kernel does one thing more and sends the event to the socket, if there is one.
Send(e) ==
  /\ sent < MaxUevents /\ sent' = sent + 1
  /\ queue' = IF phase = "off" THEN queue ELSE Append(queue, e)
  /\ missed' = IF phase = "off" /\ e.action = "remove" THEN missed \cup {e.dev} ELSE missed
  /\ UNCHANGED <<phase, run, astray, handlerVars>>

\* A device mapper table has a name that no other one has.
FreeNames == DmNames \ {dmName[m] : m \in Dms}

\* A device comes up, before or behind the walk.  A device mapper table has its name already,
\* or gets it later (devices.cpp:551).
AddDevice(d) ==
  /\ present[d] = None
  /\ \E n \in DevNumbers[d] : present' = [present EXCEPT ![d] = n] /\ Send(Uevent("add", d, n))
  /\ \/ d \in Dms /\ (\E name \in FreeNames : dmName' = [dmName EXCEPT ![d] = name]) /\ UNCHANGED late
     \/ UNCHANGED dmName /\ late' = late \cup (Dms \cap {d})
  /\ walk' \in {walk, IF phase = "regenerate" THEN walk \ {d} ELSE walk}
  /\ UNCHANGED bound

RemoveDevice(d) ==
  /\ present[d] # None
  /\ present' = [present EXCEPT ![d] = None]
  /\ dmName' = IF d \in Dms THEN [dmName EXCEPT ![d] = None] ELSE dmName
  /\ late' = late \ {d}
  /\ Send(Uevent("remove", d, present[d]))
  /\ UNCHANGED <<bound, walk>>

ChangeDevice(d) ==
  /\ d \in Disks \cup Dms /\ present[d] # None
  /\ Send(Uevent("change", d, present[d]))
  /\ UNCHANGED <<present, dmName, late, bound, walk>>

\* The table of a device is loaded: a change tells that it has its name.
NameTable(d) ==
  /\ d \in Dms /\ present[d] # None /\ dmName[d] = None
  /\ \E name \in FreeNames : dmName' = [dmName EXCEPT ![d] = name]
  /\ Send(Uevent("change", d, present[d]))
  /\ UNCHANGED <<present, late, bound, walk>>

\* A driver makes the devices of its own before it is bound, and removes them before it
\* is unbound.
BindDriver(c) ==
  /\ c \notin bound
  /\ bound' = bound \cup {c}
  /\ Send(Uevent("bind", c, None))
  /\ UNCHANGED <<present, dmName, late, walk>>

UnbindDriver(c) ==
  /\ c \in bound /\ present[c] = None
  /\ bound' = bound \ {c}
  /\ Send(Uevent("unbind", c, None))
  /\ UNCHANGED <<present, dmName, late, walk>>

Kernel ==
  \/ \E d \in Devices : AddDevice(d) \/ RemoveDevice(d) \/ ChangeDevice(d) \/ NameTable(d)
  \/ \E c \in Children : BindDriver(c) \/ UnbindDriver(c)

-----------------------------------------------------------------------------
(* ueventd_main *)

\* Each run has a new listener and a new handler; the nodes and links stay.
StartUeventd ==
  /\ phase = "off" /\ run < 2
  /\ phase' = "probe" /\ run' = run + 1 /\ walk' = {}
  /\ trackedUevents' = [d \in Devices |-> <<>>] /\ boundDrivers' = {}
  /\ UNCHANGED <<kernelVars, missed, astray, queue, nodes, modes, links>>

\* CheckUeventForBootPartUuid: there is no boot partition to look for, so that the first
\* uevent that is read ends the search.  It is the answer for a device that was asked
\* for, unless another one was in the socket before, and it is lost.
Probe ==
  /\ phase = "probe"
  /\ \E q \in {queue} \cup {Append(queue, Uevent("add", d, present[d])) :
                              d \in {x \in Devices : present[x] # None}} :
       IF q = <<>> THEN UNCHANGED <<queue, missed>>
       ELSE /\ queue' = Tail(q)
            /\ missed' = IF Head(q).action = "remove" THEN missed \cup {Head(q).dev} ELSE missed
  /\ phase' = "regenerate" /\ walk' = Devices
  /\ UNCHANGED <<kernelVars, astray, run, handlerVars>>

\* RegenerateUevents has one more device announced again.
Regenerate(d) ==
  /\ phase = "regenerate" /\ d \in walk /\ present[d] # None
  /\ walk' = walk \ {d}
  /\ queue' = Append(queue, Uevent("add", d, present[d]))
  /\ late' = IF d \in Dms /\ dmName[d] # None THEN late \ {d} ELSE late
  /\ UNCHANGED <<present, dmName, bound, sent, missed, astray, phase, run, handlerVars>>

\* The walk over /sys/devices is over.
RegenerateDone ==
  /\ phase = "regenerate" /\ \A d \in walk : present[d] = None
  /\ phase' = "handle" /\ walk' = {}
  /\ UNCHANGED <<kernelVars, missed, astray, run, queue, handlerVars>>

\* The devices with a remove event in a queue.
RemovesIn(q) == {q[i].dev : i \in {j \in DOMAIN q : q[j].action = "remove"}}

\* The first run ends when the mount handler has what it needs; what is still in the
\* socket is lost.
QuitUeventd ==
  /\ phase = "handle" /\ run = 1
  /\ phase' = "off" /\ queue' = <<>>
  /\ missed' = missed \cup RemovesIn(queue)
  /\ UNCHANGED <<kernelVars, astray, run, walk, handlerVars>>

-----------------------------------------------------------------------------
(* DeviceHandler *)

\* Variant: uevents of block devices are tracked too.
TrackDeviceUeventOfAny(e) ==
  IF e.action = "add" /\ present[e.dev] # None
  THEN [trackedUevents EXCEPT ![e.dev] = Append(@, e.number)] ELSE trackedUevents

\* The device that the tracked one belongs to is read from /sys, if it is still there.
TrackDeviceUevent(e) ==
  IF e.action = "add" /\ e.dev \notin Disks \cup Dms /\ present[e.dev] # None
  THEN [trackedUevents EXCEPT ![e.dev] = Append(@, e.number)] ELSE trackedUevents

\* The directory that GetBlockDeviceInfo finds for the links of a disk: it reads which of the
\* devices above it in /sys are on a bus, and those may have gone after the disk.
PathsFound(d) ==
  IF d \notin Disks THEN {None}
  ELSE {LinkPath[d]} \cup IF present[d] = None THEN OtherPaths[d] ELSE {}

LinksAt(d, path) ==
  IF path = None THEN {}
  ELSE {OwnLink(path, d)} \cup {ByName(path, n) : n \in {PartitionName[d]} \ {None}}
       \cup {l \in {ZonedLink} : d \in Zoned /\ present[d] # None}

\* The node of a device mapper device has a link of the name the table has now, if any; the
\* name is not asked for when the device is removed.  Nor is the zone model of a disk to
\* be read when it is gone.
GetBlockDeviceSymlinks(e, path) ==
  CASE e.dev \in Dms -> {Mapper(n) : n \in IF e.action = "remove" THEN {} ELSE {dmName[e.dev]} \ {None}}
    [] e.dev \in Disks -> LinksAt(e.dev, path)
    [] OTHER -> {}

\* mknod leaves a node that is there as it is.
MakeDevice(path, number) == [nodes EXCEPT ![path] = IF @ = None THEN number ELSE @]

\* Variant: the permissions of a node that is there are left.
SetPermissionsOfNew(path, ls) ==
  [modes EXCEPT ![path] =
     IF @ = None THEN GetDevicePermissions(Rules[run], path, ls, Default) ELSE @]

\* Its permissions are set in any case: the mode by mknod or chmod, the owner by chown.
SetPermissions(path, ls) ==
  [modes EXCEPT ![path] = GetDevicePermissions(Rules[run], path, ls, Default)]

\* symlink leaves a link that is there as it is.
MakeLinks(ls, path) == [l \in Links |-> IF l \in ls /\ links[l] = None THEN path ELSE links[l]]

\* Variant: the links of the device mapper are left, for they are not among those computed.
RemoveLinksComputed(ls, path) == [l \in Links |-> IF l \in ls /\ links[l] = path THEN None ELSE links[l]]

\* The links of the device, and all of the device mapper, are removed if they lead to it.
RemoveLinks(ls, path) ==
  [l \in Links |-> IF l \in ls \cup (IF path \in Dms THEN MapperLinks ELSE {}) /\ links[l] = path
                   THEN None ELSE links[l]]

\* Variant: the node of a device that is back already is left.
RemovesNodeIfGone(e) == e.action = "remove" /\ present[e.dev] = None

RemovesNode(e) == e.action = "remove"

\* Variant: a change is not waited for.
MakesLinksOfAdded(e, path) == e.action = "add"

MakesLinks(e, path) == e.action = "add" \/ (e.action = "change" /\ path \in Dms)

HandleDevice(e, path, ls) ==
  /\ nodes' = CASE e.action = "add" -> MakeDevice(path, e.number)
                [] RemovesNode(e) -> [nodes EXCEPT ![path] = None]
                [] OTHER -> nodes
  /\ modes' = CASE e.action = "add" -> SetPermissions(path, ls)
                [] RemovesNode(e) -> [modes EXCEPT ![path] = None]
                [] OTHER -> modes
  /\ links' = CASE MakesLinks(e, path) -> MakeLinks(ls, path)
                [] RemovesNode(e) -> RemoveLinks(ls, path)
                [] OTHER -> links

\* The tracked uevents of the device are handled again, as they were: the first one makes
\* the node.  The action that is passed is used for the log only.
HandleBindInternal(e) ==
  IF trackedUevents[e.dev] = <<>> THEN UNCHANGED <<nodes, modes, links>>
  ELSE HandleDevice(Uevent("add", e.dev, Head(trackedUevents[e.dev])), DriverNode(e.dev), {})

HandleBind(e) ==
  /\ boundDrivers' = boundDrivers \cup {e.dev}
  /\ HandleBindInternal(e)
  /\ UNCHANGED <<astray, trackedUevents>>

HandleUnbind(e) ==
  /\ IF e.dev \notin boundDrivers THEN UNCHANGED <<nodes, modes, links, trackedUevents>>
     ELSE /\ HandleBindInternal(e)
          /\ trackedUevents' = [trackedUevents EXCEPT ![e.dev] = <<>>]
  /\ UNCHANGED <<astray, boundDrivers>>

HandleUevent ==
  /\ phase = "handle" /\ queue # <<>>
  /\ queue' = Tail(queue)
  /\ LET e == Head(queue)
     IN  CASE e.action = "bind" -> HandleBind(e)
           [] e.action = "unbind" -> HandleUnbind(e)
           [] OTHER -> /\ trackedUevents' = TrackDeviceUevent(e)
                       /\ \E path \in PathsFound(e.dev) :
                            /\ HandleDevice(e, e.dev, GetBlockDeviceSymlinks(e, path))
                            /\ astray' = IF e.action # "change" /\ e.dev \in Disks
                                            /\ path # LinkPath[e.dev]
                                         THEN astray \cup {e.dev} ELSE astray
                       /\ UNCHANGED boundDrivers
  /\ UNCHANGED <<kernelVars, missed, ueventdVars>>

Ueventd ==
  \/ StartUeventd \/ Probe \/ RegenerateDone \/ QuitUeventd \/ HandleUevent
  \/ \E d \in Devices : Regenerate(d)

Next == Kernel \/ Ueventd

Spec == Init /\ [][Next]_vars

-----------------------------------------------------------------------------
(* Properties *)

\* Every variable stays in its domain; no uevent of a block device is tracked, for which a
\* bind event would end in LOG(FATAL).
DevTypeOK ==
  /\ present \in [Devices -> Numbers \cup {None}]
  /\ dmName \in [Dms -> DmNames \cup {None}] /\ late \subseteq Dms
  /\ bound \subseteq Children /\ sent \in 0..MaxUevents
  /\ missed \subseteq Devices /\ astray \subseteq Disks
  /\ phase \in {"off", "probe", "regenerate", "handle"} /\ run \in 0..2
  /\ walk \subseteq Devices /\ queue \in Seq(Uevents)
  /\ nodes \in [Nodes -> Numbers \cup {None}]
  /\ modes \in [Nodes -> Perms \cup {None}]
  /\ links \in [Links -> Disks \cup Dms \cup {None}]
  /\ trackedUevents \in [Devices -> Seq(Numbers)]
  /\ \A d \in Disks \cup Dms : trackedUevents[d] = <<>>
  /\ boundDrivers \subseteq Children

\* All uevents have been handled.
Settled == phase = "handle" /\ queue = <<>>

\* The links that a device which is there should have.
LinksNow(d) ==
  GetBlockDeviceSymlinks(Uevent("add", d, present[d]), IF d \in Disks THEN LinkPath[d] ELSE None)

\* When ueventd has handled what there is, every device has its node with the number it
\* has now, and no other one has a node, however often devices went and came with
\* another number - except for those that went while nobody listened.
NodesMatchDevices == Settled => \A d \in Devices \ missed : nodes[d] = present[d]

\* When all is handled, the node of every device that is there has the permissions that the
\* rules of the present run give it and its links, although the first run may have made it
\* by other rules ("if the node already exists update its SELinux label and the file mode",
\* devices.cpp:408).  A rule for the link of a table is passed over, or not, if the name
\* came after the table was announced: a change makes the link and leaves the permissions.
PermissionsOfLastRules ==
  Settled =>
    \A d \in Devices :
      present[d] # None =>
        \E ls \in {LinksNow(d)} \cup (IF d \in late THEN {{}} ELSE {}) :
          modes[d] = GetDevicePermissions(Rules[run], d, ls, Default)

\* When all is handled no link leads to a node that is not there: a node goes together
\* with its links, although the name of a table is no longer known when it is removed.
\* Exceptions are the link of a zoned disk, which is not removed; the links of a disk that
\* was handled when the devices above it had gone as well, for then others than its own are
\* made or removed; and those of a device that went while nobody listened.
LinksLeadToNodes ==
  Settled => \A l \in Links \ {ZonedLink} :
               links[l] \notin missed \cup astray \cup {None} => nodes[links[l]] # None

\* The name of a device mapper table leads to its device, although the name may come with
\* the device or after it, may be taken by one device after another, and is read when the
\* event is old.
TablesLinked ==
  Settled /\ missed \cap Dms = {} =>
    \A d \in Dms : dmName[d] # None => links[Mapper(dmName[d])] = d

\* The node of a driver goes when the driver is unbound: the log says that the unbind is
\* propagated as remove.
DriverNodesGo ==
  Settled => \A c \in Children \ missed : nodes[DriverNode(c)] # None => c \in bound \/ present[c] # None
=============================================================================
