----------------------------- MODULE FirstStage -----------------------------
(***************************************************************************)
(* The first stage of generic_init, a single process: it runs ueventd      *)
(* until the mount handler has seen enough block devices, has the mount    *)
(* handler mount the Android partitions, runs ueventd again until no       *)
(* uevent comes for a while, and executes the second stage.  The kernel    *)
(* brings up block devices all the time and announces each in the netlink  *)
(* socket; ueventd has every device announced again when it starts.        *)
(* Devices come up, and the walk over /sys goes, in any order, so that the *)
(* queues are sets (a second event of a device changes nothing).           *)
(***************************************************************************)
EXTENDS MountHandler

VARIABLES
  phase,           \* where FirstStageMain is
  run,             \* which run of ueventd: the first (1) or the second (2)
  present,         \* the devices the kernel has brought up
  socket,          \* the devices with a uevent in the netlink socket
  walked,          \* the devices whose place in /sys/devices RegenerateUevents has passed
  coldQueue,       \* the devices with a uevent in ColdBoot's uevent_queue_
  fstab,           \* the entries that are still to be mounted
  mounted,         \* the entries that have been mounted
  androidMounted,  \* whether the android dir's device is mounted
  skipped          \* the no_fail entries whose mount failed
vars == <<mountVars, phase, run, present, socket, walked, coldQueue, fstab, mounted,
          androidMounted, skipped>>
ueventVars == <<present, socket, walked, coldQueue>>
fstabVars == <<fstab, mounted, androidMounted, skipped>>

Init ==
  /\ MountInit
  /\ phase = "probe" /\ run = 1
  /\ present = {} /\ socket = {} /\ walked = {} /\ coldQueue = {}
  /\ fstab = {} /\ mounted = {} /\ androidMounted = FALSE /\ skipped = {}

Listening == phase \in {"probe", "regenerate", "coldboot", "loop"}

-----------------------------------------------------------------------------
(* The kernel *)

\* A block device comes up, before or behind the walk; ueventd gets its uevent only if
\* its socket is open.
Appear(d) ==
  /\ d \notin present
  /\ present' = present \cup {d}
  /\ socket' = IF Listening THEN socket \cup {d} ELSE socket
  /\ walked' \in {walked, IF phase = "regenerate" THEN walked \cup {d} ELSE walked}
  /\ UNCHANGED <<mountVars, phase, run, coldQueue, fstabVars>>

-----------------------------------------------------------------------------
(* ueventd_main *)

AtMostOne(devices) == {{}} \cup {{d} : d \in devices}

\* The search for the boot partition asks for the uevent of one device after another
\* until it reads a first one, which is lost (there is no boot partition to look for).
\* Both may be of a block device.
Probe ==
  /\ phase = "probe"
  /\ phase' = "regenerate"
  /\ \E asked \in AtMostOne(present) :
       \E lost \in AtMostOne(socket \cup asked) : socket' = (socket \cup asked) \ lost
  /\ UNCHANGED <<mountVars, run, present, walked, coldQueue, fstabVars>>

\* Variant: only the uevent asked for is kept.
RegenerateUeventAskedFor(d) ==
  /\ phase = "regenerate"
  /\ d \in present \ walked
  /\ walked' = walked \cup {d}
  /\ coldQueue' = coldQueue \cup {d}
  /\ socket' = {}
  /\ UNCHANGED <<mountVars, phase, run, present, fstabVars>>

\* ColdBoot::RegenerateUevents asks for the uevent of one more device and drains the socket.
RegenerateUevent(d) ==
  /\ phase = "regenerate"
  /\ d \in present \ walked
  /\ walked' = walked \cup {d}
  /\ coldQueue' = coldQueue \cup socket \cup {d}
  /\ socket' = {}
  /\ UNCHANGED <<mountVars, phase, run, present, fstabVars>>

\* The walk over /sys/devices is over.
RegenerateDone ==
  /\ phase = "regenerate"
  /\ present \subseteq walked
  /\ phase' = "coldboot"
  /\ UNCHANGED <<mountVars, run, ueventVars, fstabVars>>

\* A handler may end in LOG(FATAL) while it scans a device of which no volume can be
\* mounted: ParseApfsBlockDevice reads success, which nothing has set, as true and
\* unmounts what is not mounted.
ScanAborts ==
  /\ \E d \in IF phase = "coldboot" THEN coldQueue ELSE socket :
        Disk[d].fs = "unreadable" /\ ~Disk[d].ignored /\ d \notin parsed
  /\ phase \in {"coldboot", "loop"}
  /\ phase' = "scanFatal"
  /\ UNCHANGED <<mountVars, run, ueventVars, fstabVars>>

\* ColdbootRunnerNoParallel: the handlers run for one event of the queue after another.
ColdbootHandle ==
  /\ phase = "coldboot"
  /\ \E d \in coldQueue :
       /\ OnBlockDeviceAdd(d)
       /\ coldQueue' = coldQueue \ {d}
  /\ UNCHANGED <<phase, run, present, socket, walked, fstabVars>>

\* Leaving ueventd closes the socket.
LeaveUeventd ==
  /\ phase' = IF run = 1 THEN "post" ELSE "exec"
  /\ socket' = {} /\ walked' = {} /\ coldQueue' = {}
  /\ UNCHANGED <<run, present, fstabVars>>

\* The cold boot is over: the first run may leave at once.
ColdbootDone ==
  /\ phase = "coldboot"
  /\ coldQueue = {}
  /\ UNCHANGED mountVars
  /\ \/ run = 1 /\ CanQuitUeventd /\ LeaveUeventd
     \/ /\ ~(run = 1 /\ CanQuitUeventd)
        /\ phase' = "loop"
        /\ UNCHANGED <<run, ueventVars, fstabVars>>

-----------------------------------------------------------------------------
(* main_loop *)

\* One uevent from the socket goes through the handlers; the first run then stops if it
\* has seen enough.
HandleUevent ==
  /\ phase = "loop"
  /\ \E d \in socket :
       /\ OnBlockDeviceAdd(d)
       /\ \/ run = 1 /\ CanQuitUeventd' /\ LeaveUeventd
          \/ /\ ~(run = 1 /\ CanQuitUeventd')
             /\ socket' = socket \ {d}
             /\ UNCHANGED <<phase, run, present, walked, coldQueue, fstabVars>>

\* Variant: only the first run polls with a timeout.
PollTimesOutFirstRun ==
  /\ phase = "loop"
  /\ socket = {}
  /\ run = 1 /\ CanQuitUeventd
  /\ UNCHANGED mountVars
  /\ LeaveUeventd

\* No uevent for 5 seconds: Poll returns, and main_loop polls again unless it can quit.
PollTimesOut ==
  /\ phase = "loop"
  /\ socket = {}
  /\ CanQuitUeventd
  /\ UNCHANGED mountVars
  /\ LeaveUeventd

-----------------------------------------------------------------------------
(* OnPostBlockDevices *)

\* The android dir is mounted and the virtual fstab is built: loop devices are set up
\* and images copied to RAM on the way.  LOG(FATAL) if one of these calls fails.
BuildFstab ==
  /\ phase = "post"
  /\ \/ /\ ~FirmwareImageMissing
        /\ fstab' = Fstab
        /\ androidMounted' = NeedAndroidDir
        /\ phase' = "unmount"
     \/ phase' = "aborted" /\ UNCHANGED <<fstab, androidMounted>>
  /\ UNCHANGED <<mountVars, run, ueventVars, mounted, skipped>>

\* umount of the android dir's device: refused while a loop device uses a file of it.
UnmountAndroidDir ==
  /\ phase = "unmount"
  /\ androidMounted' = (androidMounted /\ (config.recovery \/ \E e \in fstab : e.from = "image"))
  /\ phase' = "mount"
  /\ UNCHANGED <<mountVars, run, ueventVars, fstab, mounted, skipped>>

\* An entry can be mounted: what it is mounted from is there.
SourceThere(e) == e.from = "android" => androidMounted

\* MountPartitions: /system first, and the root switched to it, then the others.
NextEntries ==
  IF \E e \in fstab : e.point = "system" THEN {e \in fstab : e.point = "system"} ELSE fstab

\* Variant: every entry is passed over when it fails.
MountPartitionOrNot ==
  /\ phase = "mount"
  /\ \E e \in NextEntries :
       /\ fstab' = fstab \ {e}
       /\ \/ SourceThere(e) /\ mounted' = mounted \cup {e} /\ UNCHANGED skipped
          \/ skipped' = skipped \cup {e} /\ UNCHANGED mounted
  /\ UNCHANGED <<mountVars, phase, run, ueventVars, androidMounted>>

\* An entry is mounted, or it fails: a no_fail one is passed over, else LOG(FATAL).
MountPartition ==
  /\ phase = "mount"
  /\ \E e \in NextEntries :
       \/ /\ SourceThere(e)
          /\ mounted' = mounted \cup {e} /\ fstab' = fstab \ {e}
          /\ UNCHANGED <<phase, skipped>>
       \/ /\ e.noFail
          /\ skipped' = skipped \cup {e} /\ fstab' = fstab \ {e}
          /\ UNCHANGED <<phase, mounted>>
       \/ /\ ~e.noFail
          /\ phase' = "aborted"
          /\ UNCHANGED <<mounted, fstab, skipped>>
  /\ UNCHANGED <<mountVars, run, ueventVars, androidMounted>>

\* Everything is mounted: vendor_init runs and, except in recovery, the modules of the
\* vendor partition are loaded and ueventd starts again.
MountPartitionsDone ==
  /\ phase = "mount"
  /\ fstab = {}
  /\ IF config.recovery THEN phase' = "exec" /\ UNCHANGED run ELSE phase' = "probe" /\ run' = 2
  /\ UNCHANGED <<mountVars, ueventVars, fstabVars>>

\* ExecuteSecondStageInit: LOG(FATAL) if there is no init to execute.
ExecuteSecondStageInit ==
  /\ phase = "exec"
  /\ phase' = IF config.recovery \/ \E e \in mounted : e.point = "system"
              THEN "secondStage" ELSE "aborted"
  /\ UNCHANGED <<mountVars, run, ueventVars, fstabVars>>

-----------------------------------------------------------------------------
InitStep ==
  \/ Probe \/ RegenerateDone \/ \E d \in Devices : RegenerateUevent(d)
  \/ ScanAborts \/ ColdbootHandle \/ ColdbootDone \/ HandleUevent \/ PollTimesOut
  \/ BuildFstab \/ UnmountAndroidDir \/ MountPartition \/ MountPartitionsDone
  \/ ExecuteSecondStageInit

Next == InitStep \/ \E d \in Devices : Appear(d)

\* System calls return and Poll times out; devices need never come up.
Spec == Init /\ [][Next]_vars /\ WF_vars(InitStep)

-----------------------------------------------------------------------------
(* Properties *)

\* Every variable stays in its domain.
TypeOK ==
  /\ MountTypeOK
  /\ phase \in {"probe", "regenerate", "coldboot", "loop", "post", "unmount", "mount", "exec",
                "secondStage", "aborted", "scanFatal"}
  /\ run \in {1, 2}
  /\ present \in SUBSET Devices /\ walked \subseteq present /\ parsed \subseteq present
  /\ socket \cup coldQueue \subseteq present
  /\ androidMounted \in BOOLEAN
  /\ \A e \in fstab \cup mounted \cup skipped : e.point \in SystemParts \cup UserdataParts \cup {"firmware"}

\* The mount handler is called for the mounts only when every device it will read
\* through its maps has been found: it dereferences no null pointer
\* (mount_handler.cpp:766, 777, 805, 827, 969).
NoNullDevice ==
  phase = "post" => None \notin DevicesRead

\* No uevent is lost for good: while ueventd listens, a device that is up and has not
\* been scanned is announced again or its uevent is on the way to the handlers, although
\* the search for the boot partition discards a uevent and leaving ueventd closes the socket.
NoDeviceMissed ==
  phase \in {"regenerate", "coldboot", "loop"} =>
    \A d \in present : \/ d \in parsed \/ Disk[d].ignored
                       \/ phase = "regenerate" /\ d \notin walked
                       \/ d \in socket \cup coldQueue

\* With one system on the disks, every system partition that is handed to the second
\* stage is there, by itself or as a directory of one that is mounted, in whatever order
\* the devices came up.
SystemComplete ==
  phase = "secondStage" /\ ~config.recovery /\ SystemFromBlockDevices =>
    \A p \in SystemParts : \E e \in mounted :
       e.from = "device" /\ (e.point = p \/ (e.point \in SystemParts /\ p \in Disk[e.dev].subdirs))

\* The first run of ueventd ends once every device is up, when they hold what the
\* parameters ask for (docs/booting-process.md: "the ueventd component will quit").
FirstRunQuits == run = 1 /\ Listening /\ present = Devices ~> ~(run = 1 /\ Listening)

\* The second run ends when no more uevents come (docs/booting-process.md: "If there is
\* no new uevents to handle in consecutive 5 seconds [it] will quit").
SecondRunQuits == run = 2 /\ Listening ~> ~(run = 2 /\ Listening)

\* What is mounted from the android dir is mounted while the android dir is: the comment
\* at mount_handler.cpp:991 unmounts it "if it's no longer used".
SourcesStillMounted ==
  phase = "mount" => \A e \in fstab : SourceThere(e)

\* With mount_firmware=only_android_dir the firmware is found inside an android dir only
\* (docs/boot-parameters.md, mount_firmware).
FirmwareInAndroidDir ==
  config.firmware = "only_android_dir" /\ firmwareBdev # None =>
    info[firmwareBdev].firmwareDir = "android"
=============================================================================
