-------------------------- MODULE FirstStageProofs --------------------------
(***************************************************************************)
(* Theorems about the first stage, for any disks and boot parameters: the  *)
(* variables keep their types, no device is missed between two uevents,    *)
(* the mount handler is called for the mounts only when it has every       *)
(* device it reads, /system is mounted first, and with one system on the   *)
(* disks the second stage gets all of it.                                  *)
(***************************************************************************)
EXTENDS FirstStage, TLAPS

Infos == [partition : SystemParts \cup {None}, subdirs : SUBSET SystemParts,
          androidDir : BOOLEAN, firmwareDir : {"none", "android", "usr"}]

-----------------------------------------------------------------------------
(* The mount handler *)

\* What is on a device.
LEMMA DiskFields ==
  ASSUME NEW d \in Devices
  PROVE  /\ Disk[d].ignored \in BOOLEAN
         /\ Disk[d].partname \in SystemParts \cup UserdataParts \cup {None}
         /\ Disk[d].buildProp \in SystemParts \cup {None}
         /\ Disk[d].subdirs \in SUBSET SystemParts
         /\ Disk[d].androidDir \in BOOLEAN
         /\ Disk[d].cacheDir \in BOOLEAN
  BY DiskAssumption

\* The scan of a device returns a block device info.
LEMMA ParseType ==
  ASSUME NEW d \in Devices
  PROVE  ParseBlockDevice(d) \in Infos
<1>1. \A p \in SystemParts \cup {None} : CheckDirs(d, p) \in Infos
  <2>1. FirmwareDir(d) \in {"none", "android", "usr"}
    BY DEF FirmwareDir
  <2>2. QED
    BY <2>1, DiskFields DEF CheckDirs, Infos
<1>2. NothingFound \in Infos
  BY DEF NothingFound, Infos
<1>3. QED
  BY <1>1, <1>2, DiskFields DEF ParseBlockDevice, ParseApfs

\* The maps keep their domains, and only devices are entered.
LEMMA ScanTypes ==
  ASSUME MountTypeOK, NEW d \in Devices, OnBlockDeviceAdd(d)
  PROVE  MountTypeOK' /\ config' = config
<1>1. CASE d \in parsed \/ Disk[d].ignored
  BY <1>1 DEF OnBlockDeviceAdd, mountVars, MountTypeOK, Infos
<1>2. CASE ~(d \in parsed \/ Disk[d].ignored)
  <2> DEFINE found == ParseBlockDevice(d)
  <2>1. /\ parsed' = parsed \cup {d}
        /\ info' = [info EXCEPT ![d] = found]
        /\ needMountCache' = (needMountCache \/ SetsNeedMountCache(d))
        /\ UpdateMountInfo(d, found)
        /\ config' = config
    BY <1>2 DEF OnBlockDeviceAdd
  <2>2. found \in Infos
    BY ParseType
  <2> HIDE DEF found
  <2>3. SystemPartOf(d, found) \in SystemParts \cup {None}
    BY <2>2 DEF SystemPartOf, Infos
  <2>4. systemMap' \in [SystemParts -> Devices \cup {None}]
    BY <2>1, <2>2, <2>3 DEF UpdateMountInfo, UpdateSystemMap, MountTypeOK, Infos
  <2>5. userdataMap' \in [UserdataParts -> Devices \cup {None}]
    BY <2>1 DEF UpdateMountInfo, IsUserdataPart, MountTypeOK
  <2>6. androidBdev' \in Devices \cup {None} /\ firmwareBdev' \in Devices \cup {None}
    BY <2>1 DEF UpdateMountInfo, MountTypeOK
  <2>7. needMountCache' \in BOOLEAN
    BY <2>1, DiskFields DEF SetsNeedMountCache, MountTypeOK
  <2>8. info' \in [Devices -> Infos]
    BY <2>1, <2>2 DEF MountTypeOK, Infos
  <2>9. QED
    BY <2>1, <2>4, <2>5, <2>6, <2>7, <2>8 DEF MountTypeOK, Infos
<1>3. QED
  BY <1>1, <1>2

\* A scan only ever adds devices.
LEMMA ScanParses ==
  ASSUME MountTypeOK, NEW d \in Devices, OnBlockDeviceAdd(d)
  PROVE  /\ parsed \subseteq parsed' /\ parsed' \subseteq parsed \cup {d}
         /\ d \in parsed' \/ Disk[d].ignored
  BY DEF OnBlockDeviceAdd, mountVars

\* Every entry of the virtual fstab is for a partition or the firmware.
LEMMA FstabPoints ==
  ASSUME MountTypeOK, CanQuitUeventd, NEW e \in Fstab
  PROVE  e.point \in SystemParts \cup UserdataParts \cup {"firmware"}
<1>1. {"userdata", "cache"} \subseteq UserdataParts
  BY DiskAssumption
<1>2. CASE e \in SystemEntries
  BY <1>2 DEF SystemEntries, Entry
<1>3. CASE e \in UserdataEntries
  BY <1>3 DEF UserdataEntries, Entry
<1>4. CASE e \in ImageEntries
  BY <1>4 DEF ImageEntries, Entry
<1>5. CASE e \in BindEntries
  <2>1. config.userdata = "bind_mount_dir"
    BY <1>5 DEF BindEntries
  <2>2. androidBdev \in Devices
    BY <2>1 DEF CanQuitUeventd, NeedAndroidDir, MountTypeOK
  <2>3. Disk[androidBdev].userdataDirs \subseteq UserdataParts
    BY <2>2, DiskAssumption
  <2>4. QED
    BY <1>5, <2>3 DEF BindEntries, Entry
<1>6. CASE e \in TmpfsEntries
  BY <1>6 DEF TmpfsEntries, Entry
<1>7. CASE e \in FirmwareEntries
  BY <1>7 DEF FirmwareEntries, Entry
<1>8. QED
  BY <1>2, <1>3, <1>4, <1>5, <1>6, <1>7 DEF Fstab

\* What ueventd waits for is all that the virtual fstab reads through the maps.
LEMMA DevicesKnown ==
  ASSUME MountTypeOK, CanQuitUeventd
  PROVE  None \notin DevicesRead
<1>1. NeedAndroidDir => androidBdev # None
  BY DEF CanQuitUeventd
<1>2. NeedFirmwareDir => firmwareBdev # None
  BY DEF CanQuitUeventd
<1>3. SystemFromBlockDevices => \A p \in SystemParts : systemMap[p] # None
  BY DEF CanQuitUeventd, MountTypeOK
<1>4. config.userdata = "std_parts" =>
        \A p \in {q \in UserdataParts : q # "cache" \/ needMountCache} : userdataMap[p] # None
  BY DEF CanQuitUeventd
<1>5. QED
  BY <1>1, <1>2, <1>3, <1>4 DEF DevicesRead

-----------------------------------------------------------------------------
(* The first stage *)

\* The mounts are reached only from a first run that could quit.
EnoughFound == phase = "post" => run = 1 /\ CanQuitUeventd

\* The walk over /sys starts anew in each run.
WalkFresh == phase \notin {"regenerate", "coldboot", "loop", "scanFatal"} => walked = {}

StageInv == TypeOK /\ EnoughFound /\ WalkFresh /\ NoDeviceMissed

Points == SystemParts \cup UserdataParts \cup {"firmware"}

\* The initial states.
LEMMA InitStage ==
  Init => StageInv
<1> SUFFICES ASSUME Init PROVE StageInv
  OBVIOUS
<1> USE DEF Init, MountInit
<1>1. MountTypeOK
  <2>1. NothingFound \in Infos
    BY DEF NothingFound, Infos
  <2>2. QED
    BY <2>1 DEF MountTypeOK, Infos
<1>2. QED
  BY <1>1 DEF StageInv, TypeOK, EnoughFound, WalkFresh, NoDeviceMissed

\* Whether ueventd can quit depends on the variables of the mount handler only.
LEMMA QuitStable ==
  ASSUME UNCHANGED mountVars
  PROVE  /\ MountTypeOK => MountTypeOK'
         /\ CanQuitUeventd <=> CanQuitUeventd'
         /\ parsed' = parsed
<1> USE DEF mountVars
<1>1. MountTypeOK => MountTypeOK'
  BY DEF MountTypeOK
<1>2. CanQuitUeventd <=> CanQuitUeventd'
  BY DEF CanQuitUeventd, SystemFromBlockDevices, NeedAndroidDir,
         NeedFirmwareDir, FirmwareFromImage, SystemFromImages
<1>3. QED
  BY <1>1, <1>2

\* Leaving ueventd: to the mounts after the first run, to the second stage after the second.
LEMMA Leaving ==
  ASSUME TypeOK, MountTypeOK', parsed' \subseteq present, LeaveUeventd, run = 1 => CanQuitUeventd'
  PROVE  StageInv'
<1> USE DEF LeaveUeventd, fstabVars, TypeOK
<1>1. TypeOK'
  OBVIOUS
<1>2. EnoughFound' /\ WalkFresh' /\ NoDeviceMissed'
  BY DEF EnoughFound, WalkFresh, NoDeviceMissed
<1>3. QED
  BY <1>1, <1>2 DEF StageInv

\* Every step of the first stage and of the kernel preserves the invariant.
LEMMA StepStage ==
  StageInv /\ [Next]_vars => StageInv'
<1> SUFFICES ASSUME StageInv, [Next]_vars PROVE StageInv'
  OBVIOUS
<1> USE DEF StageInv
<1>0. TypeOK /\ MountTypeOK
  BY DEF TypeOK
<1>1. CASE UNCHANGED vars
  <2>1. UNCHANGED mountVars
    BY <1>1 DEF vars
  <2>2. QED
    BY <1>0, <1>1, <2>1, QuitStable
       DEF vars, TypeOK, EnoughFound, WalkFresh, NoDeviceMissed
<1>2. ASSUME NEW d \in Devices, Appear(d) PROVE StageInv'
  <2>1. MountTypeOK' /\ (CanQuitUeventd <=> CanQuitUeventd') /\ parsed' = parsed
    BY <1>0, <1>2, QuitStable DEF Appear
  <2>2. TypeOK'
    BY <1>2, <2>1 DEF Appear, TypeOK, fstabVars
  <2>3. EnoughFound' /\ WalkFresh'
    BY <1>2, <2>1 DEF Appear, EnoughFound, WalkFresh
  <2>4. NoDeviceMissed'
    BY <1>2, <2>1 DEF Appear, NoDeviceMissed, Listening
  <2>5. QED
    BY <2>2, <2>3, <2>4
<1>3. CASE Probe
  <2>1. MountTypeOK' /\ parsed' = parsed
    BY <1>0, <1>3, QuitStable DEF Probe
  <2>2. socket' \subseteq present
    BY <1>3 DEF Probe, AtMostOne, TypeOK
  <2>3. TypeOK'
    BY <1>3, <2>1, <2>2 DEF Probe, TypeOK, fstabVars
  <2>4. QED
    BY <1>3, <2>3 DEF Probe, EnoughFound, WalkFresh, NoDeviceMissed
<1>4. ASSUME NEW d \in Devices, RegenerateUevent(d) PROVE StageInv'
  <2>1. MountTypeOK' /\ parsed' = parsed
    BY <1>0, <1>4, QuitStable DEF RegenerateUevent
  <2>2. TypeOK'
    BY <1>4, <2>1 DEF RegenerateUevent, TypeOK, fstabVars
  <2>3. QED
    BY <1>4, <2>1, <2>2 DEF RegenerateUevent, EnoughFound, WalkFresh, NoDeviceMissed
<1>5. CASE RegenerateDone
  <2>1. MountTypeOK' /\ parsed' = parsed
    BY <1>0, <1>5, QuitStable DEF RegenerateDone
  <2>2. TypeOK'
    BY <1>5, <2>1 DEF RegenerateDone, TypeOK, ueventVars, fstabVars
  <2>3. QED
    BY <1>5, <2>1, <2>2
       DEF RegenerateDone, EnoughFound, WalkFresh, NoDeviceMissed, ueventVars
<1>6. CASE ScanAborts
  <2>1. MountTypeOK' /\ parsed' = parsed
    BY <1>0, <1>6, QuitStable DEF ScanAborts
  <2>2. TypeOK'
    BY <1>6, <2>1 DEF ScanAborts, TypeOK, ueventVars, fstabVars
  <2>3. QED
    BY <1>6, <2>2 DEF ScanAborts, EnoughFound, WalkFresh, NoDeviceMissed
<1>7. CASE ColdbootHandle
  <2>1. PICK d \in coldQueue : OnBlockDeviceAdd(d) /\ coldQueue' = coldQueue \ {d}
    BY <1>7 DEF ColdbootHandle
  <2>2. d \in present /\ d \in Devices
    BY <2>1 DEF TypeOK
  <2>3. MountTypeOK'
    BY <1>0, <2>1, <2>2, ScanTypes
  <2>4. parsed \subseteq parsed' /\ parsed' \subseteq parsed \cup {d}
        /\ (d \in parsed' \/ Disk[d].ignored)
    BY <1>0, <2>1, <2>2, ScanParses
  <2>5. TypeOK'
    BY <1>7, <2>1, <2>2, <2>3, <2>4 DEF ColdbootHandle, TypeOK, fstabVars
  <2>6. QED
    BY <1>7, <2>1, <2>4, <2>5 DEF ColdbootHandle, EnoughFound, WalkFresh, NoDeviceMissed
<1>8. CASE ColdbootDone
  <2>1. MountTypeOK' /\ (CanQuitUeventd <=> CanQuitUeventd') /\ parsed' = parsed
    BY <1>0, <1>8, QuitStable DEF ColdbootDone
  <2>2. CASE run = 1 /\ CanQuitUeventd /\ LeaveUeventd
    BY <1>0, <2>1, <2>2, Leaving DEF TypeOK
  <2>3. CASE phase' = "loop" /\ UNCHANGED <<run, ueventVars, fstabVars>>
    <3>1. TypeOK'
      BY <2>1, <2>3 DEF TypeOK, ueventVars, fstabVars
    <3>2. QED
      BY <1>8, <2>1, <2>3, <3>1
         DEF ColdbootDone, EnoughFound, WalkFresh, NoDeviceMissed, ueventVars
  <2>4. QED
    BY <1>8, <2>2, <2>3 DEF ColdbootDone
<1>9. CASE HandleUevent
  <2>1. PICK d \in socket :
          /\ OnBlockDeviceAdd(d)
          /\ \/ run = 1 /\ CanQuitUeventd' /\ LeaveUeventd
             \/ /\ ~(run = 1 /\ CanQuitUeventd')
                /\ socket' = socket \ {d}
                /\ UNCHANGED <<phase, run, present, walked, coldQueue, fstabVars>>
    BY <1>9 DEF HandleUevent
  <2>2. d \in present /\ d \in Devices
    BY <2>1 DEF TypeOK
  <2>3. MountTypeOK'
    BY <1>0, <2>1, <2>2, ScanTypes
  <2>4. parsed \subseteq parsed' /\ parsed' \subseteq parsed \cup {d}
        /\ (d \in parsed' \/ Disk[d].ignored)
    BY <1>0, <2>1, <2>2, ScanParses
  <2>5. parsed' \subseteq present
    BY <2>2, <2>4 DEF TypeOK
  <2>6. CASE run = 1 /\ CanQuitUeventd' /\ LeaveUeventd
    BY <1>0, <2>3, <2>5, <2>6, Leaving
  <2>7. CASE socket' = socket \ {d}
             /\ UNCHANGED <<phase, run, present, walked, coldQueue, fstabVars>>
    <3>1. TypeOK'
      BY <2>3, <2>5, <2>7 DEF TypeOK, fstabVars
    <3>2. QED
      BY <1>9, <2>4, <2>7, <3>1 DEF HandleUevent, EnoughFound, WalkFresh, NoDeviceMissed
  <2>8. QED
    BY <2>1, <2>6, <2>7
<1>10. CASE PollTimesOut
  <2>1. MountTypeOK' /\ (CanQuitUeventd <=> CanQuitUeventd') /\ parsed' = parsed
    BY <1>0, <1>10, QuitStable DEF PollTimesOut
  <2>2. QED
    BY <1>0, <1>10, <2>1, Leaving DEF PollTimesOut, TypeOK
<1>11. CASE BuildFstab
  <2>1. MountTypeOK' /\ parsed' = parsed
    BY <1>0, <1>11, QuitStable DEF BuildFstab
  <2>2. \A e \in fstab' : e \in fstab \/ e.point \in Points
    BY <1>0, <1>11, FstabPoints DEF BuildFstab, EnoughFound, Points
  <2>3. androidMounted' \in BOOLEAN
    BY <1>11 DEF BuildFstab, NeedAndroidDir, TypeOK
  <2>4. TypeOK'
    BY <1>11, <2>1, <2>2, <2>3 DEF BuildFstab, TypeOK, ueventVars, Points
  <2>5. QED
    BY <1>11, <2>4 DEF BuildFstab, EnoughFound, WalkFresh, NoDeviceMissed, ueventVars
<1>12. CASE UnmountAndroidDir
  <2>1. MountTypeOK' /\ parsed' = parsed
    BY <1>0, <1>12, QuitStable DEF UnmountAndroidDir
  <2>2. TypeOK'
    BY <1>12, <2>1 DEF UnmountAndroidDir, TypeOK, ueventVars
  <2>3. QED
    BY <1>12, <2>2 DEF UnmountAndroidDir, EnoughFound, WalkFresh, NoDeviceMissed, ueventVars
<1>13. CASE MountPartition
  <2>1. MountTypeOK' /\ parsed' = parsed
    BY <1>0, <1>13, QuitStable DEF MountPartition
  <2>2. fstab' \cup mounted' \cup skipped' \subseteq fstab \cup mounted \cup skipped
    BY <1>13 DEF MountPartition, NextEntries
  <2>3. phase = "mount" /\ phase' \in {"mount", "aborted"}
        /\ UNCHANGED <<run, ueventVars, androidMounted>>
    BY <1>13 DEF MountPartition
  <2>4. TypeOK'
    BY <2>1, <2>2, <2>3 DEF TypeOK, ueventVars
  <2>5. QED
    BY <2>3, <2>4 DEF EnoughFound, WalkFresh, NoDeviceMissed, ueventVars
<1>14. CASE MountPartitionsDone
  <2>1. MountTypeOK' /\ parsed' = parsed
    BY <1>0, <1>14, QuitStable DEF MountPartitionsDone
  <2>2. TypeOK'
    BY <1>14, <2>1 DEF MountPartitionsDone, TypeOK, ueventVars, fstabVars
  <2>3. QED
    BY <1>14, <2>2 DEF MountPartitionsDone, EnoughFound, WalkFresh, NoDeviceMissed, ueventVars
<1>15. CASE ExecuteSecondStageInit
  <2>1. MountTypeOK' /\ parsed' = parsed
    BY <1>0, <1>15, QuitStable DEF ExecuteSecondStageInit
  <2>2. TypeOK'
    BY <1>15, <2>1 DEF ExecuteSecondStageInit, TypeOK, ueventVars, fstabVars
  <2>3. QED
    BY <1>15, <2>2
       DEF ExecuteSecondStageInit, EnoughFound, WalkFresh, NoDeviceMissed, ueventVars
<1>16. QED
  BY <1>1, <1>2, <1>3, <1>4, <1>5, <1>6, <1>7, <1>8, <1>9, <1>10, <1>11, <1>12, <1>13, <1>14,
     <1>15 DEF Next, InitStep

\* The invariant holds in every behaviour.
LEMMA StageInvariant ==
  Spec => []StageInv
<1>1. Init /\ [][Next]_vars => []StageInv
  BY InitStage, StepStage, PTL
<1>2. QED
  BY <1>1, PTL DEF Spec

\* Every variable stays in its domain, whatever is on the disks.
THEOREM StageTypeCorrect ==
  Spec => []TypeOK
<1>1. StageInv => TypeOK
  BY DEF StageInv
<1>2. QED
  BY <1>1, StageInvariant, PTL

\* No device that is up is missed by the mount handler, in whatever order devices come
\* up while ueventd asks for their uevents.
THEOREM DevicesNotMissed ==
  Spec => []NoDeviceMissed
<1>1. StageInv => NoDeviceMissed
  BY DEF StageInv
<1>2. QED
  BY <1>1, StageInvariant, PTL

\* The mount handler dereferences no null device, for any disks and boot parameters.
THEOREM DevicesFound ==
  Spec => []NoNullDevice
<1>1. StageInv => NoNullDevice
  BY DevicesKnown DEF StageInv, TypeOK, EnoughFound, NoNullDevice
<1>2. QED
  BY <1>1, StageInvariant, PTL

-----------------------------------------------------------------------------
(* The system that is handed to the second stage *)

\* The system partition that a device is taken for, once it is scanned.
TakenFor(d) == SystemPartOf(d, ParseBlockDevice(d))

\* One system is on the disks: a device that is taken for a system partition is that
\* partition by its contents, and no other device has it too, by itself or as a directory.
OneSystem ==
  \A d \in Devices : ~Disk[d].ignored /\ TakenFor(d) # None =>
    /\ ParseBlockDevice(d).partition = TakenFor(d)
    /\ \A e \in Devices \ {d} : ~Disk[e].ignored /\ TakenFor(e) # None =>
         TakenFor(d) # TakenFor(e) /\ TakenFor(d) \notin ParseBlockDevice(e).subdirs

\* The map of the system partitions tells on which device a scan has found each.
MapRight ==
  /\ \A d \in parsed : /\ ~Disk[d].ignored /\ info[d] = ParseBlockDevice(d)
                       /\ TakenFor(d) # None => systemMap[TakenFor(d)] # None
  /\ \A p \in SystemParts : systemMap[p] # None =>
       /\ systemMap[p] \in parsed /\ TakenFor(systemMap[p]) # None
       /\ p = TakenFor(systemMap[p]) \/ p \in ParseBlockDevice(systemMap[p]).subdirs

\* An entry without no_fail from which the partition p comes.
Gives(e, p) ==
  /\ e.from = "device" /\ ~e.noFail
  /\ e.point = p \/ (e.point \in SystemParts /\ p \in Disk[e.dev].subdirs)

\* The fstab has been built and not given up.
Built == run = 2 \/ phase \in {"unmount", "mount", "exec", "secondStage"}

AllGiven ==
  Built /\ ~config.recovery /\ SystemFromBlockDevices =>
    \A p \in SystemParts : \E e \in fstab \cup mounted : Gives(e, p)

AllTried == run = 2 \/ phase \in {"exec", "secondStage"} => fstab = {}

CompleteInv == OneSystem /\ MapRight /\ AllGiven /\ AllTried

LEMMA ScanOfPart ==
  ASSUME NEW d \in Devices, ParseBlockDevice(d).partition # None
  PROVE  ParseBlockDevice(d).subdirs = Disk[d].subdirs
<1>1. CheckDirs(d, None).partition = None /\ NothingFound.partition = None
  BY DEF CheckDirs, NothingFound
<1>2. Disk[d].fs = "plain" /\ ParseBlockDevice(d) = CheckDirs(d, Disk[d].buildProp)
  BY <1>1 DEF ParseBlockDevice, ParseApfs
<1>3. /\ CheckDirs(d, Disk[d].buildProp).partition = Disk[d].buildProp
      /\ Disk[d].buildProp # None =>
           CheckDirs(d, Disk[d].buildProp).subdirs = Disk[d].subdirs
  BY DEF CheckDirs
<1> QED BY <1>2, <1>3

\* What a device is taken for depends on the boot parameters only.
LEMMA SameTaken ==
  ASSUME config' = config
  PROVE  /\ \A d : ParseBlockDevice(d)' = ParseBlockDevice(d) /\ TakenFor(d)' = TakenFor(d)
         /\ OneSystem' <=> OneSystem
         /\ SystemFromBlockDevices' <=> SystemFromBlockDevices
<1>1. \A d : FirmwareDir(d)' = FirmwareDir(d)
  BY DEF FirmwareDir
<1>2. \A d, p : CheckDirs(d, p)' = CheckDirs(d, p)
  BY <1>1 DEF CheckDirs
<1>3. \A d : ParseBlockDevice(d)' = ParseBlockDevice(d)
  BY <1>2 DEF ParseBlockDevice, ParseApfs
<1>4. \A d : TakenFor(d)' = TakenFor(d)
  BY <1>3 DEF TakenFor, SystemPartOf
<1>5. OneSystem' <=> OneSystem
  BY <1>3, <1>4 DEF OneSystem
<1> QED BY <1>3, <1>4, <1>5 DEF SystemFromBlockDevices

\* A scan keeps the map right.
LEMMA MapKeeps ==
  ASSUME MountTypeOK, MapRight, NEW d \in Devices, OnBlockDeviceAdd(d)
  PROVE  MapRight'
<1>1. config' = config /\ systemMap \in [SystemParts -> Devices \cup {None}]
      /\ parsed \subseteq Devices
  BY ScanTypes DEF MountTypeOK
<1>2. /\ \A e : ParseBlockDevice(e)' = ParseBlockDevice(e) /\ TakenFor(e)' = TakenFor(e)
  BY <1>1, SameTaken
<1>3. CASE d \in parsed \/ Disk[d].ignored
  <2>1. parsed' = parsed /\ info' = info /\ systemMap' = systemMap
    BY <1>3 DEF OnBlockDeviceAdd, mountVars
  <2> QED BY <1>2, <2>1 DEF MapRight
<1>4. CASE ~(d \in parsed \/ Disk[d].ignored)
  <2> DEFINE found == ParseBlockDevice(d)
             part == TakenFor(d)
  <2>1. /\ parsed' = parsed \cup {d}
        /\ info' = [info EXCEPT ![d] = found]
        /\ UpdateSystemMap(d, found)
    BY <1>4 DEF OnBlockDeviceAdd, UpdateMountInfo
  <2>2. found.subdirs \subseteq SystemParts /\ part \in SystemParts \cup {None}
    <3>1. found \in Infos
      BY ParseType
    <3> QED BY <3>1 DEF Infos, TakenFor, SystemPartOf
  <2>3. /\ part = None => systemMap' = systemMap
        /\ part # None => systemMap' = [p \in SystemParts |->
                            IF p = part \/ p \in found.subdirs THEN d ELSE systemMap[p]]
    BY <1>1, <2>1, <2>2 DEF UpdateSystemMap, TakenFor
  <2>4. \A e \in parsed' : info'[e] = IF e = d THEN found ELSE info[e]
    BY <1>1, <2>1 DEF MountTypeOK
  <2>5. None \notin Devices /\ None \notin SystemParts
    BY DiskAssumption
  <2> HIDE DEF found, part
  <2>6. part = TakenFor(d) /\ found = ParseBlockDevice(d)
    BY DEF part, found
  <2>7. \A p \in SystemParts : systemMap[p] # None => systemMap'[p] # None
    BY <2>3, <2>5
  <2>8. ASSUME NEW e \in parsed'
        PROVE  /\ ~Disk[e].ignored /\ info'[e] = ParseBlockDevice(e)
               /\ TakenFor(e) # None => systemMap'[TakenFor(e)] # None
    <3>1. CASE e = d
      BY <1>4, <2>2, <2>3, <2>4, <2>5, <2>6, <3>1
    <3>2. CASE e # d
      <4>1. e \in parsed
        BY <2>1, <3>2
      <4>2. TakenFor(e) \in SystemParts \cup {None}
        <5>1. ParseBlockDevice(e) \in Infos
          BY <1>1, <4>1, ParseType
        <5> QED BY <5>1 DEF TakenFor, SystemPartOf, Infos
      <4> QED BY <2>4, <2>7, <3>2, <4>1, <4>2 DEF MapRight
    <3> QED BY <3>1, <3>2
  <2>9. ASSUME NEW p \in SystemParts, systemMap'[p] # None
        PROVE  /\ systemMap'[p] \in parsed' /\ TakenFor(systemMap'[p]) # None
               /\ p = TakenFor(systemMap'[p]) \/ p \in ParseBlockDevice(systemMap'[p]).subdirs
    <3>1. CASE part # None /\ (p = part \/ p \in found.subdirs)
      BY <2>1, <2>3, <2>6, <3>1
    <3>2. CASE ~(part # None /\ (p = part \/ p \in found.subdirs))
      <4>1. systemMap'[p] = systemMap[p]
        BY <2>3, <3>2
      <4> QED BY <2>1, <2>9, <4>1 DEF MapRight
    <3> QED BY <3>1, <3>2
  <2> QED BY <1>2, <2>8, <2>9 DEF MapRight
<1> QED BY <1>3, <1>4

\* Once every system partition has its device, the fstab gives all of them.
LEMMA AllFound ==
  ASSUME MountTypeOK, OneSystem, MapRight, CanQuitUeventd, ~config.recovery,
         SystemFromBlockDevices, NEW p \in SystemParts
  PROVE  \E e \in Fstab : Gives(e, p)
<1> DEFINE d == systemMap[p]
           q == TakenFor(d)
           e == Entry(q, "device", d, FALSE)
<1>1. systemMap[p] # None /\ parsed \subseteq Devices
      /\ systemMap \in [SystemParts -> Devices \cup {None}]
  BY DEF CanQuitUeventd, MountTypeOK
<1>2. /\ d \in parsed /\ q # None
      /\ p = q \/ p \in ParseBlockDevice(d).subdirs
  BY <1>1 DEF MapRight
<1>3. /\ ~Disk[d].ignored /\ info[d] = ParseBlockDevice(d) /\ systemMap[q] # None
      /\ d \in Devices
  BY <1>1, <1>2 DEF MapRight
<1>4. q \in SystemParts
  <2>1. ParseBlockDevice(d) \in Infos
    BY <1>3, ParseType
  <2> QED BY <1>2, <2>1 DEF TakenFor, SystemPartOf, Infos
<1>5. systemMap[q] = d
  <2> DEFINE f == systemMap[q]
  <2>1. /\ f \in parsed /\ TakenFor(f) # None
        /\ q = TakenFor(f) \/ q \in ParseBlockDevice(f).subdirs
    BY <1>3, <1>4 DEF MapRight
  <2>2. f \in Devices /\ ~Disk[f].ignored
    BY <1>1, <2>1 DEF MapRight
  <2> HIDE DEF f, d
  <2>3. f = d
    BY <1>2, <1>3, <2>1, <2>2 DEF OneSystem
  <2> QED BY <2>3 DEF f
<1>6. ParseBlockDevice(d).partition = q
  BY <1>2, <1>3 DEF OneSystem
<1>7. ParseBlockDevice(d).subdirs = Disk[d].subdirs
  BY <1>2, <1>3, <1>6, ScanOfPart
<1>8. e \in SystemEntries
  BY <1>3, <1>4, <1>5, <1>6 DEF SystemEntries
<1>9. e.point = q /\ e.from = "device" /\ e.dev = d /\ ~e.noFail
  BY DEF Entry
<1> HIDE DEF e, q, d
<1>10. Gives(e, p)
  BY <1>2, <1>4, <1>7, <1>9 DEF Gives
<1> QED BY <1>8, <1>10 DEF Fstab

\* What ueventd does without a scan leaves the invariant alone, before the mounts and after.
LEMMA MapSame ==
  ASSUME CompleteInv, UNCHANGED mountVars
  PROVE  /\ OneSystem' /\ MapRight' /\ config' = config
         /\ SystemFromBlockDevices' <=> SystemFromBlockDevices
<1>1. config' = config /\ parsed' = parsed /\ info' = info /\ systemMap' = systemMap
  BY DEF mountVars
<1> QED BY <1>1, SameTaken DEF CompleteInv, MapRight

LEMMA FstabSame ==
  ASSUME CompleteInv, OneSystem', MapRight', config' = config, UNCHANGED <<fstab, mounted>>,
         Built' => Built,
         (run = 2 \/ phase \in {"exec", "secondStage"})'
            => run = 2 \/ phase \in {"exec", "secondStage"} \/ fstab = {}
  PROVE  CompleteInv'
<1>1. SystemFromBlockDevices' <=> SystemFromBlockDevices
  BY SameTaken
<1>2. AllGiven'
  BY <1>1 DEF CompleteInv, AllGiven, Gives
<1>3. AllTried'
  BY DEF CompleteInv, AllTried
<1> QED BY <1>2, <1>3 DEF CompleteInv

LEMMA CompleteStep ==
  ASSUME CompleteInv, StageInv, [Next]_vars
  PROVE  CompleteInv'
<1>1. TypeOK /\ MountTypeOK /\ EnoughFound /\ run \in {1, 2}
  BY DEF StageInv, TypeOK
<1>2. ASSUME UNCHANGED <<mountVars, phase, run, fstab, mounted>> PROVE CompleteInv'
  <2>1. Built' <=> Built
    BY <1>2 DEF Built
  <2> QED BY <1>2, <2>1, MapSame, FstabSame
<1>3. CASE UNCHANGED vars
  BY <1>2, <1>3 DEF vars
<1>4. ASSUME NEW d \in Devices, Appear(d) PROVE CompleteInv'
  BY <1>2, <1>4 DEF Appear, fstabVars
<1>5. ASSUME NEW d \in Devices, RegenerateUevent(d) PROVE CompleteInv'
  BY <1>2, <1>5 DEF RegenerateUevent, fstabVars
<1>6. ASSUME phase \in {"probe", "regenerate", "coldboot", "loop"}, UNCHANGED <<run, fstab, mounted>>,
             phase' \in {"regenerate", "coldboot", "loop", "scanFatal", IF run = 1 THEN "post" ELSE "exec"},
             OneSystem', MapRight', config' = config
      PROVE  CompleteInv'
  <2>1. Built' => Built
    BY <1>1, <1>6 DEF Built
  <2>2. (run = 2 \/ phase \in {"exec", "secondStage"})' => run = 2
    BY <1>1, <1>6
  <2> QED BY <1>6, <2>1, <2>2, FstabSame
<1>7. CASE Probe \/ RegenerateDone \/ ScanAborts \/ ColdbootDone \/ PollTimesOut
  <2>1. /\ UNCHANGED <<mountVars, run, fstab, mounted>>
        /\ phase \in {"probe", "regenerate", "coldboot", "loop"}
        /\ phase' \in {"regenerate", "coldboot", "loop", "scanFatal", IF run = 1 THEN "post" ELSE "exec"}
    BY <1>7 DEF Probe, RegenerateDone, ScanAborts, ColdbootDone, PollTimesOut, LeaveUeventd, fstabVars
  <2> QED BY <1>6, <2>1, MapSame
<1>8. CASE ColdbootHandle \/ HandleUevent
  <2>1. PICK d \in coldQueue \cup socket : OnBlockDeviceAdd(d)
    BY <1>8 DEF ColdbootHandle, HandleUevent
  <2>2. /\ UNCHANGED <<run, fstab, mounted>> /\ phase \in {"coldboot", "loop"}
        /\ phase' \in {phase, IF run = 1 THEN "post" ELSE "exec"}
    BY <1>8 DEF ColdbootHandle, HandleUevent, LeaveUeventd, fstabVars
  <2>3. d \in Devices
    BY <1>1, <2>1 DEF TypeOK
  <2>4. MapRight' /\ config' = config
    BY <1>1, <2>1, <2>3, MapKeeps, ScanTypes DEF CompleteInv
  <2>5. OneSystem'
    BY <2>4, SameTaken DEF CompleteInv
  <2> QED BY <1>6, <2>2, <2>4, <2>5
<1>9. CASE BuildFstab
  <2>1. /\ phase = "post" /\ run = 1 /\ CanQuitUeventd /\ UNCHANGED <<mountVars, run, mounted>>
        /\ \/ fstab' = Fstab /\ phase' = "unmount"
           \/ fstab' = fstab /\ phase' = "aborted"
    BY <1>1, <1>9 DEF BuildFstab, EnoughFound
  <2>2. OneSystem' /\ MapRight' /\ config' = config
        /\ (SystemFromBlockDevices' <=> SystemFromBlockDevices)
    BY <2>1, MapSame
  <2>3. AllTried'
    BY <2>1 DEF AllTried
  <2>4. AllGiven'
    <3>1. CASE fstab' = Fstab /\ phase' = "unmount"
      <4>1. ASSUME ~config.recovery, SystemFromBlockDevices, NEW p \in SystemParts
            PROVE  \E e \in fstab' : Gives(e, p)
        BY <1>1, <2>1, <3>1, <4>1, AllFound DEF CompleteInv
      <4> QED BY <2>2, <4>1 DEF AllGiven, Gives
    <3>2. CASE fstab' = fstab /\ phase' = "aborted"
      BY <2>1, <3>2 DEF AllGiven, Built
    <3> QED BY <2>1, <3>1, <3>2
  <2> QED BY <2>2, <2>3, <2>4 DEF CompleteInv
<1>10. CASE UnmountAndroidDir \/ MountPartitionsDone \/ ExecuteSecondStageInit
  <2>1. /\ UNCHANGED <<mountVars, fstab, mounted>>
        /\ phase \in {"unmount", "mount", "exec"}
        /\ (run = 2 \/ phase \in {"exec", "secondStage"})'
             => run = 2 \/ phase \in {"exec", "secondStage"} \/ fstab = {}
    BY <1>10 DEF UnmountAndroidDir, MountPartitionsDone, ExecuteSecondStageInit, fstabVars
  <2>2. Built
    BY <2>1 DEF Built
  <2> QED BY <2>1, <2>2, MapSame, FstabSame
<1>11. CASE MountPartition
  <2>1. /\ phase = "mount" /\ phase' \in {"mount", "aborted"} /\ UNCHANGED <<mountVars, run>>
        /\ \A e \in (fstab \cup mounted) \ (fstab' \cup mounted') : e.noFail
        /\ fstab' \subseteq fstab
    BY <1>11 DEF MountPartition, NextEntries
  <2>2. OneSystem' /\ MapRight' /\ config' = config
        /\ (SystemFromBlockDevices' <=> SystemFromBlockDevices)
    BY <2>1, MapSame
  <2>3. AllTried'
    BY <2>1 DEF CompleteInv, AllTried
  <2>4. AllGiven'
    <3>1. Built
      BY <2>1 DEF Built
    <3>2. ASSUME ~config.recovery, SystemFromBlockDevices, NEW p \in SystemParts
          PROVE  \E e \in fstab' \cup mounted' : Gives(e, p)
      <4>1. PICK e \in fstab \cup mounted : Gives(e, p)
        BY <3>1, <3>2 DEF CompleteInv, AllGiven
      <4>2. e \in fstab' \cup mounted'
        BY <2>1, <4>1 DEF Gives
      <4> QED BY <4>1, <4>2
    <3> QED BY <2>2, <3>2 DEF AllGiven, Gives
  <2> QED BY <2>2, <2>3, <2>4 DEF CompleteInv
<1> QED BY <1>3, <1>4, <1>5, <1>7, <1>8, <1>9, <1>10, <1>11 DEF Next, InitStep

\* With one system on the disks, whatever else is there and in whatever order the devices
\* come up, the second stage gets all of it: no mount of a part of it is passed over, and
\* what the second run of ueventd finds does not change what the first has mounted.
THEOREM SystemIsComplete == OneSystem /\ Spec => []SystemComplete
<1>1. Init /\ OneSystem => CompleteInv
  <2> SUFFICES ASSUME Init, OneSystem PROVE CompleteInv
    OBVIOUS
  <2>1. MapRight
    BY DEF Init, MountInit, MapRight
  <2>2. AllGiven /\ AllTried
    BY DEF Init, AllGiven, AllTried, Built
  <2> QED BY <2>1, <2>2 DEF CompleteInv
<1>2. CompleteInv /\ StageInv /\ [Next]_vars => CompleteInv'
  BY CompleteStep
<1>3. CompleteInv => SystemComplete
  BY DEF CompleteInv, AllGiven, AllTried, Built, Gives, SystemComplete
<1> QED BY <1>1, <1>2, <1>3, StageInvariant, PTL DEF Spec
=============================================================================
