---------------------------- MODULE MountHandler ----------------------------
(***************************************************************************)
(* The mount handler of generic_init: it scans every block device that     *)
(* ueventd announces, remembers which one holds which Android partition,   *)
(* the android dir and the firmware dir, tells ueventd when it has seen    *)
(* enough, and says in the end what is to be mounted from where.           *)
(***************************************************************************)
EXTENDS Integers, FiniteSets

CONSTANTS
  Devices,         \* the block devices (devpaths)
  Disk,            \* what is on each device: a record, see DiskAssumption
  SystemParts,     \* android_system_partitions
  UserdataParts,   \* android_userdata_partitions
  Configs,         \* the boot parameters the system may be started with
  None             \* no device, no partition

FirmwareParams == {"all_possible_dirs", "disable", "only_android_dir", "img", "img_ram"}
SystemParams == {"std_parts", "blk_devices", "imgs", "imgs_ram"}
UserdataParams == {"std_parts", "imgs", "bind_mount_dir", "tmpfs"}

\* fs is one of the tried types, apfs, nothing known, or a device that cannot be
\* mounted at all (a failing one, or without a medium); buildProp the partition that
\* its build.prop tells; fwUsr stands for the firmware directories outside the android dir.
ASSUME DiskAssumption ==
  /\ Disk \in [Devices ->
       [ignored : BOOLEAN, partname : SystemParts \cup UserdataParts \cup {None},
        fs : {"plain", "apfs", "unknown", "unreadable"},
        buildProp : SystemParts \cup {None}, subdirs : SUBSET SystemParts, cacheDir : BOOLEAN,
        androidDir : BOOLEAN, images : SUBSET (SystemParts \cup UserdataParts \cup {"firmware"}),
        userdataDirs : SUBSET UserdataParts, fwAndroid : BOOLEAN, fwUsr : BOOLEAN]]
  /\ None \notin Devices /\ None \notin SystemParts \cup UserdataParts
  /\ {"system"} \subseteq SystemParts /\ {"userdata", "cache"} \subseteq UserdataParts
  /\ Configs \subseteq [system : SystemParams, userdata : UserdataParams,
                        firmware : FirmwareParams, recovery : BOOLEAN]

VARIABLES
  config,          \* param_mount_system, _userdata and _firmware, and the boot mode
  parsed,          \* the keys of block_devices
  info,            \* block_devices: what the scan of each device has found
  systemMap,       \* android_system_part_to_bdev_map
  userdataMap,     \* android_userdata_part_to_bdev_map
  androidBdev,     \* block_device_for_android_dir
  firmwareBdev,    \* block_device_for_firmware_dir
  needMountCache   \* need_mount_cache
mountVars == <<config, parsed, info, systemMap, userdataMap, androidBdev, firmwareBdev,
               needMountCache>>

\* The block device info of a device on which nothing is found.
NothingFound ==
  [partition |-> None, subdirs |-> {}, androidDir |-> FALSE, firmwareDir |-> "none"]

-----------------------------------------------------------------------------
(* ParseConfig *)

SystemFromBlockDevices == config.system \in {"std_parts", "blk_devices"}

SystemFromImages == config.system \in {"imgs", "imgs_ram"}

FirmwareFromImage == config.firmware \in {"img", "img_ram"}

NeedFirmwareDir == config.firmware \in {"all_possible_dirs", "only_android_dir"}

NeedAndroidDir ==
  FirmwareFromImage \/ SystemFromImages \/ config.userdata \in {"imgs", "bind_mount_dir"}

\* OnPreBlockDevices: an empty set of block devices, and the parameters.
MountInit ==
  /\ config \in Configs
  /\ parsed = {}
  /\ info = [d \in Devices |-> NothingFound]
  /\ systemMap = [p \in SystemParts |-> None]
  /\ userdataMap = [p \in UserdataParts |-> None]
  /\ androidBdev = None
  /\ firmwareBdev = None
  /\ needMountCache = FALSE

-----------------------------------------------------------------------------
(* ParseBlockDevice_CheckDirs *)

\* The first of the possible firmware directories that exists.  With
\* only_android_dir the search ends after the first name it tried, and it tries none
\* inside the android dir when there is no android dir.
FirmwareDir(d) ==
  IF Disk[d].androidDir /\ Disk[d].fwAndroid THEN "android"
  ELSE IF config.firmware = "only_android_dir" /\ Disk[d].androidDir THEN "none"
  ELSE IF Disk[d].fwUsr THEN "usr" ELSE "none"

\* Directories are looked for only where no system partition has been recognised.
CheckDirs(d, partition) ==
  [partition |-> partition,
   subdirs |-> IF partition = None THEN {} ELSE Disk[d].subdirs,
   androidDir |-> partition = None /\ Disk[d].androidDir,
   firmwareDir |-> IF partition = None THEN FirmwareDir(d) ELSE "none"]

-----------------------------------------------------------------------------
(* ParseApfsBlockDevice and ParseBlockDevice *)

\* Only a volume with an android dir makes an APFS device of interest.
ParseApfs(d) == IF Disk[d].androidDir THEN CheckDirs(d, None) ELSE NothingFound

\* Whatever the scan of d can find.  (Of a device of which no APFS volume can be
\* mounted, for another reason than its contents, the code reads success uninitialised;
\* the outcome that does not end in LOG(FATAL) is to find nothing.)
ParseBlockDevice(d) ==
  IF Disk[d].fs = "plain" THEN CheckDirs(d, Disk[d].buildProp)
  ELSE IF Disk[d].fs = "apfs" THEN ParseApfs(d)
  ELSE NothingFound

SetsNeedMountCache(d) ==
  Disk[d].fs = "plain" /\ Disk[d].buildProp = "system" /\ Disk[d].cacheDir

-----------------------------------------------------------------------------
(* UpdateMountInfo *)

\* Variant: PARTNAME is not looked up in the list of system partitions.
SystemPartOfUnchecked(d, found) ==
  IF config.system = "std_parts" THEN Disk[d].partname
  ELSE IF config.system = "blk_devices" THEN found.partition
  ELSE None

\* The system partition d is taken for, if any.
SystemPartOf(d, found) ==
  IF config.system = "std_parts" /\ Disk[d].partname \in SystemParts THEN Disk[d].partname
  ELSE IF config.system = "blk_devices" THEN found.partition
  ELSE None

IsUserdataPart(d) == config.userdata = "std_parts" /\ Disk[d].partname \in UserdataParts

\* Variant: the partitions that are subdirectories of d are not recorded.
UpdateSystemMapOnly(d, found) ==
  LET part == SystemPartOf(d, found)
  IN  IF part = None THEN UNCHANGED systemMap
      ELSE systemMap' = [systemMap EXCEPT ![part] = d]

\* The partition, and every partition that is a subdirectory of it, is on d.
UpdateSystemMap(d, found) ==
  LET part == SystemPartOf(d, found)
  IN  IF part = None THEN UNCHANGED systemMap
      ELSE systemMap' = [p \in DOMAIN systemMap \cup {part} \cup found.subdirs |->
                           IF p = part \/ p \in found.subdirs THEN d ELSE systemMap[p]]

\* A device is a system partition, or else a userdata partition, or else it may have
\* the android dir and the firmware dir; the last one found is remembered.
UpdateMountInfo(d, found) ==
  LET other == SystemPartOf(d, found) = None /\ ~IsUserdataPart(d)
  IN  /\ UpdateSystemMap(d, found)
      /\ IF SystemPartOf(d, found) = None /\ IsUserdataPart(d)
         THEN userdataMap' = [userdataMap EXCEPT ![Disk[d].partname] = d]
         ELSE UNCHANGED userdataMap
      /\ androidBdev' = IF other /\ NeedAndroidDir /\ found.androidDir THEN d ELSE androidBdev
      /\ firmwareBdev' = IF other /\ NeedFirmwareDir /\ found.firmwareDir # "none"
                         THEN d ELSE firmwareBdev

\* A device is scanned once; dm, loop and ram devices never.
OnBlockDeviceAdd(d) ==
  IF d \in parsed \/ Disk[d].ignored THEN UNCHANGED mountVars
  ELSE LET found == ParseBlockDevice(d)
       IN  /\ parsed' = parsed \cup {d}
           /\ info' = [info EXCEPT ![d] = found]
           /\ needMountCache' = (needMountCache \/ SetsNeedMountCache(d))
           /\ UpdateMountInfo(d, found)
           /\ UNCHANGED config

-----------------------------------------------------------------------------
(* CanQuitUeventd *)

\* Variant: the firmware directory is not waited for.
CanQuitUeventdWithoutFirmware ==
  /\ SystemFromBlockDevices => \A p \in DOMAIN systemMap : systemMap[p] # None
  /\ config.userdata = "std_parts" =>
       \A p \in UserdataParts : userdataMap[p] # None \/ (p = "cache" /\ ~needMountCache)
  /\ NeedAndroidDir => androidBdev # None

CanQuitUeventd ==
  /\ SystemFromBlockDevices => \A p \in DOMAIN systemMap : systemMap[p] # None
  /\ config.userdata = "std_parts" =>
       \A p \in UserdataParts : userdataMap[p] # None \/ (p = "cache" /\ ~needMountCache)
  /\ NeedAndroidDir => androidBdev # None
  /\ NeedFirmwareDir => firmwareBdev # None

-----------------------------------------------------------------------------
(* OnPostBlockDevices: the virtual fstab *)

\* What is mounted where: a block device, an image on a loop device (of a file in the
\* android dir or of its copy in RAM), a directory of the android dir or of the
\* firmware device, or a tmpfs.
Entry(point, from, dev, noFail) == [point |-> point, from |-> from, dev |-> dev, noFail |-> noFail]

\* A partition is mounted from the device recorded for it if it is that partition
\* by its contents, too; otherwise it is taken for a subdirectory.
SystemEntries ==
  IF config.recovery \/ ~SystemFromBlockDevices THEN {}
  ELSE {Entry(p, "device", systemMap[p], FALSE) :
          p \in {q \in SystemParts : info[systemMap[q]].partition = q}}

UserdataEntries ==
  IF config.recovery \/ config.userdata # "std_parts" THEN {}
  ELSE {Entry(p, "device", userdataMap[p], p # "userdata") :
          p \in {q \in UserdataParts : q # "cache" \/ needMountCache}}

Images == IF androidBdev = None THEN {} ELSE Disk[androidBdev].images

ImageEntries ==
  {Entry(p, IF config.system = "imgs_ram" THEN "ram" ELSE "image", androidBdev, FALSE) :
     p \in {q \in Images \cap SystemParts : ~config.recovery /\ SystemFromImages}}
  \cup
  {Entry(p, "image", androidBdev, FALSE) :
     p \in {q \in Images \cap UserdataParts :
              ~config.recovery /\ config.userdata = "imgs" /\ (q # "cache" \/ needMountCache)}}

BindEntries ==
  IF config.recovery \/ config.userdata # "bind_mount_dir" THEN {}
  ELSE {Entry(p, "android", androidBdev, FALSE) :
          p \in {q \in Disk[androidBdev].userdataDirs : q # "cache" \/ needMountCache}}

TmpfsEntries ==
  IF config.recovery \/ config.userdata # "tmpfs" THEN {}
  ELSE {Entry(p, "tmpfs", None, p # "userdata") : p \in UserdataParts}

FirmwareEntries ==
  IF FirmwareFromImage
  THEN {Entry("firmware", IF config.firmware = "img_ram" THEN "ram" ELSE "image", androidBdev, TRUE)}
  ELSE IF NeedFirmwareDir
  THEN {Entry("firmware", IF firmwareBdev = androidBdev THEN "android" ELSE "firmware",
              firmwareBdev, TRUE)}
  ELSE {}

Fstab ==
  SystemEntries \cup UserdataEntries \cup ImageEntries \cup BindEntries \cup TmpfsEntries
  \cup FirmwareEntries

\* LOG(FATAL): the firmware image is asked for and is not in the android dir.
FirmwareImageMissing == FirmwareFromImage /\ "firmware" \notin Images

\* The devices the virtual fstab reads through the maps: each must be there.
DevicesRead ==
  (IF NeedAndroidDir THEN {androidBdev} ELSE {})
  \cup (IF NeedFirmwareDir THEN {firmwareBdev} ELSE {})
  \cup (IF SystemFromBlockDevices /\ ~config.recovery THEN {systemMap[p] : p \in SystemParts} ELSE {})
  \cup (IF config.userdata = "std_parts" /\ ~config.recovery
        THEN {userdataMap[p] : p \in {q \in UserdataParts : q # "cache" \/ needMountCache}} ELSE {})

\* Every variable stays in its domain.
MountTypeOK ==
  /\ config \in Configs
  /\ parsed \in SUBSET Devices
  /\ systemMap \in [SystemParts -> Devices \cup {None}]
  /\ userdataMap \in [UserdataParts -> Devices \cup {None}]
  /\ androidBdev \in Devices \cup {None}
  /\ firmwareBdev \in Devices \cup {None}
  /\ needMountCache \in BOOLEAN
  /\ info \in [Devices -> [partition : SystemParts \cup {None}, subdirs : SUBSET SystemParts,
                           androidDir : BOOLEAN, firmwareDir : {"none", "android", "usr"}]]
=============================================================================
