--------------------------- MODULE MCFirstStage ---------------------------
(***************************************************************************)
(* FirstStage on a machine with the partitions of one Android system, a    *)
(* disk with an android dir and a disk with another Linux system.          *)
(***************************************************************************)
EXTENDS FirstStage

MCSystemParts == {"system", "vendor", "product"}

MCUserdataParts == {"userdata", "cache"}

Blank ==
  [ignored |-> FALSE, partname |-> None, fs |-> "plain", buildProp |-> None, subdirs |-> {},
   cacheDir |-> FALSE, androidDir |-> FALSE, images |-> {}, userdataDirs |-> {},
   fwAndroid |-> FALSE, fwUsr |-> FALSE]

AllDisks ==
  [loop0 |-> [Blank EXCEPT !.ignored = TRUE],
   sysdev |-> [Blank EXCEPT !.partname = "system", !.buildProp = "system", !.subdirs = {"product"}],
   vendev |-> [Blank EXCEPT !.partname = "vendor", !.buildProp = "vendor"],
   datadev |-> [Blank EXCEPT !.partname = "userdata"],
   android |-> [Blank EXCEPT !.androidDir = TRUE, !.fwAndroid = TRUE, !.userdataDirs = {"userdata"},
                             !.images = {"system", "vendor", "userdata", "firmware"}],
   linux |-> [Blank EXCEPT !.fwUsr = TRUE],
   oldsys |-> [Blank EXCEPT !.buildProp = "system", !.cacheDir = TRUE],
   badcache |-> [Blank EXCEPT !.partname = "cache", !.fs = "unreadable"]]

\* What any boot parameters may ask for is there once.  The system wants a cache, and
\* nothing can be mounted from the disk with that one.
MCDevices == {"sysdev", "vendev", "datadev", "android", "badcache"}
MCDisk == [[d \in MCDevices |-> AllDisks[d]] EXCEPT !.sysdev.cacheDir = TRUE]

Boot(system, userdata, firmware, recovery) ==
  [system |-> system, userdata |-> userdata, firmware |-> firmware, recovery |-> recovery]

\* The entries of the shipped boot menus, the default of the parameters, two mixed ones
\* and a recovery.
MCConfigs ==
  {Boot("imgs", "imgs", "all_possible_dirs", FALSE),
   Boot("imgs", "bind_mount_dir", "all_possible_dirs", FALSE),
   Boot("imgs_ram", "tmpfs", "all_possible_dirs", FALSE),
   Boot("imgs", "tmpfs", "img", FALSE),
   Boot("imgs_ram", "tmpfs", "img_ram", FALSE),
   Boot("std_parts", "std_parts", "all_possible_dirs", FALSE),
   Boot("blk_devices", "std_parts", "only_android_dir", FALSE),
   Boot("blk_devices", "bind_mount_dir", "disable", FALSE),
   Boot("imgs", "tmpfs", "img", TRUE)}

-----------------------------------------------------------------------------
(* Smaller machines, for one question each *)

\* A live medium: everything is in the android dir, of one device.
LiveDevices == {"android"}
LiveDisk == [d \in LiveDevices |-> AllDisks[d]]
LiveConfigs == {Boot("imgs_ram", "tmpfs", "all_possible_dirs", FALSE)}

\* Only the other Linux system has firmware outside an android dir.
FirmwareDevices == {"linux", "android"}
FirmwareDisk == [d \in FirmwareDevices |-> AllDisks[d]]
FirmwareConfigs == {Boot("imgs", "imgs", "only_android_dir", FALSE)}

\* A disk with an older Android system, without a cache partition for it.
OldDevices == {"sysdev", "vendev", "datadev", "oldsys"}
OldDisk == [d \in OldDevices |-> AllDisks[d]]
OldConfigs == {Boot("std_parts", "std_parts", "disable", FALSE)}
=============================================================================
