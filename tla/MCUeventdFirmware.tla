------------------------- MODULE MCUeventdFirmware -------------------------
(***************************************************************************)
(* UeventdFirmware on ramdisks whose ueventd.rc has any three of the lines *)
(* below, and imports vendor.rc, a directory, or a file that is missing.   *)
(* On a few of them two devices ask for firmware.                          *)
(***************************************************************************)
EXTENDS UeventdFirmware

Line(key, arg) == [key |-> key, arg |-> arg]
Import(p) == Line("import", [ok |-> TRUE, path |-> p])
Section(key, name) == Line(key, [ok |-> TRUE, name |-> name])
Word(key, word) == Line(key, [ok |-> TRUE, word |-> word])
Rule(nodes, perm) == Line("/dev/", [ok |-> TRUE, rule |-> [paths |-> nodes, perm |-> perm]])
Dirs(ds) == Line("firmware_directories", [ok |-> TRUE, directories |-> ds])
Handler(devpath, match, path) ==
  Line("external_firmware_handler",
       [ok |-> TRUE, devpath |-> devpath, match |-> match, path |-> path])
Refused(key) == Line(key, [ok |-> FALSE])

MCPaths == {"rc", "vendor", "dir", "dir/a", "dir/b", "nothing"}
MCPathOrder == [p \in MCPaths |-> IF p = "dir/b" THEN 2 ELSE 1]
MCConfigs == <<"rc">>
MCImportDepth ==
  [p \in MCPaths |-> CASE p = "rc" -> 3 [] p = "vendor" -> 2 [] p = "dir" -> 1 [] OTHER -> 0]
MCSizes == {"0", "4"}
MCAbsoluteNames == {"/dev/snd"}
MCNodes == {"null", "snd"}

RootLines ==
  {Import("vendor"), Import("dir"), Refused("import"), Section("subsystem", "sound"),
   Word("dirname", "/dev/snd"), Rule({"null", "snd"}, "rc"), Dirs(<<"odm">>),
   Word("parallel_ueventd_main_loop_max_workers", "4")}
VendorFiles ==
  { <<Rule({"snd"}, "vendor"), Word("devname", "sys_name"), Import("dir"), Dirs(<<"vendor">>)>>,
    <<Section("driver", "usb"), Word("devname", "sys_name"), Section("subsystem", "sound"),
      Word("dirname", "snd"), Import("nothing")>>,
    <<Section("subsystem", "usb"), Word("parallel_ueventd_main_loop", "enabled"),
      Word("dirname", "/dev/snd")>>,
    <<Refused("subsystem"), Word("dirname", "/dev/snd"), Section("subsystem", "sound"),
      Refused("devname"), Word("devname", "uevent_devpath")>> }
FirstInDir ==
  <<Section("subsystem", "sound"), Word("devname", "uevent_devpath"),
    Word("uevent_socket_rcvbuf_size", "4"), Word("uevent_socket_rcvbuf_size", "much"),
    Word("modalias_handling", "disabled"), Rule({"snd"}, "dir/a")>>
SecondInDir ==
  <<Word("dirname", "/dev/snd"), Dirs(<<"dir">>), Word("modalias_handling", "on"),
    Refused("/dev/"), Line("/sys/", [ok |-> TRUE, rule |-> "sys"]),
    Word("parallel_ueventd_main_loop_max_workers", "0")>>

Ramdisk(root, vendor) ==
  [p \in MCPaths |->
     CASE p = "rc" -> File(root)
       [] p = "vendor" -> File(vendor)
       [] p = "dir" -> Directory({"dir/a", "dir/b"})
       [] p = "dir/a" -> File(FirstInDir)
       [] p = "dir/b" -> File(SecondInDir)
       [] p = "nothing" -> NoFile]

MCMachines ==
  { Ramdisk(<<Import("vendor"), Dirs(<<"odm">>), Handler("wifi", "equal", "first")>>,
            <<Handler("wifi", "prefix", "second"), Dirs(<<"vendor">>)>>),
    Ramdisk(<<Dirs(<<"odm">>), Handler("wifi", "prefix", "second"),
              Handler("wifi", "equal", "first")>>, <<>>),
    Ramdisk(<<Handler("wifi", "equal", "bad"), Import("vendor")>>,
            <<Refused("external_firmware_handler"), Handler("wifi", "equal", "first")>>) }

MCFileSystems ==
  MCMachines \cup {Ramdisk(<<a, b, c>>, vendor) : a, b, c \in RootLines, vendor \in VendorFiles}

MCRequests == {"wifi", "wifi1"}
MCProbes == {"wifi1"}
MCFirmware == [r \in MCRequests |-> IF r = "wifi" THEN "fw" ELSE "fw1"]
MCNames == {"fw", "fw1", "new", "other", "../fw"}
MCInvalid == {"../fw"}
MCProvides == [h \in {"first", "second", "bad"} |->
                 CASE h = "first" -> "new" [] h = "second" -> "other" [] h = "bad" -> "../fw"]
MCPathsMatching ==
  [pattern \in {"wifi"} \X {"equal", "prefix"} |->
     IF pattern[2] = "equal" THEN {"wifi"} ELSE MCRequests]
MCImages ==
  [d \in {"odm", "vendor", "dir", "apex", "apex@1"} |->
     CASE d = "odm" -> {"fw", "new"} [] d = "vendor" -> {"fw", "other"}
       [] d = "apex" -> {"fw", "fw1", "new"} [] OTHER -> {}]
MCApexDirectories == <<"apex@1", "apex">>
MCVersioned == {"apex@1"}
=============================================================================
