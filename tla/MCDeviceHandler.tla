--------------------------- MODULE MCDeviceHandler ---------------------------
(***************************************************************************)
(* DeviceHandler with a disk, two device mapper tables that take over each *)
(* other's names, and a device of a driver.                                *)
(***************************************************************************)
EXTENDS DeviceHandler, TLC

CONSTANTS disk, dm1, dm2, child, name1, name2, partition, hub, soc

MCDisks == {disk}
MCDms == {dm1, dm2}
MCChildren == {child}
MCDevNumbers == [d \in MCDisks \cup MCDms \cup MCChildren |-> IF d \in MCChildren THEN {1, 2} ELSE {1}]
MCDmNames == {name1, name2}
MCPartitionName == [d \in MCDisks |-> partition]
MCZoned == {disk}

\* The disk is below a hub of the system on chip, and both may go with it.
MCLinkPath == [d \in MCDisks |-> hub]
MCOtherPaths == [d \in MCDisks |-> {soc, None}]

Rule(paths, perm) == [paths |-> paths, perm |-> perm]

\* The second run has other rules for the disk and the character device, and one for all
\* tables.
MCRules ==
  <<<<Rule({disk}, "root"), Rule(MCDms, "ramdisk")>>,
    <<Rule(MCDisks \cup MCDms \cup MCChildren, "system"), Rule(MapperLinks, "mapper"),
      Rule({ByName(hub, partition)}, "boot"), Rule({DriverNode(child)}, "driver")>>>>
MCPerms == {"root", "ramdisk", "system", "mapper", "boot", "driver"}

\* The tables, and their names, may be exchanged.
Exchanges == Permutations(MCDms) \cup Permutations(MCDmNames)
=============================================================================
