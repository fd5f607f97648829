SPECIFICATION Spec
CONSTANTS
  disk = disk
  dm1 = dm1
  dm2 = dm2
  child = child
  name1 = name1
  name2 = name2
  partition = partition
  hub = hub
  soc = soc
  None = None
  Disks <- MCDisks
  Dms <- MCDms
  Children <- MCChildren
  DevNumbers <- MCDevNumbers
  DmNames <- MCDmNames
  PartitionName <- MCPartitionName
  LinkPath <- MCLinkPath
  OtherPaths <- MCOtherPaths
  Zoned <- MCZoned
  Rules <- MCRules
  Perms <- MCPerms
  Default = "root"
  MaxUevents = 4
SYMMETRY Exchanges
INVARIANT DriverNodesGo
CHECK_DEADLOCK FALSE
