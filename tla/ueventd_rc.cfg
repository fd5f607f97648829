SPECIFICATION RcSpec
CONSTANTS
  Paths <- MCPaths
  PathOrder <- MCPathOrder
  Configs <- MCConfigs
  FileSystems <- MCFileSystems
  Sizes <- MCSizes
  AbsoluteNames <- MCAbsoluteNames
  Nodes <- MCNodes
  ImportDepth <- MCImportDepth
  Machines <- MCMachines
  Requests <- MCRequests
  Probes <- MCProbes
  Firmware <- MCFirmware
  Names <- MCNames
  Invalid <- MCInvalid
  Provides <- MCProvides
  PathsMatching <- MCPathsMatching
  Images <- MCImages
  ApexDirectories <- MCApexDirectories
  Versioned <- MCVersioned
  Children = {c1, c2}
  Ueventd = ueventd
  None = None
CHECK_DEADLOCK FALSE
INVARIANTS RcTypeOK ConfigurationAsWritten ImportOverrides AnnouncementServedOnce ServedAsConfigured
PROPERTIES RequestsEnd UeventdReturns
