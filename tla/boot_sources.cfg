SPECIFICATION Spec
CONSTANTS
  Devices <- LiveDevices
  Disk <- LiveDisk
  SystemParts <- MCSystemParts
  UserdataParts <- MCUserdataParts
  Configs <- LiveConfigs
  None = None
INVARIANTS SourcesStillMounted
CHECK_DEADLOCK FALSE
