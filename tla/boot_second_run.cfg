SPECIFICATION Spec
CONSTANTS
  Devices <- OldDevices
  Disk <- OldDisk
  SystemParts <- MCSystemParts
  UserdataParts <- MCUserdataParts
  Configs <- OldConfigs
  None = None
PROPERTIES SecondRunQuits
CHECK_DEADLOCK FALSE
