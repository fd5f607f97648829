SPECIFICATION Spec
CONSTANTS
  Devices <- FirmwareDevices
  Disk <- FirmwareDisk
  SystemParts <- MCSystemParts
  UserdataParts <- MCUserdataParts
  Configs <- FirmwareConfigs
  None = None
INVARIANTS FirmwareInAndroidDir
CHECK_DEADLOCK FALSE
