SPECIFICATION Spec
CONSTANTS
  Devices <- MCDevices
  Disk <- MCDisk
  SystemParts <- MCSystemParts
  UserdataParts <- MCUserdataParts
  Configs <- MCConfigs
  None = None
INVARIANTS TypeOK NoNullDevice NoDeviceMissed SystemComplete
PROPERTIES FirstRunQuits SecondRunQuits
CHECK_DEADLOCK FALSE
