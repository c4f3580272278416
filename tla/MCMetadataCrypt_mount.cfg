\* Mounting /data across reboots, on fresh and provisioned devices.
SPECIFICATION Spec
CONSTANTS
  Confs <- MCConfs
  StartStates <- MCStarts
  FsTypes <- MCFsTypes
  ExtLabels <- MCLabels
  VolumeKey = vk
  vk = vk
  MainSectors = 21
  ZonedSectors = 35
  MaxKeys = 2
  MaxCalls = 3
  None = None
INVARIANTS
  TypeOK
  UserDataRecoverable
  DeviceKeyIsStored
  InplaceCoversDevice
PROPERTY
  KeysAbsSpec
