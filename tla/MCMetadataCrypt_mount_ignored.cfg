\* The device of BaseConf; one property the code violates.
SPECIFICATION Spec
CONSTANTS
  Confs <- MCConfsBase
  StartStates <- MCStarts
  FsTypes <- MCFsTypes
  ExtLabels <- MCLabels
  VolumeKey = vk
  vk = vk
  MainSectors = 21
  ZonedSectors = 35
  MaxKeys = 2
  MaxCalls = 3
  None = None
INVARIANT
  MountResultMeansMounted
