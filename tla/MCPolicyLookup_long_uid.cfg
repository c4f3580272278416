\* Users whose ids agree in the first four digits.
CONSTANTS
  None = None
  Users <- MCUsersLong
  Bytes <- MCBytesSmall
  IdLen = 3
  VersionTag <- MCVersionTag
  SystemDeKey <- MCSystemDeKey
  UserDeKey <- MCUserDeKey
  UserCeKey <- MCUserCeKey
  SystemDePolicy <- MCSystemDePolicy
  UserDePolicy <- MCUserDePolicy
  UserCePolicy <- MCUserCePolicy

SPECIFICATION Spec
INVARIANT RestoreRoundTrip
