\* Backup and restore of every loaded key, for user ids of up to four digits and identifiers without a zero byte.
CONSTANTS
  None = None
  Users <- MCUsersRoundTrip
  Bytes <- MCBytesNonZero
  IdLen = 2
  VersionTag <- MCVersionTag
  SystemDeKey <- MCSystemDeKey
  UserDeKey <- MCUserDeKey
  UserCeKey <- MCUserCeKey
  SystemDePolicy <- MCSystemDePolicy
  UserDePolicy <- MCUserDePolicy
  UserCePolicy <- MCUserCePolicy

SPECIFICATION Spec
INVARIANT RestoreRoundTrip
