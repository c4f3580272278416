\* Identifiers with a zero byte after the first, for the owner.
CONSTANTS
  None = None
  Users <- MCUsersOwner
  Bytes <- MCBytesZero
  IdLen = 3
  Ids <- MCIdsInnerZero
  VersionTag <- MCVersionTag
  SystemDeKey <- MCSystemDeKey
  UserDeKey <- MCUserDeKey
  UserCeKey <- MCUserCeKey
  SystemDePolicy <- MCSystemDePolicy
  UserDePolicy <- MCUserDePolicy
  UserCePolicy <- MCUserCePolicy

SPECIFICATION Spec
INVARIANT RestoreRoundTrip
