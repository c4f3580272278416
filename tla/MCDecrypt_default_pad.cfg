\* Users without a credential, unlocked with the default password token.
CONSTANTS
  c1 = c1
  c2 = c2
  None = None
  Users <- MCUsers
  Creds <- MCCreds
  Layouts <- MCLayoutsDefault
  GkKinds <- MCGkKinds
  PadBytes <- MCPadBytes
  TailBytes <- MCTailBytes
  MaxCalls = 3

SPECIFICATION Spec
INVARIANT CorrectCredentialUnlocks
CHECK_DEADLOCK FALSE
