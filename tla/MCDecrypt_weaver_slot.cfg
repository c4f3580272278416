\* A weaver user in a slot above 255, with the right credential.
CONSTANTS
  c1 = c1
  c2 = c2
  None = None
  Users <- MCUsers
  Creds <- MCCreds
  Layouts <- MCLayoutsSlot
  GkKinds <- MCGkKinds
  PadBytes <- MCPadBytes
  TailBytes <- MCTailBytes
  MaxCalls = 3

SPECIFICATION Spec
INVARIANT CorrectCredentialUnlocks
CHECK_DEADLOCK FALSE
