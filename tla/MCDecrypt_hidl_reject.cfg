\* A secdis user behind a HIDL gatekeeper that rejects or throttles.
CONSTANTS
  c1 = c1
  c2 = c2
  None = None
  Users <- MCUsers
  Creds <- MCCreds
  Layouts <- MCLayoutsSecdis
  GkKinds <- MCGkHidl
  PadBytes <- MCPadBytes
  TailBytes <- MCTailBytes
  MaxCalls = 3

SPECIFICATION Spec
INVARIANT NoBeginAfterGatekeeperRejects
CHECK_DEADLOCK FALSE
