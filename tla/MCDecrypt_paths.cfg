\* Every path of Decrypt_User for one user, on all three gatekeeper setups.
CONSTANTS
  c1 = c1
  c2 = c2
  None = None
  Users <- MCUsers
  Creds <- MCCreds
  Layouts <- MCLayoutsPaths
  GkKinds <- MCGkKindsAll
  PadBytes <- MCPadBytes
  TailBytes <- MCTailBytes
  MaxCalls = 3

SPECIFICATION FairSpec
PROPERTY AbsSpec
PROPERTY CallReturns
\* The caller (the recovery UI) stops calling after MaxCalls attempts.
CHECK_DEADLOCK FALSE
