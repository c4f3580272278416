\* Round trip, isolation and refinement: users 0 and 10 with a credential on
\* weaver, secdis or legacy files, a refused id, on both gatekeeper HALs.
CONSTANTS
  c1 = c1
  c2 = c2
  None = None
  Users <- MCUsersMulti
  Creds <- MCCreds
  Layouts <- MCLayoutsMulti
  GkKinds <- MCGkKinds
  PadBytes <- MCPadBytes
  TailBytes <- MCTailBytes
  MaxCalls = 3

SPECIFICATION Spec
INVARIANT TypeOK
INVARIANT CorrectCredentialUnlocks
PROPERTY AbsSpec
\* The caller (the recovery UI) stops calling after MaxCalls attempts.
CHECK_DEADLOCK FALSE
