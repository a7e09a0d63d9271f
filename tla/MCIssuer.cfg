\* Two calls, each with any request, two levels of StructuredClaims allowed.
SPECIFICATION IssuerSpec
CONSTANTS
  Nil = Nil
  Requests <- MCRequests
  IssuerOptions <- MCIssuerOptions
  maxNestingDepth = 2
  defaultTokenTTL = 3
  TicksPerSecond = 2
  MaxTime = 2
  MaxIssues = 2
\* After its last call the issuer stays idle.
CHECK_DEADLOCK FALSE
INVARIANTS IssuerTypeOK CommitsOnce ClaimsPreserved SelectiveHidden IssuesAllOrNothing
