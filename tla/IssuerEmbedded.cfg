\* StructuredClaims as array elements.
SPECIFICATION IssuerSpec
CONSTANTS
  Nil = Nil
  Requests <- MCEmbedded
  IssuerOptions <- MCIssuerOptions
  maxNestingDepth = 2
  defaultTokenTTL = 3
  TicksPerSecond = 2
  MaxTime = 2
  MaxIssues = 1
CHECK_DEADLOCK FALSE
INVARIANT SelectiveHidden
