\* The calls of example/mortgage: one presentation, verified twice.
SPECIFICATION LifeSpec
CONSTANTS
  Nil = Nil
  Presentations = {}
  Nonces = {}
  VerifierOptions <- conveyancer
  ResolveKey <- resolver
  maxVerifyDepth = 2
  TicksPerSecond = 2
  MaxTime = 2
  Requests <- offer
  IssuerOptions <- bank
  maxNestingDepth = 2
  defaultTokenTTL = 3
  HolderSigner <- walletSigner
  PresentChoices <- presentation
  MaxIssues = 1
  MaxPresents = 1
  MaxChallenges = 2
\* A failed issuance ends the story.
CHECK_DEADLOCK FALSE
INVARIANT RoundTrip
