\* One credential, two presentations, two challenges.
SPECIFICATION LifeSpec
CONSTANTS
  Nil = Nil
  Presentations = {}
  Nonces = {}
  VerifierOptions <- MCVerifierOptions
  ResolveKey <- MCResolveKey
  maxVerifyDepth = 2
  TicksPerSecond = 2
  MaxTime = 3
  Requests <- MCRequests
  IssuerOptions <- MCIssuerOptions
  maxNestingDepth = 2
  defaultTokenTTL = 3
  HolderSigner <- MCHolderSigner
  PresentChoices <- MCPresentOptions
  MaxIssues = 1
  MaxPresents = 2
  MaxChallenges = 2
\* A failed issuance ends the story.
CHECK_DEADLOCK FALSE
INVARIANTS KeyBoundAgreement RevealedExactly RoundTrip
