\* A selective structured claim with a selective field inside.
SPECIFICATION LifeSpec
CONSTANTS
  Nil = Nil
  Presentations = {}
  Nonces = {}
  VerifierOptions <- MCVerifierOptions
  ResolveKey <- MCResolveKey
  maxVerifyDepth = 2
  TicksPerSecond = 2
  MaxTime = 2
  Requests <- MCRecursive
  IssuerOptions <- MCIssuerOptions
  maxNestingDepth = 2
  defaultTokenTTL = 3
  HolderSigner <- MCHolderSigner
  PresentChoices <- MCRevealBoth
  MaxIssues = 1
  MaxPresents = 1
  MaxChallenges = 1
\* A failed issuance ends the story.
CHECK_DEADLOCK FALSE
INVARIANT RoundTrip
