\* A holder key given as *rsa.PublicKey.
SPECIFICATION LifeSpec
CONSTANTS
  Nil = Nil
  Presentations = {}
  Nonces = {}
  VerifierOptions <- MCVerifierOptions
  ResolveKey <- MCResolveKey
  maxVerifyDepth = 2
  TicksPerSecond = 2
  MaxTime = 2
  Requests <- MCStdKey
  IssuerOptions <- MCIssuerOptions
  maxNestingDepth = 2
  defaultTokenTTL = 3
  HolderSigner <- MCHolderSigner
  PresentChoices <- MCPresentOptions
  MaxIssues = 1
  MaxPresents = 1
  MaxChallenges = 1
\* A failed issuance ends the story.
CHECK_DEADLOCK FALSE
INVARIANT RoundTrip
