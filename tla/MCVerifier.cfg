\* Every presentation, option set and nonce of MCVerifier.
SPECIFICATION FairSpec
CONSTANTS
  Nil = Nil
  Presentations <- MCPresentations
  Nonces <- MCNonces
  VerifierOptions <- MCVerifierOptions
  ResolveKey <- MCResolveKey
  maxVerifyDepth = 2
  TicksPerSecond = 2
  MaxTime = 4
INVARIANTS TypeOK DigestMapExact
PROPERTIES KeepsContract VerifyReturns
