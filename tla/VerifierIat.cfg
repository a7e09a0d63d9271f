\* A credential issued in the future, by its iat claim.
SPECIFICATION Spec
CONSTANTS
  Nil = Nil
  Presentations <- MCPresentations
  Nonces <- MCNonces
  VerifierOptions <- MCVerifierOptions
  ResolveKey <- MCResolveKey
  maxVerifyDepth = 2
  TicksPerSecond = 2
  MaxTime = 4
INVARIANT IatChecked
