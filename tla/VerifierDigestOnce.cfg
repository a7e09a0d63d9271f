\* A digest listed by two objects.
SPECIFICATION Spec
CONSTANTS
  Nil = Nil
  Presentations <- MCPresentations
  Nonces <- MCNonces
  VerifierOptions <- MCVerifierOptions
  ResolveKey <- MCResolveKey
  maxVerifyDepth = 2
  TicksPerSecond = 2
  MaxTime = 4
INVARIANT DigestOnce
