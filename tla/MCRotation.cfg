\* Verify and one other goroutine, one rotation.
SPECIFICATION RotationSpec
CONSTANTS
  Nil = Nil
  Presentations <- MCPresentations
  Nonces = {"n"}
  VerifierOptions <- MCVerifierOptions
  maxVerifyDepth = 2
  TicksPerSecond = 1
  MaxTime = 2
  Self = self
  Callers = {self, other}
  Issuers = {"i", "j"}
  Lookups <- MCLookups
  FirstDocument <- MCFirst
  Documents <- MCDocuments
  TTLs = {2}
  defaultTTL = 1
  MaxDocuments = 2
INVARIANTS AcceptedWhilePublished RefusedOnlyIfUnpublished
PROPERTY ImplementsVerifier
