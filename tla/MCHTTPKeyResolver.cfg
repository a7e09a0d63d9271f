\* Two goroutines, whose fetches may hang, one issuer and two documents.
SPECIFICATION HTTPFairSpec
CONSTANTS
  Nil = Nil
  Callers = {c1, c2}
  Issuers = {"i"}
  Lookups <- MCLookups
  FirstDocument <- MCFirst
  Documents <- MCDocuments
  TTLs = {0}
  defaultTTL = 2
  MaxTime = 3
  MaxDocuments = 2
INVARIANTS HTTPTypeOK BoundedStaleness
PROPERTY ResolveReturns
