--------------------------- MODULE HTTPKeyResolver ---------------------------
(***************************************************************************)
(* HTTPKeyResolver (adapters/jwx/jwx.go): goroutines that resolve keys at  *)
(* the same time through one cache of JWKS documents.                      *)
(*                                                                         *)
(* The cache is read under a read lock and written under the write lock    *)
(* of r.mu, but neither is held while the age of an entry is checked or a  *)
(* document is fetched, so each of these is a step of its own.  The        *)
(* issuers, which publish and replace their documents as they like, the    *)
(* clock and HTTP are the environment: a fetch is answered with the        *)
(* document of the moment, the answer takes any time to arrive, it may     *)
(* fail until it has arrived, and it may do neither: nothing ends a fetch  *)
(* whose context does not.                                                 *)
(*                                                                         *)
(* published, served and slowest record what happened, for the properties; *)
(* no step of the resolver reads them.                                     *)
(***************************************************************************)
EXTENDS Jwx

CONSTANTS
  Callers,       \* goroutines in ResolveKey
  Issuers,       \* issuer identifiers; each has one JWKS URL
  Lookups,       \* the [issuer, keyID] asked for; Nil for a JWT without a kid
  FirstDocument, \* issuer -> the JWK set it publishes at first
  Documents,     \* issuer -> those it may publish later
  TTLs,          \* the ttl arguments of NewHTTPKeyResolver, in ticks
  defaultTTL,    \* 5 minutes
  MaxTime,       \* bound on the clock
  MaxDocuments   \* bound on the documents an issuer publishes

ASSUME HTTPAssumption ==
  /\ \A q \in Lookups : q.issuer \in Issuers
  /\ \A i \in Issuers : Nil \notin Documents[i] \cup {FirstDocument[i]}
  /\ TTLs \subseteq Int
  /\ defaultTTL \in Nat \ {0}
  /\ MaxTime \in Nat
  /\ MaxDocuments \in Nat

VARIABLES
  clock,      \* wall clock, in ticks
  ttl,        \* r.ttl
  cache,      \* r.cache: issuer -> [set, fetchedAt], Nil when there is none
  at,         \* caller -> where it is in ResolveKey
  arg,        \* caller -> its issuer and keyID, and when it called
  entry,      \* caller -> the cache entry it has read
  set,        \* caller -> the JWK set it works with
  answer,     \* caller -> what ResolveKey returned
  published,  \* issuer -> its documents so far, with the time of each
  served,     \* caller -> when its fetch was answered
  slowest     \* the longest time from such an answer to the cache

localVars == <<at, arg, entry, set, answer, served>>
httpVars == <<clock, ttl, cache, localVars, published, slowest>>

(* The document an issuer serves.                                          *)
Current(i) == published[i][Len(published[i])].set

-----------------------------------------------------------------------------
(* Environment.                                                            *)

Tick ==
  /\ clock < MaxTime
  /\ clock' = clock + 1
  /\ UNCHANGED <<ttl, cache, localVars, published, slowest>>

(* An issuer replaces its document: rotation, or withdrawal of a key.      *)
Publish(i, d) ==
  /\ Len(published[i]) < MaxDocuments
  /\ d # Current(i)
  /\ published' = [published EXCEPT ![i] = Append(@, [set |-> d, from |-> clock])]
  /\ UNCHANGED <<clock, ttl, cache, localVars, slowest>>

-----------------------------------------------------------------------------
(* A call of ResolveKey.                                                   *)

Call(c, q) ==
  /\ at[c] = "idle"
  /\ at' = [at EXCEPT ![c] = "read"]
  /\ arg' = [arg EXCEPT ![c] = [issuer |-> q.issuer, keyID |-> q.keyID, began |-> clock]]
  /\ UNCHANGED <<clock, ttl, cache, entry, set, answer, published, served, slowest>>

(* Mutant: r.mu is locked before the fetch: one of those that fetch or     *)
(* store holds it.                                                         *)
HoldsFromFetch(c) ==
  LET fetching == {b \in Callers : at[b] \in {"fetch", "fetched", "lock", "storing"}}
  IN  fetching # {} /\ c = CHOOSE b \in fetching : TRUE

(* Caller c holds r.mu for writing.                                        *)
Holds(c) == at[c] = "storing"

(* No other caller does, so that c may take r.mu, to read or to write.     *)
Free(c) == \A b \in Callers \ {c} : ~Holds(b)

(* Mutant: all issuers share an entry.                                     *)
ReadShared(c) ==
  /\ at[c] = "read"
  /\ Free(c)
  /\ at' = [at EXCEPT ![c] = "check"]
  /\ entry' = [entry EXCEPT ![c] = cache[CHOOSE i \in Issuers : TRUE]]
  /\ UNCHANGED <<clock, ttl, cache, arg, set, answer, published, served, slowest>>

(* RLock, read, RUnlock: readers do not exclude one another.               *)
ReadCache(c) ==
  /\ at[c] = "read"
  /\ Free(c)
  /\ at' = [at EXCEPT ![c] = "check"]
  /\ entry' = [entry EXCEPT ![c] = cache[arg[c].issuer]]
  /\ UNCHANGED <<clock, ttl, cache, arg, set, answer, published, served, slowest>>

(* Mutant: an entry lives a tick longer.                                   *)
FreshAtTTL(e) == e # Nil /\ clock - e.fetchedAt <= ttl

(* time.Since(entry.fetchedAt) < r.ttl.                                    *)
Fresh(e) == e # Nil /\ clock - e.fetchedAt < ttl

(* Mutant: a hit renews the entry.                                         *)
CheckAndRenew(c) ==
  /\ at[c] = "check"
  /\ \/ /\ Fresh(entry[c])
        /\ at' = [at EXCEPT ![c] = "select"]
        /\ set' = [set EXCEPT ![c] = entry[c].set]
        /\ cache' = [cache EXCEPT ![arg[c].issuer] = [entry[c] EXCEPT !.fetchedAt = clock]]
     \/ ~Fresh(entry[c]) /\ at' = [at EXCEPT ![c] = "fetch"] /\ UNCHANGED <<set, cache>>
  /\ entry' = [entry EXCEPT ![c] = Nil]
  /\ UNCHANGED <<clock, ttl, arg, answer, published, served, slowest>>

CheckEntry(c) ==
  /\ at[c] = "check"
  /\ \/ /\ Fresh(entry[c])
        /\ at' = [at EXCEPT ![c] = "select"]
        /\ set' = [set EXCEPT ![c] = entry[c].set]
     \/ ~Fresh(entry[c]) /\ at' = [at EXCEPT ![c] = "fetch"] /\ UNCHANGED set
  /\ entry' = [entry EXCEPT ![c] = Nil]
  /\ UNCHANGED <<clock, ttl, cache, arg, answer, published, served, slowest>>

(* jwk.Fetch: the issuer's server answers the request.                     *)
Serve(c) ==
  /\ at[c] = "fetch"
  /\ at' = [at EXCEPT ![c] = "fetched"]
  /\ set' = [set EXCEPT ![c] = Current(arg[c].issuer)]
  /\ served' = [served EXCEPT ![c] = clock]
  /\ UNCHANGED <<clock, ttl, cache, arg, entry, answer, published, slowest>>

(* Mutants: the error of the fetch is ignored; it is cached.               *)
FetchErrorIgnored(c) ==
  /\ at[c] \in {"fetch", "fetched"}
  /\ at' = [at EXCEPT ![c] = "select"]
  /\ set' = [set EXCEPT ![c] = Nil]
  /\ UNCHANGED <<clock, ttl, cache, arg, entry, answer, published, served, slowest>>
FetchErrorCached(c) ==
  /\ at[c] \in {"fetch", "fetched"}
  /\ at' = [at EXCEPT ![c] = "done"]
  /\ answer' = [answer EXCEPT ![c] = [err |-> "fetch"]]
  /\ set' = [set EXCEPT ![c] = Nil]
  /\ served' = [served EXCEPT ![c] = Nil]
  /\ cache' = [cache EXCEPT ![arg[c].issuer] = [set |-> <<>>, fetchedAt |-> clock]]
  /\ UNCHANGED <<clock, ttl, arg, entry, published, slowest>>

(* No connection, a cancelled context, an answer lost or unreadable.       *)
FetchFails(c) ==
  /\ at[c] \in {"fetch", "fetched"}
  /\ at' = [at EXCEPT ![c] = "done"]
  /\ answer' = [answer EXCEPT ![c] = [err |-> "fetch"]]
  /\ set' = [set EXCEPT ![c] = Nil]
  /\ served' = [served EXCEPT ![c] = Nil]
  /\ UNCHANGED <<clock, ttl, cache, arg, entry, published, slowest>>

(* The answer has arrived.                                                 *)
FetchDone(c) ==
  /\ at[c] = "fetched"
  /\ at' = [at EXCEPT ![c] = "lock"]
  /\ UNCHANGED <<clock, ttl, cache, arg, entry, set, answer, published, served, slowest>>

(* r.mu.Lock.                                                              *)
Lock(c) ==
  /\ at[c] = "lock"
  /\ Free(c)
  /\ at' = [at EXCEPT ![c] = "storing"]
  /\ UNCHANGED <<clock, ttl, cache, arg, entry, set, answer, published, served, slowest>>

(* Overwrite the entry, Unlock.  Its age is counted from here.             *)
Store(c) ==
  /\ at[c] = "storing"
  /\ at' = [at EXCEPT ![c] = "select"]
  /\ cache' = [cache EXCEPT ![arg[c].issuer] = [set |-> set[c], fetchedAt |-> clock]]
  /\ slowest' = IF clock - served[c] > slowest THEN clock - served[c] ELSE slowest
  /\ served' = [served EXCEPT ![c] = Nil]
  /\ UNCHANGED <<clock, ttl, arg, entry, set, answer, published>>

Select(c) ==
  /\ at[c] = "select"
  /\ at' = [at EXCEPT ![c] = "done"]
  /\ answer' = [answer EXCEPT ![c] = KeyFor(set[c], arg[c].keyID)]
  /\ set' = [set EXCEPT ![c] = Nil]
  /\ UNCHANGED <<clock, ttl, cache, arg, entry, published, served, slowest>>

(* The caller has the key or the error.                                    *)
Return(c) ==
  /\ at[c] = "done"
  /\ at' = [at EXCEPT ![c] = "idle"]
  /\ arg' = [arg EXCEPT ![c] = Nil]
  /\ answer' = [answer EXCEPT ![c] = Nil]
  /\ UNCHANGED <<clock, ttl, cache, entry, set, published, served, slowest>>

-----------------------------------------------------------------------------
(* NewHTTPKeyResolver: no ttl means the default.                           *)
NewTTL(d) == IF d = 0 THEN defaultTTL ELSE d

NewHTTPKeyResolver ==
  /\ \E d \in TTLs : ttl = NewTTL(d)
  /\ cache = [i \in Issuers |-> Nil]

HTTPInit ==
  /\ clock = 0
  /\ NewHTTPKeyResolver
  /\ at = [c \in Callers |-> "idle"]
  /\ arg = [c \in Callers |-> Nil]
  /\ entry = [c \in Callers |-> Nil]
  /\ set = [c \in Callers |-> Nil]
  /\ answer = [c \in Callers |-> Nil]
  /\ published = [i \in Issuers |-> <<[set |-> FirstDocument[i], from |-> 0]>>]
  /\ served = [c \in Callers |-> Nil]
  /\ slowest = 0

(* The steps of a running call.                                            *)
CallStep(c) ==
  \/ ReadCache(c) \/ CheckEntry(c)
  \/ Serve(c) \/ FetchFails(c) \/ FetchDone(c)
  \/ Lock(c) \/ Store(c) \/ Select(c)

HTTPNext ==
  \/ Tick
  \/ \E i \in Issuers : \E d \in Documents[i] : Publish(i, d)
  \/ \E c \in Callers, q \in Lookups : Call(c, q)
  \/ \E c \in Callers : CallStep(c) \/ Return(c)

HTTPSpec == HTTPInit /\ [][HTTPNext]_httpVars

(* A goroutine keeps running, and r.mu, a sync.RWMutex, starves nobody:    *)
(* who waits for it gets it if it is free again and again.  Nothing is     *)
(* assumed of fetches.                                                     *)
HTTPFairSpec ==
  /\ HTTPSpec
  /\ \A c \in Callers :
       /\ WF_httpVars(CheckEntry(c) \/ Store(c) \/ Select(c))
       /\ SF_httpVars(ReadCache(c) \/ Lock(c))

-----------------------------------------------------------------------------
(* Properties.                                                             *)

(* What a caller has at each point of its call: a set to select from       *)
(* exactly from the fetch or the hit to the selection, and an answer only  *)
(* in the end.                                                             *)
HTTPTypeOK ==
  /\ clock \in Nat /\ slowest \in Nat /\ ttl \in Int
  /\ at \in [Callers -> {"idle", "read", "check", "fetch", "fetched", "lock", "storing", "select",
                       "done"}]
  /\ \A c \in Callers :
       /\ at[c] # "idle" => arg[c].issuer \in Issuers /\ arg[c].began \in 0 .. clock
       /\ set[c] # Nil <=> at[c] \in {"fetched", "lock", "storing", "select"}
       /\ answer[c] # Nil => at[c] = "done"
       /\ at[c] \in {"fetched", "lock", "storing"} => served[c] \in 0 .. clock
  /\ \A i \in Issuers : cache[i] # Nil => cache[i].fetchedAt \in 0 .. clock

(* Document n of issuer i was still being served at some time after since, *)
(* or is now.                                                              *)
InUseAfter(i, n, since) ==
  n < Len(published[i]) => published[i][n + 1].from > since

(* Staleness is bounded, whatever fetches overlap and in whatever order    *)
(* they end: every answer but a failed fetch is what a lookup in a         *)
(* document of that issuer says which it still served when the call began, *)
(* or less than the ttl and the slowest fetch before.  So a withdrawn key  *)
(* is refused, and a new one found, once that time has passed.             *)
RecentlyPublished(c) ==
  {n \in DOMAIN published[arg[c].issuer] :
     \/ InUseAfter(arg[c].issuer, n, arg[c].began - 1)
     \/ InUseAfter(arg[c].issuer, n, arg[c].began - ttl - slowest)}

BoundedStaleness ==
  \A c \in Callers : at[c] = "done" /\ answer[c] # [err |-> "fetch"] =>
    \E n \in RecentlyPublished(c) :
      answer[c] = KeyFor(published[arg[c].issuer][n].set, arg[c].keyID)

(* A call returns unless its own fetch hangs: that others hang, which the  *)
(* code does not prevent, or race it to r.mu, never keeps it from an       *)
(* answer.                                                                 *)
ResolveReturns ==
  \A c \in Callers :
    at[c] # "idle" ~> at[c] = "done" \/ [](at[c] \in {"fetch", "fetched"})
=============================================================================
