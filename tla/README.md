# A TLA+ model of go-sd-jwt-vc

go-sd-jwt-vc issues, presents and verifies SD-JWT verifiable credentials. This
directory holds TLA+ modules of its three roles and of the key resolvers, TLC
configurations that check them on small instances, and TLAPS proofs that nearly
all that is checked, liveness apart, holds of every instance. Paths below are relative to the repository.

## 1. The system

| Part | State | Operations | Hard behaviour |
|---|---|---|---|
| Token (`token.go`) | none | `Parse`, `String`, `Prefix`, `HasKeyBinding` | empty segments, the trailing tilde |
| Disclosure, hashing (`disclosure.go`, `internal/hashutil`) | none | `Encode`, `Digest`, `ParseDisclosure` | two-, three- and longer arrays; a failing random source |
| Issuer (`issuer.go`) | immutable options | `Issue`: `buildClaimsObject` (recursive), decoys, registered claims, `buildCnf`, `signJWT` | map iteration order, nested selective claims, failures midway, names that collide with registered claims |
| Holder (`holder.go`) | immutable signer | `Present`: `selectDisclosures`, `buildKBJWT` | what sd_hash covers; what an empty selection means |
| Verifier (`verifier.go`) | immutable options | `Verify`: parse, decode, resolve, signature, exp, nbf, `_sd_alg`, `collectDigests`, disclosures, KB-JWT, vct | a payload that is changed while it is read, map iteration order, time, depth limit |
| Errors (`errors.go`) | none | stage and sentinel of a failure | the first failing check decides |
| KeyResolver (`crypto.go`) | of the implementation | `ResolveKey` | may fail at any time |
| HTTPKeyResolver (`adapters/jwx`) | JWKS cache with TTL, shared by goroutines | `ResolveKey`: `fetchSet`, lookup | fetches that overlap, fail, hang and end out of order; rotation; age |
| StaticKeyResolver (`adapters/jwx`) | immutable table | `ResolveKey` | keys without a kid, the fallback |
| Signer (`adapters/jwx`) | immutable key | `Sign`, `KeyID`, `inferAlgorithm` | byte formats, thumbprints as key ids |
| Mortgage example (`example/mortgage`) | none | one credential from issuance to verification | it combines the roles as a user would |

The roles interact through strings only. The issuer's token goes to a wallet;
the holder cuts it down to the claims to reveal and appends a KB-JWT over the
rest (`sd_hash`), a nonce and an audience; the verifier takes the string apart,
recomputes every digest and asks a `KeyResolver` for the issuer's key. Issuer,
holder and verifier are safe for concurrent use because they share nothing that
changes; the only mutable shared state of the repository is the JWKS cache of
`HTTPKeyResolver`.

What makes each part correct:

* Token: serialising and parsing are inverse, and `Prefix` determines the issuer
  JWT and the disclosures.
* Issuer: every selective claim is committed to exactly once, in its own object,
  and is readable nowhere else; no other claim is lost; a call that fails at any
  point returns no token, and a token is whole.
* Verifier: it accepts exactly when all checks hold of the string, the result is
  the signed payload plus the revealed claims at their places, and an error
  names the first check that fails, at the time the call looked at the clock;
  every call returns.
* HTTPKeyResolver: an answer is that of a document its issuer published, and
  not older than the ttl and the duration of a fetch allow, whatever goroutines
  do to the cache at the same time; a call returns unless its own fetch hangs.
* Together: an unmodified presentation is accepted unless the reason that the
  error names is true, and a key-bound result was made by the holder for this
  session, whatever the transport does.

The hazards that the properties aim at are listed in `PROJECT.json`, each with
its line.

## 2. Modules

| Module | Models | Role |
|---|---|---|
| `SdJwt` | `token.go`, `disclosure.go`, `hashutil.go`, JWT helpers of `verifier.go` and `issuer.go` | values and operators, no state |
| `Clock` | the wall clock behind `time.Now()` | one step, shared by the roles |
| `VerifyContract` | what `Verify` promises | abstract specification: a call looks at the clock and answers |
| `Verifier` | `Verify`, `verifyKBJWT`, `collectDigests` | one action per stage of the chain |
| `IssuerConfig` | `NewIssuer` and its options | operators, no state |
| `Issuer` | `Issue`, `buildClaimsObject`, `buildCnf` | one action per claim, call, return and later step |
| `Holder` | `Present`, `selectDisclosures`, `buildKBJWT` | functions |
| `Lifecycle` | the roles together, with callers and transport | extends `Issuer`, `Verifier` and `Holder` |
| `Jwx` | `adapters/jwx`: `Signer`, `StaticKeyResolver`, lookup in a JWK set | operators, no state |
| `HTTPKeyResolver` | `ResolveKey` and `fetchSet` of `HTTPKeyResolver` | one action per lock section, fetch and return, for several goroutines |
| `Rotation` | `Verify` with an `HTTPKeyResolver` | extends `HTTPKeyResolver`, with an instance of `Verifier` |
| `Mortgage` | `example/mortgage` | constants of `Lifecycle` |
| `MCVerifier`, `MCIssuer`, `MCLifecycle`, `MCHTTPKeyResolver`, `MCRotation` | | instances for TLC |
| `SdJwtProofs` | | facts about tokens and about paths of keys |
| `VerifierProofs`, `ContractProofs` | | `Verifier`: its invariants; that it implements `VerifyContract` |
| `IssuerProofs` | | `Issuer`: its invariants |
| `HTTPKeyResolverProofs`, `RotationProofs` | | the resolver; the resolver with the verifier |
| `LifecycleProofs` | | holder and verifier agree; the relying party reads what was revealed |
| `RoundTripProofs` | | what the holder presents is accepted |

**Values.** Cryptography is symbolic: a digest is the pair of algorithm and
input, a signature records its key, hash, byte format and input. A wire string
is the sequence of segments that `strings.Split(raw, "~")` yields. A payload is
a set of JSON objects named by their path, with a map of members and an `_sd`
array for each; a member is tagged with the Go type that a read asserts (`str`
for `string`, `num` for `float64`, ...), so a claim of another type reads as the
zero value. An absent and an empty `_sd` array are the same. Arrays are opaque,
as they are for the code. Only digests and members of the payload object are
tracked for `cnf`.

**Verifier.** `pc` is the `Stage` that a `VerificationError` raised at this point
carries; `Check` is the shape shared by all checks (`if ... return
&VerificationError`). `collectDigests` is a walk with the current object `cur`
and the set `visited`: `CollectNested` is a turn of the range loop over any
member not yet seen, which is how Go's random map order appears, and
`CollectReturn` is the return to the caller. The code merges the map of a nested
object when its call returns, over what is there; recording on entry gives the
same map, because everything entered between entry and return lies inside the
object and is merged over it first. `VerifyDisclosure` is a turn of the
disclosure loop, write-back included. `disclosed` is both `disclosedClaims` and
`seenKeys`, which the code always extends together. The clock may tick between
any two steps; `now` is read once, as in the code. The result shows the payload
as a reader sees it who starts at its root (`Visible`): a value that is written
into an object which an earlier disclosure has replaced is not in it.

**Issuer.** A request is a tree of claims by path with a kind for each and the
`SelectiveFields` of each StructuredClaim. `BuildClaim` handles a claim that is
not a StructuredClaim (the `[]any` and the default case do the same),
`BuildEnter` and `BuildReturn` are the recursive call and what follows it; a
selective StructuredClaim leaves the payload tree and becomes the value of its
disclosure. `AddDecoys`, `SetRegisteredClaims` and `Sign` are the rest of
`Issue`; `iopts`, `ipc` and `icur` are what `opts`, `pc` and `cur` are in
`Verifier`. Every error return is an alternative: missing VCT, unsupported hash,
missing top-level field, nesting, randomness, marshalling, cnf, signing.

**Lifecycle.** The actions of issuer and verifier run on one clock. The wallet, the challenges of the relying party and the transport
stand for code that uses the library, in the order of `example/mortgage`. A
presentation may arrive late, more than once or never, and with segments cut
out. The verifier is called with the nonce of the current session.

**HTTPKeyResolver.** `at[c]` is where goroutine `c` is in `ResolveKey`. The code
holds the read lock of `r.mu` for one lookup, so `ReadCache` is atomic; `Lock` and
`Store` take the write lock and give it back after the assignment. Who holds it
follows from `at` (`Holds`), and both locks wait until no other goroutine does
(`Free`). What is done without a lock (`CheckEntry`, which compares the age, and
the fetch) are steps that others may precede. A fetch is two steps: `Serve`, at
which the issuer's server answers with its document of that moment, and
`FetchDone`, at which the answer has arrived; between them any time may pass,
the fetch may fail before or after (`FetchFails`), and it may never end.
`Publish` replaces the document of an issuer. `published`,
`served` and `slowest` (the longest time from an answer to its storage so far)
are history variables for the properties; the resolver does not read them. The
URL of a JWKS document is its issuer, and a `jwk.Set` the sequence of its keys.

**Jwx.** A JWK has a key, an optional kid and alg, and a thumbprint. `NewSigner`
gives the signer records that `SdJwt` signs with: the algorithm it writes into
the header, the hash that `hashForAlg` selects, the byte format that
`crypto.Signer` returns for the key, and the kid, which is the thumbprint when
the key has none. `Sign` calls `jws.Sign`, drops the result and returns that of
`signRaw`, so only the latter is modelled. `NewStaticKeyResolver` is the table
and `StaticKey` its lookup; `MCLifecycle` takes its signers and its resolver from
here.

**Rotation.** `Verify` is the machine of `Verifier`, except that the one-step
answer of the resolver (`ResolveIssuerKey`) is replaced by a call (`Ask`), the
steps of `ResolveKey` (`Resolving`) and its return (`Told`). Other goroutines
use the same resolver meanwhile, and an issuer rotates its keys. The instance `V`
of `Verifier` takes for its resolver `MayAnswer`: an error, or any key its issuer
may publish.

**Mortgage.** The keys, signers, resolver, request, presentation and verifier of
the example, as constants of `Lifecycle`; of its claims of the same sort one is
kept.

Definitions whose comment begins with "Mutant:" are faulty variants of the
definition that follows them; nothing uses them but the checks that make sure
that each property can fail.

## 3. What is checked

| Run | Properties | Shows | States |
|---|---|---|---|
| `verifier` | `TypeOK`, `DigestMapExact`, `KeepsContract`, `VerifyReturns` | `Verifier` implements `VerifyContract`; the digest map is exact after the walk; every call ends | 205 thousand |
| `issuer` | `IssuerTypeOK`, `CommitsOnce`, `ClaimsPreserved`, `SelectiveHidden`, `IssuesAllOrNothing` | `Issue` is right for all choices of selective fields in a claim tree, and whatever fails on the way | 569 thousand |
| `lifecycle` | `KeyBoundAgreement`, `RevealedExactly`, `RoundTrip` | the roles fit together, with the signers and the static resolver of `adapters/jwx` | 1.06 million |
| `http_key_resolver` | `HTTPTypeOK`, `BoundedStaleness`, `ResolveReturns` | no interleaving of goroutines, fetches and rotation makes an answer older than the ttl and the slowest fetch; fetches of others that hang, and the race for the lock, keep no call from its answer | 664 thousand |
| `rotation` | `AcceptedWhilePublished`, `RefusedOnlyIfUnpublished`, `ImplementsVerifier` | a withdrawn key stops working and a published one works, in bounded time; the composition implements `Verifier` | 1.45 million |

`KeepsContract` is the refinement: the abstract call starts when `Verify` is
entered, looks at the clock once (`Look`) and is answered in one step, the one
that sets the outcome. Its `now` is that of the code, so exp and nbf are judged
at the instant the call itself read, to the tick. The contract speaks only about
the string: it knows no walk, no digest map and no running payload, so it pins
down which value of a claim that a disclosure may replace (`cnf`, `vct`, `sub`,
`_sd_alg`, `iss`) each check must have read, and that a value put into a replaced
object is not in the result. `IssuerVerdict` and `LateVerdict` are the checks in
their documented order, each the first that fails, and `DisclosureVerdict` says
the same of a disclosure after those before it; an error must name that check. A
key that is disclosed twice is therefore refused as a duplicate even if a later
disclosure does not parse.

`RoundTrip` is about presentations that arrive as the holder made them. They may
be refused, but only where the reason that the error names is true: at `exp` only
after the end that was asked for, less the second that whole seconds may lose; at
`nbf` only before the `NotBefore` that was asked for, so never for a credential
that is valid at once; as a duplicate only if two different claims of one name
are revealed; at `vct` only if another type is expected; at `kbjwt` only if the
holder was not asked for a KB-JWT; at `kbjwt_nonce` and `kbjwt_aud` only if it
answered another nonce or audience. No other stage may refuse. All of these
refusals occur in the run.

`IssuesAllOrNothing` is about failures: Issue may fail at every claim, for lack
of randomness, for a value that cannot be encoded, for its depth, in `buildCnf`
and in `signJWT`. Whatever happened before, a failed call returns no token, and a
token has a signed JWT, the disclosures of all selective claims, and nothing that
had to be refused.

`BoundedStaleness` is the property of the cache. The code lets an older document
overwrite a newer one (two misses at once, the earlier answer stored last), and
counts the age of an entry from its storage; so the naive bound, that an answer
is at most the ttl old, is false, and a lookup may even go back from a new
document to an old one. What holds is that the document was still served when
the call began, or less than the ttl plus the slowest fetch before that.
`AcceptedWhilePublished` and `RefusedOnlyIfUnpublished` say what this means for
a relying party; the second is about JWTs whose signature is right, since one
with a wrong signature is refused with any key. `ImplementsVerifier` is the second refinement: all that is shown
of `Verifier` with a resolver that answers in one step with any key its issuer may
publish, or an error, holds of the two together.

`CommitsOnce` and `ClaimsPreserved` cover claims that have the name of a
registered one, which the issuer overwrites (`issuer.go:210`): such a claim is
lost with what is below it (`Lost`), its disclosures are still handed out, and
nothing else is affected. The documentation promises more; see `issuer_reserved`
below.

**Bounds.** `maxVerifyDepth` and `maxNestingDepth` are 2 instead of 16: the depth
is only compared with the limit, and trees below, at and above it occur. A second
has two ticks, so that moments inside a second exist, and the clock runs for two
seconds (`MaxTime` 4), across every `exp`, `nbf` and skew in use; the issuer
crosses one second boundary (`MaxTime` 2), which is where the whole seconds of
`nbf` and `exp` and the instant of a call part. The lifecycle runs to `MaxTime` 3:
credentials that expire a tick after issuance, and one that begins and ends
within a second, are verified before, in and after their time, with and without
clock skew. Presentations have up
to two (some three) disclosures out of seven kinds, which covers every pair of disclosures
that can interact; the objects are up to three levels deep. `MaxIssues` 2 lets a
second call follow every outcome of a first. Two presentations and two
challenges are what it takes to confuse one session with another; one holder
answers for two audiences, and one request has two fields of the same name. Two goroutines
are what it takes to overtake a fetch; an entry of theirs expires, is checked
while fresh and used when stale, and is overwritten by an older one within
`MaxTime` 3 with a ttl of 2, and two documents of an issuer (`MaxDocuments`) are
an old and a new one. One goroutine that holds the lock, fetches or hangs is what
it takes to keep another one waiting. In `rotation`, where the new document adds
a key or reuses the key id for another, the second goroutine stands for all
others, and two issuers show whose key is returned. The proofs below have none of these bounds.

**Fairness.** `FairSpec` adds weak fairness of `Step`, the steps of a running
call. A call is sequential code that its goroutine keeps executing, and neither
role waits for anyone, except for the key resolver: `VerifyReturns` is about calls
whose resolver answers or fails. `HTTPFairSpec` adds, for each goroutine, weak
fairness of the steps it takes alone (it keeps running), and strong fairness of
taking `r.mu`: a `sync.RWMutex` lets no waiting reader or writer starve, so who
waits for it gets it if it is free again and again. Nothing is assumed of
fetches: the code sets no timeout, `http.DefaultClient`, used when no client is
given (`jwx.go:150`), has none, and the README and the example pass
`context.Background()`. A fetch may hang for ever, and `ResolveReturns` says that
only its own caller then waits. Nothing is assumed of the clock, of callers or of the
transport. `verifier`, `http_key_resolver` and `rotation` check for deadlock; the
issuer stops after its last call and the lifecycle after a failed issuance, so
those runs do not.

### Disagreements between the code and its documentation

Each of these runs checks one sentence of a comment, the README, an example or a
test, and TLC finds a behaviour of the code against it.

| Run | What is said | What happens |
|---|---|---|
| `verifier_digest_once` | `verifier.go:113`: a digest appears exactly once | a second occurrence is accepted; map order decides where the value goes |
| `verifier_iat` | `verifier.go:112`: iat is checked; `verifier.go:59`: up to the clock skew | it is never read; a credential issued in the future is accepted |
| `issuer_reserved` | `README.md:97`: claims that are not selective are always visible; `issuer.go:94`: a structured object is always present | under the name of a registered claim they are overwritten without an error |
| `issuer_embedded` | `issuer.go:307`: array elements may be StructuredClaims | they are written to the JWT in the clear |
| `lifecycle_recursive` | `README.md:236`: recursive disclosure is implemented | the verifier never collects digests inside disclosures |
| `lifecycle_std_key` | `issuer.go:393`: the verifier can read the cnf claim | a standard library key has no `kty` |
| `lifecycle_mortgage` | `example/mortgage/main.go:134`: the presentation verifies | the example signs with `ecdsa.SignASN1`, the verifier reads `r` and `s` side by side and refuses the signature; the signer of `adapters/jwx` is no different for an EC key (`signRaw`) |

`RoundTrip` passes in the run `lifecycle` because its credentials avoid what the
rows above show to fail: JWK holder keys, RSA signatures, no recursion, no
registered names. `CanRoundTrip` of `Lifecycle` says what has to be
avoided; by the assumption of `MCLifecycle`, which TLC evaluates in each of its
runs, it is true of the instance of `lifecycle` and false of those on which
`RoundTrip` fails. Its issuer key has no kid, so its JWTs carry the
thumbprint and are resolved through the fallback of `StaticKeyResolver`.

The modules also have these behaviours, which need no run to be seen:

* an empty `VerifyOptions.Nonce` skips the nonce check also under
  RequireKeyBinding (the step for `kbjwt_nonce`), where `verifier.go:77` asks the
  caller for one;
* an empty `RevealClaims` presents every disclosure (`Present`), where
  `sdjwt_test.go:514` and `example/mortgage/main.go:106` expect it to withhold all;
* `Parses` refuses `String()` followed by another tilde, which the tests pass
  to `Verify` (`sdjwt_test.go:315`, 406, 464, 520, 537, 592);
* `algToDigest` and `cnfKey` have no case for EdDSA, which `README.md:195` lists;
* nested `SelectiveFields` need not exist (`Issue` checks the top level only;
  `errors.go:92` speaks of the payload);
* plain maps may nest deeper than `maxNestingDepth` (`PutClear`), and the
  verifier then refuses the credential, though `verifier.go:18` says that the
  two limits mirror each other;
* two selective fields of the same name in different objects cannot be presented
  together (`VerifyDisclosure`, by design: `verifier.go:258`; `NamesClash` of
  `RoundTrip`), though `issuer.go:93` calls them independently disclosable;
* the thumbprint that `Signer.KeyID` writes for a key without a kid is not found
  by `HTTPKeyResolver`, which looks for a kid member (`KeyFor`; a credential of
  `rotation` is refused for it);
* `StaticKeyResolver` returns the key without a kid for a kid it does not know
  (`StaticKey`), where `crypto.go:33` speaks of an empty kid only;
* a jwx `Signer` with an RSA key and a PS algorithm signs with PKCS #1 v1.5
  (`signRaw`), because the options it passes are a bare hash.

## 4. What is proved

Every invariant and refinement of the passing runs but `IssuesAllOrNothing` is
proved, for all values of the constants: every set of presentations, requests, nonces and
options, every key resolver, every depth limit and bound. What the proofs assume
is stated as named assumptions, which TLC evaluates on the instances:

| Assumption | Says |
|---|---|
| `ClockAssumption` | a second has a positive number of ticks; the bound of the clock is a number |
| `VerifierAssumption` | the empty value is no number; the depth limit is a number; a presentation is a sequence of segments; the payload of a JWT that decodes is a tree of objects, each with a sequence of digests |
| `IssuerAssumption` | bounds are numbers; a request is a tree of claims in which the request itself and every StructuredClaim has a set of selective names; a decoy count is a number |
| `HTTPAssumption` | lookups name known issuers, a document is not Nil, times are numbers |
| `RotationAssumption` | the verifier is one of the goroutines; a document is a sequence of keys; the issuers named by the presentations are known |

* **Verifier** (`VerifierProofs`). `TypeCorrect`, `DigestsCollected`: `TypeOK` and
  `DigestMapExact` are invariants of `Spec`. `DigestMapExact` is not inductive:
  it speaks of the end of the walk. The invariant `Inv` adds `Walking`: during
  the walk the map is exact for the objects entered so far, and an object has
  been left only if everything below it has been entered, that is, every
  entered object is on the path to `cur` or has all its children entered. At the
  end `cur` is the payload, so the set of entered objects contains the payload
  and is closed under children; in a tree it is then all of it
  (`WalkComplete`). `NotStarted` says that the walk starts empty and `CallOK`
  that the call has one of the presentations. One lemma per action shows that
  `Inv` is preserved; `Invariance` puts them together.
* **Verifier implements VerifyContract** (`ContractProofs`). `ContractKept`:
  `Spec => KeepsContract`: the answer is the verdict of the chain at the `now`
  that this call read. `ChainInv` adds to `Inv` what each stage has
  established of the string (parsed, readable, answered, signed, in time, ...) and
  what the disclosure loop has done to the payload: for the disclosures before
  `next`, all open, with different keys and digests in the signed payload, the
  running payload is the signed one with each value placed in an object that
  lists its digest. `CheckExp` is the contract's `Look`, and the answer as well
  when the token has expired; other steps before the last are stutters. The step
  that sets the outcome is an `Accept`, or a `Reject` at the first check of the
  chain that fails: what the earlier stages established rules out the others.
* **Tokens** (`SdJwtProofs`). `ParseString`, `StringParse`, `PrefixCommits`:
  parsing and serialising are inverse to each other on well-formed tokens and
  parsable strings, and the string that sd_hash covers determines the issuer JWT
  and the disclosures with their order.
* **Issuer** (`IssuerProofs`). `IssuerTypes`, `CommittedOnce`, `NoClaimLost`,
  `NothingSelectiveShown`: the four invariants of the run `issuer`, for every
  claim tree, nesting limit, number of decoys and order of map iteration. They
  speak of the finished credential; the invariant `IssuerInv` describes it at
  every moment of the recursion. `Recursion`: the objects on the call stack are
  the prefixes of `icur`; a claim is handled after the objects around it are
  entered and before they are left; what is not handled has its turn to come in
  a loop on the stack, so that when the loops are done everything is handled
  (`AllHandled`). `Disclosures`: there is one for each selective claim handled.
  `Carriage`: the objects are split among the payload and the disclosures with a
  nested object; an object is in the payload if it is entered, has not left with
  a selective object around it (`Left`) and no registered claim has replaced it
  (`Dropped`). `Contents`, `Registered`, `Clear`: what their members are.
  `Digests`: every digest of an `_sd` array is that of a disclosure of the same
  object or, at the top, a decoy, and none is there twice. One lemma per
  action and part of the invariant; `CommittedOnce` then counts digests by
  bijections between disclosures, slots and decoys. `NothingSelectiveShown` has
  the hypothesis that every StructuredClaim sits directly inside
  StructuredClaims; the run `issuer_embedded` shows that it is needed.
* **HTTPKeyResolver** (`HTTPKeyResolverProofs`). `HTTPTypeCorrect`,
  `StalenessBounded`: `HTTPTypeOK` and `BoundedStaleness` are invariants of
  `HTTPSpec` for any number of goroutines and issuers, every ttl and every
  sequence of documents. `BoundedStaleness` speaks of answers only; the
  invariant `HTTPKeyInv` follows the set back to the issuer. `Known(i, s, t)` says
  that `s` is a document that `i` still served at `t`; it holds of a served set at
  the time it was served (`FetchKnown`), of a stored one at `fetchedAt` less
  `slowest` (`CacheKnown`, and `EntryKnown` for an entry that a goroutine has
  read), and what a goroutine selects from is recent (`SelectRecent`).
  `KnownEarlier` makes these facts monotone, so that a slower fetch does not
  disturb them, and `PublishKeeps` shows that a new document does not, because it
  is dated by the clock. `OwnStep` reduces a step of one goroutine to the facts
  about it and the cache; then there is one lemma per action.
* **Verifier with HTTPKeyResolver** (`RotationProofs`). `NoWithdrawnKey` and
  `NoKeyLostToTheCache` are the two invariants of `rotation`, `Refinement` is
  `RotationSpec => ImplementsVerifier`. `RotationInv` is `HTTPKeyInv` and what
  the verifier knows of its call: while it waits, the goroutine `Self` looks up
  the issuer and kid of its token; afterwards its key, or the refusal, goes back
  to a document that `told` lists as recent. A step of the resolver is a stutter
  of `Verifier`, and `Told` is its `ResolveIssuerKey`, because every set that
  reaches a selection was published.
* **The three roles** (`LifecycleProofs`). `KeyBindingAgreed`:
  `KeyBoundAgreement` is an invariant of `LifeSpec`. `LifeInv` says that what the
  holder sent under a KB-JWT is covered by its sd_hash, that what is verified is
  some cut of something sent, and what the checks of the KB-JWT have compared so
  far. A message that is accepted as key-bound has the sd_hash of what was
  sent and of what arrived; by `PrefixCommits` the two are the same.
  `LifeImplementsIssuer`: the issuer inside `LifeSpec` behaves as `IssuerSpec`, so
  all that is proved of `Issuer` holds there. `RevealedToRelyingParty`:
  `RevealedExactly` is an invariant of `LifeSpec`. `RevealInv` follows the
  credential: the disclosures in the wallet, in transit and in a call of Verify
  are some of those that `Issue` collected, next to the payload it signed
  (`Handed`); the digest map has each digest where the signed payload lists it
  (`Listed`); and the payload being read is the signed one with the disclosures
  before `next` merged, each under the name and in the object of its claim
  (`Merged`). `Home` is the step in which issuer and verifier meet: by `Digests`
  and `Disclosures` of `IssuerInv`, a disclosure whose digest is in the `_sd` array of
  an object is that of a selective claim of this very object, because a decoy is
  never the digest of a disclosure. At the end `ReadableClear` reads from
  `Contents` which claims were in the clear. The theorem has the hypothesis
  `Selectable`: a selective claim has a name, and at the top level not that of a
  registered claim. Without it the statement is false: `Encode` turns a claim with
  the empty name into an array element, which the verifier merges nowhere, and
  under a registered name such as `iss` there is a value to read although the
  claim is withheld.

* **The round trip** (`RoundTripProofs`). `PresentationAccepted`: `RoundTrip` is an
  invariant of `LifeSpec`. The argument follows a call through the stages of
  `Verify` and shows of each check that it cannot fail, or fails for a reason that
  `RoundTrip` names. It needs an invariant on each side.
  `CredentialInv` (proved of `IssuerSpec`, `CredentialInvariance`) is the issuer's:
  every disclosure can be parsed (`Encoded`); an object of the payload lies within
  `maxNestingDepth` or is a plain map (`Shallow`); the payload has the `iss`,
  `_sd_alg`, `vct` and `cnf` that the verifier will look for, and iat, nbf and exp
  of an instant at which Issue read the clock, in whole seconds (`Header`,
  `Dated`); the token is this payload, signed (`Signed`).
  `TripInv` (`TripInvariance`) is that of the rest. `InTransfer`: what the wallet
  has, what was sent and what a call has parsed carries the signed payload, each
  disclosure once, and no KB-JWT but one of the holder, who adds one where asked to. `Walk`: while
  `collectDigests` runs, every StructuredClaim of the payload that has not been
  entered lies at or below one that is still to come in a loop on the path to
  `cur` (`Ahead`); so the walk ends with all of them entered, and their digests in
  the map. `Known`: the issuer and key that were read, that `now` is not before the
  iat, the `cnf` and `vct` of the payload, which no disclosure overwrites
  (`NameStays`), and that every name in `disclosed` is that of an earlier
  disclosure. `Reason`: why a call was rejected, and that it is true.
  `DigestThere` finds the digest of every disclosure in an object that the walk
  enters, and `ClaimsDistinct` shows that what is taken for a duplicate is another
  claim of the same name. `RoundsDown` bounds what whole seconds lose of a time,
  from which `TimesRead` and `TimeTrip` conclude that a token found out of time is.
  The KB-JWT speaks for the holder: `KBReason` is said of its nonce and audience,
  and in the last step `Sent` turns that into the options the holder presented
  with. One check can fail for what the transport did: sd_hash, when disclosures
  were cut out under a KB-JWT; that contradicts `Sent` if the string is one the
  holder sent.
  The theorem has three hypotheses. `Selectable` is that of the previous theorem.
  `CanRoundTrip` says that times are numbers and no clock skew is negative
  (`Timed`); of the requests (`Verifiable`) that nothing selective lies inside a selective object or
  under the name of a registered claim, and that plain maps are no deeper than the
  walk goes; of the issuers that they have an id, a hash and a signer whose
  signatures `verifyJWTSignature` takes (`Fits`), and that the resolver returns its
  key; and, if the holder binds presentations, that its signer fits too and its key
  is in the credential, as a JWK the verifier can read. A run or a remark of
  section 3 shows what happens without each of the conditions on nesting,
  depth, signatures and keys. `NilIsNoSegment` says that an
  encoded segment is not the empty string; it is about the encoding of strings in
  the model and quantifies over all values, so it is a hypothesis and not an
  assumption TLC could evaluate.

Only model-checked: `VerifyReturns` and `ResolveReturns`, because liveness is out
of this prover's reach, and `IssuesAllOrNothing`.

## 5. Not modelled

* The byte level: base64, JSON syntax, elliptic curves. Everything that can fail
  there is a segment or value of the failing kind.
* Claims named `_sd`, and StructuredClaims inside plain maps, as inputs of the
  issuer. `extraHeaders` and `ErrHolderKeyMissing` are not used by the code.
* `int64` conversion of numbers outside its range.
* Of `adapters/jwx`: HTTP itself, the jwx library, and `jwx.go:318-320`, a method
  on a type of another package, with which the file does not compile
  (`README.md:204` lists it as to be fixed). Signing with an EC key passes a nil
  random source, which Go accepts from 1.24 on; the model has that behaviour.
* `HashForAlg` and `CryptoHash` of `crypto_helpers.go`: the verifier uses those of
  `hashutil`.
* The printing of the example.

## 6. Plan

1. Done: `SdJwt`, `Verifier` with `VerifyContract`, `Issuer`, `Holder`,
   `Lifecycle`, `Jwx`, `HTTPKeyResolver`, `Rotation`, `Mortgage`, their runs, and
   the proofs above.
2. Of what the runs check, the two liveness properties and `IssuesAllOrNothing`
   have no proof. For the latter `IssuerInv` has to say of every claim in a tree or
   a disclosure that it can be marshalled, or is still to be refused by `Sign`.
