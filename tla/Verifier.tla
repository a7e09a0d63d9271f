------------------------------- MODULE Verifier -------------------------------
(***************************************************************************)
(* Verifier.Verify (verifier.go): the verification chain on one            *)
(* presentation string.                                                    *)
(*                                                                         *)
(* The control state pc is the Stage a VerificationError raised there      *)
(* would carry, so every action is one check of the chain: it moves on or  *)
(* rejects.  The two loops are steps: collectDigests visits one JSON       *)
(* object per step, in any of the orders Go's map iteration may choose,    *)
(* and the disclosure loop handles one disclosure per step.                *)
(*                                                                         *)
(* Calls share nothing but the immutable options and the KeyResolver, so   *)
(* one call at a time is modelled; the clock runs on during a call.        *)
(***************************************************************************)
EXTENDS SdJwt, Clock

CONSTANTS
  Presentations,      \* the raw strings callers pass to Verify
  Nonces,             \* the VerifyOptions.Nonce values they pass
  VerifierOptions,    \* the configurations NewVerifier may build
  ResolveKey(_, _),   \* KeyResolver: its possible answers; Nil is an error
  maxVerifyDepth      \* 16 in verifier.go

ASSUME VerifierAssumption ==
  /\ Nil \notin Nat /\ maxVerifyDepth \in Nat
  /\ \A r \in Presentations :
       /\ r \in Seq(ToSet(r))
       /\ Parses(r) /\ decodes(r[1]) => IsPayload(r[1].jwt.payload)

VARIABLES
  opts,         \* v.opts
  pc,           \* stage of the call, "accepted" or "rejected"; "idle" between calls
  raw, nonce,   \* arguments of the call
  t,            \* the parsed Token
  issuer,       \* iss, read before any disclosure is applied
  pubKey,       \* the resolved issuer key
  now,          \* time.Now() of the timing checks
  payload,      \* issuerPayload, updated in place by the disclosures
  cur, visited, \* collectDigests: the object being walked, those entered
  digestMap,    \* digest -> the object whose _sd holds it
  next,         \* index of the next disclosure
  disclosed,    \* disclosedClaims; its domain is also seenKeys
  outcome       \* what Verify returned

parseVars == <<raw, nonce, t>>
keyVars   == <<issuer, pubKey, now>>
walkVars  == <<cur, visited, digestMap>>
discVars  == <<next, disclosed>>
vars == <<clock, opts, pc, parseVars, keyVars, payload, walkVars, discVars, outcome>>

Stages == {"parse", "issuer_jwt_decode", "key_resolution", "signature", "exp", "nbf",
           "sd_alg", "disclosure_collect", "disclosure", "kbjwt", "cnf",
           "kbjwt_decode", "kbjwt_key", "kbjwt_sig", "kbjwt_nonce", "kbjwt_aud",
           "kbjwt_sd_hash", "vct"}

Answered == {"accepted", "rejected"}

(* The stages reached with a decoded payload, and with its digests.        *)
Decoded   == pc \in (Stages \ {"parse", "issuer_jwt_decode"}) \cup {"accepted"}
Collected ==
  Decoded /\ pc \notin {"key_resolution", "signature", "exp", "nbf", "sd_alg",
                        "disclosure_collect"}

-----------------------------------------------------------------------------
(* NewVerifier: options are applied in the order given.                    *)

RequireKeyBinding(aud) == [requireKeyBinding |-> TRUE, audience |-> aud]
ExpectVCT(vct) == [expectedVCT |-> vct]
WithClockSkew(d) == [clockSkew |-> d]

NewVerifier(options) ==
  FoldLeft(Overlay, [expectedVCT |-> Nil, requireKeyBinding |-> FALSE, audience |-> Nil,
                     clockSkew |-> 0], options)

-----------------------------------------------------------------------------
(* Mutant: the algorithm is read when it is needed.                        *)
LateHashAlg == sdAlg(payload)

(* The hash algorithm is fixed before any disclosure is applied.           *)
hashAlg == sdAlg(t.IssuerJWT.jwt.payload)

(* time.Unix(sec, 0) in ticks.                                             *)
Unix(sec) == sec * TicksPerSecond

kbPayload == t.KBJWT.jwt.payload

-----------------------------------------------------------------------------
(* The shape of a check.                                                   *)

RejectAt(stage, err) ==
  /\ pc' = "rejected"
  /\ outcome' = [accepted |-> FALSE, stage |-> stage, err |-> err]

Check(stage, ok, then, err) ==
  /\ pc = stage
  /\ \/ ok /\ pc' = then /\ UNCHANGED outcome
     \/ ~ok /\ RejectAt(stage, err)

-----------------------------------------------------------------------------
Tick ==
  /\ TimePasses
  /\ UNCHANGED <<opts, pc, parseVars, keyVars, payload, walkVars, discVars, outcome>>

(* A caller enters Verify.                                                 *)
Verify(r, n) ==
  /\ pc = "idle"
  /\ pc' = "parse" /\ raw' = r /\ nonce' = n
  /\ UNCHANGED <<clock, opts, t, keyVars, payload, walkVars, discVars, outcome>>

(* The caller has the outcome; the call's local state is gone.             *)
Return ==
  /\ pc \in Answered
  /\ pc' = "idle" /\ raw' = Nil /\ nonce' = Nil
  /\ t' = Nil /\ issuer' = Nil /\ pubKey' = Nil /\ now' = Nil /\ payload' = Nil
  /\ cur' = <<>> /\ visited' = {} /\ digestMap' = <<>>
  /\ next' = 1 /\ disclosed' = <<>> /\ outcome' = Nil
  /\ UNCHANGED <<clock, opts>>

ParseRaw ==
  /\ Check("parse", Parses(raw), "issuer_jwt_decode", "ErrInvalidFormat")
  /\ t' = IF Parses(raw) THEN Parse(raw) ELSE Nil
  /\ UNCHANGED <<clock, opts, raw, nonce, keyVars, payload, walkVars, discVars>>

(* Mutant: any iss will do, a number too.                                  *)
HasAnyIssuer(p) == "iss" \in DOMAIN p.val[<<>>]

HasIssuer(p) == Claim(p, "iss", "str") # Nil

DecodeIssuerJWT ==
  LET p == t.IssuerJWT.jwt.payload
      ok == decodes(t.IssuerJWT) /\ HasIssuer(p)
  IN  /\ Check("issuer_jwt_decode", ok, "key_resolution", "ErrInvalidFormat")
      /\ payload' = IF ok THEN p ELSE Nil
      /\ issuer'  = IF ok THEN Claim(p, "iss", "str") ELSE Nil
      /\ UNCHANGED <<clock, opts, parseVars, pubKey, now, walkVars, discVars>>

(* The resolver has answered with key k, or with an error.                 *)
KeyResolved(k) ==
  /\ Check("key_resolution", k # Nil, "signature", "ErrKeyResolutionFailed")
  /\ pubKey' = k
  /\ UNCHANGED <<clock, opts, parseVars, issuer, now, payload, walkVars, discVars>>

ResolveIssuerKey ==
  /\ pc = "key_resolution"
  /\ \E k \in ResolveKey(issuer, t.IssuerJWT.jwt.header.kid) : KeyResolved(k)

VerifySignature ==
  /\ Check("signature", verifyJWTSignature(t.IssuerJWT, pubKey), "exp",
           "ErrSignatureInvalid")
  /\ UNCHANGED <<clock, opts, parseVars, keyVars, payload, walkVars, discVars>>

(* Mutant: alive during the whole second of exp.                           *)
NotExpiredInSecond(p, at) ==
  Claim(p, "exp", "num") # Nil => at < Unix(Claim(p, "exp", "num") + 1) + opts.clockSkew

(* now.After(exp + skew); a missing or non-numeric exp is not checked.     *)
NotExpired(p, at) ==
  Claim(p, "exp", "num") # Nil => at <= Unix(Claim(p, "exp", "num")) + opts.clockSkew

CheckExp ==
  /\ Check("exp", NotExpired(payload, clock), "nbf", "ErrTokenExpired")
  /\ now' = clock
  /\ UNCHANGED <<clock, opts, parseVars, issuer, pubKey, payload, walkVars, discVars>>

(* Mutant: not yet valid in the instant of nbf.                            *)
ValidAfterNbf(p, at) ==
  Claim(p, "nbf", "num") # Nil => at > Unix(Claim(p, "nbf", "num")) - opts.clockSkew

(* now.Before(nbf - skew).                                                 *)
AlreadyValid(p, at) ==
  Claim(p, "nbf", "num") # Nil => at >= Unix(Claim(p, "nbf", "num")) - opts.clockSkew

CheckNbf ==
  /\ Check("nbf", AlreadyValid(payload, now), "sd_alg", "ErrTokenNotYetValid")
  /\ UNCHANGED <<clock, opts, parseVars, keyVars, payload, walkVars, discVars>>

(* Mutants: a nested result replaces what was collected so far; the walk   *)
(* does not move past the objects it has finished; the container recorded  *)
(* is the payload.                                                         *)
EnterReplacing(o) ==
  cur' = o /\ visited' = visited \cup {o} /\ digestMap' = [d \in ToSet(payload.sd[o]) |-> o]
EnterUnmarked(o) ==
  cur' = o /\ UNCHANGED <<visited, digestMap>>
EnterRootHome(o) ==
  /\ cur' = o /\ visited' = visited \cup {o}
  /\ digestMap' = Overlay(digestMap, [d \in ToSet(payload.sd[o]) |-> <<>>])

(* Entering object o in collectDigests: its digests are recorded, over     *)
(* those of the objects entered before.                                    *)
Enter(o) ==
  /\ cur' = o
  /\ visited' = visited \cup {o}
  /\ digestMap' = Overlay(digestMap, [d \in ToSet(payload.sd[o]) |-> o])

ResolveSdAlg ==
  /\ Check("sd_alg", hashAlg # Nil, "disclosure_collect", "ErrUnsupportedHashAlgorithm")
  /\ \/ hashAlg # Nil /\ Enter(<<>>)
     \/ hashAlg = Nil /\ UNCHANGED walkVars
  /\ UNCHANGED <<clock, opts, parseVars, keyVars, payload, discVars>>

(* The next nested object, in any order; depth is the length of its path.  *)
CollectNested ==
  /\ pc = "disclosure_collect"
  /\ \E o \in Children(payload, cur) \ visited :
       /\ Check("disclosure_collect", Len(o) <= maxVerifyDepth, "disclosure_collect",
                "ErrNestingTooDeep")
       /\ \/ Len(o) <= maxVerifyDepth /\ Enter(o)
          \/ Len(o) > maxVerifyDepth /\ UNCHANGED walkVars
  /\ UNCHANGED <<clock, opts, parseVars, keyVars, payload, discVars>>

(* Every nested object done: return to the enclosing call, or to Verify.   *)
CollectReturn ==
  /\ pc = "disclosure_collect"
  /\ Children(payload, cur) \subseteq visited
  /\ \/ cur # <<>> /\ cur' = Front(cur) /\ UNCHANGED pc
     \/ cur = <<>> /\ pc' = "disclosure" /\ UNCHANGED cur
  /\ UNCHANGED <<clock, opts, parseVars, keyVars, payload, visited, digestMap, discVars,
                 outcome>>

(* One turn of the disclosure loop: parse, look up, reject a repeated key, *)
(* write the value into the object that holds the digest.                  *)
VerifyDisclosure ==
  /\ pc = "disclosure"
  /\ next <= Len(t.Disclosures)
  /\ LET enc == t.Disclosures[next]
         d == ParseDisclosure(enc)
         digest == Digest(hashAlg, enc)
         o == digestMap[digest]
     IN \/ /\ ~DisclosureParses(enc)
           /\ RejectAt("disclosure_parse", "ErrDisclosureInvalid")
           /\ UNCHANGED <<payload, discVars>>
        \/ /\ DisclosureParses(enc) /\ digest \notin DOMAIN digestMap
           /\ RejectAt("disclosure_hash", "ErrDisclosureMismatch")
           /\ UNCHANGED <<payload, discVars>>
        \/ /\ DisclosureParses(enc) /\ digest \in DOMAIN digestMap
           /\ d.Key # Nil /\ d.Key \in DOMAIN disclosed
           /\ RejectAt("disclosure_duplicate", "ErrDisclosureDuplicate")
           /\ UNCHANGED <<payload, discVars>>
        \/ /\ DisclosureParses(enc) /\ digest \in DOMAIN digestMap
           /\ d.Key # Nil /\ d.Key \notin DOMAIN disclosed
           /\ payload' = [payload EXCEPT !.val[o] = Overlay(@, [k \in {d.Key} |-> d.Value])]
           /\ disclosed' = Overlay(disclosed, [k \in {d.Key} |-> d.Value])
           /\ next' = next + 1
           /\ UNCHANGED <<pc, outcome>>
        \/ /\ DisclosureParses(enc) /\ digest \in DOMAIN digestMap
           /\ d.Key = Nil
           /\ next' = next + 1
           /\ UNCHANGED <<pc, payload, disclosed, outcome>>
  /\ UNCHANGED <<clock, opts, parseVars, keyVars, walkVars>>

DisclosuresDone ==
  /\ pc = "disclosure"
  /\ next > Len(t.Disclosures)
  /\ pc' = "kbjwt"
  /\ UNCHANGED <<clock, opts, parseVars, keyVars, payload, walkVars, discVars, outcome>>

RequireKBJWT ==
  /\ Check("kbjwt", opts.requireKeyBinding => HasKeyBinding(t),
           IF HasKeyBinding(t) THEN "cnf" ELSE "vct", "ErrKBJWTRequired")
  /\ UNCHANGED <<clock, opts, parseVars, keyVars, payload, walkVars, discVars>>

(* extractCnf and verifyKBJWT.                                             *)
VerifyKBJWT ==
  /\ \/ Check("cnf", hasCnf(payload), "kbjwt_decode", "ErrCnfMissing")
     \/ Check("kbjwt_decode", decodes(t.KBJWT), "kbjwt_key", "ErrKBJWTInvalid")
     \/ Check("kbjwt_key", cnfKey(payload) # Nil, "kbjwt_sig", "ErrKBJWTInvalid")
     \/ Check("kbjwt_sig", verifyJWTSignature(t.KBJWT, cnfKey(payload)), "kbjwt_nonce",
              "ErrKBJWTInvalid")
     \/ Check("kbjwt_nonce", nonce # Nil => kbPayload.nonce = nonce, "kbjwt_aud",
              "ErrKBJWTNonceMismatch")
     \/ Check("kbjwt_aud", opts.audience # Nil => opts.audience \in kbPayload.aud,
              "kbjwt_sd_hash", "ErrKBJWTAudMismatch")
     \/ Check("kbjwt_sd_hash", kbPayload.sd_hash = DigestSHA256(Prefix(t)), "vct",
              "ErrKBJWTHashMismatch")
  /\ UNCHANGED <<clock, opts, parseVars, keyVars, payload, walkVars, discVars>>

CheckVCT ==
  LET vct == Claim(payload, "vct", "str")
      ok == opts.expectedVCT # Nil => vct = opts.expectedVCT
  IN  /\ pc = "vct"
      /\ \/ ~ok /\ RejectAt("vct", "ErrVCTMismatch")
         \/ /\ ok /\ pc' = "accepted"
            /\ outcome' = [accepted |-> TRUE, IssuerClaims |-> Visible(payload),
                           DisclosedClaims |-> disclosed, Issuer |-> issuer, VCT |-> vct,
                           Subject |-> Claim(payload, "sub", "str"),
                           KeyBound |-> HasKeyBinding(t)]
      /\ UNCHANGED <<clock, opts, parseVars, keyVars, payload, walkVars, discVars>>

-----------------------------------------------------------------------------
Init ==
  /\ clock = 0 /\ opts \in VerifierOptions /\ pc = "idle"
  /\ raw = Nil /\ nonce = Nil /\ t = Nil /\ issuer = Nil /\ pubKey = Nil /\ now = Nil
  /\ payload = Nil /\ cur = <<>> /\ visited = {} /\ digestMap = <<>>
  /\ next = 1 /\ disclosed = <<>> /\ outcome = Nil

(* The steps of a running call: its own, and the resolver's answer.        *)
OwnStep ==
  \/ ParseRaw \/ DecodeIssuerJWT \/ VerifySignature
  \/ CheckExp \/ CheckNbf \/ ResolveSdAlg \/ CollectNested \/ CollectReturn
  \/ VerifyDisclosure \/ DisclosuresDone \/ RequireKBJWT \/ VerifyKBJWT \/ CheckVCT
  \/ Return

Step == OwnStep \/ ResolveIssuerKey

Next == Tick \/ Step \/ \E r \in Presentations, n \in Nonces : Verify(r, n)

Spec == Init /\ [][Next]_vars

(* A call is straight-line code: once entered it keeps running.            *)
FairSpec == Spec /\ WF_vars(Step)

-----------------------------------------------------------------------------
(* Properties.                                                             *)

(* The control state of a call and its data agree: what a stage reads has  *)
(* been set by an earlier one.                                             *)
TypeOK ==
  /\ clock \in 0 .. MaxTime
  /\ opts \in VerifierOptions
  /\ pc \in Stages \cup Answered \cup {"idle"}
  /\ pc \notin {"idle", "parse", "rejected"} => Parses(raw) /\ t = Parse(raw)
  /\ Decoded => decodes(t.IssuerJWT) /\ IsPayload(payload) /\ issuer # Nil
  /\ now \in 0 .. clock \/ now = Nil
  /\ next \in Nat \ {0}
  /\ visited \subseteq Seq(STRING) /\ cur \in Seq(STRING)

(* After the walk of collectDigests the map holds every digest of every    *)
(* _sd array at every nesting level, and nothing else, and places each one *)
(* in an object whose _sd array lists it: no disclosure of the issuer is   *)
(* refused, and no revealed value is written elsewhere.                    *)
DigestMapExact ==
  Collected =>
    /\ DOMAIN digestMap = UNION {ToSet(payload.sd[o]) : o \in Objects(payload)}
    /\ \A d \in DOMAIN digestMap :
         digestMap[d] \in Objects(payload) /\ d \in ToSet(payload.sd[digestMap[d]])
    /\ \A o \in Objects(payload) : Len(o) <= maxVerifyDepth

PossibleCalls == {[raw |-> r, nonce |-> n] : r \in Presentations, n \in Nonces}

(* Verify keeps the contract of its doc comment: it accepts only when all  *)
(* checks hold of the string presented at a time during the call, with the *)
(* signed payload plus the revealed claims, each in an object that commits *)
(* to it, and an error names the first check of the chain that fails.      *)
Contract ==
  INSTANCE VerifyContract WITH
    Calls <- PossibleCalls,
    phase <- IF pc = "idle" THEN "idle" ELSE IF pc \in Answered THEN "answered" ELSE "running",
    call  <- [raw |-> raw, nonce |-> nonce],
    reply <- outcome

KeepsContract == Contract!Spec

(* Every call returns, whatever the nesting and the number of disclosures. *)
VerifyReturns == pc # "idle" ~> pc \in Answered

-----------------------------------------------------------------------------
(* What the documentation says of Verify.                                  *)

(* verifier.go, step 5: each disclosure's digest appears exactly once in   *)
(* the _sd arrays.                                                         *)
DigestOnce ==
  pc = "accepted" =>
    \A d \in ToSet(t.Disclosures) :
      Cardinality(UNION {{<<o, i>> : i \in {i \in DOMAIN payload.sd[o] :
                                               payload.sd[o][i] = Digest(hashAlg, d)}} :
                           o \in Objects(payload)}) = 1

(* verifier.go, step 4 of Verify and WithClockSkew: iat is checked like    *)
(* nbf and exp, up to the clock skew.                                      *)
IatChecked ==
  LET iat == Claim(t.IssuerJWT.jwt.payload, "iat", "num")
  IN  pc = "accepted" /\ iat # Nil => now >= Unix(iat) - opts.clockSkew
=============================================================================
