---------------------------- MODULE VerifyContract ----------------------------
(***************************************************************************)
(* What Verifier.Verify promises, with no reference to how it works: it    *)
(* looks at the clock once during the call, and its answer is the verdict  *)
(* of the documented chain (verifier.go, Verify) at that time.  Either     *)
(* every check holds of the presentation and the result is the signed      *)
(* payload with each revealed claim put into an object whose _sd array     *)
(* lists its digest, or the error names the first check that fails.        *)
(*                                                                         *)
(* Everything is said about the string that was presented: there is no     *)
(* walk, no digest map, no running payload.                                *)
(***************************************************************************)
EXTENDS SdJwt

CONSTANTS
  Calls,            \* the [raw, nonce] pairs callers pass
  ResolveKey(_, _), \* the KeyResolver's possible answers; Nil is an error
  maxVerifyDepth, TicksPerSecond

VARIABLES
  clock, opts,
  phase,            \* "idle", or a call is "running" or "answered"
  call,             \* the arguments of the call
  now,              \* the time at which it looked at the clock, Nil before
  reply             \* its answer

vars == <<clock, opts, phase, call, now, reply>>

-----------------------------------------------------------------------------
(* The presentation.                                                       *)

Jwt(r)     == Parse(r).IssuerJWT
Discs(r)   == Parse(r).Disclosures
Signed(r)  == Jwt(r).jwt.payload
Readable(r) == Parses(r) /\ decodes(Jwt(r)) /\ Claim(Signed(r), "iss", "str") # Nil

Answers(r) == ResolveKey(Claim(Signed(r), "iss", "str"), Jwt(r).jwt.header.kid)

InTime(r, at) ==
  LET exp == Claim(Signed(r), "exp", "num")
  IN  exp # Nil => at <= exp * TicksPerSecond + opts.clockSkew

Started(r, at) ==
  LET nbf == Claim(Signed(r), "nbf", "num")
  IN  nbf # Nil => at >= nbf * TicksPerSecond - opts.clockSkew

TooDeep(r) == \E o \in Objects(Signed(r)) : Len(o) > maxVerifyDepth

(* The objects that list the digest of disclosure i.                       *)
Homes(r, i) ==
  {o \in Objects(Signed(r)) :
     Digest(sdAlg(Signed(r)), Discs(r)[i]) \in ToSet(Signed(r).sd[o])}

Opened(r, i) == ParseDisclosure(Discs(r)[i])

Keyed(r) ==
  {i \in DOMAIN Discs(r) : DisclosureParses(Discs(r)[i]) /\ Opened(r, i).Key # Nil}

(* The ways to put every revealed claim into an object that lists it.      *)
Placements(r) ==
  {h \in [DOMAIN Discs(r) -> Objects(Signed(r))] :
     \A i \in DOMAIN Discs(r) : h[i] \in Homes(r, i)}

Revealed(r, I) ==
  [k \in {Opened(r, i).Key : i \in I} |->
     Opened(r, CHOOSE i \in I : Opened(r, i).Key = k).Value]

Reconstructed(r, h) ==
  [Signed(r) EXCEPT !.val =
     [o \in Objects(Signed(r)) |->
        Overlay(Signed(r).val[o], Revealed(r, {i \in Keyed(r) : h[i] = o}))]]

KB(r) == Parse(r).KBJWT

-----------------------------------------------------------------------------
(* The verdicts of the chain: the first check that fails, or "none".       *)

(* On disclosure i, after those before it.                                 *)
DisclosureVerdict(r, i) ==
  IF ~DisclosureParses(Discs(r)[i]) THEN "disclosure_parse"
  ELSE IF Homes(r, i) = {} THEN "disclosure_hash"
  ELSE IF i \in Keyed(r) /\ \E j \in Keyed(r) : j < i /\ Opened(r, j).Key = Opened(r, i).Key
       THEN "disclosure_duplicate"
  ELSE "none"

RefusedDiscs(r) == {i \in DOMAIN Discs(r) : DisclosureVerdict(r, i) # "none"}

(* On the issuer's part, with the resolver's answer k, at time at.         *)
IssuerVerdict(r, k, at) ==
  IF k = Nil THEN "key_resolution"
  ELSE IF ~verifyJWTSignature(Jwt(r), k) THEN "signature"
  ELSE IF ~InTime(r, at) THEN "exp"
  ELSE IF ~Started(r, at) THEN "nbf"
  ELSE IF sdAlg(Signed(r)) = Nil THEN "sd_alg"
  ELSE IF TooDeep(r) THEN "disclosure_collect"
  ELSE IF RefusedDiscs(r) # {} THEN DisclosureVerdict(r, Min(RefusedDiscs(r)))
  ELSE "none"

(* On the KB-JWT and the type, with the reconstructed payload p.           *)
KBVerdict(c, p) ==
  LET kb == KB(c.raw)
      claims == kb.jwt.payload
  IN  IF ~hasCnf(p) THEN "cnf"
      ELSE IF ~decodes(kb) THEN "kbjwt_decode"
      ELSE IF cnfKey(p) = Nil THEN "kbjwt_key"
      ELSE IF ~verifyJWTSignature(kb, cnfKey(p)) THEN "kbjwt_sig"
      ELSE IF c.nonce # Nil /\ claims.nonce # c.nonce THEN "kbjwt_nonce"
      ELSE IF opts.audience # Nil /\ opts.audience \notin claims.aud THEN "kbjwt_aud"
      ELSE IF claims.sd_hash # DigestSHA256(Prefix(Parse(c.raw))) THEN "kbjwt_sd_hash"
      ELSE "none"

HolderVerdict(c, p) ==
  IF KB(c.raw) # Nil THEN KBVerdict(c, p)
  ELSE IF opts.requireKeyBinding THEN "kbjwt" ELSE "none"

LateVerdict(c, p) ==
  IF HolderVerdict(c, p) # "none" THEN HolderVerdict(c, p)
  ELSE IF opts.expectedVCT # Nil /\ Claim(p, "vct", "str") # opts.expectedVCT THEN "vct"
  ELSE "none"

(* The sentinel error each stage wraps.                                    *)
Sentinel ==
  [parse |-> "ErrInvalidFormat", issuer_jwt_decode |-> "ErrInvalidFormat",
   key_resolution |-> "ErrKeyResolutionFailed", signature |-> "ErrSignatureInvalid",
   exp |-> "ErrTokenExpired", nbf |-> "ErrTokenNotYetValid",
   sd_alg |-> "ErrUnsupportedHashAlgorithm", disclosure_collect |-> "ErrNestingTooDeep",
   disclosure_parse |-> "ErrDisclosureInvalid", disclosure_hash |-> "ErrDisclosureMismatch",
   disclosure_duplicate |-> "ErrDisclosureDuplicate", kbjwt |-> "ErrKBJWTRequired",
   cnf |-> "ErrCnfMissing", kbjwt_decode |-> "ErrKBJWTInvalid",
   kbjwt_key |-> "ErrKBJWTInvalid", kbjwt_sig |-> "ErrKBJWTInvalid",
   kbjwt_nonce |-> "ErrKBJWTNonceMismatch", kbjwt_aud |-> "ErrKBJWTAudMismatch",
   kbjwt_sd_hash |-> "ErrKBJWTHashMismatch", vct |-> "ErrVCTMismatch"]

Result(r, p) ==
  [accepted |-> TRUE, IssuerClaims |-> Visible(p), DisclosedClaims |-> Revealed(r, Keyed(r)),
   Issuer |-> Claim(Signed(r), "iss", "str"), VCT |-> Claim(p, "vct", "str"),
   Subject |-> Claim(p, "sub", "str"), KeyBound |-> KB(r) # Nil]

-----------------------------------------------------------------------------
NoCall == [raw |-> Nil, nonce |-> Nil]

Init == clock = 0 /\ phase = "idle" /\ call = NoCall /\ now = Nil /\ reply = Nil

Tick == clock' = clock + 1 /\ UNCHANGED <<opts, phase, call, now, reply>>

Verify ==
  /\ phase = "idle" /\ phase' = "running" /\ call' \in Calls
  /\ UNCHANGED <<clock, opts, now, reply>>

(* The call looks at the clock, once.                                      *)
Look ==
  /\ phase = "running" /\ now = Nil /\ now' = clock
  /\ UNCHANGED <<clock, opts, phase, call, reply>>

Return ==
  /\ phase = "answered" /\ phase' = "idle" /\ call' = NoCall /\ now' = Nil /\ reply' = Nil
  /\ UNCHANGED <<clock, opts>>

(* All checks hold at the time of the call.                                *)
Accept(at) ==
  /\ Readable(call.raw)
  /\ \E k \in Answers(call.raw), h \in Placements(call.raw) :
       LET p == Reconstructed(call.raw, h)
       IN  /\ reply' = Result(call.raw, p)
           /\ IssuerVerdict(call.raw, k, at) = "none"
           /\ LateVerdict(call, p) = "none"

(* Check s is the first that fails on call c at time at.                   *)
Justified(c, s, at) ==
  \/ s = "parse" /\ ~Parses(c.raw)
  \/ s = "issuer_jwt_decode" /\ Parses(c.raw) /\ ~Readable(c.raw)
  \/ /\ Readable(c.raw)
     /\ \E k \in Answers(c.raw) :
          \/ s = IssuerVerdict(c.raw, k, at)
          \/ /\ IssuerVerdict(c.raw, k, at) = "none"
             /\ \E h \in Placements(c.raw) : s = LateVerdict(c, Reconstructed(c.raw, h))

Reject(at) ==
  \E s \in DOMAIN Sentinel :
    /\ reply' = [accepted |-> FALSE, stage |-> s, err |-> Sentinel[s]]
    /\ Justified(call, s, at)

(* A call that has not looked at the clock yet may do so as it answers.    *)
Answer ==
  LET at == IF now = Nil THEN clock ELSE now
  IN  /\ phase = "running" /\ phase' = "answered" /\ now' \in {now, at}
      /\ Accept(at) \/ Reject(at)
      /\ UNCHANGED <<clock, opts, call>>

Next == Tick \/ Verify \/ Look \/ Answer \/ Return

Spec == Init /\ [][Next]_vars
=============================================================================
