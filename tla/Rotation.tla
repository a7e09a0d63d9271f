------------------------------- MODULE Rotation -------------------------------
(***************************************************************************)
(* A relying party whose Verifier asks an HTTPKeyResolver, while issuers   *)
(* rotate their keys and other goroutines use the same resolver.           *)
(*                                                                         *)
(* Verify is the machine of Verifier.tla, except that the resolver's       *)
(* answer, a single step there, is a call of ResolveKey here.              *)
(***************************************************************************)
EXTENDS HTTPKeyResolver

CONSTANTS
  Self,          \* the goroutine that runs Verify
  Presentations, Nonces, VerifierOptions, maxVerifyDepth, TicksPerSecond
                 \* see Verifier.tla

ASSUME RotationAssumption ==
  /\ Self \in Callers
  /\ \A i \in Issuers : \A d \in Documents[i] \cup {FirstDocument[i]} : d \in Seq(ToSet(d))
  /\ \A r \in Presentations :
       Parses(r) /\ decodes(r[1]) =>
         Claim(r[1].jwt.payload, "iss", "str") \in Issuers \cup {Nil}

VARIABLES
  opts, pc, raw, nonce, t, issuer, pubKey, now, payload, cur, visited, digestMap, next,
  disclosed, outcome,   \* of Verify
  told                  \* the resolver's last answer to it, for the properties

(* What Verifier.tla takes for a resolver: one that answers with an error  *)
(* or with any key its issuer may publish.                                 *)
MayAnswer(iss, kid) ==
  {Nil} \cup {jwk.key : jwk \in UNION {ToSet(d) : d \in Documents[iss] \cup {FirstDocument[iss]}}}

V == INSTANCE Verifier WITH ResolveKey <- MayAnswer

verifyVars ==
  <<opts, pc, raw, nonce, t, issuer, pubKey, now, payload, cur, visited, digestMap, next,
    disclosed, outcome>>
resolverVars == <<ttl, cache, localVars, published, slowest>>
rotationVars == <<clock, verifyVars, resolverVars, told>>

-----------------------------------------------------------------------------
Time == V!Tick /\ UNCHANGED <<resolverVars, told>>

Rotate ==
  /\ \E i \in Issuers : \E d \in Documents[i] : Publish(i, d)
  /\ UNCHANGED <<verifyVars, told>>

(* Other goroutines that resolve keys through the same cache.              *)
Others ==
  /\ \E c \in Callers \ {Self} :
       (\E q \in Lookups : Call(c, q)) \/ CallStep(c) \/ Return(c)
  /\ UNCHANGED <<verifyVars, told>>

Arrive ==
  /\ \E r \in Presentations, n \in Nonces : V!Verify(r, n)
  /\ UNCHANGED <<resolverVars, told>>

(* Verify works, calls v.resolver.ResolveKey, and gets its answer.         *)
Work ==
  /\ V!OwnStep
  /\ told' = IF pc \in V!Answered THEN Nil ELSE told
  /\ UNCHANGED resolverVars

Ask ==
  /\ pc = "key_resolution"
  /\ Call(Self, [issuer |-> issuer, keyID |-> t.IssuerJWT.jwt.header.kid])
  /\ UNCHANGED <<verifyVars, told>>

Resolving == CallStep(Self) /\ UNCHANGED <<verifyVars, told>>

Told ==
  /\ at[Self] = "done"
  /\ V!KeyResolved(IF "key" \in DOMAIN answer[Self] THEN answer[Self].key ELSE Nil)
  /\ told' = [failed |-> answer[Self] = [err |-> "fetch"],
              recent |-> RecentlyPublished(Self)]
  /\ Return(Self)

RotationInit == V!Init /\ HTTPInit /\ told = Nil

RotationNext == Time \/ Rotate \/ Others \/ Arrive \/ Work \/ Ask \/ Resolving \/ Told

RotationSpec == RotationInit /\ [][RotationNext]_rotationVars

-----------------------------------------------------------------------------
(* Properties.                                                             *)

SigningKey == t.IssuerJWT.jwt.sig.by

(* A credential is accepted only if the key that signed it stood in a      *)
(* document that its issuer still served when Verify asked, or less than   *)
(* the ttl and the slowest fetch before: withdrawing a key takes effect    *)
(* in bounded time, whatever the other goroutines put into the cache.      *)
AcceptedWhilePublished ==
  pc = "accepted" =>
    \E n \in told.recent : \E jwk \in ToSet(published[issuer][n].set) : jwk.key = SigningKey

(* A well-signed credential is refused for its key only if the fetch       *)
(* failed or some recent document did not have the key under its key id:   *)
(* an issuer that publishes a key early enough before it signs with it,    *)
(* and long enough after, loses no credential to the cache.                *)
RefusedOnlyIfUnpublished ==
  /\ pc = "rejected" /\ outcome.stage \in {"key_resolution", "signature"}
  /\ verifyJWTSignature(t.IssuerJWT, SigningKey)
  => \/ told.failed
     \/ \E n \in told.recent :
          KeyFor(published[issuer][n].set, t.IssuerJWT.jwt.header.kid) # [key |-> SigningKey]

(* The one-step resolver of Verifier.tla, which answers with an error or   *)
(* with any key its issuer may publish, covers HTTPKeyResolver: all that   *)
(* is shown of Verifier holds of the two together.                         *)
ImplementsVerifier == V!Spec
=============================================================================
