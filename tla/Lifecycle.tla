------------------------------ MODULE Lifecycle ------------------------------
(***************************************************************************)
(* The three roles together: an issuer issues a credential into a wallet,  *)
(* the holder presents it in answer to the verifier's challenges, and a    *)
(* relying party verifies what reaches it.                                 *)
(*                                                                         *)
(* The issuer and the verifier are the step-by-step machines of Issuer.tla *)
(* and Verifier.tla; holder and relying party are callers of the library.  *)
(* The transport may lose, delay, repeat and reorder presentations, and an *)
(* intermediary may cut segments out of one, as a proxy that strips        *)
(* disclosures or the KB-JWT would.                                        *)
(***************************************************************************)
EXTENDS Issuer, Verifier, Holder

CONSTANTS
  HolderSigner,   \* the Signer of the Holder, Nil if it has none
  PresentChoices, \* the [RevealClaims, KeyBinding, Audience] the holder uses
  MaxPresents,    \* bound on the presentations made
  MaxChallenges   \* bound on the nonces issued

VARIABLES
  wallet,         \* the stored Token, Nil before issuance
  presented,      \* what the holder presented: [raw, opts]
  challenge       \* nonces issued so far; the last one is current

holderVars == <<wallet, presented, challenge>>
lifeVars == <<vars, issueVars, holderVars>>

-----------------------------------------------------------------------------
(* Time passes for everyone.                                               *)
Time == Tick /\ UNCHANGED <<issueVars, holderVars>>

Issuing ==
  /\ \/ \E r \in Requests : Issue(r)
     \/ BuildClaim \/ BuildEnter \/ BuildReturn \/ AddDecoys
     \/ RandomnessFails \/ SetRegisteredClaims \/ Sign
  /\ UNCHANGED <<vars, holderVars>>

(* The wallet stores the token it received.                                *)
Store ==
  /\ ipc = "issued" /\ wallet = Nil
  /\ wallet' = result.token
  /\ UNCHANGED <<vars, issueVars, presented, challenge>>

(* The relying party starts a session with a fresh nonce.                  *)
Challenge ==
  /\ challenge < MaxChallenges
  /\ challenge' = challenge + 1
  /\ UNCHANGED <<vars, issueVars, wallet, presented>>

(* The holder answers the current challenge.                               *)
PresentTo(c) ==
  LET o == [RevealClaims |-> c.RevealClaims, KeyBinding |-> c.KeyBinding,
            Audience |-> c.Audience, Nonce |-> challenge]
      raw1 == String(Present(HolderSigner, wallet, o, clock \div TicksPerSecond))
  IN  /\ wallet # Nil /\ challenge > 0 /\ Cardinality(presented) < MaxPresents
      /\ Presentable(HolderSigner, wallet, o)
      /\ presented' = presented \cup {[raw |-> raw1, opts |-> o]}
      /\ UNCHANGED <<vars, issueVars, wallet, challenge>>

(* What may arrive of the strings sent, at any time and any number of      *)
(* times: some of the disclosures, with or without the KB-JWT.             *)
InTransit ==
  UNION {LET s == Parse(p.raw)
         IN  {String(Token(s.IssuerJWT, ElementsAt(s.Disclosures, J), kb)) :
                J \in SUBSET DOMAIN s.Disclosures, kb \in {s.KBJWT, Nil}} : p \in presented}

(* A message reaches the relying party, which verifies it with the nonce   *)
(* of the session it is in.                                                *)
Deliver == \E r \in InTransit : Verify(r, challenge) /\ UNCHANGED <<issueVars, holderVars>>

Verifying == Step /\ UNCHANGED <<issueVars, holderVars>>

LifeInit ==
  /\ Init /\ IssuerInit
  /\ wallet = Nil /\ presented = {} /\ challenge = 0

LifeNext ==
  \/ Time \/ Issuing \/ Store \/ Challenge \/ Deliver \/ Verifying
  \/ \E c \in PresentChoices : PresentTo(c)

LifeSpec == LifeInit /\ [][LifeNext]_lifeVars

-----------------------------------------------------------------------------
(* Properties.                                                             *)

Answer(r) == {p \in presented : p.raw = r}

(* Holder and verifier agree: a result reported as KeyBound was presented  *)
(* by the holder, to this verifier and for the nonce of this very session, *)
(* and with exactly these disclosures, whatever was delayed, repeated or   *)
(* cut on the way.                                                         *)
KeyBoundAgreement ==
  pc = "accepted" /\ outcome.KeyBound =>
    \E p \in Answer(raw) :
      /\ p.opts.KeyBinding /\ p.opts.Nonce = nonce
      /\ opts.audience # Nil => p.opts.Audience = opts.audience

(* What the relying party reads is the issuer's claims at their place: the *)
(* always disclosed ones and those whose disclosures arrived, and no       *)
(* withheld one.                                                           *)
RevealedExactly ==
  pc = "accepted" =>
    \A p \in Processed(req) :
      LET arrived == \E d \in ToSet(t.Disclosures) : ParseDisclosure(d).Value.claim = p
          readable == /\ Front(p) \in Objects(payload)
                      /\ Last(p) \in DOMAIN payload.val[Front(p)]
      IN  /\ Front(p) \in Objects(payload) => (readable <=> ~Selective(req, p) \/ arrived)
          /\ arrived => readable /\ payload.val[Front(p)][Last(p)].claim = p

(* Why a presentation may be refused.  Its credential has expired, or is   *)
(* not valid yet: the JWT counts in whole seconds, so a credential may end *)
(* within the second before its time, but is valid in all of the second in *)
(* which it begins.                                                        *)
OutOfTime ==
  LET issued == Unix(tree.val[<<>>]["iat"].num)
      end == IF req.expiresAt = Nil THEN issued + iopts.tokenTTL ELSE req.expiresAt
  IN  \/ outcome.stage = "exp" /\ now > end - TicksPerSecond + opts.clockSkew
      \/ /\ outcome.stage = "nbf"
         /\ req.notBefore # Nil /\ now < req.notBefore - opts.clockSkew

(* It reveals two claims of the same name, which Verify never takes.       *)
NamesClash ==
  /\ outcome.stage = "disclosure_duplicate"
  /\ \E x, y \in ToSet(t.Disclosures) :
       LET d == ParseDisclosure(x)
           e == ParseDisclosure(y)
       IN  d.Key = e.Key /\ d.Value.claim # e.Value.claim

(* The verifier expects another type.                                      *)
OtherType == outcome.stage = "vct" /\ opts.expectedVCT \notin {Nil, req.vct}

(* It is p, which has no KB-JWT and one is required, or one that the       *)
(* holder made for another nonce or audience.                              *)
OtherSession(p) ==
  \/ outcome.stage = "kbjwt" /\ opts.requireKeyBinding /\ ~p.opts.KeyBinding
  \/ outcome.stage = "kbjwt_nonce" /\ p.opts.Nonce # nonce
  \/ outcome.stage = "kbjwt_aud" /\ opts.audience \notin {Nil, p.opts.Audience}

(* The round trip, with a resolver that was given the issuer's key: a      *)
(* presentation that the holder made and that arrives as it was sent is    *)
(* refused at one of these stages only, and only where the reason that the *)
(* error names is really given.                                            *)
RoundTrip ==
  pc = "rejected" =>
    \A p \in Answer(raw) : OutOfTime \/ NamesClash \/ OtherType \/ OtherSession(p)

-----------------------------------------------------------------------------
(* What RevealedExactly and RoundTrip take of requests, keys and signers.  *)

(* A selective claim has a name, and at the top level not that of a        *)
(* registered claim.  Encode writes a claim without a name as an array     *)
(* element, which no object receives, and under a registered name the      *)
(* relying party reads the issuer's own value when the claim is withheld.  *)
Selectable ==
  \A r \in Requests : \A p \in Processed(r) : Selective(r, p) =>
    Last(p) # Nil /\ (Front(p) = <<>> => Last(p) \notin RegisteredName)

(* Verify finds the digest of every selective claim in the payload, not in *)
(* an object that a registered claim replaces or that is itself disclosed; *)
(* it takes objects only down to its own depth, which Issue does not ask   *)
(* of plain maps.                                                          *)
Verifiable(r) ==
  /\ \A p \in Processed(r) : Selective(r, p) =>
       /\ p[1] \notin RegisteredName
       /\ \A q \in Paths(r) : IsStrictPrefix(q, p) => ~Selective(r, q)
  /\ \A p \in Paths(r) : r.kind[p] = "map" => Len(p) <= maxVerifyDepth

(* Verify takes the signatures of this signer, under its own key.          *)
Fits(signer) == signer.key # Nil /\ verifyJWTSignature(signJWT(signer, Nil), signer.key)

(* Times are times, and no clock skew is negative.                         *)
Timed ==
  /\ \A r \in Requests : {r.notBefore, r.expiresAt} \subseteq Int \cup {Nil}
  /\ \A o \in IssuerOptions : o.tokenTTL \in Int
  /\ \A o \in VerifierOptions : o.clockSkew \in Nat

(* The resolver has the issuer's key, and a holder who binds its           *)
(* presentations has its own in the credential, as a JWK.                  *)
CanRoundTrip ==
  /\ Timed /\ maxNestingDepth <= maxVerifyDepth
  /\ \A r \in Requests : Verifiable(r)
  /\ \A o \in IssuerOptions :
       /\ o.id # Nil /\ o.hashAlg # Nil /\ Fits(o.signer)
       /\ ResolveKey(o.id, o.signer.kid) = {o.signer.key}
  /\ (\E c \in PresentChoices : c.KeyBinding) =>
       /\ Fits(HolderSigner)
       /\ HolderSigner.key.kty = "EC" => HolderSigner.key.crv \in curveForName
       /\ \A r \in Requests :
            r.holderKey # Nil /\ r.holderKey = [type |-> "jwk", key |-> HolderSigner.key]
=============================================================================
