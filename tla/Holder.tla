-------------------------------- MODULE Holder --------------------------------
(***************************************************************************)
(* Holder.Present (holder.go): from a stored token to a presentation.      *)
(* Holder keeps no state but its signer, so it is a function of the token, *)
(* the options [RevealClaims, KeyBinding, Nonce, Audience] and the time.   *)
(***************************************************************************)
EXTENDS SdJwt

(* Only a filtering holder looks into the disclosures.                     *)
selectFails(t, reveal) ==
  reveal # {} /\ \E enc \in ToSet(t.Disclosures) : ~DisclosureParses(enc)

(* An empty RevealClaims keeps everything; disclosures without a key are   *)
(* always kept.                                                            *)
selectDisclosures(t, reveal) ==
  LET wanted(enc) == ParseDisclosure(enc).Key \in reveal \cup {Nil}
  IN  IF reveal = {} THEN t.Disclosures
      ELSE ElementsAt(t.Disclosures, {i \in DOMAIN t.Disclosures : wanted(t.Disclosures[i])})

(* Mutants: the nonce is left out; sd_hash without the trailing tilde.     *)
KBJWTWithoutNonce(signer, presented, nonce, audience, now) ==
  signJWT(signer, [iat |-> now, nonce |-> Nil, aud |-> {audience},
                   sd_hash |-> DigestSHA256(Prefix(presented))])
KBJWTWithoutTilde(signer, presented, nonce, audience, now) ==
  signJWT(signer, [iat |-> now, nonce |-> nonce, aud |-> {audience},
                   sd_hash |-> DigestSHA256(<<presented.IssuerJWT>> \o presented.Disclosures)])

buildKBJWT(signer, presented, nonce, audience, now) ==
  signJWT(signer, [iat |-> now, nonce |-> nonce, aud |-> {audience},
                   sd_hash |-> DigestSHA256(Prefix(presented))])

(* Present returns an error unless Presentable.                            *)
Presentable(signer, t, o) ==
  /\ ~selectFails(t, o.RevealClaims)
  /\ o.KeyBinding => signer # Nil /\ o.Nonce # Nil /\ o.Audience # Nil

(* The KB-JWT is built over the token that is about to carry it.           *)
Present(signer, t, o, now) ==
  LET presented == Token(t.IssuerJWT, selectDisclosures(t, o.RevealClaims), Nil)
  IN  IF o.KeyBinding
      THEN [presented EXCEPT !.KBJWT = buildKBJWT(signer, presented, o.Nonce, o.Audience, now)]
      ELSE presented
=============================================================================
