------------------------------ MODULE MCRotation ------------------------------
(***************************************************************************)
(* An instance of Rotation: issuer i goes from an old to a new key, with   *)
(* an overlap or by reusing the key id; issuer j keeps its keys.           *)
(***************************************************************************)
EXTENDS Rotation

Key(id) == [kty |-> "RSA", crv |-> Nil, id |-> id]
JWK(kid, id) == [key |-> Key(id), kid |-> kid, alg |-> Nil, thumb |-> id]

(* Both have a key named k1; j also has one without a kid.                 *)
MCFirst ==
  [i \in Issuers |->
     IF i = "i" THEN <<JWK("k1", "old")>> ELSE <<JWK("k1", "j"), JWK(Nil, "unnamed")>>]

MCDocuments ==
  [i \in Issuers |->
     IF i = "i" THEN {<<JWK("k1", "old"), JWK("k2", "new")>>, <<JWK("k1", "new")>>} ELSE {}]

MCLookups == {[issuer |-> "i", keyID |-> "k1"]}

-----------------------------------------------------------------------------
Payload(iss) ==
  [val |-> [o \in {<<>>} |-> [iss |-> [str |-> iss], vct |-> [str |-> "T"]]],
   sd |-> [o \in {<<>>} |-> <<>>]]

(* A credential signed by a jwx Signer for the key.                        *)
Credential(iss, jwk) == String(Token(signJWT(NewSigner(jwk, Nil), Payload(iss)), <<>>, Nil))

(* The key of the last one has no kid: its header has the thumbprint.      *)
MCPresentations ==
  {Credential("i", JWK("k1", "old")), Credential("i", JWK("k2", "new")),
   Credential("j", JWK("k1", "j")), Credential("j", JWK(Nil, "unnamed"))}

(* NewVerifier without options.                                            *)
MCVerifierOptions ==
  {[expectedVCT |-> Nil, requireKeyBinding |-> FALSE, audience |-> Nil, clockSkew |-> 0]}
=============================================================================
