--------------------------------- MODULE Jwx ---------------------------------
(***************************************************************************)
(* adapters/jwx: signers made from JWKs, key sets, and the resolver that   *)
(* looks keys up in sets loaded at startup.  HTTPKeyResolver.tla models    *)
(* the resolver that fetches them.                                         *)
(*                                                                         *)
(* A JWK is [key, kid, alg, thumb]: the key as in SdJwt.tla (Nil when no   *)
(* public key can be extracted), its optional kid and alg members and its  *)
(* thumbprint.  A JWK set is the sequence of its keys.                     *)
(***************************************************************************)
EXTENDS SdJwt

-----------------------------------------------------------------------------
(* Signer.                                                                 *)

(* The member alg of the key, or else a choice by key type and curve; Nil  *)
(* is the error for a key type that has none.                              *)
inferAlgorithm(jwk) ==
  CASE jwk.alg # Nil -> jwk.alg
    [] jwk.alg = Nil /\ jwk.key.kty = "EC" ->
         CASE jwk.key.crv = "P-384" -> "ES384" [] jwk.key.crv = "P-521" -> "ES512"
           [] OTHER -> "ES256"
    [] jwk.alg = Nil /\ jwk.key.kty = "RSA" -> "RS256"
    [] jwk.alg = Nil /\ jwk.key.kty = "OKP" -> "EdDSA"
    [] OTHER -> Nil

(* EdDSA signs the message itself; Nil is an unsupported algorithm.        *)
hashForAlg(alg) ==
  CASE alg \in {"ES256", "RS256", "PS256"} -> "SHA256"
    [] alg \in {"ES384", "RS384", "PS384"} -> "SHA384"
    [] alg \in {"ES512", "RS512", "PS512"} -> "SHA512"
    [] alg = "EdDSA" -> "none"
    [] OTHER -> Nil

(* What crypto.Signer returns for a bare hash as its options: ASN.1 for an *)
(* EC key, PKCS #1 v1.5 for an RSA key whatever alg says, 64 raw bytes for *)
(* an Ed25519 key.  Other keys are no crypto.Signer.                       *)
signRaw(key) ==
  CASE key.kty = "EC" -> "asn1" [] key.kty = "RSA" -> "pkcs1v15"
    [] key.kty = "OKP" -> "raw" [] OTHER -> Nil

(* The kid of the key, or else its thumbprint.                             *)
KeyID(jwk) == IF jwk.kid # Nil THEN jwk.kid ELSE jwk.thumb

(* NewSigner(jwk) or, when alg is not Nil, NewSigner(jwk,                  *)
(* WithAlgorithm(alg)); Nil is its error.                                  *)
NewSigner(jwk, alg) ==
  LET a == IF alg # Nil THEN alg ELSE inferAlgorithm(jwk)
  IN  IF a = Nil THEN Nil
      ELSE [key |-> jwk.key, alg |-> a, kid |-> KeyID(jwk),
            hash |-> hashForAlg(a), form |-> signRaw(jwk.key)]

-----------------------------------------------------------------------------
(* Key sets.  A resolution ends with [key |-> k] or [err |-> why].         *)

extractPublicKey(jwk) ==
  IF jwk.key # Nil THEN [key |-> jwk.key] ELSE [err |-> "no public key"]

(* The key of set for keyID: the first one of that name, or without a name *)
(* the only one.                                                           *)
KeyFor(set, keyID) ==
  LET first == SelectInSeq(set, LAMBDA jwk : jwk.kid = keyID)
  IN  IF keyID # Nil
      THEN IF first # 0 THEN extractPublicKey(set[first]) ELSE [err |-> "not found"]
      ELSE IF Len(set) = 1 THEN extractPublicKey(set[1]) ELSE [err |-> "no kid"]

-----------------------------------------------------------------------------
(* StaticKeyResolver.                                                      *)

(* The table of NewStaticKeyResolver for sets, which maps each issuer to a *)
(* JWK set: of two keys with the same kid, or both without one, the later  *)
(* one stays.  Nil when some key cannot be extracted.                      *)
NewStaticKeyResolver(sets) ==
  LET named(i, k) == SelectSeq(sets[i], LAMBDA jwk : jwk.kid = k)
      slots == UNION {{<<i, jwk.kid>> : jwk \in ToSet(sets[i])} : i \in DOMAIN sets}
  IN  IF \E i \in DOMAIN sets : \E jwk \in ToSet(sets[i]) : jwk.key = Nil THEN Nil
      ELSE [s \in slots |-> Last(named(s[1], s[2])).key]

(* The entry for the key id, or else the one without a key id.             *)
StaticKey(keys, issuer, keyID) ==
  CASE <<issuer, keyID>> \in DOMAIN keys -> keys[<<issuer, keyID>>]
    [] <<issuer, keyID>> \notin DOMAIN keys /\ <<issuer, Nil>> \in DOMAIN keys ->
         keys[<<issuer, Nil>>]
    [] OTHER -> Nil
=============================================================================
