------------------------------- MODULE Mortgage -------------------------------
(***************************************************************************)
(* example/mortgage: a bank issues a mortgage offer, a wallet presents it  *)
(* to a conveyancer with everything withheld that may be, and the          *)
(* conveyancer verifies it, then once more with another nonce.             *)
(*                                                                         *)
(* The calls are those of Lifecycle; these definitions are its constants.  *)
(***************************************************************************)
EXTENDS Lifecycle

(* Keys of ecdsa.GenerateKey(elliptic.P256(), rand.Reader).                *)
GenerateKey(id) == [kty |-> "EC", crv |-> "P-256", id |-> id]
bankKey   == GenerateKey("bank")
walletKey == GenerateKey("wallet")

(* The example's own Signer: ecdsa.SignASN1 over SHA-256.                  *)
ecSigner(key, kid) ==
  [key |-> key, alg |-> "ES256", kid |-> kid, hash |-> "SHA256", form |-> "asn1"]

walletSigner == ecSigner(walletKey, "wallet-key-1")

(* A KeyResolverFunc that knows one issuer and ignores the key id.         *)
resolver(iss, kid) == {IF iss = "lloyds" THEN bankKey ELSE Nil}

bank ==
  {NewIssuer("lloyds", ecSigner(bankKey, "bank-signing-key-1"),
     <<WithSchemaURI("mortgage-offer"), WithTokenTTL(defaultTokenTTL)>>)}

(* An always disclosed claim, a selective one, and the applicant with      *)
(* a selective and an always disclosed field, for each of the several in   *)
(* the source; the holder key is a standard library key.                   *)
offer ==
  {[vct |-> "MortgageOffer", subject |-> "customer-ref", notBefore |-> Nil, expiresAt |-> Nil,
    holderKey |-> [type |-> "std", key |-> walletKey],
    kind |-> [p \in {<<"bank_name">>, <<"max_amount">>, <<"applicant">>, <<"applicant", "name">>,
                     <<"applicant", "ref">>} |->
                IF p = <<"applicant">> THEN "structured" ELSE "scalar"],
    sel |-> [o \in {<<>>, <<"applicant">>} |-> IF o = <<>> THEN {"max_amount"} ELSE {"name"}]]}

presentation == {[RevealClaims |-> {}, KeyBinding |-> TRUE, Audience |-> "conveyancer"]}

conveyancer ==
  {NewVerifier(<<RequireKeyBinding("conveyancer"), ExpectVCT("MortgageOffer"),
                 WithClockSkew(TicksPerSecond)>>)}
=============================================================================
