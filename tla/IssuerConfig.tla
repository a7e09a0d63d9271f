----------------------------- MODULE IssuerConfig -----------------------------
(***************************************************************************)
(* NewIssuer and its options (issuer.go).  An issuer is its configuration: *)
(* [id, signer, hashAlg, decoyCount, schemaURI, tokenTTL].                 *)
(***************************************************************************)
EXTENDS SdJwt

CONSTANT defaultTokenTTL   \* 90 days

ASSUME TTLAssumption == defaultTokenTTL \in Nat

WithHashAlgorithm(h) == [hashAlg |-> h]
WithDecoyDigests(n) == [decoyCount |-> n]
WithSchemaURI(uri) == [schemaURI |-> uri]
WithTokenTTL(d) == [tokenTTL |-> d]

(* Options are applied in the order given.                                 *)
NewIssuer(id, signer, options) ==
  FoldLeft(Overlay, [id |-> id, signer |-> signer, hashAlg |-> "SHA256", decoyCount |-> 0,
                     schemaURI |-> Nil, tokenTTL |-> defaultTokenTTL], options)
=============================================================================
