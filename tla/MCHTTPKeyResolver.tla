-------------------------- MODULE MCHTTPKeyResolver --------------------------
(***************************************************************************)
(* An instance of HTTPKeyResolver: issuers that replace their key, asked   *)
(* for the old one by its key id and for whichever key there is.           *)
(***************************************************************************)
EXTENDS HTTPKeyResolver

JWK(kid, id) == [kid |-> kid, key |-> [kty |-> "EC", crv |-> "P-256", id |-> id]]

MCFirst == [i \in Issuers |-> <<JWK("k1", "old")>>]

MCDocuments == [i \in Issuers |-> {<<JWK("k2", "new")>>}]

MCLookups == {[issuer |-> i, keyID |-> k] : i \in Issuers, k \in {"k1", Nil}}
=============================================================================
