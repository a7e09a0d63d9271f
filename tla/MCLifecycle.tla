----------------------------- MODULE MCLifecycle -----------------------------
(***************************************************************************)
(* Instances of Lifecycle: one issuer, one holder, one relying party, and  *)
(* credentials with flat and with nested selective claims.                 *)
(***************************************************************************)
EXTENDS Lifecycle, Jwx

JWK(kty, id, kid) ==
  [key |-> [kty |-> kty, crv |-> IF kty = "EC" THEN "P-256" ELSE Nil, id |-> id],
   kid |-> kid, alg |-> Nil, thumb |-> id]

(* The issuer's key has no kid: its JWTs name it by its thumbprint.        *)
IssuerJWK == JWK("RSA", "issuer", Nil)
HolderJWK == JWK("RSA", "holder", "h1")
HolderKey == HolderJWK.key

IssuerSigner == NewSigner(IssuerJWK, "RS384")
MCHolderSigner == NewSigner(HolderJWK, Nil)

(* A StaticKeyResolver with the issuer's key among others.                 *)
Resolver ==
  NewStaticKeyResolver([i \in {"iss", "other"} |->
    IF i = "iss" THEN <<JWK("RSA", "retired", "k0"), JWK("RSA", "replaced", Nil), IssuerJWK>>
                 ELSE <<JWK("EC", "foreign", Nil)>>])

MCResolveKey(iss, kid) == {StaticKey(Resolver, iss, kid)}

MCIssuerOptions ==
  {NewIssuer("iss", IssuerSigner,
     <<WithHashAlgorithm("SHA384"), WithDecoyDigests(1), WithTokenTTL(1)>>)}

MCVerifierOptions ==
  {NewVerifier(<<WithClockSkew(1)>>), NewVerifier(<<ExpectVCT("T"), RequireKeyBinding("v")>>)}

-----------------------------------------------------------------------------
Request(kind, sel, keyType) ==
  [vct |-> "T", subject |-> Nil, notBefore |-> Nil, expiresAt |-> Nil,
   holderKey |-> [type |-> keyType, key |-> HolderKey], kind |-> kind, sel |-> sel]

Kind(scalars, structs) ==
  [p \in scalars \cup structs |-> IF p \in structs THEN "structured" ELSE "scalar"]

(* b is a selective field of the claim s, or itself a selective object in  *)
(* a credential of another type that is valid later; or a is also the name *)
(* of a field.                                                             *)
Nested ==
  Request(Kind({<<"a">>, <<"s", "b">>, <<"s", "c">>}, {<<"s">>}),
          [o \in {<<>>, <<"s">>} |-> IF o = <<>> THEN {"a"} ELSE {"b"}], "jwk")
Whole ==
  [Request(Kind({<<"a">>, <<"b", "c">>}, {<<"b">>}),
           [o \in {<<>>, <<"b">>} |-> IF o = <<>> THEN {"a", "b"} ELSE {}], "jwk")
     EXCEPT !.vct = "U", !.notBefore = 3, !.expiresAt = 3]
SameName ==
  Request(Kind({<<"a">>, <<"s", "a">>}, {<<"s">>}),
          [o \in {<<>>, <<"s">>} |-> {"a"}], "jwk")

MCRequests == {Nested, Whole, SameName}

Choice(reveal, kb, aud) == [RevealClaims |-> reveal, KeyBinding |-> kb, Audience |-> aud]

MCPresentOptions ==
  {Choice({"a", "b"}, TRUE, "v"), Choice({"a"}, TRUE, "w"), Choice({"a", "b"}, FALSE, "v")}

(* A selective structured claim with a selective field of its own.         *)
MCRecursive ==
  {Request(Kind({<<"a">>, <<"s", "b">>}, {<<"s">>}),
           [o \in {<<>>, <<"s">>} |-> IF o = <<>> THEN {"s"} ELSE {"b"}], "jwk")}

(* A holder key of the standard library.                                   *)
MCStdKey == {Request(Kind({<<"a">>}, {}), [o \in {<<>>} |-> {"a"}], "std")}

(* The holder reveals both names of MCRecursive.                           *)
MCRevealBoth == {Choice({"b", "s"}, kb, "v") : kb \in BOOLEAN}

(* The first instance is one for the theorems about RevealedExactly and    *)
(* RoundTrip; each of the others, on which RoundTrip fails, is not.        *)
ASSUME InstanceAssumption ==
  Selectable /\ (CanRoundTrip <=> Requests = MCRequests)
=============================================================================
