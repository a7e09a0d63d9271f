------------------------------ MODULE MCVerifier ------------------------------
(***************************************************************************)
(* Instances of Verifier: one issuer, one holder, and presentations that   *)
(* reach every stage of the chain on both sides.                           *)
(***************************************************************************)
EXTENDS Verifier

IssuerKey == [kty |-> "EC",  crv |-> "P-256", id |-> "issuer"]
HolderKey == [kty |-> "RSA", crv |-> Nil, id |-> "holder"]
OtherKey  == [kty |-> "EC",  crv |-> "P-256", id |-> "other"]
Koblitz   == [kty |-> "EC",  crv |-> "secp256k1", id |-> "holder"]
OKPKey    == [kty |-> "OKP", crv |-> "Ed25519", id |-> "okp"]

ES256(key, form) == [key |-> key, alg |-> "ES256", kid |-> "k1", hash |-> "SHA256", form |-> form]
IssuerSigner == ES256(IssuerKey, "raw")
PS384(key)   == [key |-> key, alg |-> "PS384", kid |-> Nil, hash |-> "SHA384", form |-> "pss"]
RS256(key)   == [key |-> key, alg |-> "RS256", kid |-> Nil, hash |-> "SHA256", form |-> "pkcs1v15"]
EdDSA(key)   == [key |-> key, alg |-> "EdDSA", kid |-> "k2", hash |-> "SHA512", form |-> "raw"]

(* Resolution fails for unknown key ids, and may fail for the known one.   *)
MCResolveKey(iss, kid) ==
  CASE kid = "k1" -> {IssuerKey, Nil} [] kid = "k2" -> {OKPKey} [] OTHER -> {Nil}

-----------------------------------------------------------------------------
Str(s) == [str |-> s]
Num(n) == [num |-> n]
Reveal(salt, key, value) == Encode(Disclosure(salt, key, value))

A  == Reveal("s1", "a", Str("root"))
B  == Reveal("s2", "b", Str("nested"))
AN == Reveal("s3", "a", Str("nested"))
E  == Reveal("s4", Nil, Str("element"))
X  == Reveal("s5", "x", Str("unsigned"))
V  == Reveal("s6", "vct", Str("T"))
C  == Reveal("s7", "cnf", [jwk |-> HolderKey])
H  == Reveal("s8", "_sd_alg", Str("sha-512"))
R  == Reveal("s10", "n", Str("replaced"))
Junk  == [txt |-> "junk"]
Short == [arr |-> <<"s9">>]
Long  == [arr |-> <<"s1", "a", Str("root"), Str("more")>>]

DigestsOf(alg, encs) == [i \in DOMAIN encs |-> Digest(alg, encs[i])]

(* The payload with members root, objects objs below it, and _sd arrays.   *)
Payload(root, objs, sd) ==
  [val |-> [o \in {<<>>} \cup objs |->
              IF o = <<>> THEN Overlay(root, [k \in {p[1] : p \in objs} |-> [obj |-> <<k>>]])
              ELSE [k \in {c[Len(c)] : c \in {c \in objs : Front(c) = o}} |->
                       [obj |-> Append(o, k)]]],
   sd  |-> [o \in {<<>>} \cup objs |-> IF o \in DOMAIN sd THEN sd[o] ELSE <<>>]]

Base == [iss |-> Str("iss"), vct |-> Str("T"), cnf |-> [jwk |-> HolderKey]]
Drop(f, k) == [x \in DOMAIN f \ {k} |-> f[x]]
With(f, k, v) == Overlay(f, [x \in {k} |-> v])

N == {<<"n">>}
SdRoot == <<Digest("SHA256", A), <<"decoy", 1>>, Digest("SHA256", Long)>>
SdN    == DigestsOf("SHA256", <<B, AN, E>>)
Sds(root, nested) == [o \in {<<>>, <<"n">>} |-> IF o = <<>> THEN root ELSE nested]
Plain  == Payload(Base, N, Sds(SdRoot, SdN))
Root(p) == Payload(p, N, Sds(SdRoot, SdN))

Wire(jwt, discs, kb) == String(Token(jwt, discs, kb))
Signed(p) == signJWT(IssuerSigner, p)

(* Every list of up to two disclosures, repeated and foreign ones included.*)
Mixed ==
  {Wire(Signed(Plain), ds, Nil) : ds \in BoundedSeq({A, B, AN, E, X, Junk, Long}, 2)}
    \cup {Wire(Signed(Plain), ds, Nil) : ds \in {<<E, B, A>>, <<A, A, Junk>>, <<Short>>}}

(* Payloads in which a disclosure has two homes, a nested digest, replaces *)
(* the object that others belong to, or a claim that the chain itself      *)
(* reads.                                                                  *)
Shapes ==
  LET Deep(n) == {SubSeq(<<"n", "m", "q">>, 1, i) : i \in 1 .. n}
  IN  {Wire(Signed(Payload(Base, N, Sds(DigestsOf("SHA256", <<R>>), SdN))), ds, Nil) :
         ds \in {<<R, B>>, <<B, R>>}}
      \cup
      {Wire(Signed(Payload(Base, N, Sds(SdRoot, DigestsOf("SHA256", <<A>>)))), <<A>>, Nil),
       Wire(Signed(Payload(Base, {<<"n">>, <<"m">>},
              [o \in {<<"n">>, <<"m">>} |-> DigestsOf("SHA256", <<A>>)])), <<A>>, Nil),
       Wire(Signed(Payload(With(Base, "_sd_alg", Str("sha-384")), Deep(2),
              [o \in {<<"n", "m">>} |-> DigestsOf("SHA384", <<B, H>>)])), <<H, B>>, Nil),
       Wire(Signed(Payload(With(Base, "_sd_alg", Str("sha-256")), N,
              Sds(DigestsOf("SHA256", <<H, A>>), <<>>))), <<H, A>>, Nil),
       Wire(Signed(Payload(Drop(Base, "vct"), N,
              Sds(DigestsOf("SHA256", <<V>>), <<>>))), <<V>>, Nil),
       Wire(Signed(Payload(Drop(Base, "vct"), N,
              Sds(<<>>, DigestsOf("SHA256", <<V>>)))), <<V>>, Nil),
       Wire(Signed(Payload(Base, Deep(3), <<>>)), <<>>, Nil),
       Wire(Signed(Payload(With(Base, "_sd_alg", Str("md5")), N, <<>>)), <<>>, Nil)}

(* Issuer JWTs that fail or pass the checks before the disclosures.        *)
Envelopes ==
  LET T(p) == {Wire(Signed(Root(p)), <<A>>, Nil)}
  IN  UNION {T(Drop(Base, "iss")), T(With(Base, "iss", Num(0))), T(With(Base, "iat", Num(3))),
             T(With(Base, "vct", Str("U"))), T(Drop(Base, "vct")),
             T(With(Base, "exp", Num(1))), T(With(Base, "nbf", Num(1))),
             T(With(With(Base, "nbf", Num(1)), "exp", Num(1))), T(With(Base, "exp", Str("1"))),
             {<<Nil>>, <<Signed(Plain)>>, <<Nil, A, Nil>>, <<Signed(Plain), Nil, Nil>>,
              Wire([txt |-> "a.b"], <<>>, Nil), Wire(A, <<>>, Nil)},
             {Wire(signJWT(s, Plain), <<A>>, Nil) :
                s \in {ES256(OtherKey, "raw"), ES256(IssuerKey, "asn1"), PS384(IssuerKey),
                       EdDSA(OKPKey)}}}

(* Key binding JWTs over presentation pre, good and bad.                   *)
KBJWTs(pre) ==
  LET P(n, aud, h) == [iat |-> 0, nonce |-> n, aud |-> aud, sd_hash |-> DigestSHA256(h)]
      Good == P("n1", {"v"}, pre)
  IN  {signJWT(PS384(HolderKey), P("n1", {"v"}, pre)),
       signJWT(RS256(HolderKey), P("n1", {"w", "v"}, pre)),
       signJWT(RS256(HolderKey), P("n2", {"v"}, pre)),
       signJWT(RS256(HolderKey), P(Nil, {"v"}, pre)),
       signJWT(RS256(HolderKey), P("n1", {}, pre)),
       signJWT(RS256(HolderKey), P("n1", {"v"}, <<Signed(Plain), X, Nil>>)),
       signJWT(RS256(OtherKey), P("n1", {"v"}, pre)),
       signJWT([PS384(HolderKey) EXCEPT !.form = "pkcs1v15"], P("n1", {"v"}, pre)),
       [txt |-> "kb"]}

Bound ==
  UNION {{Wire(Signed(p), ds, kb) : kb \in KBJWTs(Prefix(Token(Signed(p), ds, Nil)))} :
           ds \in {<<>>, <<A, B>>},
           p \in {Plain, Root(Drop(Base, "cnf")), Root(With(Base, "cnf", [jwk |-> Nil])),
                  Root(With(Base, "cnf", [jwk |-> OKPKey])), Root(With(Base, "cnf", [jwk |-> Koblitz]))}}
    \cup {Wire(Signed(p), <<C>>, kb) :
            kb \in KBJWTs(<<Signed(Payload(Drop(Base, "cnf"), N,
                                            Sds(DigestsOf("SHA256", <<C>>), <<>>))), C, Nil>>),
            p \in {Payload(Drop(Base, "cnf"), N, Sds(DigestsOf("SHA256", <<C>>), <<>>))}}

MCPresentations == UNION {Mixed, Shapes, Envelopes, Bound}

MCNonces == {Nil, "n1"}

MCVerifierOptions ==
  {NewVerifier(<<>>), NewVerifier(<<ExpectVCT("T"), WithClockSkew(1)>>),
   NewVerifier(<<RequireKeyBinding("v"), ExpectVCT("T")>>)}
=============================================================================
