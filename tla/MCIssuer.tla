------------------------------- MODULE MCIssuer -------------------------------
(***************************************************************************)
(* Instances of Issuer: request trees of up to three levels in which       *)
(* scalars, arrays, plain maps and StructuredClaims are clear or           *)
(* selective, and requests that reach every error.                         *)
(***************************************************************************)
EXTENDS Issuer

Kinds(scalars, arrays, maps, structs, bads) ==
  [p \in scalars \cup arrays \cup maps \cup structs \cup bads |->
     CASE p \in scalars -> "scalar" [] p \in arrays -> "array" [] p \in maps -> "map"
       [] p \in structs -> "structured" [] p \in bads -> "bad"]

Request(kind, sel) ==
  [vct |-> "T", subject |-> Nil, holderKey |-> Nil, notBefore |-> Nil, expiresAt |-> Nil,
   kind |-> kind, sel |-> sel]

(* An address and a person: two StructuredClaims, one inside the other,    *)
(* with a scalar, an array and a plain map; any choice of selective fields.*)
NestedKind ==
  Kinds({<<"a">>, <<"s", "a">>, <<"s", "u", "x">>, <<"m", "y">>}, {<<"s", "l">>},
        {<<"m">>}, {<<"s">>, <<"s", "u">>}, {})

NestedRequests ==
  {Request(NestedKind, [o \in {<<>>, <<"s">>, <<"s", "u">>} |->
       CASE o = <<>> -> r [] o = <<"s">> -> s [] o = <<"s", "u">> -> u]) :
     r \in SUBSET {"a", "s", "m"}, s \in {{}, {"a"}, {"l", "u"}, {"a", "u"}}, u \in SUBSET {"x"}}

FlatKind == Kinds({<<"a">>, <<"b">>}, {}, {}, {}, {})
Flat(sel) == Request(FlatKind, [o \in {<<>>} |-> sel])

HolderKey(type) == [type |-> type, key |-> [kty |-> "RSA", crv |-> Nil, id |-> "holder"]]

OtherRequests ==
  {Flat({"a"}), Flat({"z"}), [Flat({}) EXCEPT !.vct = Nil],
   [Flat({"a"}) EXCEPT !.subject = "sub", !.notBefore = 3, !.expiresAt = 4],
   [Flat({"a"}) EXCEPT !.holderKey = HolderKey("jwk")],
   [Flat({"a"}) EXCEPT !.holderKey = HolderKey("std")],
   [Flat({"a"}) EXCEPT !.holderKey = HolderKey("bytes")]}
    \cup {Request(Kinds({<<"a">>}, {}, {}, {}, {<<f>>}), [o \in {<<>>} |-> sel]) :
            f \in {"f", "exp"}, sel \in {{}, {"a"}}}
    \cup {Request(Kinds({<<"a">>}, {}, {}, {}, {<<"f">>}), [o \in {<<>>} |-> {"f"}])}
    \cup {Request(Kinds({}, {}, {}, {<<"s">>}, {<<"s", "f">>}),
                  [o \in {<<>>, <<"s">>} |-> IF o = <<>> THEN sel ELSE {}]) :
            sel \in {{}, {"s"}}}
    \cup {Request(Kinds({<<"iss", "a">>}, {}, {}, {<<"iss">>}, {}),
                  [o \in {<<>>, <<"iss">>} |-> IF o = <<>> THEN {} ELSE {"a"}]),
          Request(Kinds({<<"s", "s", "s", "x">>}, {}, {},
                        {<<"s">>, <<"s", "s">>, <<"s", "s", "s">>}, {}),
                  [o \in {<<>>, <<"s">>, <<"s", "s">>, <<"s", "s", "s">>} |-> {}])}

(* Claims with the names of registered ones, cnf without a holder key      *)
(* among them.                                                             *)
ReservedRequests ==
  {Request(Kinds({<<"exp">>, <<"vct", "a">>, <<"vct", "s", "x">>, <<"cnf", "b">>}, {},
                 {}, {<<"vct">>, <<"vct", "s">>, <<"cnf">>}, {}),
           [o \in {<<>>, <<"vct">>, <<"vct", "s">>, <<"cnf">>} |->
              CASE o = <<>> -> top [] o = <<"vct">> -> {"a", "s"} [] o = <<"vct", "s">> -> {"x"}
                [] OTHER -> {"b"}]) :
     top \in {{}, {"exp"}, {"vct"}}}

MCRequests == ReservedRequests \cup NestedRequests \cup OtherRequests

(* A StructuredClaim as the element of an array.                           *)
MCEmbedded ==
  {Request(Kinds({<<"l", "0", "x">>, <<"a">>}, {<<"l">>}, {}, {<<"l", "0">>}, {}),
           [o \in {<<>>, <<"l", "0">>} |-> IF o = <<>> THEN {"a"} ELSE {"x"}])}
    \cup NestedRequests

Signer ==
  [key |-> [kty |-> "EC", crv |-> "P-256", id |-> "issuer"], alg |-> "ES256", kid |-> "k1",
   hash |-> "SHA256", form |-> "raw"]

MCIssuerOptions ==
  {NewIssuer("iss", Signer, <<>>),
   NewIssuer("iss", Signer, <<WithHashAlgorithm("SHA384"), WithDecoyDigests(2),
                              WithSchemaURI("uri"), WithTokenTTL(2)>>),
   NewIssuer("iss", Signer, <<WithHashAlgorithm("MD5")>>)}
=============================================================================
