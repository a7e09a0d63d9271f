-------------------------------- MODULE SdJwt --------------------------------
(***************************************************************************)
(* The values the three roles of go-sd-jwt-vc exchange: tokens on the      *)
(* wire, disclosures, digests and signed JWTs.                             *)
(*                                                                         *)
(* Cryptography is symbolic.  A digest is the pair of a hash algorithm and *)
(* what was hashed; a signature records who made it, over what, with which *)
(* hash and in which byte format.  Both are therefore collision free and   *)
(* unforgeable, as the library assumes of its crypto packages.             *)
(*                                                                         *)
(* Wire strings are sequences of segments, what strings.Split(raw, "~")    *)
(* yields: base64url text and JWTs never contain a tilde.  A segment is    *)
(*   Nil               the empty segment                                   *)
(*   [jwt |-> ...]     three dot-separated parts that decode               *)
(*   [arr |-> <<..>>]  base64url of a JSON array whose salt (and, with     *)
(*                     three elements, whose key) is a string              *)
(*   [txt |-> ...]     anything else                                       *)
(***************************************************************************)
EXTENDS Integers, Sequences, SequencesExt, FiniteSets

CONSTANT Nil    \* the empty string, the nil pointer, the missing map entry

(* f with the entries of g written over it: m[k] = v on a Go map.          *)
Overlay(f, g) ==
  [x \in DOMAIN f \cup DOMAIN g |-> IF x \in DOMAIN g THEN g[x] ELSE f[x]]

(* The elements of s whose index is in J, in their order.                  *)
ElementsAt(s, J) ==
  [i \in 1 .. Cardinality(J) |-> s[CHOOSE j \in J : Cardinality({k \in J : k <= j}) = i]]

-----------------------------------------------------------------------------
(* token.go: a Token and its wire form.                                    *)

Token(jwt, discs, kb) == [IssuerJWT |-> jwt, Disclosures |-> discs, KBJWT |-> kb]

String(t) == <<t.IssuerJWT>> \o t.Disclosures \o <<t.KBJWT>>

(* Mutant: sd_hash covers the issuer JWT only.                             *)
JWTPrefix(t) == <<t.IssuerJWT, Nil>>

(* The string covered by sd_hash.  It ends with a tilde, that is, with an  *)
(* empty segment.                                                          *)
Prefix(t) == <<t.IssuerJWT>> \o t.Disclosures \o <<Nil>>

HasKeyBinding(t) == t.KBJWT # Nil

(* Parse returns ErrInvalidFormat unless Parses(raw); the empty string is  *)
(* the single segment <<Nil>>.                                             *)
Parses(raw) ==
  /\ Len(raw) >= 2
  /\ raw[1] # Nil
  /\ \A i \in 2 .. Len(raw) - 1 : raw[i] # Nil

Parse(raw) == Token(raw[1], SubSeq(raw, 2, Len(raw) - 1), raw[Len(raw)])

-----------------------------------------------------------------------------
(* hashutil.go and disclosure.go.                                          *)

SDAlgFromHash(h) ==
  CASE h = "SHA256" -> "sha-256" [] h = "SHA384" -> "sha-384"
    [] h = "SHA512" -> "sha-512" [] OTHER -> Nil

AlgorithmFromSDAlg(alg) ==
  CASE alg = "sha-256" -> "SHA256" [] alg = "sha-384" -> "SHA384"
    [] alg = "sha-512" -> "SHA512" [] OTHER -> Nil

Digest(h, data) == <<h, data>>

DigestSHA256(data) == Digest("SHA256", data)

Disclosure(salt, key, value) == [Salt |-> salt, Key |-> key, Value |-> value]

(* An object property is [salt, key, value]; without a key, [salt, value]. *)
Encode(d) ==
  [arr |-> IF d.Key # Nil THEN <<d.Salt, d.Key, d.Value>>
                          ELSE <<d.Salt, d.Value>>]

minDisclosureElements == 2

(* ParseDisclosure returns ErrDisclosureInvalid unless DisclosureParses.   *)
DisclosureParses(enc) ==
  "arr" \in DOMAIN enc /\ Len(enc.arr) >= minDisclosureElements

(* Every length other than three is read as an array element.              *)
ParseDisclosure(enc) ==
  IF Len(enc.arr) = 3 THEN Disclosure(enc.arr[1], enc.arr[2], enc.arr[3])
                      ELSE Disclosure(enc.arr[1], Nil, enc.arr[2])

-----------------------------------------------------------------------------
(* JWTs.  A key is [kty, crv, id]; a signer is [key, alg, kid, hash,       *)
(* form]: the alg it reports and the hash and byte format of what Sign     *)
(* returns, Nil if it returns an error.                                    *)

CanSign(signer) == signer.hash # Nil /\ signer.form # Nil

signJWT(signer, payload) ==
  LET header == [alg |-> signer.alg, kid |-> signer.kid]
  IN  [jwt |-> [header |-> header, payload |-> payload,
                sig |-> [by |-> signer.key, hash |-> signer.hash,
                         form |-> signer.form, over |-> <<header, payload>>]]]

decodes(seg) == seg # Nil /\ "jwt" \in DOMAIN seg

algToDigest(alg) ==
  CASE alg \in {"ES256", "RS256", "PS256"} -> "SHA256"
    [] alg \in {"ES384", "RS384", "PS384"} -> "SHA384"
    [] alg \in {"ES512", "RS512", "PS512"} -> "SHA512"
    [] OTHER -> Nil

(* An ECDSA signature must be r || s; an RSA one is PSS when alg says PS*  *)
(* and PKCS #1 v1.5 otherwise.  The key type is not compared with alg.     *)
verifyJWTSignature(seg, pub) ==
  LET j == seg.jwt
      RSAForm == IF j.header.alg \in {"PS256", "PS384", "PS512"}
                 THEN "pss" ELSE "pkcs1v15"
  IN  /\ algToDigest(j.header.alg) # Nil
      /\ j.sig.by = pub
      /\ j.sig.over = <<j.header, j.payload>>
      /\ j.sig.hash = algToDigest(j.header.alg)
      /\ \/ pub.kty = "EC"  /\ j.sig.form = "raw"
         \/ pub.kty = "RSA" /\ j.sig.form = RSAForm
-----------------------------------------------------------------------------
(* Decoded issuer payloads.  A payload is [val, sd]: its objects are named *)
(* by the path of keys that leads to them (<<>> is the payload itself),    *)
(* val[o] is the object o as a map and sd[o] its _sd array.  A value is a  *)
(* record tagged by its field: [str |-> s], [num |-> n], [obj |-> path],   *)
(* [jwk |-> key] for a cnf object holding a jwk (Nil when the jwk has no   *)
(* kty), or anything else.  Arrays are opaque: nothing looks inside them.  *)

Objects(p) == DOMAIN p.val

Children(p, o) == {c \in Objects(p) : c # <<>> /\ Front(c) = o}

(* Every object is reached from the payload through its members.           *)
IsPayload(p) ==
  /\ p = [val |-> p.val, sd |-> p.sd]
  /\ p.val = [o \in Objects(p) |-> [k \in DOMAIN p.val[o] |-> p.val[o][k]]]
  /\ DOMAIN p.sd = Objects(p) /\ Objects(p) \subseteq Seq(STRING) /\ <<>> \in Objects(p)
  /\ \A S \in SUBSET Objects(p) :
       (<<>> \in S /\ \A o \in S : Children(p, o) \subseteq S) => S = Objects(p)

(* What is left of payload p for a reader who starts at its root: an       *)
(* object is out of reach once a member on the path to it was overwritten. *)
Visible(p) ==
  LET seen == {o \in Objects(p) :
                 \A i \in 1 .. Len(o) :
                   LET parent == SubSeq(o, 1, i - 1)
                   IN  p.val[parent][o[i]] = [obj |-> Append(parent, o[i])]}
  IN  [val |-> [o \in seen |-> p.val[o]], sd |-> [o \in seen |-> p.sd[o]]]

(* payload[k].(T) for T = string, float64, a cnf object: Nil otherwise.    *)
Claim(p, k, type) ==
  IF k \in DOMAIN p.val[<<>>] /\ type \in DOMAIN p.val[<<>>][k]
  THEN p.val[<<>>][k][type] ELSE Nil

sdAlg(p) ==
  LET alg == Claim(p, "_sd_alg", "str")
  IN  AlgorithmFromSDAlg(IF alg = Nil THEN "sha-256" ELSE alg)

hasCnf(p) == "cnf" \in DOMAIN p.val[<<>>] /\ "jwk" \in DOMAIN p.val[<<>>]["cnf"]

(* The curves an EC key may be on.                                         *)
curveForName == {"P-256", "P-384", "P-521"}

(* jwkToPublicKey: RSA keys, and EC keys on these curves.                  *)
cnfKey(p) ==
  LET jwk == Claim(p, "cnf", "jwk")
  IN  IF jwk # Nil /\ (jwk.kty = "RSA" \/ (jwk.kty = "EC" /\ jwk.crv \in curveForName))
      THEN jwk ELSE Nil
=============================================================================
