--------------------------- MODULE RoundTripProofs ---------------------------
(***************************************************************************)
(* The round trip: what the holder presents of the issuer's credential is  *)
(* accepted, unless time or the verifier's session speaks against it, for  *)
(* any claims, options and keys that meet CanRoundTrip and any number of   *)
(* presentations, whatever the transport does with the others.  The reason *)
(* an error names is then the true one.                                    *)
(*                                                                         *)
(* The argument follows a call through the stages of Verify and shows of   *)
(* each that its check cannot fail.  What arrives is signed by the issuer  *)
(* and, if it has a KB-JWT, by the holder whose key the credential names;  *)
(* the walk of collectDigests reaches every object that has a disclosure   *)
(* among the issuer's, and only two claims of one name clash.  The times   *)
(* in the JWT are those asked for, rounded down to seconds.  The transport *)
(* may cut a presentation: then sd_hash fails, and only then.              *)
(***************************************************************************)
EXTENDS LifecycleProofs

(* No segment of a presentation is the empty one.                          *)
NilIsNoSegment == \A x : [arr |-> x] # Nil /\ [jwt |-> x] # Nil

-----------------------------------------------------------------------------
(* The credential, on the issuer's side.  All disclosures can be parsed.   *)
Encoded == \A e \in ToSet(discs) : e # Nil /\ DisclosureParses(e)

(* Only the objects of plain maps may lie deeper than Issue allows.        *)
Shallow ==
  Working => \A o \in Objects(tree) \ {<<>>} :
    o \in Paths(req) /\ (req.kind[o] = "map" \/ Len(o) <= maxNestingDepth)

(* The registered claims that Verify needs.                                *)
HasCnf(p) ==
  req.holderKey # Nil =>
    "cnf" \in DOMAIN p.val[<<>>] /\ p.val[<<>>]["cnf"] = buildCnf(req.holderKey)

HasVct(p) == "vct" \in DOMAIN p.val[<<>>] /\ p.val[<<>>]["vct"] = [str |-> req.vct]

(* The times of a credential made at a certain instant.                    *)
Begins(at) == IF req.notBefore = Nil THEN at ELSE req.notBefore
Ends(at) == IF req.expiresAt = Nil THEN at + iopts.tokenTTL ELSE req.expiresAt

Dated(p, at) ==
  /\ {"iat", "nbf", "exp"} \subseteq DOMAIN p.val[<<>>]
  /\ p.val[<<>>]["iat"] = [num |-> Seconds(at)]
  /\ p.val[<<>>]["nbf"] = [num |-> Seconds(Begins(at))]
  /\ p.val[<<>>]["exp"] = [num |-> Seconds(Ends(at))]

Header ==
  ipc \in {"sign", "issued"} =>
    /\ {"iss", "_sd_alg"} \subseteq DOMAIN tree.val[<<>>]
    /\ tree.val[<<>>]["iss"] = [str |-> iopts.id]
    /\ tree.val[<<>>]["_sd_alg"] = [str |-> SDAlgFromHash(iopts.hashAlg)]
    /\ HasCnf(tree) /\ HasVct(tree)
    /\ \E at \in 0 .. clock : Dated(tree, at)

Signed == ipc = "issued" => result.token = Token(signJWT(iopts.signer, tree), discs, Nil)

CredentialInv == Encoded /\ Shallow /\ Header /\ Signed

-----------------------------------------------------------------------------
(* The token, on its way.  It is the one signed, no disclosure is in it    *)
(* twice, and a KB-JWT is the holder's, who adds one where it is asked to. *)
Bound(kb) ==
  /\ \E c \in PresentChoices : c.KeyBinding
  /\ decodes(kb) /\ verifyJWTSignature(kb, HolderSigner.key)

Authentic(u) ==
  /\ u.IssuerJWT = signJWT(iopts.signer, tree)
  /\ \A i, j \in DOMAIN u.Disclosures : u.Disclosures[i] = u.Disclosures[j] => i = j
  /\ HasKeyBinding(u) => Bound(u.KBJWT)

InTransfer ==
  /\ wallet # Nil => Authentic(wallet)
  /\ \A p \in presented : Authentic(Parse(p.raw)) /\ (p.opts.KeyBinding => HasKeyBinding(Parse(p.raw)))
  /\ pc \in BeforeWalk \cup FromWalk => Authentic(t)

-----------------------------------------------------------------------------
(* The verifier.  The objects of StructuredClaims that are in the payload, *)
(* where all digests are.                                                  *)
Structured == Structs(req) \cap Objects(tree)

(* The walk: the objects entered, and what is still to come below them.    *)
Ahead ==
  /\ cur \in visited /\ visited \subseteq Objects(tree)
  /\ \A o \in visited \ {<<>>} : Front(o) \in visited
  /\ \A o \in Structured \ visited : \E a \in Structured \ visited :
       a # <<>> /\ IsPrefix(a, o) /\ IsPrefix(Front(a), cur)

Walk ==
  /\ pc \in {"idle", "parse"} \cup BeforeWalk => visited = {} /\ disclosed = <<>>
  /\ pc \in FromWalk => \A o \in visited : ToSet(tree.sd[o]) \subseteq DOMAIN digestMap
  /\ pc = "disclosure_collect" => Ahead
  /\ pc \in FromWalk \ {"disclosure_collect"} => Structured \subseteq visited

(* What the stages have read.                                              *)
Known ==
  /\ pc \in BeforeWalk \ {"issuer_jwt_decode"} => issuer = iopts.id
  /\ pc = "signature" => pubKey = iopts.signer.key
  /\ pc = "nbf" => now \in Nat /\ now >= Unix(tree.val[<<>>]["iat"].num)
  /\ pc \in FromWalk =>
       /\ HasCnf(payload) /\ HasVct(payload)
       /\ \A k \in DOMAIN disclosed : \E i \in 1 .. next - 1 : k = ParseDisclosure(t.Disclosures[i]).Key

(* Why a call is rejected, as its KB-JWT tells.                            *)
KBReason ==
  \/ outcome.stage = "kbjwt" /\ opts.requireKeyBinding /\ ~HasKeyBinding(t)
  \/ /\ HasKeyBinding(t)
     /\ \/ outcome.stage = "kbjwt_nonce" /\ kbPayload.nonce # nonce
        \/ outcome.stage = "kbjwt_aud" /\ opts.audience # Nil /\ opts.audience \notin kbPayload.aud
        \/ kbPayload.sd_hash # DigestSHA256(Prefix(t))

Reason ==
  pc = "rejected" => OutOfTime \/ NamesClash \/ OtherType \/ (t = Parse(raw) /\ KBReason)

TripInv == InTransfer /\ Walk /\ Known /\ Reason

-----------------------------------------------------------------------------
(* The credential.  What is encoded can be parsed and is not empty.        *)
LEMMA EncodedParses ==
  ASSUME NilIsNoSegment, NEW salt, NEW key, NEW value
  PROVE  /\ Encode(Disclosure(salt, key, value)) # Nil
         /\ DisclosureParses(Encode(Disclosure(salt, key, value)))
<1>1. PICK d, a : d = Disclosure(salt, key, value) /\ a = (IF key # Nil THEN <<salt, key, value>> ELSE <<salt, value>>)
  OBVIOUS
<1>2. Encode(d) = [arr |-> a]
  BY <1>1 DEF Encode, Disclosure
<1>3. Len(a) >= 2
  BY <1>1
<1>4. "arr" \in DOMAIN [arr |-> a] /\ [arr |-> a].arr = a
  OBVIOUS
<1> QED
  BY <1>1, <1>2, <1>3, <1>4 DEF NilIsNoSegment, DisclosureParses, minDisclosureElements

(* A disclosure more can be parsed.                                        *)
LEMMA DiscloseEncoded ==
  ASSUME NilIsNoSegment, Encoded, Disclosures, NEW p, NEW value, NEW rest, Disclose(p, value, rest)
  PROVE  Encoded'
<1>1. PICK e : e = Encode(Disclosure(fresh, Last(p), value))
  OBVIOUS
<1>2. discs' = Append(discs, e) /\ IsSequence(discs)
  BY <1>1 DEF Disclose, Disclosures, IsSequence
<1>3. ToSet(discs') = ToSet(discs) \cup {e}
  BY <1>2, AppendedElements
<1>4. e # Nil /\ DisclosureParses(e)
  BY <1>1, EncodedParses
<1> QED
  BY <1>3, <1>4 DEF Encoded

(* Writing to an _sd array adds no object.                                 *)
LEMMA SameObjects ==
  ASSUME NEW tr, IsTree(tr), NEW o, NEW s, NEW new, new = [tr EXCEPT !.sd[o] = s]
  PROVE  Objects(new) = Objects(tr) /\ new.val = tr.val
<1>1. PICK V, S : tr = [val |-> V, sd |-> S] /\ tr.val = V /\ tr.sd = S
  BY DEF IsTree
<1>2. new = [val |-> V, sd |-> [S EXCEPT ![o] = s]]
  BY <1>1
<1> QED
  BY <1>1, <1>2 DEF Objects

(* A claim in the clear brings only objects of plain maps.                 *)
LEMMA PlainOnly ==
  ASSUME NEW r \in Requests, NEW tr, IsTree(tr), DOMAIN tr.sd = Objects(tr), NEW p, Front(p) \in Objects(tr),
         NEW o \in Objects(PutClear(r, tr, p))
  PROVE  o \in Objects(tr) \/ (o \in Paths(r) /\ r.kind[o] = "map")
<1>1. CASE r.kind[p] = "map"
  <2>1. PICK vals, g : vals = PlainObjects(r, p) /\ g = Grow(tr, vals)
    OBVIOUS
  <2>2. IsTree(g) /\ Objects(g) = Objects(tr) \cup DOMAIN vals
    BY <2>1, GrowFacts
  <2>3. PICK n : n = Put(g, Front(p), Last(p), [obj |-> p])
    OBVIOUS
  <2>4. Objects(n) = Objects(g)
    BY <2>2, <2>3, PutFacts
  <2>5. n = PutClear(r, tr, p)
    BY <1>1, <2>1, <2>3 DEF PutClear
  <2>6. ASSUME o \in DOMAIN vals PROVE o \in Paths(r) /\ r.kind[o] = "map"
    <3>1. /\ o \in Below(p, Paths(r))
          /\ \A m \in Paths(r) : IsPrefix(p, m) /\ IsPrefix(m, o) => r.kind[m] = "map"
      BY <2>1, <2>6 DEF PlainObjects
    <3>2. o \in Paths(r) /\ IsPrefix(p, o) /\ o \in Path
      BY <3>1, RequestTree DEF Below
    <3>3. IsPrefix(o, o)
      BY <3>2, PrefixOrder
    <3> QED
      BY <3>1, <3>2, <3>3
  <2> QED
    BY <2>2, <2>4, <2>5, <2>6
<1>2. CASE r.kind[p] # "map"
  <2>1. PICK n : n = Put(tr, Front(p), Last(p), [claim |-> p])
    OBVIOUS
  <2>2. Objects(n) = Objects(tr)
    BY <2>1, PutFacts
  <2> QED
    BY <1>2, <2>1, <2>2 DEF PutClear
<1> QED
  BY <1>1, <1>2

(* The objects of the tree are those of before and some that are allowed.  *)
LEMMA StaysShallow ==
  ASSUME Shallow, Working, UNCHANGED req,
         \A o \in Objects(tree') : \/ o \in Objects(tree) \cup {<<>>}
                                   \/ /\ o \in Paths(req)
                                      /\ req.kind[o] = "map" \/ Len(o) <= maxNestingDepth
  PROVE  Shallow'
BY DEF Shallow

(* What the steps of the recursion do to the objects and the disclosures.  *)
LEMMA BuildClaimCredential ==
  ASSUME NilIsNoSegment, IssuerInv, CredentialInv, BuildClaim, ipc' = "build"
  PROVE  Encoded' /\ Shallow'
<1>1. Safe /\ Recursion /\ Carriage /\ Disclosures /\ Working /\ ipc = "build" /\ UNCHANGED req
  BY DEF BuildClaim, IssuerInv, Working, Safe
<1>2. Encoded /\ Shallow /\ req \in Requests /\ icur \in Structs(req)
  BY <1>1 DEF CredentialInv, Recursion
<1>3. PICK p \in Members(req, icur) \ handled :
        \/ Disclose(p, [claim |-> p], tree)
        \/ tree' = PutClear(req, tree, p) /\ UNCHANGED discs
  BY DEF BuildClaim, Fail
<1>4. IsTree(tree) /\ DOMAIN tree.sd = Objects(tree)
  BY <1>1 DEF Carriage, Carriers, Carried
<1>5. Front(p) = icur /\ icur \in Objects(tree)
  <2>1. icur \in Path /\ IsPrefix(icur, icur)
    BY <1>2, StructTree, PrefixOrder
  <2> QED
    BY <1>1, <1>2, <2>1, CurInTree DEF Members, OnStack
<1>6. CASE Disclose(p, [claim |-> p], tree)
  <2>1. Encoded'
    BY <1>1, <1>2, <1>6, DiscloseEncoded
  <2>2. Objects(tree') = Objects(tree)
    BY <1>4, <1>5, <1>6, DiscloseTree
  <2> QED
    BY <1>1, <1>2, <2>1, <2>2, StaysShallow
<1>7. CASE tree' = PutClear(req, tree, p) /\ UNCHANGED discs
  <2>1. Encoded'
    BY <1>2, <1>7 DEF Encoded
  <2>2. \A o \in Objects(tree') : o \in Objects(tree) \/ (o \in Paths(req) /\ req.kind[o] = "map")
    <3>1. PICK r, tr : r = req /\ tr = tree
      OBVIOUS
    <3>2. \A o \in Objects(PutClear(r, tr, p)) : o \in Objects(tr) \/ (o \in Paths(r) /\ r.kind[o] = "map")
      BY <1>2, <1>4, <1>5, <3>1, PlainOnly
    <3> QED
      BY <1>7, <3>1, <3>2
  <2>3. Shallow'
    BY <1>1, <1>2, <2>2, StaysShallow
  <2> QED
    BY <2>1, <2>3
<1> QED
  BY <1>3, <1>6, <1>7

(* The recursion returns.                                                  *)
LEMMA BuildReturnCredential ==
  ASSUME NilIsNoSegment, IssuerInv, CredentialInv, BuildReturn, ipc' = "build"
  PROVE  Encoded' /\ Shallow'
<1>1. /\ Safe /\ Recursion /\ Carriage /\ Disclosures /\ Working /\ ipc = "build" /\ UNCHANGED req
      /\ icur # <<>>
  BY DEF BuildReturn, IssuerInv, Working, Safe
<1>2. Encoded /\ Shallow /\ req \in Requests /\ icur \in Structs(req)
  BY <1>1 DEF CredentialInv, Recursion
<1>3. PICK S, v : /\ S \subseteq Objects(tree)
                  /\ \/ Disclose(icur, v, Only(tree, S))
                     \/ tree' = Put(tree, Front(icur), Last(icur), [obj |-> icur]) /\ UNCHANGED discs
  <2>1. PICK inner : inner = Below(icur, Objects(tree))
    OBVIOUS
  <2>2. \/ Disclose(icur, [claim |-> icur, nested |-> Only(tree, inner)], Only(tree, Objects(tree) \ inner))
        \/ tree' = Put(tree, Front(icur), Last(icur), [obj |-> icur]) /\ UNCHANGED discs
    BY <2>1 DEF BuildReturn, Fail
  <2> QED
    BY <2>2
<1>4. IsTree(tree) /\ Front(icur) \in Objects(tree)
  <2>1. icur \in Path /\ Front(icur) \in Path /\ IsPrefix(Front(icur), icur)
    BY <1>1, <1>2, StructTree, FrontLast, PrefixFront, PrefixOrder
  <2> QED
    BY <1>1, <2>1, CurInTree DEF Carriage, OnStack
<1>5. CASE Disclose(icur, v, Only(tree, S))
  <2>1. PICK rest : rest = Only(tree, S)
    OBVIOUS
  <2>2. IsTree(rest) /\ Objects(rest) = S
    BY <2>1 DEF IsTree, Only, Objects
  <2>3. PICK s : tree' = [rest EXCEPT !.sd[Front(icur)] = s]
    BY <1>5, <2>1 DEF Disclose
  <2>4. Objects(tree') = S
    BY <2>2, <2>3, SameObjects
  <2>5. Encoded'
    BY <1>1, <1>2, <1>5, DiscloseEncoded
  <2> QED
    BY <1>1, <1>2, <1>3, <2>4, <2>5, StaysShallow
<1>6. CASE tree' = Put(tree, Front(icur), Last(icur), [obj |-> icur]) /\ UNCHANGED discs
  <2>1. Encoded'
    BY <1>2, <1>6 DEF Encoded
  <2>2. Objects(tree') = Objects(tree)
    BY <1>4, <1>6, PutFacts
  <2> QED
    BY <1>1, <1>2, <2>1, <2>2, StaysShallow
<1> QED
  BY <1>3, <1>5, <1>6

(* The recursion enters a StructuredClaim, at a depth that it allows.      *)
LEMMA BuildEnterCredential ==
  ASSUME IssuerInv, CredentialInv, BuildEnter, ipc' = "build"
  PROVE  Encoded' /\ Shallow'
<1>1. /\ Carriage /\ Working /\ UNCHANGED <<req, discs>>
  BY DEF BuildEnter, IssuerInv, Working, Safe
<1>2. PICK p \in Paths(req) : Len(p) <= maxNestingDepth /\ tree' = Grow(tree, [o \in {p} |-> Empty])
  BY DEF BuildEnter, Fail, Members
<1>3. DOMAIN tree.sd = Objects(tree)
  BY <1>1 DEF Carriage, Carriers, Carried
<1>4. PICK vals : vals = [o \in {p} |-> Empty]
  OBVIOUS
<1>5. Objects(tree') = Objects(tree) \cup {p}
  <2>1. DOMAIN vals = {p}
    BY <1>4
  <2> QED
    BY <1>2, <1>3, <1>4, <2>1, GrowFacts
<1>6. Shallow'
  BY <1>1, <1>2, <1>5, StaysShallow DEF CredentialInv
<1> QED
  BY <1>1, <1>6 DEF CredentialInv, Encoded

(* The registered claims that Verify reads.                                *)
LEMMA RegisteredValues ==
  /\ {"iss", "iat", "nbf", "exp", "vct", "_sd_alg"} \subseteq DOMAIN RegisteredClaims
  /\ RegisteredClaims["iss"] = [str |-> iopts.id]
  /\ RegisteredClaims["iat"] = [num |-> Seconds(clock)]
  /\ RegisteredClaims["nbf"] = [num |-> Seconds(Begins(clock))]
  /\ RegisteredClaims["exp"] = [num |-> Seconds(Ends(clock))]
  /\ RegisteredClaims["vct"] = [str |-> req.vct]
  /\ RegisteredClaims["_sd_alg"] = [str |-> SDAlgFromHash(iopts.hashAlg)]
  /\ req.holderKey # Nil => /\ "cnf" \in DOMAIN RegisteredClaims
                            /\ RegisteredClaims["cnf"] = buildCnf(req.holderKey)
<1> DEFINE str(s) == [str |-> s]
           num(n) == [num |-> n]
           always == [iss |-> str(iopts.id), iat |-> num(Seconds(clock)),
                      nbf |-> num(Seconds(IF req.notBefore = Nil THEN clock ELSE req.notBefore)),
                      exp |-> num(Seconds(IF req.expiresAt = Nil THEN clock + iopts.tokenTTL
                                                                 ELSE req.expiresAt)),
                      vct |-> str(req.vct), _sd_alg |-> str(SDAlgFromHash(iopts.hashAlg))]
           sub == [k \in {x \in {"sub"} : req.subject # Nil} |-> str(req.subject)]
           uri == [k \in {x \in {"vct#integrity"} : iopts.schemaURI # Nil} |-> str(iopts.schemaURI)]
           cnf == [k \in {x \in {"cnf"} : req.holderKey # Nil} |-> buildCnf(req.holderKey)]
<1>1. RegisteredClaims = Overlay(Overlay(always, sub), Overlay(uri, cnf))
  BY DEF RegisteredClaims
<1>2. /\ DOMAIN always = {"iss", "iat", "nbf", "exp", "vct", "_sd_alg"}
      /\ always["iss"] = [str |-> iopts.id]
      /\ always["iat"] = [num |-> Seconds(clock)]
      /\ always["nbf"] = [num |-> Seconds(Begins(clock))]
      /\ always["exp"] = [num |-> Seconds(Ends(clock))]
      /\ always["vct"] = [str |-> req.vct]
      /\ always["_sd_alg"] = [str |-> SDAlgFromHash(iopts.hashAlg)]
  BY DEF Begins, Ends
<1>3. DOMAIN sub \subseteq {"sub"} /\ DOMAIN uri \subseteq {"vct#integrity"} /\ DOMAIN cnf \subseteq {"cnf"}
  OBVIOUS
<1>4. req.holderKey # Nil => "cnf" \in DOMAIN cnf /\ cnf["cnf"] = buildCnf(req.holderKey)
  OBVIOUS
<1> HIDE DEF always, sub, uri, cnf
<1> QED
  BY <1>1, <1>2, <1>3, <1>4 DEF Overlay

(* The decoys and the registered claims.                                   *)
LEMMA LateCredential ==
  ASSUME IssuerInv, CredentialInv, AddDecoys \/ SetRegisteredClaims, ipc' # "failed"
  PROVE  Encoded' /\ Shallow' /\ Header'
<1>1. /\ Carriage /\ Recursion /\ Working /\ UNCHANGED <<iopts, req, discs>>
      /\ AddDecoys => ipc = "build" /\ ipc' = "claims"
      /\ SetRegisteredClaims => ipc = "claims" /\ ipc' = "sign"
  BY DEF AddDecoys, SetRegisteredClaims, Fail, IssuerInv, Working, Safe
<1>2. IsTree(tree)
  BY <1>1 DEF Carriage
<1>3. Encoded'
  BY <1>1 DEF CredentialInv, Encoded
<1>4. CASE AddDecoys
  <2>1. PICK V, S : tree = [val |-> V, sd |-> S] /\ tree.val = V
    BY <1>2 DEF IsTree
  <2>2. PICK W : tree' = [val |-> V, sd |-> W]
    BY <1>4, <2>1 DEF AddDecoys
  <2>3. Objects(tree') = Objects(tree)
    BY <2>1, <2>2 DEF Objects
  <2>4. Shallow'
    BY <1>1, <2>3, StaysShallow DEF CredentialInv
  <2> QED
    BY <1>1, <1>3, <1>4, <2>4 DEF Header
<1>5. CASE SetRegisteredClaims
  <2>1. PICK S, root : /\ S = {o \in Objects(tree) : o # <<>> => o[1] \notin DOMAIN RegisteredClaims}
                       /\ root = Overlay(tree.val[<<>>], RegisteredClaims)
    OBVIOUS
  <2>2. tree' = [Only(tree, S) EXCEPT !.val[<<>>] = root]
    BY <1>1, <1>5, <2>1 DEF SetRegisteredClaims, Fail
  <2>3. PICK V, D : Only(tree, S) = [val |-> V, sd |-> D] /\ V = [o \in S |-> tree.val[o]]
    BY DEF Only
  <2>4. tree'.val = [V EXCEPT ![<<>>] = root]
    BY <2>2, <2>3
  <2>5. Objects(tree') = S
    BY <2>3, <2>4 DEF Objects
  <2>6. Shallow'
    BY <1>1, <2>1, <2>5, StaysShallow DEF CredentialInv
  <2>7. <<>> \in S
    <3>1. ipc = "claims" /\ icur = <<>> /\ req \in Requests
      BY <1>1, <1>5 DEF Recursion
    <3>2. <<>> \in Structs(req) /\ OnStack(<<>>) /\ ~Dropped(<<>>) /\ ~Left(<<>>)
      <4>1. <<>> \in Path
        BY DEF Path
      <4> QED
        BY <3>1, <4>1, StructTree, PrefixOrder DEF OnStack, Dropped, Left
    <3> QED
      BY <1>1, <2>1, <3>2 DEF Carriage, Entered
  <2>8. tree'.val[<<>>] = root
    BY <2>3, <2>4, <2>7
  <2>9. /\ {"iss", "_sd_alg"} \subseteq DOMAIN root
        /\ root["iss"] = [str |-> iopts.id]
        /\ root["_sd_alg"] = [str |-> SDAlgFromHash(iopts.hashAlg)]
        /\ req.holderKey # Nil => "cnf" \in DOMAIN root /\ root["cnf"] = buildCnf(req.holderKey)
        /\ "vct" \in DOMAIN root /\ root["vct"] = [str |-> req.vct]
    BY <2>1, RegisteredValues DEF Overlay
  <2>10. /\ {"iat", "nbf", "exp"} \subseteq DOMAIN root
         /\ root["iat"] = [num |-> Seconds(clock)]
         /\ root["nbf"] = [num |-> Seconds(Begins(clock))]
         /\ root["exp"] = [num |-> Seconds(Ends(clock))]
    BY <2>1, RegisteredValues DEF Overlay
  <2>11. clock \in 0 .. clock' /\ clock' = clock
    <3>1. clock' = clock
      BY <1>5 DEF SetRegisteredClaims
    <3>2. clock \in 0 .. MaxTime
      BY DEF IssuerInv, Counters
    <3> QED
      BY <3>1, <3>2, ClockAssumption
  <2>12. Dated(tree, clock)'
    BY <1>1, <2>8, <2>10, <2>11 DEF Dated, Begins, Ends
  <2>13. (\E at \in 0 .. clock : Dated(tree, at))'
    BY <2>11, <2>12
  <2>14. Header'
    BY <1>1, <2>8, <2>9, <2>13 DEF Header, HasCnf, HasVct
  <2> QED
    BY <1>3, <2>6, <2>14
<1> QED
  BY <1>4, <1>5

(* Issue makes a credential that Verify can read.                          *)
THEOREM CredentialInvariance ==
  ASSUME NilIsNoSegment
  PROVE  IssuerSpec => []CredentialInv
<1>1. IssuerInit => CredentialInv
  <2>1. IssuerInit => discs = <<>> /\ ipc = "idle"
    BY DEF IssuerInit
  <2> QED
    BY <2>1 DEF CredentialInv, Encoded, Shallow, Header, Signed, Working, ToSet
<1>2. IssuerInv /\ CredentialInv /\ [IssuerNext]_issuerVars => CredentialInv'
  <2> SUFFICES ASSUME IssuerInv, CredentialInv, [IssuerNext]_issuerVars PROVE CredentialInv'
    OBVIOUS
  <2>1. ASSUME ipc' \in {"idle", "failed"}, Encoded' PROVE CredentialInv'
    BY <2>1 DEF CredentialInv, Shallow, Header, Signed, Working
  <2>2. ASSUME UNCHANGED discs PROVE Encoded'
    BY <2>2 DEF CredentialInv, Encoded
  <2>3. CASE IssuerTick \/ UNCHANGED issuerVars
    <3>1. UNCHANGED <<ipc, iopts, req, tree, discs, result>>
      BY <2>3 DEF IssuerTick, issuerVars, issueVars, callVars
    <3>2. 0 .. clock \subseteq 0 .. clock'
      BY <2>3 DEF IssuerTick, TimePasses, issuerVars, IssuerInv, Counters
    <3>3. Header'
      BY <3>1, <3>2 DEF CredentialInv, Header, HasCnf, HasVct, Dated, Begins, Ends
    <3> QED
      BY <3>1, <3>3 DEF CredentialInv, Encoded, Shallow, Signed, Working
  <2>4. CASE \E r \in Requests : Issue(r)
    <3>1. /\ UNCHANGED discs
          /\ \/ ipc' = "failed"
             \/ ipc' = "build" /\ tree' = [val |-> [o \in {<<>>} |-> Empty], sd |-> [o \in {<<>>} |-> <<>>]]
      BY <2>4 DEF Issue, Fail
    <3>2. ipc' = "build" => Objects(tree') = {<<>>}
      BY <3>1 DEF Objects
    <3>3. ipc' = "build" => Shallow' /\ Header' /\ Signed'
      BY <3>2 DEF Shallow, Header, Signed
    <3> QED
      BY <2>1, <2>2, <3>1, <3>3 DEF CredentialInv
  <2>5. ASSUME ipc' = "build", Encoded' /\ Shallow' PROVE CredentialInv'
    BY <2>5 DEF CredentialInv, Header, Signed
  <2>6. CASE BuildEnter
    <3>1. UNCHANGED discs /\ ipc' \in {"build", "failed"}
      BY <2>6 DEF BuildEnter, Fail
    <3> QED
      BY <2>1, <2>2, <2>5, <2>6, <3>1, BuildEnterCredential
  <2>7. CASE BuildClaim
    <3>1. ipc' = "build" \/ (ipc' = "failed" /\ UNCHANGED discs)
      BY <2>7 DEF BuildClaim, Fail
    <3> QED
      BY <2>1, <2>2, <2>5, <2>7, <3>1, BuildClaimCredential
  <2>8. CASE BuildReturn
    <3>1. ipc' = "build" \/ (ipc' = "failed" /\ UNCHANGED discs)
      BY <2>8 DEF BuildReturn, Fail
    <3> QED
      BY <2>1, <2>2, <2>5, <2>8, <3>1, BuildReturnCredential
  <2>9. CASE AddDecoys \/ SetRegisteredClaims
    <3>1. UNCHANGED discs /\ ipc' \in {"claims", "sign", "failed"}
      BY <2>9 DEF AddDecoys, SetRegisteredClaims, Fail
    <3>2. CASE ipc' = "failed"
      BY <2>1, <2>2, <3>1, <3>2
    <3>3. CASE ipc' # "failed"
      BY <2>9, <3>1, <3>3, LateCredential DEF CredentialInv, Signed
    <3> QED
      BY <3>2, <3>3
  <2>10. CASE RandomnessFails
    BY <2>1, <2>2, <2>10 DEF RandomnessFails, Fail, callVars
  <2>11. CASE Sign
    <3>1. /\ ipc = "sign" /\ UNCHANGED <<clock, iopts, req, tree, discs>>
          /\ \/ ipc' = "failed"
             \/ ipc' = "issued" /\ result' = [token |-> Token(signJWT(iopts.signer, tree), discs, Nil)]
      BY <2>11 DEF Sign, Fail, callVars
    <3>2. CASE ipc' = "failed"
      BY <2>1, <2>2, <3>1, <3>2
    <3>3. CASE ipc' = "issued"
      <4>1. Encoded' /\ Shallow' /\ Header'
        BY <3>1, <3>3 DEF CredentialInv, Encoded, Shallow, Header, HasCnf, HasVct, Dated, Begins, Ends,
                          Working
      <4>2. Signed'
        BY <3>1, <3>3 DEF Signed
      <4> QED
        BY <4>1, <4>2 DEF CredentialInv
    <3> QED
      BY <3>1, <3>2, <3>3
  <2>12. CASE ReturnIssued
    <3>1. ipc' = "idle" /\ discs' = <<>>
      BY <2>12 DEF ReturnIssued
    <3> QED
      BY <2>1, <3>1 DEF Encoded, ToSet
  <2> QED
    BY <2>3, <2>4, <2>6, <2>7, <2>8, <2>9, <2>10, <2>11, <2>12 DEF IssuerNext, IssuerStep
<1> QED
  BY <1>1, <1>2, IssuerInvariance, PTL DEF IssuerSpec

-----------------------------------------------------------------------------
(* The token on its way.  Cutting disclosures out repeats none.            *)
LEMMA ElementsDistinct ==
  ASSUME NEW s, IsSequence(s), \A i, j \in DOMAIN s : s[i] = s[j] => i = j,
         NEW J, J \subseteq DOMAIN s, NEW f, f = ElementsAt(s, J)
  PROVE  \A i, j \in DOMAIN f : f[i] = f[j] => i = j
<1>1. IsFiniteSet(J) /\ J \subseteq Nat
  <2>1. PICK n \in Nat : n = Len(s) /\ J \in SUBSET (1 .. n)
    BY DEF IsSequence
  <2>2. IsFiniteSet(1 .. n)
    BY FS_Interval
  <2> QED
    BY <2>1, <2>2, FS_Subset
<1> DEFINE rank(j) == Cardinality({k \in J : k <= j})
           at(i) == CHOOSE j \in J : rank(j) = i
<1>2. DOMAIN f = 1 .. Cardinality(J) /\ \A i \in 1 .. Cardinality(J) : f[i] = s[at(i)]
  BY DEF ElementsAt
<1>3. ASSUME NEW i \in 1 .. Cardinality(J) PROVE at(i) \in J /\ rank(at(i)) = i
  <2>1. \E j \in J : rank(j) = i
    BY <1>1, RankTaken
  <2> HIDE DEF rank
  <2> QED
    BY <2>1
<1> HIDE DEF rank, at
<1> SUFFICES ASSUME NEW i \in DOMAIN f, NEW j \in DOMAIN f, f[i] = f[j]
             PROVE  i = j
  OBVIOUS
<1>4. at(i) = at(j)
  BY <1>2, <1>3
<1> QED
  BY <1>2, <1>3, <1>4

(* The token of the issuer has each disclosure once.                       *)
LEMMA DiscsDistinct ==
  ASSUME IssuerInv, ipc = "issued"
  PROVE  \A i, j \in DOMAIN discs : discs[i] = discs[j] => i = j
<1>1. Disclosures
  BY Finished DEF Safe
<1> QED
  BY <1>1 DEF Disclosures, Of, Opened

(* A signer that fits does so for every payload.                           *)
LEMMA FitsAny ==
  ASSUME NEW signer, Fits(signer), NEW x
  PROVE  verifyJWTSignature(signJWT(signer, x), signer.key)
BY DEF Fits, verifyJWTSignature, signJWT

(* What was signed decodes.                                                *)
LEMMA SignedDecodes ==
  ASSUME NilIsNoSegment, NEW signer, NEW x
  PROVE  decodes(signJWT(signer, x))
BY DEF NilIsNoSegment, decodes, signJWT

(* The KB-JWT of a presentation is the holder's.                           *)
LEMMA PresentAuthentic ==
  ASSUME NilIsNoSegment, CanRoundTrip, NEW w, Bare(w), Authentic(w), NEW o, NEW at,
         o.KeyBinding => \E c \in PresentChoices : c.KeyBinding
  PROVE  /\ Authentic(Parse(String(Present(HolderSigner, w, o, at))))
         /\ o.KeyBinding => HasKeyBinding(Parse(String(Present(HolderSigner, w, o, at))))
<1>1. PICK d : d = selectDisclosures(w, o.RevealClaims)
  OBVIOUS
<1>2. IsSequence(d) /\ \A i, j \in DOMAIN d : d[i] = d[j] => i = j
  <2>1. CASE o.RevealClaims = {}
    BY <1>1, <2>1 DEF selectDisclosures, Bare, Authentic
  <2>2. CASE o.RevealClaims # {}
    <3>1. PICK s, J : s = w.Disclosures /\ J \in SUBSET DOMAIN s /\ d = ElementsAt(s, J)
      BY <1>1, <2>2 DEF selectDisclosures
    <3>2. IsSequence(s) /\ \A i, j \in DOMAIN s : s[i] = s[j] => i = j
      BY <3>1 DEF Bare, Authentic
    <3> QED
      BY <3>1, <3>2, ElementsAreSequence, ElementsDistinct
  <2> QED
    BY <2>1, <2>2
<1>3. PICK bare : bare = Token(w.IssuerJWT, d, Nil)
  OBVIOUS
<1>4. PICK kb : kb = IF o.KeyBinding THEN buildKBJWT(HolderSigner, bare, o.Nonce, o.Audience, at) ELSE Nil
  OBVIOUS
<1>5. PICK u : u = Token(w.IssuerJWT, d, kb)
  OBVIOUS
<1>6. Present(HolderSigner, w, o, at) = u
  BY <1>1, <1>3, <1>4, <1>5 DEF Present, Token
<1>7. Parse(String(u)) = u
  BY <1>2, <1>5, ParseOfString DEF IsSequence
<1>8. o.KeyBinding => kb # Nil /\ Bound(kb)
  <2> SUFFICES ASSUME o.KeyBinding PROVE kb # Nil /\ Bound(kb)
    OBVIOUS
  <2>1. PICK x : kb = signJWT(HolderSigner, x)
    BY <1>4 DEF buildKBJWT
  <2>2. Fits(HolderSigner)
    BY DEF CanRoundTrip
  <2>3. decodes(kb) /\ verifyJWTSignature(kb, HolderSigner.key)
    BY <2>1, <2>2, FitsAny, SignedDecodes
  <2> QED
    BY <2>3 DEF Bound, decodes
<1>9. u.IssuerJWT = w.IssuerJWT /\ u.Disclosures = d /\ u.KBJWT = kb
  BY <1>5 DEF Token
<1>10. Authentic(u) /\ (o.KeyBinding => HasKeyBinding(u))
  BY <1>2, <1>4, <1>8, <1>9 DEF Authentic, HasKeyBinding
<1> QED
  BY <1>6, <1>7, <1>10

(* What arrives of it is authentic, and Parse takes it.                    *)
LEMMA ArrivesAuthentic ==
  ASSUME NilIsNoSegment, Encoded, NEW p, Sent(p), Genuine(Parse(p.raw)), Authentic(Parse(p.raw)),
         NEW r, Arrives(p, r)
  PROVE  Parses(r) /\ Authentic(Parse(r))
<1>1. PICK u : u = Parse(p.raw) /\ IsSequence(u.Disclosures) /\ Genuine(u) /\ Authentic(u)
  BY DEF Sent
<1>2. PICK J \in SUBSET DOMAIN u.Disclosures, kb \in {u.KBJWT, Nil} :
        r = String(Token(u.IssuerJWT, ElementsAt(u.Disclosures, J), kb))
  BY <1>1 DEF Arrives
<1>3. PICK s, d : s = u.Disclosures /\ d = ElementsAt(s, J)
  OBVIOUS
<1>4. IsSequence(s) /\ \A i, j \in DOMAIN s : s[i] = s[j] => i = j
  BY <1>1, <1>3 DEF Authentic
<1>5. /\ IsSequence(d) /\ ToSet(d) \subseteq ToSet(s)
      /\ \A i, j \in DOMAIN d : d[i] = d[j] => i = j
  BY <1>2, <1>3, <1>4, ElementsAreSequence, ElementsWithin, ElementsDistinct
<1>6. PICK v : v = Token(u.IssuerJWT, d, kb)
  OBVIOUS
<1>7. r = String(v) /\ v.IssuerJWT = u.IssuerJWT /\ v.Disclosures = d /\ v.KBJWT = kb
  BY <1>2, <1>3, <1>6 DEF Token
<1>8. u.IssuerJWT # Nil
  <2>1. PICK signer, x : u.IssuerJWT = signJWT(signer, x)
    BY <1>1 DEF Authentic
  <2> QED
    BY <2>1, SignedDecodes DEF decodes
<1>9. ToSet(d) \subseteq ToSet(discs) /\ \A e \in ToSet(d) : e # Nil
  BY <1>1, <1>3, <1>5 DEF Genuine, Encoded
<1>10. PICK S : S = ToSet(d) \cup {u.IssuerJWT, kb}
  OBVIOUS
<1>11. IsToken(v, S)
  <2>1. d \in Seq(S \ {Nil})
    <3>1. ToSet(d) \subseteq S \ {Nil}
      BY <1>9, <1>10
    <3>2. d \in Seq(ToSet(d))
      BY <1>5 DEF IsSequence
    <3> QED
      BY <3>1, <3>2
  <2> QED
    BY <1>6, <1>7, <1>8, <1>10, <2>1 DEF IsToken
<1>12. Parses(r) /\ Parse(r) = v
  BY <1>7, <1>11, ParseString
<1>13. HasKeyBinding(v) => Bound(v.KBJWT)
  BY <1>1, <1>2, <1>7 DEF HasKeyBinding, Authentic
<1>14. Authentic(v)
  BY <1>1, <1>5, <1>7, <1>13 DEF Authentic
<1> QED
  BY <1>12, <1>14

(* Whether a token is authentic does not change once it is issued.         *)
LEMMA SameAuthentic ==
  ASSUME UNCHANGED <<iopts, tree>>, NEW u
  PROVE  Authentic(u)' <=> Authentic(u)
BY DEF Authentic, Bound

-----------------------------------------------------------------------------
(* The steps before Verify.  A step of the issuer comes before all others. *)
LEMMA IssuingTrip ==
  ASSUME LifeInv, RevealInv, TripInv, Issuing
  PROVE  TripInv'
<1>1. UNCHANGED <<vars, holderVars>> /\ ipc # "issued"
  <2>1. CASE \E r \in Requests : Issue(r)
    BY <2>1 DEF Issuing, Issue
  <2>2. CASE BuildClaim \/ BuildEnter \/ BuildReturn
    BY <2>2 DEF Issuing, BuildClaim, BuildEnter, BuildReturn
  <2>3. CASE AddDecoys \/ RandomnessFails \/ SetRegisteredClaims \/ Sign
    BY <2>3 DEF Issuing, AddDecoys, RandomnessFails, SetRegisteredClaims, Sign
  <2> QED
    BY <2>1, <2>2, <2>3 DEF Issuing
<1>2. wallet' = Nil /\ presented' = {} /\ presented = {} /\ pc' = pc
  BY <1>1 DEF RevealInv, Handed, vars, holderVars
<1>3. pc = "idle"
  BY <1>2 DEF LifeInv, Delivered
<1>4. InTransfer' /\ Known' /\ Reason'
  BY <1>2, <1>3 DEF InTransfer, Known, Reason, BeforeWalk, FromWalk
<1>5. UNCHANGED <<visited, disclosed>>
  BY <1>1 DEF vars, walkVars, discVars
<1>6. Walk'
  BY <1>2, <1>3, <1>5 DEF TripInv, Walk, BeforeWalk, FromWalk
<1> QED
  BY <1>4, <1>6 DEF TripInv

(* The call in progress goes on as before.                                 *)
LEMMA SameCall ==
  ASSUME TripInv, UNCHANGED <<iopts, tree, req>>,
         UNCHANGED <<opts, pc, raw, nonce, t, issuer, pubKey, now, payload, cur, visited, digestMap, next,
                     disclosed, outcome>>
  PROVE  /\ Walk' /\ Known' /\ Reason'
         /\ pc' \in BeforeWalk \cup FromWalk => Authentic(t)'
<1>1. Walk'
  BY DEF TripInv, Walk, Ahead, Structured
<1>2. Known'
  BY DEF TripInv, Known, HasCnf, HasVct
<1>3. Reason'
  BY DEF TripInv, Reason, OutOfTime, NamesClash, OtherType, KBReason, kbPayload
<1>4. pc' \in BeforeWalk \cup FromWalk => Authentic(t)'
  BY DEF TripInv, InTransfer, Authentic, Bound
<1> QED
  BY <1>1, <1>2, <1>3, <1>4

(* The wallet stores what was issued; a new session; time.                 *)
LEMMA QuietTrip ==
  ASSUME IssuerInv, CredentialInv, TripInv, Store \/ Challenge \/ Time \/ UNCHANGED lifeVars
  PROVE  TripInv'
<1>1. /\ UNCHANGED <<opts, pc, raw, nonce, t, issuer, pubKey, now, payload, cur, visited, digestMap, next,
                     disclosed, outcome>>
      /\ UNCHANGED <<iopts, tree, req, presented>>
  BY DEF Store, Challenge, Time, Tick, lifeVars, vars, issueVars, callVars, holderVars, parseVars,
         keyVars, walkVars, discVars
<1>2. Walk' /\ Known' /\ Reason' /\ (pc' \in BeforeWalk \cup FromWalk => Authentic(t)')
  BY <1>1, SameCall
<1>3. (wallet # Nil => Authentic(wallet))'
  <2>1. CASE Store
    <3>1. wallet' = result.token /\ ipc = "issued"
      BY <2>1 DEF Store
    <3>2. PICK w : w = Token(signJWT(iopts.signer, tree), discs, Nil) /\ w = result.token
      BY <3>1 DEF CredentialInv, Signed
    <3>3. w.IssuerJWT = signJWT(iopts.signer, tree) /\ w.Disclosures = discs /\ w.KBJWT = Nil
      BY <3>2 DEF Token
    <3>4. Authentic(w)
      BY <3>1, <3>3, DiscsDistinct DEF Authentic, HasKeyBinding
    <3> QED
      BY <1>1, <3>1, <3>2, <3>4 DEF Authentic
  <2>2. CASE ~Store
    <3>1. wallet' = wallet
      BY <2>2 DEF Challenge, Time, lifeVars, holderVars
    <3> QED
      BY <1>1, <3>1 DEF TripInv, InTransfer, Authentic
  <2> QED
    BY <2>1, <2>2
<1>4. \A p \in presented' : Authentic(Parse(p.raw))' /\ (p.opts.KeyBinding => HasKeyBinding(Parse(p.raw)))
  BY <1>1, SameAuthentic DEF TripInv, InTransfer
<1> QED
  BY <1>2, <1>3, <1>4 DEF TripInv, InTransfer

(* A presentation.                                                         *)
LEMMA PresentTrip ==
  ASSUME NilIsNoSegment, CanRoundTrip, LifeInv, TripInv, NEW c \in PresentChoices, PresentTo(c)
  PROVE  TripInv'
<1>1. PICK o : o = [RevealClaims |-> c.RevealClaims, KeyBinding |-> c.KeyBinding,
                    Audience |-> c.Audience, Nonce |-> challenge]
  OBVIOUS
<1>2. PICK at : at = clock \div TicksPerSecond
  OBVIOUS
<1>3. PICK p : p = [raw |-> String(Present(HolderSigner, wallet, o, at)), opts |-> o]
  OBVIOUS
<1>4. /\ wallet # Nil /\ presented' = presented \cup {p}
      /\ UNCHANGED <<vars, issueVars, wallet, challenge>>
  BY <1>1, <1>2, <1>3 DEF PresentTo
<1>5. PICK w : w = wallet /\ Bare(w) /\ Authentic(w)
  BY <1>4 DEF LifeInv, IssuedOK, TripInv, InTransfer
<1>6. o.KeyBinding => \E x \in PresentChoices : x.KeyBinding
  BY <1>1
<1>7. Authentic(Parse(p.raw)) /\ (p.opts.KeyBinding => HasKeyBinding(Parse(p.raw)))
  BY <1>3, <1>5, <1>6, PresentAuthentic
<1>8. /\ UNCHANGED <<opts, pc, raw, nonce, t, issuer, pubKey, now, payload, cur, visited, digestMap, next,
                     disclosed, outcome>>
      /\ UNCHANGED <<iopts, tree, req, wallet>>
  BY <1>4 DEF vars, issueVars, callVars, parseVars, keyVars, walkVars, discVars
<1>9. Walk' /\ Known' /\ Reason' /\ (pc' \in BeforeWalk \cup FromWalk => Authentic(t)')
  BY <1>8, SameCall
<1>10. \A q \in presented' : Authentic(Parse(q.raw))' /\ (q.opts.KeyBinding => HasKeyBinding(Parse(q.raw)))
  <2>1. \A q \in presented' : Authentic(Parse(q.raw)) /\ (q.opts.KeyBinding => HasKeyBinding(Parse(q.raw)))
    BY <1>4, <1>7 DEF TripInv, InTransfer
  <2> QED
    BY <1>8, <2>1, SameAuthentic
<1>11. (wallet # Nil => Authentic(wallet))'
  BY <1>8 DEF TripInv, InTransfer, Authentic
<1> QED
  BY <1>9, <1>10, <1>11 DEF TripInv, InTransfer

(* A message arrives.                                                      *)
LEMMA DeliverTrip ==
  ASSUME TripInv, Deliver
  PROVE  TripInv'
<1>1. /\ pc = "idle" /\ pc' = "parse" /\ UNCHANGED <<walkVars, discVars, issueVars, holderVars>>
  BY DEF Deliver, Verify
<1>2. UNCHANGED <<visited, disclosed, iopts, tree, wallet, presented>>
  BY <1>1 DEF walkVars, discVars, issueVars, callVars, holderVars
<1>3. InTransfer'
  BY <1>1, <1>2 DEF TripInv, InTransfer, Authentic, BeforeWalk, FromWalk
<1>4. Walk' /\ Known' /\ Reason'
  BY <1>1, <1>2 DEF TripInv, Walk, Known, Reason, BeforeWalk, FromWalk
<1> QED
  BY <1>3, <1>4 DEF TripInv

-----------------------------------------------------------------------------
(* The walk.  The objects of StructuredClaims in the payload are a tree.   *)
LEMMA StructuredTree ==
  ASSUME IssuerInv, ipc = "issued"
  PROVE  /\ Structured \subseteq Path /\ <<>> \in Structured
         /\ \A o \in Structured, q \in Path : IsPrefix(q, o) => q \in Structured
<1>1. /\ Carriage /\ req \in Requests /\ <<>> \in Objects(tree)
      /\ \A o \in Structs(req) : Entered(o)
      /\ \A o \in Structs(req) : Left(o) <=> \E q \in Paths(req) : IsPrefix(q, o) /\ Selective(req, q)
  BY Finished DEF Safe
<1>2. /\ Structs(req) \subseteq Path /\ <<>> \in Structs(req) /\ Paths(req) \subseteq Path
      /\ \A o \in Structs(req), q \in Path : IsPrefix(q, o) => q \in Structs(req)
  BY <1>1, StructTree, RequestTree
<1>3. ASSUME NEW o \in Structured, NEW q \in Path, IsPrefix(q, o)
      PROVE  q \in Structured
  <2>1. o \in Structs(req) /\ o \in Path /\ q \in Structs(req) /\ ~Left(o) /\ ~Dropped(o)
    BY <1>1, <1>2, <1>3 DEF Structured, Carriage
  <2>2. ~Left(q)
    BY <1>1, <1>2, <1>3, <2>1, PrefixOrder
  <2>3. ~Dropped(q)
    <3> SUFFICES ASSUME q # <<>> PROVE o # <<>> /\ o[1] = q[1]
      BY <2>1 DEF Dropped
    <3>1. Len(q) \in Nat /\ Len(q) >= 1 /\ Len(o) \in Nat
      BY <2>1, FrontLast, LenProperties DEF Path
    <3>2. Len(q) <= Len(o) /\ \A i \in 1 .. Len(q) : q[i] = o[i]
      BY <1>3, <2>1, PrefixMeaning
    <3>3. 1 \in 1 .. Len(q) /\ Len(o) # 0
      BY <3>1, <3>2
    <3> QED
      BY <3>2, <3>3
  <2> QED
    BY <1>1, <2>1, <2>2, <2>3 DEF Carriage, Structured
<1> QED
  BY <1>1, <1>2, <1>3 DEF Structured

(* From an object down to one below it, one level at a time.               *)
LEMMA NextBelow ==
  ASSUME NEW c \in Path, NEW o \in Path, IsPrefix(c, o), c # o
  PROVE  \E a \in Path : a # <<>> /\ Front(a) = c /\ IsPrefix(a, o)
<1>1. PICK n, m \in Nat : n = Len(c) /\ m = Len(o)
  BY LenProperties DEF Path
<1>2. n < m
  BY <1>1, PrefixMeaning, PrefixOrder
<1>3. PICK a : a = SubSeq(o, 1, n + 1)
  OBVIOUS
<1>4. a \in Path /\ Len(a) = n + 1 /\ IsPrefix(a, o)
  BY <1>1, <1>2, <1>3, Ancestor
<1>5. a # <<>>
  BY <1>4
<1>6. Front(a) \in Path /\ Len(Front(a)) = n
  BY <1>4, <1>5, FrontLast
<1>7. IsPrefix(Front(a), a)
  BY <1>4, <1>5, <1>6, PrefixFront, PrefixOrder
<1>8. IsPrefix(Front(a), o)
  BY <1>4, <1>6, <1>7, PrefixOrder
<1>9. IsPrefix(Front(a), c)
  BY <1>1, <1>6, <1>8, PrefixOrder
<1>10. Front(a) = c
  BY <1>1, <1>6, <1>9, PrefixOrder
<1> QED
  BY <1>4, <1>5, <1>10

(* Entering the payload: everything is ahead.                              *)
LEMMA WalkStarts ==
  ASSUME IssuerInv, ipc = "issued", UNCHANGED <<tree, req>>, visited = {}, Enter(<<>>)
  PROVE  Ahead'
<1>1. cur' = <<>> /\ visited' = {<<>>} /\ Structured' = Structured
  BY DEF Enter, Structured
<1>2. /\ Structured \subseteq Path /\ <<>> \in Structured
      /\ \A o \in Structured, q \in Path : IsPrefix(q, o) => q \in Structured
  BY StructuredTree
<1>3. <<>> \in Path /\ IsPrefix(<<>>, <<>>)
  BY <1>2, PrefixOrder
<1>4. ASSUME NEW o \in Structured \ {<<>>}
      PROVE  \E a \in Structured \ {<<>>} : a # <<>> /\ IsPrefix(a, o) /\ IsPrefix(Front(a), <<>>)
  <2>1. o \in Path /\ IsPrefix(<<>>, o) /\ o # <<>>
    BY <1>2, <1>4, PrefixOrder
  <2>2. PICK a \in Path : a # <<>> /\ Front(a) = <<>> /\ IsPrefix(a, o)
    BY <1>3, <2>1, NextBelow
  <2> QED
    BY <1>2, <1>3, <2>2
<1>5. {<<>>} \subseteq Objects(tree)'
  BY <1>2 DEF Structured
<1> QED
  BY <1>1, <1>4, <1>5 DEF Ahead

(* Entering an object: what was ahead below it still is.                   *)
LEMMA WalkEnters ==
  ASSUME IssuerInv, ipc = "issued", UNCHANGED <<tree, req>>, Ahead,
         NEW c \in Children(tree, cur) \ visited, Enter(c)
  PROVE  Ahead'
<1>1. cur' = c /\ visited' = visited \cup {c} /\ Structured' = Structured
  BY DEF Enter, Structured
<1>2. c \in Objects(tree) /\ c # <<>> /\ Front(c) = cur /\ c \notin visited
  BY DEF Children
<1>3. Objects(tree) \subseteq Path
  <2>1. Carriage
    BY Finished DEF Safe
  <2> QED
    BY <2>1 DEF Carriage, Carriers, Carried
<1>4. /\ Structured \subseteq Path
      /\ \A o \in Structured, q \in Path : IsPrefix(q, o) => q \in Structured
  BY StructuredTree
<1>5. cur \in visited /\ cur \in Path /\ c \in Path /\ IsPrefix(cur, c) /\ IsPrefix(c, c)
  <2>1. cur \in visited /\ cur \in Objects(tree)
    BY DEF Ahead
  <2> QED
    BY <1>2, <1>3, <2>1, PrefixFront, PrefixOrder
<1>6. ASSUME NEW o \in Structured \ visited'
      PROVE  \E a \in Structured \ visited' : a # <<>> /\ IsPrefix(a, o) /\ IsPrefix(Front(a), c)
  <2>1. o \in Structured \ visited /\ o # c /\ o \in Path
    BY <1>1, <1>4, <1>6
  <2>2. PICK a \in Structured \ visited : a # <<>> /\ IsPrefix(a, o) /\ IsPrefix(Front(a), cur)
    BY <2>1 DEF Ahead
  <2>3. CASE a # c
    <3>1. a \in Path /\ Front(a) \in Path
      BY <1>4, <2>2, FrontLast
    <3>2. IsPrefix(Front(a), c)
      BY <1>5, <2>2, <3>1, PrefixOrder
    <3> QED
      BY <1>1, <2>2, <2>3, <3>2
  <2>4. CASE a = c
    <3>1. PICK b \in Path : b # <<>> /\ Front(b) = c /\ IsPrefix(b, o)
      BY <1>5, <2>1, <2>2, <2>4, NextBelow
    <3>2. b \in Structured
      BY <1>4, <2>1, <3>1
    <3>3. b \notin visited
      BY <1>2, <3>1 DEF Ahead
    <3>4. b # c
      BY <1>2, <1>5, <3>1, PrefixFront
    <3> QED
      BY <1>1, <1>5, <3>1, <3>2, <3>3, <3>4
  <2> QED
    BY <2>3, <2>4
<1>7. visited' \subseteq Objects(tree') /\ \A o \in visited' \ {<<>>} : Front(o) \in visited'
  BY <1>1, <1>2, <1>5 DEF Ahead
<1> QED
  BY <1>1, <1>6, <1>7 DEF Ahead

(* Leaving an object: nothing is ahead just below it.                      *)
LEMMA WalkLeaves ==
  ASSUME IssuerInv, ipc = "issued", UNCHANGED <<tree, req, visited>>, Ahead,
         Children(tree, cur) \subseteq visited, cur # <<>>, cur' = Front(cur)
  PROVE  Ahead'
<1>1. Structured' = Structured
  BY DEF Structured
<1>2. Structured \subseteq Path /\ cur \in visited /\ cur \in Objects(tree) /\ cur \in Path
  <2>1. Carriage
    BY Finished DEF Safe
  <2>2. Objects(tree) \subseteq Path
    BY <2>1 DEF Carriage, Carriers, Carried
  <2> QED
    BY <2>2, StructuredTree DEF Ahead
<1>3. ASSUME NEW o \in Structured \ visited
      PROVE  \E a \in Structured \ visited : a # <<>> /\ IsPrefix(a, o) /\ IsPrefix(Front(a), Front(cur))
  <2>1. PICK a \in Structured \ visited : a # <<>> /\ IsPrefix(a, o) /\ IsPrefix(Front(a), cur)
    BY <1>3 DEF Ahead
  <2>2. Front(a) # cur
    BY <2>1 DEF Children, Structured
  <2>3. a \in Path /\ Front(a) \in Path
    BY <1>2, <2>1, FrontLast
  <2>4. IsPrefix(Front(a), Front(cur))
    BY <1>2, <2>1, <2>2, <2>3, PrefixFront
  <2> QED
    BY <2>1, <2>4
<1>4. Front(cur) \in visited
  BY <1>2 DEF Ahead
<1> QED
  BY <1>1, <1>3, <1>4 DEF Ahead

(* Back at the payload, nothing is ahead.                                  *)
LEMMA WalkEnds ==
  ASSUME IssuerInv, ipc = "issued", Ahead, Children(tree, cur) \subseteq visited, cur = <<>>
  PROVE  Structured \subseteq visited
<1> SUFFICES ASSUME NEW o \in Structured \ visited PROVE FALSE
  OBVIOUS
<1>1. PICK a \in Structured \ visited : a # <<>> /\ IsPrefix(Front(a), <<>>)
  BY DEF Ahead
<1>2. a \in Path /\ Front(a) \in Path /\ <<>> \in Path
  BY <1>1, StructuredTree, FrontLast
<1>3. Front(a) = <<>>
  <2>1. IsPrefix(<<>>, Front(a)) /\ Len(<<>>) = 0 /\ Len(Front(a)) \in Nat
    BY <1>2, PrefixOrder, LenProperties DEF Path
  <2> QED
    BY <1>1, <1>2, <2>1, PrefixOrder
<1> QED
  BY <1>1, <1>3 DEF Children, Structured

(* The digests of the objects entered are in the map.                      *)
LEMMA EnterDigests ==
  ASSUME NEW o, payload = tree, UNCHANGED tree, Enter(o),
         \A x \in visited : ToSet(tree.sd[x]) \subseteq DOMAIN digestMap
  PROVE  \A x \in visited' : ToSet(tree'.sd[x]) \subseteq DOMAIN digestMap'
<1>1. PICK g : g = [d \in ToSet(tree.sd[o]) |-> o]
  OBVIOUS
<1>2. DOMAIN g = ToSet(tree.sd[o])
  BY <1>1
<1>3. digestMap' = Overlay(digestMap, g) /\ visited' = visited \cup {o}
  BY <1>1 DEF Enter
<1>4. DOMAIN digestMap' = DOMAIN digestMap \cup ToSet(tree.sd[o])
  BY <1>2, <1>3 DEF Overlay
<1> QED
  BY <1>3, <1>4

-----------------------------------------------------------------------------
(* What Verify reads of the credential.  The algorithm is the issuer's.    *)
LEMMA AlgRead ==
  ASSUME CanRoundTrip, IssuerInv, CredentialInv, ipc = "issued", Genuine(t)
  PROVE  hashAlg = iopts.hashAlg /\ hashAlg # Nil
<1>1. PICK h, p : h = iopts.hashAlg /\ p = tree
  OBVIOUS
<1>2. h # Nil /\ SDAlgFromHash(h) # Nil
  <2>1. iopts \in IssuerOptions
    BY DEF IssuerInv, Counters
  <2> QED
    BY <1>1, <2>1, Finished DEF CanRoundTrip, Safe, Digests
<1>3. "_sd_alg" \in DOMAIN p.val[<<>>] /\ p.val[<<>>]["_sd_alg"] = [str |-> SDAlgFromHash(h)]
  BY <1>1 DEF CredentialInv, Header
<1>4. Claim(p, "_sd_alg", "str") = SDAlgFromHash(h)
  BY <1>3 DEF Claim
<1>5. AlgorithmFromSDAlg(SDAlgFromHash(h)) = h
  BY <1>2 DEF AlgorithmFromSDAlg, SDAlgFromHash
<1>6. sdAlg(p) = h
  BY <1>2, <1>4, <1>5 DEF sdAlg
<1> QED
  BY <1>1, <1>2, <1>6 DEF hashAlg, Genuine

(* The digest of every disclosure is in an object of the payload.          *)
LEMMA DigestThere ==
  ASSUME CanRoundTrip, IssuerInv, ipc = "issued", NEW enc \in ToSet(discs)
  PROVE  \E o \in Structured : Digest(iopts.hashAlg, enc) \in ToSet(tree.sd[o])
<1>1. /\ Safe /\ req \in Requests /\ handled = Processed(req)
      /\ \A o \in Structs(req) : Entered(o)
      /\ \A o \in Structs(req) : Left(o) <=> \E q \in Paths(req) : IsPrefix(q, o) /\ Selective(req, q)
  BY Finished
<1>2. PICK i \in DOMAIN discs : enc = discs[i]
  BY DEF ToSet
<1>3. PICK p : p = Of(i)
  OBVIOUS
<1>4. p \in Processed(req) /\ Selective(req, p)
  BY <1>1, <1>3 DEF Safe, Disclosures
<1>5. /\ p[1] \notin RegisteredName
      /\ \A q \in Paths(req) : IsStrictPrefix(q, p) => ~Selective(req, q)
  BY <1>1, <1>4 DEF CanRoundTrip, Verifiable
<1>6. PICK o : o = Front(p)
  OBVIOUS
<1>7. o \in Structs(req) /\ (o # <<>> => o[1] = p[1])
  BY <1>4, <1>6, LostMeaning
<1>8. ~Left(o)
  <2>1. p \in Path /\ p # <<>> /\ Paths(req) \subseteq Path
    BY <1>1, <1>4, StructTree, RequestTree
  <2>2. \A q \in Path : IsPrefix(q, p) <=> q = p \/ IsPrefix(q, o)
    BY <1>6, <2>1, PrefixFront
  <2>3. ~IsPrefix(p, o)
    BY <1>6, <2>1, PrefixFront
  <2> QED
    BY <1>1, <1>5, <1>7, <2>1, <2>2, <2>3 DEF IsStrictPrefix
<1>9. ~Dropped(o)
  BY <1>5, <1>7, RegisteredNames DEF Dropped
<1>10. o \in Objects(tree)
  BY <1>1, <1>7, <1>8, <1>9 DEF Safe, Carriage
<1>11. 0 \in Carriers /\ Carried(0) = tree
  BY DEF Carriers, Carried
<1>12. \E j \in DOMAIN tree.sd[o] : tree.sd[o][j] = Digest(iopts.hashAlg, discs[i])
  <2>1. Digests /\ Front(Of(i)) \in Objects(Carried(0))
    BY <1>1, <1>3, <1>6, <1>10, <1>11 DEF Safe
  <2> QED
    BY <1>3, <1>6, <1>11, <2>1 DEF Digests
<1> QED
  BY <1>2, <1>7, <1>10, <1>12 DEF Structured, ToSet

(* No two disclosures are of the same claim.                               *)
LEMMA ClaimsDistinct ==
  ASSUME IssuerInv, ipc = "issued", NEW e \in ToSet(discs), NEW f \in ToSet(discs),
         ParseDisclosure(e).Value.claim = ParseDisclosure(f).Value.claim
  PROVE  e = f
<1>1. Disclosures
  BY Finished DEF Safe
<1>2. PICK i \in DOMAIN discs : e = discs[i]
  BY DEF ToSet
<1>3. PICK j \in DOMAIN discs : f = discs[j]
  BY DEF ToSet
<1>4. Of(i) = Of(j)
  BY <1>2, <1>3 DEF Of, Opened
<1> QED
  BY <1>1, <1>2, <1>3, <1>4 DEF Disclosures

(* No object lies deeper than Verify walks.                                *)
LEMMA WithinDepth ==
  ASSUME CanRoundTrip, IssuerInv, CredentialInv, ipc = "issued", NEW o \in Objects(tree), o # <<>>
  PROVE  Len(o) <= maxVerifyDepth
<1>1. o \in Paths(req) /\ (req.kind[o] = "map" \/ Len(o) <= maxNestingDepth)
  BY DEF CredentialInv, Shallow, Working
<1>2. req \in Requests
  BY Finished
<1>3. Len(o) \in Nat
  <2>1. o \in Path
    BY <1>1, <1>2, RequestTree
  <2> QED
    BY <2>1, LenProperties DEF Path
<1>4. maxNestingDepth <= maxVerifyDepth /\ maxNestingDepth \in Nat /\ maxVerifyDepth \in Nat
  BY IssuerAssumption, VerifierAssumption DEF CanRoundTrip
<1>5. CASE req.kind[o] = "map"
  BY <1>1, <1>2, <1>5 DEF CanRoundTrip, Verifiable
<1>6. CASE Len(o) <= maxNestingDepth
  BY <1>3, <1>4, <1>6
<1> QED
  BY <1>1, <1>5, <1>6

-----------------------------------------------------------------------------
(* The steps of Verify.  What the other parties have stays authentic.      *)
LEMMA CallTrip ==
  ASSUME TripInv, UNCHANGED <<issueVars, holderVars>>, Walk', Known', Reason',
         pc' \in BeforeWalk \cup FromWalk => Authentic(t)'
  PROVE  TripInv'
<1>1. UNCHANGED <<iopts, tree, wallet, presented>>
  BY DEF issueVars, callVars, holderVars
<1>2. (wallet # Nil => Authentic(wallet))'
  BY <1>1 DEF TripInv, InTransfer, Authentic
<1>3. \A p \in presented' : Authentic(Parse(p.raw))' /\ (p.opts.KeyBinding => HasKeyBinding(Parse(p.raw)))
  BY <1>1, SameAuthentic DEF TripInv, InTransfer
<1> QED
  BY <1>2, <1>3 DEF TripInv, InTransfer

(* A call that is rejected.                                                *)
LEMMA RejectedTrip ==
  ASSUME TripInv, UNCHANGED <<issueVars, holderVars>>, pc' = "rejected", Reason'
  PROVE  TripInv'
<1>1. Walk' /\ Known' /\ pc' \notin BeforeWalk \cup FromWalk
  BY DEF Walk, Known, BeforeWalk, FromWalk
<1> QED
  BY <1>1, CallTrip

(* A check before the walk that holds.                                     *)
LEMMA EarlyTrip ==
  ASSUME TripInv, UNCHANGED <<issueVars, holderVars>>, UNCHANGED <<visited, disclosed>>,
         pc \in {"parse"} \cup BeforeWalk, pc' \in BeforeWalk,
         pc' # "issuer_jwt_decode" => issuer' = iopts.id,
         pc' = "signature" => pubKey' = iopts.signer.key,
         pc' = "nbf" => now' \in Nat /\ now' >= Unix(tree.val[<<>>]["iat"].num),
         NEW u, t' = u, Authentic(u)
  PROVE  TripInv'
<1>1. UNCHANGED <<iopts, tree>>
  BY DEF issueVars, callVars
<1>2. pc' \notin FromWalk /\ pc' # "rejected"
  BY DEF BeforeWalk, FromWalk
<1>3. Walk'
  <2>1. visited' = {} /\ disclosed' = <<>>
    BY DEF TripInv, Walk
  <2> QED
    BY <1>2, <2>1 DEF Walk, FromWalk
<1>4. Known' /\ Reason'
  BY <1>1, <1>2 DEF Known, Reason
<1>5. Authentic(t)'
  BY <1>1 DEF Authentic, Bound
<1> QED
  BY <1>3, <1>4, <1>5, CallTrip

(* A check after the walk that holds.                                      *)
LEMMA LateTrip ==
  ASSUME TripInv, UNCHANGED <<issueVars, holderVars>>,
         UNCHANGED <<t, payload, walkVars, discVars>>,
         pc \in FromWalk \ {"disclosure_collect"}, pc' \in FromWalk \ {"disclosure_collect"}
  PROVE  TripInv'
<1>1. /\ UNCHANGED <<iopts, tree, req>> /\ UNCHANGED <<cur, visited, digestMap, next, disclosed>>
      /\ Structured' = Structured
  BY DEF issueVars, callVars, walkVars, discVars, Structured
<1>2. pc' \notin {"idle", "parse"} \cup BeforeWalk /\ pc' \notin {"rejected", "signature", "nbf"}
  BY DEF BeforeWalk, FromWalk
<1>3. Walk'
  BY <1>1, <1>2 DEF TripInv, Walk
<1>4. Known'
  BY <1>1, <1>2 DEF TripInv, Known, HasCnf, HasVct
<1>5. Reason'
  BY <1>2 DEF Reason
<1>6. Authentic(t)'
  BY <1>1 DEF TripInv, InTransfer, Authentic, Bound
<1> QED
  BY <1>3, <1>4, <1>5, <1>6, CallTrip

(* Parse takes what arrives.                                               *)
LEMMA ParseTrip ==
  ASSUME NilIsNoSegment, CredentialInv, LifeInv, RevealInv, TripInv, ParseRaw,
         UNCHANGED <<issueVars, holderVars>>
  PROVE  TripInv'
<1>1. pc = "parse" /\ UNCHANGED <<visited, disclosed>>
  BY DEF ParseRaw, Check, walkVars, discVars
<1>2. PICK r : r = raw
  OBVIOUS
<1>3. PICK p \in presented : Arrives(p, r) /\ Sent(p) /\ Genuine(Parse(p.raw)) /\ Authentic(Parse(p.raw))
  BY <1>1, <1>2 DEF LifeInv, Delivered, SentOK, RevealInv, Handed, TripInv, InTransfer
<1>4. Parses(r) /\ Authentic(Parse(r))
  BY <1>3, ArrivesAuthentic DEF CredentialInv
<1>5. pc' = "issuer_jwt_decode" /\ t' = Parse(r)
  BY <1>2, <1>4 DEF ParseRaw, Check
<1>6. pc \in {"parse"} \cup BeforeWalk /\ pc' \in BeforeWalk /\ pc' # "signature"
  BY <1>1, <1>5 DEF BeforeWalk
<1> QED
  BY <1>1, <1>4, <1>5, <1>6, EarlyTrip

(* The JWT decodes and names its issuer.                                   *)
LEMMA DecodeTrip ==
  ASSUME NilIsNoSegment, CanRoundTrip, IssuerInv, CredentialInv, RevealInv, TripInv, DecodeIssuerJWT,
         UNCHANGED <<issueVars, holderVars>>
  PROVE  TripInv'
<1>1. pc = "issuer_jwt_decode" /\ UNCHANGED <<visited, disclosed, t>>
  BY DEF DecodeIssuerJWT, Check, parseVars, walkVars, discVars
<1>2. ipc = "issued" /\ Genuine(t) /\ Authentic(t)
  BY <1>1 DEF RevealInv, Reading, BeforeWalk, TripInv, InTransfer
<1>3. decodes(t.IssuerJWT)
  BY <1>2, SignedDecodes DEF Authentic
<1>4. PICK p, id : p = t.IssuerJWT.jwt.payload /\ p = tree /\ id = iopts.id
  BY <1>2 DEF Genuine
<1>5. id # Nil
  BY <1>4 DEF CanRoundTrip, IssuerInv, Counters
<1>6. "iss" \in DOMAIN p.val[<<>>] /\ p.val[<<>>]["iss"] = [str |-> id]
  BY <1>2, <1>4 DEF CredentialInv, Header
<1>7. Claim(p, "iss", "str") = id
  BY <1>6 DEF Claim
<1>8. pc' = "key_resolution" /\ issuer' = iopts.id
  BY <1>3, <1>4, <1>5, <1>7 DEF DecodeIssuerJWT, Check, HasIssuer
<1>9. pc \in {"parse"} \cup BeforeWalk /\ pc' \in BeforeWalk /\ pc' # "signature"
  BY <1>1, <1>8 DEF BeforeWalk
<1>10. PICK u : u = t /\ Authentic(u) /\ t' = u
  BY <1>1, <1>2
<1> QED
  BY <1>1, <1>8, <1>9, <1>10, EarlyTrip

(* The resolver has the key, and the signature is that of the key.         *)
LEMMA KeyTrip ==
  ASSUME CanRoundTrip, IssuerInv, TripInv, ResolveIssuerKey \/ VerifySignature,
         UNCHANGED <<issueVars, holderVars>>
  PROVE  TripInv'
<1>1. /\ pc \in {"key_resolution", "signature"} /\ UNCHANGED <<visited, disclosed, t, issuer>>
  BY DEF ResolveIssuerKey, KeyResolved, VerifySignature, Check, parseVars, keyVars, walkVars, discVars
<1>2. PICK u : u = t /\ Authentic(u) /\ t' = u
  BY <1>1 DEF TripInv, InTransfer, BeforeWalk
<1>3. issuer' = iopts.id /\ issuer = iopts.id
  BY <1>1 DEF TripInv, Known, BeforeWalk
<1>4. PICK s, x : s = iopts.signer /\ u.IssuerJWT = signJWT(s, x)
  BY <1>2 DEF Authentic
<1>5. s.key # Nil /\ Fits(s) /\ ResolveKey(iopts.id, s.kid) = {s.key}
  BY <1>4 DEF CanRoundTrip, IssuerInv, Counters, Fits
<1>6. CASE ResolveIssuerKey
  <2>1. u.IssuerJWT.jwt.header.kid = s.kid
    BY <1>4 DEF signJWT
  <2>2. PICK k \in ResolveKey(issuer, t.IssuerJWT.jwt.header.kid) : KeyResolved(k)
    BY <1>6 DEF ResolveIssuerKey
  <2>3. k = s.key
    BY <1>2, <1>3, <1>5, <2>1, <2>2
  <2>4. pc' = "signature" /\ pubKey' = iopts.signer.key
    BY <1>4, <1>5, <2>2, <2>3 DEF KeyResolved, Check
  <2>5. pc \in {"parse"} \cup BeforeWalk /\ pc' \in BeforeWalk
    BY <1>1, <2>4 DEF BeforeWalk
  <2> QED
    BY <1>1, <1>2, <1>3, <2>4, <2>5, EarlyTrip
<1>7. CASE VerifySignature
  <2>1. pc = "signature" /\ pubKey = s.key
    BY <1>4, <1>7 DEF VerifySignature, Check, TripInv, Known
  <2>2. verifyJWTSignature(t.IssuerJWT, pubKey)
    BY <1>2, <1>4, <1>5, <2>1, FitsAny
  <2>3. pc' = "exp"
    BY <1>7, <2>2 DEF VerifySignature, Check
  <2>4. pc \in {"parse"} \cup BeforeWalk /\ pc' \in BeforeWalk /\ pc' # "signature"
    BY <1>1, <2>3 DEF BeforeWalk
  <2> QED
    BY <1>1, <1>2, <1>3, <2>3, <2>4, EarlyTrip
<1> QED
  BY <1>6, <1>7

(* Seconds rounds down, by less than a second.                             *)
LEMMA RoundsDown ==
  ASSUME NEW n \in Int
  PROVE  /\ Seconds(n) \in Int /\ Unix(Seconds(n)) \in Int
         /\ Unix(Seconds(n)) <= n /\ n < Unix(Seconds(n)) + TicksPerSecond
<1>1. PICK m \in Nat \ {0} : m = TicksPerSecond
  BY ClockAssumption
<1>2. PICK q \in Int : q = n \div m
  BY <1>1
<1>3. n = m * q + (n % m) /\ n % m \in 0 .. m - 1
  BY <1>1, <1>2
<1>4. q * m = m * q /\ q * m \in Int
  BY <1>1, <1>2
<1> QED
  BY <1>1, <1>2, <1>3, <1>4 DEF Seconds, Unix

(* When Verify finds a credential out of time, it is.                      *)
LEMMA TimesRead ==
  ASSUME CanRoundTrip, IssuerInv, CredentialInv, ipc = "issued", opts \in VerifierOptions
  PROVE  \E iat, nbf, exp, skew, end :
           /\ tree.val[<<>>]["iat"].num = iat /\ Claim(tree, "nbf", "num") = nbf
           /\ Claim(tree, "exp", "num") = exp /\ opts.clockSkew = skew /\ skew \in Nat
           /\ end = (IF req.expiresAt = Nil THEN Unix(iat) + iopts.tokenTTL ELSE req.expiresAt)
           /\ Unix(iat) \in Int /\ Unix(nbf) \in Int /\ Unix(exp) \in Int /\ end \in Int
           /\ Unix(iat) <= clock /\ Unix(exp) > end - TicksPerSecond
           /\ \/ req.notBefore = Nil /\ nbf = iat
              \/ req.notBefore # Nil /\ req.notBefore \in Int /\ Unix(nbf) <= req.notBefore
<1>1. PICK at \in 0 .. clock : Dated(tree, at)
  BY DEF CredentialInv, Header
<1>2. /\ req \in Requests /\ iopts \in IssuerOptions /\ clock \in Nat /\ at \in Int /\ at <= clock
  BY Finished DEF IssuerInv, Counters
<1>3. /\ req.notBefore \in Int \cup {Nil} /\ req.expiresAt \in Int \cup {Nil}
      /\ iopts.tokenTTL \in Int /\ opts.clockSkew \in Nat
  BY <1>2 DEF CanRoundTrip, Timed
<1>4. PICK b, e : b = Begins(at) /\ e = Ends(at)
  OBVIOUS
<1>5. b \in Int /\ e \in Int
  BY <1>2, <1>3, <1>4 DEF Begins, Ends
<1>6. PICK iat, nbf, exp : iat = Seconds(at) /\ nbf = Seconds(b) /\ exp = Seconds(e)
  OBVIOUS
<1>7. PICK root : root = tree.val[<<>>]
  OBVIOUS
<1>8. /\ {"iat", "nbf", "exp"} \subseteq DOMAIN root /\ root["iat"] = [num |-> iat]
      /\ root["nbf"] = [num |-> nbf] /\ root["exp"] = [num |-> exp]
  BY <1>1, <1>4, <1>6, <1>7 DEF Dated
<1>9. /\ tree.val[<<>>]["iat"].num = iat
      /\ Claim(tree, "nbf", "num") = nbf /\ Claim(tree, "exp", "num") = exp
  BY <1>7, <1>8 DEF Claim
<1>10. /\ Unix(iat) \in Int /\ Unix(iat) <= at
       /\ Unix(nbf) \in Int /\ Unix(nbf) <= b
       /\ Unix(exp) \in Int /\ e < Unix(exp) + TicksPerSecond
  BY <1>2, <1>5, <1>6, RoundsDown
<1>11. PICK end : end = (IF req.expiresAt = Nil THEN Unix(iat) + iopts.tokenTTL ELSE req.expiresAt)
  OBVIOUS
<1>12. end \in Int /\ end <= e
  BY <1>2, <1>3, <1>4, <1>10, <1>11 DEF Ends
<1>13. Unix(exp) > end - TicksPerSecond /\ Unix(iat) <= clock
  BY <1>2, <1>5, <1>10, <1>12, ClockAssumption
<1>14. \/ req.notBefore = Nil /\ nbf = iat
       \/ req.notBefore # Nil /\ req.notBefore \in Int /\ Unix(nbf) <= req.notBefore
  BY <1>3, <1>4, <1>6, <1>10 DEF Begins
<1> QED
  BY <1>3, <1>9, <1>10, <1>11, <1>12, <1>13, <1>14

(* Time may speak against the credential, and then truly.                  *)
LEMMA TimeTrip ==
  ASSUME CanRoundTrip, IssuerInv, CredentialInv, RevealInv, TripInv, opts \in VerifierOptions,
         CheckExp \/ CheckNbf, UNCHANGED <<issueVars, holderVars>>
  PROVE  TripInv'
<1>1. /\ pc \in {"exp", "nbf"} /\ UNCHANGED <<visited, disclosed, t, issuer, opts, iopts, req, tree>>
  BY DEF CheckExp, CheckNbf, Check, parseVars, keyVars, walkVars, discVars, issueVars, callVars
<1>2. /\ ipc = "issued" /\ payload = tree
  BY <1>1 DEF RevealInv, Reading, BeforeWalk
<1>3. PICK iat, nbf, exp, skew, end :
        /\ tree.val[<<>>]["iat"].num = iat /\ Claim(tree, "nbf", "num") = nbf
        /\ Claim(tree, "exp", "num") = exp /\ opts.clockSkew = skew /\ skew \in Nat
        /\ end = (IF req.expiresAt = Nil THEN Unix(iat) + iopts.tokenTTL ELSE req.expiresAt)
        /\ Unix(iat) \in Int /\ Unix(nbf) \in Int /\ Unix(exp) \in Int /\ end \in Int
        /\ Unix(iat) <= clock /\ Unix(exp) > end - TicksPerSecond
        /\ \/ req.notBefore = Nil /\ nbf = iat
           \/ req.notBefore # Nil /\ req.notBefore \in Int /\ Unix(nbf) <= req.notBefore
  BY <1>2, TimesRead
<1>4. clock \in Nat /\ TicksPerSecond \in Nat
  BY ClockAssumption DEF IssuerInv, Counters
<1>5. PICK u : u = t /\ Authentic(u) /\ t' = u
  BY <1>1 DEF TripInv, InTransfer, BeforeWalk
<1>6. issuer' = iopts.id
  BY <1>1 DEF TripInv, Known, BeforeWalk
<1>7. CASE CheckExp
  <2>1. pc = "exp" /\ now' = clock
    BY <1>7 DEF CheckExp, Check
  <2>2. CASE NotExpired(payload, clock)
    <3>1. pc' = "nbf"
      BY <1>7, <2>2 DEF CheckExp, Check
    <3>2. now' \in Nat /\ now' >= Unix(tree.val[<<>>]["iat"].num)
      BY <1>3, <1>4, <2>1
    <3>3. pc \in {"parse"} \cup BeforeWalk /\ pc' \in BeforeWalk /\ pc' # "signature"
      BY <2>1, <3>1 DEF BeforeWalk
    <3> QED
      BY <1>1, <1>5, <1>6, <3>2, <3>3, EarlyTrip
  <2>3. CASE ~NotExpired(payload, clock)
    <3>1. pc' = "rejected" /\ outcome'.stage = "exp"
      BY <1>7, <2>3 DEF CheckExp, Check, RejectAt
    <3>2. ~(clock <= Unix(exp) + skew)
      BY <1>2, <1>3, <2>3 DEF NotExpired
    <3>3. now' > end - TicksPerSecond + skew
      BY <1>3, <1>4, <2>1, <3>2
    <3>4. OutOfTime'
      BY <1>1, <1>3, <3>1, <3>3 DEF OutOfTime
    <3> QED
      BY <3>1, <3>4, RejectedTrip DEF Reason
  <2> QED
    BY <2>2, <2>3
<1>8. CASE CheckNbf
  <2>1. pc = "nbf" /\ now' = now
    BY <1>8 DEF CheckNbf, Check, keyVars
  <2>2. now \in Nat /\ now >= Unix(iat)
    BY <1>3, <2>1 DEF TripInv, Known
  <2>3. CASE AlreadyValid(payload, now)
    <3>1. pc' = "sd_alg"
      BY <1>8, <2>3 DEF CheckNbf, Check
    <3>2. pc \in {"parse"} \cup BeforeWalk /\ pc' \in BeforeWalk /\ pc' \notin {"signature", "nbf"}
      BY <2>1, <3>1 DEF BeforeWalk
    <3> QED
      BY <1>1, <1>5, <1>6, <3>2, EarlyTrip
  <2>4. CASE ~AlreadyValid(payload, now)
    <3>1. pc' = "rejected" /\ outcome'.stage = "nbf"
      BY <1>8, <2>4 DEF CheckNbf, Check, RejectAt
    <3>2. ~(now >= Unix(nbf) - skew)
      BY <1>2, <1>3, <2>4 DEF AlreadyValid
    <3>3. req.notBefore # Nil /\ now < req.notBefore - skew
      BY <1>3, <2>2, <3>2
    <3>4. OutOfTime'
      BY <1>1, <1>3, <2>1, <3>1, <3>3 DEF OutOfTime
    <3> QED
      BY <3>1, <3>4, RejectedTrip DEF Reason
  <2> QED
    BY <2>3, <2>4
<1> QED
  BY <1>7, <1>8

(* The algorithm is known, and the walk begins.                            *)
LEMMA SdAlgTrip ==
  ASSUME CanRoundTrip, IssuerInv, CredentialInv, RevealInv, TripInv, ResolveSdAlg,
         UNCHANGED <<issueVars, holderVars>>
  PROVE  TripInv'
<1>1. pc = "sd_alg" /\ UNCHANGED <<t, payload, next, disclosed>> /\ UNCHANGED <<iopts, tree, req>>
  BY DEF ResolveSdAlg, Check, parseVars, discVars, issueVars, callVars
<1>2. /\ ipc = "issued" /\ Genuine(t) /\ Authentic(t) /\ payload = tree
      /\ visited = {} /\ disclosed = <<>>
  BY <1>1 DEF RevealInv, Reading, BeforeWalk, TripInv, InTransfer, Walk
<1>3. hashAlg # Nil
  BY <1>2, AlgRead
<1>4. pc' = "disclosure_collect" /\ Enter(<<>>)
  BY <1>3 DEF ResolveSdAlg, Check
<1>5. Ahead'
  BY <1>1, <1>2, <1>4, WalkStarts
<1>6. (\A o \in visited : ToSet(tree.sd[o]) \subseteq DOMAIN digestMap)'
  BY <1>1, <1>2, <1>4, EnterDigests
<1>7. Walk'
  BY <1>4, <1>5, <1>6 DEF Walk, BeforeWalk
<1>8. HasCnf(payload)' /\ HasVct(payload)'
  <2>1. HasCnf(tree) /\ HasVct(tree)
    BY <1>2 DEF CredentialInv, Header
  <2> QED
    BY <1>1, <1>2, <2>1 DEF HasCnf, HasVct
<1>9. Known' /\ Reason'
  <2>1. DOMAIN disclosed' = {}
    BY <1>1, <1>2
  <2> QED
    BY <1>4, <1>8, <2>1 DEF Known, Reason, BeforeWalk
<1>10. Authentic(t)'
  BY <1>1, <1>2 DEF Authentic, Bound
<1> QED
  BY <1>7, <1>9, <1>10, CallTrip

(* The walk goes on and comes back.                                        *)
LEMMA WalkTrip ==
  ASSUME CanRoundTrip, IssuerInv, CredentialInv, RevealInv, TripInv, CollectNested \/ CollectReturn,
         UNCHANGED <<issueVars, holderVars>>
  PROVE  TripInv'
<1>1. /\ pc = "disclosure_collect" /\ UNCHANGED <<t, payload, next, disclosed>>
      /\ UNCHANGED <<iopts, tree, req>>
  BY DEF CollectNested, CollectReturn, parseVars, discVars, issueVars, callVars
<1>2. /\ ipc = "issued" /\ Authentic(t) /\ payload = tree /\ Ahead
      /\ \A o \in visited : ToSet(tree.sd[o]) \subseteq DOMAIN digestMap
      /\ HasCnf(payload) /\ HasVct(payload)
      /\ \A k \in DOMAIN disclosed : \E i \in 1 .. next - 1 : k = ParseDisclosure(t.Disclosures[i]).Key
  BY <1>1 DEF RevealInv, Reading, FromWalk, TripInv, InTransfer, Walk, Known
<1>3. /\ HasCnf(payload)' /\ HasVct(payload)' /\ Authentic(t)'
      /\ (\A k \in DOMAIN disclosed : \E i \in 1 .. next - 1 : k = ParseDisclosure(t.Disclosures[i]).Key)'
  BY <1>1, <1>2 DEF HasCnf, HasVct, Authentic, Bound
<1>4. ASSUME pc' \in {"disclosure_collect", "disclosure"} PROVE Known' /\ Reason'
  BY <1>3, <1>4 DEF Known, Reason, BeforeWalk
<1>5. CASE CollectNested
  <2>1. PICK o \in Children(payload, cur) \ visited :
          /\ Check("disclosure_collect", Len(o) <= maxVerifyDepth, "disclosure_collect",
                   "ErrNestingTooDeep")
          /\ \/ Len(o) <= maxVerifyDepth /\ Enter(o)
             \/ Len(o) > maxVerifyDepth /\ UNCHANGED walkVars
    BY <1>5 DEF CollectNested
  <2>2. o \in Objects(tree) /\ o # <<>> /\ o \in Children(tree, cur) \ visited
    BY <1>2, <2>1 DEF Children
  <2>3. Len(o) <= maxVerifyDepth
    BY <1>2, <2>2, WithinDepth
  <2>4. pc' = "disclosure_collect"
    BY <2>1, <2>3 DEF Check
  <2>5. Enter(o)
    <3>1. ~(Len(o) > maxVerifyDepth)
      <4>1. o \in Paths(req) /\ req \in Requests
        BY <1>2, <2>2, Finished DEF CredentialInv, Shallow, Working
      <4>2. Len(o) \in Nat /\ maxVerifyDepth \in Nat
        BY <4>1, RequestTree, LenProperties, VerifierAssumption DEF Path
      <4> QED
        BY <2>3, <4>2
    <3> QED
      BY <2>1, <3>1
  <2>6. Ahead'
    BY <1>1, <1>2, <2>2, <2>5, WalkEnters
  <2>7. (\A x \in visited : ToSet(tree.sd[x]) \subseteq DOMAIN digestMap)'
    BY <1>1, <1>2, <2>5, EnterDigests
  <2>8. Walk'
    BY <2>4, <2>6, <2>7 DEF Walk, BeforeWalk
  <2> QED
    BY <1>3, <1>4, <2>4, <2>8, CallTrip
<1>6. CASE CollectReturn
  <2>1. Children(tree, cur) \subseteq visited /\ UNCHANGED <<visited, digestMap>>
    BY <1>2, <1>6 DEF CollectReturn
  <2>2. (\A x \in visited : ToSet(tree.sd[x]) \subseteq DOMAIN digestMap)'
    BY <1>1, <1>2, <2>1
  <2>3. CASE cur # <<>> /\ cur' = Front(cur) /\ UNCHANGED pc
    <3>1. Ahead'
      BY <1>1, <1>2, <2>1, <2>3, WalkLeaves
    <3>2. Walk'
      BY <1>1, <2>2, <2>3, <3>1 DEF Walk, BeforeWalk
    <3> QED
      BY <1>1, <1>3, <1>4, <2>3, <3>2, CallTrip
  <2>4. CASE cur = <<>> /\ pc' = "disclosure"
    <3>1. Structured \subseteq visited
      BY <1>2, <2>1, <2>4, WalkEnds
    <3>2. (Structured \subseteq visited)'
      BY <1>1, <2>1, <3>1 DEF Structured
    <3>3. Walk'
      BY <2>2, <2>4, <3>2 DEF Walk, BeforeWalk
    <3> QED
      BY <1>3, <1>4, <2>4, <3>3, CallTrip
  <2> QED
    BY <1>6, <2>3, <2>4 DEF CollectReturn
<1> QED
  BY <1>5, <1>6

(* A disclosure is written over no registered claim.                       *)
LEMMA NameStays ==
  ASSUME Selectable, NEW r \in Requests, NEW q \in Processed(r), Selective(r, q),
         NEW p, IsTree(p), Front(q) \in Objects(p), <<>> \in Objects(p),
         NEW name \in RegisteredName, name \in DOMAIN p.val[<<>>],
         NEW v, NEW new, new = Put(p, Front(q), Last(q), v)
  PROVE  name \in DOMAIN new.val[<<>>] /\ new.val[<<>>][name] = p.val[<<>>][name]
<1>1. PICK o, k : o = Front(q) /\ k = Last(q)
  OBVIOUS
<1>2. /\ DOMAIN new.val[o] = DOMAIN p.val[o] \cup {k}
      /\ \A x \in DOMAIN p.val[o] : x # k => new.val[o][x] = p.val[o][x]
      /\ \A x \in Objects(p) : x # o => new.val[x] = p.val[x]
  BY <1>1, PutFacts
<1>3. CASE o = <<>>
  <2>1. k # name
    BY <1>1, <1>3 DEF Selectable
  <2> QED
    BY <1>2, <1>3, <2>1
<1>4. CASE o # <<>>
  BY <1>2, <1>4
<1> QED
  BY <1>3, <1>4

(* Each disclosure is found, and its name is new, or that of another one.  *)
LEMMA DisclosureTrip ==
  ASSUME Selectable, CanRoundTrip, IssuerInv, CredentialInv, RevealInv, TripInv, VerifyDisclosure,
         UNCHANGED <<issueVars, holderVars>>
  PROVE  TripInv'
<1>1. /\ pc = "disclosure" /\ next <= Len(t.Disclosures) /\ UNCHANGED <<t, cur, visited, digestMap>>
      /\ UNCHANGED <<iopts, tree, req>>
  BY DEF VerifyDisclosure, parseVars, walkVars, issueVars, callVars
<1>2. /\ ipc = "issued" /\ Genuine(t) /\ Authentic(t) /\ IsSequence(t.Disclosures) /\ Named
      /\ Listed /\ Merged /\ next \in 1 .. Len(t.Disclosures) + 1
  BY <1>1 DEF RevealInv, Reading, FromWalk, TripInv, InTransfer
<1>3. /\ \A o \in visited : ToSet(tree.sd[o]) \subseteq DOMAIN digestMap
      /\ Structured \subseteq visited
      /\ HasCnf(payload) /\ HasVct(payload)
      /\ \A k \in DOMAIN disclosed : \E i \in 1 .. next - 1 : k = ParseDisclosure(t.Disclosures[i]).Key
  BY <1>1 DEF FromWalk, TripInv, Walk, Known
<1>4. /\ DOMAIN t.Disclosures = 1 .. Len(t.Disclosures) /\ Len(t.Disclosures) \in Nat
      /\ next \in DOMAIN t.Disclosures /\ next \in Nat \ {0}
  <2>1. DOMAIN t.Disclosures = 1 .. Len(t.Disclosures) /\ Len(t.Disclosures) \in Nat
    BY <1>2 DEF IsSequence
  <2> QED
    BY <1>1, <1>2, <2>1
<1>5. PICK enc, d, h, o : /\ enc = t.Disclosures[next] /\ d = ParseDisclosure(enc) /\ h = hashAlg
                          /\ o = digestMap[Digest(h, enc)]
  OBVIOUS
<1>6. enc \in ToSet(discs) /\ DisclosureParses(enc)
  <2>1. enc \in ToSet(discs)
    BY <1>2, <1>4, <1>5 DEF Genuine, ToSet
  <2> QED
    BY <2>1 DEF CredentialInv, Encoded
<1>7. h = iopts.hashAlg /\ h # "decoy"
  BY <1>2, <1>5, AlgRead, NoDecoyAlg
<1>8. Digest(h, enc) \in DOMAIN digestMap
  BY <1>2, <1>3, <1>6, <1>7, DigestThere
<1>9. o \in Objects(tree) /\ Digest(h, enc) \in ToSet(tree.sd[o])
  BY <1>2, <1>5, <1>8 DEF Listed
<1>10. PICK q \in Processed(req) : Front(q) = o /\ d.Value.claim = q /\ d.Key = Last(q) /\ Last(q) # Nil
  BY <1>2, <1>5, <1>6, <1>7, <1>9, Home
<1>11. CASE d.Key \in DOMAIN disclosed
  <2>1. PICK i \in 1 .. next - 1 : d.Key = ParseDisclosure(t.Disclosures[i]).Key
    BY <1>3, <1>11
  <2>2. i \in DOMAIN t.Disclosures /\ i # next
    BY <1>4, <2>1
  <2>3. PICK x : x = t.Disclosures[i]
    OBVIOUS
  <2>4. x \in ToSet(t.Disclosures) /\ enc \in ToSet(t.Disclosures) /\ x \in ToSet(discs)
    BY <1>2, <1>4, <1>5, <2>2, <2>3 DEF Genuine, ToSet
  <2>5. x # enc
    BY <1>2, <1>4, <1>5, <2>2, <2>3 DEF Authentic
  <2>6. ParseDisclosure(x).Value.claim # ParseDisclosure(enc).Value.claim
    BY <1>2, <1>6, <2>4, <2>5, ClaimsDistinct
  <2>7. pc' = "rejected" /\ outcome'.stage = "disclosure_duplicate"
    BY <1>5, <1>6, <1>8, <1>10, <1>11 DEF VerifyDisclosure, RejectAt
  <2>8. NamesClash'
    BY <1>1, <1>5, <2>1, <2>3, <2>4, <2>6, <2>7 DEF NamesClash
  <2> QED
    BY <2>7, <2>8, RejectedTrip DEF Reason
<1>12. CASE d.Key \notin DOMAIN disclosed
  <2>1. /\ pc' = "disclosure" /\ next' = next + 1
         /\ payload' = Put(payload, Front(q), Last(q), d.Value)
         /\ disclosed' = Overlay(disclosed, [k \in {d.Key} |-> d.Value])
    BY <1>1, <1>5, <1>6, <1>8, <1>10, <1>12 DEF VerifyDisclosure, RejectAt, Put
  <2>2. HasCnf(payload)' /\ HasVct(payload)'
    <3>1. PICK r, p, new, v : r = req /\ p = payload /\ new = payload' /\ v = d.Value
      OBVIOUS
    <3>2. r \in Requests /\ <<>> \in Objects(p) /\ IsTree(p) /\ Front(q) \in Objects(p)
      BY <1>2, <1>9, <1>10, <3>1, Finished DEF Merged
    <3>3. Selective(r, q)
      <4>1. PICK i \in DOMAIN discs : enc = discs[i]
        BY <1>6 DEF ToSet
      <4>2. Of(i) = q
        BY <1>5, <1>10, <4>1 DEF Of, Opened
      <4> QED
        BY <1>2, <3>1, <4>1, <4>2, Finished DEF Safe, Disclosures
    <3>4. new = Put(p, Front(q), Last(q), v) /\ q \in Processed(r)
      BY <2>1, <3>1
    <3>5. ASSUME NEW name \in RegisteredName, name \in DOMAIN p.val[<<>>]
          PROVE  name \in DOMAIN new.val[<<>>] /\ new.val[<<>>][name] = p.val[<<>>][name]
      BY <3>2, <3>3, <3>4, <3>5, NameStays
    <3>6. "cnf" \in RegisteredName /\ "vct" \in RegisteredName
      BY DEF RegisteredName
    <3>7. HasVct(payload)'
      BY <1>1, <1>3, <3>1, <3>5, <3>6 DEF HasVct
    <3>8. HasCnf(payload)'
      BY <1>1, <1>3, <3>1, <3>5, <3>6 DEF HasCnf
    <3> QED
      BY <3>7, <3>8
  <2>3. (\A k \in DOMAIN disclosed : \E i \in 1 .. next - 1 : k = ParseDisclosure(t.Disclosures[i]).Key)'
    <3>1. DOMAIN disclosed' = DOMAIN disclosed \cup {d.Key}
      BY <2>1 DEF Overlay
    <3>2. 1 .. next - 1 \subseteq 1 .. next' - 1 /\ next \in 1 .. next' - 1
      BY <1>4, <2>1
    <3>3. \A k \in DOMAIN disclosed' : \E i \in 1 .. next' - 1 : k = ParseDisclosure(t.Disclosures[i]).Key
      BY <1>3, <1>5, <3>1, <3>2
    <3> QED
      BY <1>1, <3>3
  <2>4. Known' /\ Reason'
    BY <2>1, <2>2, <2>3 DEF Known, Reason, BeforeWalk
  <2>5. Walk'
    BY <1>1, <1>3, <2>1 DEF Walk, BeforeWalk, Structured
  <2>6. Authentic(t)'
    BY <1>1, <1>2 DEF Authentic, Bound
  <2> QED
    BY <2>4, <2>5, <2>6, CallTrip
<1> QED
  BY <1>11, <1>12

(* The holder's key is in the credential, as one that Verify takes.        *)
LEMMA HolderKeyRead ==
  ASSUME CanRoundTrip, \E c \in PresentChoices : c.KeyBinding, req \in Requests, HasCnf(payload)
  PROVE  hasCnf(payload) /\ cnfKey(payload) = HolderSigner.key /\ cnfKey(payload) # Nil
<1>1. PICK p, key : p = payload /\ key = HolderSigner.key
  OBVIOUS
<1>2. /\ Fits(HolderSigner) /\ (key.kty = "EC" => key.crv \in curveForName)
      /\ req.holderKey # Nil /\ req.holderKey = [type |-> "jwk", key |-> key]
  BY <1>1 DEF CanRoundTrip
<1>3. buildCnf(req.holderKey) = [jwk |-> key]
  BY <1>2 DEF buildCnf
<1>4. "cnf" \in DOMAIN p.val[<<>>] /\ p.val[<<>>]["cnf"] = [jwk |-> key]
  BY <1>1, <1>2, <1>3 DEF HasCnf
<1>5. key # Nil /\ key.kty \in {"EC", "RSA"}
  BY <1>1, <1>2 DEF Fits, verifyJWTSignature
<1>6. Claim(p, "cnf", "jwk") = key
  BY <1>4 DEF Claim
<1>7. cnfKey(p) = key
  BY <1>2, <1>5, <1>6 DEF cnfKey
<1>8. hasCnf(p)
  BY <1>4 DEF hasCnf
<1> QED
  BY <1>1, <1>5, <1>7, <1>8

(* The KB-JWT is the holder's; only what its session asks can fail, and    *)
(* sd_hash, if not all that was sent has arrived.                          *)
LEMMA KBJWTTrip ==
  ASSUME CanRoundTrip, IssuerInv, LifeInv, RevealInv, TripInv, VerifyKBJWT,
         UNCHANGED <<issueVars, holderVars>>
  PROVE  TripInv'
<1>1. UNCHANGED <<t, raw, nonce, opts, payload, walkVars, discVars>>
  BY DEF VerifyKBJWT, parseVars
<1>2. pc \in {"cnf", "kbjwt_decode", "kbjwt_key", "kbjwt_sig", "kbjwt_nonce", "kbjwt_aud", "kbjwt_sd_hash"}
  BY DEF VerifyKBJWT, Check
<1>3. HasKeyBinding(t) /\ t = Parse(raw)
  BY <1>2 DEF LifeInv, KBChecked, Delivered
<1>4. Authentic(t) /\ HasCnf(payload) /\ ipc = "issued"
  BY <1>2 DEF FromWalk, TripInv, InTransfer, Known, RevealInv, Reading
<1>5. Bound(t.KBJWT) /\ req \in Requests
  BY <1>3, <1>4, Finished DEF Authentic
<1>6. hasCnf(payload) /\ cnfKey(payload) = HolderSigner.key /\ cnfKey(payload) # Nil
  BY <1>4, <1>5, HolderKeyRead DEF Bound
<1>7. decodes(t.KBJWT) /\ verifyJWTSignature(t.KBJWT, cnfKey(payload))
  BY <1>5, <1>6 DEF Bound
<1>8. \/ pc' \in {"kbjwt_decode", "kbjwt_key", "kbjwt_sig", "kbjwt_nonce", "kbjwt_aud", "kbjwt_sd_hash", "vct"}
      \/ /\ pc' = "rejected"
         /\ \/ outcome'.stage = "kbjwt_nonce" /\ kbPayload.nonce # nonce
            \/ outcome'.stage = "kbjwt_aud" /\ opts.audience # Nil /\ opts.audience \notin kbPayload.aud
            \/ kbPayload.sd_hash # DigestSHA256(Prefix(t))
  BY <1>6, <1>7 DEF VerifyKBJWT, Check, RejectAt
<1>9. CASE pc' \in {"kbjwt_decode", "kbjwt_key", "kbjwt_sig", "kbjwt_nonce", "kbjwt_aud", "kbjwt_sd_hash", "vct"}
  <2>1. pc \in FromWalk \ {"disclosure_collect"} /\ pc' \in FromWalk \ {"disclosure_collect"}
    BY <1>2, <1>9 DEF FromWalk
  <2> QED
    BY <1>1, <2>1, LateTrip
<1>10. CASE /\ pc' = "rejected"
            /\ \/ outcome'.stage = "kbjwt_nonce" /\ kbPayload.nonce # nonce
               \/ outcome'.stage = "kbjwt_aud" /\ opts.audience # Nil /\ opts.audience \notin kbPayload.aud
               \/ kbPayload.sd_hash # DigestSHA256(Prefix(t))
  <2>1. KBReason'
    BY <1>1, <1>3, <1>10 DEF KBReason, kbPayload
  <2>2. Reason'
    BY <1>1, <1>3, <2>1 DEF Reason
  <2> QED
    BY <1>10, <2>2, RejectedTrip
<1> QED
  BY <1>8, <1>9, <1>10

(* The other steps after the walk.                                         *)
LEMMA LastTrip ==
  ASSUME LifeInv, TripInv, DisclosuresDone \/ RequireKBJWT \/ CheckVCT,
         UNCHANGED <<issueVars, holderVars>>
  PROVE  TripInv'
<1>1. /\ UNCHANGED <<t, raw, opts, payload, walkVars, discVars>> /\ pc \in {"disclosure", "kbjwt", "vct"}
      /\ \/ pc' \in {"kbjwt", "cnf", "vct", "accepted"}
         \/ /\ pc' = "rejected" /\ outcome'.stage = "kbjwt"
            /\ opts.requireKeyBinding /\ ~HasKeyBinding(t)
         \/ /\ pc' = "rejected" /\ outcome'.stage = "vct"
            /\ opts.expectedVCT # Nil /\ Claim(payload, "vct", "str") # opts.expectedVCT
  <2> USE DEF Check, RejectAt, parseVars
  <2>1. CASE DisclosuresDone
    BY <2>1 DEF DisclosuresDone
  <2>2. CASE RequireKBJWT
    BY <2>2 DEF RequireKBJWT
  <2>3. CASE CheckVCT
    BY <2>3 DEF CheckVCT
  <2> QED
    BY <2>1, <2>2, <2>3
<1>2. CASE pc' \in {"kbjwt", "cnf", "vct", "accepted"}
  <2>1. pc \in FromWalk \ {"disclosure_collect"} /\ pc' \in FromWalk \ {"disclosure_collect"}
    BY <1>1, <1>2 DEF FromWalk
  <2> QED
    BY <1>1, <2>1, LateTrip
<1>3. CASE /\ pc' = "rejected" /\ outcome'.stage = "kbjwt"
           /\ opts.requireKeyBinding /\ ~HasKeyBinding(t)
  <2>1. t = Parse(raw)
    BY <1>1 DEF LifeInv, Delivered
  <2>2. KBReason'
    BY <1>1, <1>3 DEF KBReason
  <2>3. Reason'
    BY <1>1, <2>1, <2>2 DEF Reason
  <2> QED
    BY <1>3, <2>3, RejectedTrip
<1>4. CASE /\ pc' = "rejected" /\ outcome'.stage = "vct"
           /\ opts.expectedVCT # Nil /\ Claim(payload, "vct", "str") # opts.expectedVCT
  <2>1. HasVct(payload)
    BY <1>1 DEF FromWalk, TripInv, Known
  <2>2. Claim(payload, "vct", "str") = req.vct
    <3>1. PICK p, v : p = payload /\ v = req.vct
      OBVIOUS
    <3>2. "vct" \in DOMAIN p.val[<<>>] /\ p.val[<<>>]["vct"] = [str |-> v]
      BY <2>1, <3>1 DEF HasVct
    <3> QED
      BY <3>1, <3>2 DEF Claim
  <2>3. req' = req
    BY DEF issueVars, callVars
  <2>4. OtherType'
    BY <1>1, <1>4, <2>2, <2>3 DEF OtherType
  <2> QED
    BY <1>4, <2>4, RejectedTrip DEF Reason
<1> QED
  BY <1>1, <1>2, <1>3, <1>4

(* A step of Verify.                                                       *)
LEMMA VerifyingTrip ==
  ASSUME NilIsNoSegment, Selectable, CanRoundTrip, IssuerInv, CredentialInv, LifeInv, RevealInv,
         TripInv, opts \in VerifierOptions, Verifying
  PROVE  TripInv'
<1>1. Step /\ UNCHANGED <<issueVars, holderVars>>
  BY DEF Verifying
<1>2. CASE ParseRaw
  BY <1>1, <1>2, ParseTrip
<1>3. CASE DecodeIssuerJWT
  BY <1>1, <1>3, DecodeTrip
<1>4. CASE ResolveIssuerKey \/ VerifySignature
  BY <1>1, <1>4, KeyTrip
<1>5. CASE CheckExp \/ CheckNbf
  BY <1>1, <1>5, TimeTrip
<1>6. CASE ResolveSdAlg
  BY <1>1, <1>6, SdAlgTrip
<1>7. CASE CollectNested \/ CollectReturn
  BY <1>1, <1>7, WalkTrip
<1>8. CASE VerifyDisclosure
  BY <1>1, <1>8, DisclosureTrip
<1>9. CASE VerifyKBJWT
  BY <1>1, <1>9, KBJWTTrip
<1>10. CASE DisclosuresDone \/ RequireKBJWT \/ CheckVCT
  BY <1>1, <1>10, LastTrip
<1>11. CASE Return
  <2>1. pc' = "idle" /\ visited' = {} /\ disclosed' = <<>>
    BY <1>11 DEF Return
  <2>2. Walk' /\ Known' /\ Reason' /\ pc' \notin BeforeWalk \cup FromWalk
    BY <2>1 DEF Walk, Known, Reason, BeforeWalk, FromWalk
  <2> QED
    BY <1>1, <2>2, CallTrip
<1> QED
  BY <1>1, <1>2, <1>3, <1>4, <1>5, <1>6, <1>7, <1>8, <1>9, <1>10, <1>11 DEF Step, OwnStep

(* The options are those of NewVerifier.                                   *)
LEMMA OptionsStay == LifeSpec => [](opts \in VerifierOptions)
<1>1. LifeInit => opts \in VerifierOptions
  BY DEF LifeInit, Init
<1>2. opts \in VerifierOptions /\ [LifeNext]_lifeVars => (opts \in VerifierOptions)'
  <2> SUFFICES ASSUME [LifeNext]_lifeVars PROVE opts' = opts
    OBVIOUS
  <2>1. CASE Store \/ Challenge \/ Time \/ Issuing \/ UNCHANGED lifeVars
    BY <2>1 DEF Store, Challenge, Time, Tick, Issuing, lifeVars, vars
  <2>2. CASE Deliver
    BY <2>2 DEF Deliver, Verify
  <2>3. CASE Verifying
    BY <2>3 DEF Verifying, Step, OwnStep, ParseRaw, DecodeIssuerJWT, ResolveIssuerKey, KeyResolved,
                VerifySignature, CheckExp, CheckNbf, ResolveSdAlg, CollectNested, CollectReturn,
                VerifyDisclosure, DisclosuresDone, RequireKBJWT, VerifyKBJWT, CheckVCT, Return
  <2>4. CASE \E c \in PresentChoices : PresentTo(c)
    BY <2>4 DEF PresentTo, vars
  <2> QED
    BY <2>1, <2>2, <2>3, <2>4 DEF LifeNext
<1> QED
  BY <1>1, <1>2, PTL DEF LifeSpec

-----------------------------------------------------------------------------
(* The invariant of the round trip holds throughout: each check of Verify  *)
(* that could fail for what the holder sent is one that Reason names.      *)
THEOREM TripInvariance ==
  ASSUME NilIsNoSegment, Selectable, CanRoundTrip
  PROVE  LifeSpec => []TripInv
<1>1. LifeInit => TripInv
  <2> SUFFICES ASSUME LifeInit PROVE TripInv
    OBVIOUS
  <2>1. wallet = Nil /\ presented = {} /\ pc = "idle" /\ visited = {} /\ disclosed = <<>>
    BY DEF LifeInit, Init
  <2> QED
    BY <2>1 DEF TripInv, InTransfer, Walk, Known, Reason, BeforeWalk, FromWalk
<1>2. /\ IssuerInv /\ CredentialInv /\ LifeInv /\ RevealInv /\ opts \in VerifierOptions /\ TripInv
      /\ [LifeNext]_lifeVars
      => TripInv'
  <2> SUFFICES ASSUME IssuerInv, CredentialInv, LifeInv, RevealInv, opts \in VerifierOptions, TripInv,
                      [LifeNext]_lifeVars
               PROVE  TripInv'
    OBVIOUS
  <2>1. CASE Store \/ Challenge \/ Time \/ UNCHANGED lifeVars
    BY <2>1, QuietTrip
  <2>2. CASE Issuing
    BY <2>2, IssuingTrip
  <2>3. CASE Deliver
    BY <2>3, DeliverTrip
  <2>4. CASE Verifying
    BY <2>4, VerifyingTrip
  <2>5. CASE \E c \in PresentChoices : PresentTo(c)
    BY <2>5, PresentTrip
  <2> QED
    BY <2>1, <2>2, <2>3, <2>4, <2>5 DEF LifeNext
<1>3. LifeSpec => []IssuerInv
  BY LifeImplementsIssuer, IssuerInvariance, PTL
<1>4. LifeSpec => []CredentialInv
  BY LifeImplementsIssuer, CredentialInvariance, PTL
<1>5. LifeSpec => []LifeInv
  BY LifeInvariance
<1>6. LifeSpec => []RevealInv
  BY RevealInvariance
<1>7. LifeSpec => [](opts \in VerifierOptions)
  BY OptionsStay
<1> QED
  BY <1>1, <1>2, <1>3, <1>4, <1>5, <1>6, <1>7, PTL DEF LifeSpec

(* The round trip: what the holder presented and what arrives as it was    *)
(* sent is rejected only where the reason that the error names is given:   *)
(* time, two claims of one name, or what this verifier and session ask.    *)
THEOREM PresentationAccepted ==
  ASSUME NilIsNoSegment, Selectable, CanRoundTrip
  PROVE  LifeSpec => []RoundTrip
<1>1. LifeInv /\ TripInv => RoundTrip
  <2> SUFFICES ASSUME LifeInv, TripInv, pc = "rejected", NEW p \in presented, p.raw = raw,
                      t = Parse(raw), KBReason
               PROVE  OtherSession(p)
    BY DEF RoundTrip, Answer, TripInv, Reason
  <2>1. PICK u, o : u = t /\ u = Parse(p.raw) /\ o = p.opts
    OBVIOUS
  <2>2. o.KeyBinding => HasKeyBinding(u)
    BY <2>1 DEF TripInv, InTransfer
  <2>3. CASE ~HasKeyBinding(t)
    BY <2>1, <2>2, <2>3 DEF KBReason, OtherSession
  <2>4. CASE HasKeyBinding(t)
    <3>1. o.KeyBinding
      BY <2>1, <2>4 DEF LifeInv, SentOK, Sent, HasKeyBinding
    <3>2. /\ kbPayload.nonce = o.Nonce /\ kbPayload.aud = {o.Audience}
          /\ kbPayload.sd_hash = DigestSHA256(Prefix(t))
      BY <2>1, <3>1 DEF LifeInv, SentOK, Sent, kbPayload
    <3> QED
      BY <2>1, <2>4, <3>2 DEF KBReason, OtherSession
  <2> QED
    BY <2>3, <2>4
<1>2. LifeSpec => []LifeInv
  BY LifeInvariance
<1>3. LifeSpec => []TripInv
  BY TripInvariance
<1> QED
  BY <1>1, <1>2, <1>3, PTL
=============================================================================
