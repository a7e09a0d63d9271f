-------------------------------- MODULE Issuer --------------------------------
(***************************************************************************)
(* Issuer.Issue (issuer.go): from a tree of claims to a signed token and   *)
(* its disclosures.                                                        *)
(*                                                                         *)
(* A request names its claims by their path of keys: kind[p] is what the   *)
(* claim at p is ("scalar", "array", "map", "structured", or "bad" for a   *)
(* value json.Marshal refuses), and sel[o] the SelectiveFields of the      *)
(* StructuredClaim at o, sel[<<>>] those of the request itself.  The value *)
(* of the claim at p is [claim |-> p].                                     *)
(*                                                                         *)
(* buildClaimsObject is a recursion over StructuredClaims; each step       *)
(* handles one claim, in any order the map iteration may choose.  Plain    *)
(* maps and arrays are not recursed into.  The tree built so far is a      *)
(* payload of SdJwt.tla; a StructuredClaim that is itself selective leaves *)
(* it and becomes the value of a disclosure.                               *)
(*                                                                         *)
(* Random values are drawn from a counter: never the same one twice.       *)
(***************************************************************************)
EXTENDS IssuerConfig, Clock

CONSTANTS
  Requests,        \* the IssueRequests callers pass
  IssuerOptions,   \* the issuers NewIssuer may build
  maxNestingDepth, \* 16 in issuer.go
  MaxIssues        \* bound on the number of calls

VARIABLES
  iopts,        \* i.opts, with the issuer's id and signer
  ipc,          \* "idle", "build", "claims", "sign", "issued", "failed"
  req,         \* the request
  tree,        \* the JWT payload under construction
  icur,         \* path of the claims object buildClaimsObject is working on
  handled,     \* claims whose turn in a range loop is over
  discs,       \* allDisclosures
  fresh,       \* random values drawn
  calls,       \* calls entered
  result       \* the Token, or the error

callVars == <<req, tree, icur, handled, discs>>
issueVars == <<iopts, ipc, callVars, fresh, calls, result>>
issuerVars == <<clock, issueVars>>

Empty == <<>>   \* the function with no argument: an empty Go map

-----------------------------------------------------------------------------
(* Request trees.                                                          *)

Paths(r) == DOMAIN r.kind
Members(r, o) == {p \in Paths(r) : Front(p) = o}
Below(p, S) == {q \in S : IsPrefix(p, q)}

(* Mutant: only the top-level SelectiveFields count.                       *)
SelectiveAtTop(r, p) == Len(p) = 1 /\ Last(p) \in r.sel[<<>>]

Selective(r, p) == Last(p) \in r.sel[Front(p)]
Unmarshalable(r, p) == \E q \in Below(p, Paths(r)) : r.kind[q] = "bad"

(* Claims nest, and every StructuredClaim, like the request itself, names  *)
(* its selective fields.                                                   *)
IsRequest(r) ==
  /\ Paths(r) \subseteq Seq(STRING) \ {<<>>}
  /\ \A p \in Paths(r) : \A n \in 1 .. Len(p) : SubSeq(p, 1, n) \in Paths(r)
  /\ DOMAIN r.sel = {<<>>} \cup {p \in Paths(r) : r.kind[p] = "structured"}
  /\ \A o \in DOMAIN r.sel : r.sel[o] \subseteq STRING

ASSUME IssuerAssumption ==
  /\ maxNestingDepth \in Nat
  /\ MaxIssues \in Nat
  /\ \A r \in Requests : IsRequest(r)
  /\ \A o \in IssuerOptions : o.decoyCount \in Nat   \* a negative count adds none, as 0

-----------------------------------------------------------------------------
(* Payload trees.                                                          *)

Put(tr, o, k, v) ==
  [tr EXCEPT !.val[o] = Overlay(@, [x \in {k} |-> v])]

(* Mutant: a nested object without its own _sd array.                      *)
GrowWithoutSd(tr, vals) == [tr EXCEPT !.val = Overlay(@, vals)]

Grow(tr, vals) ==
  [val |-> Overlay(tr.val, vals),
   sd  |-> Overlay(tr.sd, [o \in DOMAIN vals |-> <<>>])]

Only(tr, S) == [val |-> [o \in S |-> tr.val[o]], sd |-> [o \in S |-> tr.sd[o]]]

(* The JSON objects of the plain map at p.                                 *)
PlainObjects(r, p) ==
  [o \in {q \in Below(p, Paths(r)) : \A m \in Paths(r) :
            IsPrefix(p, m) /\ IsPrefix(m, q) => r.kind[m] = "map"} |->
     [k \in {Last(m) : m \in Members(r, o)} |->
        IF r.kind[Append(o, k)] = "map" THEN [obj |-> Append(o, k)]
                                        ELSE [claim |-> Append(o, k)]]]

(* Mutant: a nested clear claim lands at the top level.                    *)
PutAtTop(r, tr, p) == Put(tr, <<>>, Last(p), [claim |-> p])

(* obj[k] = v for a claim that is always disclosed.                        *)
PutClear(r, tr, p) ==
  IF r.kind[p] = "map"
  THEN Put(Grow(tr, PlainObjects(r, p)), Front(p), Last(p), [obj |-> p])
  ELSE Put(tr, Front(p), Last(p), [claim |-> p])

-----------------------------------------------------------------------------
Fail(err) ==
  /\ ipc' = "failed"
  /\ result' = [err |-> err]

IssuerTick == TimePasses /\ UNCHANGED issueVars

(* The checks Issue makes before any work, then the top-level call.        *)
Issue(r) ==
  /\ ipc = "idle" /\ calls < MaxIssues
  /\ calls' = calls + 1
  /\ req' = r
  /\ \/ r.vct = Nil /\ Fail("VCT is required") /\ UNCHANGED tree
     \/ /\ r.vct # Nil /\ SDAlgFromHash(iopts.hashAlg) = Nil
        /\ Fail("unsupported hash") /\ UNCHANGED tree
     \/ /\ r.vct # Nil /\ SDAlgFromHash(iopts.hashAlg) # Nil
        /\ \E f \in r.sel[<<>>] : <<f>> \notin Paths(r)
        /\ Fail("ErrSelectiveFieldNotFound") /\ UNCHANGED tree
     \/ /\ r.vct # Nil /\ SDAlgFromHash(iopts.hashAlg) # Nil
        /\ \A f \in r.sel[<<>>] : <<f>> \in Paths(r)
        /\ ipc' = "build" /\ UNCHANGED result
        /\ tree' = [val |-> [o \in {<<>>} |-> Empty], sd |-> [o \in {<<>>} |-> <<>>]]
  /\ UNCHANGED <<clock, iopts, icur, handled, discs, fresh>>

(* Mutant: all digests go to the top-level _sd array.                      *)
DiscloseAtTop(p, value, rest) ==
  LET enc == Encode(Disclosure(fresh, Last(p), value))
  IN  /\ discs' = Append(discs, enc)
      /\ tree' = [rest EXCEPT !.sd[<<>>] = Append(@, Digest(iopts.hashAlg, enc))]
      /\ fresh' = fresh + 1

(* NewDisclosure, Digest and the two appends for the claim at p; its       *)
(* digest goes to the _sd array of the object around it.                   *)
Disclose(p, value, rest) ==
  LET enc == Encode(Disclosure(fresh, Last(p), value))
  IN  /\ discs' = Append(discs, enc)
      /\ tree' = [rest EXCEPT !.sd[Front(p)] = Append(@, Digest(iopts.hashAlg, enc))]
      /\ fresh' = fresh + 1

(* A claim that is not a StructuredClaim.                                  *)
BuildClaim ==
  /\ ipc = "build"
  /\ \E p \in Members(req, icur) \ handled :
       /\ req.kind[p] # "structured"
       /\ handled' = handled \cup {p}
       /\ \/ /\ Selective(req, p) /\ ~Unmarshalable(req, p)
             /\ Disclose(p, [claim |-> p], tree)
             /\ UNCHANGED <<ipc, result>>
          \/ /\ Selective(req, p) /\ Unmarshalable(req, p)
             /\ Fail("encoding disclosure") /\ UNCHANGED <<tree, discs, fresh>>
          \/ /\ ~Selective(req, p)
             /\ tree' = PutClear(req, tree, p)
             /\ UNCHANGED <<ipc, discs, fresh, result>>
  /\ UNCHANGED <<clock, iopts, req, icur, calls>>

(* A StructuredClaim: the recursive call.                                  *)
BuildEnter ==
  /\ ipc = "build"
  /\ \E p \in Members(req, icur) \ handled :
       /\ req.kind[p] = "structured"
       /\ \/ /\ Len(p) > maxNestingDepth
             /\ Fail("ErrNestingTooDeep") /\ UNCHANGED <<tree, icur>>
          \/ /\ Len(p) <= maxNestingDepth
             /\ icur' = p
             /\ tree' = Grow(tree, [o \in {p} |-> Empty])
             /\ UNCHANGED <<ipc, result>>
  /\ UNCHANGED <<clock, iopts, req, handled, discs, fresh, calls>>

(* Its return: the nested object stays, or is disclosed as a whole.        *)
BuildReturn ==
  LET inner == Below(icur, Objects(tree))
      outer == Only(tree, Objects(tree) \ inner)
      clear == {c \in Below(icur, Paths(req)) :
                  Front(c) \in inner /\ Last(c) \in DOMAIN tree.val[Front(c)]}
  IN  /\ ipc = "build" /\ icur # <<>>
      /\ Members(req, icur) \subseteq handled
      /\ handled' = handled \cup {icur}
      /\ icur' = Front(icur)
      /\ \/ /\ Selective(req, icur) /\ \A c \in clear : ~Unmarshalable(req, c)
            /\ Disclose(icur, [claim |-> icur, nested |-> Only(tree, inner)], outer)
            /\ UNCHANGED <<ipc, result>>
         \/ /\ Selective(req, icur) /\ \E c \in clear : Unmarshalable(req, c)
            /\ Fail("encoding disclosure") /\ UNCHANGED <<tree, discs, fresh>>
         \/ /\ ~Selective(req, icur)
            /\ tree' = Put(tree, Front(icur), Last(icur), [obj |-> icur])
            /\ UNCHANGED <<ipc, discs, fresh, result>>
      /\ UNCHANGED <<clock, iopts, req, calls>>

(* The top-level call returns; decoys are added at the top level.          *)
AddDecoys ==
  /\ ipc = "build" /\ icur = <<>>
  /\ Members(req, icur) \subseteq handled
  /\ tree' = [tree EXCEPT !.sd[<<>>] =
                @ \o [i \in 1 .. iopts.decoyCount |-> <<"decoy", fresh + i - 1>>]]
  /\ fresh' = fresh + iopts.decoyCount
  /\ ipc' = "claims"
  /\ UNCHANGED <<clock, iopts, req, icur, handled, discs, calls, result>>

(* crypto/rand fails where a salt or a decoy is drawn.                     *)
RandomnessFails ==
  /\ ipc = "build"
  /\ \/ \E p \in Members(req, icur) \ handled : req.kind[p] # "structured" /\ Selective(req, p)
     \/ Members(req, icur) \subseteq handled /\ icur # <<>> /\ Selective(req, icur)
     \/ Members(req, icur) \subseteq handled /\ icur = <<>> /\ iopts.decoyCount > 0
  /\ Fail("generating salt")
  /\ UNCHANGED <<clock, iopts, callVars, fresh, calls>>

-----------------------------------------------------------------------------
(* Mutant: seconds are rounded up.                                         *)
SecondsUp(ticks) == (ticks + TicksPerSecond - 1) \div TicksPerSecond

(* time.Time.Unix().                                                       *)
Seconds(ticks) == ticks \div TicksPerSecond

(* buildCnf marshals the key with encoding/json.  A JWK type keeps its     *)
(* fields; the stdlib key structs have no kty; an Ed25519 key is a byte    *)
(* slice, hence a JSON string, and does not unmarshal into an object.      *)
cnfFails(hk) == hk # Nil /\ hk.type = "bytes"
buildCnf(hk) == IF hk.type = "jwk" THEN [jwk |-> hk.key] ELSE [jwk |-> Nil]

RegisteredClaims ==
  LET str(s) == [str |-> s]
      num(n) == [num |-> n]
      always == [iss |-> str(iopts.id), iat |-> num(Seconds(clock)),
                 nbf |-> num(Seconds(IF req.notBefore = Nil THEN clock ELSE req.notBefore)),
                 exp |-> num(Seconds(IF req.expiresAt = Nil THEN clock + iopts.tokenTTL
                                                            ELSE req.expiresAt)),
                 vct |-> str(req.vct), _sd_alg |-> str(SDAlgFromHash(iopts.hashAlg))]
      sub == [k \in {x \in {"sub"} : req.subject # Nil} |-> str(req.subject)]
      uri == [k \in {x \in {"vct#integrity"} : iopts.schemaURI # Nil} |-> str(iopts.schemaURI)]
      cnf == [k \in {x \in {"cnf"} : req.holderKey # Nil} |-> buildCnf(req.holderKey)]
  IN  Overlay(Overlay(always, sub), Overlay(uri, cnf))

(* The names Issue may set.                                                *)
RegisteredName ==
  {"iss", "iat", "nbf", "exp", "vct", "_sd_alg", "sub", "vct#integrity", "cnf"}

(* The registered claims replace members of the same name, and with them   *)
(* the objects below.                                                      *)
SetRegisteredClaims ==
  /\ ipc = "claims"
  /\ \/ cnfFails(req.holderKey) /\ Fail("building cnf claim") /\ UNCHANGED tree
     \/ /\ ~cnfFails(req.holderKey)
        /\ LET kept == {o \in Objects(tree) : o # <<>> => o[1] \notin DOMAIN RegisteredClaims}
               root == Overlay(tree.val[<<>>], RegisteredClaims)
           IN  tree' = [Only(tree, kept) EXCEPT !.val[<<>>] = root]
        /\ ipc' = "sign" /\ UNCHANGED result
  /\ UNCHANGED <<clock, iopts, req, icur, handled, discs, fresh, calls>>

(* The values that signJWT would have to marshal and cannot.               *)
Unsignable ==
  \E o \in Objects(tree), k \in UNION {DOMAIN tree.val[x] : x \in Objects(tree)} :
    /\ k \in DOMAIN tree.val[o] /\ "claim" \in DOMAIN tree.val[o][k]
    /\ Unmarshalable(req, tree.val[o][k].claim)

(* Mutant: the error of signJWT is dropped; its JWT is empty.              *)
SignWithoutError ==
  /\ ipc = "sign"
  /\ ipc' = "issued"
  /\ \/ /\ ~Unsignable /\ CanSign(iopts.signer)
        /\ result' = [token |-> Token(signJWT(iopts.signer, tree), discs, Nil)]
     \/ result' = [token |-> Token(Nil, discs, Nil)]
  /\ UNCHANGED <<clock, iopts, callVars, fresh, calls>>

Sign ==
  /\ ipc = "sign"
  /\ \/ /\ ~Unsignable /\ CanSign(iopts.signer)
        /\ ipc' = "issued"
        /\ result' = [token |-> Token(signJWT(iopts.signer, tree), discs, Nil)]
     \/ Fail("signing issuer JWT")   \* the Signer may always fail
  /\ UNCHANGED <<clock, iopts, callVars, fresh, calls>>

(* The caller has the token or the error.                                  *)
ReturnIssued ==
  /\ ipc \in {"issued", "failed"}
  /\ ipc' = "idle" /\ req' = Nil /\ tree' = Nil /\ icur' = <<>> /\ handled' = {}
  /\ discs' = <<>> /\ result' = Nil
  /\ UNCHANGED <<clock, iopts, fresh, calls>>

-----------------------------------------------------------------------------
IssuerInit ==
  /\ clock = 0 /\ iopts \in IssuerOptions /\ ipc = "idle" /\ req = Nil /\ tree = Nil
  /\ icur = <<>> /\ handled = {} /\ discs = <<>> /\ fresh = 0 /\ calls = 0
  /\ result = Nil

IssuerStep ==
  \/ BuildClaim \/ BuildEnter \/ BuildReturn \/ AddDecoys \/ RandomnessFails
  \/ SetRegisteredClaims \/ Sign \/ ReturnIssued

IssuerNext == IssuerTick \/ IssuerStep \/ \E r \in Requests : Issue(r)

IssuerSpec == IssuerInit /\ [][IssuerNext]_issuerVars

-----------------------------------------------------------------------------
(* Properties.                                                             *)

(* The claims buildClaimsObject gets to see: those with nothing but        *)
(* StructuredClaims above them.                                            *)
Processed(r) ==
  {p \in Paths(r) : \A q \in Paths(r) : IsStrictPrefix(q, p) => r.kind[q] = "structured"}

(* Where digests and claims of the issued credential live: the payload (0) *)
(* and the nested object inside disclosure i.                              *)
Opened(i) == ParseDisclosure(discs[i])
Carriers == {0} \cup {i \in DOMAIN discs : "nested" \in DOMAIN Opened(i).Value}
Carried(n) == IF n = 0 THEN tree ELSE Opened(n).Value.nested

Slots ==
  UNION {UNION {{<<n, o, j>> : j \in DOMAIN Carried(n).sd[o]} : o \in Objects(Carried(n))} :
           n \in Carriers}

SlotsOf(i) == {s \in Slots : Carried(s[1]).sd[s[2]][s[3]] = Digest(iopts.hashAlg, discs[i])}

(* Claims in the clear at or below a top-level name that a registered      *)
(* claim takes over, and what is committed to there.                       *)
Lost(p) ==
  /\ p[1] \in DOMAIN RegisteredClaims
  /\ \A q \in Paths(req) : IsStrictPrefix(q, p) => ~Selective(req, q)

(* The path of the running recursion is in the tree; counters are bounded. *)
IssuerTypeOK ==
  /\ clock \in 0 .. MaxTime
  /\ iopts \in IssuerOptions
  /\ ipc \in {"idle", "build", "claims", "sign", "issued", "failed"}
  /\ calls \in 0 .. MaxIssues
  /\ fresh \in Nat
  /\ ipc \in {"build", "claims", "sign", "issued"} =>
       /\ icur \in Objects(tree)
       /\ DOMAIN tree.sd = Objects(tree)
       /\ handled \subseteq Paths(req)
  /\ ipc \in {"claims", "sign", "issued"} => icur = <<>>

(* Issue commits to every selectively disclosable claim once: it has one   *)
(* disclosure, whose digest sits in one _sd array only, that of the object *)
(* the claim belongs to, and every other digest is a decoy.  Only a claim  *)
(* inside an object whose name a registered claim takes over has a         *)
(* disclosure and no digest.                                               *)
CommitsOnce ==
  ipc = "issued" =>
    LET orphans == {p \in Processed(req) : Selective(req, p) /\ Len(p) > 1 /\ Lost(p)}
    IN  /\ \A p \in Processed(req) : Selective(req, p) =>
             \E i \in DOMAIN discs :
               /\ {j \in DOMAIN discs : Opened(j).Value.claim = p} = {i}
               /\ \/ p \in orphans /\ SlotsOf(i) = {}
                  \/ p \notin orphans /\ \E s \in Slots : SlotsOf(i) = {s} /\ s[2] = Front(p)
        /\ Cardinality(Slots) = Len(discs) - Cardinality(orphans) + iopts.decoyCount

(* Issue duplicates no claim, and loses only those that a registered claim *)
(* replaces, which the documentation does not say (AlwaysDisclosed): any   *)
(* other claim that is always disclosed is in its object, in the payload   *)
(* or in the one disclosure that carries the object; a selective claim is  *)
(* in none; no claim stands in for a registered one.                       *)
ClaimsPreserved ==
  ipc = "issued" =>
    \A p \in Processed(req) :
      Cardinality({n \in Carriers :
                     /\ Front(p) \in Objects(Carried(n))
                     /\ Last(p) \in DOMAIN Carried(n).val[Front(p)]
                     /\ Carried(n).val[Front(p)][Last(p)] \in {[claim |-> p], [obj |-> p]}})
        = IF Selective(req, p) \/ Lost(p) THEN 0 ELSE 1

(* No field named in a SelectiveFields list can be read from the issuer    *)
(* JWT: neither itself nor inside a value that contains it.                *)
SelectiveHidden ==
  ipc = "issued" =>
    \A o \in DOMAIN req.sel, x \in Objects(tree) : \A f \in req.sel[o], k \in DOMAIN tree.val[x] :
      "claim" \in DOMAIN tree.val[x][k] => ~IsPrefix(tree.val[x][k].claim, Append(o, f))

(* README.md says of claims that are not selective that they are always    *)
(* visible to any verifier, issuer.go of a StructuredClaim that it is      *)
(* always present in the JWT: a claim with no selective one at or above it *)
(* is in the payload, at its place.                                        *)
AlwaysDisclosed ==
  ipc = "issued" =>
    \A p \in Processed(req) :
      (\A q \in Paths(req) : IsPrefix(q, p) => ~Selective(req, q)) =>
        /\ Front(p) \in Objects(tree)
        /\ Last(p) \in DOMAIN tree.val[Front(p)]
        /\ tree.val[Front(p)][Last(p)] \in {[claim |-> p], [obj |-> p]}

(* All or nothing, whichever of the many steps of Issue fails: a call that *)
(* fails returns no token, and a token that is returned is whole.  It has  *)
(* a signed JWT for the payload and a disclosure of every selective claim, *)
(* and nothing that had to be refused went into it: no StructuredClaim too *)
(* deep, no value that json.Marshal refuses but one that a registered      *)
(* claim has replaced.                                                     *)
IssuesAllOrNothing ==
  /\ ipc = "failed" => "token" \notin DOMAIN result
  /\ ipc = "issued" =>
       /\ decodes(result.token.IssuerJWT) /\ result.token.IssuerJWT.jwt.payload = tree
       /\ {ParseDisclosure(d).Value.claim : d \in ToSet(result.token.Disclosures)}
            = {p \in Processed(req) : Selective(req, p)}
       /\ \A p \in Processed(req) :
            /\ req.kind[p] = "structured" => Len(p) <= maxNestingDepth
            /\ Unmarshalable(req, p) => ~Selective(req, p) /\ Lost(p)
=============================================================================
