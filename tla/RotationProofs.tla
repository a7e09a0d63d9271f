---------------------------- MODULE RotationProofs ----------------------------
(***************************************************************************)
(* Proofs about Rotation, for every number of goroutines and issuers and   *)
(* every sequence of documents: what Verify is told by an HTTPKeyResolver  *)
(* is what some recent document of the issuer says, and a Verifier on top  *)
(* of one is a Verifier in the sense of Verifier.tla.                      *)
(***************************************************************************)
EXTENDS Rotation, HTTPKeyResolverProofs, WellFoundedInduction

(* The stages after the signature check, and the refusals before its end.  *)
AfterSignature ==
  (V!Stages \cup {"accepted"}) \ {"parse", "issuer_jwt_decode", "key_resolution", "signature"}

RefusedAt(stage) == pc = "rejected" /\ outcome.stage = stage

kid == t.IssuerJWT.jwt.header.kid

(* Issuers publish documents of their own.                                 *)
OwnDocuments ==
  \A i \in Issuers : \A n \in DOMAIN published[i] :
    published[i][n].set \in Documents[i] \cup {FirstDocument[i]}

(* The call is about a presentation of an issuer.                          *)
Presented ==
  /\ pc # "idle" => raw \in Presentations
  /\ pc \notin {"idle", "parse", "rejected"} => Parses(raw) /\ t = Parse(raw)
  /\ \/ pc \in AfterSignature \cup {"key_resolution", "signature"}
     \/ RefusedAt("key_resolution") \/ RefusedAt("signature")
     => issuer \in Issuers

(* Verify is in ResolveKey for that issuer, or not at all.                 *)
Asking ==
  at[Self] # "idle" => pc = "key_resolution" /\ arg[Self].issuer = issuer /\ arg[Self].keyID = kid

(* The answer it got.                                                      *)
Resolved ==
  pc \in AfterSignature \cup {"signature"} \/ RefusedAt("signature") =>
    \E n \in told.recent :
      /\ n \in DOMAIN published[issuer]
      /\ KeyFor(published[issuer][n].set, kid) = [key |-> pubKey]

NotResolved ==
  RefusedAt("key_resolution") =>
    \/ told.failed
    \/ \E n \in told.recent :
         /\ n \in DOMAIN published[issuer]
         /\ "key" \notin DOMAIN KeyFor(published[issuer][n].set, kid)

(* What the signature check found.                                         *)
SignedBy ==
  /\ pc \in AfterSignature => pubKey = SigningKey
  /\ RefusedAt("signature") => ~verifyJWTSignature(t.IssuerJWT, pubKey)

VerifyInv == Presented /\ Asking /\ Resolved /\ NotResolved /\ SignedBy

RotationInv == HTTPKeyInv /\ OwnDocuments /\ VerifyInv

-----------------------------------------------------------------------------
(* The key of a lookup stands in the document.                             *)
LEMMA LeastIndex ==
  ASSUME NEW S \in SUBSET Nat, S # {}
  PROVE  Min(S) \in S
<1> DEFINE R == {p \in Nat \X Nat : p[1] < p[2]}
<1>1. IsWellFoundedOn(R, Nat)
  BY NatLessThanWellFounded DEF OpToRel
<1>2. \A x, y \in Nat : <<x, y>> \notin R => y <= x
  OBVIOUS
<1> HIDE DEF R
<1>3. PICK x \in S : \A y \in S : ~(<<y, x>> \in R)
  BY <1>1, WFMin
<1>4. \A y \in S : x <= y
  BY <1>2, <1>3
<1> QED
  BY <1>4 DEF Min

(* LookupKeyID finds a key of the set, with a key that is not Nil.         *)
LEMMA KeyForMember ==
  ASSUME NEW d, d \in Seq(ToSet(d)), NEW k
  PROVE  "key" \in DOMAIN KeyFor(d, k) =>
           \E jwk \in ToSet(d) : jwk.key # Nil /\ KeyFor(d, k) = [key |-> jwk.key]
<1> DEFINE S == {i \in 1 .. Len(d) : d[i].kid = k}
           first == IF S # {} THEN Min(S) ELSE 0
<1>1. KeyFor(d, k) = IF k # Nil
                     THEN IF first # 0 THEN extractPublicKey(d[first]) ELSE [err |-> "not found"]
                     ELSE IF Len(d) = 1 THEN extractPublicKey(d[1]) ELSE [err |-> "no kid"]
  BY DEF KeyFor, SelectInSeq
<1>2. \A i \in 1 .. Len(d) : d[i] \in ToSet(d)
  OBVIOUS
<1>3. first # 0 => first \in 1 .. Len(d)
  <2>1. S \in SUBSET Nat
    OBVIOUS
  <2> QED
    BY <2>1, LeastIndex
<1>4. ASSUME NEW jwk, "key" \in DOMAIN extractPublicKey(jwk)
      PROVE  jwk.key # Nil /\ extractPublicKey(jwk) = [key |-> jwk.key]
  <2>1. "key" \notin DOMAIN [err |-> "no public key"]
    OBVIOUS
  <2> QED
    BY <1>4, <2>1, Zenon DEF extractPublicKey
<1> HIDE DEF first
<1>5. CASE k # Nil /\ first # 0
  BY <1>1, <1>2, <1>3, <1>4, <1>5
<1>6. CASE k = Nil /\ Len(d) = 1
  BY <1>1, <1>2, <1>4, <1>6
<1>7. CASE ~(k # Nil /\ first # 0) /\ ~(k = Nil /\ Len(d) = 1)
  <2>1. KeyFor(d, k) = [err |-> "not found"] \/ KeyFor(d, k) = [err |-> "no kid"]
    BY <1>1, <1>7, Zenon
  <2>2. "key" \notin DOMAIN [err |-> "not found"] /\ "key" \notin DOMAIN [err |-> "no kid"]
    OBVIOUS
  <2> QED
    BY <2>1, <2>2, Zenon
<1> QED
  BY <1>5, <1>6, <1>7

-----------------------------------------------------------------------------
(* Documents are only added.                                               *)
LEMMA PublishAppends ==
  ASSUME HTTPKeyInv, OwnDocuments, NEW i \in Issuers, NEW d \in Documents[i], Publish(i, d)
  PROVE  /\ OwnDocuments'
         /\ \A j \in Issuers : \A n \in DOMAIN published[j] :
              n \in DOMAIN published'[j] /\ published'[j][n] = published[j][n]
<1>1. published \in [Issuers -> Seq(Version)] /\ clock \in Nat
  BY DEF HTTPKeyInv, Times, History
<1>2. PICK new \in Version : new = [set |-> d, from |-> clock]
  <2>1. [set |-> d, from |-> clock] \in Version
    BY <1>1 DEF AllDocuments, Version
  <2> QED
    BY <2>1
<1>3. published' = [published EXCEPT ![i] = Append(published[i], new)] /\ new.set = d
  BY <1>2 DEF Publish
<1>4. ASSUME NEW j \in Issuers, j # i PROVE published'[j] = published[j]
  BY <1>1, <1>3, <1>4
<1>5. PICK s \in Seq(Version) : s = published[i]
  BY <1>1
<1>6. published'[i] = Append(s, new)
  BY <1>1, <1>3, <1>5
<1>7. /\ DOMAIN s = 1 .. Len(s) /\ DOMAIN Append(s, new) = 1 .. Len(s) + 1
      /\ \A n \in 1 .. Len(s) : Append(s, new)[n] = s[n]
      /\ Append(s, new)[Len(s) + 1] = new
  OBVIOUS
<1>8. \A n \in DOMAIN s : n \in DOMAIN Append(s, new) /\ Append(s, new)[n] = s[n]
  BY <1>7
<1>9. \A n \in DOMAIN Append(s, new) : n \in DOMAIN s \/ n = Len(s) + 1
  BY <1>7
<1>10. \A n \in DOMAIN Append(s, new) : Append(s, new)[n].set \in Documents[i] \cup {FirstDocument[i]}
  BY <1>3, <1>5, <1>7, <1>8, <1>9 DEF OwnDocuments
<1>11. OwnDocuments'
  BY <1>4, <1>6, <1>10 DEF OwnDocuments
<1> QED
  BY <1>4, <1>5, <1>6, <1>8, <1>11

(* While Verify stands still, the resolver may work and issuers may        *)
(* publish: nothing Verify knows becomes wrong.                            *)
LEMMA StandStill ==
  ASSUME VerifyInv, UNCHANGED <<verifyVars, told>>, Asking',
         \A j \in Issuers : \A n \in DOMAIN published[j] :
           n \in DOMAIN published'[j] /\ published'[j][n] = published[j][n]
  PROVE  VerifyInv'
<1> USE DEF verifyVars
<1>1. Presented' /\ SignedBy'
  BY DEF VerifyInv, Presented, SignedBy, RefusedAt, SigningKey
<1>2. Resolved' /\ NotResolved'
  BY DEF VerifyInv, Presented, Resolved, NotResolved, RefusedAt, kid
<1> QED
  BY <1>1, <1>2 DEF VerifyInv

(* The steps of the clock, the issuers and the resolver.                   *)
LEMMA TimeRot == RotationInv /\ Time => RotationInv'
<1> SUFFICES ASSUME RotationInv, Time PROVE RotationInv'
  OBVIOUS
<1>1. Tick /\ UNCHANGED <<verifyVars, told, published, at, arg>>
  BY DEF Time, V!Tick, V!TimePasses, V!parseVars, V!keyVars, V!walkVars, V!discVars,
     verifyVars, resolverVars, Tick, localVars
<1>2. HTTPKeyInv'
  BY <1>1, TickInv DEF RotationInv
<1>3. OwnDocuments' /\ Asking'
  BY <1>1 DEF RotationInv, VerifyInv, OwnDocuments, Asking, verifyVars, kid
<1> QED
  BY <1>1, <1>2, <1>3, StandStill DEF RotationInv

(* Publishing a new document keeps the invariant.                          *)
LEMMA RotateRot == RotationInv /\ Rotate => RotationInv'
<1> SUFFICES ASSUME RotationInv, Rotate PROVE RotationInv'
  OBVIOUS
<1>0. PICK i \in Issuers : \E d \in Documents[i] : Publish(i, d)
  BY DEF Rotate
<1>1. PICK d \in Documents[i] : Publish(i, d)
  BY <1>0
<1>2. HTTPKeyInv'
  BY <1>1, PublishInv DEF RotationInv
<1>3. /\ OwnDocuments'
      /\ \A j \in Issuers : \A n \in DOMAIN published[j] :
           n \in DOMAIN published'[j] /\ published'[j][n] = published[j][n]
  BY <1>1, PublishAppends DEF RotationInv
<1>4. UNCHANGED <<verifyVars, told, at, arg>>
  BY <1>1 DEF Rotate, Publish, localVars
<1>5. Asking'
  BY <1>4 DEF RotationInv, VerifyInv, Asking, verifyVars, kid
<1> QED
  BY <1>2, <1>3, <1>4, <1>5, StandStill DEF RotationInv

(* A step of a call publishes nothing and leaves its arguments alone.      *)
LEMMA CallStepFacts ==
  ASSUME HTTPKeyInv, NEW c \in Callers, CallStep(c)
  PROVE  /\ clock' = clock /\ published' = published /\ arg' = arg /\ at[c] # "idle"
         /\ \A b \in Callers \ {c} : at'[b] = at[b]
<1>1. DOMAIN at = Callers
  BY DEF HTTPKeyInv, Shape
<1> QED
  BY <1>1 DEF CallStep, ReadCache, CheckEntry, Serve, FetchFails, FetchDone, Lock, Store, Select

(* So do the other callers of the resolver.                                *)
LEMMA OthersRot == RotationInv /\ Others => RotationInv'
<1> SUFFICES ASSUME RotationInv, Others PROVE RotationInv'
  OBVIOUS
<1>1. PICK c \in Callers \ {Self} :
        (\E q \in Lookups : Call(c, q)) \/ CallStep(c) \/ Return(c)
  BY DEF Others
<1>2. HTTPKeyInv'
  BY <1>1, HTTPAssumption, CallInv, CallStepInv, ReturnInv DEF RotationInv
<1>3. published' = published /\ at'[Self] = at[Self] /\ arg'[Self] = arg[Self]
  <2>1. CASE CallStep(c)
    BY <2>1, CallStepFacts, RotationAssumption DEF RotationInv
  <2>2. CASE \E q \in Lookups : Call(c, q)
    BY <2>2, RotationAssumption DEF RotationInv, HTTPKeyInv, Shape, Call
  <2>3. CASE Return(c)
    BY <2>3, RotationAssumption DEF RotationInv, HTTPKeyInv, Shape, Return
  <2> QED
    BY <1>1, <2>1, <2>2, <2>3
<1>4. UNCHANGED <<verifyVars, told>>
  BY DEF Others
<1>5. OwnDocuments' /\ Asking'
  BY <1>3, <1>4 DEF RotationInv, VerifyInv, OwnDocuments, Asking, verifyVars, kid
<1> QED
  BY <1>2, <1>3, <1>4, <1>5, StandStill DEF RotationInv

(* So do the steps of the resolver for Verify's own call.                  *)
LEMMA ResolvingRot == RotationInv /\ Resolving => RotationInv'
<1> SUFFICES ASSUME RotationInv, Resolving PROVE RotationInv'
  OBVIOUS
<1>1. Self \in Callers /\ CallStep(Self) /\ UNCHANGED <<verifyVars, told>>
  BY RotationAssumption DEF Resolving
<1>2. HTTPKeyInv'
  BY <1>1, CallStepInv DEF RotationInv
<1>3. published' = published /\ arg' = arg /\ at[Self] # "idle"
  BY <1>1, CallStepFacts DEF RotationInv
<1>4. OwnDocuments' /\ Asking'
  BY <1>1, <1>3 DEF RotationInv, VerifyInv, OwnDocuments, Asking, verifyVars, kid
<1> QED
  BY <1>1, <1>2, <1>3, <1>4, StandStill DEF RotationInv

(* So does Verify asking the resolver.                                     *)
LEMMA AskRot == RotationInv /\ Ask => RotationInv'
<1> SUFFICES ASSUME RotationInv, Ask PROVE RotationInv'
  OBVIOUS
<1>1. PICK q : q = [issuer |-> issuer, keyID |-> kid]
  OBVIOUS
<1>2. /\ Self \in Callers /\ pc = "key_resolution" /\ Call(Self, q)
      /\ q.issuer = issuer /\ q.keyID = kid /\ UNCHANGED <<verifyVars, told>>
  BY <1>1, RotationAssumption DEF Ask, kid
<1>3. q.issuer \in Issuers
  BY <1>2 DEF RotationInv, VerifyInv, Presented
<1>4. HTTPKeyInv'
  BY <1>2, <1>3, CallInv DEF RotationInv
<1>5. published' = published /\ arg'[Self].issuer = issuer /\ arg'[Self].keyID = kid
  BY <1>2 DEF RotationInv, HTTPKeyInv, Shape, Call
<1>6. OwnDocuments' /\ Asking'
  BY <1>2, <1>5 DEF RotationInv, OwnDocuments, Asking, verifyVars, kid
<1> QED
  BY <1>2, <1>4, <1>5, <1>6, StandStill DEF RotationInv

(* Verify has its answer.                                                  *)
LEMMA ToldRot == RotationInv /\ Told => RotationInv'
<1> SUFFICES ASSUME RotationInv, Told PROVE RotationInv'
  OBVIOUS
<1> DEFINE k == IF "key" \in DOMAIN answer[Self] THEN answer[Self].key ELSE Nil
<1>1. /\ Self \in Callers /\ at[Self] = "done" /\ V!KeyResolved(k) /\ Return(Self)
      /\ told' = [failed |-> answer[Self] = [err |-> "fetch"], recent |-> RecentlyPublished(Self)]
  BY RotationAssumption DEF Told
<1>2. HTTPKeyInv'
  BY <1>1, ReturnInv DEF RotationInv
<1>3. published' = published /\ at'[Self] = "idle"
  BY <1>1 DEF RotationInv, HTTPKeyInv, Shape, Return
<1>4. OwnDocuments' /\ Asking'
  BY <1>3 DEF RotationInv, OwnDocuments, Asking
<1>5. /\ pc = "key_resolution" /\ arg[Self].issuer = issuer /\ arg[Self].keyID = kid
      /\ issuer \in Issuers
  BY <1>1 DEF RotationInv, VerifyInv, Asking, Presented
<1>6. /\ \/ k # Nil /\ pc' = "signature"
         \/ k = Nil /\ pc' = "rejected" /\ outcome'.stage = "key_resolution"
      /\ pubKey' = k /\ UNCHANGED <<raw, t, issuer>>
  BY <1>1 DEF V!KeyResolved, V!Check, V!RejectAt, V!parseVars
<1>7. answer[Self] # [err |-> "fetch"] =>
        \E n \in RecentlyPublished(Self) :
          /\ n \in DOMAIN published[issuer]
          /\ answer[Self] = KeyFor(published[issuer][n].set, kid)
  BY <1>1, <1>5 DEF RotationInv, HTTPKeyInv, CallOK, AnswerRecent, RecentlyPublished
<1>8. told'.recent = RecentlyPublished(Self) /\ told'.failed = (answer[Self] = [err |-> "fetch"])
  BY <1>1
<1>9. ASSUME NEW n \in DOMAIN published[issuer],
             "key" \in DOMAIN KeyFor(published[issuer][n].set, kid)
      PROVE  /\ KeyFor(published[issuer][n].set, kid).key # Nil
             /\ KeyFor(published[issuer][n].set, kid) =
                  [key |-> KeyFor(published[issuer][n].set, kid).key]
  <2>1. PICK d \in Documents[issuer] \cup {FirstDocument[issuer]} : d = published[issuer][n].set
    BY <1>5 DEF RotationInv, OwnDocuments
  <2>2. d \in Seq(ToSet(d))
    BY <1>5, RotationAssumption
  <2> QED
    BY <1>9, <2>1, <2>2, KeyForMember
<1>10. Presented'
  BY <1>5, <1>6 DEF RotationInv, VerifyInv, Presented
<1>11. Resolved'
  <2> SUFFICES ASSUME k # Nil
               PROVE  \E n \in RecentlyPublished(Self) :
                        /\ n \in DOMAIN published[issuer]
                        /\ KeyFor(published[issuer][n].set, kid) = [key |-> k]
    BY <1>3, <1>6, <1>8 DEF Resolved, RefusedAt, AfterSignature, V!Stages, kid
  <2>1. "key" \in DOMAIN answer[Self] /\ k = answer[Self].key
    OBVIOUS
  <2>2. answer[Self] # [err |-> "fetch"]
    <3>1. "key" \notin DOMAIN [err |-> "fetch"]
      OBVIOUS
    <3> QED
      BY <2>1, <3>1, Zenon
  <2> QED
    BY <1>7, <1>9, <2>1, <2>2
<1>12. NotResolved'
  <2> SUFFICES ASSUME k = Nil, ~told'.failed
               PROVE  \E n \in RecentlyPublished(Self) :
                        /\ n \in DOMAIN published[issuer]
                        /\ "key" \notin DOMAIN KeyFor(published[issuer][n].set, kid)
    BY <1>3, <1>6, <1>8 DEF NotResolved, RefusedAt, kid
  <2>1. PICK n \in RecentlyPublished(Self) :
          /\ n \in DOMAIN published[issuer]
          /\ answer[Self] = KeyFor(published[issuer][n].set, kid)
    BY <1>7, <1>8
  <2> QED
    BY <1>9, <2>1
<1>13. SignedBy'
  BY <1>6 DEF SignedBy, AfterSignature, RefusedAt, V!Stages
<1> QED
  BY <1>2, <1>4, <1>10, <1>11, <1>12, <1>13 DEF RotationInv, VerifyInv

-----------------------------------------------------------------------------
(* The operators that both sides take from SdJwt.tla are the same.         *)
LEMMA SameOperators ==
  /\ \A r : (V!Parses(r) <=> Parses(r)) /\ V!Parse(r) = Parse(r)
  /\ \A s : V!decodes(s) <=> decodes(s)
  /\ \A p, k, type : V!Claim(p, k, type) = Claim(p, k, type)
  /\ \A s, k : V!verifyJWTSignature(s, k) <=> verifyJWTSignature(s, k)
<1>1. \A r : (V!Parses(r) <=> Parses(r)) /\ V!Parse(r) = Parse(r)
  BY DEF V!Parses, Parses, V!Parse, Parse, V!Token, Token
<1>2. \A s : V!decodes(s) <=> decodes(s)
  BY DEF V!decodes, decodes
<1>3. \A p, k, type : V!Claim(p, k, type) = Claim(p, k, type)
  BY DEF V!Claim, Claim
<1>4. \A s, k : V!verifyJWTSignature(s, k) <=> verifyJWTSignature(s, k)
  BY DEF V!verifyJWTSignature, verifyJWTSignature, V!algToDigest, algToDigest
<1> QED
  BY <1>1, <1>2, <1>3, <1>4

(* The steps of Verify, which leave the resolver alone.                    *)
LEMMA VerifyStep ==
  ASSUME RotationInv, UNCHANGED <<clock, resolverVars>>, pc # "key_resolution",
         Presented', Resolved', NotResolved', SignedBy'
  PROVE  RotationInv'
<1>1. HTTPKeyInv'
  BY StutterInv DEF RotationInv, httpVars, resolverVars
<1>2. OwnDocuments' /\ Asking'
  BY DEF RotationInv, VerifyInv, OwnDocuments, Asking, resolverVars, localVars
<1> QED
  BY <1>1, <1>2 DEF RotationInv, VerifyInv

(* A new presentation keeps the invariant.                                 *)
LEMMA ArriveRot == RotationInv /\ Arrive => RotationInv'
<1> SUFFICES ASSUME RotationInv, Arrive PROVE RotationInv'
  OBVIOUS
<1>1. pc = "idle" /\ pc' = "parse" /\ raw' \in Presentations /\ UNCHANGED <<clock, resolverVars>>
  BY DEF Arrive, V!Verify
<1>2. Presented' /\ Resolved' /\ NotResolved' /\ SignedBy'
  BY <1>1 DEF Presented, Resolved, NotResolved, SignedBy, RefusedAt, AfterSignature
<1> QED
  BY <1>1, <1>2, VerifyStep

(* What the checks after the signature change of what matters here.        *)
LEMMA LateStep ==
  ASSUME \/ V!CheckExp \/ V!CheckNbf \/ V!ResolveSdAlg \/ V!CollectNested \/ V!CollectReturn
         \/ V!VerifyDisclosure \/ V!DisclosuresDone \/ V!RequireKBJWT \/ V!VerifyKBJWT
         \/ V!CheckVCT
  PROVE  /\ pc \in AfterSignature \ {"accepted"} /\ UNCHANGED <<clock, raw, t, issuer, pubKey>>
         /\ \/ pc' \in AfterSignature
            \/ pc' = "rejected" /\ outcome'.stage \notin {"key_resolution", "signature"}
<1> USE DEF AfterSignature, V!Stages, V!Check, V!RejectAt, V!parseVars, V!keyVars
<1>1. CASE V!CheckExp \/ V!CheckNbf \/ V!ResolveSdAlg
  BY <1>1 DEF V!CheckExp, V!CheckNbf, V!ResolveSdAlg
<1>2. CASE V!CollectNested \/ V!CollectReturn
  BY <1>2 DEF V!CollectNested, V!CollectReturn
<1>3. CASE V!VerifyDisclosure
  BY <1>3 DEF V!VerifyDisclosure
<1>4. CASE V!DisclosuresDone \/ V!RequireKBJWT
  BY <1>4 DEF V!DisclosuresDone, V!RequireKBJWT
<1>5. CASE V!VerifyKBJWT
  BY <1>5 DEF V!VerifyKBJWT
<1>6. CASE V!CheckVCT
  BY <1>6 DEF V!CheckVCT
<1> QED
  BY <1>1, <1>2, <1>3, <1>4, <1>5, <1>6

(* The checks of Verify keep the invariant.                                *)
LEMMA WorkRot == RotationInv /\ Work => RotationInv'
<1> SUFFICES ASSUME RotationInv, Work PROVE RotationInv'
  OBVIOUS
<1>1. /\ V!OwnStep /\ UNCHANGED resolverVars
      /\ pc \notin V!Answered => told' = told
  BY DEF Work
<1>2. published' = published
  BY <1>1 DEF resolverVars
<1>3. VerifyInv
  BY DEF RotationInv
<1> USE DEF V!Answered, V!Stages, RefusedAt, AfterSignature
<1>4. CASE V!ParseRaw
  <2>1. /\ pc = "parse" /\ UNCHANGED <<clock, raw>>
        /\ \/ pc' = "issuer_jwt_decode" /\ Parses(raw) /\ t' = Parse(raw)
           \/ pc' = "rejected" /\ outcome'.stage = "parse"
    BY <1>4, SameOperators DEF V!ParseRaw, V!Check, V!RejectAt
  <2>2. Presented' /\ Resolved' /\ NotResolved' /\ SignedBy'
    BY <1>3, <2>1 DEF VerifyInv, Presented, Resolved, NotResolved, SignedBy
  <2> QED
    BY <1>1, <2>1, <2>2, VerifyStep
<1>5. CASE V!DecodeIssuerJWT
  <2> DEFINE p == t.IssuerJWT.jwt.payload
  <2>1. /\ pc = "issuer_jwt_decode" /\ UNCHANGED <<clock, raw, t>>
        /\ \/ /\ pc' = "key_resolution" /\ decodes(t.IssuerJWT)
              /\ Claim(p, "iss", "str") # Nil /\ issuer' = Claim(p, "iss", "str")
           \/ pc' = "rejected" /\ outcome'.stage = "issuer_jwt_decode"
    BY <1>5, SameOperators DEF V!DecodeIssuerJWT, V!HasIssuer, V!Check, V!RejectAt, V!parseVars
  <2>2. raw \in Presentations /\ Parses(raw) /\ t = Parse(raw) /\ t.IssuerJWT = raw[1]
    BY <1>3, <2>1 DEF VerifyInv, Presented, Parse, Token
  <2>3. decodes(t.IssuerJWT) => Claim(p, "iss", "str") \in Issuers \cup {Nil}
    BY <2>2, RotationAssumption
  <2> HIDE DEF p
  <2>4. pc' = "key_resolution" => issuer' \in Issuers
    BY <2>1, <2>3
  <2>5. Presented' /\ Resolved' /\ NotResolved' /\ SignedBy'
    BY <2>1, <2>2, <2>4 DEF Presented, Resolved, NotResolved, SignedBy
  <2> QED
    BY <1>1, <2>1, <2>5, VerifyStep
<1>6. CASE V!VerifySignature
  <2>1. /\ pc = "signature" /\ UNCHANGED <<clock, raw, t, issuer, pubKey>>
        /\ \/ pc' = "exp" /\ verifyJWTSignature(t.IssuerJWT, pubKey)
           \/ /\ pc' = "rejected" /\ outcome'.stage = "signature"
              /\ ~verifyJWTSignature(t.IssuerJWT, pubKey)
    BY <1>6, SameOperators DEF V!VerifySignature, V!Check, V!RejectAt, V!parseVars, V!keyVars
  <2>2. verifyJWTSignature(t.IssuerJWT, pubKey) => pubKey = SigningKey
    BY DEF verifyJWTSignature, SigningKey
  <2>3. Presented' /\ Resolved' /\ NotResolved'
    BY <1>1, <1>2, <1>3, <2>1 DEF VerifyInv, Presented, Resolved, NotResolved, kid
  <2>4. SignedBy'
    BY <2>1, <2>2 DEF SignedBy, SigningKey
  <2> QED
    BY <1>1, <2>1, <2>3, <2>4, VerifyStep
<1>7. CASE \/ V!CheckExp \/ V!CheckNbf \/ V!ResolveSdAlg \/ V!CollectNested \/ V!CollectReturn
           \/ V!VerifyDisclosure \/ V!DisclosuresDone \/ V!RequireKBJWT \/ V!VerifyKBJWT
           \/ V!CheckVCT
  <2>1. /\ pc \in AfterSignature \ {"accepted"} /\ UNCHANGED <<clock, raw, t, issuer, pubKey>>
        /\ \/ pc' \in AfterSignature
           \/ pc' = "rejected" /\ outcome'.stage \notin {"key_resolution", "signature"}
    BY <1>7, LateStep
  <2>2. Presented' /\ Resolved' /\ NotResolved' /\ SignedBy'
    BY <1>1, <1>2, <1>3, <2>1
       DEF VerifyInv, Presented, Resolved, NotResolved, SignedBy, SigningKey, kid
  <2> QED
    BY <1>1, <2>1, <2>2, VerifyStep
<1>8. CASE V!Return
  <2>1. pc \in {"accepted", "rejected"} /\ pc' = "idle" /\ UNCHANGED clock
    BY <1>8 DEF V!Return
  <2>2. Presented' /\ Resolved' /\ NotResolved' /\ SignedBy'
    BY <2>1 DEF Presented, Resolved, NotResolved, SignedBy
  <2> QED
    BY <1>1, <2>1, <2>2, VerifyStep
<1> QED
  BY <1>1, <1>4, <1>5, <1>6, <1>7, <1>8 DEF V!OwnStep

-----------------------------------------------------------------------------
(* The invariant holds throughout.                                         *)
THEOREM RotationInvariance == RotationSpec => []RotationInv
<1>1. RotationInit => RotationInv
  <2> SUFFICES ASSUME RotationInit PROVE RotationInv
    OBVIOUS
  <2>1. HTTPKeyInv
    BY InitInv DEF RotationInit
  <2>2. OwnDocuments
    BY DEF RotationInit, HTTPInit, OwnDocuments
  <2>3. pc = "idle" /\ at[Self] = "idle"
    BY RotationAssumption DEF RotationInit, V!Init, HTTPInit
  <2>4. VerifyInv
    BY <2>3 DEF VerifyInv, Presented, Asking, Resolved, NotResolved, SignedBy, RefusedAt,
       AfterSignature, V!Stages
  <2> QED
    BY <2>1, <2>2, <2>4 DEF RotationInv
<1>2. RotationInv /\ [RotationNext]_rotationVars => RotationInv'
  <2> SUFFICES ASSUME RotationInv, [RotationNext]_rotationVars PROVE RotationInv'
    OBVIOUS
  <2>1. CASE RotationNext
    BY <2>1, TimeRot, RotateRot, OthersRot, ArriveRot, WorkRot, AskRot, ResolvingRot, ToldRot
       DEF RotationNext
  <2>2. CASE UNCHANGED rotationVars
    <3>1. HTTPKeyInv'
      BY <2>2, StutterInv DEF RotationInv, rotationVars, resolverVars, httpVars
    <3>2. OwnDocuments' /\ Asking'
      BY <2>2 DEF RotationInv, VerifyInv, OwnDocuments, Asking, rotationVars, resolverVars,
         localVars, verifyVars, kid
    <3>3. VerifyInv'
      BY <2>2, <3>2, StandStill DEF RotationInv, rotationVars, resolverVars
    <3> QED
      BY <3>1, <3>2, <3>3 DEF RotationInv
  <2> QED
    BY <2>1, <2>2
<1> QED
  BY <1>1, <1>2, PTL DEF RotationSpec

(* Verify accepts no credential whose key its issuer had withdrawn for     *)
(* longer than the ttl and the slowest fetch.                              *)
THEOREM NoWithdrawnKey == RotationSpec => []AcceptedWhilePublished
<1>1. RotationInv => AcceptedWhilePublished
  <2> SUFFICES ASSUME RotationInv, pc = "accepted"
               PROVE  \E n \in told.recent : \E jwk \in ToSet(published[issuer][n].set) :
                        jwk.key = SigningKey
    BY DEF AcceptedWhilePublished
  <2>1. pubKey = SigningKey /\ issuer \in Issuers
    BY DEF RotationInv, VerifyInv, SignedBy, Presented, AfterSignature
  <2>2. PICK n \in told.recent :
          /\ n \in DOMAIN published[issuer]
          /\ KeyFor(published[issuer][n].set, kid) = [key |-> pubKey]
    BY DEF RotationInv, VerifyInv, Resolved, AfterSignature
  <2>3. PICK d \in Documents[issuer] \cup {FirstDocument[issuer]} : d = published[issuer][n].set
    BY <2>1, <2>2 DEF RotationInv, OwnDocuments
  <2>4. d \in Seq(ToSet(d))
    BY <2>1, RotationAssumption
  <2>5. PICK jwk \in ToSet(d) : KeyFor(d, kid) = [key |-> jwk.key]
    BY <2>2, <2>3, <2>4, KeyForMember
  <2>6. jwk.key = pubKey
    BY <2>2, <2>3, <2>5
  <2> QED
    BY <2>1, <2>3, <2>6
<1> QED
  BY <1>1, RotationInvariance, PTL

(* Verify refuses a well-signed credential for its key only if the fetch   *)
(* failed, or a recent document of the issuer did not have that key.       *)
THEOREM NoKeyLostToTheCache == RotationSpec => []RefusedOnlyIfUnpublished
<1>1. RotationInv => RefusedOnlyIfUnpublished
  <2> SUFFICES ASSUME RotationInv, verifyJWTSignature(t.IssuerJWT, SigningKey),
                      RefusedAt("key_resolution") \/ RefusedAt("signature")
               PROVE  \/ told.failed
                      \/ \E n \in told.recent :
                           KeyFor(published[issuer][n].set, kid) # [key |-> SigningKey]
    BY DEF RefusedOnlyIfUnpublished, RefusedAt, kid
  <2>1. CASE RefusedAt("key_resolution")
    <3>1. "key" \in DOMAIN [key |-> SigningKey]
      OBVIOUS
    <3> QED
      BY <2>1, <3>1, Zenon DEF RotationInv, VerifyInv, NotResolved
  <2>2. CASE RefusedAt("signature")
    <3>1. pubKey # SigningKey
      BY <2>2 DEF RotationInv, VerifyInv, SignedBy
    <3>2. [key |-> pubKey] # [key |-> SigningKey]
      BY <3>1
    <3> QED
      BY <2>2, <3>2 DEF RotationInv, VerifyInv, Resolved
  <2> QED
    BY <2>1, <2>2
<1> QED
  BY <1>1, RotationInvariance, PTL

-----------------------------------------------------------------------------
(* The answer Verify gets is one that Verifier.tla allows for.             *)
LEMMA ToldAllowed ==
  ASSUME RotationInv, Told
  PROVE  V!ResolveIssuerKey
<1> DEFINE k == IF "key" \in DOMAIN answer[Self] THEN answer[Self].key ELSE Nil
<1>1. Self \in Callers /\ at[Self] = "done" /\ V!KeyResolved(k)
  BY RotationAssumption DEF Told
<1>2. pc = "key_resolution" /\ arg[Self].issuer = issuer /\ issuer \in Issuers
  BY <1>1 DEF RotationInv, VerifyInv, Asking, Presented
<1>3. k \in MayAnswer(issuer, kid)
  <2>1. CASE "key" \notin DOMAIN answer[Self]
    BY <2>1 DEF MayAnswer
  <2>2. CASE "key" \in DOMAIN answer[Self]
    <3>1. answer[Self] # [err |-> "fetch"]
      <4>1. "key" \notin DOMAIN [err |-> "fetch"]
        OBVIOUS
      <4> QED
        BY <2>2, <4>1, Zenon
    <3>2. PICK n \in DOMAIN published[issuer] :
            answer[Self] = KeyFor(published[issuer][n].set, arg[Self].keyID)
      BY <1>1, <1>2, <3>1 DEF RotationInv, HTTPKeyInv, CallOK, AnswerRecent, RecentlyPublished
    <3>3. PICK d \in Documents[issuer] \cup {FirstDocument[issuer]} : d = published[issuer][n].set
      BY <1>2 DEF RotationInv, OwnDocuments
    <3>4. d \in Seq(ToSet(d))
      BY <1>2, RotationAssumption
    <3>5. PICK jwk \in ToSet(d) : answer[Self] = [key |-> jwk.key]
      BY <2>2, <3>2, <3>3, <3>4, KeyForMember
    <3>6. k = jwk.key
      BY <3>5
    <3> QED
      BY <3>6 DEF MayAnswer
  <2> QED
    BY <2>1, <2>2
<1> QED
  BY <1>1, <1>2, <1>3 DEF V!ResolveIssuerKey, kid

(* A Verifier that asks an HTTPKeyResolver is a Verifier as specified,     *)
(* whatever issuers publish and other goroutines resolve.                  *)
THEOREM Refinement == RotationSpec => ImplementsVerifier
<1>1. RotationInit => V!Init
  BY DEF RotationInit
<1>2. RotationInv /\ [RotationNext]_rotationVars => [V!Next]_(V!vars)
  <2> SUFFICES ASSUME RotationInv, [RotationNext]_rotationVars PROVE [V!Next]_(V!vars)
    OBVIOUS
  <2> USE DEF V!Next, V!Step
  <2>1. ASSUME UNCHANGED <<clock, verifyVars>> PROVE UNCHANGED V!vars
    BY <2>1 DEF verifyVars, V!vars, V!parseVars, V!keyVars, V!walkVars, V!discVars
  <2>2. CASE Time
    BY <2>2 DEF Time
  <2>3. CASE Rotate
    BY <2>1, <2>3 DEF Rotate, Publish
  <2>4. CASE Others
    <3>1. PICK c \in Callers :
            (\E q \in Lookups : Call(c, q)) \/ CallStep(c) \/ Return(c)
      BY <2>4 DEF Others
    <3>2. clock' = clock
      BY <3>1, CallStepFacts DEF RotationInv, Call, Return
    <3> QED
      BY <2>1, <2>4, <3>2 DEF Others
  <2>5. CASE Arrive
    BY <2>5 DEF Arrive
  <2>6. CASE Work
    BY <2>6 DEF Work
  <2>7. CASE Ask
    BY <2>1, <2>7 DEF Ask, Call
  <2>8. CASE Resolving
    BY <2>1, <2>8, CallStepFacts, RotationAssumption DEF Resolving, RotationInv
  <2>9. CASE Told
    BY <2>9, ToldAllowed
  <2>10. CASE UNCHANGED rotationVars
    BY <2>1, <2>10 DEF rotationVars
  <2> QED
    BY <2>2, <2>3, <2>4, <2>5, <2>6, <2>7, <2>8, <2>9, <2>10 DEF RotationNext
<1> QED
  BY <1>1, <1>2, RotationInvariance, PTL DEF RotationSpec, ImplementsVerifier, V!Spec
=============================================================================
