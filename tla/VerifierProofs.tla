---------------------------- MODULE VerifierProofs ----------------------------
(***************************************************************************)
(* Proofs about Verifier: type correctness, and that the digest map is     *)
(* exact after the walk of collectDigests, for every set of presentations, *)
(* every depth limit and every order in which map iteration visits the     *)
(* objects.                                                                *)
(***************************************************************************)
EXTENDS Verifier, SequenceTheorems, TLAPS

(* The stages before the walk.                                             *)
Early == {"idle", "parse", "issuer_jwt_decode", "key_resolution", "signature", "exp", "nbf",
          "sd_alg"}

(* The objects whose range loop is still running: cur and those around it. *)
Open(c) == {SubSeq(c, 1, i) : i \in 0 .. Len(c)}

(* A running call has one of the presentations.                            *)
CallOK == pc # "idle" => raw \in Presentations

(* Nothing is collected before the walk.                                   *)
NotStarted == pc \in Early => visited = {} /\ digestMap = <<>>

(* The map is exact for the objects of S.                                  *)
ExactFor(S) ==
  /\ DOMAIN digestMap = UNION {ToSet(payload.sd[o]) : o \in S}
  /\ \A d \in DOMAIN digestMap : digestMap[d] \in S /\ d \in ToSet(payload.sd[digestMap[d]])

(* During the walk: an object entered has been left only when everything   *)
(* below it has been entered, and the map is exact for the objects         *)
(* entered.                                                                *)
Walking ==
  pc = "disclosure_collect" =>
    /\ cur \in visited /\ <<>> \in visited /\ visited \subseteq Objects(payload)
    /\ \A o \in visited : Len(o) <= maxVerifyDepth
    /\ \A o \in visited : o # <<>> => Front(o) \in visited
    /\ \A o \in visited : o \in Open(cur) \/ Children(payload, o) \subseteq visited
    /\ ExactFor(visited)

Inv == TypeOK /\ CallOK /\ NotStarted /\ Walking /\ DigestMapExact

-----------------------------------------------------------------------------
(* Going one object down adds it to the running loops; going up removes it.*)
LEMMA OpenStep ==
  ASSUME NEW c \in Seq(STRING), c # <<>>
  PROVE  /\ Front(c) \in Seq(STRING)
         /\ Open(c) = Open(Front(c)) \cup {c}
<1>1. Len(c) \in Nat \ {0} /\ \A i \in 1 .. Len(c) : c[i] \in STRING
  BY EmptySeq, ElementOfSeq, LenProperties
<1>2. /\ Front(c) \in Seq(STRING)
      /\ Len(Front(c)) = Len(c) - 1
      /\ \A i \in 1 .. Len(c) - 1 : Front(c)[i] = c[i]
  <2> DEFINE n == Len(c) - 1
  <2>1. n \in Nat /\ \A i \in 1 .. n : c[i] \in STRING
    BY <1>1
  <2> HIDE DEF n
  <2>2. /\ SubSeq(c, 1, n) \in Seq(STRING) /\ Len(SubSeq(c, 1, n)) = n
        /\ \A i \in 1 .. n : SubSeq(c, 1, n)[i] = c[i]
    BY <2>1, SubSeqProperties, n \in Int, Z3
  <2> QED
    BY <2>2 DEF Front, n
<1>3. ASSUME NEW i \in 0 .. Len(c) - 1
      PROVE  SubSeq(Front(c), 1, i) = SubSeq(c, 1, i)
  <2>1. \A j \in 1 .. i : c[j] \in STRING /\ Front(c)[j] = c[j]
    BY <1>1, <1>2
  <2>2. /\ SubSeq(c, 1, i) \in Seq(STRING) /\ Len(SubSeq(c, 1, i)) = i
        /\ \A j \in 1 .. i : SubSeq(c, 1, i)[j] = c[j]
    BY <1>1, <2>1, SubSeqProperties, i \in Int, Z3
  <2>3. /\ SubSeq(Front(c), 1, i) \in Seq(STRING) /\ Len(SubSeq(Front(c), 1, i)) = i
        /\ \A j \in 1 .. i : SubSeq(Front(c), 1, i)[j] = Front(c)[j]
    BY <1>1, <1>2, <2>1, SubSeqProperties, i \in Int, Z3
  <2> QED
    BY <2>1, <2>2, <2>3, SeqEqual
<1>4. SubSeq(c, 1, Len(c)) = c
  BY SubSeqFull
<1>5. 0 .. Len(c) = (0 .. Len(c) - 1) \cup {Len(c)}
  BY <1>1
<1>6. Open(c) = {SubSeq(c, 1, i) : i \in 0 .. Len(c) - 1} \cup {c}
  BY <1>4, <1>5 DEF Open
<1>7. Open(Front(c)) = {SubSeq(c, 1, i) : i \in 0 .. Len(c) - 1}
  BY <1>2, <1>3 DEF Open
<1> QED
  BY <1>2, <1>6, <1>7

(* At the payload itself only its own loop is running.                     *)
LEMMA OpenRoot == Open(<<>>) = {<<>>}
<1>1. SubSeq(<<>>, 1, 0) = <<>>
  BY SubSeqEmpty
<1>2. Len(<<>>) = 0 /\ 0 .. 0 = {0}
  OBVIOUS
<1>3. Open(<<>>) = {SubSeq(<<>>, 1, i) : i \in {0}}
  BY <1>2, Zenon DEF Open
<1> QED
  BY <1>1, <1>3, Zenon

(* Domain and values of a Go map after writes.                             *)
LEMMA OverlayFacts ==
  ASSUME NEW f, NEW g
  PROVE  /\ DOMAIN Overlay(f, g) = DOMAIN f \cup DOMAIN g
         /\ \A x \in DOMAIN g : Overlay(f, g)[x] = g[x]
         /\ \A x \in DOMAIN f \ DOMAIN g : Overlay(f, g)[x] = f[x]
BY DEF Overlay

(* Entering an object keeps the map exact for the objects entered.         *)
LEMMA EnterExact ==
  ASSUME NEW o, Enter(o), ExactFor(visited), UNCHANGED payload
  PROVE  ExactFor(visited)'
<1> DEFINE g == [d \in ToSet(payload.sd[o]) |-> o]
<1>1. /\ digestMap' = Overlay(digestMap, g) /\ visited' = visited \cup {o}
      /\ DOMAIN g = ToSet(payload.sd[o]) /\ \A d \in DOMAIN g : g[d] = o
  BY DEF Enter
<1> HIDE DEF g
<1>2. /\ DOMAIN digestMap' = DOMAIN digestMap \cup ToSet(payload.sd[o])
      /\ \A d \in ToSet(payload.sd[o]) : digestMap'[d] = o
      /\ \A d \in DOMAIN digestMap \ ToSet(payload.sd[o]) : digestMap'[d] = digestMap[d]
  <2>1. /\ DOMAIN Overlay(digestMap, g) = DOMAIN digestMap \cup DOMAIN g
        /\ \A x \in DOMAIN g : Overlay(digestMap, g)[x] = g[x]
        /\ \A x \in DOMAIN digestMap \ DOMAIN g : Overlay(digestMap, g)[x] = digestMap[x]
    BY OverlayFacts, Zenon
  <2> QED
    BY <1>1, <2>1, Zenon
<1>3. DOMAIN digestMap' = UNION {ToSet(payload.sd[x]) : x \in visited'}
  BY <1>1, <1>2 DEF ExactFor
<1>4. ASSUME NEW d \in DOMAIN digestMap'
      PROVE  digestMap'[d] \in visited' /\ d \in ToSet(payload.sd[digestMap'[d]])
  <2>1. CASE d \in ToSet(payload.sd[o])
    BY <1>1, <1>2, <2>1
  <2>2. CASE d \notin ToSet(payload.sd[o])
    BY <1>1, <1>2, <2>2 DEF ExactFor
  <2> QED
    BY <2>1, <2>2
<1> QED
  BY <1>3, <1>4 DEF ExactFor

(* When the walk is back at the payload with nothing left to enter, every  *)
(* object has been entered.                                                *)
LEMMA WalkComplete ==
  ASSUME TypeOK, Walking, pc = "disclosure_collect", cur = <<>>,
         Children(payload, cur) \subseteq visited
  PROVE  visited = Objects(payload)
<1>1. IsPayload(payload)
  BY DEF TypeOK, Decoded, Stages
<1>2. \A o \in visited : Children(payload, o) \subseteq visited
  BY OpenRoot DEF Walking
<1>3. visited \in SUBSET Objects(payload) /\ <<>> \in visited
  BY DEF Walking
<1> QED
  BY <1>1, <1>2, <1>3 DEF IsPayload

-----------------------------------------------------------------------------
(* A Verifier that has not been called satisfies the invariant.            *)
LEMMA InitInv == Init => Inv
<1> SUFFICES ASSUME Init PROVE Inv
  OBVIOUS
<1> USE VerifierAssumption, ClockAssumption DEF Init
<1>1. TypeOK
  BY DEF TypeOK, Decoded, Stages, Answered
<1>2. CallOK /\ NotStarted /\ Walking /\ DigestMapExact
  BY DEF CallOK, NotStarted, Walking, DigestMapExact, Collected, Decoded, Stages
<1> QED
  BY <1>1, <1>2 DEF Inv

(* Time passing keeps it.                                                  *)
LEMMA TickInv == Inv /\ Tick => Inv'
<1> SUFFICES ASSUME Inv, Tick PROVE Inv'
  OBVIOUS
<1> USE VerifierAssumption, ClockAssumption DEF Inv, Tick, TimePasses, parseVars, keyVars, walkVars, discVars
<1>1. TypeOK'
  BY DEF TypeOK, Decoded
<1>2. (CallOK /\ NotStarted /\ Walking /\ DigestMapExact)'
  BY DEF CallOK, NotStarted, Walking, ExactFor, DigestMapExact, Collected, Decoded
<1> QED
  BY <1>1, <1>2

(* Entering Verify keeps it: the call starts with no state of its own.     *)
LEMMA VerifyInv ==
  ASSUME NEW r \in Presentations, NEW n \in Nonces, Inv, Verify(r, n)
  PROVE  Inv'
<1> USE VerifierAssumption, ClockAssumption DEF Inv, Verify, parseVars, keyVars, walkVars, discVars
<1>1. TypeOK'
  BY DEF TypeOK, Decoded, Stages
<1>2. (CallOK /\ NotStarted /\ Walking /\ DigestMapExact)'
  BY DEF CallOK, NotStarted, Early, Walking, DigestMapExact, Collected, Decoded, Stages
<1> QED
  BY <1>1, <1>2

(* Returning keeps it: the locals of the call are gone.                    *)
LEMMA ReturnInv == Inv /\ Return => Inv'
<1> SUFFICES ASSUME Inv, Return PROVE Inv'
  OBVIOUS
<1> USE VerifierAssumption, ClockAssumption DEF Inv, Return
<1>1. TypeOK'
  BY DEF TypeOK, Decoded, Stages
<1>2. (CallOK /\ NotStarted /\ Walking /\ DigestMapExact)'
  BY DEF CallOK, NotStarted, Walking, DigestMapExact, Collected, Decoded, Stages
<1> QED
  BY <1>1, <1>2

(* Parse: from here on t is the parsed presentation.                       *)
LEMMA ParseInv == Inv /\ ParseRaw => Inv'
<1> SUFFICES ASSUME Inv, ParseRaw PROVE Inv'
  OBVIOUS
<1> USE VerifierAssumption, ClockAssumption DEF Inv, ParseRaw, Check, RejectAt, keyVars, walkVars, discVars
<1>1. TypeOK'
  BY DEF TypeOK, Decoded, Stages, Answered
<1>2. (CallOK /\ NotStarted /\ Walking /\ DigestMapExact)'
  BY DEF CallOK, NotStarted, Early, Walking, DigestMapExact, Collected, Decoded, Stages
<1> QED
  BY <1>1, <1>2

(* Decoding: the payload of a presentation is a tree.                      *)
LEMMA DecodeInv == Inv /\ DecodeIssuerJWT => Inv'
<1> SUFFICES ASSUME Inv, DecodeIssuerJWT PROVE Inv'
  OBVIOUS
<1> USE VerifierAssumption, ClockAssumption
    DEF Inv, DecodeIssuerJWT, HasIssuer, Check, RejectAt, parseVars, walkVars, discVars
<1>1. ASSUME decodes(t.IssuerJWT)
      PROVE  IsPayload(t.IssuerJWT.jwt.payload)
  <2>1. raw \in Presentations /\ Parses(raw) /\ t.IssuerJWT = raw[1]
    BY DEF TypeOK, CallOK, Parse, Token
  <2> QED
    BY <1>1, <2>1
<1>2. TypeOK'
  BY <1>1 DEF TypeOK, Decoded, Stages, Answered
<1>3. (CallOK /\ NotStarted /\ Walking /\ DigestMapExact)'
  BY DEF CallOK, NotStarted, Early, Walking, DigestMapExact, Collected, Decoded, Stages
<1> QED
  BY <1>2, <1>3

(* Key resolution collects nothing.                                        *)
LEMMA ResolveInv == Inv /\ ResolveIssuerKey => Inv'
<1> SUFFICES ASSUME Inv, ResolveIssuerKey PROVE Inv'
  OBVIOUS
<1> USE VerifierAssumption, ClockAssumption
    DEF Inv, ResolveIssuerKey, KeyResolved, Check, RejectAt, parseVars, keyVars, walkVars, discVars
<1>1. TypeOK'
  BY DEF TypeOK, Decoded, Stages, Answered
<1>2. (CallOK /\ NotStarted /\ Walking /\ DigestMapExact)'
  BY DEF CallOK, NotStarted, Early, Walking, DigestMapExact, Collected, Decoded, Stages
<1> QED
  BY <1>1, <1>2

(* The signature check collects nothing.                                   *)
LEMMA SignatureInv == Inv /\ VerifySignature => Inv'
<1> SUFFICES ASSUME Inv, VerifySignature PROVE Inv'
  OBVIOUS
<1> USE VerifierAssumption, ClockAssumption
    DEF Inv, VerifySignature, Check, RejectAt, parseVars, keyVars, walkVars, discVars
<1>1. TypeOK'
  BY DEF TypeOK, Decoded, Stages, Answered
<1>2. (CallOK /\ NotStarted /\ Walking /\ DigestMapExact)'
  BY DEF CallOK, NotStarted, Early, Walking, DigestMapExact, Collected, Decoded, Stages
<1> QED
  BY <1>1, <1>2

(* The exp check reads the clock and collects nothing.                     *)
LEMMA ExpInv == Inv /\ CheckExp => Inv'
<1> SUFFICES ASSUME Inv, CheckExp PROVE Inv'
  OBVIOUS
<1> USE VerifierAssumption, ClockAssumption
    DEF Inv, CheckExp, Check, RejectAt, parseVars, keyVars, walkVars, discVars
<1>1. TypeOK'
  BY DEF TypeOK, Decoded, Stages, Answered
<1>2. (CallOK /\ NotStarted /\ Walking /\ DigestMapExact)'
  BY DEF CallOK, NotStarted, Early, Walking, DigestMapExact, Collected, Decoded, Stages
<1> QED
  BY <1>1, <1>2

(* The nbf check collects nothing.                                         *)
LEMMA NbfInv == Inv /\ CheckNbf => Inv'
<1> SUFFICES ASSUME Inv, CheckNbf PROVE Inv'
  OBVIOUS
<1> USE VerifierAssumption, ClockAssumption
    DEF Inv, CheckNbf, Check, RejectAt, parseVars, keyVars, walkVars, discVars
<1>1. TypeOK'
  BY DEF TypeOK, Decoded, Stages, Answered
<1>2. (CallOK /\ NotStarted /\ Walking /\ DigestMapExact)'
  BY DEF CallOK, NotStarted, Early, Walking, DigestMapExact, Collected, Decoded, Stages
<1> QED
  BY <1>1, <1>2

(* The checks after the disclosures leave payload and map alone.           *)
LEMMA DisclosuresDoneInv == Inv /\ DisclosuresDone => Inv'
<1> SUFFICES ASSUME Inv, DisclosuresDone PROVE Inv'
  OBVIOUS
<1> USE VerifierAssumption, ClockAssumption
    DEF Inv, DisclosuresDone, parseVars, keyVars, walkVars, discVars
<1>1. TypeOK'
  BY DEF TypeOK, Decoded, Stages, Answered
<1>2. (CallOK /\ NotStarted /\ Walking /\ DigestMapExact)'
  BY DEF CallOK, NotStarted, Early, Walking, DigestMapExact, Collected, Decoded, Stages
<1> QED
  BY <1>1, <1>2

(* The check for a required KB-JWT leaves payload and map alone.           *)
LEMMA RequireKBInv == Inv /\ RequireKBJWT => Inv'
<1> SUFFICES ASSUME Inv, RequireKBJWT PROVE Inv'
  OBVIOUS
<1> USE VerifierAssumption, ClockAssumption
    DEF Inv, RequireKBJWT, Check, RejectAt, parseVars, keyVars, walkVars, discVars
<1>1. TypeOK'
  BY DEF TypeOK, Decoded, Stages, Answered
<1>2. (CallOK /\ NotStarted /\ Walking /\ DigestMapExact)'
  BY DEF CallOK, NotStarted, Early, Walking, DigestMapExact, Collected, Decoded, Stages
<1> QED
  BY <1>1, <1>2

(* So do the checks of verifyKBJWT.                                        *)
LEMMA KBInv == Inv /\ VerifyKBJWT => Inv'
<1> SUFFICES ASSUME Inv, VerifyKBJWT PROVE Inv'
  OBVIOUS
<1> USE VerifierAssumption, ClockAssumption
    DEF Inv, VerifyKBJWT, Check, RejectAt, parseVars, keyVars, walkVars, discVars
<1>1. TypeOK'
  BY DEF TypeOK, Decoded, Stages, Answered
<1>2. (CallOK /\ NotStarted /\ Walking /\ DigestMapExact)'
  BY DEF CallOK, NotStarted, Early, Walking, DigestMapExact, Collected, Decoded, Stages
<1> QED
  BY <1>1, <1>2

(* So does the vct check, which ends the call.                             *)
LEMMA VCTInv == Inv /\ CheckVCT => Inv'
<1> SUFFICES ASSUME Inv, CheckVCT PROVE Inv'
  OBVIOUS
<1> USE VerifierAssumption, ClockAssumption
    DEF Inv, CheckVCT, RejectAt, parseVars, keyVars, walkVars, discVars
<1>1. TypeOK'
  BY DEF TypeOK, Decoded, Stages, Answered
<1>2. (CallOK /\ NotStarted /\ Walking /\ DigestMapExact)'
  BY DEF CallOK, NotStarted, Early, Walking, DigestMapExact, Collected, Decoded, Stages
<1> QED
  BY <1>1, <1>2

(* The walk starts at the payload, with an empty map.                      *)
LEMMA SdAlgInv == Inv /\ ResolveSdAlg => Inv'
<1> SUFFICES ASSUME Inv, ResolveSdAlg PROVE Inv'
  OBVIOUS
<1> USE VerifierAssumption, ClockAssumption
    DEF Inv, ResolveSdAlg, Check, RejectAt, parseVars, keyVars, walkVars, discVars
<1>1. CASE hashAlg = Nil
  <2>1. TypeOK'
    BY <1>1 DEF TypeOK, Decoded, Stages, Answered
  <2>2. (CallOK /\ NotStarted /\ Walking /\ DigestMapExact)'
    BY <1>1 DEF CallOK, NotStarted, Early, Walking, DigestMapExact, Collected, Decoded, Stages
  <2> QED
    BY <2>1, <2>2
<1>2. CASE hashAlg # Nil
  <2>1. Enter(<<>>) /\ pc' = "disclosure_collect" /\ UNCHANGED payload
    BY <1>2
  <2>2. IsPayload(payload) /\ visited = {} /\ digestMap = <<>>
    BY DEF TypeOK, Decoded, Stages, NotStarted, Early
  <2>3. visited' = {<<>>} /\ cur' = <<>>
    BY <2>1, <2>2 DEF Enter
  <2>4. ExactFor(visited)
    BY <2>2 DEF ExactFor
  <2>5. ExactFor(visited)'
    BY <2>1, <2>4, EnterExact
  <2>6. Walking'
    BY <2>1, <2>2, <2>3, <2>5, OpenRoot DEF Walking, IsPayload
  <2>7. TypeOK'
    BY <1>2, <2>3 DEF TypeOK, Decoded, Stages, Answered
  <2>8. (CallOK /\ NotStarted /\ DigestMapExact)'
    BY <2>1 DEF CallOK, NotStarted, Early, DigestMapExact, Collected, Decoded, Stages
  <2> QED
    BY <2>6, <2>7, <2>8
<1> QED
  BY <1>1, <1>2

(* One object deeper: it joins the running loops.                          *)
LEMMA CollectNestedInv == Inv /\ CollectNested => Inv'
<1> SUFFICES ASSUME Inv, CollectNested PROVE Inv'
  OBVIOUS
<1> USE VerifierAssumption, ClockAssumption
    DEF Inv, CollectNested, Check, RejectAt, parseVars, keyVars, walkVars, discVars
<1>1. PICK o \in Children(payload, cur) \ visited :
        /\ Check("disclosure_collect", Len(o) <= maxVerifyDepth, "disclosure_collect",
                 "ErrNestingTooDeep")
        /\ \/ Len(o) <= maxVerifyDepth /\ Enter(o)
           \/ Len(o) > maxVerifyDepth /\ UNCHANGED walkVars
  OBVIOUS
<1>2. /\ pc = "disclosure_collect" /\ IsPayload(payload)
      /\ o \in Objects(payload) /\ o # <<>> /\ Front(o) = cur /\ o \in Seq(STRING)
      /\ Len(o) \in Nat
  <2>1. IsPayload(payload)
    BY DEF TypeOK, Decoded, Stages
  <2>2. o \in Objects(payload) /\ o # <<>> /\ Front(o) = cur
    BY <1>1 DEF Children
  <2>3. o \in Seq(STRING)
    BY <2>1, <2>2 DEF IsPayload
  <2> QED
    BY <2>1, <2>2, <2>3
<1>3. CASE Len(o) > maxVerifyDepth
  <2>1. pc' = "rejected" /\ UNCHANGED walkVars
    BY <1>1, <1>2, <1>3
  <2>2. TypeOK'
    BY <2>1 DEF TypeOK, Decoded, Stages, Answered
  <2>3. (CallOK /\ NotStarted /\ Walking /\ DigestMapExact)'
    BY <2>1 DEF CallOK, NotStarted, Early, Walking, DigestMapExact, Collected, Decoded, Stages
  <2> QED
    BY <2>2, <2>3
<1>4. CASE Len(o) <= maxVerifyDepth
  <2>1. Enter(o) /\ pc' = "disclosure_collect" /\ UNCHANGED payload
    BY <1>1, <1>2, <1>4
  <2>2. visited' = visited \cup {o} /\ cur' = o
    BY <2>1 DEF Enter
  <2>3. Open(o) = Open(cur) \cup {o}
    BY <1>2, OpenStep
  <2>4. ExactFor(visited)'
    BY <1>2, <2>1, EnterExact DEF Walking
  <2>5. \A x \in visited' : x \in Open(cur') \/ Children(payload', x) \subseteq visited'
    BY <1>2, <2>1, <2>2, <2>3 DEF Walking
  <2>6. /\ cur' \in visited' /\ <<>> \in visited' /\ visited' \subseteq Objects(payload')
        /\ \A x \in visited' : Len(x) <= maxVerifyDepth
        /\ \A x \in visited' : x # <<>> => Front(x) \in visited'
    BY <1>2, <1>4, <2>1, <2>2 DEF Walking
  <2>7. Walking'
    BY <2>4, <2>5, <2>6 DEF Walking
  <2>8. TypeOK'
    BY <1>2, <2>1, <2>2 DEF TypeOK, Decoded, Stages, Answered
  <2>9. (CallOK /\ NotStarted /\ DigestMapExact)'
    BY <1>2, <2>1 DEF CallOK, NotStarted, Early, DigestMapExact, Collected, Decoded, Stages
  <2> QED
    BY <2>7, <2>8, <2>9
<1> QED
  BY <1>2, <1>3, <1>4

(* One object up: its loop is over, everything below it has been entered.  *)
LEMMA CollectReturnInv == Inv /\ CollectReturn => Inv'
<1> SUFFICES ASSUME Inv, CollectReturn PROVE Inv'
  OBVIOUS
<1> USE VerifierAssumption, ClockAssumption DEF Inv, CollectReturn, parseVars, keyVars, discVars
<1>1. CASE cur # <<>>
  <2>1. /\ pc = "disclosure_collect" /\ pc' = pc /\ cur' = Front(cur)
        /\ UNCHANGED <<payload, visited, digestMap>>
    BY <1>1
  <2>2. cur \in Seq(STRING)
    BY DEF TypeOK
  <2>3. Open(cur) = Open(Front(cur)) \cup {cur} /\ Front(cur) \in Seq(STRING)
    BY <1>1, <2>2, OpenStep
  <2>4. \A x \in visited : x \in Open(Front(cur)) \/ Children(payload, x) \subseteq visited
    BY <2>1, <2>3 DEF Walking
  <2>5. Walking'
    BY <1>1, <2>1, <2>4 DEF Walking, ExactFor
  <2>6. TypeOK'
    BY <2>1, <2>3 DEF TypeOK, Decoded, Stages
  <2>7. (CallOK /\ NotStarted /\ DigestMapExact)'
    BY <2>1 DEF CallOK, NotStarted, Early, DigestMapExact, Collected, Decoded
  <2> QED
    BY <2>5, <2>6, <2>7
<1>2. CASE cur = <<>>
  <2>1. /\ pc = "disclosure_collect" /\ pc' = "disclosure"
        /\ UNCHANGED <<cur, payload, visited, digestMap>>
    BY <1>2
  <2>2. visited = Objects(payload)
    BY <1>2, <2>1, WalkComplete
  <2>3. DigestMapExact'
    BY <2>1, <2>2 DEF Walking, ExactFor, DigestMapExact
  <2>4. TypeOK'
    BY <2>1 DEF TypeOK, Decoded, Stages
  <2>5. (CallOK /\ NotStarted /\ Walking)'
    BY <2>1 DEF CallOK, NotStarted, Early, Walking
  <2> QED
    BY <2>3, <2>4, <2>5
<1> QED
  BY <1>1, <1>2

(* Writing a revealed value back changes members, not objects or digests.  *)
LEMMA DisclosureInv == Inv /\ VerifyDisclosure => Inv'
<1> SUFFICES ASSUME Inv, VerifyDisclosure PROVE Inv'
  OBVIOUS
<1>1. /\ pc = "disclosure" /\ pc' \in {"disclosure", "rejected"}
      /\ UNCHANGED <<clock, opts, parseVars, keyVars, walkVars>>
      /\ next' \in {next, next + 1}
  BY DEF VerifyDisclosure, RejectAt, discVars
<1>2. IsPayload(payload)
  BY <1>1 DEF Inv, TypeOK, Decoded, Stages
<1>3. payload' = payload
      \/ \E o, g : payload' = [payload EXCEPT !.val[o] = Overlay(payload.val[o], g)]
  BY DEF VerifyDisclosure, RejectAt, discVars
<1>4. payload'.sd = payload.sd /\ Objects(payload') = Objects(payload)
      /\ payload' = [val |-> payload'.val, sd |-> payload'.sd]
  BY <1>2, <1>3 DEF IsPayload, Objects
<1>5. IsPayload(payload')
  <2>1. payload'.val = [x \in DOMAIN payload'.val |->
                         [k \in DOMAIN payload'.val[x] |-> payload'.val[x][k]]]
    <3>1. CASE payload' = payload
      BY <1>2, <3>1 DEF IsPayload, Objects
    <3>2. CASE payload' # payload
      <4>1. PICK o, g : payload' = [payload EXCEPT !.val[o] = Overlay(payload.val[o], g)]
        BY <1>3, <3>2
      <4>2. payload'.val = [payload.val EXCEPT ![o] = Overlay(payload.val[o], g)]
        BY <1>2, <4>1 DEF IsPayload
      <4>3. payload.val = [x \in DOMAIN payload.val |->
                            [k \in DOMAIN payload.val[x] |-> payload.val[x][k]]]
        BY <1>2 DEF IsPayload, Objects
      <4>4. PICK v, w : v = payload.val /\ w = payload'.val
        OBVIOUS
      <4>5. w = [v EXCEPT ![o] = Overlay(v[o], g)]
            /\ v = [x \in DOMAIN v |-> [k \in DOMAIN v[x] |-> v[x][k]]]
        BY <4>2, <4>3, <4>4
      <4>6. w = [x \in DOMAIN w |-> [k \in DOMAIN w[x] |-> w[x][k]]]
        <5>1. DOMAIN w = DOMAIN v /\ w = [x \in DOMAIN w |-> w[x]]
          BY <4>5
        <5>2. ASSUME NEW x \in DOMAIN w
              PROVE  w[x] = [k \in DOMAIN w[x] |-> w[x][k]]
          <6>1. CASE x = o
            <7>1. w[x] = Overlay(v[o], g)
              BY <4>5, <5>1, <6>1
            <7> QED
              BY <7>1 DEF Overlay
          <6>2. CASE x # o
            <7>1. w[x] = v[x] /\ v[x] = [k \in DOMAIN v[x] |-> v[x][k]]
              BY <4>5, <5>1, <6>2
            <7> QED
              BY <7>1
          <6> QED
            BY <6>1, <6>2
        <5> QED
          BY <5>1, <5>2
      <4> QED
        BY <4>4, <4>6
    <3> QED
      BY <3>1, <3>2
  <2> QED
    BY <1>2, <1>4, <2>1 DEF IsPayload, Children, Objects
<1>6. TypeOK'
  BY <1>1, <1>5 DEF Inv, TypeOK, Decoded, Stages, Answered, parseVars, keyVars, walkVars
<1>7. DigestMapExact'
  BY <1>1, <1>4 DEF Inv, DigestMapExact, Collected, Decoded, Stages, walkVars
<1>8. (CallOK /\ NotStarted /\ Walking)'
  BY <1>1 DEF Inv, CallOK, NotStarted, Early, Walking, parseVars
<1> QED
  BY <1>6, <1>7, <1>8 DEF Inv

-----------------------------------------------------------------------------
(* The invariant holds throughout.                                         *)
THEOREM Invariance == Spec => []Inv
<1>1. Init => Inv
  BY InitInv
<1>2. Inv /\ [Next]_vars => Inv'
  <2> SUFFICES ASSUME Inv, [Next]_vars PROVE Inv'
    OBVIOUS
  <2>1. CASE Tick
    BY <2>1, TickInv
  <2>2. CASE \E r \in Presentations, n \in Nonces : Verify(r, n)
    BY <2>2, VerifyInv
  <2>3. CASE Step
    BY <2>3, ParseInv, DecodeInv, ResolveInv, SignatureInv, ExpInv, NbfInv, SdAlgInv,
       CollectNestedInv, CollectReturnInv, DisclosureInv, DisclosuresDoneInv,
       RequireKBInv, KBInv, VCTInv, ReturnInv DEF Step, OwnStep
  <2>4. CASE UNCHANGED vars
    BY <2>4 DEF Inv, TypeOK, CallOK, NotStarted, Walking, ExactFor, DigestMapExact,
       Collected, Decoded, vars, parseVars, keyVars, walkVars, discVars
  <2> QED
    BY <2>1, <2>2, <2>3, <2>4 DEF Next
<1> QED
  BY <1>1, <1>2, PTL DEF Spec

(* What each stage of Verify reads has been set by the stages before it.   *)
THEOREM TypeCorrect == Spec => []TypeOK
<1>1. Inv => TypeOK
  BY DEF Inv
<1> QED
  BY <1>1, Invariance, PTL

(* collectDigests finds every digest of the payload and nothing else, and  *)
(* places it in an object that lists it, whatever the order of iteration.  *)
THEOREM DigestsCollected == Spec => []DigestMapExact
<1>1. Inv => DigestMapExact
  BY DEF Inv
<1> QED
  BY <1>1, Invariance, PTL
=============================================================================
