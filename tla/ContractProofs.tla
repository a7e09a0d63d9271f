---------------------------- MODULE ContractProofs ----------------------------
(***************************************************************************)
(* Verify keeps its contract: every behaviour of Verifier, with its walk,  *)
(* its digest map and its payload updated in place, is one of              *)
(* VerifyContract, which says in one step what Verify answers.             *)
(*                                                                         *)
(* The invariant is stated in the contract's own terms: what each stage of *)
(* the chain has established of the string presented, and, during the      *)
(* disclosure loop, how much of the reconstruction has been done.          *)
(***************************************************************************)
EXTENDS VerifierProofs

AfterDecode == Stages \ {"parse", "issuer_jwt_decode"}
AfterKey    == AfterDecode \ {"key_resolution"}
AfterSig    == AfterKey \ {"signature"}
AfterExp    == AfterSig \ {"exp"}
AfterNbf    == AfterExp \ {"nbf"}
AfterAlg    == AfterNbf \ {"sd_alg"}
AfterWalk   == AfterAlg \ {"disclosure_collect"}
AfterLoop   == AfterWalk \ {"disclosure"}

(* The call in progress, once its issuer JWT has been decoded.             *)
Reading ==
  /\ pc # "idle" => nonce \in Nonces
  /\ pc \in AfterDecode =>
       Contract!Readable(raw) /\ issuer = Claim(t.IssuerJWT.jwt.payload, "iss", "str")

(* Nothing is revealed before the disclosure loop.                         *)
Unrevealed ==
  /\ pc \in {"idle", "parse", "issuer_jwt_decode"} \cup (AfterDecode \ AfterWalk) =>
       next = 1 /\ disclosed = <<>>
  /\ pc \in AfterDecode \ AfterWalk => payload = Contract!Signed(raw)

(* What the checks before the disclosures have established.                *)
Checked ==
  /\ pc \in AfterKey => pubKey \in Contract!Answers(raw) \ {Nil}
  /\ pc \in AfterSig => verifyJWTSignature(t.IssuerJWT, pubKey)
  /\ pc \in AfterExp => now \in 0 .. clock /\ Contract!InTime(raw, now)
  /\ pc \in AfterNbf => Contract!Started(raw, now)
  /\ pc \in AfterAlg => hashAlg # Nil

(* Where the digest map puts the disclosures.                              *)
Home(i) ==
  LET d == Digest(hashAlg, Contract!Discs(raw)[i])
  IN  IF d \in DOMAIN digestMap THEN digestMap[d] ELSE <<>>

Placement == [i \in DOMAIN Contract!Discs(raw) |-> Home(i)]

(* The keyed disclosures before number n, and the payload with those put   *)
(* where h says.                                                           *)
Below(r, n) == {i \in Contract!Keyed(r) : i < n}

Applied(r, h, n) ==
  [val |-> [o \in Objects(Contract!Signed(r)) |->
              Overlay(Contract!Signed(r).val[o],
                      Contract!Revealed(r, {i \in Below(r, n) : h[i] = o}))],
   sd  |-> Contract!Signed(r).sd]

(* What disclosure n of presentation r reveals.                            *)
Entry(r, n) == [k \in {Contract!Opened(r, n).Key} |-> Contract!Opened(r, n).Value]

(* The disclosure loop: each disclosure handled parses and is listed, no   *)
(* key came twice, and exactly those disclosures have been applied.        *)
Loop ==
  pc \in AfterWalk =>
    /\ next \in 1 .. Len(Contract!Discs(raw)) + 1
    /\ \A i \in 1 .. next - 1 :
         /\ DisclosureParses(Contract!Discs(raw)[i])
         /\ Digest(hashAlg, Contract!Discs(raw)[i]) \in DOMAIN digestMap
    /\ \A i, j \in Below(raw, next) :
         i # j => Contract!Opened(raw, i).Key # Contract!Opened(raw, j).Key
    /\ disclosed = Contract!Revealed(raw, Below(raw, next))
    /\ payload = Applied(raw, Placement, next)

Looped == pc \in AfterLoop => next = Len(Contract!Discs(raw)) + 1

(* What the checks of the KB-JWT have established.                         *)
Binding ==
  LET kb == t.KBJWT
  IN  /\ pc \in {"cnf", "kbjwt_decode", "kbjwt_key", "kbjwt_sig", "kbjwt_nonce", "kbjwt_aud",
                 "kbjwt_sd_hash"} => HasKeyBinding(t)
      /\ pc = "vct" /\ ~HasKeyBinding(t) => ~opts.requireKeyBinding
      /\ pc \in {"kbjwt_decode", "kbjwt_key", "kbjwt_sig", "kbjwt_nonce", "kbjwt_aud",
                 "kbjwt_sd_hash", "vct"} /\ HasKeyBinding(t) => hasCnf(payload)
      /\ pc \in {"kbjwt_key", "kbjwt_sig", "kbjwt_nonce", "kbjwt_aud", "kbjwt_sd_hash", "vct"}
           /\ HasKeyBinding(t) => decodes(kb)
      /\ pc \in {"kbjwt_sig", "kbjwt_nonce", "kbjwt_aud", "kbjwt_sd_hash", "vct"}
           /\ HasKeyBinding(t) => cnfKey(payload) # Nil
      /\ pc \in {"kbjwt_nonce", "kbjwt_aud", "kbjwt_sd_hash", "vct"}
           /\ HasKeyBinding(t) => verifyJWTSignature(kb, cnfKey(payload))
      /\ pc \in {"kbjwt_aud", "kbjwt_sd_hash", "vct"} /\ HasKeyBinding(t) =>
           (nonce # Nil => kbPayload.nonce = nonce)
      /\ pc \in {"kbjwt_sd_hash", "vct"} /\ HasKeyBinding(t) =>
           (opts.audience # Nil => opts.audience \in kbPayload.aud)
      /\ pc = "vct" /\ HasKeyBinding(t) => kbPayload.sd_hash = DigestSHA256(Prefix(t))

ChainInv == Inv /\ Reading /\ Unrevealed /\ Checked /\ Loop /\ Looped /\ Binding

-----------------------------------------------------------------------------
(* The operators that Verifier and its contract both take from SdJwt.tla.  *)
LEMMA ContractOperators ==
  /\ \A r : (Contract!Parses(r) <=> Parses(r)) /\ Contract!Parse(r) = Parse(r)
  /\ \A s : Contract!decodes(s) <=> decodes(s)
  /\ \A p, k, type : Contract!Claim(p, k, type) = Claim(p, k, type)
  /\ \A s, k : Contract!verifyJWTSignature(s, k) <=> verifyJWTSignature(s, k)
  /\ \A p : Contract!Objects(p) = Objects(p)
  /\ \A h, x : Contract!Digest(h, x) = Digest(h, x)
  /\ \A x : Contract!DigestSHA256(x) = DigestSHA256(x)
  /\ \A x : Contract!Prefix(x) = Prefix(x)
  /\ \A e : Contract!ParseDisclosure(e) = ParseDisclosure(e)
  /\ \A e : Contract!DisclosureParses(e) <=> DisclosureParses(e)
  /\ \A p : Contract!hasCnf(p) <=> hasCnf(p)
  /\ \A f, g : Contract!Overlay(f, g) = Overlay(f, g)
<1>1. \A r : (Contract!Parses(r) <=> Parses(r)) /\ Contract!Parse(r) = Parse(r)
  BY DEF Contract!Parses, Parses, Contract!Parse, Parse, Contract!Token, Token
<1>2. \A s : Contract!decodes(s) <=> decodes(s)
  BY DEF Contract!decodes, decodes
<1>3. \A p, k, type : Contract!Claim(p, k, type) = Claim(p, k, type)
  BY DEF Contract!Claim, Claim
<1>4. \A s, k : Contract!verifyJWTSignature(s, k) <=> verifyJWTSignature(s, k)
  BY DEF Contract!verifyJWTSignature, verifyJWTSignature, Contract!algToDigest, algToDigest
<1>5. /\ \A p : Contract!Objects(p) = Objects(p)
      /\ \A h, x : Contract!Digest(h, x) = Digest(h, x)
      /\ \A x : Contract!DigestSHA256(x) = DigestSHA256(x)
      /\ \A x : Contract!Prefix(x) = Prefix(x)
  BY DEF Contract!Objects, Objects, Contract!Digest, Digest, Contract!DigestSHA256,
     DigestSHA256, Contract!Prefix, Prefix
<1>6. /\ \A e : Contract!ParseDisclosure(e) = ParseDisclosure(e)
      /\ \A e : Contract!DisclosureParses(e) <=> DisclosureParses(e)
  BY DEF Contract!ParseDisclosure, ParseDisclosure, Contract!Disclosure, Disclosure,
     Contract!DisclosureParses, DisclosureParses, Contract!minDisclosureElements,
     minDisclosureElements
<1>7. \A p : Contract!hasCnf(p) <=> hasCnf(p)
  BY DEF Contract!hasCnf, hasCnf
<1>8. \A f, g : Contract!Overlay(f, g) = Overlay(f, g)
  BY DEF Contract!Overlay, Overlay
<1> QED
  BY <1>1, <1>2, <1>3, <1>4, <1>5, <1>6, <1>7, <1>8

(* Both read _sd_alg alike.                                                *)
LEMMA ContractAlg == \A p : Contract!sdAlg(p) = sdAlg(p)
<1> SUFFICES ASSUME NEW p PROVE Contract!sdAlg(p) = sdAlg(p)
  OBVIOUS
<1>1. Contract!Claim(p, "_sd_alg", "str") = Claim(p, "_sd_alg", "str")
  BY DEF Contract!Claim, Claim
<1>2. \A a : Contract!AlgorithmFromSDAlg(a) = AlgorithmFromSDAlg(a)
  BY DEF Contract!AlgorithmFromSDAlg, AlgorithmFromSDAlg
<1> QED
  BY <1>1, <1>2 DEF Contract!sdAlg, sdAlg

(* Both read the holder's key from cnf alike.                              *)
LEMMA ContractCnf == \A p : Contract!cnfKey(p) = cnfKey(p)
<1> SUFFICES ASSUME NEW p PROVE Contract!cnfKey(p) = cnfKey(p)
  OBVIOUS
<1>1. Contract!Claim(p, "cnf", "jwk") = Claim(p, "cnf", "jwk")
  BY DEF Contract!Claim, Claim
<1> QED
  BY <1>1 DEF Contract!cnfKey, cnfKey, Contract!curveForName, curveForName

(* Both return the same part of a payload.                                 *)
LEMMA ContractVisible == \A p : Contract!Visible(p) = Visible(p)
BY DEF Contract!Visible, Visible, Contract!Objects, Objects

(* The contract reads the call's presentation as Verify does.              *)
LEMMA SamePresentation ==
  ASSUME Inv, pc \in AfterDecode
  PROVE  /\ Contract!Parse(raw) = t /\ Contract!Parses(raw)
         /\ Contract!Jwt(raw) = t.IssuerJWT /\ Contract!Discs(raw) = t.Disclosures
         /\ Contract!Signed(raw) = t.IssuerJWT.jwt.payload /\ Contract!KB(raw) = t.KBJWT
         /\ IsPayload(Contract!Signed(raw))
         /\ hashAlg = sdAlg(Contract!Signed(raw))
         /\ Contract!sdAlg(Contract!Signed(raw)) = hashAlg
         /\ Len(t.Disclosures) \in Nat /\ DOMAIN t.Disclosures = 1 .. Len(t.Disclosures)
<1>1. raw \in Presentations /\ Parses(raw) /\ t = Parse(raw) /\ decodes(t.IssuerJWT)
  BY DEF Inv, TypeOK, CallOK, Decoded, AfterDecode, Stages
<1>2. t.IssuerJWT = raw[1] /\ t.Disclosures = SubSeq(raw, 2, Len(raw) - 1)
  BY <1>1 DEF Parse, Token
<1>3. IsPayload(t.IssuerJWT.jwt.payload)
  BY <1>1, <1>2, VerifierAssumption
<1>4. Contract!Parse(raw) = t /\ Contract!Parses(raw)
  BY <1>1, ContractOperators
<1>5. /\ Contract!Jwt(raw) = t.IssuerJWT /\ Contract!Discs(raw) = t.Disclosures
      /\ Contract!KB(raw) = t.KBJWT
  BY <1>4 DEF Contract!Jwt, Contract!Discs, Contract!KB
<1>6. Contract!Signed(raw) = t.IssuerJWT.jwt.payload
  BY <1>5 DEF Contract!Signed
<1>7. Len(t.Disclosures) \in Nat /\ DOMAIN t.Disclosures = 1 .. Len(t.Disclosures)
  <2>1. PICK S, s : S = ToSet(raw) /\ s = raw
    OBVIOUS
  <2>2. s \in Seq(S) /\ Len(s) \in Nat /\ Len(s) >= 2
    BY <1>1, <2>1, VerifierAssumption DEF Parses
  <2>3. SubSeq(s, 2, Len(s) - 1) \in Seq(S)
    BY <2>2, \A i \in 2 .. Len(s) - 1 : s[i] \in S, SubSeqProperties
  <2> QED
    BY <1>2, <2>1, <2>3, LenProperties
<1>8. hashAlg = sdAlg(Contract!Signed(raw)) /\ Contract!sdAlg(Contract!Signed(raw)) = hashAlg
  BY <1>6, ContractAlg DEF hashAlg
<1> QED
  BY <1>3, <1>4, <1>5, <1>6, <1>7, <1>8

-----------------------------------------------------------------------------
(* Steps that leave a part of the call's state alone.                      *)
LEMMA KeepReading ==
  ASSUME Reading, UNCHANGED <<raw, nonce, t, issuer>>,
         pc' # "idle" => pc # "idle", pc' \in AfterDecode => pc \in AfterDecode
  PROVE  Reading'
BY DEF Reading

(* Steps that leave the payload and the loop alone reveal nothing.         *)
LEMMA KeepUnrevealed ==
  ASSUME Unrevealed, UNCHANGED <<raw, payload, next, disclosed>>,
         pc' \in {"idle", "parse", "issuer_jwt_decode"} =>
           pc \in {"idle", "parse", "issuer_jwt_decode"},
         pc' \in AfterDecode \ AfterWalk => pc \in AfterDecode \ AfterWalk
  PROVE  Unrevealed'
BY DEF Unrevealed

(* What was checked at now stays so while time passes.                     *)
LEMMA KeepChecked ==
  ASSUME Checked, UNCHANGED <<raw, t, pubKey, now, opts>>,
         clock \in Nat, clock' \in {clock, clock + 1},
         pc' \in AfterKey => pc \in AfterKey, pc' \in AfterSig => pc \in AfterSig,
         pc' \in AfterExp => pc \in AfterExp, pc' \in AfterNbf => pc \in AfterNbf,
         pc' \in AfterAlg => pc \in AfterAlg
  PROVE  Checked'
<1>1. now \in 0 .. clock => now \in 0 .. clock'
  OBVIOUS
<1> QED
  BY <1>1 DEF Checked, Contract!Answers, Contract!InTime, Contract!Started, hashAlg

(* The state of the loop is the same after a step that leaves it alone.    *)
LEMMA KeepLoop ==
  ASSUME Loop, Looped, UNCHANGED <<raw, t, payload, digestMap, next, disclosed>>,
         pc' \in AfterWalk => pc \in AfterWalk, pc' \in AfterLoop => pc \in AfterLoop
  PROVE  Loop' /\ Looped'
<1>1. hashAlg' = hashAlg
  BY DEF hashAlg
<1>2. Placement' = Placement
  BY <1>1 DEF Placement, Home
<1>3. /\ Below(raw, next)' = Below(raw, next)
      /\ Applied(raw, Placement, next)' = Applied(raw, Placement, next)
  BY <1>2 DEF Below, Applied
<1> QED
  BY <1>1, <1>2, <1>3 DEF Loop, Looped

(* So is what is known of the KB-JWT.                                      *)
LEMMA KeepBinding ==
  ASSUME Binding, UNCHANGED <<nonce, t, payload, opts, pc>>
  PROVE  Binding'
BY DEF Binding, kbPayload

-----------------------------------------------------------------------------
(* The stages of the chain, one after the other.                           *)
LEMMA InitChain == Init => ChainInv
<1> SUFFICES ASSUME Init PROVE ChainInv
  OBVIOUS
<1>1. Inv
  BY InitInv
<1>2. pc = "idle" /\ next = 1 /\ disclosed = <<>>
  BY DEF Init
<1> USE DEF AfterDecode, AfterKey, AfterSig, AfterExp, AfterNbf, AfterAlg, AfterWalk,
    AfterLoop, Stages
<1>3. Reading /\ Unrevealed /\ Checked /\ Loop /\ Looped /\ Binding
  BY <1>2 DEF Reading, Unrevealed, Checked, Loop, Looped, Binding
<1> QED
  BY <1>1, <1>3 DEF ChainInv

(* Time passing keeps what the chain has established.                      *)
LEMMA TickChain == ChainInv /\ Tick => ChainInv'
<1> SUFFICES ASSUME ChainInv, Tick PROVE ChainInv'
  OBVIOUS
<1>1. Inv'
  BY TickInv DEF ChainInv
<1>2. /\ UNCHANGED <<opts, pc, raw, nonce, t, issuer, pubKey, now, payload, digestMap, next,
                     disclosed>>
      /\ clock \in Nat /\ clock' = clock + 1
  BY DEF ChainInv, Inv, TypeOK, Tick, TimePasses, parseVars, keyVars, walkVars, discVars
<1> QED
  BY <1>1, <1>2, KeepReading, KeepUnrevealed, KeepChecked, KeepLoop, KeepBinding
     DEF ChainInv

(* A new call has established nothing.                                     *)
LEMMA VerifyChain ==
  ASSUME NEW r \in Presentations, NEW n \in Nonces, ChainInv, Verify(r, n)
  PROVE  ChainInv'
<1>1. Inv'
  BY VerifyInv DEF ChainInv
<1>2. pc = "idle" /\ pc' = "parse" /\ nonce' = n /\ UNCHANGED <<next, disclosed>>
  BY DEF Verify, discVars
<1> USE DEF AfterDecode, AfterKey, AfterSig, AfterExp, AfterNbf, AfterAlg, AfterWalk,
    AfterLoop, Stages
<1>3. Reading' /\ Unrevealed' /\ Checked' /\ Loop' /\ Looped' /\ Binding'
  BY <1>2 DEF ChainInv, Reading, Unrevealed, Checked, Loop, Looped, Binding
<1> QED
  BY <1>1, <1>3 DEF ChainInv

(* Returning, and every rejection, leave the chain.                        *)
LEMMA LeaveChain ==
  ASSUME ChainInv, Inv', \/ pc' = "rejected" /\ pc # "idle"
                         \/ pc' = "accepted" /\ pc # "idle"
                         \/ pc' = "idle" /\ next' = 1 /\ disclosed' = <<>>,
         pc' # "idle" => nonce' = nonce
  PROVE  ChainInv'
<1> USE DEF AfterDecode, AfterKey, AfterSig, AfterExp, AfterNbf, AfterAlg, AfterWalk,
    AfterLoop, Stages
<1>1. Reading' /\ Unrevealed' /\ Checked' /\ Loop' /\ Looped' /\ Binding'
  BY DEF ChainInv, Reading, Unrevealed, Checked, Loop, Looped, Binding
<1> QED
  BY <1>1 DEF ChainInv

(* The caller has the outcome: the chain is left.                          *)
LEMMA ReturnChain == ChainInv /\ Return => ChainInv'
<1> SUFFICES ASSUME ChainInv, Return PROVE ChainInv'
  OBVIOUS
<1>1. Inv'
  BY ReturnInv DEF ChainInv
<1> QED
  BY <1>1, LeaveChain DEF Return

(* Parse establishes nothing about the payload yet.                        *)
LEMMA ParseChain == ChainInv /\ ParseRaw => ChainInv'
<1> SUFFICES ASSUME ChainInv, ParseRaw PROVE ChainInv'
  OBVIOUS
<1>1. Inv'
  BY ParseInv DEF ChainInv
<1>2. /\ pc = "parse" /\ pc' \in {"issuer_jwt_decode", "rejected"}
      /\ UNCHANGED <<raw, nonce, next, disclosed>>
  BY DEF ParseRaw, Check, RejectAt, discVars
<1> USE DEF AfterDecode, AfterKey, AfterSig, AfterExp, AfterNbf, AfterAlg, AfterWalk,
    AfterLoop, Stages
<1>3. Reading' /\ Unrevealed' /\ Checked' /\ Loop' /\ Looped' /\ Binding'
  BY <1>2 DEF ChainInv, Reading, Unrevealed, Checked, Loop, Looped, Binding
<1> QED
  BY <1>1, <1>3 DEF ChainInv

(* Decoding: the presentation is readable, the payload is the signed one.  *)
LEMMA DecodeChain == ChainInv /\ DecodeIssuerJWT => ChainInv'
<1> SUFFICES ASSUME ChainInv, DecodeIssuerJWT PROVE ChainInv'
  OBVIOUS
<1>1. Inv'
  BY DecodeInv DEF ChainInv
<1> DEFINE p == t.IssuerJWT.jwt.payload
<1>2. /\ pc = "issuer_jwt_decode" /\ UNCHANGED <<raw, nonce, t, next, disclosed>>
      /\ \/ pc' = "rejected"
         \/ /\ pc' = "key_resolution" /\ decodes(t.IssuerJWT) /\ HasIssuer(p)
            /\ payload' = p /\ issuer' = Claim(p, "iss", "str")
  BY DEF DecodeIssuerJWT, Check, RejectAt, discVars, parseVars
<1>3. CASE pc' = "rejected"
  BY <1>1, <1>2, <1>3, LeaveChain
<1>4. CASE pc' = "key_resolution"
  <2> USE DEF AfterDecode, AfterKey, AfterSig, AfterExp, AfterNbf, AfterAlg, AfterWalk,
      AfterLoop, Stages
  <2>1. Parses(raw) /\ t = Parse(raw)
    BY <1>2 DEF ChainInv, Inv, TypeOK
  <2>2. /\ Contract!Parses(raw) /\ Contract!Jwt(raw) = t.IssuerJWT
        /\ Contract!Signed(raw) = p
    BY <2>1, ContractOperators DEF Contract!Jwt, Contract!Signed
  <2>3. Contract!Readable(raw)
    BY <1>2, <1>4, <2>2, ContractOperators DEF Contract!Readable, HasIssuer
  <2>4. Reading' /\ Unrevealed'
    BY <1>2, <1>4, <2>2, <2>3 DEF ChainInv, Reading, Unrevealed
  <2>5. Checked' /\ Loop' /\ Looped' /\ Binding'
    BY <1>4 DEF Checked, Loop, Looped, Binding
  <2> QED
    BY <1>1, <2>4, <2>5 DEF ChainInv
<1> QED
  BY <1>2, <1>3, <1>4

(* A check that passes before the walk: what it established is added.      *)
LEMMA EarlyChain ==
  ASSUME ChainInv, Inv', pc \in AfterDecode \ AfterAlg, pc' \in AfterKey \ AfterWalk,
         UNCHANGED <<clock, opts, raw, nonce, t, issuer, payload, next, disclosed>>,
         Checked'
  PROVE  ChainInv'
<1> USE DEF AfterDecode, AfterKey, AfterSig, AfterExp, AfterNbf, AfterAlg, AfterWalk,
    AfterLoop, Stages
<1>1. Reading' /\ Unrevealed' /\ Loop' /\ Looped' /\ Binding'
  BY DEF ChainInv, Reading, Unrevealed, Loop, Looped, Binding
<1> QED
  BY <1>1 DEF ChainInv

(* Key resolution: the key is one of the resolver's answers.               *)
LEMMA ResolveChain == ChainInv /\ ResolveIssuerKey => ChainInv'
<1> SUFFICES ASSUME ChainInv, ResolveIssuerKey PROVE ChainInv'
  OBVIOUS
<1>1. Inv'
  BY ResolveInv DEF ChainInv
<1>2. PICK k \in ResolveKey(issuer, t.IssuerJWT.jwt.header.kid) : KeyResolved(k)
  BY DEF ResolveIssuerKey
<1>3. /\ pc = "key_resolution"
      /\ UNCHANGED <<clock, opts, raw, nonce, t, issuer, payload, next, disclosed>>
      /\ pc' = "rejected" \/ (pc' = "signature" /\ k # Nil /\ pubKey' = k)
  BY <1>2 DEF KeyResolved, Check, RejectAt, discVars, parseVars
<1>4. CASE pc' = "rejected"
  BY <1>1, <1>3, <1>4, LeaveChain
<1>5. CASE pc' = "signature"
  <2>1. pc \in AfterDecode
    BY <1>3 DEF AfterDecode, Stages
  <2>2. issuer = Contract!Claim(Contract!Signed(raw), "iss", "str")
        /\ Contract!Jwt(raw) = t.IssuerJWT
    BY <2>1, SamePresentation, ContractOperators DEF ChainInv, Reading
  <2>3. Contract!Answers(raw) = ResolveKey(issuer, t.IssuerJWT.jwt.header.kid)
    BY <2>2 DEF Contract!Answers
  <2>4. pubKey' \in Contract!Answers(raw)' \ {Nil}
    BY <1>2, <1>3, <1>5, <2>3 DEF Contract!Answers
  <2>5. Checked' /\ pc \in AfterDecode \ AfterAlg /\ pc' \in AfterKey \ AfterWalk
    BY <1>3, <1>5, <2>4 DEF Checked, AfterDecode, AfterKey, AfterSig, AfterExp, AfterNbf,
       AfterAlg, AfterWalk, Stages
  <2> QED
    BY <1>1, <1>3, <2>5, EarlyChain
<1> QED
  BY <1>3, <1>4, <1>5

(* The signature check: the key verifies the issuer JWT.                   *)
LEMMA SignatureChain == ChainInv /\ VerifySignature => ChainInv'
<1> SUFFICES ASSUME ChainInv, VerifySignature PROVE ChainInv'
  OBVIOUS
<1>1. Inv'
  BY SignatureInv DEF ChainInv
<1>2. /\ pc = "signature"
      /\ UNCHANGED <<clock, opts, raw, nonce, t, issuer, pubKey, payload, next, disclosed>>
      /\ pc' = "rejected" \/ (pc' = "exp" /\ verifyJWTSignature(t.IssuerJWT, pubKey))
  BY DEF VerifySignature, Check, RejectAt, discVars, parseVars, keyVars
<1>3. CASE pc' = "rejected"
  BY <1>1, <1>2, <1>3, LeaveChain
<1>4. CASE pc' = "exp"
  <2>1. Checked' /\ pc \in AfterDecode \ AfterAlg /\ pc' \in AfterKey \ AfterWalk
    BY <1>2, <1>4 DEF ChainInv, Checked, Contract!Answers, AfterDecode, AfterKey, AfterSig,
       AfterExp, AfterNbf, AfterAlg, AfterWalk, Stages
  <2> QED
    BY <1>1, <1>2, <2>1, EarlyChain
<1> QED
  BY <1>2, <1>3, <1>4

(* The exp check reads the clock once, for exp and for nbf.                *)
LEMMA ExpChain == ChainInv /\ CheckExp => ChainInv'
<1> SUFFICES ASSUME ChainInv, CheckExp PROVE ChainInv'
  OBVIOUS
<1>1. Inv'
  BY ExpInv DEF ChainInv
<1>2. /\ pc = "exp" /\ now' = clock
      /\ UNCHANGED <<clock, opts, raw, nonce, t, issuer, pubKey, payload, next, disclosed>>
      /\ pc' = "rejected" \/ (pc' = "nbf" /\ NotExpired(payload, clock))
  BY DEF CheckExp, Check, RejectAt, discVars, parseVars, keyVars
<1>3. CASE pc' = "rejected"
  BY <1>1, <1>2, <1>3, LeaveChain
<1>4. CASE pc' = "nbf"
  <2>1. payload = Contract!Signed(raw) /\ clock \in Nat
    BY <1>2 DEF ChainInv, Unrevealed, AfterDecode, AfterKey, AfterSig,
       AfterExp, AfterNbf, AfterAlg, AfterWalk, Stages, Inv, TypeOK
  <2>2. Contract!InTime(raw, clock)
    BY <1>2, <1>4, <2>1, ContractOperators DEF Contract!InTime, NotExpired, Unix
  <2>3. Contract!InTime(raw, now)' /\ now' \in 0 .. clock'
    BY <1>2, <2>1, <2>2 DEF Contract!InTime
  <2>4. Checked' /\ pc \in AfterDecode \ AfterAlg /\ pc' \in AfterKey \ AfterWalk
    BY <1>2, <1>4, <2>3 DEF ChainInv, Checked, Contract!Answers, AfterDecode, AfterKey,
       AfterSig, AfterExp, AfterNbf, AfterAlg, AfterWalk, Stages
  <2> QED
    BY <1>1, <1>2, <2>4, EarlyChain
<1> QED
  BY <1>2, <1>3, <1>4

(* The nbf check uses the time the exp check read.                         *)
LEMMA NbfChain == ChainInv /\ CheckNbf => ChainInv'
<1> SUFFICES ASSUME ChainInv, CheckNbf PROVE ChainInv'
  OBVIOUS
<1>1. Inv'
  BY NbfInv DEF ChainInv
<1>2. /\ pc = "nbf"
      /\ UNCHANGED <<clock, opts, raw, nonce, t, issuer, pubKey, now, payload, next, disclosed>>
      /\ pc' = "rejected" \/ (pc' = "sd_alg" /\ AlreadyValid(payload, now))
  BY DEF CheckNbf, Check, RejectAt, discVars, parseVars, keyVars
<1>3. CASE pc' = "rejected"
  BY <1>1, <1>2, <1>3, LeaveChain
<1>4. CASE pc' = "sd_alg"
  <2>1. payload = Contract!Signed(raw)
    BY <1>2 DEF ChainInv, Unrevealed, AfterDecode, AfterKey, AfterSig,
       AfterExp, AfterNbf, AfterAlg, AfterWalk, Stages
  <2>2. Contract!Started(raw, now)
    BY <1>2, <1>4, <2>1, ContractOperators DEF Contract!Started, AlreadyValid, Unix
  <2>3. Contract!Started(raw, now)'
    BY <1>2, <2>2 DEF Contract!Started
  <2>4. Checked' /\ pc \in AfterDecode \ AfterAlg /\ pc' \in AfterKey \ AfterWalk
    BY <1>2, <1>4, <2>3 DEF ChainInv, Checked, Contract!Answers, Contract!InTime,
       AfterDecode, AfterKey, AfterSig, AfterExp, AfterNbf, AfterAlg, AfterWalk, Stages
  <2> QED
    BY <1>1, <1>2, <2>4, EarlyChain
<1> QED
  BY <1>2, <1>3, <1>4

(* Resolving _sd_alg: the hash is a supported one.                         *)
LEMMA SdAlgChain == ChainInv /\ ResolveSdAlg => ChainInv'
<1> SUFFICES ASSUME ChainInv, ResolveSdAlg PROVE ChainInv'
  OBVIOUS
<1>1. Inv'
  BY SdAlgInv DEF ChainInv
<1>2. /\ pc = "sd_alg"
      /\ UNCHANGED <<clock, opts, raw, nonce, t, issuer, pubKey, now, payload, next, disclosed>>
      /\ pc' = "rejected" \/ (pc' = "disclosure_collect" /\ hashAlg # Nil)
  BY DEF ResolveSdAlg, Check, RejectAt, discVars, parseVars, keyVars
<1>3. CASE pc' = "rejected"
  BY <1>1, <1>2, <1>3, LeaveChain
<1>4. CASE pc' = "disclosure_collect"
  <2>1. Checked' /\ pc \in AfterDecode \ AfterAlg /\ pc' \in AfterKey \ AfterWalk
    BY <1>2, <1>4 DEF ChainInv, Checked, Contract!Answers, Contract!InTime, Contract!Started,
       hashAlg, AfterDecode, AfterKey, AfterSig, AfterExp, AfterNbf, AfterAlg, AfterWalk, Stages
  <2> QED
    BY <1>1, <1>2, <2>1, EarlyChain
<1> QED
  BY <1>2, <1>3, <1>4

(* Walking the payload changes nothing of what was checked.                *)
LEMMA CollectNestedChain == ChainInv /\ CollectNested => ChainInv'
<1> SUFFICES ASSUME ChainInv, CollectNested PROVE ChainInv'
  OBVIOUS
<1>1. Inv'
  BY CollectNestedInv DEF ChainInv
<1>2. /\ pc = "disclosure_collect" /\ pc' \in {"disclosure_collect", "rejected"}
      /\ UNCHANGED <<clock, opts, raw, nonce, t, issuer, pubKey, now, payload, next, disclosed>>
  BY DEF CollectNested, Check, RejectAt, discVars, parseVars, keyVars
<1>3. CASE pc' = "rejected"
  BY <1>1, <1>2, <1>3, LeaveChain
<1>4. CASE pc' = "disclosure_collect"
  <2>1. clock \in Nat
    BY DEF ChainInv, Inv, TypeOK
  <2>2. Reading' /\ Unrevealed' /\ Checked'
    BY <1>2, <1>4, <2>1, KeepReading, KeepUnrevealed, KeepChecked DEF ChainInv
  <2>3. Loop' /\ Looped' /\ Binding'
    BY <1>4 DEF Loop, Looped, Binding, AfterWalk, AfterLoop
  <2> QED
    BY <1>1, <2>2, <2>3 DEF ChainInv
<1> QED
  BY <1>2, <1>3, <1>4

-----------------------------------------------------------------------------
(* Writing to Go maps: in two steps or in one, and nothing.                *)
LEMMA OverlayAssoc ==
  ASSUME NEW f, NEW g, NEW h
  PROVE  Overlay(f, Overlay(g, h)) = Overlay(Overlay(f, g), h)
BY DEF Overlay

(* Writing nothing to a map leaves it as it is.                            *)
LEMMA OverlayNothing ==
  ASSUME NEW f, f = [k \in DOMAIN f |-> f[k]]
  PROVE  Overlay(f, <<>>) = f
<1>1. DOMAIN <<>> = {}
  OBVIOUS
<1>2. Overlay(f, <<>>) = [k \in DOMAIN f |-> f[k]]
  BY <1>1 DEF Overlay
<1> QED
  BY <1>2

(* No disclosure, nothing revealed.                                        *)
LEMMA NothingRevealed == \A r : Contract!Revealed(r, {}) = <<>>
<1> SUFFICES ASSUME NEW r PROVE Contract!Revealed(r, {}) = <<>>
  OBVIOUS
<1>1. {Contract!Opened(r, i).Key : i \in {}} = {}
  OBVIOUS
<1> QED
  BY <1>1 DEF Contract!Revealed

(* Revealing one more disclosure, with a key of its own.                   *)
LEMMA RevealOne ==
  ASSUME NEW r, NEW I, NEW n,
         \A i \in I : Contract!Opened(r, i).Key # Contract!Opened(r, n).Key,
         \A i, j \in I : i # j => Contract!Opened(r, i).Key # Contract!Opened(r, j).Key
  PROVE  Contract!Revealed(r, I \cup {n}) =
           Overlay(Contract!Revealed(r, I), Entry(r, n))
<1> DEFINE K == [i \in I \cup {n} |-> Contract!Opened(r, i).Key]
           W == [i \in I \cup {n} |-> Contract!Opened(r, i).Value]
           g == [k \in {K[n]} |-> W[n]]
           A == Contract!Revealed(r, I)
           B == Contract!Revealed(r, I \cup {n})
<1>1. /\ \A i \in I \cup {n} : Contract!Opened(r, i).Key = K[i]
      /\ \A i \in I \cup {n} : Contract!Opened(r, i).Value = W[i]
      /\ \A i, j \in I \cup {n} : i # j /\ n \notin I => K[i] # K[j]
      /\ n \notin I
  OBVIOUS
<1>2. DOMAIN A = {K[i] : i \in I} /\ DOMAIN B = {K[i] : i \in I \cup {n}}
  BY DEF Contract!Revealed
<1>3. ASSUME NEW i \in I \cup {n}
      PROVE  B[K[i]] = W[i]
  <2>1. (CHOOSE j \in I \cup {n} : Contract!Opened(r, j).Key = K[i]) = i
    BY <1>1
  <2>2. K[i] \in {Contract!Opened(r, j).Key : j \in I \cup {n}}
    OBVIOUS
  <2> QED
    BY <2>1, <2>2 DEF Contract!Revealed
<1>4. ASSUME NEW i \in I
      PROVE  A[K[i]] = W[i]
  <2>1. (CHOOSE j \in I : Contract!Opened(r, j).Key = K[i]) = i
    BY <1>1
  <2>2. K[i] \in {Contract!Opened(r, j).Key : j \in I}
    OBVIOUS
  <2> QED
    BY <2>1, <2>2 DEF Contract!Revealed
<1>5. B = [k \in DOMAIN B |-> B[k]]
  BY DEF Contract!Revealed
<1>6. Entry(r, n) = g
  BY <1>1 DEF Entry
<1>7. \A i \in I : K[i] # K[n]
  BY <1>1
<1> HIDE DEF K, W, A, B
<1>8. B = Overlay(A, g)
  <2>1. DOMAIN Overlay(A, g) = DOMAIN B
    BY <1>2 DEF Overlay
  <2>2. ASSUME NEW k \in DOMAIN B
        PROVE  Overlay(A, g)[k] = B[k]
    <3>1. PICK i \in I \cup {n} : k = K[i]
      BY <1>2
    <3>2. CASE i = n
      BY <1>3, <3>1, <3>2 DEF Overlay
    <3>3. CASE i \in I
      BY <1>2, <1>3, <1>4, <1>7, <3>1, <3>3 DEF Overlay
    <3> QED
      BY <3>2, <3>3
  <2>3. Overlay(A, g) = [k \in DOMAIN Overlay(A, g) |-> Overlay(A, g)[k]]
    BY DEF Overlay
  <2> QED
    BY <1>5, <2>1, <2>2, <2>3
<1> QED
  BY <1>6, <1>8 DEF A, B

(* One more disclosure applied: its value is written into its home, over   *)
(* what is there.                                                          *)
LEMMA ApplyOne ==
  ASSUME NEW r, NEW h, NEW n \in Nat, n \in Contract!Keyed(r), Contract!Keyed(r) \subseteq Nat,
         h[n] \in Objects(Contract!Signed(r)),
         \A i, j \in Below(r, n + 1) :
           i # j => Contract!Opened(r, i).Key # Contract!Opened(r, j).Key
  PROVE  /\ Contract!Revealed(r, Below(r, n + 1)) =
              Overlay(Contract!Revealed(r, Below(r, n)), Entry(r, n))
         /\ Applied(r, h, n + 1) =
              [Applied(r, h, n) EXCEPT !.val[h[n]] = Overlay(@, Entry(r, n))]
<1> DEFINE g == Entry(r, n)
           I(o) == {i \in Below(r, n) : h[i] = o}
           J(o) == {i \in Below(r, n + 1) : h[i] = o}
           p == Contract!Signed(r)
           A == Applied(r, h, n)
           B == Applied(r, h, n + 1)
<1>1. Below(r, n + 1) = Below(r, n) \cup {n} /\ n \notin Below(r, n)
  BY DEF Below
<1>2. /\ \A i \in Below(r, n) : Contract!Opened(r, i).Key # Contract!Opened(r, n).Key
      /\ \A i, j \in Below(r, n) :
           i # j => Contract!Opened(r, i).Key # Contract!Opened(r, j).Key
  BY <1>1
<1>3. Contract!Revealed(r, Below(r, n + 1)) = Overlay(Contract!Revealed(r, Below(r, n)), g)
  BY <1>1, <1>2, RevealOne
<1>4. ASSUME NEW o, o # h[n]
      PROVE  J(o) = I(o)
  BY <1>1, <1>4
<1>5. Contract!Revealed(r, J(h[n])) = Overlay(Contract!Revealed(r, I(h[n])), g)
  <2>1. J(h[n]) = I(h[n]) \cup {n}
    BY <1>1
  <2>2. /\ \A i \in I(h[n]) : Contract!Opened(r, i).Key # Contract!Opened(r, n).Key
        /\ \A i, j \in I(h[n]) :
             i # j => Contract!Opened(r, i).Key # Contract!Opened(r, j).Key
    BY <1>2
  <2> HIDE DEF I, J
  <2> QED
    BY <2>1, <2>2, RevealOne
<1>6. /\ A = [val |-> A.val, sd |-> p.sd] /\ B = [val |-> B.val, sd |-> p.sd]
      /\ A.val = [o \in Objects(p) |-> Overlay(p.val[o], Contract!Revealed(r, I(o)))]
      /\ B.val = [o \in Objects(p) |-> Overlay(p.val[o], Contract!Revealed(r, J(o)))]
  BY DEF Applied
<1>7. [A EXCEPT !.val[h[n]] = Overlay(@, g)] =
        [val |-> [A.val EXCEPT ![h[n]] = Overlay(A.val[h[n]], g)], sd |-> p.sd]
  BY <1>6
<1> HIDE DEF A, B, I, J, g
<1>8. B.val = [A.val EXCEPT ![h[n]] = Overlay(A.val[h[n]], g)]
  <2> DEFINE C == [A.val EXCEPT ![h[n]] = Overlay(A.val[h[n]], g)]
  <2>1. /\ DOMAIN C = Objects(p) /\ DOMAIN B.val = Objects(p)
        /\ C = [o \in Objects(p) |-> C[o]] /\ B.val = [o \in Objects(p) |-> B.val[o]]
    BY <1>6
  <2>2. ASSUME NEW o \in Objects(p)
        PROVE  B.val[o] = C[o]
    <3>1. CASE o = h[n]
      <4>1. A.val[o] = Overlay(p.val[o], Contract!Revealed(r, I(o)))
        BY <1>6
      <4>2. B.val[o] = Overlay(p.val[o], Overlay(Contract!Revealed(r, I(o)), g))
        BY <1>5, <1>6, <3>1
      <4>3. C[o] = Overlay(A.val[o], g)
        BY <1>6, <3>1
      <4> QED
        BY <4>1, <4>2, <4>3, OverlayAssoc
    <3>2. CASE o # h[n]
      BY <1>4, <1>6, <3>2
    <3> QED
      BY <3>1, <3>2
  <2> QED
    BY <2>1, <2>2
<1>9. B = [A EXCEPT !.val[h[n]] = Overlay(@, g)]
  BY <1>6, <1>7, <1>8
<1> QED
  BY <1>3, <1>9 DEF A, B, g

-----------------------------------------------------------------------------
(* The walk is over: the loop starts with nothing applied.                 *)
LEMMA CollectReturnChain == ChainInv /\ CollectReturn => ChainInv'
<1> SUFFICES ASSUME ChainInv, CollectReturn PROVE ChainInv'
  OBVIOUS
<1>1. Inv /\ Inv' /\ clock \in Nat
  BY CollectReturnInv DEF ChainInv, Inv, TypeOK
<1>2. /\ pc = "disclosure_collect" /\ pc' \in {"disclosure_collect", "disclosure"}
      /\ UNCHANGED <<clock, opts, raw, nonce, t, issuer, pubKey, now, payload, digestMap, next,
                     disclosed>>
  BY DEF CollectReturn, discVars, parseVars, keyVars
<1> USE DEF AfterDecode, AfterKey, AfterSig, AfterExp, AfterNbf, AfterAlg, AfterWalk,
    AfterLoop, Stages
<1>3. Reading' /\ Checked'
  BY <1>1, <1>2, KeepReading, KeepChecked DEF ChainInv
<1>4. Unrevealed' /\ Looped' /\ Binding'
  BY <1>2 DEF ChainInv, Unrevealed, Looped, Binding
<1>5. ASSUME pc' = "disclosure"
      PROVE  Loop'
  <2>1. next = 1 /\ disclosed = <<>> /\ payload = Contract!Signed(raw)
    BY <1>2 DEF ChainInv, Unrevealed
  <2>2. /\ Contract!Discs(raw) = t.Disclosures /\ Len(t.Disclosures) \in Nat
        /\ DOMAIN t.Disclosures = 1 .. Len(t.Disclosures) /\ IsPayload(payload)
    BY <1>1, <1>2, <2>1, SamePresentation
  <2>3. Below(raw, 1) = {}
    BY <2>2 DEF Below, Contract!Keyed
  <2>4. \A h : Applied(raw, h, 1) = payload
    <3> SUFFICES ASSUME NEW h PROVE Applied(raw, h, 1) = payload
      OBVIOUS
    <3>1. PICK p : p = payload
      OBVIOUS
    <3>2. IsPayload(p) /\ Contract!Signed(raw) = p
      BY <2>1, <2>2, <3>1
    <3>3. Applied(raw, h, 1) =
            [val |-> [o \in Objects(p) |-> Overlay(p.val[o], <<>>)], sd |-> p.sd]
      <4>1. \A o : {i \in Below(raw, 1) : h[i] = o} = {}
        BY <2>3
      <4>2. \A o : Contract!Revealed(raw, {i \in Below(raw, 1) : h[i] = o}) = <<>>
        BY <4>1, NothingRevealed
      <4> QED
        BY <3>2, <4>2 DEF Applied
    <3>4. \A o \in Objects(p) : Overlay(p.val[o], <<>>) = p.val[o]
      <4> SUFFICES ASSUME NEW o \in Objects(p) PROVE Overlay(p.val[o], <<>>) = p.val[o]
        OBVIOUS
      <4>1. p.val[o] = [k \in DOMAIN p.val[o] |-> p.val[o][k]]
        BY <3>2 DEF IsPayload
      <4> QED
        BY <4>1, OverlayNothing
    <3>5. p = [val |-> [o \in Objects(p) |-> p.val[o]], sd |-> p.sd]
      BY <3>2 DEF IsPayload
    <3> QED
      BY <3>1, <3>3, <3>4, <3>5
  <2>5. Below(raw, next)' = {} /\ Applied(raw, Placement, next)' = payload
        /\ Contract!Revealed(raw, Below(raw, next))' = <<>>
    BY <1>2, <2>1, <2>3, <2>4, NothingRevealed
  <2>6. next' = 1 /\ disclosed' = <<>> /\ payload' = payload
        /\ Len(Contract!Discs(raw))' \in Nat
    BY <1>2, <2>1, <2>2
  <2>7. /\ (next \in 1 .. Len(Contract!Discs(raw)) + 1)'
        /\ (1 .. next - 1)' = {}
    BY <2>6
  <2> QED
    BY <2>5, <2>6, <2>7 DEF Loop
<1>6. pc' = "disclosure_collect" => Loop'
  BY DEF Loop
<1> QED
  BY <1>1, <1>2, <1>3, <1>4, <1>5, <1>6 DEF ChainInv

(* Where Verify writes a disclosure it has looked up.                      *)
LEMMA HomeOf ==
  ASSUME ChainInv, pc \in AfterWalk, NEW i \in DOMAIN t.Disclosures,
         Digest(hashAlg, t.Disclosures[i]) \in DOMAIN digestMap
  PROVE  /\ Placement[i] = digestMap[Digest(hashAlg, t.Disclosures[i])]
         /\ Placement[i] \in Objects(Contract!Signed(raw))
         /\ Digest(hashAlg, t.Disclosures[i]) \in ToSet(Contract!Signed(raw).sd[Placement[i]])
         /\ Placement[i] \in Contract!Homes(raw, i)
<1>1. pc \in AfterDecode /\ Collected
  BY DEF AfterWalk, AfterAlg, AfterNbf, AfterExp, AfterSig, AfterKey, AfterDecode, Stages,
     Collected, Decoded
<1>2. /\ Contract!Discs(raw) = t.Disclosures /\ Inv
      /\ Contract!sdAlg(Contract!Signed(raw)) = hashAlg
  BY <1>1, SamePresentation DEF ChainInv
<1>3. Placement[i] = digestMap[Digest(hashAlg, t.Disclosures[i])]
  BY <1>2 DEF Placement, Home
<1>4. payload.sd = Contract!Signed(raw).sd /\ Objects(payload) = Objects(Contract!Signed(raw))
  BY DEF ChainInv, Loop, Applied, Objects
<1>5. /\ Placement[i] \in Objects(Contract!Signed(raw))
      /\ Digest(hashAlg, t.Disclosures[i]) \in ToSet(Contract!Signed(raw).sd[Placement[i]])
  BY <1>1, <1>2, <1>3, <1>4 DEF Inv, DigestMapExact
<1>6. Contract!ToSet(Contract!Signed(raw).sd[Placement[i]]) =
        ToSet(Contract!Signed(raw).sd[Placement[i]])
  BY DEF Contract!ToSet, ToSet
<1>7. Placement[i] \in Contract!Homes(raw, i)
  BY <1>2, <1>5, <1>6, ContractOperators DEF Contract!Homes
<1> QED
  BY <1>3, <1>5, <1>7

(* One turn of the loop applies one more disclosure.                       *)
LEMMA DisclosureChain == ChainInv /\ VerifyDisclosure => ChainInv'
<1> SUFFICES ASSUME ChainInv, VerifyDisclosure PROVE ChainInv'
  OBVIOUS
<1>1. Inv /\ Inv' /\ clock \in Nat
  BY DisclosureInv DEF ChainInv, Inv, TypeOK
<1> DEFINE enc == t.Disclosures[next]
           d == ParseDisclosure(enc)
           digest == Digest(hashAlg, enc)
<1>2. /\ pc = "disclosure" /\ next <= Len(t.Disclosures)
      /\ UNCHANGED <<clock, opts, raw, nonce, t, issuer, pubKey, now, digestMap>>
      /\ \/ pc' = "rejected"
         \/ /\ pc' = pc /\ DisclosureParses(enc) /\ digest \in DOMAIN digestMap /\ next' = next + 1
            /\ \/ /\ d.Key # Nil /\ d.Key \notin DOMAIN disclosed
                  /\ payload' = [payload EXCEPT !.val[digestMap[digest]] =
                                   Overlay(@, [k \in {d.Key} |-> d.Value])]
                  /\ disclosed' = Overlay(disclosed, [k \in {d.Key} |-> d.Value])
               \/ d.Key = Nil /\ UNCHANGED <<payload, disclosed>>
  BY DEF VerifyDisclosure, RejectAt, discVars, parseVars, keyVars, walkVars
<1>3. CASE pc' = "rejected"
  BY <1>1, <1>2, <1>3, LeaveChain
<1>4. CASE pc' = pc
  <2>1. pc \in AfterDecode /\ pc \in AfterWalk /\ pc \notin AfterLoop
    BY <1>2 DEF AfterWalk, AfterAlg, AfterNbf, AfterExp, AfterSig, AfterKey, AfterDecode,
       AfterLoop, Stages
  <2>2. PICK r, n, h : r = raw /\ n = next /\ h = Placement
    OBVIOUS
  <2>3. /\ Contract!Discs(r) = t.Disclosures /\ Len(t.Disclosures) \in Nat
        /\ DOMAIN t.Disclosures = 1 .. Len(t.Disclosures)
    BY <1>1, <2>1, <2>2, SamePresentation
  <2>4. n \in Nat /\ n \in DOMAIN t.Disclosures /\ Contract!Keyed(r) \subseteq Nat
    <3>1. n \in 1 .. Len(t.Disclosures) + 1 /\ n <= Len(t.Disclosures)
      BY <1>2, <2>1, <2>2, <2>3 DEF ChainInv, Loop
    <3> QED
      BY <2>3, <3>1 DEF Contract!Keyed
  <2>5. /\ pc' # "rejected" /\ DisclosureParses(enc) /\ digest \in DOMAIN digestMap
        /\ next' = n + 1
    BY <1>2, <1>4, <2>2
  <2>6. Contract!Opened(r, n) = d /\ (n \in Contract!Keyed(r) <=> d.Key # Nil)
    BY <2>2, <2>3, <2>4, <2>5, ContractOperators DEF Contract!Opened, Contract!Keyed
  <2>7. /\ \A i \in 1 .. n - 1 :
             /\ DisclosureParses(Contract!Discs(r)[i])
             /\ Digest(hashAlg, Contract!Discs(r)[i]) \in DOMAIN digestMap
        /\ \A i, j \in Below(r, n) :
             i # j => Contract!Opened(r, i).Key # Contract!Opened(r, j).Key
        /\ disclosed = Contract!Revealed(r, Below(r, n))
        /\ payload = Applied(r, h, n)
    BY <2>1, <2>2 DEF ChainInv, Loop
  <2>8. h[n] = digestMap[digest] /\ h[n] \in Objects(Contract!Signed(r))
    BY <2>1, <2>2, <2>4, <2>5, HomeOf
  <2>9. /\ \A i, j \in Below(r, n + 1) :
             i # j => Contract!Opened(r, i).Key # Contract!Opened(r, j).Key
        /\ disclosed' = Contract!Revealed(r, Below(r, n + 1))
        /\ payload' = Applied(r, h, n + 1)
    <3>1. CASE d.Key = Nil
      <4>1. Below(r, n + 1) = Below(r, n)
        BY <2>4, <2>6, <3>1 DEF Below
      <4>2. UNCHANGED <<payload, disclosed>>
        BY <1>2, <2>5, <3>1
      <4>3. Applied(r, h, n + 1) = Applied(r, h, n)
        BY <4>1 DEF Applied
      <4> QED
        BY <2>7, <4>1, <4>2, <4>3
    <3>2. CASE d.Key # Nil
      <4>1. /\ d.Key \notin DOMAIN disclosed
            /\ payload' = [payload EXCEPT !.val[h[n]] = Overlay(@, Entry(r, n))]
            /\ disclosed' = Overlay(disclosed, Entry(r, n))
        BY <1>2, <2>5, <2>6, <2>8, <3>2 DEF Entry
      <4>2. DOMAIN disclosed = {Contract!Opened(r, i).Key : i \in Below(r, n)}
        BY <2>7 DEF Contract!Revealed
      <4>3. Below(r, n + 1) = Below(r, n) \cup {n}
        BY <2>4, <2>6, <3>2 DEF Below
      <4>4. \A i, j \in Below(r, n + 1) :
              i # j => Contract!Opened(r, i).Key # Contract!Opened(r, j).Key
        BY <2>6, <2>7, <4>1, <4>2, <4>3
      <4>5. /\ Contract!Revealed(r, Below(r, n + 1)) =
                 Overlay(Contract!Revealed(r, Below(r, n)), Entry(r, n))
            /\ Applied(r, h, n + 1) =
                 [Applied(r, h, n) EXCEPT !.val[h[n]] = Overlay(@, Entry(r, n))]
        BY <2>4, <2>6, <2>8, <3>2, <4>4, ApplyOne
      <4> QED
        BY <2>7, <4>1, <4>4, <4>5
    <3> QED
      BY <3>1, <3>2
  <2>10. hashAlg' = hashAlg /\ Placement' = h /\ raw' = r
    BY <1>2, <2>2 DEF hashAlg, Placement, Home
  <2>11. n + 1 \in 1 .. Len(Contract!Discs(r)) + 1
    BY <2>3, <2>4
  <2>12. \A i \in 1 .. (n + 1) - 1 :
           /\ DisclosureParses(Contract!Discs(r)[i])
           /\ Digest(hashAlg, Contract!Discs(r)[i]) \in DOMAIN digestMap
    <3> SUFFICES ASSUME NEW i \in 1 .. (n + 1) - 1
                 PROVE  /\ DisclosureParses(Contract!Discs(r)[i])
                        /\ Digest(hashAlg, Contract!Discs(r)[i]) \in DOMAIN digestMap
      OBVIOUS
    <3>1. i \in 1 .. n - 1 \/ i = n
      BY <2>4
    <3> QED
      BY <2>2, <2>3, <2>5, <2>7, <3>1
  <2>13. Loop'
    BY <1>2, <2>5, <2>9, <2>10, <2>11, <2>12 DEF Loop
  <2>14. Reading' /\ Checked'
    BY <1>1, <1>2, <1>4, KeepReading, KeepChecked DEF ChainInv
  <2>15. Unrevealed' /\ Looped' /\ Binding'
    BY <1>2, <1>4, <2>1 DEF Unrevealed, Looped, Binding
  <2> QED
    BY <1>1, <2>13, <2>14, <2>15 DEF ChainInv
<1> QED
  BY <1>2, <1>3, <1>4

-----------------------------------------------------------------------------
(* After the loop the payload stands; the checks of the KB-JWT add up.     *)
LEMMA LateChain ==
  ASSUME ChainInv, Inv', pc \in AfterWalk, pc' \in AfterLoop, Looped', Binding',
         UNCHANGED <<clock, opts, raw, nonce, t, issuer, pubKey, now, payload, digestMap,
                     next, disclosed>>
  PROVE  ChainInv'
<1>1. /\ pc \in AfterDecode /\ pc # "idle" /\ pc \in AfterKey /\ pc \in AfterSig
      /\ pc \in AfterExp /\ pc \in AfterNbf /\ pc \in AfterAlg /\ clock \in Nat
      /\ pc' \notin {"idle", "parse", "issuer_jwt_decode"} /\ pc' \in AfterWalk
  BY DEF AfterWalk, AfterAlg, AfterNbf, AfterExp, AfterSig, AfterKey, AfterDecode,
     AfterLoop, Stages, ChainInv, Inv, TypeOK
<1>2. Reading' /\ Unrevealed' /\ Checked'
  BY <1>1, KeepReading, KeepUnrevealed, KeepChecked DEF ChainInv
<1>3. Loop'
  <2>1. hashAlg' = hashAlg
    BY DEF hashAlg
  <2>2. Placement' = Placement
    BY <2>1 DEF Placement, Home
  <2> QED
    BY <2>1, <2>2 DEF ChainInv, Loop, Below, Applied
<1> QED
  BY <1>2, <1>3 DEF ChainInv

(* The loop is left after the last disclosure.                             *)
LEMMA DisclosuresDoneChain == ChainInv /\ DisclosuresDone => ChainInv'
<1> SUFFICES ASSUME ChainInv, DisclosuresDone PROVE ChainInv'
  OBVIOUS
<1>1. Inv /\ Inv'
  BY DisclosuresDoneInv DEF ChainInv
<1>2. /\ pc = "disclosure" /\ pc' = "kbjwt" /\ next > Len(t.Disclosures)
      /\ UNCHANGED <<clock, opts, raw, nonce, t, issuer, pubKey, now, payload, digestMap,
                     next, disclosed>>
  BY DEF DisclosuresDone, discVars, parseVars, keyVars, walkVars
<1>3. pc \in AfterDecode /\ pc \in AfterWalk /\ pc' \in AfterLoop
  BY <1>2 DEF AfterWalk, AfterAlg, AfterNbf, AfterExp, AfterSig, AfterKey, AfterDecode,
     AfterLoop, Stages
<1>4. Contract!Discs(raw) = t.Disclosures /\ Len(t.Disclosures) \in Nat
  BY <1>1, <1>3, SamePresentation
<1>5. next = Len(Contract!Discs(raw)) + 1
  BY <1>2, <1>3, <1>4 DEF ChainInv, Loop
<1>6. Looped' /\ Binding'
  BY <1>2, <1>5 DEF Looped, Binding
<1> QED
  BY <1>1, <1>2, <1>3, <1>6, LateChain

(* The check for a required KB-JWT.                                        *)
LEMMA RequireKBChain == ChainInv /\ RequireKBJWT => ChainInv'
<1> SUFFICES ASSUME ChainInv, RequireKBJWT PROVE ChainInv'
  OBVIOUS
<1>1. Inv /\ Inv'
  BY RequireKBInv DEF ChainInv
<1>2. /\ pc = "kbjwt"
      /\ UNCHANGED <<clock, opts, raw, nonce, t, issuer, pubKey, now, payload, digestMap,
                     next, disclosed>>
      /\ \/ pc' = "rejected"
         \/ pc' = "cnf" /\ HasKeyBinding(t)
         \/ pc' = "vct" /\ ~HasKeyBinding(t) /\ ~opts.requireKeyBinding
  BY DEF RequireKBJWT, Check, RejectAt, discVars, parseVars, keyVars, walkVars
<1>3. CASE pc' = "rejected"
  BY <1>1, <1>2, <1>3, LeaveChain
<1>4. CASE pc' # "rejected"
  <2>1. pc \in AfterWalk /\ pc \in AfterLoop /\ pc' \in AfterLoop
    BY <1>2, <1>4 DEF AfterWalk, AfterAlg, AfterNbf, AfterExp, AfterSig, AfterKey, AfterDecode,
       AfterLoop, Stages
  <2>2. Looped'
    BY <1>2, <2>1 DEF ChainInv, Looped
  <2>3. Binding'
    BY <1>2, <1>4 DEF ChainInv, Binding
  <2> QED
    BY <1>1, <1>2, <2>1, <2>2, <2>3, LateChain
<1> QED
  BY <1>3, <1>4

(* Each check of the KB-JWT adds what it found to those before it.         *)
LEMMA KBChain == ChainInv /\ VerifyKBJWT => ChainInv'
<1> SUFFICES ASSUME ChainInv, VerifyKBJWT PROVE ChainInv'
  OBVIOUS
<1>1. Inv /\ Inv'
  BY KBInv DEF ChainInv
<1>2. /\ UNCHANGED <<clock, opts, raw, nonce, t, issuer, pubKey, now, payload, digestMap,
                     next, disclosed>>
      /\ pc \in {"cnf", "kbjwt_decode", "kbjwt_key", "kbjwt_sig", "kbjwt_nonce", "kbjwt_aud",
                 "kbjwt_sd_hash"}
      /\ \/ pc' = "rejected"
         \/ pc = "cnf" /\ pc' = "kbjwt_decode" /\ hasCnf(payload)
         \/ pc = "kbjwt_decode" /\ pc' = "kbjwt_key" /\ decodes(t.KBJWT)
         \/ pc = "kbjwt_key" /\ pc' = "kbjwt_sig" /\ cnfKey(payload) # Nil
         \/ /\ pc = "kbjwt_sig" /\ pc' = "kbjwt_nonce"
            /\ verifyJWTSignature(t.KBJWT, cnfKey(payload))
         \/ /\ pc = "kbjwt_nonce" /\ pc' = "kbjwt_aud"
            /\ nonce # Nil => kbPayload.nonce = nonce
         \/ /\ pc = "kbjwt_aud" /\ pc' = "kbjwt_sd_hash"
            /\ opts.audience # Nil => opts.audience \in kbPayload.aud
         \/ /\ pc = "kbjwt_sd_hash" /\ pc' = "vct"
            /\ kbPayload.sd_hash = DigestSHA256(Prefix(t))
  BY DEF VerifyKBJWT, Check, RejectAt, discVars, parseVars, keyVars, walkVars
<1>3. CASE pc' = "rejected"
  BY <1>1, <1>2, <1>3, LeaveChain
<1>4. CASE pc' # "rejected"
  <2>1. pc \in AfterWalk /\ pc \in AfterLoop /\ pc' \in AfterLoop
    BY <1>2, <1>4 DEF AfterWalk, AfterAlg, AfterNbf, AfterExp, AfterSig, AfterKey, AfterDecode,
       AfterLoop, Stages
  <2>2. Looped'
    BY <1>2, <2>1 DEF ChainInv, Looped
  <2>3. Binding'
    <3>1. Binding /\ kbPayload' = kbPayload
      BY <1>2 DEF ChainInv, kbPayload
    <3> QED
      BY <1>2, <1>4, <3>1 DEF Binding
  <2> QED
    BY <1>1, <1>2, <2>1, <2>2, <2>3, LateChain
<1> QED
  BY <1>3, <1>4

(* The vct check ends the chain.                                           *)
LEMMA VCTChain == ChainInv /\ CheckVCT => ChainInv'
<1> SUFFICES ASSUME ChainInv, CheckVCT PROVE ChainInv'
  OBVIOUS
<1>1. Inv /\ Inv'
  BY VCTInv DEF ChainInv
<1>2. pc = "vct" /\ pc' \in {"rejected", "accepted"} /\ nonce' = nonce
  BY DEF CheckVCT, RejectAt, parseVars
<1> QED
  BY <1>1, <1>2, LeaveChain

(* What each stage of the chain has established holds throughout.          *)
THEOREM ChainInvariance == Spec => []ChainInv
<1>1. Init => ChainInv
  BY InitChain
<1>2. ChainInv /\ [Next]_vars => ChainInv'
  <2> SUFFICES ASSUME ChainInv, [Next]_vars PROVE ChainInv'
    OBVIOUS
  <2>1. CASE Tick
    BY <2>1, TickChain
  <2>2. CASE \E r \in Presentations, n \in Nonces : Verify(r, n)
    BY <2>2, VerifyChain
  <2>3. CASE Step
    BY <2>3, ParseChain, DecodeChain, ResolveChain, SignatureChain, ExpChain, NbfChain,
       SdAlgChain, CollectNestedChain, CollectReturnChain, DisclosureChain,
       DisclosuresDoneChain, RequireKBChain, KBChain, VCTChain, ReturnChain DEF Step, OwnStep
  <2>4. CASE UNCHANGED vars
    <3>1. /\ UNCHANGED <<clock, opts, pc, raw, nonce, t, issuer, pubKey, now, payload, cur,
                         visited, digestMap, next, disclosed>>
          /\ clock \in Nat
      BY <2>4 DEF vars, parseVars, keyVars, walkVars, discVars, ChainInv, Inv, TypeOK
    <3>2. Inv'
      BY <3>1 DEF ChainInv, Inv, TypeOK, CallOK, NotStarted, Walking, ExactFor,
         DigestMapExact, Collected, Decoded
    <3> QED
      BY <3>1, <3>2, KeepReading, KeepUnrevealed, KeepChecked, KeepLoop, KeepBinding
         DEF ChainInv
  <2> QED
    BY <2>1, <2>2, <2>3, <2>4 DEF Next
<1> QED
  BY <1>1, <1>2, PTL DEF Spec

-----------------------------------------------------------------------------
(* Until the timing checks the call has not looked at the clock.           *)
BeforeExp == {"idle", "parse", "issuer_jwt_decode", "key_resolution", "signature", "exp"}

Looked == pc \in BeforeExp => now = Nil

(* A stage up to exp comes after another such stage.                       *)
LEMMA StepLooked ==
  ASSUME Looked, [Next]_vars
  PROVE  Looked'
<1> USE DEF BeforeExp
<1>1. CASE Tick
  BY <1>1 DEF Looked, Tick, keyVars
<1>2. CASE \E r \in Presentations, n \in Nonces : Verify(r, n)
  BY <1>2 DEF Looked, Verify, keyVars
<1>3. CASE ParseRaw \/ DecodeIssuerJWT \/ VerifySignature
  BY <1>3 DEF Looked, ParseRaw, DecodeIssuerJWT, VerifySignature, Check, RejectAt, keyVars
<1>4. CASE ResolveIssuerKey
  BY <1>4 DEF Looked, ResolveIssuerKey, KeyResolved, Check, RejectAt
<1>5. CASE CheckExp \/ CheckNbf \/ ResolveSdAlg
  BY <1>5 DEF Looked, CheckExp, CheckNbf, ResolveSdAlg, Check, RejectAt
<1>6. CASE CollectNested \/ CollectReturn
  BY <1>6 DEF Looked, CollectNested, CollectReturn, Check, RejectAt
<1>7. CASE VerifyDisclosure \/ DisclosuresDone
  BY <1>7 DEF Looked, VerifyDisclosure, DisclosuresDone, RejectAt
<1>8. CASE RequireKBJWT \/ VerifyKBJWT
  BY <1>8 DEF Looked, RequireKBJWT, VerifyKBJWT, Check, RejectAt
<1>9. CASE CheckVCT
  BY <1>9 DEF Looked, CheckVCT, RejectAt
<1>10. CASE Return
  BY <1>10 DEF Looked, Return
<1>11. CASE UNCHANGED vars
  BY <1>11 DEF Looked, vars, keyVars
<1> QED
  BY <1>1, <1>2, <1>3, <1>4, <1>5, <1>6, <1>7, <1>8, <1>9, <1>10, <1>11
     DEF Next, Step, OwnStep

-----------------------------------------------------------------------------
(* The steps of Verifier as steps of the contract.                         *)

(* A check that passes is not seen.                                        *)
LEMMA Unseen ==
  ASSUME pc \in Stages, pc' \in Stages, UNCHANGED <<clock, opts, raw, nonce, now, outcome>>
  PROVE  UNCHANGED Contract!vars
BY DEF Contract!vars, Stages, Answered

(* The time at which the call is answered.                                 *)
At == IF now = Nil THEN clock ELSE now

(* A check that fails is the answer, when the contract agrees that it is   *)
(* the first to fail.                                                      *)
LEMMA Refusal ==
  ASSUME pc \in Stages, UNCHANGED <<clock, opts, raw, nonce>>, now' \in {now, At},
         NEW s \in DOMAIN Contract!Sentinel, NEW e, e = Contract!Sentinel[s], RejectAt(s, e),
         Contract!Justified([raw |-> raw, nonce |-> nonce], s, At)
  PROVE  Contract!Answer
<1>1. pc' = "rejected" /\ outcome' = [accepted |-> FALSE, stage |-> s, err |-> e]
  BY DEF RejectAt
<1>2. Contract!Reject(At)
  BY <1>1 DEF Contract!Reject
<1> QED
  BY <1>1, <1>2 DEF Contract!Answer, Stages, Answered, At

(* What a check of the issuer's part reports.                              *)
LEMMA IssuerRefusal ==
  ASSUME Contract!Readable(raw), NEW k \in Contract!Answers(raw), NEW at, NEW s,
         s = Contract!IssuerVerdict(raw, k, at)
  PROVE  Contract!Justified([raw |-> raw, nonce |-> nonce], s, at)
BY DEF Contract!Justified

(* After the walk the checks before the disclosures hold, and so do those  *)
(* of the disclosures handled so far.                                      *)
LEMMA WalkedPart ==
  ASSUME ChainInv, pc \in AfterWalk
  PROVE  /\ Contract!Readable(raw) /\ pubKey \in Contract!Answers(raw) /\ now \in 0 .. clock
         /\ pubKey # Nil /\ Contract!verifyJWTSignature(Contract!Jwt(raw), pubKey)
         /\ Contract!InTime(raw, now) /\ Contract!Started(raw, now)
         /\ Contract!sdAlg(Contract!Signed(raw)) # Nil /\ ~Contract!TooDeep(raw)
         /\ \A i \in 1 .. next - 1 : Contract!DisclosureVerdict(raw, i) = "none"
<1>1. /\ pc \in AfterDecode /\ pc \in AfterKey /\ pc \in AfterSig /\ pc \in AfterExp
      /\ pc \in AfterNbf /\ pc \in AfterAlg /\ Collected /\ Inv
  BY DEF AfterWalk, AfterAlg, AfterNbf, AfterExp, AfterSig, AfterKey, AfterDecode, Stages,
     Collected, Decoded, ChainInv
<1>2. /\ Contract!Readable(raw) /\ pubKey \in Contract!Answers(raw) \ {Nil}
      /\ now \in 0 .. clock
      /\ verifyJWTSignature(t.IssuerJWT, pubKey) /\ Contract!InTime(raw, now)
      /\ Contract!Started(raw, now) /\ hashAlg # Nil
  BY <1>1 DEF ChainInv, Reading, Checked
<1>3. /\ Contract!Jwt(raw) = t.IssuerJWT /\ Contract!Discs(raw) = t.Disclosures
      /\ IsPayload(Contract!Signed(raw)) /\ Contract!sdAlg(Contract!Signed(raw)) = hashAlg
      /\ Len(t.Disclosures) \in Nat /\ DOMAIN t.Disclosures = 1 .. Len(t.Disclosures)
  BY <1>1, SamePresentation
<1>4. Contract!verifyJWTSignature(Contract!Jwt(raw), pubKey)
  BY <1>2, <1>3, ContractOperators
<1>5. ~Contract!TooDeep(raw)
  <2>1. Objects(payload) = Objects(Contract!Signed(raw))
    BY DEF ChainInv, Loop, Applied, Objects
  <2>2. \A o \in Objects(Contract!Signed(raw)) : Len(o) <= maxVerifyDepth /\ Len(o) \in Nat
    BY <1>1, <1>3, <2>1, LenProperties DEF Inv, DigestMapExact, IsPayload
  <2>3. Contract!Objects(Contract!Signed(raw)) = Objects(Contract!Signed(raw))
    BY ContractOperators
  <2> QED
    BY <2>2, <2>3, VerifierAssumption DEF Contract!TooDeep
<1>6. ASSUME NEW i \in 1 .. next - 1
      PROVE  Contract!DisclosureVerdict(raw, i) = "none"
  <2>1. next \in 1 .. Len(t.Disclosures) + 1
    BY <1>3 DEF ChainInv, Loop
  <2>2. /\ DisclosureParses(t.Disclosures[i])
        /\ Digest(hashAlg, t.Disclosures[i]) \in DOMAIN digestMap
    BY <1>3 DEF ChainInv, Loop
  <2>3. i \in DOMAIN t.Disclosures /\ i \in Nat
    BY <1>3, <2>1
  <2>4. Contract!Homes(raw, i) # {}
    BY <2>2, <2>3, HomeOf
  <2>5. ASSUME i \in Contract!Keyed(raw), NEW j \in Contract!Keyed(raw), j < i
        PROVE  Contract!Opened(raw, j).Key # Contract!Opened(raw, i).Key
    <3>1. j \in Nat /\ i < next /\ j < next
      BY <1>3, <2>1, <2>3, <2>5 DEF Contract!Keyed
    <3>2. i \in Below(raw, next) /\ j \in Below(raw, next) /\ i # j
      BY <2>3, <2>5, <3>1 DEF Below
    <3> QED
      BY <3>2 DEF ChainInv, Loop
  <2>6. Contract!DisclosureParses(Contract!Discs(raw)[i])
    BY <1>3, <2>2, ContractOperators
  <2> QED
    BY <2>4, <2>5, <2>6 DEF Contract!DisclosureVerdict
<1> QED
  BY <1>2, <1>3, <1>4, <1>5, <1>6

(* After the loop everything the contract asks of the issuer's part holds, *)
(* and the payload is a reconstruction.                                    *)
LEMMA IssuerPart ==
  ASSUME ChainInv, pc \in AfterLoop
  PROVE  /\ Contract!Readable(raw) /\ pubKey \in Contract!Answers(raw) /\ now \in 0 .. clock
         /\ Contract!IssuerVerdict(raw, pubKey, now) = "none"
         /\ Placement \in Contract!Placements(raw)
         /\ payload = Contract!Reconstructed(raw, Placement)
         /\ disclosed = Contract!Revealed(raw, Contract!Keyed(raw))
         /\ issuer = Claim(Contract!Signed(raw), "iss", "str")
         /\ t = Contract!Parse(raw) /\ Contract!KB(raw) = t.KBJWT
<1>1. /\ pc \in AfterDecode /\ pc \in AfterKey /\ pc \in AfterSig /\ pc \in AfterExp
      /\ pc \in AfterNbf /\ pc \in AfterAlg /\ pc \in AfterWalk /\ Collected
  BY DEF AfterWalk, AfterAlg, AfterNbf, AfterExp, AfterSig, AfterKey, AfterDecode,
     AfterLoop, Stages, Collected, Decoded
<1>2. /\ Contract!Readable(raw) /\ pubKey \in Contract!Answers(raw) \ {Nil}
      /\ now \in 0 .. clock
      /\ verifyJWTSignature(t.IssuerJWT, pubKey) /\ Contract!InTime(raw, now)
      /\ Contract!Started(raw, now) /\ hashAlg # Nil
      /\ issuer = Claim(t.IssuerJWT.jwt.payload, "iss", "str")
  BY <1>1 DEF ChainInv, Reading, Checked
<1>3. Inv
  BY DEF ChainInv
<1>4. /\ Contract!Parse(raw) = t /\ Contract!Jwt(raw) = t.IssuerJWT
      /\ Contract!Discs(raw) = t.Disclosures /\ Contract!KB(raw) = t.KBJWT
      /\ Contract!Signed(raw) = t.IssuerJWT.jwt.payload
      /\ IsPayload(Contract!Signed(raw)) /\ Contract!sdAlg(Contract!Signed(raw)) = hashAlg
      /\ Len(t.Disclosures) \in Nat /\ DOMAIN t.Disclosures = 1 .. Len(t.Disclosures)
  BY <1>1, <1>3, SamePresentation
<1>5. next = Len(t.Disclosures) + 1
  BY <1>4 DEF ChainInv, Looped
<1>6. Below(raw, next) = Contract!Keyed(raw)
  BY <1>4, <1>5 DEF Below, Contract!Keyed
<1>7. /\ \A i \in 1 .. Len(t.Disclosures) :
           /\ DisclosureParses(t.Disclosures[i])
           /\ Digest(hashAlg, t.Disclosures[i]) \in DOMAIN digestMap
      /\ \A i, j \in Contract!Keyed(raw) :
           i # j => Contract!Opened(raw, i).Key # Contract!Opened(raw, j).Key
      /\ disclosed = Contract!Revealed(raw, Contract!Keyed(raw))
      /\ payload = Applied(raw, Placement, next)
  <2>1. next - 1 = Len(t.Disclosures)
    BY <1>4, <1>5
  <2> QED
    BY <1>1, <1>4, <1>6, <2>1 DEF ChainInv, Loop
<1>8. \A i \in DOMAIN t.Disclosures :
        /\ Placement[i] \in Objects(Contract!Signed(raw))
        /\ Placement[i] \in Contract!Homes(raw, i)
  BY <1>1, <1>4, <1>7, HomeOf
<1>9. Placement \in Contract!Placements(raw)
  <2>1. Placement = [i \in DOMAIN t.Disclosures |-> Placement[i]]
    BY <1>4 DEF Placement
  <2>2. Contract!Objects(Contract!Signed(raw)) = Objects(Contract!Signed(raw))
    BY ContractOperators
  <2> QED
    BY <1>4, <1>8, <2>1, <2>2 DEF Contract!Placements
<1>10. payload = Contract!Reconstructed(raw, Placement)
  <2>1. PICK p, h : p = Contract!Signed(raw) /\ h = Placement
    OBVIOUS
  <2> DEFINE R(o) == Contract!Revealed(raw, {i \in Contract!Keyed(raw) : h[i] = o})
  <2>2. p = [val |-> p.val, sd |-> p.sd]
    BY <1>4, <2>1 DEF IsPayload
  <2>3. payload = [val |-> [o \in Objects(p) |-> Overlay(p.val[o], R(o))], sd |-> p.sd]
    BY <1>6, <1>7, <2>1 DEF Applied
  <2>4. Contract!Reconstructed(raw, h) =
          [p EXCEPT !.val = [o \in Contract!Objects(p) |-> Contract!Overlay(p.val[o], R(o))]]
    BY <2>1 DEF Contract!Reconstructed
  <2> HIDE DEF R
  <2>5. [o \in Contract!Objects(p) |-> Contract!Overlay(p.val[o], R(o))] =
          [o \in Objects(p) |-> Overlay(p.val[o], R(o))]
    BY ContractOperators
  <2> QED
    BY <2>1, <2>2, <2>3, <2>4, <2>5
<1>11. Contract!RefusedDiscs(raw) = {}
  <2>1. next - 1 = Len(t.Disclosures)
    BY <1>4, <1>5
  <2>2. \A i \in DOMAIN t.Disclosures : Contract!DisclosureVerdict(raw, i) = "none"
    BY <1>1, <1>4, <2>1, WalkedPart
  <2> QED
    BY <1>4, <2>2 DEF Contract!RefusedDiscs
<1>12. Contract!IssuerVerdict(raw, pubKey, now) = "none"
  BY <1>1, <1>11, WalkedPart DEF Contract!IssuerVerdict
<1> QED
  BY <1>2, <1>4, <1>7, <1>9, <1>10, <1>12

(* What a check of the holder's part, or of the type, reports.             *)
LEMMA LateRefusal ==
  ASSUME ChainInv, pc \in AfterLoop, NEW s,
         s = Contract!LateVerdict([raw |-> raw, nonce |-> nonce], payload)
  PROVE  Contract!Justified([raw |-> raw, nonce |-> nonce], s, now)
<1>1. PICK c, h, k, at : c = [raw |-> raw, nonce |-> nonce] /\ h = Placement /\ k = pubKey
                         /\ at = now
  OBVIOUS
<1>2. /\ Contract!Readable(raw) /\ k \in Contract!Answers(raw)
      /\ Contract!IssuerVerdict(raw, k, at) = "none" /\ h \in Contract!Placements(raw)
      /\ payload = Contract!Reconstructed(raw, h) /\ c.raw = raw
  BY <1>1, IssuerPart
<1>3. s = Contract!LateVerdict(c, Contract!Reconstructed(c.raw, h))
  BY <1>1, <1>2
<1>4. Contract!Justified(c, s, at)
  BY <1>2, <1>3 DEF Contract!Justified
<1> QED
  BY <1>1, <1>4

(* A string that Parse refuses is one the contract refuses.                *)
LEMMA ParseContract == ChainInv /\ ParseRaw => [Contract!Next]_(Contract!vars)
<1> SUFFICES ASSUME ChainInv, ParseRaw PROVE [Contract!Next]_(Contract!vars)
  OBVIOUS
<1>1. /\ pc = "parse" /\ pc \in Stages /\ UNCHANGED <<clock, opts, raw, nonce, now>>
      /\ \/ pc' = "issuer_jwt_decode" /\ UNCHANGED outcome
         \/ ~Parses(raw) /\ RejectAt("parse", "ErrInvalidFormat")
  BY DEF ParseRaw, Check, Stages, keyVars
<1>2. CASE pc' = "issuer_jwt_decode" /\ UNCHANGED outcome
  BY <1>1, <1>2, Unseen DEF Stages
<1>3. CASE ~Parses(raw) /\ RejectAt("parse", "ErrInvalidFormat")
  <2>1. Contract!Justified([raw |-> raw, nonce |-> nonce], "parse", At)
    BY <1>3, ContractOperators DEF Contract!Justified
  <2>2. "parse" \in DOMAIN Contract!Sentinel /\ Contract!Sentinel["parse"] = "ErrInvalidFormat"
    BY DEF Contract!Sentinel
  <2> QED
    BY <1>1, <1>3, <2>1, <2>2, Refusal DEF Contract!Next
<1> QED
  BY <1>1, <1>2, <1>3

(* An issuer JWT that does not decode or names no issuer is unreadable.    *)
LEMMA DecodeContract == ChainInv /\ DecodeIssuerJWT => [Contract!Next]_(Contract!vars)
<1> SUFFICES ASSUME ChainInv, DecodeIssuerJWT PROVE [Contract!Next]_(Contract!vars)
  OBVIOUS
<1> DEFINE ok == decodes(t.IssuerJWT) /\ HasIssuer(t.IssuerJWT.jwt.payload)
<1>1. /\ pc = "issuer_jwt_decode" /\ pc \in Stages
      /\ UNCHANGED <<clock, opts, raw, nonce, now>>
      /\ \/ pc' = "key_resolution" /\ UNCHANGED outcome
         \/ ~ok /\ RejectAt("issuer_jwt_decode", "ErrInvalidFormat")
  BY DEF DecodeIssuerJWT, Check, Stages, parseVars
<1>2. CASE pc' = "key_resolution" /\ UNCHANGED outcome
  BY <1>1, <1>2, Unseen DEF Stages
<1>3. CASE ~ok /\ RejectAt("issuer_jwt_decode", "ErrInvalidFormat")
  <2>1. Parses(raw) /\ t = Parse(raw)
    BY <1>1 DEF ChainInv, Inv, TypeOK
  <2>2. /\ Contract!Parses(raw) /\ Contract!Jwt(raw) = t.IssuerJWT
        /\ Contract!Signed(raw) = t.IssuerJWT.jwt.payload
    BY <2>1, ContractOperators DEF Contract!Jwt, Contract!Signed
  <2>3. ~Contract!Readable(raw)
    BY <1>3, <2>2, ContractOperators DEF Contract!Readable, HasIssuer
  <2>4. Contract!Justified([raw |-> raw, nonce |-> nonce], "issuer_jwt_decode", At)
    BY <2>2, <2>3 DEF Contract!Justified
  <2>5. /\ "issuer_jwt_decode" \in DOMAIN Contract!Sentinel
        /\ Contract!Sentinel["issuer_jwt_decode"] = "ErrInvalidFormat"
    BY DEF Contract!Sentinel
  <2> QED
    BY <1>1, <1>3, <2>4, <2>5, Refusal DEF Contract!Next
<1> QED
  BY <1>1, <1>2, <1>3

(* A failed resolution is one of the resolver's answers.                   *)
LEMMA ResolveContract == ChainInv /\ ResolveIssuerKey => [Contract!Next]_(Contract!vars)
<1> SUFFICES ASSUME ChainInv, ResolveIssuerKey PROVE [Contract!Next]_(Contract!vars)
  OBVIOUS
<1>1. PICK k \in ResolveKey(issuer, t.IssuerJWT.jwt.header.kid) : KeyResolved(k)
  BY DEF ResolveIssuerKey
<1>2. /\ pc = "key_resolution" /\ pc \in Stages
      /\ UNCHANGED <<clock, opts, raw, nonce, now>>
      /\ \/ pc' = "signature" /\ UNCHANGED outcome
         \/ k = Nil /\ RejectAt("key_resolution", "ErrKeyResolutionFailed")
  BY <1>1 DEF KeyResolved, Check, Stages, parseVars
<1>3. CASE pc' = "signature" /\ UNCHANGED outcome
  BY <1>2, <1>3, Unseen DEF Stages
<1>4. CASE k = Nil /\ RejectAt("key_resolution", "ErrKeyResolutionFailed")
  <2>1. pc \in AfterDecode /\ Inv /\ clock \in Nat
    BY <1>2 DEF AfterDecode, Stages, ChainInv, Inv, TypeOK
  <2>2. /\ Contract!Readable(raw) /\ Contract!Jwt(raw) = t.IssuerJWT
        /\ issuer = Contract!Claim(Contract!Signed(raw), "iss", "str")
    BY <2>1, SamePresentation, ContractOperators DEF ChainInv, Reading
  <2>3. k \in Contract!Answers(raw)
    BY <1>1, <2>2 DEF Contract!Answers
  <2>4. Contract!IssuerVerdict(raw, k, At) = "key_resolution"
    BY <1>4 DEF Contract!IssuerVerdict
  <2>5. Contract!Justified([raw |-> raw, nonce |-> nonce], "key_resolution", At)
    BY <2>1, <2>2, <2>3, <2>4, IssuerRefusal
  <2>6. /\ "key_resolution" \in DOMAIN Contract!Sentinel
        /\ Contract!Sentinel["key_resolution"] = "ErrKeyResolutionFailed"
    BY DEF Contract!Sentinel
  <2> QED
    BY <1>2, <1>4, <2>5, <2>6, Refusal DEF Contract!Next
<1> QED
  BY <1>2, <1>3, <1>4

(* The checks between key resolution and the disclosure loop.              *)
LEMMA EarlyContract ==
  ASSUME ChainInv, pc \in AfterKey, UNCHANGED <<clock, opts, raw, nonce>>, NEW s, NEW e,
         now' \in {now, At}, RejectAt(s, e), s \in DOMAIN Contract!Sentinel,
         e = Contract!Sentinel[s], Contract!IssuerVerdict(raw, pubKey, At) = s
  PROVE  Contract!Next
<1>1. pc \in AfterDecode /\ pc \in Stages
  BY DEF AfterKey, AfterDecode
<1>2. Contract!Readable(raw) /\ pubKey \in Contract!Answers(raw)
  BY <1>1 DEF ChainInv, Reading, Checked
<1>3. Contract!Justified([raw |-> raw, nonce |-> nonce], s, At)
  BY <1>2, IssuerRefusal
<1> QED
  BY <1>1, <1>3, Refusal DEF Contract!Next

(* After the exp check the call is answered at the time that check read.   *)
LEMMA AnsweredAt ==
  ASSUME ChainInv, pc \in AfterExp
  PROVE  At = now
<1>1. now \in 0 .. clock /\ clock \in Nat
  BY DEF ChainInv, Checked, Inv, TypeOK
<1> QED
  BY <1>1, VerifierAssumption DEF At

(* A refused signature is one the contract refuses.                        *)
LEMMA SignatureContract == ChainInv /\ VerifySignature => [Contract!Next]_(Contract!vars)
<1> SUFFICES ASSUME ChainInv, VerifySignature PROVE [Contract!Next]_(Contract!vars)
  OBVIOUS
<1>1. /\ pc = "signature" /\ pc \in AfterKey /\ pc \in AfterDecode /\ pc \in Stages
      /\ UNCHANGED <<clock, opts, raw, nonce, now>>
      /\ \/ pc' = "exp" /\ UNCHANGED outcome
         \/ ~verifyJWTSignature(t.IssuerJWT, pubKey)
            /\ RejectAt("signature", "ErrSignatureInvalid")
  BY DEF VerifySignature, Check, Stages, parseVars, keyVars, AfterKey, AfterDecode
<1>2. CASE pc' = "exp" /\ UNCHANGED outcome
  BY <1>1, <1>2, Unseen DEF Stages
<1>3. CASE ~verifyJWTSignature(t.IssuerJWT, pubKey)
           /\ RejectAt("signature", "ErrSignatureInvalid")
  <2>1. Contract!Jwt(raw) = t.IssuerJWT /\ pubKey # Nil
    BY <1>1, SamePresentation DEF ChainInv, Checked
  <2>2. Contract!IssuerVerdict(raw, pubKey, At) = "signature"
    BY <1>3, <2>1, ContractOperators DEF Contract!IssuerVerdict
  <2>3. /\ "signature" \in DOMAIN Contract!Sentinel
        /\ Contract!Sentinel["signature"] = "ErrSignatureInvalid"
    BY DEF Contract!Sentinel
  <2> QED
    BY <1>1, <1>3, <2>1, <2>2, <2>3, EarlyContract
<1> QED
  BY <1>1, <1>2, <1>3

(* What holds when the timing checks are reached.                          *)
LEMMA SignedPart ==
  ASSUME ChainInv, pc \in AfterSig
  PROVE  pubKey # Nil /\ Contract!verifyJWTSignature(Contract!Jwt(raw), pubKey)
<1>1. pc \in AfterKey /\ pc \in AfterDecode
  BY DEF AfterSig, AfterKey, AfterDecode
<1>2. Contract!Jwt(raw) = t.IssuerJWT
  BY <1>1, SamePresentation DEF ChainInv
<1> QED
  BY <1>1, <1>2, ContractOperators DEF ChainInv, Checked

(* The exp check: where the call looks at the clock.                       *)
LEMMA ExpContract == ChainInv /\ Looked /\ CheckExp => [Contract!Next]_(Contract!vars)
<1> SUFFICES ASSUME ChainInv, Looked, CheckExp PROVE [Contract!Next]_(Contract!vars)
  OBVIOUS
<1>1. /\ pc = "exp" /\ pc \in AfterKey /\ pc \in AfterSig /\ pc \in Stages
      /\ payload = Contract!Signed(raw)
  BY DEF CheckExp, Check, ChainInv, Unrevealed, AfterDecode, AfterKey, AfterSig, AfterExp,
     AfterNbf, AfterAlg, AfterWalk, Stages
<1>2. /\ UNCHANGED <<clock, opts, raw, nonce>> /\ now' = clock /\ now = Nil
      /\ \/ pc' = "nbf" /\ UNCHANGED outcome
         \/ ~NotExpired(payload, clock) /\ RejectAt("exp", "ErrTokenExpired")
  BY <1>1 DEF CheckExp, Check, parseVars, Looked, BeforeExp
<1>3. CASE pc' = "nbf" /\ UNCHANGED outcome
  <2>1. Contract!Look
    BY <1>1, <1>2, <1>3 DEF Contract!Look, Stages, Answered
  <2> QED
    BY <2>1 DEF Contract!Next
<1>4. CASE ~NotExpired(payload, clock) /\ RejectAt("exp", "ErrTokenExpired")
  <2>1. At = clock
    BY <1>2 DEF At
  <2>2. ~Contract!InTime(raw, At)
    BY <1>1, <1>4, <2>1, ContractOperators DEF Contract!InTime, NotExpired, Unix
  <2>3. Contract!IssuerVerdict(raw, pubKey, At) = "exp"
    BY <1>1, <2>2, SignedPart DEF Contract!IssuerVerdict
  <2>4. "exp" \in DOMAIN Contract!Sentinel /\ Contract!Sentinel["exp"] = "ErrTokenExpired"
    BY DEF Contract!Sentinel
  <2> QED
    BY <1>1, <1>2, <1>4, <2>1, <2>3, <2>4, EarlyContract
<1> QED
  BY <1>2, <1>3, <1>4

(* The nbf check, at the same time.                                        *)
LEMMA NbfContract == ChainInv /\ CheckNbf => [Contract!Next]_(Contract!vars)
<1> SUFFICES ASSUME ChainInv, CheckNbf PROVE [Contract!Next]_(Contract!vars)
  OBVIOUS
<1>1. /\ pc = "nbf" /\ pc \in AfterKey /\ pc \in AfterSig /\ pc \in AfterExp
      /\ pc \in Stages /\ payload = Contract!Signed(raw)
  BY DEF CheckNbf, Check, ChainInv, Unrevealed, AfterDecode, AfterKey, AfterSig, AfterExp,
     AfterNbf, AfterAlg, AfterWalk, Stages
<1>2. /\ UNCHANGED <<clock, opts, raw, nonce, now>>
      /\ \/ pc' = "sd_alg" /\ UNCHANGED outcome
         \/ ~AlreadyValid(payload, now) /\ RejectAt("nbf", "ErrTokenNotYetValid")
  BY DEF CheckNbf, Check, parseVars, keyVars
<1>3. CASE pc' = "sd_alg" /\ UNCHANGED outcome
  BY <1>1, <1>2, <1>3, Unseen DEF Stages
<1>4. CASE ~AlreadyValid(payload, now) /\ RejectAt("nbf", "ErrTokenNotYetValid")
  <2>1. At = now
    BY <1>1, AnsweredAt
  <2>2. ~Contract!Started(raw, At) /\ Contract!InTime(raw, At)
    BY <1>1, <1>4, <2>1, ContractOperators
       DEF Contract!Started, AlreadyValid, Unix, ChainInv, Checked
  <2>3. Contract!IssuerVerdict(raw, pubKey, At) = "nbf"
    BY <1>1, <2>2, SignedPart DEF Contract!IssuerVerdict
  <2>4. "nbf" \in DOMAIN Contract!Sentinel /\ Contract!Sentinel["nbf"] = "ErrTokenNotYetValid"
    BY DEF Contract!Sentinel
  <2> QED
    BY <1>1, <1>2, <1>4, <2>3, <2>4, EarlyContract
<1> QED
  BY <1>2, <1>3, <1>4

(* An unsupported hash, or an object nested too deep, is refused.          *)
LEMMA WalkContract ==
  ChainInv /\ (ResolveSdAlg \/ CollectNested \/ CollectReturn) => [Contract!Next]_(Contract!vars)
<1> SUFFICES ASSUME ChainInv, ResolveSdAlg \/ CollectNested \/ CollectReturn
             PROVE  [Contract!Next]_(Contract!vars)
  OBVIOUS
<1>1. /\ pc \in {"sd_alg", "disclosure_collect"} /\ pc \in AfterKey /\ pc \in AfterDecode
      /\ pc \in AfterSig /\ pc \in AfterExp /\ pc \in AfterNbf
      /\ pc = "disclosure_collect" => pc \in AfterAlg
      /\ pc \in Stages /\ payload = Contract!Signed(raw) /\ Inv
  BY DEF ResolveSdAlg, CollectNested, CollectReturn, Check, ChainInv, Unrevealed,
     AfterDecode, AfterKey, AfterSig, AfterExp, AfterNbf, AfterAlg, AfterWalk, Stages
<1>0. /\ pubKey # Nil /\ Contract!verifyJWTSignature(Contract!Jwt(raw), pubKey) /\ At = now
      /\ Contract!InTime(raw, At) /\ Contract!Started(raw, At)
  BY <1>1, SignedPart, AnsweredAt DEF ChainInv, Checked
<1>2. /\ UNCHANGED <<clock, opts, raw, nonce, now>>
      /\ \/ pc' \in {"disclosure_collect", "disclosure"} /\ UNCHANGED outcome
         \/ hashAlg = Nil /\ RejectAt("sd_alg", "ErrUnsupportedHashAlgorithm")
         \/ /\ pc = "disclosure_collect"
            /\ \E o \in Children(payload, cur) : ~(Len(o) <= maxVerifyDepth)
            /\ RejectAt("disclosure_collect", "ErrNestingTooDeep")
  BY DEF ResolveSdAlg, CollectNested, CollectReturn, Check, parseVars, keyVars
<1>3. CASE pc' \in {"disclosure_collect", "disclosure"} /\ UNCHANGED outcome
  BY <1>1, <1>2, <1>3, Unseen DEF Stages
<1>4. CASE hashAlg = Nil /\ RejectAt("sd_alg", "ErrUnsupportedHashAlgorithm")
  <2>1. Contract!sdAlg(Contract!Signed(raw)) = Nil
    BY <1>1, <1>4, SamePresentation
  <2>2. Contract!IssuerVerdict(raw, pubKey, At) = "sd_alg"
    BY <1>0, <2>1 DEF Contract!IssuerVerdict
  <2>3. /\ "sd_alg" \in DOMAIN Contract!Sentinel
        /\ Contract!Sentinel["sd_alg"] = "ErrUnsupportedHashAlgorithm"
    BY DEF Contract!Sentinel
  <2> QED
    BY <1>1, <1>2, <1>4, <2>2, <2>3, EarlyContract
<1>5. CASE /\ pc = "disclosure_collect"
           /\ \E o \in Children(payload, cur) : ~(Len(o) <= maxVerifyDepth)
           /\ RejectAt("disclosure_collect", "ErrNestingTooDeep")
  <2>1. PICK o \in Objects(payload) : ~(Len(o) <= maxVerifyDepth)
    BY <1>5 DEF Children
  <2>2. o \in Seq(STRING)
    BY <1>1, <2>1, SamePresentation DEF IsPayload
  <2>3. Len(o) > maxVerifyDepth
    BY <2>1, <2>2, VerifierAssumption, LenProperties
  <2>4. o \in Contract!Objects(Contract!Signed(raw))
    BY <1>1, <2>1, ContractOperators
  <2>5. Contract!TooDeep(raw)
    BY <2>3, <2>4 DEF Contract!TooDeep
  <2>0. Contract!sdAlg(Contract!Signed(raw)) # Nil
    BY <1>1, <1>5, SamePresentation DEF ChainInv, Checked
  <2>6. Contract!IssuerVerdict(raw, pubKey, At) = "disclosure_collect"
    BY <1>0, <2>0, <2>5 DEF Contract!IssuerVerdict
  <2>7. /\ "disclosure_collect" \in DOMAIN Contract!Sentinel
        /\ Contract!Sentinel["disclosure_collect"] = "ErrNestingTooDeep"
    BY DEF Contract!Sentinel
  <2> QED
    BY <1>1, <1>2, <1>5, <2>6, <2>7, EarlyContract
<1> QED
  BY <1>2, <1>3, <1>4, <1>5

(* A refused disclosure: malformed, listed nowhere, or of a repeated key.  *)
LEMMA DisclosureContract == ChainInv /\ VerifyDisclosure => [Contract!Next]_(Contract!vars)
<1> SUFFICES ASSUME ChainInv, VerifyDisclosure PROVE [Contract!Next]_(Contract!vars)
  OBVIOUS
<1> DEFINE enc == t.Disclosures[next]
           digest == Digest(hashAlg, enc)
<1>1. /\ pc = "disclosure" /\ pc \in AfterWalk /\ pc \in AfterKey /\ pc \in AfterDecode
      /\ pc \in AfterExp /\ pc \in Stages /\ Collected /\ Inv
  BY DEF VerifyDisclosure, AfterDecode, AfterKey, AfterSig, AfterExp, AfterNbf, AfterAlg,
     AfterWalk, Stages, Collected, Decoded, ChainInv
<1>2. /\ UNCHANGED <<clock, opts, raw, nonce, now>> /\ next <= Len(t.Disclosures)
      /\ \/ pc' = pc /\ UNCHANGED outcome
         \/ ~DisclosureParses(enc) /\ RejectAt("disclosure_parse", "ErrDisclosureInvalid")
         \/ /\ DisclosureParses(enc) /\ digest \notin DOMAIN digestMap
            /\ RejectAt("disclosure_hash", "ErrDisclosureMismatch")
         \/ /\ DisclosureParses(enc) /\ digest \in DOMAIN digestMap
            /\ ParseDisclosure(enc).Key # Nil /\ ParseDisclosure(enc).Key \in DOMAIN disclosed
            /\ RejectAt("disclosure_duplicate", "ErrDisclosureDuplicate")
  BY DEF VerifyDisclosure, parseVars, keyVars
<1>3. PICK r, n : r = raw /\ n = next
  OBVIOUS
<1>4. /\ Contract!Discs(r) = t.Disclosures /\ Len(t.Disclosures) \in Nat
      /\ DOMAIN t.Disclosures = 1 .. Len(t.Disclosures)
      /\ Contract!sdAlg(Contract!Signed(r)) = hashAlg
  BY <1>1, <1>3, SamePresentation
<1>5. n \in Nat /\ n \in DOMAIN t.Disclosures
  BY <1>1, <1>2, <1>3, <1>4 DEF ChainInv, Loop
<1>6. CASE pc' = pc /\ UNCHANGED outcome
  BY <1>1, <1>2, <1>6, Unseen
<1> DEFINE v == Contract!DisclosureVerdict(r, n)
<1>10. ASSUME v # "none"
       PROVE  Contract!IssuerVerdict(raw, pubKey, At) = v
  <2>1. At = now
    BY <1>1, AnsweredAt
  <2>2. \A i \in 1 .. n - 1 : Contract!DisclosureVerdict(r, i) = "none"
    BY <1>1, <1>3, WalkedPart
  <2>3. /\ n \in Contract!RefusedDiscs(r)
        /\ \A i \in Contract!RefusedDiscs(r) : i \in Nat /\ n <= i
    BY <1>4, <1>5, <1>10, <2>2 DEF Contract!RefusedDiscs
  <2>4. Contract!Min(Contract!RefusedDiscs(r)) = n
    <3>1. PICK S : S = Contract!RefusedDiscs(r)
      OBVIOUS
    <3>2. n \in S /\ \A y \in S : n <= y
      BY <2>3, <3>1
    <3>3. Contract!Min(S) \in S /\ \A y \in S : Contract!Min(S) <= y
      BY <3>2 DEF Contract!Min
    <3>4. Contract!Min(S) \in Nat /\ Contract!Min(S) <= n /\ n <= Contract!Min(S)
      BY <2>3, <3>1, <3>2, <3>3
    <3> QED
      BY <1>5, <3>1, <3>4
  <2> HIDE DEF v
  <2>5. v = Contract!DisclosureVerdict(raw, n) /\ Contract!Min(Contract!RefusedDiscs(raw)) = n
        /\ Contract!RefusedDiscs(raw) # {}
    BY <1>3, <2>3, <2>4 DEF v
  <2> QED
    BY <1>1, <2>1, <2>5, WalkedPart DEF Contract!IssuerVerdict
<1>7. CASE ~DisclosureParses(enc) /\ RejectAt("disclosure_parse", "ErrDisclosureInvalid")
  <2>1. ~Contract!DisclosureParses(Contract!Discs(r)[n])
    BY <1>3, <1>4, <1>7, ContractOperators
  <2>2. Contract!IssuerVerdict(raw, pubKey, At) = "disclosure_parse"
    BY <1>10, <2>1 DEF Contract!DisclosureVerdict
  <2>3. /\ "disclosure_parse" \in DOMAIN Contract!Sentinel
        /\ Contract!Sentinel["disclosure_parse"] = "ErrDisclosureInvalid"
    BY DEF Contract!Sentinel
  <2> QED
    BY <1>1, <1>2, <1>7, <2>2, <2>3, EarlyContract
<1>8. CASE /\ DisclosureParses(enc) /\ digest \notin DOMAIN digestMap
           /\ RejectAt("disclosure_hash", "ErrDisclosureMismatch")
  <2>1. payload.sd = Contract!Signed(r).sd /\ Objects(payload) = Objects(Contract!Signed(r))
    BY <1>1, <1>3 DEF ChainInv, Loop, Applied, Objects
  <2>2. \A o \in Objects(Contract!Signed(r)) : digest \notin ToSet(Contract!Signed(r).sd[o])
    BY <1>1, <1>8, <2>1 DEF Inv, DigestMapExact
  <2>3. Contract!Homes(r, n) = {}
    <3>1. \A s : Contract!ToSet(s) = ToSet(s)
      BY DEF Contract!ToSet, ToSet
    <3>2. Contract!Digest(Contract!sdAlg(Contract!Signed(r)), Contract!Discs(r)[n]) = digest
      BY <1>3, <1>4, ContractOperators
    <3>3. Contract!Objects(Contract!Signed(r)) = Objects(Contract!Signed(r))
      BY ContractOperators
    <3> QED
      BY <2>2, <3>1, <3>2, <3>3 DEF Contract!Homes
  <2>4. Contract!DisclosureParses(Contract!Discs(r)[n]) /\ n \in DOMAIN Contract!Discs(r)
    BY <1>3, <1>4, <1>5, <1>8, ContractOperators
  <2>5. Contract!IssuerVerdict(raw, pubKey, At) = "disclosure_hash"
    BY <1>10, <2>3, <2>4 DEF Contract!DisclosureVerdict
  <2>6. /\ "disclosure_hash" \in DOMAIN Contract!Sentinel
        /\ Contract!Sentinel["disclosure_hash"] = "ErrDisclosureMismatch"
    BY DEF Contract!Sentinel
  <2> QED
    BY <1>1, <1>2, <1>8, <2>5, <2>6, EarlyContract
<1>9. CASE /\ DisclosureParses(enc) /\ digest \in DOMAIN digestMap
           /\ ParseDisclosure(enc).Key # Nil /\ ParseDisclosure(enc).Key \in DOMAIN disclosed
           /\ RejectAt("disclosure_duplicate", "ErrDisclosureDuplicate")
  <2>1. /\ Contract!Opened(r, n) = ParseDisclosure(enc)
        /\ Contract!DisclosureParses(Contract!Discs(r)[n])
    BY <1>3, <1>4, <1>9, ContractOperators DEF Contract!Opened
  <2>2. n \in Contract!Keyed(r)
    BY <1>4, <1>5, <1>9, <2>1 DEF Contract!Keyed
  <2>3. DOMAIN disclosed = {Contract!Opened(r, i).Key : i \in Below(r, n)}
    BY <1>1, <1>3 DEF ChainInv, Loop, Contract!Revealed
  <2>4. PICK i \in Below(r, n) : Contract!Opened(r, i).Key = Contract!Opened(r, n).Key
    BY <1>9, <2>1, <2>3
  <2>5. i \in Contract!Keyed(r) /\ i < n
    BY <2>4 DEF Below
  <2>6. Contract!Homes(r, n) # {}
    BY <1>1, <1>3, <1>5, <1>9, HomeOf
  <2>7. Contract!IssuerVerdict(raw, pubKey, At) = "disclosure_duplicate"
    BY <1>10, <2>1, <2>2, <2>4, <2>5, <2>6 DEF Contract!DisclosureVerdict
  <2>8. /\ "disclosure_duplicate" \in DOMAIN Contract!Sentinel
        /\ Contract!Sentinel["disclosure_duplicate"] = "ErrDisclosureDuplicate"
    BY DEF Contract!Sentinel
  <2> QED
    BY <1>1, <1>2, <1>9, <2>7, <2>8, EarlyContract
<1> QED
  BY <1>2, <1>6, <1>7, <1>8, <1>9

(* A refusal after the loop.                                               *)
LEMMA LateContract ==
  ASSUME ChainInv, pc \in AfterLoop, UNCHANGED <<clock, opts, raw, nonce, now>>, NEW s, NEW e,
         RejectAt(s, e), s \in DOMAIN Contract!Sentinel, e = Contract!Sentinel[s],
         s = Contract!LateVerdict([raw |-> raw, nonce |-> nonce], payload)
  PROVE  Contract!Next
<1>1. pc \in Stages /\ pc \in AfterExp
  BY DEF AfterLoop, AfterWalk, AfterAlg, AfterNbf, AfterExp, AfterSig, AfterKey, AfterDecode
<1>2. Contract!Justified([raw |-> raw, nonce |-> nonce], s, At)
  BY <1>1, LateRefusal, AnsweredAt
<1> QED
  BY <1>1, <1>2, Refusal DEF Contract!Next

(* A refusal of the KB-JWT names a check of the holder's part that fails.  *)
LEMMA BindingContract ==
  ChainInv /\ (DisclosuresDone \/ RequireKBJWT \/ VerifyKBJWT) => [Contract!Next]_(Contract!vars)
<1> SUFFICES ASSUME ChainInv, DisclosuresDone \/ RequireKBJWT \/ VerifyKBJWT
             PROVE  [Contract!Next]_(Contract!vars)
  OBVIOUS
<1> DEFINE kb == t.KBJWT
<1>1. UNCHANGED <<clock, opts, raw, nonce, now>>
  BY DEF DisclosuresDone, RequireKBJWT, VerifyKBJWT, parseVars, keyVars
<1>2. pc \in Stages
  BY DEF DisclosuresDone, RequireKBJWT, VerifyKBJWT, Check, Stages
<1>3. \/ pc' \in Stages /\ UNCHANGED outcome
      \/ /\ pc = "kbjwt" /\ opts.requireKeyBinding /\ ~HasKeyBinding(t)
         /\ RejectAt("kbjwt", "ErrKBJWTRequired")
      \/ pc = "cnf" /\ ~hasCnf(payload) /\ RejectAt("cnf", "ErrCnfMissing")
      \/ pc = "kbjwt_decode" /\ ~decodes(kb) /\ RejectAt("kbjwt_decode", "ErrKBJWTInvalid")
      \/ /\ pc = "kbjwt_key" /\ cnfKey(payload) = Nil
         /\ RejectAt("kbjwt_key", "ErrKBJWTInvalid")
      \/ /\ pc = "kbjwt_sig" /\ ~verifyJWTSignature(kb, cnfKey(payload))
         /\ RejectAt("kbjwt_sig", "ErrKBJWTInvalid")
      \/ /\ pc = "kbjwt_nonce" /\ nonce # Nil /\ kbPayload.nonce # nonce
         /\ RejectAt("kbjwt_nonce", "ErrKBJWTNonceMismatch")
      \/ /\ pc = "kbjwt_aud" /\ opts.audience # Nil /\ opts.audience \notin kbPayload.aud
         /\ RejectAt("kbjwt_aud", "ErrKBJWTAudMismatch")
      \/ /\ pc = "kbjwt_sd_hash" /\ kbPayload.sd_hash # DigestSHA256(Prefix(t))
         /\ RejectAt("kbjwt_sd_hash", "ErrKBJWTHashMismatch")
  BY DEF DisclosuresDone, RequireKBJWT, VerifyKBJWT, Check, Stages
<1>4. CASE pc' \in Stages /\ UNCHANGED outcome
  BY <1>1, <1>2, <1>4, Unseen
<1>5. CASE pc' = "rejected"
  <2>1. pc \in {"kbjwt", "cnf", "kbjwt_decode", "kbjwt_key", "kbjwt_sig", "kbjwt_nonce",
                "kbjwt_aud", "kbjwt_sd_hash"}
    BY <1>3, <1>5 DEF RejectAt, Stages
  <2>2. pc \in AfterLoop
    BY <2>1 DEF AfterLoop, AfterWalk, AfterAlg, AfterNbf, AfterExp, AfterSig, AfterKey,
       AfterDecode, Stages
  <2>3. PICK c : c = [raw |-> raw, nonce |-> nonce]
    OBVIOUS
  <2>4. /\ Contract!KB(c.raw) = t.KBJWT /\ Contract!Parse(c.raw) = t /\ c.nonce = nonce
    BY <2>2, <2>3, IssuerPart
  <2>5. /\ pc = "kbjwt" <=> ~(pc \in {"cnf", "kbjwt_decode", "kbjwt_key", "kbjwt_sig",
                                      "kbjwt_nonce", "kbjwt_aud", "kbjwt_sd_hash"})
        /\ pc # "kbjwt" => t.KBJWT # Nil
        /\ pc \in {"kbjwt_key", "kbjwt_sig", "kbjwt_nonce", "kbjwt_aud", "kbjwt_sd_hash"} =>
             decodes(kb)
        /\ pc \in {"kbjwt_decode", "kbjwt_key", "kbjwt_sig", "kbjwt_nonce", "kbjwt_aud",
                  "kbjwt_sd_hash"} => hasCnf(payload)
        /\ pc \in {"kbjwt_sig", "kbjwt_nonce", "kbjwt_aud", "kbjwt_sd_hash"} =>
             cnfKey(payload) # Nil
        /\ pc \in {"kbjwt_nonce", "kbjwt_aud", "kbjwt_sd_hash"} =>
             verifyJWTSignature(kb, cnfKey(payload))
        /\ pc \in {"kbjwt_aud", "kbjwt_sd_hash"} => (nonce # Nil => kbPayload.nonce = nonce)
        /\ pc = "kbjwt_sd_hash" => (opts.audience # Nil => opts.audience \in kbPayload.aud)
    BY <2>1 DEF ChainInv, Binding, HasKeyBinding
  <2>6. /\ Contract!hasCnf(payload) <=> hasCnf(payload)
        /\ Contract!decodes(kb) <=> decodes(kb)
        /\ Contract!cnfKey(payload) = cnfKey(payload)
        /\ Contract!verifyJWTSignature(kb, cnfKey(payload)) <=>
             verifyJWTSignature(kb, cnfKey(payload))
        /\ Contract!DigestSHA256(Contract!Prefix(t)) = DigestSHA256(Prefix(t))
    BY ContractOperators, ContractCnf
  <2>7. PICK s, e : /\ RejectAt(s, e) /\ s = pc
                    /\ s = Contract!HolderVerdict(c, payload)
                    /\ s \in DOMAIN Contract!Sentinel /\ e = Contract!Sentinel[s]
    <3> DEFINE ok(s, e) == /\ RejectAt(s, e) /\ s = pc
                           /\ s = Contract!HolderVerdict(c, payload)
                           /\ s \in DOMAIN Contract!Sentinel /\ e = Contract!Sentinel[s]
    <3> USE DEF Contract!Sentinel, Contract!HolderVerdict, Contract!KBVerdict, kbPayload, HasKeyBinding
    <3>0. pc' \notin Stages
      BY <1>5 DEF Stages
    <3>1. CASE pc = "kbjwt"
      <4>1. ok("kbjwt", "ErrKBJWTRequired")
        BY <1>3, <2>4, <3>0, <3>1
      <4> QED
        BY <4>1
    <3>2. CASE pc = "cnf"
      <4>1. ok("cnf", "ErrCnfMissing")
        BY <1>3, <2>4, <2>5, <2>6, <3>0, <3>2
      <4> QED
        BY <4>1
    <3>3. CASE pc = "kbjwt_decode"
      <4>1. ok("kbjwt_decode", "ErrKBJWTInvalid")
        BY <1>3, <2>4, <2>5, <2>6, <3>0, <3>3
      <4> QED
        BY <4>1
    <3>4. CASE pc = "kbjwt_key"
      <4>1. ok("kbjwt_key", "ErrKBJWTInvalid")
        BY <1>3, <2>4, <2>5, <2>6, <3>0, <3>4
      <4> QED
        BY <4>1
    <3>5. CASE pc = "kbjwt_sig"
      <4>1. ok("kbjwt_sig", "ErrKBJWTInvalid")
        BY <1>3, <2>4, <2>5, <2>6, <3>0, <3>5
      <4> QED
        BY <4>1
    <3>6. CASE pc = "kbjwt_nonce"
      <4>1. ok("kbjwt_nonce", "ErrKBJWTNonceMismatch")
        BY <1>3, <2>4, <2>5, <2>6, <3>0, <3>6
      <4> QED
        BY <4>1
    <3>7. CASE pc = "kbjwt_aud"
      <4>1. ok("kbjwt_aud", "ErrKBJWTAudMismatch")
        BY <1>3, <2>4, <2>5, <2>6, <3>0, <3>7
      <4> QED
        BY <4>1
    <3>8. CASE pc = "kbjwt_sd_hash"
      <4>1. ok("kbjwt_sd_hash", "ErrKBJWTHashMismatch")
        BY <1>3, <2>4, <2>5, <2>6, <3>0, <3>8
      <4> QED
        BY <4>1
    <3> QED
      BY <2>1, <3>1, <3>2, <3>3, <3>4, <3>5, <3>6, <3>7, <3>8
  <2>8. s = Contract!LateVerdict(c, payload)
    <3>1. s # "none"
      BY <2>1, <2>7
    <3> QED
      BY <2>7, <3>1 DEF Contract!LateVerdict
  <2> QED
    BY <1>1, <2>2, <2>3, <2>7, <2>8, LateContract
<1> QED
  BY <1>3, <1>4, <1>5 DEF RejectAt

(* The last check: the result is the signed payload plus what was revealed.*)
LEMMA VCTContract == ChainInv /\ CheckVCT => [Contract!Next]_(Contract!vars)
<1> SUFFICES ASSUME ChainInv, CheckVCT PROVE [Contract!Next]_(Contract!vars)
  OBVIOUS
<1> DEFINE vct == Claim(payload, "vct", "str")
           ok == opts.expectedVCT # Nil => vct = opts.expectedVCT
<1>1. /\ pc = "vct" /\ UNCHANGED <<clock, opts, raw, nonce, now>>
      /\ \/ ~ok /\ RejectAt("vct", "ErrVCTMismatch")
         \/ /\ ok /\ pc' = "accepted"
            /\ outcome' = [accepted |-> TRUE, IssuerClaims |-> Visible(payload),
                           DisclosedClaims |-> disclosed, Issuer |-> issuer, VCT |-> vct,
                           Subject |-> Claim(payload, "sub", "str"),
                           KeyBound |-> HasKeyBinding(t)]
  BY DEF CheckVCT, parseVars, keyVars
<1>2. pc \in AfterLoop /\ pc \in Stages
  BY <1>1 DEF AfterLoop, AfterWalk, AfterAlg, AfterNbf, AfterExp, AfterSig, AfterKey,
     AfterDecode, Stages
<1>3. PICK c : c = [raw |-> raw, nonce |-> nonce]
  OBVIOUS
<1>4. /\ Contract!Readable(raw) /\ pubKey \in Contract!Answers(raw) /\ now \in 0 .. clock
      /\ Contract!IssuerVerdict(raw, pubKey, now) = "none"
      /\ Placement \in Contract!Placements(raw)
      /\ payload = Contract!Reconstructed(raw, Placement)
      /\ disclosed = Contract!Revealed(raw, Contract!Keyed(raw))
      /\ issuer = Contract!Claim(Contract!Signed(raw), "iss", "str")
      /\ t = Contract!Parse(raw) /\ Contract!KB(raw) = t.KBJWT
  BY <1>2, IssuerPart, ContractOperators
<1>5. Contract!HolderVerdict(c, payload) = "none"
  <2>1. Contract!KB(c.raw) = t.KBJWT /\ Contract!Parse(c.raw) = t /\ c.nonce = nonce
    BY <1>3, <1>4
  <2>2. CASE t.KBJWT = Nil
    <3>1. ~opts.requireKeyBinding
      BY <1>1, <2>2 DEF ChainInv, Binding, HasKeyBinding
    <3> QED
      BY <2>1, <2>2, <3>1 DEF Contract!HolderVerdict, Contract!KBVerdict
  <2>3. CASE t.KBJWT # Nil
    <3>1. /\ hasCnf(payload) /\ decodes(t.KBJWT) /\ cnfKey(payload) # Nil
          /\ verifyJWTSignature(t.KBJWT, cnfKey(payload))
          /\ nonce # Nil => t.KBJWT.jwt.payload.nonce = nonce
          /\ opts.audience # Nil => opts.audience \in t.KBJWT.jwt.payload.aud
          /\ t.KBJWT.jwt.payload.sd_hash = DigestSHA256(Prefix(t))
      BY <1>1, <2>3 DEF ChainInv, Binding, HasKeyBinding, kbPayload
    <3>2. /\ Contract!hasCnf(payload) /\ Contract!decodes(t.KBJWT)
          /\ Contract!cnfKey(payload) = cnfKey(payload)
          /\ Contract!verifyJWTSignature(t.KBJWT, cnfKey(payload))
          /\ Contract!DigestSHA256(Contract!Prefix(t)) = DigestSHA256(Prefix(t))
      BY <3>1, ContractOperators, ContractCnf
    <3> QED
      BY <2>1, <2>3, <3>1, <3>2 DEF Contract!HolderVerdict, Contract!KBVerdict
  <2> QED
    BY <2>2, <2>3
<1>6. Contract!Claim(payload, "vct", "str") = vct
      /\ Contract!Claim(payload, "sub", "str") = Claim(payload, "sub", "str")
  BY ContractOperators
<1>7. CASE ~ok /\ RejectAt("vct", "ErrVCTMismatch")
  <2>1. Contract!LateVerdict(c, payload) = "vct"
    BY <1>5, <1>6, <1>7 DEF Contract!LateVerdict
  <2>2. "vct" \in DOMAIN Contract!Sentinel /\ Contract!Sentinel["vct"] = "ErrVCTMismatch"
    BY DEF Contract!Sentinel
  <2> QED
    BY <1>1, <1>2, <1>3, <1>7, <2>1, <2>2, LateContract
<1>8. CASE ok /\ pc' = "accepted"
  <2>1. outcome' = Contract!Result(raw, payload)
    <3>1. outcome' = [accepted |-> TRUE, IssuerClaims |-> Visible(payload),
                      DisclosedClaims |-> disclosed, Issuer |-> issuer, VCT |-> vct,
                      Subject |-> Claim(payload, "sub", "str"),
                      KeyBound |-> HasKeyBinding(t)]
      BY <1>1, <1>8 DEF RejectAt
    <3> QED
      BY <1>4, <1>6, <3>1, ContractVisible DEF Contract!Result, HasKeyBinding
  <2>2. Contract!LateVerdict(c, payload) = "none"
    BY <1>5, <1>6, <1>8 DEF Contract!LateVerdict
  <2>3. PICK h, k, at : h = Placement /\ k = pubKey /\ at = now
    OBVIOUS
  <2>4. /\ k \in Contract!Answers(c.raw) /\ h \in Contract!Placements(c.raw)
        /\ Contract!Readable(c.raw) /\ Contract!IssuerVerdict(c.raw, k, at) = "none"
        /\ outcome' = Contract!Result(c.raw, Contract!Reconstructed(c.raw, h))
        /\ Contract!LateVerdict(c, Contract!Reconstructed(c.raw, h)) = "none"
    BY <1>3, <1>4, <2>1, <2>2, <2>3
  <2>5. Contract!Accept(at)
    BY <1>3, <2>4 DEF Contract!Accept
  <2>6. pc \in AfterExp
    BY <1>1 DEF AfterExp, AfterSig, AfterKey, AfterDecode, Stages
  <2>7. at = At
    BY <2>3, <2>6, AnsweredAt
  <2>8. Contract!Answer
    BY <1>1, <1>2, <1>8, <2>5, <2>7 DEF Contract!Answer, Stages, Answered, At
  <2> QED
    BY <2>8 DEF Contract!Next
<1> QED
  BY <1>1, <1>7, <1>8

(* The contract's own call, return and time are Verifier's.                *)
LEMMA CallContract ==
  ASSUME NEW r \in Presentations, NEW n \in Nonces, Verify(r, n)
  PROVE  Contract!Next
<1>1. [raw |-> raw', nonce |-> nonce'] \in PossibleCalls
  BY DEF Verify, PossibleCalls
<1>2. Contract!Verify
  BY <1>1 DEF Verify, Contract!Verify, Answered, keyVars
<1> QED
  BY <1>2 DEF Contract!Next

(* The caller's return is the contract's.                                  *)
LEMMA ReturnContract == Return => Contract!Next
<1> SUFFICES ASSUME Return PROVE Contract!Next
  OBVIOUS
<1>1. Contract!Return
  BY DEF Return, Contract!Return, Contract!NoCall, Answered
<1> QED
  BY <1>1 DEF Contract!Next

(* The clock of the contract is Verifier's.                                *)
LEMMA TickContract == Tick => Contract!Next
<1> SUFFICES ASSUME Tick PROVE Contract!Next
  OBVIOUS
<1>1. Contract!Tick
  BY DEF Tick, TimePasses, Contract!Tick, parseVars, keyVars
<1> QED
  BY <1>1 DEF Contract!Next

(* Verify keeps the contract of its doc comment, for every set of          *)
(* presentations, nonces and options, every resolver and every order in    *)
(* which maps are iterated: it accepts only a presentation on which all    *)
(* checks hold at a time during the call, returns exactly the signed       *)
(* payload plus the revealed claims, and an error names the first check of *)
(* the chain that fails.                                                   *)
THEOREM ContractKept == Spec => KeepsContract
<1>1. Init => Contract!Init
  BY DEF Init, Contract!Init, Contract!NoCall
<1>2. ChainInv /\ Looked /\ [Next]_vars => [Contract!Next]_(Contract!vars)
  <2> SUFFICES ASSUME ChainInv, Looked, [Next]_vars PROVE [Contract!Next]_(Contract!vars)
    OBVIOUS
  <2>1. CASE Tick
    BY <2>1, TickContract
  <2>2. CASE \E r \in Presentations, n \in Nonces : Verify(r, n)
    BY <2>2, CallContract
  <2>3. CASE Step
    BY <2>3, ParseContract, DecodeContract, ResolveContract, SignatureContract, ExpContract,
       NbfContract, WalkContract, DisclosureContract, BindingContract, VCTContract, ReturnContract
       DEF Step, OwnStep
  <2>4. CASE UNCHANGED vars
    BY <2>4 DEF vars, parseVars, keyVars, Contract!vars
  <2> QED
    BY <2>1, <2>2, <2>3, <2>4 DEF Next
<1>3. Init => Looked
  BY DEF Init, Looked
<1>4. Looked /\ [Next]_vars => Looked'
  BY StepLooked
<1> QED
  BY <1>1, <1>2, <1>3, <1>4, ChainInvariance, PTL DEF Spec, KeepsContract, Contract!Spec
=============================================================================
