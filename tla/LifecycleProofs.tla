--------------------------- MODULE LifecycleProofs ---------------------------
(***************************************************************************)
(* Proofs about the three roles together, for any number of presentations  *)
(* and challenges, any claims and any options, whatever the transport      *)
(* delays, repeats, reorders or cuts.                                      *)
(*                                                                         *)
(* Holder and verifier agree on a key-bound presentation.  The argument    *)
(* goes through the KB-JWT: sd_hash commits to all that comes before it,   *)
(* so what reached the verifier under a KB-JWT is what was sent under it,  *)
(* and nothing else.                                                       *)
(*                                                                         *)
(* What the relying party reads is what was issued and what arrived.  The  *)
(* argument goes through the digests: the disclosures that arrive are      *)
(* among the issuer's, the digest of one is in one _sd array only, that of *)
(* the object its claim belongs to, and there the verifier writes it.      *)
(***************************************************************************)
EXTENDS Lifecycle, IssuerProofs

IsSequence(s) == s \in Seq(ToSet(s))

(* A token without a KB-JWT, as the issuer makes it.                       *)
Bare(tok) == tok = Token(tok.IssuerJWT, tok.Disclosures, Nil) /\ IsSequence(tok.Disclosures)

IssuedOK ==
  /\ IsSequence(discs)
  /\ ipc = "issued" => Bare(result.token)
  /\ wallet # Nil => Bare(wallet)

(* What the holder sent: a KB-JWT, if there is one, names the verifier and *)
(* the session it was made for, and covers the rest.                       *)
Sent(p) ==
  LET u == Parse(p.raw)
  IN  /\ p.raw = String(u) /\ u = Token(u.IssuerJWT, u.Disclosures, u.KBJWT)
      /\ IsSequence(u.Disclosures)
      /\ ~p.opts.KeyBinding => u.KBJWT = Nil
      /\ p.opts.KeyBinding =>
           LET claims == u.KBJWT.jwt.payload
           IN  /\ claims.nonce = p.opts.Nonce /\ claims.aud = {p.opts.Audience}
               /\ claims.sd_hash = DigestSHA256(Prefix(u))

SentOK == challenge \in Nat /\ \A p \in presented : Sent(p)

(* What may arrive of p.                                                   *)
Arrives(p, r) ==
  LET u == Parse(p.raw)
  IN  \E J \in SUBSET DOMAIN u.Disclosures, kb \in {u.KBJWT, Nil} :
        r = String(Token(u.IssuerJWT, ElementsAt(u.Disclosures, J), kb))

(* The call in progress is about something sent, in some session.          *)
Delivered ==
  /\ pc # "idle" => nonce \in Nat /\ \E p \in presented : Arrives(p, raw)
  /\ pc \notin {"idle", "parse", "rejected"} => t = Parse(raw)

(* What the checks of the KB-JWT have established.                         *)
KBChecked ==
  /\ pc \in {"kbjwt_aud", "kbjwt_sd_hash", "vct", "accepted"} /\ HasKeyBinding(t) =>
       (nonce # Nil => kbPayload.nonce = nonce)
  /\ pc \in {"kbjwt_sd_hash", "vct", "accepted"} /\ HasKeyBinding(t) =>
       (opts.audience # Nil => opts.audience \in kbPayload.aud)
  /\ pc \in {"vct", "accepted"} /\ HasKeyBinding(t) =>
       kbPayload.sd_hash = DigestSHA256(Prefix(t))
  /\ pc \in {"cnf", "kbjwt_decode", "kbjwt_key", "kbjwt_sig", "kbjwt_nonce", "kbjwt_aud",
             "kbjwt_sd_hash"} => HasKeyBinding(t)
  /\ pc = "accepted" => outcome.KeyBound = HasKeyBinding(t)

LifeInv == IssuedOK /\ SentOK /\ Delivered /\ KBChecked

-----------------------------------------------------------------------------
(* A function on 1 .. n is a sequence.                                     *)
LEMMA FunctionOnInterval ==
  ASSUME NEW f, NEW n \in Nat, f = [i \in 1 .. n |-> f[i]]
  PROVE  IsSequence(f)
<1>1. f \in [1 .. n -> ToSet(f)]
  BY DEF ToSet
<1> QED
  BY <1>1 DEF IsSequence

(* The elements at some indices, in order, are a sequence.                 *)
LEMMA ElementsAreSequence ==
  ASSUME NEW s, IsSequence(s), NEW J, J \subseteq DOMAIN s
  PROVE  IsSequence(ElementsAt(s, J))
<1>1. DOMAIN s = 1 .. Len(s) /\ Len(s) \in Nat
  BY DEF IsSequence
<1>2. Cardinality(J) \in Nat
  BY <1>1, FS_Interval, FS_Subset, FS_CardinalityType, 1 \in Int, Len(s) \in Int
<1>3. PICK n \in Nat : n = Cardinality(J)
  BY <1>2
<1>4. PICK f : f = ElementsAt(s, J)
  OBVIOUS
<1>5. f = [i \in 1 .. n |-> f[i]]
  BY <1>3, <1>4 DEF ElementsAt
<1> QED
  BY <1>4, <1>5, FunctionOnInterval

(* Issue appends disclosures one by one.                                   *)
LEMMA AppendIsSequence ==
  ASSUME NEW s, IsSequence(s), NEW e
  PROVE  IsSequence(Append(s, e))
<1>1. s \in Seq(ToSet(s) \cup {e}) /\ Len(s) \in Nat
  BY DEF IsSequence
<1>2. PICK f : f = Append(s, e)
  OBVIOUS
<1>3. f \in Seq(ToSet(s) \cup {e})
  BY <1>1, <1>2
<1>4. f = [i \in 1 .. Len(f) |-> f[i]] /\ Len(f) \in Nat
  BY <1>3
<1> QED
  BY <1>2, <1>4, FunctionOnInterval

(* Two sequences have the elements of both in common.                      *)
LEMMA CommonRange ==
  ASSUME NEW s, NEW r, IsSequence(s), IsSequence(r)
  PROVE  s \in Seq(ToSet(s) \cup ToSet(r)) /\ r \in Seq(ToSet(s) \cup ToSet(r))
BY DEF IsSequence

(* What Present returns is what the holder means to send.                  *)
LEMMA PresentIsSent ==
  ASSUME NEW signer, NEW w, Bare(w), NEW o, NEW at
  PROVE  Sent([raw |-> String(Present(signer, w, o, at)), opts |-> o])
<1>1. PICK d : d = selectDisclosures(w, o.RevealClaims)
  OBVIOUS
<1>2. IsSequence(d)
  <2>1. CASE o.RevealClaims = {}
    BY <1>1, <2>1 DEF selectDisclosures, Bare
  <2>2. CASE o.RevealClaims # {}
    <3>1. PICK J \in SUBSET DOMAIN w.Disclosures : d = ElementsAt(w.Disclosures, J)
      BY <1>1, <2>2 DEF selectDisclosures
    <3> QED
      BY <3>1, ElementsAreSequence DEF Bare
  <2> QED
    BY <2>1, <2>2
<1>3. PICK bare : bare = Token(w.IssuerJWT, d, Nil)
  OBVIOUS
<1>4. PICK kb : kb = IF o.KeyBinding THEN buildKBJWT(signer, bare, o.Nonce, o.Audience, at) ELSE Nil
  OBVIOUS
<1>5. PICK u : u = Token(w.IssuerJWT, d, kb)
  OBVIOUS
<1>6. Present(signer, w, o, at) = u
  BY <1>1, <1>3, <1>4, <1>5 DEF Present, Token
<1>7. Prefix(u) = Prefix(bare)
  BY <1>3, <1>5 DEF Prefix, Token
<1>8. PICK r : r = String(u)
  OBVIOUS
<1>9. Parse(r) = u
  BY <1>2, <1>5, <1>8, ParseOfString DEF IsSequence
<1>10. u.IssuerJWT = w.IssuerJWT /\ u.Disclosures = d /\ u.KBJWT = kb
  BY <1>5 DEF Token
<1>11. o.KeyBinding =>
         /\ kb.jwt.payload.nonce = o.Nonce /\ kb.jwt.payload.aud = {o.Audience}
         /\ kb.jwt.payload.sd_hash = DigestSHA256(Prefix(u))
  BY <1>4, <1>7 DEF buildKBJWT, signJWT
<1>12. ~o.KeyBinding => kb = Nil
  BY <1>4
<1>13. PICK p : p = [raw |-> r, opts |-> o]
  OBVIOUS
<1>14. p.raw = r /\ p.opts = o
  BY <1>13
<1>15. Sent(p)
  BY <1>2, <1>5, <1>8, <1>9, <1>10, <1>11, <1>12, <1>14 DEF Sent
<1> QED
  BY <1>6, <1>8, <1>13, <1>15

-----------------------------------------------------------------------------
(* Only Sign issues.                                                       *)
LEMMA IssuedBySign ==
  ASSUME Issuing, ipc' = "issued"
  PROVE  Sign
<1> USE DEF Fail
<1>1. CASE BuildClaim
  BY <1>1 DEF BuildClaim
<1>2. CASE BuildReturn
  BY <1>2 DEF BuildReturn
<1>3. CASE \/ \E r \in Requests : Issue(r)
           \/ BuildEnter \/ AddDecoys \/ RandomnessFails
  BY <1>3 DEF Issue, BuildEnter, AddDecoys, RandomnessFails
<1>4. CASE SetRegisteredClaims
  BY <1>4 DEF SetRegisteredClaims
<1> QED
  BY <1>1, <1>2, <1>3, <1>4 DEF Issuing

(* Issue returns a bare token with the disclosures it collected.           *)
LEMMA IssueLife ==
  ASSUME LifeInv, Issuing
  PROVE  LifeInv'
<1>1. UNCHANGED <<vars, holderVars>>
  BY DEF Issuing
<1>2. IsSequence(discs')
  <2>1. IsSequence(discs)
    BY DEF LifeInv, IssuedOK
  <2>2. discs' = discs \/ \E e : discs' = Append(discs, e)
    <3> USE DEF callVars
    <3>1. CASE BuildClaim
      BY <3>1 DEF BuildClaim, Disclose
    <3>2. CASE BuildReturn
      BY <3>2 DEF BuildReturn, Disclose
    <3>3. CASE \/ \E r \in Requests : Issue(r)
               \/ BuildEnter \/ AddDecoys \/ RandomnessFails
      BY <3>3 DEF Issue, BuildEnter, AddDecoys, RandomnessFails
    <3>4. CASE SetRegisteredClaims \/ Sign
      BY <3>4 DEF SetRegisteredClaims, Sign
    <3> QED
      BY <3>1, <3>2, <3>3, <3>4 DEF Issuing
  <2> QED
    BY <2>1, <2>2, AppendIsSequence
<1>3. ipc' = "issued" => Bare(result'.token)
  <2> SUFFICES ASSUME ipc' = "issued" PROVE Bare(result'.token)
    OBVIOUS
  <2>1. Sign
    BY IssuedBySign
  <2>2. PICK j : result' = [token |-> Token(j, discs, Nil)]
    BY <2>1 DEF Sign, Fail, Token
  <2>3. IsSequence(discs)
    BY DEF LifeInv, IssuedOK
  <2> QED
    BY <2>2, <2>3 DEF Bare, Token
<1>4. IssuedOK'
  BY <1>1, <1>2, <1>3 DEF LifeInv, IssuedOK, holderVars
<1>5. SentOK' /\ Delivered' /\ KBChecked'
  BY <1>1 DEF LifeInv, SentOK, Delivered, KBChecked, kbPayload, holderVars, vars, parseVars
<1> QED
  BY <1>4, <1>5 DEF LifeInv

(* Storing the token, a new session, and time.                             *)
LEMMA QuietLife ==
  ASSUME LifeInv, Store \/ Challenge \/ Time
  PROVE  LifeInv'
<1>1. UNCHANGED <<pc, raw, nonce, t, opts, outcome, presented, ipc, discs, result>>
  BY DEF Store, Challenge, Time, Tick, issueVars, callVars, holderVars, vars, parseVars
<1>2. (wallet' # Nil => Bare(wallet')) /\ challenge' \in Nat
  <2>1. CASE Store
    BY <2>1 DEF Store, LifeInv, IssuedOK, SentOK
  <2>2. CASE Challenge
    BY <2>2 DEF Challenge, LifeInv, IssuedOK, SentOK
  <2>3. CASE Time
    BY <2>3 DEF Time, holderVars, LifeInv, IssuedOK, SentOK
  <2> QED
    BY <2>1, <2>2, <2>3
<1>3. IssuedOK' /\ SentOK'
  BY <1>1, <1>2 DEF LifeInv, IssuedOK, SentOK
<1>4. Delivered' /\ KBChecked'
  BY <1>1 DEF LifeInv, Delivered, KBChecked, kbPayload
<1> QED
  BY <1>3, <1>4 DEF LifeInv

(* A presentation.                                                         *)
LEMMA PresentLife ==
  ASSUME LifeInv, NEW c \in PresentChoices, PresentTo(c)
  PROVE  LifeInv'
<1>1. PICK o : o = [RevealClaims |-> c.RevealClaims, KeyBinding |-> c.KeyBinding,
                    Audience |-> c.Audience, Nonce |-> challenge]
  OBVIOUS
<1>2. PICK at : at = clock \div TicksPerSecond
  OBVIOUS
<1>3. PICK p : p = [raw |-> String(Present(HolderSigner, wallet, o, at)), opts |-> o]
  OBVIOUS
<1>4. /\ wallet # Nil /\ presented' = presented \cup {p}
      /\ UNCHANGED <<vars, issueVars, wallet, challenge>>
  BY <1>1, <1>2, <1>3 DEF PresentTo
<1>5. PICK w : w = wallet /\ Bare(w)
  BY <1>4 DEF LifeInv, IssuedOK
<1>6. Sent(p)
  BY <1>3, <1>5, PresentIsSent
<1>7. SentOK'
  BY <1>4, <1>6 DEF LifeInv, SentOK
<1>8. IssuedOK'
  BY <1>4 DEF LifeInv, IssuedOK, issueVars, callVars
<1>9. Delivered' /\ KBChecked'
  BY <1>4 DEF LifeInv, Delivered, KBChecked, kbPayload, vars, parseVars
<1> QED
  BY <1>7, <1>8, <1>9 DEF LifeInv

(* Some of the disclosures of some presentation reach the relying party.   *)
LEMMA DeliverLife ==
  ASSUME LifeInv, Deliver
  PROVE  LifeInv'
<1>1. PICK r \in InTransit : Verify(r, challenge) /\ UNCHANGED <<issueVars, holderVars>>
  BY DEF Deliver
<1>2. \E p \in presented : Arrives(p, r)
  BY <1>1 DEF InTransit, Arrives
<1>3. pc' = "parse" /\ raw' = r /\ nonce' = challenge
  BY <1>1 DEF Verify
<1>4. Delivered'
  BY <1>1, <1>2, <1>3 DEF LifeInv, SentOK, Delivered, holderVars
<1>5. KBChecked'
  BY <1>3 DEF KBChecked
<1>6. IssuedOK' /\ SentOK'
  BY <1>1 DEF LifeInv, IssuedOK, SentOK, issueVars, callVars, holderVars
<1> QED
  BY <1>4, <1>5, <1>6 DEF LifeInv

-----------------------------------------------------------------------------
(* The checks before the KB-JWT.                                           *)
EarlyChecks ==
  {"issuer_jwt_decode", "key_resolution", "signature", "exp", "nbf", "sd_alg",
   "disclosure_collect", "disclosure", "kbjwt"}

(* What they change of what matters here.                                  *)
LEMMA EarlyStep ==
  ASSUME \/ DecodeIssuerJWT \/ ResolveIssuerKey \/ VerifySignature \/ CheckExp \/ CheckNbf
         \/ ResolveSdAlg \/ CollectNested \/ CollectReturn \/ VerifyDisclosure
         \/ DisclosuresDone
  PROVE  pc \in EarlyChecks /\ pc' \in EarlyChecks \cup {"rejected"} /\ UNCHANGED parseVars
<1> USE DEF EarlyChecks, Check, RejectAt
<1>1. CASE DecodeIssuerJWT \/ VerifySignature \/ CheckExp \/ CheckNbf
  BY <1>1 DEF DecodeIssuerJWT, VerifySignature, CheckExp, CheckNbf
<1>2. CASE ResolveIssuerKey
  BY <1>2 DEF ResolveIssuerKey, KeyResolved
<1>3. CASE ResolveSdAlg \/ CollectNested \/ CollectReturn
  BY <1>3 DEF ResolveSdAlg, CollectNested, CollectReturn
<1>4. CASE VerifyDisclosure \/ DisclosuresDone
  BY <1>4 DEF VerifyDisclosure, DisclosuresDone
<1> QED
  BY <1>1, <1>2, <1>3, <1>4

(* A step of Verify keeps what the other parties rely on.                  *)
LEMMA CallLife ==
  ASSUME LifeInv, UNCHANGED <<issueVars, holderVars>>,
         Delivered', KBChecked'
  PROVE  LifeInv'
BY DEF LifeInv, IssuedOK, SentOK, issueVars, callVars, holderVars

(* The steps of Verify.                                                    *)
LEMMA VerifyingLife ==
  ASSUME LifeInv, Verifying
  PROVE  LifeInv'
<1>1. Step /\ UNCHANGED <<issueVars, holderVars>>
  BY DEF Verifying
<1>2. Delivered /\ KBChecked /\ presented' = presented
  BY <1>1 DEF LifeInv, holderVars
<1>3. CASE ParseRaw
  <2>1. /\ pc = "parse" /\ raw' = raw /\ nonce' = nonce
        /\ pc' \in {"issuer_jwt_decode", "rejected"}
        /\ pc' = "issuer_jwt_decode" => t' = Parse(raw)
    BY <1>3 DEF ParseRaw, Check, RejectAt
  <2>2. Delivered' /\ KBChecked'
    BY <1>2, <2>1 DEF Delivered, KBChecked
  <2> QED
    BY <1>1, <2>2, CallLife
<1>4. CASE \/ DecodeIssuerJWT \/ ResolveIssuerKey \/ VerifySignature \/ CheckExp \/ CheckNbf
           \/ ResolveSdAlg \/ CollectNested \/ CollectReturn \/ VerifyDisclosure
           \/ DisclosuresDone
  <2>1. pc \in EarlyChecks /\ pc' \in EarlyChecks \cup {"rejected"} /\ UNCHANGED parseVars
    BY <1>4, EarlyStep
  <2>2. Delivered' /\ KBChecked'
    BY <1>2, <2>1 DEF Delivered, KBChecked, EarlyChecks, parseVars
  <2> QED
    BY <1>1, <2>2, CallLife
<1>5. CASE RequireKBJWT
  <2>1. /\ pc = "kbjwt" /\ UNCHANGED parseVars
        /\ \/ pc' = "cnf" /\ HasKeyBinding(t)
           \/ pc' = "vct" /\ ~HasKeyBinding(t)
           \/ pc' = "rejected"
    BY <1>5 DEF RequireKBJWT, Check, RejectAt
  <2>2. Delivered' /\ KBChecked'
    BY <1>2, <2>1 DEF Delivered, KBChecked, HasKeyBinding, parseVars
  <2> QED
    BY <1>1, <2>2, CallLife
<1>6. CASE VerifyKBJWT
  <2>1. UNCHANGED <<opts, parseVars>>
    BY <1>6 DEF VerifyKBJWT
  <2>2. \/ pc' = "rejected"
        \/ pc = "cnf" /\ pc' = "kbjwt_decode"
        \/ pc = "kbjwt_decode" /\ pc' = "kbjwt_key"
        \/ pc = "kbjwt_key" /\ pc' = "kbjwt_sig"
        \/ pc = "kbjwt_sig" /\ pc' = "kbjwt_nonce"
        \/ /\ pc = "kbjwt_nonce" /\ pc' = "kbjwt_aud"
           /\ nonce # Nil => kbPayload.nonce = nonce
        \/ /\ pc = "kbjwt_aud" /\ pc' = "kbjwt_sd_hash"
           /\ opts.audience # Nil => opts.audience \in kbPayload.aud
        \/ /\ pc = "kbjwt_sd_hash" /\ pc' = "vct"
           /\ kbPayload.sd_hash = DigestSHA256(Prefix(t))
    BY <1>6 DEF VerifyKBJWT, Check, RejectAt
  <2>3. pc \notin {"idle", "parse", "rejected"}
    BY <1>6 DEF VerifyKBJWT, Check
  <2>4. t' = t /\ kbPayload' = kbPayload /\ opts' = opts /\ nonce' = nonce /\ raw' = raw
    BY <2>1 DEF kbPayload, parseVars
  <2>5. Delivered'
    BY <1>2, <2>3, <2>4 DEF Delivered
  <2>6. KBChecked'
    BY <1>2, <2>2, <2>4 DEF KBChecked
  <2> QED
    BY <1>1, <2>5, <2>6, CallLife
<1>7. CASE CheckVCT
  <2>1. /\ pc = "vct" /\ UNCHANGED <<opts, parseVars>>
        /\ \/ pc' = "rejected"
           \/ pc' = "accepted" /\ outcome'.KeyBound = HasKeyBinding(t)
    BY <1>7 DEF CheckVCT, RejectAt
  <2>2. Delivered' /\ KBChecked'
    BY <1>2, <2>1 DEF Delivered, KBChecked, HasKeyBinding, kbPayload, parseVars
  <2> QED
    BY <1>1, <2>2, CallLife
<1>8. CASE Return
  <2>1. pc' = "idle"
    BY <1>8 DEF Return
  <2>2. Delivered' /\ KBChecked'
    BY <2>1 DEF Delivered, KBChecked
  <2> QED
    BY <1>1, <2>2, CallLife
<1> QED
  BY <1>1, <1>3, <1>4, <1>5, <1>6, <1>7, <1>8 DEF Step, OwnStep

-----------------------------------------------------------------------------
(* The invariant holds throughout.                                         *)
THEOREM LifeInvariance == LifeSpec => []LifeInv
<1>1. LifeInit => LifeInv
  <2> SUFFICES ASSUME LifeInit PROVE LifeInv
    OBVIOUS
  <2>1. discs = <<>> /\ ipc = "idle" /\ wallet = Nil /\ presented = {} /\ challenge = 0
    BY DEF LifeInit, IssuerInit
  <2>2. pc = "idle"
    BY DEF LifeInit, Init
  <2>3. IsSequence(<<>>)
    BY DEF IsSequence
  <2> QED
    BY <2>1, <2>2, <2>3 DEF LifeInv, IssuedOK, SentOK, Delivered, KBChecked
<1>2. LifeInv /\ [LifeNext]_lifeVars => LifeInv'
  <2> SUFFICES ASSUME LifeInv, [LifeNext]_lifeVars PROVE LifeInv'
    OBVIOUS
  <2>1. CASE LifeNext
    BY <2>1, IssueLife, QuietLife, PresentLife, DeliverLife, VerifyingLife DEF LifeNext
  <2>2. CASE UNCHANGED lifeVars
    <3>1. Delivered' /\ KBChecked'
      BY <2>2 DEF LifeInv, Delivered, KBChecked, kbPayload, lifeVars, holderVars, vars,
         parseVars
    <3> QED
      BY <2>2, <3>1, CallLife DEF lifeVars
  <2> QED
    BY <2>1, <2>2
<1> QED
  BY <1>1, <1>2, PTL DEF LifeSpec

(* What arrived under a KB-JWT was sent under it, all of it: sd_hash.      *)
LEMMA ArrivedWhole ==
  ASSUME NEW p, Sent(p), NEW r, Arrives(p, r), HasKeyBinding(Parse(r)),
         Parse(r).KBJWT.jwt.payload.sd_hash = DigestSHA256(Prefix(Parse(r)))
  PROVE  /\ p.raw = r /\ p.opts.KeyBinding
         /\ Parse(r).KBJWT.jwt.payload.nonce = p.opts.Nonce
         /\ Parse(r).KBJWT.jwt.payload.aud = {p.opts.Audience}
<1>1. PICK u : u = Parse(p.raw)
  OBVIOUS
<1>2. /\ p.raw = String(u) /\ u = Token(u.IssuerJWT, u.Disclosures, u.KBJWT)
      /\ IsSequence(u.Disclosures)
      /\ ~p.opts.KeyBinding => u.KBJWT = Nil
  BY <1>1 DEF Sent
<1>3. PICK J \in SUBSET DOMAIN u.Disclosures, kb \in {u.KBJWT, Nil} :
        r = String(Token(u.IssuerJWT, ElementsAt(u.Disclosures, J), kb))
  BY <1>1 DEF Arrives
<1>4. PICK d : d = ElementsAt(u.Disclosures, J)
  OBVIOUS
<1>5. IsSequence(d)
  BY <1>2, <1>4, ElementsAreSequence
<1>6. PICK v : v = Token(u.IssuerJWT, d, kb)
  OBVIOUS
<1>7. r = String(v) /\ v.KBJWT = kb /\ v.Disclosures = d
  BY <1>3, <1>4, <1>6 DEF Token
<1>8. Parse(r) = v
  BY <1>5, <1>6, <1>7, ParseOfString DEF IsSequence
<1>9. kb = u.KBJWT /\ p.opts.KeyBinding
  BY <1>2, <1>7, <1>8 DEF HasKeyBinding
<1>10. /\ u.KBJWT.jwt.payload.nonce = p.opts.Nonce
       /\ u.KBJWT.jwt.payload.aud = {p.opts.Audience}
       /\ u.KBJWT.jwt.payload.sd_hash = DigestSHA256(Prefix(u))
  BY <1>1, <1>9 DEF Sent
<1>11. DigestSHA256(Prefix(v)) = DigestSHA256(Prefix(u))
  BY <1>7, <1>8, <1>9, <1>10
<1>12. v.Disclosures = u.Disclosures
  <2>1. PICK S : v.Disclosures \in Seq(S) /\ u.Disclosures \in Seq(S)
    BY <1>2, <1>5, <1>7, CommonRange
  <2> QED
    BY <1>11, <2>1, PrefixCommits
<1>13. v = u
  BY <1>2, <1>6, <1>7, <1>9, <1>12
<1> QED
  BY <1>2, <1>7, <1>8, <1>9, <1>10, <1>13

(* Holder and verifier agree on every result reported as KeyBound.         *)
THEOREM KeyBindingAgreed == LifeSpec => []KeyBoundAgreement
<1>1. LifeInv => KeyBoundAgreement
  <2> SUFFICES ASSUME LifeInv, pc = "accepted", outcome.KeyBound
               PROVE  \E p \in Answer(raw) :
                        /\ p.opts.KeyBinding /\ p.opts.Nonce = nonce
                        /\ opts.audience # Nil => p.opts.Audience = opts.audience
    BY DEF KeyBoundAgreement
  <2>1. PICK p \in presented : Arrives(p, raw) /\ Sent(p)
    BY DEF LifeInv, Delivered, SentOK
  <2>2. t = Parse(raw) /\ nonce # Nil
    BY VerifierAssumption DEF LifeInv, Delivered
  <2>3. HasKeyBinding(t)
    BY DEF LifeInv, KBChecked
  <2>4. /\ kbPayload.nonce = nonce /\ kbPayload.sd_hash = DigestSHA256(Prefix(t))
        /\ opts.audience # Nil => opts.audience \in kbPayload.aud
    BY <2>2, <2>3 DEF LifeInv, KBChecked
  <2>5. PICK r : r = raw
    OBVIOUS
  <2>6. /\ p.raw = r /\ p.opts.KeyBinding
        /\ Parse(r).KBJWT.jwt.payload.nonce = p.opts.Nonce
        /\ Parse(r).KBJWT.jwt.payload.aud = {p.opts.Audience}
    BY <2>1, <2>2, <2>3, <2>4, <2>5, ArrivedWhole DEF kbPayload
  <2> QED
    BY <2>2, <2>4, <2>5, <2>6 DEF Answer, kbPayload
<1> QED
  BY <1>1, LifeInvariance, PTL

-----------------------------------------------------------------------------
(* What the relying party reads.  Here the issuer's side comes in: the     *)
(* claims that Issue disclosed or left in the clear, by IssuerInv.         *)

(* A token of the credential that was issued, with all or some of its      *)
(* disclosures.                                                            *)
Genuine(u) ==
  u.IssuerJWT.jwt.payload = tree /\ ToSet(u.Disclosures) \subseteq ToSet(discs)

(* A disclosure has the name of its claim.                                 *)
Named == \A e \in ToSet(discs) : ParseDisclosure(e).Key = Last(ParseDisclosure(e).Value.claim)

Handed ==
  /\ ipc = "issued" => Genuine(result.token)
  /\ wallet # Nil => ipc = "issued" /\ Genuine(wallet)
  /\ \A p \in presented : ipc = "issued" /\ Genuine(Parse(p.raw))

(* The stages of Verify up to the walk, and from the walk on.              *)
BeforeWalk ==
  {"issuer_jwt_decode", "key_resolution", "signature", "exp", "nbf", "sd_alg"}
FromWalk ==
  {"disclosure_collect", "disclosure", "kbjwt", "cnf", "kbjwt_decode", "kbjwt_key",
   "kbjwt_sig", "kbjwt_nonce", "kbjwt_aud", "kbjwt_sd_hash", "vct", "accepted"}

(* A disclosure of the claim at p among the first n - 1 that arrived.      *)
Arrived(n, p) == \E i \in 1 .. n - 1 : ParseDisclosure(t.Disclosures[i]).Value.claim = p

(* The digests collected are where the map says, and the claims disclosed  *)
(* so far are in their objects, over those in the clear.                   *)
Listed ==
  \A d \in DOMAIN digestMap :
    digestMap[d] \in Objects(tree) /\ d \in ToSet(tree.sd[digestMap[d]])

Merged ==
  /\ IsTree(payload) /\ Objects(payload) = Objects(tree)
  /\ \A p \in Processed(req) :
       /\ Front(p) \in Objects(tree) =>
            (Last(p) \in DOMAIN payload.val[Front(p)] <=>
               Last(p) \in DOMAIN tree.val[Front(p)] \/ Arrived(next, p))
       /\ Arrived(next, p) =>
            Front(p) \in Objects(tree) /\ payload.val[Front(p)][Last(p)].claim = p

Reading ==
  /\ pc \in BeforeWalk \cup FromWalk =>
       ipc = "issued" /\ Genuine(t) /\ IsSequence(t.Disclosures)
  /\ pc \in {"idle", "parse"} \cup BeforeWalk => digestMap = <<>> /\ next = 1
  /\ pc \in BeforeWalk \ {"issuer_jwt_decode"} => payload = tree
  /\ pc = "disclosure_collect" => payload = tree /\ next = 1
  /\ pc \in FromWalk => hashAlg # Nil /\ Listed /\ Merged /\ next \in 1 .. Len(t.Disclosures) + 1
  /\ pc \in FromWalk \ {"disclosure_collect", "disclosure"} => next > Len(t.Disclosures)

RevealInv == Named /\ Handed /\ Reading

-----------------------------------------------------------------------------
(* The elements at some indices are elements: every rank up to the number  *)
(* of indices is taken, because no two indices have the same.              *)
LEMMA RankTaken ==
  ASSUME NEW J, J \subseteq Nat, IsFiniteSet(J), NEW i \in 1 .. Cardinality(J)
  PROVE  \E j \in J : Cardinality({k \in J : k <= j}) = i
<1> DEFINE upTo(j) == {k \in J : k <= j}
<1>1. PICK n \in Nat : n = Cardinality(J)
  BY FS_CardinalityType
<1>2. ASSUME NEW j \in J
      PROVE  IsFiniteSet(upTo(j)) /\ Cardinality(upTo(j)) \in 1 .. n
  <2>1. upTo(j) \in SUBSET J /\ j \in upTo(j)
    OBVIOUS
  <2>2. IsFiniteSet(upTo(j)) /\ Cardinality(upTo(j)) <= Cardinality(J)
    BY <2>1, FS_Subset
  <2>3. Cardinality(upTo(j)) \in Nat /\ Cardinality(upTo(j)) # 0
    BY <2>1, <2>2, FS_CardinalityType, FS_EmptySet
  <2> QED
    BY <1>1, <2>2, <2>3
<1>3. ASSUME NEW j \in J, NEW k \in J, j < k PROVE Cardinality(upTo(j)) # Cardinality(upTo(k))
  <2>0. j \in Nat /\ k \in Nat /\ \A l \in J : l \in Nat
    OBVIOUS
  <2>1. upTo(j) \in SUBSET upTo(k) /\ k \in upTo(k) /\ k \notin upTo(j)
    <3>1. k \in upTo(k)
      BY <2>0
    <3>2. ~(k <= j)
      BY <1>3, <2>0
    <3>3. \A l \in J : l <= j => l <= k
      BY <1>3, <2>0
    <3> QED
      BY <3>1, <3>2, <3>3
  <2> QED
    BY <1>2, <2>1, FS_Subset
<1>4. PICK f : f = [j \in J |-> Cardinality(upTo(j))]
  OBVIOUS
<1>5. \A j \in J : f[j] = Cardinality(upTo(j))
  BY <1>4
<1> HIDE DEF upTo
<1>6. f \in [J -> 1 .. n]
  BY <1>2, <1>4
<1>7. \A j, k \in J : f[j] = f[k] => j = k
  BY <1>3, <1>5
<1>8. f \in Injection(J, 1 .. n)
  BY <1>6, <1>7 DEF Injection, IsInjective
<1>9. IsFiniteSet(1 .. n) /\ Cardinality(1 .. n) = n
  <2>1. IsFiniteSet(1 .. n) /\ Cardinality(1 .. n) = IF 1 > n THEN 0 ELSE n - 1 + 1
    BY FS_Interval
  <2> QED
    BY <2>1
<1>10. f \in Surjection(J, 1 .. n)
  BY <1>1, <1>8, <1>9, FS_Injection
<1>11. PICK j \in J : f[j] = i
  BY <1>1, <1>10 DEF Surjection
<1> QED
  BY <1>5, <1>11 DEF upTo

(* So what passes a filter or the transport was there before.             *)
LEMMA ElementsWithin ==
  ASSUME NEW s, IsSequence(s), NEW J, J \subseteq DOMAIN s
  PROVE  ToSet(ElementsAt(s, J)) \subseteq ToSet(s)
<1>1. DOMAIN s = 1 .. Len(s) /\ Len(s) \in Nat
  BY DEF IsSequence
<1>2. IsFiniteSet(J) /\ J \subseteq Nat
  <2>1. PICK n \in Nat : n = Len(s) /\ J \in SUBSET (1 .. n)
    BY <1>1
  <2>2. IsFiniteSet(1 .. n)
    BY FS_Interval
  <2> QED
    BY <2>1, <2>2, FS_Subset
<1>3. PICK f : f = ElementsAt(s, J)
  OBVIOUS
<1>4. DOMAIN f = 1 .. Cardinality(J)
  BY <1>3 DEF ElementsAt
<1>5. ASSUME NEW i \in 1 .. Cardinality(J) PROVE f[i] \in ToSet(s)
  <2>1. PICK c : c = CHOOSE j \in J : Cardinality({k \in J : k <= j}) = i
    OBVIOUS
  <2>2. c \in J
    BY <1>2, <2>1, RankTaken
  <2>3. f[i] = s[c]
    BY <1>3, <2>1 DEF ElementsAt
  <2> QED
    BY <2>2, <2>3 DEF ToSet
<1>6. ToSet(f) \subseteq ToSet(s)
  BY <1>4, <1>5 DEF ToSet
<1> QED
  BY <1>3, <1>6

(* What the holder presents is genuine, and what is left of it on the way. *)
LEMMA PresentGenuine ==
  ASSUME NEW signer, NEW w, Bare(w), Genuine(w), NEW o, NEW at
  PROVE  Genuine(Parse(String(Present(signer, w, o, at))))
<1>1. PICK d : d = selectDisclosures(w, o.RevealClaims)
  OBVIOUS
<1>2. IsSequence(d) /\ ToSet(d) \subseteq ToSet(w.Disclosures)
  <2>1. CASE o.RevealClaims = {}
    BY <1>1, <2>1 DEF selectDisclosures, Bare
  <2>2. CASE o.RevealClaims # {}
    <3>1. PICK J \in SUBSET DOMAIN w.Disclosures : d = ElementsAt(w.Disclosures, J)
      BY <1>1, <2>2 DEF selectDisclosures
    <3> QED
      BY <3>1, ElementsAreSequence, ElementsWithin DEF Bare
  <2> QED
    BY <2>1, <2>2
<1>3. PICK u, kb : u = Token(w.IssuerJWT, d, kb) /\ Present(signer, w, o, at) = u
  <2>1. PICK bare : bare = Token(w.IssuerJWT, d, Nil)
    OBVIOUS
  <2>2. PICK kb : kb = IF o.KeyBinding THEN buildKBJWT(signer, bare, o.Nonce, o.Audience, at) ELSE Nil
    OBVIOUS
  <2>3. Present(signer, w, o, at) = Token(w.IssuerJWT, d, kb)
    BY <1>1, <2>1, <2>2 DEF Present, Token
  <2> QED
    BY <2>3
<1>4. Parse(String(u)) = u
  BY <1>2, <1>3, ParseOfString DEF IsSequence
<1>5. u.IssuerJWT = w.IssuerJWT /\ u.Disclosures = d
  BY <1>3 DEF Token
<1>6. Genuine(u)
  BY <1>2, <1>5 DEF Genuine
<1> QED
  BY <1>3, <1>4, <1>6

(* What arrives of it is genuine too.                                      *)
LEMMA ArrivesGenuine ==
  ASSUME NEW p, Sent(p), Genuine(Parse(p.raw)), NEW r, Arrives(p, r)
  PROVE  Genuine(Parse(r)) /\ IsSequence(Parse(r).Disclosures)
<1>1. PICK u : u = Parse(p.raw) /\ IsSequence(u.Disclosures) /\ Genuine(u)
  BY DEF Sent
<1>2. PICK J \in SUBSET DOMAIN u.Disclosures, kb \in {u.KBJWT, Nil} :
        r = String(Token(u.IssuerJWT, ElementsAt(u.Disclosures, J), kb))
  BY <1>1 DEF Arrives
<1>3. PICK d : d = ElementsAt(u.Disclosures, J)
  OBVIOUS
<1>4. IsSequence(d) /\ ToSet(d) \subseteq ToSet(u.Disclosures)
  BY <1>1, <1>3, ElementsAreSequence, ElementsWithin
<1>5. PICK v : v = Token(u.IssuerJWT, d, kb)
  OBVIOUS
<1>6. Parse(r) = v /\ v.IssuerJWT = u.IssuerJWT /\ v.Disclosures = d
  <2>1. r = String(v)
    BY <1>2, <1>3, <1>5
  <2> QED
    BY <1>4, <1>5, <2>1, ParseOfString DEF IsSequence, Token
<1> QED
  BY <1>1, <1>4, <1>6 DEF Genuine

-----------------------------------------------------------------------------
(* The issuer runs inside the lifecycle as it does alone.                  *)
LEMMA LifeIssues == [LifeNext]_lifeVars => [IssuerNext]_issuerVars
<1> SUFFICES ASSUME [LifeNext]_lifeVars PROVE [IssuerNext]_issuerVars
  OBVIOUS
<1>1. CASE Time
  BY <1>1 DEF Time, Tick, IssuerNext, IssuerTick
<1>2. CASE Issuing
  <2>1. UNCHANGED <<vars, holderVars>> /\ IssuerNext
    BY <1>2 DEF Issuing, IssuerNext, IssuerStep
  <2> QED
    BY <2>1
<1>3. CASE Store \/ Challenge \/ (\E c \in PresentChoices : PresentTo(c)) \/ UNCHANGED lifeVars
  BY <1>3 DEF Store, Challenge, PresentTo, lifeVars, vars, issuerVars
<1>4. CASE Deliver
  BY <1>4 DEF Deliver, Verify, issuerVars
<1>5. CASE Verifying
  <2>1. UNCHANGED issueVars /\ Step
    BY <1>5 DEF Verifying
  <2>2. UNCHANGED clock
    <3>1. CASE ParseRaw \/ DecodeIssuerJWT \/ VerifySignature \/ CheckExp \/ CheckNbf
      BY <3>1 DEF ParseRaw, DecodeIssuerJWT, VerifySignature, CheckExp, CheckNbf
    <3>2. CASE ResolveSdAlg \/ CollectNested \/ CollectReturn \/ ResolveIssuerKey
      BY <3>2 DEF ResolveSdAlg, CollectNested, CollectReturn, ResolveIssuerKey, KeyResolved
    <3>3. CASE VerifyDisclosure \/ DisclosuresDone \/ RequireKBJWT
      BY <3>3 DEF VerifyDisclosure, DisclosuresDone, RequireKBJWT
    <3>4. CASE VerifyKBJWT \/ CheckVCT \/ Return
      BY <3>4 DEF VerifyKBJWT, CheckVCT, Return
    <3> QED
      BY <2>1, <3>1, <3>2, <3>3, <3>4 DEF Step, OwnStep
  <2> QED
    BY <2>1, <2>2 DEF issuerVars
<1> QED
  BY <1>1, <1>2, <1>3, <1>4, <1>5 DEF LifeNext

(* All that is proved of Issuer holds of the issuer in the lifecycle.      *)
THEOREM LifeImplementsIssuer == LifeSpec => IssuerSpec
<1>1. LifeInit => IssuerInit
  BY DEF LifeInit
<1> QED
  BY <1>1, LifeIssues, PTL DEF LifeSpec, IssuerSpec

(* Nothing changes that the verifier has read.                             *)
LEMMA SameReading ==
  ASSUME Reading, UNCHANGED <<pc, t, payload, digestMap, next>>,
         UNCHANGED <<ipc, tree, discs, req>>
  PROVE  Reading'
<1>1. hashAlg' = hashAlg /\ (Genuine(t)' <=> Genuine(t)) /\ (Listed' <=> Listed)
  BY DEF hashAlg, Genuine, Listed
<1>2. Merged' <=> Merged
  BY DEF Merged, Arrived
<1> QED
  BY <1>1, <1>2 DEF Reading

(* The disclosure appended is the only new one.                            *)
LEMMA AppendedElements ==
  ASSUME NEW s, IsSequence(s), NEW e
  PROVE  ToSet(Append(s, e)) = ToSet(s) \cup {e}
<1>1. PICK n \in Nat : n = Len(s) /\ DOMAIN s = 1 .. n
  BY DEF IsSequence
<1>2. PICK f : f = Append(s, e)
  OBVIOUS
<1>3. DOMAIN f = 1 .. n + 1 /\ f[n + 1] = e /\ \A i \in 1 .. n : f[i] = s[i]
  <2>1. s \in Seq(ToSet(s) \cup {e}) /\ e \in ToSet(s) \cup {e}
    BY DEF IsSequence
  <2> QED
    BY <1>1, <1>2, <2>1
<1>4. \A i \in 1 .. n + 1 : i \in 1 .. n \/ i = n + 1
  OBVIOUS
<1>5. \A i \in 1 .. n : i \in 1 .. n + 1
  OBVIOUS
<1>6. ToSet(f) = ToSet(s) \cup {e}
  BY <1>1, <1>3, <1>4, <1>5 DEF ToSet
<1> QED
  BY <1>2, <1>6

(* The steps of the issuer come before all others.                         *)
LEMMA IssuingReveal ==
  ASSUME LifeInv, RevealInv, Issuing
  PROVE  RevealInv'
<1>1. UNCHANGED <<vars, holderVars>> /\ ipc # "issued"
  <2>1. CASE \E r \in Requests : Issue(r)
    BY <2>1 DEF Issuing, Issue
  <2>2. CASE BuildClaim \/ BuildEnter \/ BuildReturn
    BY <2>2 DEF Issuing, BuildClaim, BuildEnter, BuildReturn
  <2>3. CASE AddDecoys \/ RandomnessFails \/ SetRegisteredClaims \/ Sign
    BY <2>3 DEF Issuing, AddDecoys, RandomnessFails, SetRegisteredClaims, Sign
  <2> QED
    BY <2>1, <2>2, <2>3 DEF Issuing
<1>2. wallet' = Nil /\ presented' = {} /\ pc' \notin BeforeWalk \cup FromWalk
  BY <1>1 DEF RevealInv, Handed, Reading, vars, holderVars
<1>3. Reading'
  BY <1>1, <1>2 DEF RevealInv, Reading, vars, walkVars, discVars, FromWalk, BeforeWalk
<1>4. Named'
  <2>1. \/ discs' = discs
        \/ \E p, salt, v : v.claim = p /\ discs' = Append(discs, Encode(Disclosure(salt, Last(p), v)))
    <3> USE DEF callVars
    <3>1. CASE BuildClaim
      <4>1. PICK p \in Members(req, icur) \ handled :
              Disclose(p, [claim |-> p], tree) \/ discs' = discs
        BY <3>1 DEF BuildClaim
      <4> QED
        BY <4>1 DEF Disclose
    <3>2. CASE BuildReturn
      <4>1. PICK n, rest : Disclose(icur, [claim |-> icur, nested |-> n], rest) \/ discs' = discs
        BY <3>2 DEF BuildReturn
      <4> QED
        BY <4>1 DEF Disclose
    <3>3. CASE \/ \E r \in Requests : Issue(r)
               \/ BuildEnter \/ AddDecoys \/ RandomnessFails
      BY <3>3 DEF Issue, BuildEnter, AddDecoys, RandomnessFails
    <3>4. CASE SetRegisteredClaims \/ Sign
      BY <3>4 DEF SetRegisteredClaims, Sign
    <3> QED
      BY <3>1, <3>2, <3>3, <3>4 DEF Issuing
  <2>2. ASSUME NEW p, NEW salt, NEW v, v.claim = p,
               discs' = Append(discs, Encode(Disclosure(salt, Last(p), v)))
        PROVE  Named'
    <3>1. PICK e : e = Encode(Disclosure(salt, Last(p), v))
      OBVIOUS
    <3>2. ParseDisclosure(e).Value = v /\ ParseDisclosure(e).Key = Last(p)
      BY <3>1, ParseEncode
    <3>3. ToSet(discs') = ToSet(discs) \cup {e}
      BY <2>2, <3>1, AppendedElements DEF LifeInv, IssuedOK
    <3> QED
      BY <2>2, <3>2, <3>3 DEF RevealInv, Named
  <2>3. CASE discs' = discs
    BY <2>3 DEF RevealInv, Named
  <2> QED
    BY <2>1, <2>2, <2>3
<1>5. Handed'
  <2>1. ASSUME ipc' = "issued" PROVE Genuine(result.token)'
    <3>1. Sign
      BY <2>1, IssuedBySign
    <3>2. /\ result' = [token |-> Token(signJWT(iopts.signer, tree), discs, Nil)]
          /\ tree' = tree /\ discs' = discs
      BY <2>1, <3>1 DEF Sign, Fail, callVars
    <3>3. result'.token.IssuerJWT.jwt.payload = tree /\ result'.token.Disclosures = discs
      BY <3>2 DEF Token, signJWT
    <3> QED
      BY <3>2, <3>3 DEF Genuine
  <2> QED
    BY <1>2, <2>1 DEF Handed
<1> QED
  BY <1>3, <1>4, <1>5 DEF RevealInv

(* Steps that leave the credential and the reading alone.                  *)
LEMMA QuietReveal ==
  ASSUME RevealInv, UNCHANGED <<pc, t, payload, digestMap, next>>, UNCHANGED issueVars,
         \/ Store
         \/ UNCHANGED <<wallet, presented>>
  PROVE  RevealInv'
<1>1. UNCHANGED <<ipc, tree, discs, req, result>>
  BY DEF issueVars, callVars
<1>2. Reading'
  BY <1>1, SameReading DEF RevealInv
<1>3. Named'
  BY <1>1 DEF RevealInv, Named
<1>4. \A u : Genuine(u)' <=> Genuine(u)
  BY <1>1 DEF Genuine
<1>5. Handed'
  <2>1. CASE Store
    BY <1>1, <1>4, <2>1 DEF Store, RevealInv, Handed
  <2>2. CASE UNCHANGED <<wallet, presented>>
    BY <1>1, <1>4, <2>2 DEF RevealInv, Handed
  <2> QED
    BY <2>1, <2>2
<1> QED
  BY <1>2, <1>3, <1>5 DEF RevealInv

(* A presentation is genuine because the wallet is.                        *)
LEMMA PresentReveal ==
  ASSUME LifeInv, RevealInv, NEW c \in PresentChoices, PresentTo(c)
  PROVE  RevealInv'
<1>1. PICK o : o = [RevealClaims |-> c.RevealClaims, KeyBinding |-> c.KeyBinding,
                    Audience |-> c.Audience, Nonce |-> challenge]
  OBVIOUS
<1>2. PICK at : at = clock \div TicksPerSecond
  OBVIOUS
<1>3. PICK p : p = [raw |-> String(Present(HolderSigner, wallet, o, at)), opts |-> o]
  OBVIOUS
<1>4. /\ wallet # Nil /\ presented' = presented \cup {p}
      /\ UNCHANGED <<vars, issueVars, wallet, challenge>>
  BY <1>1, <1>2, <1>3 DEF PresentTo
<1>5. PICK w : w = wallet /\ Bare(w) /\ Genuine(w) /\ ipc = "issued"
  BY <1>4 DEF LifeInv, IssuedOK, RevealInv, Handed
<1>6. Genuine(Parse(p.raw))
  BY <1>3, <1>5, PresentGenuine
<1>7. UNCHANGED <<pc, t, payload, digestMap, next>> /\ UNCHANGED <<ipc, tree, discs, req, result>>
  BY <1>4 DEF vars, parseVars, walkVars, discVars, issueVars, callVars
<1>8. \A u : Genuine(u)' <=> Genuine(u)
  BY <1>7 DEF Genuine
<1>9. Handed'
  BY <1>4, <1>5, <1>6, <1>7, <1>8 DEF RevealInv, Handed
<1>10. Named' /\ Reading'
  BY <1>7, SameReading DEF RevealInv, Named
<1> QED
  BY <1>9, <1>10 DEF RevealInv

(* A message arrives.                                                      *)
LEMMA DeliverReveal ==
  ASSUME RevealInv, Deliver
  PROVE  RevealInv'
<1>1. /\ pc = "idle" /\ pc' = "parse"
      /\ UNCHANGED <<payload, walkVars, discVars, issueVars, holderVars>>
  BY DEF Deliver, Verify
<1>2. UNCHANGED <<ipc, tree, discs, req, result, wallet, presented, digestMap, next>>
  BY <1>1 DEF walkVars, discVars, issueVars, callVars, holderVars
<1>3. Reading'
  BY <1>1, <1>2 DEF RevealInv, Reading, BeforeWalk, FromWalk
<1>4. Named' /\ Handed'
  BY <1>2 DEF RevealInv, Named, Handed, Genuine
<1> QED
  BY <1>3, <1>4 DEF RevealInv

-----------------------------------------------------------------------------
(* A disclosure of the issuer whose digest is in an _sd array is that of a *)
(* selective claim of this very object.                                    *)
LEMMA Home ==
  ASSUME Selectable, IssuerInv, ipc = "issued", Named, NEW enc \in ToSet(discs), NEW h, h # "decoy",
         NEW o \in Objects(tree), Digest(h, enc) \in ToSet(tree.sd[o])
  PROVE  \E q \in Processed(req) :
           /\ Front(q) = o /\ ParseDisclosure(enc).Value.claim = q
           /\ ParseDisclosure(enc).Key = Last(q) /\ Last(q) # Nil
<1>1. Safe /\ req \in Requests /\ handled = Processed(req)
  BY Finished
<1>2. 0 \in Carriers /\ Carried(0) = tree
  BY DEF Carriers, Carried
<1>3. PICK j \in DOMAIN tree.sd[o] : tree.sd[o][j] = Digest(h, enc)
  BY DEF ToSet
<1>4. Real(0, o, j) \/ Decoy(0, o, j)
  BY <1>1, <1>2, <1>3 DEF Safe, Digests
<1>5. ~Decoy(0, o, j)
  BY <1>2, <1>3 DEF Decoy, Digest
<1>6. PICK i \in DOMAIN discs : Digest(h, enc) = Digest(iopts.hashAlg, discs[i]) /\ Front(Of(i)) = o
  BY <1>2, <1>3, <1>4, <1>5 DEF Real
<1>7. enc = discs[i]
  BY <1>6 DEF Digest
<1>8. Of(i) = ParseDisclosure(enc).Value.claim
  BY <1>7 DEF Of, Opened
<1>9. Of(i) \in Processed(req) /\ Selective(req, Of(i))
  BY <1>1 DEF Safe, Disclosures
<1>10. Last(Of(i)) # Nil
  BY <1>1, <1>9 DEF Selectable
<1>11. ParseDisclosure(enc).Key = Last(Of(i))
  BY <1>8 DEF Named
<1> QED
  BY <1>6, <1>8, <1>9, <1>10, <1>11

(* The algorithm the verifier reads is not the tag of a decoy.             *)
LEMMA NoDecoyAlg == hashAlg # Nil => hashAlg # "decoy"
BY DEF hashAlg, sdAlg, AlgorithmFromSDAlg

(* Two claims with the same object and the same name are the same.         *)
LEMMA SameClaim ==
  ASSUME NEW r \in Requests, NEW p \in Processed(r), NEW q \in Processed(r),
         Front(p) = Front(q), Last(p) = Last(q)
  PROVE  p = q
<1>1. p \in Path /\ p # <<>> /\ q \in Path /\ q # <<>>
  BY StructTree
<1>2. p = Append(Front(p), Last(p)) /\ q = Append(Front(q), Last(q))
  BY <1>1, FrontLast
<1> QED
  BY <1>2

(* Stages that change nothing of the reading but pc.                       *)
LEMMA LaterReading ==
  ASSUME Reading, UNCHANGED <<t, payload, digestMap, next>>, UNCHANGED <<ipc, tree, discs, req>>,
         pc \in FromWalk, pc' \in FromWalk \cup {"rejected"},
         pc' = "disclosure_collect" => pc = "disclosure_collect",
         pc' \in FromWalk \ {"disclosure_collect", "disclosure"} => next > Len(t.Disclosures)
  PROVE  Reading'
<1>1. hashAlg' = hashAlg /\ (Genuine(t)' <=> Genuine(t)) /\ (Listed' <=> Listed)
  BY DEF hashAlg, Genuine, Listed
<1>2. Merged' <=> Merged
  BY DEF Merged, Arrived
<1>3. /\ pc' \notin {"idle", "parse"} \cup BeforeWalk
      /\ pc' \in BeforeWalk \cup FromWalk => pc \in BeforeWalk \cup FromWalk
  BY DEF BeforeWalk, FromWalk
<1> QED
  BY <1>1, <1>2, <1>3 DEF Reading

(* A rejected call reads nothing any more.                                 *)
LEMMA RejectedReading ==
  ASSUME pc' = "rejected"
  PROVE  Reading'
BY DEF Reading, BeforeWalk, FromWalk

(* Entering an object of the payload.                                      *)
LEMMA EnterListed ==
  ASSUME Listed, NEW o \in Objects(tree), payload = tree, UNCHANGED tree, Enter(o)
  PROVE  Listed'
<1>1. PICK g : g = [d \in ToSet(tree.sd[o]) |-> o]
  OBVIOUS
<1>2. DOMAIN g = ToSet(tree.sd[o]) /\ \A d \in ToSet(tree.sd[o]) : g[d] = o
  BY <1>1
<1>3. digestMap' = Overlay(digestMap, g)
  BY <1>1 DEF Enter
<1>4. /\ DOMAIN digestMap' = DOMAIN digestMap \cup DOMAIN g
      /\ \A d \in DOMAIN g : digestMap'[d] = g[d]
      /\ \A d \in DOMAIN digestMap \ DOMAIN g : digestMap'[d] = digestMap[d]
  BY <1>3 DEF Overlay
<1> QED
  BY <1>2, <1>4 DEF Listed

(* A disclosure more is merged.                                            *)
LEMMA MergeStep ==
  ASSUME Merged, req \in Requests, UNCHANGED <<req, tree, t>>, next \in Nat \ {0}, next' = next + 1,
         NEW q \in Processed(req), NEW v, v.claim = q,
         ParseDisclosure(t.Disclosures[next]).Value = v, Front(q) \in Objects(tree),
         payload' = Put(payload, Front(q), Last(q), v)
  PROVE  Merged'
<1>1. PICK old, new, o, k : old = payload /\ new = payload' /\ o = Front(q) /\ k = Last(q)
  OBVIOUS
<1>2. IsTree(old) /\ Objects(old) = Objects(tree) /\ o \in Objects(old)
  BY <1>1 DEF Merged
<1>3. /\ IsTree(new) /\ Objects(new) = Objects(old)
      /\ DOMAIN new.val[o] = DOMAIN old.val[o] \cup {k} /\ new.val[o][k] = v
      /\ \A x \in DOMAIN old.val[o] : x # k => new.val[o][x] = old.val[o][x]
      /\ \A x \in Objects(old) : x # o => new.val[x] = old.val[x]
  BY <1>1, <1>2, PutFacts
<1>4. ASSUME NEW p \in Processed(req)
      PROVE  Arrived(next, p)' <=> Arrived(next, p) \/ p = q
  <2>1. \A i \in 1 .. next' - 1 : i \in 1 .. next - 1 \/ i = next
    OBVIOUS
  <2>2. (\A i \in 1 .. next - 1 : i \in 1 .. next' - 1) /\ next \in 1 .. next' - 1
    OBVIOUS
  <2>3. t' = t /\ ParseDisclosure(t.Disclosures[next]).Value.claim = q
    OBVIOUS
  <2> QED
    BY <2>1, <2>2, <2>3 DEF Arrived
<1>5. ASSUME NEW p \in Processed(req)
      PROVE  /\ Front(p) \in Objects(tree) =>
                  (Last(p) \in DOMAIN new.val[Front(p)] <=>
                     Last(p) \in DOMAIN tree.val[Front(p)] \/ Arrived(next, p)')
             /\ Arrived(next, p)' =>
                  Front(p) \in Objects(tree) /\ new.val[Front(p)][Last(p)].claim = p
  <2>1. /\ Front(p) \in Objects(tree) =>
             (Last(p) \in DOMAIN old.val[Front(p)] <=>
                Last(p) \in DOMAIN tree.val[Front(p)] \/ Arrived(next, p))
        /\ Arrived(next, p) =>
             Front(p) \in Objects(tree) /\ old.val[Front(p)][Last(p)].claim = p
    BY <1>1 DEF Merged
  <2>2. CASE p = q
    BY <1>1, <1>2, <1>3, <1>4, <2>2
  <2>3. CASE p # q
    <3>1. Front(p) # o \/ Last(p) # k
      BY <1>1, <2>3, SameClaim
    <3>2. Front(p) \in Objects(tree) =>
            /\ Last(p) \in DOMAIN new.val[Front(p)] <=> Last(p) \in DOMAIN old.val[Front(p)]
            /\ Last(p) \in DOMAIN old.val[Front(p)] =>
                 new.val[Front(p)][Last(p)] = old.val[Front(p)][Last(p)]
      BY <1>2, <1>3, <3>1
    <3> QED
      BY <1>4, <2>1, <2>3, <3>2
  <2> QED
    BY <2>2, <2>3
<1> QED
  BY <1>1, <1>2, <1>3, <1>5 DEF Merged

(* The disclosure loop writes each claim that arrived into its object.     *)
LEMMA DisclosureReading ==
  ASSUME Selectable, IssuerInv, RevealInv, VerifyDisclosure, UNCHANGED issueVars
  PROVE  Reading'
<1>1. CASE pc' = "rejected"
  BY <1>1, RejectedReading
<1>2. CASE pc' # "rejected"
  <2>1. UNCHANGED <<ipc, tree, discs, req>> /\ UNCHANGED <<t, digestMap>>
    BY DEF VerifyDisclosure, issueVars, callVars, parseVars, walkVars
  <2>2. /\ pc = "disclosure" /\ ipc = "issued" /\ Genuine(t) /\ IsSequence(t.Disclosures)
        /\ hashAlg # Nil /\ Listed /\ Merged /\ Named
        /\ next \in 1 .. Len(t.Disclosures) + 1
    BY DEF VerifyDisclosure, RevealInv, Reading, FromWalk, BeforeWalk
  <2>3. next \in DOMAIN t.Disclosures /\ next \in Nat \ {0} /\ next + 1 \in 1 .. Len(t.Disclosures) + 1
    <3>1. next <= Len(t.Disclosures)
      BY DEF VerifyDisclosure
    <3>2. DOMAIN t.Disclosures = 1 .. Len(t.Disclosures) /\ Len(t.Disclosures) \in Nat
      BY <2>2 DEF IsSequence
    <3> QED
      BY <2>2, <3>1, <3>2
  <2>4. PICK enc, d, o, h : /\ enc = t.Disclosures[next] /\ d = ParseDisclosure(enc) /\ h = hashAlg
                            /\ o = digestMap[Digest(h, enc)]
    OBVIOUS
  <2>5. /\ Digest(h, enc) \in DOMAIN digestMap /\ next' = next + 1 /\ pc' = pc
        /\ \/ d.Key # Nil /\ payload' = Put(payload, o, d.Key, d.Value)
           \/ d.Key = Nil
    BY <1>2, <2>4 DEF VerifyDisclosure, RejectAt, Put
  <2>6. enc \in ToSet(discs)
    BY <2>2, <2>3, <2>4 DEF Genuine, ToSet
  <2>7. o \in Objects(tree) /\ Digest(h, enc) \in ToSet(tree.sd[o])
    BY <2>2, <2>4, <2>5 DEF Listed
  <2>8. h # "decoy"
    BY <2>2, <2>4, NoDecoyAlg
  <2>9. PICK q \in Processed(req) :
          Front(q) = o /\ d.Value.claim = q /\ d.Key = Last(q) /\ Last(q) # Nil
    BY <2>2, <2>4, <2>6, <2>7, <2>8, Home
  <2>10. payload' = Put(payload, Front(q), Last(q), d.Value)
    BY <2>5, <2>9
  <2>11. req \in Requests
    BY <2>2, Finished
  <2>12. Merged'
    <3>1. PICK v : v = d.Value /\ v.claim = q /\ ParseDisclosure(t.Disclosures[next]).Value = v
      BY <2>4, <2>9
    <3>2. payload' = Put(payload, Front(q), Last(q), v) /\ Front(q) \in Objects(tree)
      BY <2>7, <2>9, <2>10, <3>1
    <3> QED
      BY <2>1, <2>2, <2>3, <2>5, <2>11, <3>1, <3>2, MergeStep
  <2>13. Listed' /\ hashAlg' = hashAlg /\ Genuine(t)'
    BY <2>1, <2>2 DEF Listed, hashAlg, Genuine
  <2>14. next' \in 1 .. Len(t'.Disclosures) + 1 /\ pc' = "disclosure"
    BY <2>1, <2>2, <2>3, <2>5
  <2> QED
    BY <2>1, <2>2, <2>12, <2>13, <2>14 DEF Reading, BeforeWalk, FromWalk
<1> QED
  BY <1>1, <1>2

(* The checks before the walk.                                             *)
LEMMA EarlyReading ==
  ASSUME RevealInv, UNCHANGED issueVars,
         ResolveIssuerKey \/ VerifySignature \/ CheckExp \/ CheckNbf
  PROVE  Reading'
<1>1. /\ UNCHANGED <<t, payload, digestMap, next>> /\ pc \in BeforeWalk \ {"issuer_jwt_decode"}
      /\ pc' \in (BeforeWalk \ {"issuer_jwt_decode"}) \cup {"rejected"}
  <2> USE DEF Check, RejectAt, BeforeWalk, parseVars, walkVars, discVars
  <2>1. CASE ResolveIssuerKey
    BY <2>1 DEF ResolveIssuerKey, KeyResolved
  <2>2. CASE VerifySignature \/ CheckExp \/ CheckNbf
    BY <2>2 DEF VerifySignature, CheckExp, CheckNbf
  <2> QED
    BY <2>1, <2>2
<1>2. UNCHANGED <<ipc, tree, discs, req>>
  BY DEF issueVars, callVars
<1>3. /\ ipc = "issued" /\ Genuine(t) /\ IsSequence(t.Disclosures)
      /\ digestMap = <<>> /\ next = 1 /\ payload = tree
  BY <1>1 DEF RevealInv, Reading
<1>4. Genuine(t)'
  BY <1>1, <1>2, <1>3 DEF Genuine
<1>5. pc' \notin FromWalk
  BY <1>1 DEF BeforeWalk, FromWalk
<1> QED
  BY <1>1, <1>2, <1>3, <1>4, <1>5 DEF Reading, FromWalk

(* The walk of collectDigests begins with the payload as it was issued.    *)
LEMMA WalkBegins ==
  ASSUME IssuerInv, RevealInv, ResolveSdAlg, UNCHANGED issueVars
  PROVE  Reading'
<1>1. CASE pc' = "rejected"
  BY <1>1, RejectedReading
<1>2. CASE pc' # "rejected"
  <2>1. /\ pc = "sd_alg" /\ pc' = "disclosure_collect" /\ hashAlg # Nil /\ Enter(<<>>)
        /\ UNCHANGED <<t, payload, next>>
    BY <1>2 DEF ResolveSdAlg, Check, RejectAt, parseVars, discVars
  <2>2. UNCHANGED <<ipc, tree, discs, req>>
    BY DEF issueVars, callVars
  <2>3. /\ ipc = "issued" /\ Genuine(t) /\ IsSequence(t.Disclosures)
        /\ digestMap = <<>> /\ next = 1 /\ payload = tree
    BY <2>1 DEF RevealInv, Reading, BeforeWalk
  <2>4. <<>> \in Objects(tree) /\ IsTree(tree)
    BY <2>3, Finished DEF Safe, Carriage
  <2>5. Listed
    BY <2>3 DEF Listed
  <2>6. Listed'
    BY <2>1, <2>2, <2>3, <2>4, <2>5, EnterListed
  <2>7. \A p : ~Arrived(next, p)'
    BY <2>1, <2>3 DEF Arrived
  <2>8. Merged'
    BY <2>1, <2>2, <2>3, <2>4, <2>7 DEF Merged
  <2>9. hashAlg' = hashAlg /\ Genuine(t)'
    BY <2>1, <2>2, <2>3 DEF hashAlg, Genuine
  <2>10. next' \in 1 .. Len(t'.Disclosures) + 1
    BY <2>1, <2>3 DEF IsSequence
  <2> QED
    BY <2>1, <2>2, <2>3, <2>6, <2>8, <2>9, <2>10 DEF Reading, BeforeWalk, FromWalk
<1> QED
  BY <1>1, <1>2

(* It goes on and comes back.                                              *)
LEMMA WalkReading ==
  ASSUME RevealInv, CollectNested \/ CollectReturn, UNCHANGED issueVars
  PROVE  Reading'
<1>1. CASE pc' = "rejected"
  BY <1>1, RejectedReading
<1>2. CASE pc' # "rejected"
  <2>1. UNCHANGED <<t, payload, next>> /\ pc = "disclosure_collect"
    BY DEF CollectNested, CollectReturn, parseVars, discVars
  <2>2. UNCHANGED <<ipc, tree, discs, req>>
    BY DEF issueVars, callVars
  <2>3. /\ ipc = "issued" /\ Genuine(t) /\ IsSequence(t.Disclosures) /\ hashAlg # Nil
        /\ Listed /\ Merged /\ next = 1 /\ payload = tree /\ next \in 1 .. Len(t.Disclosures) + 1
    BY <2>1 DEF RevealInv, Reading, FromWalk
  <2>4. pc' \in {"disclosure_collect", "disclosure"}
    BY <1>2 DEF CollectNested, CollectReturn, Check, RejectAt
  <2>5. Listed'
    <3>1. CASE CollectReturn
      BY <2>2, <2>3, <3>1 DEF CollectReturn, Listed
    <3>2. CASE CollectNested
      <4>1. PICK o \in Children(payload, cur) : Enter(o) \/ UNCHANGED walkVars
        BY <3>2 DEF CollectNested
      <4>2. o \in Objects(tree)
        BY <2>3, <4>1 DEF Children
      <4>3. CASE Enter(o)
        BY <2>2, <2>3, <4>2, <4>3, EnterListed
      <4>4. CASE UNCHANGED walkVars
        BY <2>2, <2>3, <4>4 DEF Listed, walkVars
      <4> QED
        BY <4>1, <4>3, <4>4
    <3> QED
      BY <3>1, <3>2
  <2>6. Merged'
    BY <2>1, <2>2, <2>3 DEF Merged, Arrived
  <2>7. hashAlg' = hashAlg /\ Genuine(t)'
    BY <2>1, <2>2, <2>3 DEF hashAlg, Genuine
  <2> QED
    BY <2>1, <2>2, <2>3, <2>4, <2>5, <2>6, <2>7 DEF Reading, BeforeWalk, FromWalk
<1> QED
  BY <1>1, <1>2

(* The steps of Verify.                                                    *)
LEMMA VerifyingReveal ==
  ASSUME Selectable, IssuerInv, LifeInv, RevealInv, Verifying
  PROVE  RevealInv'
<1>1. Step /\ UNCHANGED <<issueVars, holderVars>>
  BY DEF Verifying
<1>2. UNCHANGED <<ipc, tree, discs, req, result, wallet, presented>>
  BY <1>1 DEF issueVars, callVars, holderVars
<1>3. Named' /\ Handed'
  BY <1>2 DEF RevealInv, Named, Handed, Genuine
<1>4. CASE ParseRaw
  <2>1. CASE pc' = "rejected"
    BY <1>3, <2>1, RejectedReading DEF RevealInv
  <2>2. CASE pc' # "rejected"
    <3>1. /\ pc = "parse" /\ pc' = "issuer_jwt_decode" /\ t' = Parse(raw)
          /\ UNCHANGED <<digestMap, next>>
      BY <1>4, <2>2 DEF ParseRaw, Check, RejectAt, walkVars, discVars
    <3>2. PICK r : r = raw
      OBVIOUS
    <3>3. PICK p \in presented : Arrives(p, r) /\ Sent(p) /\ Genuine(Parse(p.raw)) /\ ipc = "issued"
      BY <3>1, <3>2 DEF LifeInv, Delivered, SentOK, RevealInv, Handed
    <3>4. Genuine(Parse(r)) /\ IsSequence(Parse(r).Disclosures)
      BY <3>3, ArrivesGenuine
    <3>5. Genuine(t)' /\ IsSequence(t'.Disclosures)
      BY <1>2, <3>1, <3>2, <3>4 DEF Genuine
    <3>6. digestMap' = <<>> /\ next' = 1
      BY <3>1 DEF RevealInv, Reading
    <3>7. Reading'
      BY <1>2, <3>1, <3>3, <3>5, <3>6 DEF Reading, BeforeWalk, FromWalk
    <3> QED
      BY <1>3, <3>7 DEF RevealInv
  <2> QED
    BY <2>1, <2>2
<1>5. CASE DecodeIssuerJWT
  <2>1. CASE pc' = "rejected"
    BY <1>3, <2>1, RejectedReading DEF RevealInv
  <2>2. CASE pc' # "rejected"
    <3>1. /\ pc = "issuer_jwt_decode" /\ pc' = "key_resolution"
          /\ payload' = t.IssuerJWT.jwt.payload /\ UNCHANGED <<t, digestMap, next>>
      BY <1>5, <2>2 DEF DecodeIssuerJWT, Check, RejectAt, parseVars, walkVars, discVars
    <3>2. /\ ipc = "issued" /\ Genuine(t) /\ IsSequence(t.Disclosures)
          /\ digestMap = <<>> /\ next = 1
      BY <3>1 DEF RevealInv, Reading, BeforeWalk
    <3>3. payload' = tree' /\ Genuine(t)'
      BY <1>2, <3>1, <3>2 DEF Genuine
    <3>4. Reading'
      BY <1>2, <3>1, <3>2, <3>3 DEF Reading, BeforeWalk, FromWalk
    <3> QED
      BY <1>3, <3>4 DEF RevealInv
  <2> QED
    BY <2>1, <2>2
<1>6. CASE ResolveIssuerKey \/ VerifySignature \/ CheckExp \/ CheckNbf
  BY <1>1, <1>3, <1>6, EarlyReading DEF RevealInv
<1>7. CASE ResolveSdAlg
  BY <1>1, <1>3, <1>7, WalkBegins DEF RevealInv
<1>8. CASE CollectNested \/ CollectReturn
  BY <1>1, <1>3, <1>8, WalkReading DEF RevealInv
<1>9. CASE VerifyDisclosure
  BY <1>1, <1>3, <1>9, DisclosureReading DEF RevealInv
<1>10. CASE DisclosuresDone \/ RequireKBJWT \/ VerifyKBJWT \/ CheckVCT
  <2>1. /\ UNCHANGED <<t, payload, digestMap, next>> /\ pc \in FromWalk \ {"disclosure_collect"}
        /\ pc' \in (FromWalk \ {"disclosure_collect", "disclosure"}) \cup {"rejected"}
        /\ pc = "disclosure" => next > Len(t.Disclosures)
    <3> USE DEF Check, RejectAt, FromWalk, parseVars, walkVars, discVars
    <3>1. CASE DisclosuresDone \/ RequireKBJWT
      BY <3>1 DEF DisclosuresDone, RequireKBJWT
    <3>2. CASE VerifyKBJWT
      BY <3>2 DEF VerifyKBJWT
    <3>3. CASE CheckVCT
      BY <3>3 DEF CheckVCT
    <3> QED
      BY <1>10, <3>1, <3>2, <3>3
  <2>2. next > Len(t.Disclosures)
    BY <2>1 DEF RevealInv, Reading
  <2>3. Reading'
    BY <1>2, <2>1, <2>2, LaterReading DEF RevealInv, FromWalk
  <2> QED
    BY <1>3, <2>3 DEF RevealInv
<1>11. CASE Return
  <2>1. pc' = "idle" /\ digestMap' = <<>> /\ next' = 1
    BY <1>11 DEF Return
  <2> QED
    BY <1>3, <2>1 DEF RevealInv, Reading, BeforeWalk, FromWalk
<1> QED
  BY <1>1, <1>4, <1>5, <1>6, <1>7, <1>8, <1>9, <1>10, <1>11 DEF Step, OwnStep

-----------------------------------------------------------------------------
(* What is in the clear is in the payload, and nothing selective is.       *)
LEMMA ReadableClear ==
  ASSUME Selectable, IssuerInv, ipc = "issued", NEW p \in Processed(req), Front(p) \in Objects(tree)
  PROVE  Last(p) \in DOMAIN tree.val[Front(p)] <=> ~Selective(req, p)
<1>1. Safe /\ req \in Requests /\ handled = Processed(req)
  BY Finished
<1>2. 0 \in Carriers /\ Carried(0) = tree
  BY DEF Carriers, Carried
<1>3. Front(p) \in Structs(req) /\ p \in Members(req, Front(p))
  BY <1>1, StructTree
<1>4. CASE Front(p) = <<>> /\ Dropped(p)
  <2>1. p[1] = Last(p)
    BY <1>4, LostMeaning
  <2>2. Last(p) \in DOMAIN RegisteredClaims
    BY <1>4, <2>1 DEF Dropped
  <2>3. Last(p) \in DOMAIN tree.val[Front(p)]
    BY <1>1, <1>4, <2>2 DEF Safe, Registered
  <2>4. Last(p) \in RegisteredName
    BY <2>2, RegisteredNames
  <2> QED
    BY <1>1, <1>4, <2>3, <2>4 DEF Selectable
<1>5. CASE ~(Front(p) = <<>> /\ Dropped(p))
  BY <1>1, <1>2, <1>3, <1>5 DEF Safe, Contents
<1> QED
  BY <1>4, <1>5

(* All the claims that arrived have been merged when Verify accepts.       *)
LEMMA RevealsWhatArrived ==
  ASSUME Selectable, IssuerInv, RevealInv
  PROVE  RevealedExactly
<1> SUFFICES ASSUME pc = "accepted", NEW p \in Processed(req)
             PROVE  LET arrived == \E d \in ToSet(t.Disclosures) : ParseDisclosure(d).Value.claim = p
                        readable == /\ Front(p) \in Objects(payload)
                                    /\ Last(p) \in DOMAIN payload.val[Front(p)]
                    IN  /\ Front(p) \in Objects(payload) =>
                             (readable <=> ~Selective(req, p) \/ arrived)
                        /\ arrived => readable /\ payload.val[Front(p)][Last(p)].claim = p
  BY DEF RevealedExactly
<1>1. /\ ipc = "issued" /\ IsSequence(t.Disclosures) /\ Merged
      /\ next \in 1 .. Len(t.Disclosures) + 1 /\ next > Len(t.Disclosures)
  BY DEF RevealInv, Reading, FromWalk
<1>2. DOMAIN t.Disclosures = 1 .. next - 1
  <2>1. DOMAIN t.Disclosures = 1 .. Len(t.Disclosures) /\ Len(t.Disclosures) \in Nat
    BY <1>1 DEF IsSequence
  <2> QED
    BY <1>1, <2>1
<1>3. Arrived(next, p) <=> \E d \in ToSet(t.Disclosures) : ParseDisclosure(d).Value.claim = p
  BY <1>2 DEF Arrived, ToSet
<1>4. Front(p) \in Objects(tree) => (Last(p) \in DOMAIN tree.val[Front(p)] <=> ~Selective(req, p))
  BY <1>1, ReadableClear
<1> QED
  BY <1>1, <1>2, <1>3, <1>4 DEF Merged

(* The invariant of the reading holds throughout.                          *)
THEOREM RevealInvariance ==
  ASSUME Selectable
  PROVE  LifeSpec => []RevealInv
<1>1. LifeInit => RevealInv
  <2> SUFFICES ASSUME LifeInit PROVE RevealInv
    OBVIOUS
  <2>1. /\ discs = <<>> /\ ipc = "idle" /\ wallet = Nil /\ presented = {}
        /\ pc = "idle" /\ digestMap = <<>> /\ next = 1
    BY DEF LifeInit, IssuerInit, Init
  <2>2. Named
    BY <2>1 DEF Named, ToSet
  <2>3. Handed /\ Reading
    BY <2>1 DEF Handed, Reading, BeforeWalk, FromWalk
  <2> QED
    BY <2>2, <2>3 DEF RevealInv
<1>2. IssuerInv /\ LifeInv /\ RevealInv /\ [LifeNext]_lifeVars => RevealInv'
  <2> SUFFICES ASSUME IssuerInv, LifeInv, RevealInv, [LifeNext]_lifeVars PROVE RevealInv'
    OBVIOUS
  <2>1. CASE Store \/ Challenge \/ Time \/ UNCHANGED lifeVars
    <3>1. UNCHANGED <<pc, t, payload, digestMap, next>> /\ UNCHANGED issueVars
      BY <2>1 DEF Store, Challenge, Time, Tick, lifeVars, vars, parseVars, walkVars, discVars
    <3>2. Store \/ UNCHANGED <<wallet, presented>>
      BY <2>1 DEF Challenge, Time, lifeVars, holderVars
    <3> QED
      BY <3>1, <3>2, QuietReveal
  <2>2. CASE Issuing
    BY <2>2, IssuingReveal
  <2>3. CASE Deliver
    BY <2>3, DeliverReveal
  <2>4. CASE Verifying
    BY <2>4, VerifyingReveal
  <2>5. CASE \E c \in PresentChoices : PresentTo(c)
    BY <2>5, PresentReveal
  <2> QED
    BY <2>1, <2>2, <2>3, <2>4, <2>5 DEF LifeNext
<1>3. LifeSpec => []IssuerInv
  BY LifeImplementsIssuer, IssuerInvariance, PTL
<1> QED
  BY <1>1, <1>2, <1>3, LifeInvariance, PTL DEF LifeSpec

(* The relying party reads what was always disclosed and what arrived, at  *)
(* its place, and nothing withheld.                                        *)
THEOREM RevealedToRelyingParty ==
  ASSUME Selectable
  PROVE  LifeSpec => []RevealedExactly
<1>1. IssuerInv /\ RevealInv => RevealedExactly
  BY RevealsWhatArrived
<1>2. LifeSpec => []IssuerInv
  BY LifeImplementsIssuer, IssuerInvariance, PTL
<1> QED
  BY <1>1, <1>2, RevealInvariance, PTL
=============================================================================
