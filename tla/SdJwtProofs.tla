----------------------------- MODULE SdJwtProofs -----------------------------
(***************************************************************************)
(* Proofs about the wire format of SdJwt: Parse and String are inverse to  *)
(* each other, and sd_hash commits to everything before the KB-JWT.        *)
(***************************************************************************)
EXTENDS SdJwt, SequenceTheorems, TLAPS

(* A token that Issue or Present can return.                               *)
IsToken(t, S) ==
  /\ t = Token(t.IssuerJWT, t.Disclosures, t.KBJWT)
  /\ t.IssuerJWT \in S \ {Nil} /\ t.KBJWT \in S \cup {Nil}
  /\ t.Disclosures \in Seq(S \ {Nil})

(* The segments of a serialised token, and what Parse makes of them.       *)
LEMMA ParseOfString ==
  ASSUME NEW R, NEW d \in Seq(R), NEW j, NEW kb, NEW s, s = String(Token(j, d, kb))
  PROVE  /\ Len(s) = Len(d) + 2 /\ s[1] = j
         /\ \A i \in 2 .. Len(d) + 1 : s[i] = d[i - 1]
         /\ Parse(s) = Token(j, d, kb)
<1> DEFINE n == Len(d)
<1>0. PICK S : j \in S /\ kb \in S /\ d \in Seq(S)
  <2>1. d \in Seq(R \cup {j, kb})
    OBVIOUS
  <2> QED
    BY <2>1
<1>1. n \in Nat /\ \A i \in 1 .. n : d[i] \in S
  BY <1>0, LenProperties, ElementOfSeq
<1>2. s = <<j>> \o d \o <<kb>>
  BY DEF String, Token
<1>3. /\ s \in Seq(S) /\ Len(s) = n + 2 /\ s[1] = j /\ s[n + 2] = kb
      /\ \A i \in 2 .. n + 1 : s[i] = d[i - 1]
  BY <1>0, <1>1, <1>2
<1>4. Len(d) = n
  OBVIOUS
<1> HIDE DEF n
<1>5. SubSeq(s, 2, Len(s) - 1) = d
  <2>1. \A i \in 2 .. n + 1 : s[i] \in S
    BY <1>1, <1>3
  <2>2. /\ SubSeq(s, 2, n + 1) \in Seq(S) /\ Len(SubSeq(s, 2, n + 1)) = n
        /\ \A i \in 1 .. n : SubSeq(s, 2, n + 1)[i] = s[i + 1]
    BY <1>1, <2>1, SubSeqProperties, 2 \in Int, n + 1 \in Int, Z3
  <2>3. \A i \in 1 .. n : SubSeq(s, 2, n + 1)[i] = d[i]
    BY <1>1, <1>3, <2>2
  <2>4. Len(s) - 1 = n + 1
    BY <1>1, <1>3
  <2> QED
    BY <1>0, <1>1, <1>4, <2>2, <2>3, <2>4, SeqEqual
<1>6. Parse(s) = Token(j, d, kb)
  BY <1>1, <1>3, <1>5 DEF Parse
<1> QED
  BY <1>3, <1>4, <1>6

(* Token.String and Parse: a serialised token is accepted by Parse and     *)
(* comes back as it was, KB-JWT or not.                                    *)
THEOREM ParseString ==
  ASSUME NEW S, NEW t, IsToken(t, S)
  PROVE  Parses(String(t)) /\ Parse(String(t)) = t
<1>1. PICK j, d, kb, s : /\ j = t.IssuerJWT /\ d = t.Disclosures /\ kb = t.KBJWT
                         /\ s = String(t)
  OBVIOUS
<1>2. t = Token(j, d, kb) /\ j # Nil /\ d \in Seq(S \ {Nil})
  BY <1>1 DEF IsToken
<1>3. s = String(Token(j, d, kb))
  BY <1>1, <1>2
<1>4. Len(d) \in Nat /\ \A i \in 1 .. Len(d) : d[i] # Nil
  BY <1>2, LenProperties, ElementOfSeq
<1>5. /\ Len(s) = Len(d) + 2 /\ s[1] = j /\ \A i \in 2 .. Len(d) + 1 : s[i] = d[i - 1]
      /\ Parse(s) = t
  BY <1>2, <1>3, ParseOfString
<1>6. ASSUME NEW i \in 2 .. Len(s) - 1
      PROVE  s[i] # Nil
  <2>1. i - 1 \in 1 .. Len(d) /\ i \in 2 .. Len(d) + 1
    BY <1>4, <1>5
  <2> QED
    BY <1>4, <1>5, <2>1
<1>7. Parses(s)
  BY <1>2, <1>4, <1>5, <1>6 DEF Parses
<1> QED
  BY <1>1, <1>5, <1>7

(* The other way round: what Parse accepts it keeps, so re-serialising a   *)
(* parsed presentation gives the string that was received.                 *)
THEOREM StringParse ==
  ASSUME NEW S, NEW raw \in Seq(S), Parses(raw)
  PROVE  String(Parse(raw)) = raw
<1> DEFINE n == Len(raw)
           m == SubSeq(raw, 2, n - 1)
<1>1. n \in Nat /\ n >= 2 /\ \A i \in 1 .. n : raw[i] \in S
  BY LenProperties, ElementOfSeq DEF Parses
<1>2. String(Parse(raw)) = <<raw[1]>> \o m \o <<raw[n]>>
  BY DEF String, Parse, Token
<1> HIDE DEF n
<1>3. /\ m \in Seq(S) /\ Len(m) = n - 2
      /\ \A i \in 1 .. n - 2 : m[i] = raw[i + 1]
  <2>1. \A i \in 2 .. n - 1 : raw[i] \in S
    BY <1>1
  <2> QED
    BY <1>1, <2>1, SubSeqProperties, 2 \in Int, n - 1 \in Int, Z3
<1> HIDE DEF m
<1> DEFINE w == <<raw[1]>> \o m \o <<raw[n]>>
<1>4. w \in Seq(S) /\ Len(w) = n
  BY <1>1, <1>3
<1>5. ASSUME NEW i \in 1 .. n
      PROVE  w[i] = raw[i]
  <2>1. CASE i = 1
    BY <1>1, <1>3, <2>1
  <2>2. CASE i = n
    BY <1>1, <1>3, <2>2
  <2>3. CASE i \in 2 .. n - 1
    <3>1. i - 1 \in 1 .. n - 2 /\ (i - 1) + 1 = i
      BY <1>1, <2>3
    <3>2. w[i] = m[i - 1]
      BY <1>1, <1>3, <2>3
    <3> QED
      BY <1>3, <3>1, <3>2
  <2>4. i = 1 \/ i = n \/ i \in 2 .. n - 1
    BY <1>1
  <2> HIDE DEF w
  <2> QED
    BY <2>1, <2>2, <2>3, <2>4
<1>6. Len(raw) = n
  BY DEF n
<1> HIDE DEF w
<1>7. w = raw
  BY <1>4, <1>5, <1>6, SeqEqual
<1> QED
  BY <1>2, <1>7 DEF w

(* sd_hash: two presentations with the same prefix, hence with the same    *)
(* sd_hash, carry the same issuer JWT and the same disclosures in the same *)
(* order.                                                                  *)
THEOREM PrefixCommits ==
  ASSUME NEW S, NEW t, NEW u, t.Disclosures \in Seq(S), u.Disclosures \in Seq(S),
         DigestSHA256(Prefix(t)) = DigestSHA256(Prefix(u))
  PROVE  t.IssuerJWT = u.IssuerJWT /\ t.Disclosures = u.Disclosures
<1> DEFINE bare(x) == Token(x.IssuerJWT, x.Disclosures, Nil)
<1>1. Prefix(t) = Prefix(u)
  BY DEF DigestSHA256, Digest
<1>2. Prefix(t) = String(bare(t)) /\ Prefix(u) = String(bare(u))
  BY DEF Prefix, String, Token
<1>3. Parse(Prefix(t)) = bare(t)
  BY <1>2, ParseOfString
<1>4. Parse(Prefix(u)) = bare(u)
  BY <1>2, ParseOfString
<1> QED
  BY <1>1, <1>3, <1>4 DEF Token

-----------------------------------------------------------------------------
(* Paths of keys, by which claims and objects are named.                   *)
Path == Seq(STRING)

(* The object around a claim, and its name in it.                          *)
LEMMA FrontLast ==
  ASSUME NEW p \in Path, p # <<>>
  PROVE  /\ Front(p) \in Path /\ Last(p) \in STRING
         /\ Len(p) \in Nat /\ Len(p) >= 1 /\ Len(Front(p)) = Len(p) - 1
         /\ \A i \in 1 .. Len(p) - 1 : Front(p)[i] = p[i]
         /\ p = Append(Front(p), Last(p))
<1>1. Len(p) \in Nat /\ Len(p) >= 1 /\ \A i \in 1 .. Len(p) : p[i] \in STRING
  BY EmptySeq, ElementOfSeq, LenProperties DEF Path
<1>2. PICK n \in Nat : n = Len(p) - 1
  BY <1>1
<1>3. \A i \in 1 .. n : p[i] \in STRING
  BY <1>1, <1>2
<1>4. /\ SubSeq(p, 1, n) \in Seq(STRING) /\ Len(SubSeq(p, 1, n)) = n
      /\ \A i \in 1 .. n : SubSeq(p, 1, n)[i] = p[i]
  BY <1>3, SubSeqProperties, n \in Int, 1 \in Int, Z3
<1>5. /\ Front(p) \in Path /\ Len(Front(p)) = n /\ \A i \in 1 .. n : Front(p)[i] = p[i]
  BY <1>2, <1>4 DEF Front, Path
<1>6. Last(p) \in STRING /\ Last(p) = p[n + 1]
  BY <1>1, <1>2 DEF Last
<1>7. p = Append(Front(p), Last(p))
  <2>1. PICK f \in Seq(STRING), e \in STRING : f = Front(p) /\ e = Last(p)
    BY <1>5, <1>6 DEF Path
  <2>2. PICK a : a = Append(f, e)
    OBVIOUS
  <2>3. /\ a \in Seq(STRING) /\ Len(a) = n + 1 /\ a[n + 1] = e
        /\ \A i \in 1 .. n : a[i] = f[i]
    BY <1>5, <2>1, <2>2
  <2>4. \A i \in 1 .. Len(p) : a[i] = p[i]
    BY <1>1, <1>2, <1>5, <1>6, <2>1, <2>3
  <2>5. a = p
    BY <1>1, <1>2, <2>3, <2>4, SeqEqual DEF Path
  <2> QED
    BY <2>1, <2>2, <2>5
<1> QED
  BY <1>1, <1>2, <1>5, <1>6, <1>7

(* And back.                                                               *)
LEMMA FrontAppend ==
  ASSUME NEW o \in Path, NEW k \in STRING
  PROVE  /\ Append(o, k) \in Path /\ Append(o, k) # <<>>
         /\ Front(Append(o, k)) = o /\ Last(Append(o, k)) = k
<1>1. PICK p : p = Append(o, k)
  OBVIOUS
<1>2. /\ p \in Path /\ Len(o) \in Nat /\ Len(p) = Len(o) + 1
      /\ \A i \in 1 .. Len(o) : p[i] = o[i]
      /\ p[Len(p)] = k
  <2>1. o \in Seq(STRING) /\ Len(o) \in Nat
    BY LenProperties DEF Path
  <2>2. Append(o, k) \in Seq(STRING)
    BY <2>1, AppendProperties, Zenon
  <2>3. Len(Append(o, k)) = Len(o) + 1
    BY <2>1, AppendProperties, Zenon
  <2>4. \A i \in 1 .. Len(o) : Append(o, k)[i] = o[i]
    BY <2>1
  <2>5. Append(o, k)[Len(o) + 1] = k
    BY <2>1, AppendProperties, Zenon
  <2> QED
    BY <1>1, <2>1, <2>2, <2>3, <2>4, <2>5, Zenon DEF Path
<1>3. p # <<>>
  BY <1>2
<1>4. Front(p) \in Path /\ Len(Front(p)) = Len(o) /\ \A i \in 1 .. Len(o) : Front(p)[i] = o[i]
  <2>1. /\ Front(p) \in Path /\ Len(Front(p)) = Len(p) - 1
        /\ \A i \in 1 .. Len(p) - 1 : Front(p)[i] = p[i]
    BY <1>2, <1>3, FrontLast
  <2> QED
    BY <1>2, <2>1
<1>5. Front(p) = o
  BY <1>4, SeqEqual DEF Path
<1> QED
  BY <1>1, <1>2, <1>3, <1>5 DEF Last

(* IsPrefix, element by element.                                           *)
LEMMA PrefixMeaning ==
  ASSUME NEW p \in Path, NEW q \in Path
  PROVE  IsPrefix(p, q) <=> Len(p) <= Len(q) /\ \A i \in 1 .. Len(p) : p[i] = q[i]
<1>1. PICK n \in Nat : n = Len(p)
  BY LenProperties DEF Path
<1>2. Len(q) \in Nat /\ \A i \in 1 .. Len(q) : q[i] \in STRING
  BY ElementOfSeq, LenProperties DEF Path
<1>3. SubSeq(p, 1, Len(p)) = p
  BY SubSeqFull DEF Path
<1>4. CASE Len(p) <= Len(q)
  <2>1. \A i \in 1 .. n : q[i] \in STRING
    BY <1>1, <1>2, <1>4
  <2>2. PICK s : s = SubSeq(q, 1, n)
    OBVIOUS
  <2>3. s \in Seq(STRING) /\ Len(s) = n /\ \A i \in 1 .. n : s[i] = q[i]
    BY <2>1, <2>2, SubSeqProperties, n \in Int, 1 \in Int, Z3 DEF Path
  <2>4. p = s <=> \A i \in 1 .. n : p[i] = s[i]
    <3>1. ASSUME \A i \in 1 .. n : p[i] = s[i] PROVE p = s
      BY <1>1, <2>3, <3>1, SeqEqual DEF Path
    <3> QED
      BY <3>1
  <2>5. IsPrefix(p, q) <=> p = s
    BY <1>1, <1>3, <1>4, <2>2 DEF IsPrefix
  <2> QED
    BY <1>1, <1>4, <2>3, <2>4, <2>5
<1> QED
  BY <1>4 DEF IsPrefix

(* IsPrefix is an order on paths, and the prefixes of a path are a chain.  *)
LEMMA PrefixOrder ==
  /\ \A p \in Path : IsPrefix(p, p) /\ IsPrefix(<<>>, p)
  /\ \A p, q, r \in Path : IsPrefix(p, q) /\ IsPrefix(q, r) => IsPrefix(p, r)
  /\ \A p, q \in Path : IsPrefix(p, q) /\ Len(p) >= Len(q) => p = q
  /\ \A p, q, r \in Path : IsPrefix(p, r) /\ IsPrefix(q, r) /\ Len(p) <= Len(q) => IsPrefix(p, q)
<1>0. \A p \in Path : Len(p) \in Nat
  BY LenProperties DEF Path
<1>1. ASSUME NEW p \in Path PROVE IsPrefix(p, p) /\ IsPrefix(<<>>, p)
  <2>1. <<>> \in Path /\ Len(<<>>) = 0
    BY DEF Path
  <2>2. IsPrefix(p, p)
    BY <1>0, PrefixMeaning
  <2>3. IsPrefix(<<>>, p)
    BY <1>0, <2>1, PrefixMeaning
  <2> QED
    BY <2>2, <2>3
<1>2. ASSUME NEW p \in Path, NEW q \in Path, NEW r \in Path, IsPrefix(p, q), IsPrefix(q, r)
      PROVE  IsPrefix(p, r)
  <2>1. Len(p) <= Len(q) /\ \A i \in 1 .. Len(p) : p[i] = q[i]
    BY <1>2, PrefixMeaning
  <2>2. Len(q) <= Len(r) /\ \A i \in 1 .. Len(q) : q[i] = r[i]
    BY <1>2, PrefixMeaning
  <2>3. Len(p) <= Len(r) /\ \A i \in 1 .. Len(p) : p[i] = r[i]
    BY <1>0, <2>1, <2>2
  <2> QED
    BY <2>3, PrefixMeaning
<1>3. ASSUME NEW p \in Path, NEW q \in Path, IsPrefix(p, q), Len(p) >= Len(q)
      PROVE  p = q
  <2>1. Len(p) = Len(q) /\ \A i \in 1 .. Len(p) : p[i] = q[i]
    BY <1>0, <1>3, PrefixMeaning
  <2> QED
    BY <2>1, SeqEqual DEF Path
<1>4. ASSUME NEW p \in Path, NEW q \in Path, NEW r \in Path, IsPrefix(p, r), IsPrefix(q, r),
             Len(p) <= Len(q)
      PROVE  IsPrefix(p, q)
  <2>1. \A i \in 1 .. Len(p) : p[i] = r[i]
    BY <1>4, PrefixMeaning
  <2>2. \A i \in 1 .. Len(q) : q[i] = r[i]
    BY <1>4, PrefixMeaning
  <2>3. \A i \in 1 .. Len(p) : p[i] = q[i]
    BY <1>0, <1>4, <2>1, <2>2
  <2> QED
    BY <1>4, <2>3, PrefixMeaning
<1> QED
  BY <1>1, <1>2, <1>3, <1>4

(* The prefixes of a path are itself and those of the object around it.    *)
LEMMA PrefixFront ==
  ASSUME NEW p \in Path, p # <<>>
  PROVE  /\ \A q \in Path : IsPrefix(q, p) <=> q = p \/ IsPrefix(q, Front(p))
         /\ ~IsPrefix(p, Front(p))
<1>0. \A q \in Path : Len(q) \in Nat
  BY LenProperties DEF Path
<1>1. /\ Front(p) \in Path /\ Len(Front(p)) = Len(p) - 1 /\ Len(p) >= 1
      /\ \A i \in 1 .. Len(p) - 1 : Front(p)[i] = p[i]
  BY FrontLast
<1>2. IsPrefix(Front(p), p)
  BY <1>0, <1>1, PrefixMeaning
<1>3. ASSUME NEW q \in Path, IsPrefix(q, p), q # p
      PROVE  IsPrefix(q, Front(p))
  <2>1. Len(q) <= Len(Front(p))
    BY <1>0, <1>1, <1>3, PrefixOrder, PrefixMeaning
  <2> QED
    BY <1>1, <1>2, <1>3, <2>1, PrefixOrder
<1>4. \A q \in Path : IsPrefix(q, Front(p)) => IsPrefix(q, p)
  BY <1>1, <1>2, PrefixOrder
<1>5. IsPrefix(p, p)
  BY PrefixOrder
<1>6. ~IsPrefix(p, Front(p))
  BY <1>0, <1>1, PrefixMeaning
<1> QED
  BY <1>3, <1>4, <1>5, <1>6

(* The prefix of a given length.                                           *)
LEMMA Ancestor ==
  ASSUME NEW p \in Path, NEW n \in 0 .. Len(p)
  PROVE  /\ SubSeq(p, 1, n) \in Path /\ Len(SubSeq(p, 1, n)) = n
         /\ IsPrefix(SubSeq(p, 1, n), p)
<1>1. Len(p) \in Nat /\ \A i \in 1 .. n : p[i] \in STRING
  BY ElementOfSeq, LenProperties DEF Path
<1>2. PICK s : s = SubSeq(p, 1, n)
  OBVIOUS
<1>3. s \in Seq(STRING) /\ Len(s) = n /\ \A i \in 1 .. n : s[i] = p[i]
  BY <1>1, <1>2, SubSeqProperties, n \in Int, 1 \in Int, Z3 DEF Path
<1>4. IsPrefix(s, p)
  BY <1>1, <1>3, PrefixMeaning DEF Path
<1> QED
  BY <1>2, <1>3, <1>4 DEF Path
=============================================================================
