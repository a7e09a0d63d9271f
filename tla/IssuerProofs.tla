----------------------------- MODULE IssuerProofs -----------------------------
(***************************************************************************)
(* Proofs about Issuer, for every set of requests, every nesting depth and *)
(* every order in which map iteration visits the claims.                   *)
(*                                                                         *)
(* The invariant describes the running recursion by two sets: the objects  *)
(* on the stack are the prefixes of icur, the claims that are done are     *)
(* handled.  What is in the tree, what has left it inside a disclosure and *)
(* what is still to come follow from these.                                *)
(***************************************************************************)
EXTENDS Issuer, SdJwtProofs, FiniteSetTheorems

Working == ipc \in {"build", "claims", "sign", "issued"}

(* The objects buildClaimsObject is called for.                            *)
Structs(r) == {<<>>} \cup {p \in Processed(r) : r.kind[p] = "structured"}

OnStack(o) == IsPrefix(o, icur)
Entered(o) == OnStack(o) \/ o \in handled

(* The recursion: a claim is handled after the objects around it have been *)
(* entered and before they are left, and what is not handled has its turn  *)
(* to come in one of the range loops on the stack.                         *)
Recursion ==
  /\ req \in Requests /\ icur \in Structs(req) /\ handled \subseteq Processed(req)
  /\ ipc # "build" => icur = <<>> /\ Members(req, <<>>) \subseteq handled
  /\ \A h \in handled : ~OnStack(h)
  /\ \A h \in handled : \A q \in Paths(req) : IsPrefix(q, h) => Entered(q)
  /\ \A h \in handled : req.kind[h] = "structured" => Members(req, h) \subseteq handled
  /\ \A p \in Processed(req) \ handled :
       \/ OnStack(p)
       \/ \E q \in Processed(req) \ handled :
            IsPrefix(q, p) /\ OnStack(Front(q)) /\ ~OnStack(q)

-----------------------------------------------------------------------------
(* The disclosures made are those of the selective claims handled.         *)
Of(i) == Opened(i).Value.claim

Disclosures ==
  /\ discs \in Seq(ToSet(discs))
  /\ \A i \in DOMAIN discs : Of(i) \in handled /\ Selective(req, Of(i))
  /\ \A i, j \in DOMAIN discs : Of(i) = Of(j) => i = j
  /\ \A p \in handled : Selective(req, p) => \E i \in DOMAIN discs : Of(i) = p

-----------------------------------------------------------------------------
(* Objects that the registered claims have replaced.                       *)
Dropped(o) ==
  ipc \in {"sign", "issued"} /\ o # <<>> /\ o[1] \in DOMAIN RegisteredClaims

(* An object leaves the tree with the innermost selective object around    *)
(* it, once that one is done.                                              *)
Left(o) == \E q \in Paths(req) : IsPrefix(q, o) /\ Selective(req, q) /\ ~OnStack(q)

Shown(r, p) == IF r.kind[p] \in {"map", "structured"} THEN [obj |-> p] ELSE [claim |-> p]

IsTree(tr) == tr = [val |-> tr.val, sd |-> tr.sd]

(* The objects are split among the carriers.                               *)
Carriage ==
  /\ IsTree(tree)
  /\ \A n \in Carriers : DOMAIN Carried(n).sd = Objects(Carried(n)) /\ Objects(Carried(n)) \subseteq Path
  /\ \A n, m \in Carriers : n # m => Objects(Carried(n)) \cap Objects(Carried(m)) = {}
  /\ \A n \in Carriers : \A o \in Objects(Carried(n)) :
       OnStack(o) \/ \E h \in handled : IsPrefix(h, o)
  /\ \A o \in Structs(req) : o \in Objects(tree) <=> Entered(o) /\ ~Left(o) /\ ~Dropped(o)
  /\ \A o \in Structs(req) : Entered(o) /\ Left(o) =>
       \E n \in Carriers \ {0} : o \in Objects(Carried(n))
  /\ \A n \in Carriers \ {0} : \A o \in Structs(req) \cap Objects(Carried(n)) : Left(o)

(* Each holds the claims in the clear.                                     *)
Contents ==
  \A n \in Carriers : \A o \in Structs(req) \cap Objects(Carried(n)) :
    \A p \in Members(req, o) :
      \/ o = <<>> /\ Dropped(p)
      \/ /\ Last(p) \in DOMAIN Carried(n).val[o] <=> p \in handled /\ ~Selective(req, p)
         /\ Last(p) \in DOMAIN Carried(n).val[o] => Carried(n).val[o][Last(p)] = Shown(req, p)

(* The registered claims have been set.                                    *)
Registered ==
  ipc \in {"sign", "issued"} =>
    \A k \in DOMAIN RegisteredClaims :
      /\ k \in DOMAIN tree.val[<<>>]
      /\ "claim" \notin DOMAIN tree.val[<<>>][k] /\ "obj" \notin DOMAIN tree.val[<<>>][k]

(* Nothing inside a value that is in the clear is selective.               *)
Clear ==
  \A o \in Objects(tree) : \A k \in DOMAIN tree.val[o] :
    "claim" \in DOMAIN tree.val[o][k] =>
      \E q \in handled :
        /\ IsPrefix(q, tree.val[o][k].claim) /\ req.kind[q] # "structured"
        /\ ~Selective(req, q) /\ tree.val[o][k].claim \in Path

-----------------------------------------------------------------------------
(* The digests: each at one place, in the object around its claim.         *)
Real(n, o, j) ==
  \E i \in DOMAIN discs : Carried(n).sd[o][j] = Digest(iopts.hashAlg, discs[i]) /\ Front(Of(i)) = o

Decoy(n, o, j) == Carried(n).sd[o][j][1] = "decoy"

Digests ==
  /\ SDAlgFromHash(iopts.hashAlg) # Nil
  /\ \A n \in Carriers : \A o \in Objects(Carried(n)) :
       /\ Carried(n).sd[o] \in Seq(ToSet(Carried(n).sd[o]))
       /\ \A j \in DOMAIN Carried(n).sd[o] :
            Real(n, o, j) \/ (n = 0 /\ o = <<>> /\ ipc # "build" /\ Decoy(n, o, j))
       /\ \A j, k \in DOMAIN Carried(n).sd[o] :
            Carried(n).sd[o][j] = Carried(n).sd[o][k] => j = k
  /\ \A i \in DOMAIN discs : \A n \in Carriers :
       Front(Of(i)) \in Objects(Carried(n)) =>
         \E j \in DOMAIN Carried(n).sd[Front(Of(i))] :
           Carried(n).sd[Front(Of(i))][j] = Digest(iopts.hashAlg, discs[i])
  /\ ipc # "build" =>
       LET m == Len(tree.sd[<<>>]) - iopts.decoyCount
       IN  m \in Nat /\ \A j \in DOMAIN tree.sd[<<>>] : Decoy(0, <<>>, j) <=> j > m

-----------------------------------------------------------------------------
Counters ==
  /\ clock \in 0 .. MaxTime /\ iopts \in IssuerOptions
  /\ ipc \in {"idle", "build", "claims", "sign", "issued", "failed"}
  /\ calls \in 0 .. MaxIssues /\ fresh \in Nat

Idle == ipc = "idle" => icur = <<>> /\ handled = {} /\ discs = <<>>

Safe ==
  Recursion /\ Disclosures /\ Carriage /\ Contents /\ Registered /\ Clear /\ Digests

IssuerInv == Counters /\ Idle /\ (Working => Safe)

-----------------------------------------------------------------------------
(* The claims of a request form a tree.                                    *)
LEMMA RequestTree ==
  ASSUME NEW r \in Requests
  PROVE  /\ Paths(r) \subseteq Path /\ <<>> \notin Paths(r)
         /\ \A p \in Paths(r), q \in Path : IsPrefix(q, p) /\ q # <<>> => q \in Paths(r)
<1>1. IsRequest(r)
  BY IssuerAssumption
<1>2. Paths(r) \subseteq Path /\ <<>> \notin Paths(r)
  BY <1>1 DEF IsRequest, Path
<1>3. ASSUME NEW p \in Paths(r), NEW q \in Path, IsPrefix(q, p), q # <<>>
      PROVE  q \in Paths(r)
  <2>1. p \in Path /\ Len(p) \in Nat /\ Len(q) \in Nat /\ Len(q) >= 1
    <3>1. Len(q) \in Nat /\ Len(q) >= 1
      BY <1>3, FrontLast
    <3>2. p \in Path /\ Len(p) \in Nat
      BY <1>2, LenProperties DEF Path
    <3> QED
      BY <3>1, <3>2
  <2>2. Len(q) <= Len(p)
    BY <1>3 DEF IsPrefix
  <2>3. PICK n \in 1 .. Len(p) : n = Len(q)
    BY <2>1, <2>2
  <2>4. n \in 0 .. Len(p)
    BY <2>1
  <2>5. PICK s \in Path : s = SubSeq(p, 1, n) /\ Len(s) = n /\ IsPrefix(s, p)
    BY <2>1, <2>4, Ancestor
  <2>6. Len(q) <= Len(s) /\ Len(q) >= Len(s)
    BY <2>1, <2>3, <2>5
  <2>7. IsPrefix(q, s)
    BY <1>3, <2>1, <2>5, <2>6, PrefixOrder
  <2>8. q = s
    BY <2>6, <2>7, PrefixOrder
  <2> QED
    BY <1>1, <2>5, <2>8 DEF IsRequest
<1> QED
  BY <1>2, <1>3

(* The objects of the recursion form a tree, and their members are what it *)
(* gets to see.                                                            *)
LEMMA StructTree ==
  ASSUME NEW r \in Requests
  PROVE  /\ Structs(r) \subseteq Path /\ <<>> \in Structs(r) /\ Processed(r) \subseteq Path \ {<<>>}
         /\ \A o \in Structs(r), q \in Path : IsPrefix(q, o) => q \in Structs(r)
         /\ \A o \in Structs(r) : Members(r, o) \subseteq Processed(r)
         /\ \A p \in Processed(r) : Front(p) \in Structs(r) /\ p \in Members(r, Front(p))
         /\ \A p \in Processed(r), q \in Path : IsPrefix(q, p) /\ q # <<>> => q \in Processed(r)
<1>1. /\ Paths(r) \subseteq Path /\ <<>> \notin Paths(r)
      /\ \A p \in Paths(r), q \in Path : IsPrefix(q, p) /\ q # <<>> => q \in Paths(r)
  BY RequestTree
<1>2. Processed(r) \subseteq Path \ {<<>>} /\ Processed(r) \subseteq Paths(r)
  BY <1>1 DEF Processed
<1>3. <<>> \in Path
  BY DEF Path
<1>4. Structs(r) \subseteq Path /\ <<>> \in Structs(r)
  BY <1>2, <1>3 DEF Structs
<1>5. ASSUME NEW p \in Processed(r), NEW q \in Path, IsPrefix(q, p), q # <<>>
      PROVE  q \in Processed(r) /\ (q # p => r.kind[q] = "structured")
  <2>1. q \in Paths(r)
    BY <1>1, <1>2, <1>5
  <2>2. ASSUME NEW s \in Paths(r), IsStrictPrefix(s, q)
        PROVE  r.kind[s] = "structured"
    <3>1. IsPrefix(s, q) /\ s # q /\ s \in Path
      BY <1>1, <2>2 DEF IsStrictPrefix
    <3>2. IsPrefix(s, p)
      BY <1>2, <1>5, <3>1, PrefixOrder
    <3>3. s # p
      BY <1>2, <1>5, <3>1, PrefixOrder, PrefixMeaning
    <3> QED
      BY <3>2, <3>3 DEF Processed, IsStrictPrefix
  <2>3. q # p => r.kind[q] = "structured"
    BY <1>5, <2>1 DEF Processed, IsStrictPrefix
  <2> QED
    BY <2>1, <2>2, <2>3 DEF Processed
<1>6. ASSUME NEW o \in Structs(r), NEW q \in Path, IsPrefix(q, o)
      PROVE  q \in Structs(r)
  <2>1. CASE o = <<>>
    <3>1. q = <<>>
      <4>1. Len(q) \in Nat /\ Len(<<>>) = 0
        BY LenProperties DEF Path
      <4> QED
        BY <1>3, <1>6, <2>1, <4>1, PrefixOrder
    <3> QED
      BY <1>4, <3>1
  <2>2. CASE o # <<>> /\ q # <<>>
    BY <1>5, <1>6, <2>2 DEF Structs
  <2> QED
    BY <1>4, <2>1, <2>2
<1>7. ASSUME NEW o \in Structs(r), NEW p \in Members(r, o)
      PROVE  p \in Processed(r)
  <2>1. p \in Paths(r) /\ p \in Path /\ p # <<>> /\ Front(p) = o
    BY <1>1, <1>7 DEF Members
  <2>2. ASSUME NEW q \in Paths(r), IsStrictPrefix(q, p)
        PROVE  r.kind[q] = "structured"
    <3>1. q \in Path /\ q # <<>> /\ IsPrefix(q, o)
      BY <1>1, <2>1, <2>2, PrefixFront DEF IsStrictPrefix
    <3>2. q \in Structs(r)
      BY <1>6, <3>1
    <3> QED
      BY <3>1, <3>2 DEF Structs
  <2> QED
    BY <2>1, <2>2 DEF Processed
<1>8. ASSUME NEW p \in Processed(r)
      PROVE  Front(p) \in Structs(r) /\ p \in Members(r, Front(p))
  <2>1. p \in Path /\ p # <<>> /\ p \in Paths(r)
    BY <1>2
  <2>2. Front(p) \in Path /\ Len(Front(p)) = Len(p) - 1 /\ Len(p) \in Nat
    BY <2>1, FrontLast
  <2>3. IsPrefix(Front(p), p) /\ Front(p) # p
    BY <2>1, <2>2, PrefixFront, PrefixOrder
  <2>4. CASE Front(p) = <<>>
    BY <1>4, <2>1, <2>4 DEF Members
  <2>5. CASE Front(p) # <<>>
    BY <1>5, <2>1, <2>2, <2>3, <2>5 DEF Members, Structs
  <2> QED
    BY <2>4, <2>5
<1> QED
  BY <1>2, <1>4, <1>5, <1>6, <1>7, <1>8

(* A member is told by its name, and its prefixes are those of the object  *)
(* around it and itself.                                                   *)
LEMMA MemberFacts ==
  ASSUME NEW r \in Requests, NEW o \in Structs(r), NEW p \in Members(r, o)
  PROVE  /\ p \in Processed(r) /\ p \in Paths(r) /\ p \in Path /\ p # <<>> /\ Front(p) = o
         /\ p = Append(o, Last(p))
         /\ \A q \in Path : IsPrefix(q, p) <=> q = p \/ IsPrefix(q, o)
         /\ ~IsPrefix(p, o) /\ Len(p) = Len(o) + 1
<1>1. p \in Paths(r) /\ Front(p) = o
  BY DEF Members
<1>2. p \in Path /\ p # <<>>
  BY <1>1, RequestTree
<1>3. p \in Processed(r)
  BY StructTree
<1>4. p = Append(o, Last(p)) /\ Len(p) = Len(o) + 1
  <2>1. Len(p) \in Nat /\ Len(Front(p)) = Len(p) - 1 /\ p = Append(Front(p), Last(p))
    BY <1>2, FrontLast
  <2> QED
    BY <1>1, <2>1
<1>5. (\A q \in Path : IsPrefix(q, p) <=> q = p \/ IsPrefix(q, o)) /\ ~IsPrefix(p, o)
  BY <1>1, <1>2, PrefixFront
<1> QED
  BY <1>1, <1>2, <1>3, <1>4, <1>5

-----------------------------------------------------------------------------
(* The recursion.  A claim that is no StructuredClaim is handled.          *)
LEMMA HandleRec ==
  ASSUME Recursion, NEW p \in Members(req, icur) \ handled, req.kind[p] # "structured",
         handled' = handled \cup {p}, UNCHANGED <<req, icur>>, ipc' = "build"
  PROVE  Recursion'
<1> USE DEF OnStack, Entered
<1>1. req \in Requests /\ icur \in Structs(req) /\ icur \in Path /\ handled \subseteq Processed(req)
  BY StructTree DEF Recursion
<1>2. /\ p \in Processed(req) /\ p \in Path /\ ~IsPrefix(p, icur)
      /\ \A q \in Path : IsPrefix(q, p) <=> q = p \/ IsPrefix(q, icur)
  BY <1>1, MemberFacts
<1>3. \A h \in handled' : ~OnStack(h)'
  BY <1>2 DEF Recursion
<1>4. ASSUME NEW h \in handled', NEW q \in Paths(req), IsPrefix(q, h)
      PROVE  Entered(q)'
  <2>1. q \in Path
    BY <1>1, RequestTree
  <2> QED
    BY <1>2, <1>4, <2>1 DEF Recursion
<1>5. \A h \in handled' : req.kind[h] = "structured" => Members(req, h) \subseteq handled'
  BY DEF Recursion
<1>6. ASSUME NEW s \in Processed(req) \ handled', ~OnStack(s)
      PROVE  \E q \in Processed(req) \ handled' :
               IsPrefix(q, s) /\ OnStack(Front(q)) /\ ~OnStack(q)
  <2>1. PICK q \in Processed(req) \ handled :
          IsPrefix(q, s) /\ OnStack(Front(q)) /\ ~OnStack(q)
    BY <1>6 DEF Recursion
  <2>2. q # p
    BY <1>6, <2>1 DEF Processed, IsStrictPrefix
  <2> QED
    BY <2>1, <2>2
<1> QED
  BY <1>1, <1>2, <1>3, <1>4, <1>5, <1>6 DEF Recursion

(* A StructuredClaim is entered.                                           *)
LEMMA EnterRec ==
  ASSUME Recursion, NEW p \in Members(req, icur) \ handled, req.kind[p] = "structured",
         icur' = p, UNCHANGED <<req, handled>>, ipc' = "build"
  PROVE  Recursion'
<1> USE DEF OnStack, Entered
<1>1. req \in Requests /\ icur \in Structs(req) /\ icur \in Path /\ handled \subseteq Processed(req)
  BY StructTree DEF Recursion
<1>2. /\ p \in Processed(req) /\ p \in Path /\ p # <<>> /\ Front(p) = icur /\ ~IsPrefix(p, icur)
      /\ \A q \in Path : IsPrefix(q, p) <=> q = p \/ IsPrefix(q, icur)
      /\ p \in Paths(req)
  BY <1>1, MemberFacts
<1>3. p \in Structs(req)
  BY <1>2 DEF Structs
<1>4. Processed(req) \subseteq Path \ {<<>>} /\ Paths(req) \subseteq Path
  BY <1>1, StructTree, RequestTree
<1>5. ASSUME NEW h \in handled PROVE ~IsPrefix(p, h)
  BY <1>1, <1>2 DEF Recursion
<1>6. \A h \in handled : ~OnStack(h)'
  BY <1>1, <1>2, <1>4 DEF Recursion
<1>7. \A h \in handled : \A q \in Paths(req) : IsPrefix(q, h) => Entered(q)'
  BY <1>2, <1>4 DEF Recursion
<1>8. ASSUME NEW s \in Processed(req) \ handled, ~OnStack(s)'
      PROVE  \E q \in Processed(req) \ handled :
               IsPrefix(q, s) /\ OnStack(Front(q))' /\ ~OnStack(q)'
  <2>1. s \in Path /\ ~OnStack(s) /\ s # p
    BY <1>2, <1>4, <1>8
  <2>2. PICK q \in Processed(req) \ handled :
          IsPrefix(q, s) /\ OnStack(Front(q)) /\ ~OnStack(q)
    BY <1>8, <2>1 DEF Recursion
  <2>3. q \in Path /\ q # <<>> /\ Front(q) \in Path
    BY <1>4, <2>2, FrontLast
  <2>4. CASE q # p
    BY <1>2, <2>2, <2>3, <2>4
  <2>5. CASE q = p
    <3>1. Len(s) \in Nat /\ Len(p) \in Nat /\ Len(p) <= Len(s)
      BY <1>2, <2>1, <2>2, <2>5, LenProperties DEF IsPrefix, Path
    <3>2. Len(p) # Len(s)
      BY <1>2, <2>1, <2>2, <2>5, <3>1, PrefixOrder
    <3>3. PICK n \in 0 .. Len(s) : n = Len(p) + 1
      BY <3>1, <3>2
    <3>4. PICK x \in Path : Len(x) = n /\ IsPrefix(x, s)
      BY <2>1, Ancestor
    <3>5. x # <<>>
      BY <3>1, <3>3, <3>4
    <3>6. x \in Processed(req)
      BY <1>1, <3>4, <3>5, StructTree
    <3>7. Front(x) \in Path /\ Len(Front(x)) = Len(p)
      <4>1. Front(x) \in Path /\ Len(Front(x)) = Len(x) - 1
        BY <3>5, FrontLast
      <4> QED
        BY <3>1, <3>3, <3>4, <4>1
    <3>8. IsPrefix(p, x)
      <4>1. Len(p) <= Len(x)
        BY <3>1, <3>3, <3>4
      <4> QED
        BY <1>2, <2>1, <2>2, <2>5, <3>4, <4>1, PrefixOrder
    <3>9. Len(p) # Len(x)
      BY <3>1, <3>3, <3>4
    <3>10. IsPrefix(p, Front(x))
      BY <1>2, <3>5, <3>8, <3>9, PrefixFront
    <3>11. Front(x) = p
      <4>1. Len(p) >= Len(Front(x))
        BY <3>1, <3>7
      <4> QED
        BY <1>2, <3>7, <3>10, <4>1, PrefixOrder
    <3>12. ~IsPrefix(x, p) /\ IsPrefix(p, p)
      BY <1>2, <3>5, <3>11, PrefixFront, PrefixOrder
    <3>13. x \notin handled
      BY <1>5, <3>8
    <3> QED
      BY <3>4, <3>6, <3>11, <3>12, <3>13
  <2> QED
    BY <2>4, <2>5
<1> QED
  BY <1>1, <1>3, <1>6, <1>7, <1>8 DEF Recursion

(* A StructuredClaim is left.                                              *)
LEMMA ReturnRec ==
  ASSUME Recursion, ipc = "build", icur # <<>>, Members(req, icur) \subseteq handled,
         handled' = handled \cup {icur}, icur' = Front(icur), UNCHANGED req, ipc' = "build"
  PROVE  Recursion'
<1> USE DEF OnStack, Entered
<1>1. req \in Requests /\ icur \in Structs(req) /\ icur \in Path /\ handled \subseteq Processed(req)
  BY StructTree DEF Recursion
<1>2. icur \in Processed(req) /\ icur \in Paths(req)
  BY <1>1 DEF Structs, Processed
<1>3. /\ Front(icur) \in Structs(req) /\ Front(icur) \in Path /\ ~IsPrefix(icur, Front(icur))
      /\ \A q \in Path : IsPrefix(q, icur) <=> q = icur \/ IsPrefix(q, Front(icur))
  BY <1>1, <1>2, StructTree, PrefixFront
<1>4. Processed(req) \subseteq Path \ {<<>>} /\ Paths(req) \subseteq Path
  BY <1>1, StructTree, RequestTree
<1>5. \A h \in handled' : ~OnStack(h)'
  BY <1>1, <1>3, <1>4 DEF Recursion
<1>6. \A h \in handled' : \A q \in Paths(req) : IsPrefix(q, h) => Entered(q)'
  BY <1>1, <1>3, <1>4 DEF Recursion
<1>7. \A h \in handled' : req.kind[h] = "structured" => Members(req, h) \subseteq handled'
  BY DEF Recursion
<1>8. ASSUME NEW s \in Processed(req) \ handled', ~OnStack(s)'
      PROVE  \E q \in Processed(req) \ handled' :
               IsPrefix(q, s) /\ OnStack(Front(q))' /\ ~OnStack(q)'
  <2>1. s \in Path /\ ~OnStack(s)
    BY <1>3, <1>4, <1>8
  <2>2. PICK q \in Processed(req) \ handled :
          IsPrefix(q, s) /\ OnStack(Front(q)) /\ ~OnStack(q)
    BY <1>8, <2>1 DEF Recursion
  <2>3. q \in Path /\ q # <<>> /\ Front(q) \in Path /\ q \in Members(req, Front(q))
    BY <1>1, <1>4, <2>2, FrontLast, StructTree
  <2>4. Front(q) # icur /\ q # icur
    BY <2>2, <2>3, <1>1, PrefixOrder
  <2> QED
    BY <1>3, <2>2, <2>3, <2>4
<1> QED
  BY <1>1, <1>2, <1>3, <1>5, <1>6, <1>7, <1>8 DEF Recursion

(* Back in Issue, every claim has been handled.                            *)
LEMMA AllHandled ==
  ASSUME Recursion, icur = <<>>, Members(req, <<>>) \subseteq handled
  PROVE  handled = Processed(req)
<1> USE DEF OnStack
<1>1. req \in Requests /\ handled \subseteq Processed(req)
  BY DEF Recursion
<1>2. ASSUME NEW q \in Processed(req), IsPrefix(q, <<>>) \/ IsPrefix(Front(q), <<>>)
      PROVE  q \in handled
  <2>1. q \in Path /\ q # <<>> /\ Front(q) \in Path /\ q \in Members(req, Front(q))
    BY <1>1, StructTree, FrontLast
  <2>2. \A x \in Path : IsPrefix(x, <<>>) => x = <<>>
    <3>1. \A x \in Path : Len(x) \in Nat
      BY LenProperties DEF Path
    <3>2. Len(<<>>) = 0 /\ <<>> \in Path
      BY DEF Path
    <3> QED
      BY <3>1, <3>2, PrefixOrder
  <2> QED
    BY <1>2, <2>1, <2>2
<1>3. ASSUME NEW p \in Processed(req) \ handled PROVE FALSE
  BY <1>2 DEF Recursion
<1> QED
  BY <1>1, <1>3

-----------------------------------------------------------------------------
(* What ParseDisclosure reads from a disclosure that Issue made.           *)
LEMMA ParseEncode ==
  ASSUME NEW salt, NEW key, NEW value
  PROVE  /\ ParseDisclosure(Encode(Disclosure(salt, key, value))).Value = value
         /\ ParseDisclosure(Encode(Disclosure(salt, key, value))).Key = key
<1>1. CASE key # Nil
  <2>1. Encode(Disclosure(salt, key, value)).arr = <<salt, key, value>>
    BY <1>1 DEF Encode, Disclosure
  <2> QED
    BY <2>1 DEF ParseDisclosure, Disclosure
<1>2. CASE key = Nil
  <2>1. Encode(Disclosure(salt, key, value)).arr = <<salt, value>>
    BY <1>2 DEF Encode, Disclosure
  <2> QED
    BY <1>2, <2>1 DEF ParseDisclosure, Disclosure
<1> QED
  BY <1>1, <1>2

(* A disclosure more.                                                      *)
LEMMA DiscloseFacts ==
  ASSUME discs \in Seq(ToSet(discs)), NEW p, NEW value, NEW rest, Disclose(p, value, rest)
  PROVE  \E N \in Nat :
             /\ N = Len(discs) /\ DOMAIN discs = 1 .. N /\ DOMAIN discs' = 1 .. N + 1
             /\ discs' \in Seq(ToSet(discs'))
             /\ \A i \in 1 .. N : discs'[i] = discs[i] /\ Opened(i)' = Opened(i)
             /\ Opened(N + 1)'.Value = value
             /\ \A n \in 1 .. N + 1 : n \in Carriers' <=>
                  n \in Carriers \/ (n = N + 1 /\ "nested" \in DOMAIN value)
             /\ Carriers \subseteq 0 .. N /\ Carriers' \subseteq 0 .. N + 1
             /\ 0 \in Carriers /\ 0 \in Carriers' /\ N + 1 \notin Carriers
             /\ \A n \in 1 .. N : Carried(n)' = Carried(n)
             /\ Carried(N + 1)' = value.nested
             /\ Carried(0) = tree /\ Carried(0)' = tree'
<1>1. PICK N \in Nat : N = Len(discs) /\ DOMAIN discs = 1 .. N
  OBVIOUS
<1>2. PICK enc : enc = Encode(Disclosure(fresh, Last(p), value)) /\ discs' = Append(discs, enc)
  BY DEF Disclose
<1>3. PICK S : discs \in Seq(S) /\ enc \in S
  <2>1. discs \in Seq(ToSet(discs) \cup {enc})
    OBVIOUS
  <2> QED
    BY <2>1
<1>4. /\ discs' \in Seq(S) /\ Len(discs') = N + 1 /\ DOMAIN discs' = 1 .. N + 1
      /\ discs'[N + 1] = enc /\ \A i \in 1 .. N : discs'[i] = discs[i]
  BY <1>1, <1>2, <1>3
<1>5. discs' \in Seq(ToSet(discs'))
  <2>1. discs' \in [1 .. N + 1 -> ToSet(discs')] /\ N + 1 \in Nat
    BY <1>4 DEF ToSet
  <2> QED
    BY <2>1
<1>6. \A i \in 1 .. N : Opened(i)' = Opened(i)
  BY <1>4 DEF Opened
<1>7. Opened(N + 1)'.Value = value
  BY <1>2, <1>4, ParseEncode DEF Opened
<1>8. /\ Carriers \subseteq 0 .. N /\ Carriers' \subseteq 0 .. N + 1
      /\ 0 \in Carriers /\ 0 \in Carriers' /\ N + 1 \notin Carriers
  BY <1>1, <1>4 DEF Carriers
<1>9. \A n \in 1 .. N + 1 : n \in Carriers' <=>
         n \in Carriers \/ (n = N + 1 /\ "nested" \in DOMAIN value)
  BY <1>1, <1>4, <1>6, <1>7 DEF Carriers
<1>10. \A n \in 1 .. N : Carried(n)' = Carried(n)
  BY <1>1, <1>6 DEF Carried
<1>11. Carried(N + 1)' = value.nested
  BY <1>1, <1>7 DEF Carried
<1>12. Carried(0) = tree /\ Carried(0)' = tree'
  BY DEF Carried
<1> QED
  BY <1>1, <1>4, <1>5, <1>6, <1>7, <1>8, <1>9, <1>10, <1>11, <1>12, Zenon

(* It is the one of the claim that is now handled.                         *)
LEMMA DiscloseDiscs ==
  ASSUME Disclosures, NEW p, NEW value, NEW rest, Disclose(p, value, rest), value.claim = p,
         p \notin handled, handled' = handled \cup {p}, Selective(req, p), UNCHANGED req
  PROVE  Disclosures'
<1>1. PICK N \in Nat :
        /\ N = Len(discs) /\ DOMAIN discs = 1 .. N /\ DOMAIN discs' = 1 .. N + 1
        /\ discs' \in Seq(ToSet(discs'))
        /\ \A i \in 1 .. N : Opened(i)' = Opened(i)
        /\ Opened(N + 1)'.Value = value
  BY DiscloseFacts DEF Disclosures
<1>2. (\A i \in 1 .. N : Of(i)' = Of(i)) /\ Of(N + 1)' = p
  BY <1>1 DEF Of
<1>3. 1 .. N + 1 = (1 .. N) \cup {N + 1} /\ N + 1 \notin 1 .. N
  OBVIOUS
<1>4. \A i \in DOMAIN discs' : Of(i)' \in handled' /\ Selective(req, Of(i)')
  BY <1>1, <1>2, <1>3 DEF Disclosures
<1>5. \A i, j \in DOMAIN discs' : Of(i)' = Of(j)' => i = j
  BY <1>1, <1>2, <1>3 DEF Disclosures
<1>6. \A h \in handled' : Selective(req, h) => \E i \in DOMAIN discs' : Of(i)' = h
  BY <1>1, <1>2, <1>3 DEF Disclosures
<1> QED
  BY <1>1, <1>4, <1>5, <1>6 DEF Disclosures

(* Other claims have none.                                                 *)
LEMMA KeepDiscs ==
  ASSUME Disclosures, UNCHANGED <<discs, req>>, handled \subseteq handled',
         \A p \in handled' \ handled : ~Selective(req, p)
  PROVE  Disclosures'
<1>1. \A i : Of(i)' = Of(i)
  BY DEF Of, Opened
<1> QED
  BY <1>1 DEF Disclosures

(* Nothing of a claim is anywhere before its turn.                         *)
LEMMA NothingBelow ==
  ASSUME Recursion, Carriage, NEW p \in Members(req, icur) \ handled,
         NEW n \in Carriers, NEW o \in Objects(Carried(n))
  PROVE  ~IsPrefix(p, o)
<1> USE DEF OnStack, Entered
<1>1. req \in Requests /\ icur \in Structs(req) /\ icur \in Path /\ handled \subseteq Path
  BY StructTree DEF Recursion
<1>2. /\ p \in Paths(req) /\ p \in Path /\ ~IsPrefix(p, icur)
      /\ \A q \in Path : IsPrefix(q, p) <=> q = p \/ IsPrefix(q, icur)
  BY <1>1, MemberFacts
<1>3. o \in Path /\ (OnStack(o) \/ \E h \in handled : IsPrefix(h, o))
  BY DEF Carriage
<1>4. SUFFICES ASSUME IsPrefix(p, o) PROVE FALSE
  OBVIOUS
<1>5. ~OnStack(o)
  BY <1>1, <1>2, <1>3, <1>4, PrefixOrder
<1>6. PICK h \in handled : IsPrefix(h, o)
  BY <1>3, <1>5
<1>7. h \in Path /\ Len(h) \in Nat /\ Len(p) \in Nat
  BY <1>1, <1>2, LenProperties DEF Path
<1>8. CASE Len(h) <= Len(p)
  <2>1. IsPrefix(h, p)
    BY <1>2, <1>3, <1>4, <1>6, <1>7, <1>8, PrefixOrder
  <2> QED
    BY <1>2, <1>7, <2>1 DEF Recursion
<1>9. CASE Len(p) <= Len(h)
  <2>1. IsPrefix(p, h)
    BY <1>2, <1>3, <1>4, <1>6, <1>7, <1>9, PrefixOrder
  <2> QED
    BY <1>2, <2>1 DEF Recursion
<1> QED
  BY <1>7, <1>8, <1>9

-----------------------------------------------------------------------------
(* Where the objects are.  The object of the running loop is in the tree.  *)
LEMMA CurInTree ==
  ASSUME Recursion, Carriage, ipc = "build", NEW o \in Path, OnStack(o)
  PROVE  o \in Structs(req) /\ o \in Objects(tree)
<1>1. req \in Requests /\ icur \in Structs(req) /\ icur \in Path
  BY StructTree DEF Recursion
<1>2. o \in Structs(req)
  BY <1>1, StructTree DEF OnStack
<1>3. ~Left(o)
  <2>1. ASSUME NEW q \in Paths(req), IsPrefix(q, o) PROVE OnStack(q)
    <3>1. q \in Path
      BY <1>1, RequestTree
    <3> QED
      BY <1>1, <2>1, <3>1, PrefixOrder DEF OnStack
  <2> QED
    BY <2>1 DEF Left
<1> QED
  BY <1>2, <1>3 DEF Carriage, Entered, Dropped

(* A claim that is no StructuredClaim: only its own plain objects come in. *)
LEMMA HandleCarriage ==
  ASSUME Recursion, Carriage, ipc = "build", ipc' = "build",
         NEW p \in Members(req, icur) \ handled, req.kind[p] # "structured",
         handled' = handled \cup {p}, UNCHANGED <<req, icur>>,
         Carriers' = Carriers, \A n \in Carriers \ {0} : Carried(n)' = Carried(n),
         IsTree(tree'), DOMAIN tree'.sd = Objects(tree'),
         NEW New, Objects(tree') = Objects(tree) \cup New,
         \A q \in New : q \in Path /\ IsPrefix(p, q)
  PROVE  Carriage'
<1> USE DEF OnStack, Entered
<1>1. req \in Requests /\ icur \in Structs(req) /\ icur \in Path
  BY StructTree DEF Recursion
<1>2. p \in Processed(req) /\ p \in Paths(req) /\ p \in Path /\ p # <<>>
  BY <1>1, MemberFacts
<1>3. 0 \in Carriers /\ Carried(0) = tree /\ Carried(0)' = tree'
  BY DEF Carriers, Carried
<1>4. \A n \in Carriers : \A q \in New : q \notin Objects(Carried(n))
  BY NothingBelow
<1>5. \A q \in New : q \notin Structs(req)
  <2> SUFFICES ASSUME NEW q \in New, q \in Structs(req) PROVE FALSE
    OBVIOUS
  <2>1. q \in Path /\ IsPrefix(p, q)
    OBVIOUS
  <2>2. p \in Structs(req)
    BY <1>1, <1>2, <2>1, StructTree
  <2> QED
    BY <1>2, <2>2 DEF Structs
<1>6. \A n \in Carriers' : /\ DOMAIN Carried(n)'.sd = Objects(Carried(n)')
                           /\ Objects(Carried(n)') \subseteq Path
  BY <1>3 DEF Carriage
<1>7. \A n, m \in Carriers' : n # m => Objects(Carried(n)') \cap Objects(Carried(m)') = {}
  BY <1>3, <1>4 DEF Carriage
<1>8. \A n \in Carriers' : \A o \in Objects(Carried(n)') :
        OnStack(o)' \/ \E h \in handled' : IsPrefix(h, o)
  BY <1>3 DEF Carriage
<1>9. ASSUME NEW o \in Structs(req)
      PROVE  (Entered(o)' <=> Entered(o)) /\ (Left(o)' <=> Left(o)) /\ ~Dropped(o)' /\ ~Dropped(o)
  <2>1. o # p
    BY <1>2, <1>9 DEF Structs
  <2> QED
    BY <2>1 DEF Left, Dropped
<1>10. \A o \in Structs(req) : o \in Objects(tree') <=> Entered(o)' /\ ~Left(o)' /\ ~Dropped(o)'
  BY <1>5, <1>9 DEF Carriage
<1>11. \A o \in Structs(req) : Entered(o)' /\ Left(o)' =>
         \E n \in Carriers' \ {0} : o \in Objects(Carried(n)')
  BY <1>9 DEF Carriage
<1>12. \A n \in Carriers' \ {0} : \A o \in Structs(req) \cap Objects(Carried(n)') : Left(o)'
  BY <1>9 DEF Carriage
<1> QED
  BY <1>6, <1>7, <1>8, <1>10, <1>11, <1>12 DEF Carriage, Objects, IsTree

(* A StructuredClaim is entered.                                           *)
LEMMA EnterCarriage ==
  ASSUME Recursion, Carriage, ipc = "build", ipc' = "build",
         NEW p \in Members(req, icur) \ handled, req.kind[p] = "structured",
         icur' = p, UNCHANGED <<req, handled, discs>>,
         IsTree(tree'), DOMAIN tree'.sd = Objects(tree'), Objects(tree') = Objects(tree) \cup {p}
  PROVE  Carriage'
<1> USE DEF OnStack, Entered
<1>1. req \in Requests /\ icur \in Structs(req) /\ icur \in Path
  BY StructTree DEF Recursion
<1>2. /\ p \in Processed(req) /\ p \in Paths(req) /\ p \in Path /\ p # <<>>
      /\ \A q \in Path : IsPrefix(q, p) <=> q = p \/ IsPrefix(q, icur)
      /\ ~IsPrefix(p, icur)
  BY <1>1, MemberFacts
<1>3. Carriers' = Carriers /\ \A n \in Carriers \ {0} : Carried(n)' = Carried(n)
  BY DEF Carriers, Carried, Opened
<1>4. 0 \in Carriers /\ Carried(0) = tree /\ Carried(0)' = tree'
  BY DEF Carriers, Carried
<1>5. IsPrefix(p, p)
  BY <1>2, PrefixOrder
<1>6. \A n \in Carriers : p \notin Objects(Carried(n))
  BY <1>5, NothingBelow
<1>7. Paths(req) \subseteq Path /\ Structs(req) \subseteq Path
  BY <1>1, RequestTree, StructTree
<1>8. \A n \in Carriers' : /\ DOMAIN Carried(n)'.sd = Objects(Carried(n)')
                           /\ Objects(Carried(n)') \subseteq Path
  BY <1>2, <1>3, <1>4 DEF Carriage
<1>9. \A n, m \in Carriers' : n # m => Objects(Carried(n)') \cap Objects(Carried(m)') = {}
  BY <1>3, <1>4, <1>6 DEF Carriage
<1>10. ASSUME NEW n \in Carriers', NEW o \in Objects(Carried(n)')
       PROVE  OnStack(o)' \/ \E h \in handled' : IsPrefix(h, o)
  <2>1. o \in Path
    BY <1>8
  <2>2. CASE o = p
    BY <1>5, <2>2
  <2>3. CASE o # p
    <3>1. o \in Objects(Carried(n))
      BY <1>3, <1>4, <2>3
    <3> QED
      BY <1>2, <1>3, <2>1, <3>1 DEF Carriage
  <2> QED
    BY <2>2, <2>3
<1>11. ASSUME NEW o \in Structs(req), Entered(o)'
       PROVE  \/ o = p /\ ~Left(o)'
              \/ Entered(o) /\ (Left(o)' <=> Left(o)) /\ o # p
  <2>1. \A q \in Paths(req) : OnStack(q)' <=> OnStack(q) \/ q = p
    BY <1>2, <1>7
  <2>2. CASE o = p
    BY <1>2, <1>7, <2>1, <2>2 DEF Left
  <2>3. CASE o # p
    <3>1. Entered(o)
      BY <1>2, <1>7, <1>11, <2>3
    <3>2. ~IsPrefix(p, o)
      <4>1. CASE OnStack(o)
        BY <1>1, <1>2, <1>7, <4>1, PrefixOrder
      <4>2. CASE o \in handled
        BY <1>2, <4>2 DEF Recursion
      <4> QED
        BY <3>1, <4>1, <4>2
    <3> QED
      BY <2>1, <2>3, <3>1, <3>2 DEF Left
  <2> QED
    BY <2>2, <2>3
<1>12. \A o : ~Dropped(o)' /\ ~Dropped(o)
  BY DEF Dropped
<1>13. \A o \in Structs(req) : Entered(o) => Entered(o)'
  BY <1>2, <1>7
<1>14. Entered(p)' /\ ~Entered(p)
  BY <1>2, <1>5
<1>15. \A o \in Structs(req) : o \in Objects(tree') <=> Entered(o)' /\ ~Left(o)' /\ ~Dropped(o)'
  BY <1>11, <1>12, <1>13, <1>14 DEF Carriage
<1>16. \A o \in Structs(req) : Entered(o)' /\ Left(o)' =>
         \E n \in Carriers' \ {0} : o \in Objects(Carried(n)')
  BY <1>3, <1>11 DEF Carriage
<1>17. ASSUME NEW n \in Carriers' \ {0}, NEW o \in Structs(req) \cap Objects(Carried(n)')
       PROVE  Left(o)'
  <2>1. n \in Carriers /\ o \in Objects(Carried(n)) /\ Left(o)
    BY <1>3 DEF Carriage
  <2>2. ~IsPrefix(p, o)
    BY <2>1, NothingBelow
  <2>3. \A q \in Paths(req) : OnStack(q)' <=> OnStack(q) \/ q = p
    BY <1>2, <1>7
  <2> QED
    BY <2>1, <2>2, <2>3 DEF Left
<1> QED
  BY <1>8, <1>9, <1>10, <1>15, <1>16, <1>17 DEF Carriage, Objects, IsTree

(* What leaving an object changes of the stack.                            *)
LEMMA ReturnStack ==
  ASSUME Recursion, icur # <<>>, handled' = handled \cup {icur}, icur' = Front(icur),
         UNCHANGED req
  PROVE  /\ \A o \in Path : OnStack(o) <=> (OnStack(o)' \/ o = icur)
         /\ ~IsPrefix(icur, icur') /\ icur \in Path /\ icur \in Processed(req)
         /\ Structs(req) \subseteq Path
         /\ \A o \in Structs(req) : Entered(o)' <=> Entered(o)
         /\ \A o \in Structs(req) :
              Left(o)' <=> Left(o) \/ (Selective(req, icur) /\ IsPrefix(icur, o))
<1>1. req \in Requests /\ icur \in Structs(req) /\ icur \in Path
  BY StructTree DEF Recursion
<1>2. icur \in Processed(req) /\ icur \in Paths(req)
  BY <1>1 DEF Structs, Processed
<1>3. Structs(req) \subseteq Path /\ Paths(req) \subseteq Path
  BY <1>1, StructTree, RequestTree
<1>4. (\A o \in Path : OnStack(o) <=> (OnStack(o)' \/ o = icur)) /\ ~IsPrefix(icur, icur')
  <2>1. /\ \A q \in Path : IsPrefix(q, icur) <=> (q = icur \/ IsPrefix(q, Front(icur)))
        /\ ~IsPrefix(icur, Front(icur))
    <3>1. PICK c \in Path : c = icur /\ c # <<>>
      BY <1>1
    <3>2. /\ \A q \in Path : IsPrefix(q, c) <=> (q = c \/ IsPrefix(q, Front(c)))
          /\ ~IsPrefix(c, Front(c))
      BY <3>1, PrefixFront
    <3> QED
      BY <3>1, <3>2, Zenon
  <2> QED
    BY <2>1 DEF OnStack
<1>5. \A o \in Structs(req) : Entered(o)' <=> Entered(o)
  <2> SUFFICES ASSUME NEW o \in Structs(req) PROVE Entered(o)' <=> Entered(o)
    OBVIOUS
  <2>1. OnStack(o) <=> (OnStack(o)' \/ o = icur)
    BY <1>3, <1>4
  <2> QED
    BY <1>1, <2>1 DEF Entered
<1>6. ASSUME NEW o \in Structs(req)
      PROVE  Left(o)' <=> Left(o) \/ (Selective(req, icur) /\ IsPrefix(icur, o))
  <2>1. \A q \in Paths(req) : ~OnStack(q)' <=> (~OnStack(q) \/ q = icur)
    <3> SUFFICES ASSUME NEW q \in Paths(req)
                 PROVE  ~OnStack(q)' <=> (~OnStack(q) \/ q = icur)
      BY Zenon
    <3>1. OnStack(q) <=> (OnStack(q)' \/ q = icur)
      BY <1>3, <1>4
    <3>2. q = icur => ~OnStack(q)'
      BY <1>4 DEF OnStack
    <3> QED
      BY <3>1, <3>2
  <2>2. Left(o)' <=> \E q \in Paths(req) : IsPrefix(q, o) /\ Selective(req, q) /\ ~OnStack(q)'
    BY DEF Left
  <2> QED
    BY <1>2, <2>1, <2>2 DEF Left
<1> QED
  BY <1>1, <1>2, <1>3, <1>4, <1>5, <1>6

(* An object that is not selective is left: it stays in the tree.          *)
LEMMA ReturnCarriage ==
  ASSUME Recursion, Carriage, ipc = "build", ipc' = "build", icur # <<>>,
         handled' = handled \cup {icur}, icur' = Front(icur), UNCHANGED <<req, discs>>,
         ~Selective(req, icur), IsTree(tree'), DOMAIN tree'.sd = Objects(tree'),
         Objects(tree') = Objects(tree)
  PROVE  Carriage'
<1>1. /\ \A o \in Path : OnStack(o) <=> (OnStack(o)' \/ o = icur)
      /\ icur \in Path /\ Structs(req) \subseteq Path
      /\ \A o \in Structs(req) : Entered(o)' <=> Entered(o)
      /\ \A o \in Structs(req) : Left(o)' <=> Left(o)
  BY ReturnStack
<1>2. Carriers' = Carriers /\ \A n \in Carriers \ {0} : Carried(n)' = Carried(n)
  BY DEF Carriers, Carried, Opened
<1>3. 0 \in Carriers /\ Carried(0) = tree /\ Carried(0)' = tree'
  BY DEF Carriers, Carried
<1>4. \A n \in Carriers : Objects(Carried(n)') = Objects(Carried(n))
  BY <1>2, <1>3
<1>5. \A n \in Carriers' : /\ DOMAIN Carried(n)'.sd = Objects(Carried(n)')
                           /\ Objects(Carried(n)') \subseteq Path
  BY <1>2, <1>3, <1>4 DEF Carriage
<1>6. \A n, m \in Carriers' : n # m => Objects(Carried(n)') \cap Objects(Carried(m)') = {}
  BY <1>2, <1>4 DEF Carriage
<1>7. IsPrefix(icur, icur)
  BY <1>1, PrefixOrder
<1>8. ASSUME NEW n \in Carriers', NEW o \in Objects(Carried(n)')
      PROVE  OnStack(o)' \/ \E h \in handled' : IsPrefix(h, o)
  BY <1>1, <1>2, <1>4, <1>5, <1>7 DEF Carriage
<1>9. \A o : ~Dropped(o)' /\ ~Dropped(o)
  BY DEF Dropped
<1>10. \A o \in Structs(req) : o \in Objects(tree') <=> Entered(o)' /\ ~Left(o)' /\ ~Dropped(o)'
  BY <1>1, <1>9 DEF Carriage
<1>11. \A o \in Structs(req) : Entered(o)' /\ Left(o)' =>
         \E n \in Carriers' \ {0} : o \in Objects(Carried(n)')
  BY <1>1, <1>2, <1>4 DEF Carriage
<1>12. \A n \in Carriers' \ {0} : \A o \in Structs(req) \cap Objects(Carried(n)') : Left(o)'
  BY <1>1, <1>2 DEF Carriage
<1> QED
  BY <1>5, <1>6, <1>8, <1>10, <1>11, <1>12 DEF Carriage, Objects, IsTree

(* A selective one leaves the tree with all that is below it.              *)
LEMMA LeaveCarriage ==
  ASSUME Recursion, Disclosures, Carriage, ipc = "build", ipc' = "build", icur # <<>>,
         handled' = handled \cup {icur}, icur' = Front(icur), UNCHANGED req,
         Selective(req, icur), NEW value, NEW rest, Disclose(icur, value, rest),
         "nested" \in DOMAIN value,
         DOMAIN value.nested.sd = Objects(value.nested),
         Objects(value.nested) = Below(icur, Objects(tree)),
         IsTree(tree'), DOMAIN tree'.sd = Objects(tree'),
         Objects(tree') = Objects(tree) \ Below(icur, Objects(tree))
  PROVE  Carriage'
<1>1. /\ \A o \in Path : OnStack(o) <=> (OnStack(o)' \/ o = icur)
      /\ icur \in Path /\ Structs(req) \subseteq Path
      /\ \A o \in Structs(req) : Entered(o)' <=> Entered(o)
      /\ \A o \in Structs(req) : Left(o)' <=> Left(o) \/ IsPrefix(icur, o)
  BY ReturnStack
<1>2. PICK N \in Nat :
        /\ \A n \in 1 .. N + 1 : n \in Carriers' <=>
             n \in Carriers \/ (n = N + 1 /\ "nested" \in DOMAIN value)
        /\ Carriers \subseteq 0 .. N /\ Carriers' \subseteq 0 .. N + 1
        /\ 0 \in Carriers /\ 0 \in Carriers' /\ N + 1 \notin Carriers
        /\ \A n \in 1 .. N : Carried(n)' = Carried(n)
        /\ Carried(N + 1)' = value.nested
        /\ Carried(0) = tree /\ Carried(0)' = tree'
  BY DiscloseFacts DEF Disclosures
<1>3. /\ Carriers' = Carriers \cup {N + 1} /\ N + 1 # 0
      /\ \A n \in Carriers \ {0} : Carried(n)' = Carried(n)
  <2>1. 0 .. N + 1 = {0} \cup (1 .. N) \cup {N + 1} /\ N + 1 \in 1 .. N + 1 /\ N + 1 # 0
    OBVIOUS
  <2>2. 0 .. N = {0} \cup (1 .. N) /\ 1 .. N \subseteq 1 .. N + 1
    OBVIOUS
  <2> QED
    BY <1>2, <2>1, <2>2
<1>4. Below(icur, Objects(tree)) = {o \in Objects(tree) : IsPrefix(icur, o)}
  BY DEF Below
<1>5. \A n \in Carriers' : /\ DOMAIN Carried(n)'.sd = Objects(Carried(n)')
                           /\ Objects(Carried(n)') \subseteq Path
  <2> SUFFICES ASSUME NEW n \in Carriers'
               PROVE  DOMAIN Carried(n)'.sd = Objects(Carried(n)') /\ Objects(Carried(n)') \subseteq Path
    OBVIOUS
  <2>1. Objects(tree) \subseteq Path
    BY <1>2 DEF Carriage
  <2>2. CASE n = 0
    BY <1>2, <2>1, <2>2
  <2>3. CASE n = N + 1
    BY <1>2, <1>4, <2>1, <2>3
  <2>4. CASE n \in Carriers \ {0}
    BY <1>3, <2>4 DEF Carriage
  <2> QED
    BY <1>3, <2>2, <2>3, <2>4
<1>6. ASSUME NEW n \in Carriers', NEW o \in Objects(Carried(n)')
      PROVE  \/ n = N + 1 /\ o \in Objects(tree) /\ IsPrefix(icur, o)
             \/ n = 0 /\ o \in Objects(tree) /\ ~IsPrefix(icur, o)
             \/ n \in Carriers \ {0} /\ o \in Objects(Carried(n))
  BY <1>2, <1>3, <1>4
<1>7. \A n, m \in Carriers' : n # m => Objects(Carried(n)') \cap Objects(Carried(m)') = {}
  <2> SUFFICES ASSUME NEW n \in Carriers', NEW m \in Carriers', n # m,
                      NEW o \in Objects(Carried(n)'), o \in Objects(Carried(m)')
               PROVE  FALSE
    BY Zenon
  <2>1. \A x, y \in Carriers : x # y => Objects(Carried(x)) \cap Objects(Carried(y)) = {}
    BY DEF Carriage
  <2> QED
    BY <1>2, <1>6, <2>1
<1>8. IsPrefix(icur, icur)
  BY <1>1, PrefixOrder
<1>9. ASSUME NEW n \in Carriers', NEW o \in Objects(Carried(n)')
      PROVE  OnStack(o)' \/ \E h \in handled' : IsPrefix(h, o)
  <2>1. o \in Path
    BY <1>5
  <2>2. CASE IsPrefix(icur, o)
    BY <2>2
  <2>3. CASE ~IsPrefix(icur, o)
    <3>1. OnStack(o) \/ \E h \in handled : IsPrefix(h, o)
      BY <1>2, <1>6, <2>3 DEF Carriage
    <3> QED
      BY <1>1, <1>8, <2>1, <2>3, <3>1
  <2> QED
    BY <2>2, <2>3
<1>10. \A o : ~Dropped(o)' /\ ~Dropped(o)
  BY DEF Dropped
<1>11. \A o \in Structs(req) : o \in Objects(tree') <=> Entered(o)' /\ ~Left(o)' /\ ~Dropped(o)'
  BY <1>1, <1>4, <1>10 DEF Carriage
<1>12. ASSUME NEW o \in Structs(req), Entered(o)', Left(o)'
       PROVE  \E n \in Carriers' \ {0} : o \in Objects(Carried(n)')
  <2>1. CASE Left(o)
    BY <1>1, <1>3, <1>12, <2>1 DEF Carriage
  <2>2. CASE ~Left(o)
    <3>1. o \in Objects(tree) /\ IsPrefix(icur, o)
      BY <1>1, <1>10, <1>12, <2>2 DEF Carriage
    <3>2. o \in Objects(Carried(N + 1)')
      BY <1>2, <1>4, <3>1
    <3> QED
      BY <1>3, <3>2
  <2> QED
    BY <2>1, <2>2
<1>13. ASSUME NEW n \in Carriers' \ {0}, NEW o \in Structs(req) \cap Objects(Carried(n)')
       PROVE  Left(o)'
  BY <1>1, <1>6 DEF Carriage
<1> QED
  BY <1>5, <1>7, <1>9, <1>11, <1>12, <1>13 DEF Carriage, Objects, IsTree

-----------------------------------------------------------------------------
(* The operators on payload trees.  obj[k] = v.                            *)
LEMMA PutFacts ==
  ASSUME NEW tr, IsTree(tr), NEW o \in Objects(tr), NEW k, NEW v, NEW new, new = Put(tr, o, k, v)
  PROVE  /\ IsTree(new) /\ Objects(new) = Objects(tr) /\ new.sd = tr.sd
         /\ DOMAIN new.val[o] = DOMAIN tr.val[o] \cup {k} /\ new.val[o][k] = v
         /\ \A x \in DOMAIN tr.val[o] : x # k => new.val[o][x] = tr.val[o][x]
         /\ \A x \in Objects(tr) : x # o => new.val[x] = tr.val[x]
<1>1. PICK V, S : tr = [val |-> V, sd |-> S] /\ tr.val = V /\ tr.sd = S
  BY DEF IsTree
<1>2. o \in DOMAIN V /\ Objects(tr) = DOMAIN V
  BY <1>1 DEF Objects
<1>3. PICK W : W = [V EXCEPT ![o] = Overlay(V[o], [x \in {k} |-> v])]
  OBVIOUS
<1>4. new = [val |-> W, sd |-> S]
  BY <1>1, <1>2, <1>3 DEF Put
<1>5. DOMAIN W = DOMAIN V /\ W[o] = Overlay(V[o], [x \in {k} |-> v])
  BY <1>2, <1>3
<1>6. \A x \in DOMAIN V : x # o => W[x] = V[x]
  BY <1>3
<1>7. /\ DOMAIN W[o] = DOMAIN V[o] \cup {k} /\ W[o][k] = v
      /\ \A x \in DOMAIN V[o] : x # k => W[o][x] = V[o][x]
  BY <1>5 DEF Overlay
<1>8. new.val = W /\ new.sd = S /\ IsTree(new)
  BY <1>4 DEF IsTree
<1> QED
  BY <1>1, <1>2, <1>5, <1>6, <1>7, <1>8 DEF Objects

(* New objects come in, each with an empty _sd array.                      *)
LEMMA GrowFacts ==
  ASSUME NEW tr, DOMAIN tr.sd = Objects(tr), NEW vals, NEW new, new = Grow(tr, vals)
  PROVE  /\ IsTree(new) /\ Objects(new) = Objects(tr) \cup DOMAIN vals
         /\ DOMAIN new.sd = Objects(new)
         /\ \A o \in DOMAIN vals : new.val[o] = vals[o] /\ new.sd[o] = <<>>
         /\ \A o \in Objects(tr) \ DOMAIN vals : new.val[o] = tr.val[o] /\ new.sd[o] = tr.sd[o]
<1>1. PICK E : E = [o \in DOMAIN vals |-> <<>>] /\ DOMAIN E = DOMAIN vals
  OBVIOUS
<1>2. new.val = Overlay(tr.val, vals) /\ new.sd = Overlay(tr.sd, E) /\ IsTree(new)
  BY <1>1 DEF Grow, IsTree
<1> QED
  BY <1>1, <1>2 DEF Objects, Overlay

(* The tree new is tr with the claim at p put into its object, and with    *)
(* the plain objects New of that claim.                                    *)
Cleared(r, tr, p, new, New) ==
  /\ IsTree(new) /\ DOMAIN new.sd = Objects(new) /\ Objects(new) = Objects(tr) \cup New
  /\ \A o \in New : IsPrefix(p, o) /\ new.sd[o] = <<>>
  /\ \A o \in Objects(tr) : new.sd[o] = tr.sd[o]
  /\ \A o \in Objects(tr) : o # Front(p) => new.val[o] = tr.val[o]
  /\ DOMAIN new.val[Front(p)] = DOMAIN tr.val[Front(p)] \cup {Last(p)}
  /\ new.val[Front(p)][Last(p)] = Shown(r, p)
  /\ \A x \in DOMAIN tr.val[Front(p)] : x # Last(p) =>
       new.val[Front(p)][x] = tr.val[Front(p)][x]
  /\ \A o \in New : \A k \in DOMAIN new.val[o] : "claim" \in DOMAIN new.val[o][k] =>
       new.val[o][k].claim \in Path /\ IsPrefix(p, new.val[o][k].claim)

(* obj[k] = v for a claim in the clear.                                    *)
LEMMA PutClearFacts ==
  ASSUME NEW r \in Requests, NEW tr, IsTree(tr), DOMAIN tr.sd = Objects(tr),
         NEW p \in Processed(r), r.kind[p] # "structured", Front(p) \in Objects(tr),
         \A o \in Objects(tr) : ~IsPrefix(p, o)
  PROVE  \E New \in SUBSET Path : Cleared(r, tr, p, PutClear(r, tr, p), New)
<1> DEFINE new == PutClear(r, tr, p)
<1>1. /\ Paths(r) \subseteq Path /\ p \in Path /\ p # <<>>
      /\ IsPrefix(p, p) /\ ~IsPrefix(p, Front(p))
  BY RequestTree, StructTree, PrefixOrder, PrefixFront DEF Processed
<1>2. CASE r.kind[p] # "map"
  <2> HIDE DEF new
  <2>1. new = Put(tr, Front(p), Last(p), [claim |-> p]) /\ Shown(r, p) = [claim |-> p]
    BY <1>2 DEF new, PutClear, Shown
  <2>2. /\ IsTree(new) /\ Objects(new) = Objects(tr) \cup {} /\ new.sd = tr.sd
        /\ DOMAIN new.val[Front(p)] = DOMAIN tr.val[Front(p)] \cup {Last(p)}
        /\ new.val[Front(p)][Last(p)] = [claim |-> p]
        /\ \A x \in DOMAIN tr.val[Front(p)] : x # Last(p) =>
             new.val[Front(p)][x] = tr.val[Front(p)][x]
        /\ \A x \in Objects(tr) : x # Front(p) => new.val[x] = tr.val[x]
    BY <2>1, PutFacts
  <2>3. Cleared(r, tr, p, new, {})
    BY <2>1, <2>2 DEF Cleared
  <2> QED
    BY <2>3 DEF new
<1>3. CASE r.kind[p] = "map"
  <2> HIDE DEF new
  <2>1. PICK vals : vals = PlainObjects(r, p)
    OBVIOUS
  <2>2. PICK big : big = Grow(tr, vals)
    OBVIOUS
  <2>3. new = Put(big, Front(p), Last(p), [obj |-> p]) /\ Shown(r, p) = [obj |-> p]
    BY <1>3, <2>1, <2>2 DEF new, PutClear, Shown
  <2>4. DOMAIN vals \subseteq Path /\ \A o \in DOMAIN vals : IsPrefix(p, o)
    BY <1>1, <2>1 DEF PlainObjects, Below
  <2>5. /\ IsTree(big) /\ Objects(big) = Objects(tr) \cup DOMAIN vals
        /\ DOMAIN big.sd = Objects(big)
        /\ \A o \in DOMAIN vals : big.val[o] = vals[o] /\ big.sd[o] = <<>>
        /\ \A o \in Objects(tr) : big.val[o] = tr.val[o] /\ big.sd[o] = tr.sd[o]
    BY <2>2, <2>4, GrowFacts
  <2>6. Front(p) \in Objects(big) /\ Front(p) \notin DOMAIN vals
    BY <1>1, <2>4, <2>5
  <2>7. /\ IsTree(new) /\ Objects(new) = Objects(big) /\ new.sd = big.sd
        /\ DOMAIN new.val[Front(p)] = DOMAIN big.val[Front(p)] \cup {Last(p)}
        /\ new.val[Front(p)][Last(p)] = [obj |-> p]
        /\ \A x \in DOMAIN big.val[Front(p)] : x # Last(p) =>
             new.val[Front(p)][x] = big.val[Front(p)][x]
        /\ \A x \in Objects(big) : x # Front(p) => new.val[x] = big.val[x]
    BY <2>3, <2>5, <2>6, PutFacts
  <2>8. ASSUME NEW o \in DOMAIN vals, NEW k \in DOMAIN vals[o], "claim" \in DOMAIN vals[o][k]
        PROVE  vals[o][k].claim \in Path /\ IsPrefix(p, vals[o][k].claim)
    <3>1. k \in {Last(m) : m \in Members(r, o)}
      BY <2>1, <2>8 DEF PlainObjects
    <3>2. PICK m \in Members(r, o) : k = Last(m)
      BY <3>1
    <3>3. m \in Path /\ m # <<>> /\ Front(m) = o
      BY <1>1, RequestTree DEF Members
    <3>4. m = Append(o, k) /\ IsPrefix(o, m) /\ IsPrefix(p, o) /\ o \in Path
      <4>1. m = Append(Front(m), Last(m)) /\ Front(m) \in Path
        BY <3>3, FrontLast
      <4>2. IsPrefix(Front(m), m)
        BY <3>3, <4>1, PrefixFront, PrefixOrder
      <4> QED
        BY <2>4, <3>2, <3>3, <4>1, <4>2
    <3>5. IsPrefix(p, m)
      BY <1>1, <3>3, <3>4, PrefixOrder
    <3>6. vals[o][k] = IF r.kind[m] = "map" THEN [obj |-> m] ELSE [claim |-> m]
      BY <2>1, <3>1, <3>4 DEF PlainObjects
    <3>7. vals[o][k] = [claim |-> m]
      BY <2>8, <3>6
    <3> QED
      BY <3>3, <3>5, <3>7
  <2>9. \A o \in DOMAIN vals : new.val[o] = vals[o]
    BY <2>5, <2>6, <2>7
  <2>10. Cleared(r, tr, p, new, DOMAIN vals)
    <3>1. /\ IsTree(new) /\ DOMAIN new.sd = Objects(new)
          /\ Objects(new) = Objects(tr) \cup DOMAIN vals
      BY <2>5, <2>7
    <3>2. /\ \A o \in DOMAIN vals : IsPrefix(p, o) /\ new.sd[o] = <<>>
          /\ \A o \in Objects(tr) : new.sd[o] = tr.sd[o]
      BY <2>4, <2>5, <2>7
    <3>3. \A o \in Objects(tr) : o # Front(p) => new.val[o] = tr.val[o]
      BY <2>5, <2>7
    <3>4. /\ DOMAIN new.val[Front(p)] = DOMAIN tr.val[Front(p)] \cup {Last(p)}
          /\ new.val[Front(p)][Last(p)] = Shown(r, p)
          /\ \A x \in DOMAIN tr.val[Front(p)] : x # Last(p) =>
               new.val[Front(p)][x] = tr.val[Front(p)][x]
      <4>1. big.val[Front(p)] = tr.val[Front(p)]
        BY <2>5
      <4> QED
        BY <2>3, <2>7, <4>1
    <3>5. \A o \in DOMAIN vals : \A k \in DOMAIN new.val[o] : "claim" \in DOMAIN new.val[o][k] =>
            new.val[o][k].claim \in Path /\ IsPrefix(p, new.val[o][k].claim)
      BY <2>8, <2>9
    <3> QED
      BY <3>1, <3>2, <3>3, <3>4, <3>5 DEF Cleared
  <2> QED
    BY <2>4, <2>10 DEF new
<1> QED
  BY <1>2, <1>3

-----------------------------------------------------------------------------
(* The registered claims: which there are does not depend on the time, and *)
(* none of them is a claim of the request.                                 *)
LEMMA RegisteredNames ==
  /\ UNCHANGED <<iopts, req>> => DOMAIN RegisteredClaims' = DOMAIN RegisteredClaims
  /\ \A k \in DOMAIN RegisteredClaims :
       "claim" \notin DOMAIN RegisteredClaims[k] /\ "obj" \notin DOMAIN RegisteredClaims[k]
  /\ DOMAIN RegisteredClaims \subseteq RegisteredName
<1> DEFINE str(s) == [str |-> s]
           num(n) == [num |-> n]
           always == [iss |-> str(iopts.id), iat |-> num(Seconds(clock)),
                      nbf |-> num(Seconds(IF req.notBefore = Nil THEN clock ELSE req.notBefore)),
                      exp |-> num(Seconds(IF req.expiresAt = Nil THEN clock + iopts.tokenTTL
                                                                 ELSE req.expiresAt)),
                      vct |-> str(req.vct), _sd_alg |-> str(SDAlgFromHash(iopts.hashAlg))]
           sub == [k \in {x \in {"sub"} : req.subject # Nil} |-> str(req.subject)]
           uri == [k \in {x \in {"vct#integrity"} : iopts.schemaURI # Nil} |-> str(iopts.schemaURI)]
           cnf == [k \in {x \in {"cnf"} : req.holderKey # Nil} |-> buildCnf(req.holderKey)]
<1>1. RegisteredClaims = Overlay(Overlay(always, sub), Overlay(uri, cnf))
  BY DEF RegisteredClaims
<1>2. DOMAIN always = {"iss", "iat", "nbf", "exp", "vct", "_sd_alg"}
  OBVIOUS
<1>3. \A k \in DOMAIN always : "claim" \notin DOMAIN always[k] /\ "obj" \notin DOMAIN always[k]
  OBVIOUS
<1>4. /\ \A k \in DOMAIN sub : "claim" \notin DOMAIN sub[k] /\ "obj" \notin DOMAIN sub[k]
      /\ \A k \in DOMAIN uri : "claim" \notin DOMAIN uri[k] /\ "obj" \notin DOMAIN uri[k]
  OBVIOUS
<1>5. \A k \in DOMAIN cnf : "claim" \notin DOMAIN cnf[k] /\ "obj" \notin DOMAIN cnf[k]
  BY DEF buildCnf
<1>6. DOMAIN sub' = {x \in {"sub"} : req'.subject # Nil} /\ DOMAIN sub = {x \in {"sub"} : req.subject # Nil}
  OBVIOUS
<1>7. /\ DOMAIN uri' = {x \in {"vct#integrity"} : iopts'.schemaURI # Nil}
      /\ DOMAIN uri = {x \in {"vct#integrity"} : iopts.schemaURI # Nil}
      /\ DOMAIN cnf' = {x \in {"cnf"} : req'.holderKey # Nil}
      /\ DOMAIN cnf = {x \in {"cnf"} : req.holderKey # Nil}
  OBVIOUS
<1>8. DOMAIN always' = DOMAIN always
  OBVIOUS
<1> HIDE DEF always, sub, uri, cnf
<1>9. DOMAIN RegisteredClaims = DOMAIN always \cup DOMAIN sub \cup (DOMAIN uri \cup DOMAIN cnf)
  BY <1>1 DEF Overlay
<1>10. DOMAIN RegisteredClaims' = DOMAIN always' \cup DOMAIN sub' \cup (DOMAIN uri' \cup DOMAIN cnf')
  <2>1. RegisteredClaims' = Overlay(Overlay(always', sub'), Overlay(uri', cnf'))
    BY DEF RegisteredClaims, always, sub, uri, cnf
  <2> QED
    BY <2>1 DEF Overlay
<1>11. ASSUME NEW k \in DOMAIN RegisteredClaims
       PROVE  "claim" \notin DOMAIN RegisteredClaims[k] /\ "obj" \notin DOMAIN RegisteredClaims[k]
  BY <1>1, <1>3, <1>4, <1>5, <1>11 DEF Overlay
<1>12. DOMAIN RegisteredClaims \subseteq RegisteredName
  BY <1>2, <1>6, <1>7, <1>9 DEF RegisteredName
<1> QED
  BY <1>6, <1>7, <1>8, <1>9, <1>10, <1>11, <1>12

(* Steps outside of the recursion leave it alone.                          *)
LEMMA StayRec ==
  ASSUME Recursion, UNCHANGED <<req, icur, handled>>,
         ipc' # "build" => ipc # "build" \/ (icur = <<>> /\ Members(req, <<>>) \subseteq handled)
  PROVE  Recursion'
BY DEF Recursion, OnStack, Entered

(* Those that move no object.                                              *)
LEMMA StayCarriage ==
  ASSUME Carriage, UNCHANGED <<iopts, req, icur, handled, discs>>,
         ipc \in {"sign", "issued"} <=> ipc' \in {"sign", "issued"},
         IsTree(tree'), DOMAIN tree'.sd = Objects(tree'), Objects(tree') = Objects(tree)
  PROVE  Carriage'
<1>1. Carriers' = Carriers /\ \A n \in Carriers \ {0} : Carried(n)' = Carried(n)
  BY DEF Carriers, Carried, Opened
<1>2. 0 \in Carriers /\ Carried(0) = tree /\ Carried(0)' = tree'
  BY DEF Carriers, Carried
<1>3. \A n \in Carriers : Objects(Carried(n)') = Objects(Carried(n))
  BY <1>1, <1>2
<1>4. \A n \in Carriers' : /\ DOMAIN Carried(n)'.sd = Objects(Carried(n)')
                           /\ Objects(Carried(n)') \subseteq Path
  BY <1>1, <1>2, <1>3 DEF Carriage
<1>5. \A n, m \in Carriers' : n # m => Objects(Carried(n)') \cap Objects(Carried(m)') = {}
  BY <1>1, <1>3 DEF Carriage
<1>6. \A o : /\ OnStack(o)' <=> OnStack(o)
             /\ Entered(o)' <=> Entered(o)
             /\ Left(o)' <=> Left(o)
             /\ Dropped(o)' <=> Dropped(o)
  BY RegisteredNames DEF OnStack, Entered, Left, Dropped
<1>7. \A n \in Carriers' : \A o \in Objects(Carried(n)') :
        OnStack(o)' \/ \E h \in handled' : IsPrefix(h, o)
  BY <1>1, <1>3, <1>6 DEF Carriage
<1>8. \A o \in Structs(req) : o \in Objects(tree') <=> Entered(o)' /\ ~Left(o)' /\ ~Dropped(o)'
  BY <1>6 DEF Carriage
<1>9. \A o \in Structs(req) : Entered(o)' /\ Left(o)' =>
         \E n \in Carriers' \ {0} : o \in Objects(Carried(n)')
  BY <1>1, <1>3, <1>6 DEF Carriage
<1>10. \A n \in Carriers' \ {0} : \A o \in Structs(req) \cap Objects(Carried(n)') : Left(o)'
  BY <1>1, <1>3, <1>6 DEF Carriage
<1> QED
  BY <1>4, <1>5, <1>7, <1>8, <1>9, <1>10 DEF Carriage, Objects, IsTree

(* The registered claims take objects out of the tree.                     *)
LEMMA RegisterCarriage ==
  ASSUME Carriage, UNCHANGED <<iopts, req, icur, handled, discs>>, ipc = "claims", ipc' = "sign",
         IsTree(tree'), DOMAIN tree'.sd = Objects(tree'),
         Objects(tree') = {o \in Objects(tree) : o # <<>> => o[1] \notin DOMAIN RegisteredClaims}
  PROVE  Carriage'
<1>1. Carriers' = Carriers /\ \A n \in Carriers \ {0} : Carried(n)' = Carried(n)
  BY DEF Carriers, Carried, Opened
<1>2. 0 \in Carriers /\ Carried(0) = tree /\ Carried(0)' = tree'
  BY DEF Carriers, Carried
<1>3. \A n \in Carriers : Objects(Carried(n)') \subseteq Objects(Carried(n))
  BY <1>1, <1>2
<1>4. \A n \in Carriers' : /\ DOMAIN Carried(n)'.sd = Objects(Carried(n)')
                           /\ Objects(Carried(n)') \subseteq Path
  <2> SUFFICES ASSUME NEW n \in Carriers
               PROVE  /\ DOMAIN Carried(n)'.sd = Objects(Carried(n)')
                      /\ Objects(Carried(n)') \subseteq Path
    BY <1>1
  <2>1. DOMAIN Carried(n).sd = Objects(Carried(n)) /\ Objects(Carried(n)) \subseteq Path
    BY DEF Carriage
  <2>2. DOMAIN Carried(n)'.sd = Objects(Carried(n)')
    <3>1. CASE n = 0
      <4>1. Carried(n)' = tree'
        BY <1>2, <3>1
      <4> QED
        BY <4>1
    <3>2. CASE n # 0
      <4>1. Carried(n)' = Carried(n)
        BY <1>1, <3>2
      <4> QED
        BY <2>1, <4>1
    <3> QED
      BY <3>1, <3>2
  <2> QED
    BY <1>3, <2>1, <2>2
<1>5. \A n, m \in Carriers' : n # m => Objects(Carried(n)') \cap Objects(Carried(m)') = {}
  BY <1>1, <1>3 DEF Carriage
<1>6. \A o : /\ OnStack(o)' <=> OnStack(o)
             /\ Entered(o)' <=> Entered(o)
             /\ Left(o)' <=> Left(o)
  BY DEF OnStack, Entered, Left
<1>7. \A o : ~Dropped(o) /\ (Dropped(o)' <=> o # <<>> /\ o[1] \in DOMAIN RegisteredClaims)
  BY RegisteredNames DEF Dropped
<1>8. \A n \in Carriers' : \A o \in Objects(Carried(n)') :
        OnStack(o)' \/ \E h \in handled' : IsPrefix(h, o)
  BY <1>1, <1>3, <1>6 DEF Carriage
<1>9. \A o \in Structs(req) : o \in Objects(tree') <=> Entered(o)' /\ ~Left(o)' /\ ~Dropped(o)'
  BY <1>6, <1>7 DEF Carriage
<1>10. \A o \in Structs(req) : Entered(o)' /\ Left(o)' =>
         \E n \in Carriers' \ {0} : o \in Objects(Carried(n)')
  BY <1>1, <1>6 DEF Carriage
<1>11. \A n \in Carriers' \ {0} : \A o \in Structs(req) \cap Objects(Carried(n)') : Left(o)'
  BY <1>1, <1>6 DEF Carriage
<1> QED
  BY <1>4, <1>5, <1>8, <1>9, <1>10, <1>11 DEF Carriage, Objects, IsTree

-----------------------------------------------------------------------------
(* Values in the clear: old ones, objects, and what is below a claim that  *)
(* is handled now.                                                         *)
LEMMA ClearStep ==
  ASSUME Clear, UNCHANGED req, handled \subseteq handled',
         \A o \in Objects(tree') : \A k \in DOMAIN tree'.val[o] :
           \/ /\ o \in Objects(tree) /\ k \in DOMAIN tree.val[o]
              /\ tree'.val[o][k] = tree.val[o][k]
           \/ "claim" \notin DOMAIN tree'.val[o][k]
           \/ \E q \in handled' :
                /\ IsPrefix(q, tree'.val[o][k].claim) /\ req.kind[q] # "structured"
                /\ ~Selective(req, q) /\ tree'.val[o][k].claim \in Path
  PROVE  Clear'
<1>1. ASSUME NEW o \in Objects(tree'), NEW k \in DOMAIN tree'.val[o],
             "claim" \in DOMAIN tree'.val[o][k]
      PROVE  \E q \in handled' :
                /\ IsPrefix(q, tree'.val[o][k].claim) /\ req.kind[q] # "structured"
                /\ ~Selective(req, q) /\ tree'.val[o][k].claim \in Path
  BY <1>1, Zenon DEF Clear
<1> QED
  BY <1>1 DEF Clear, Objects

-----------------------------------------------------------------------------
(* What the objects hold.  Objects may move, and selective claims may be   *)
(* handled, without a change.                                              *)
LEMMA MoveContents ==
  ASSUME Contents, UNCHANGED req, handled \subseteq handled',
         \A p \in handled' \ handled : Selective(req, p), \A p : Dropped(p) => Dropped(p)',
         \A n \in Carriers' : \A o \in Structs(req) \cap Objects(Carried(n)') :
           \E m \in Carriers : o \in Objects(Carried(m)) /\ Carried(n)'.val[o] = Carried(m).val[o]
  PROVE  Contents'
<1>1. ASSUME NEW n \in Carriers', NEW o \in Structs(req) \cap Objects(Carried(n)'),
             NEW p \in Members(req, o), ~(o = <<>> /\ Dropped(p)')
      PROVE  /\ Last(p) \in DOMAIN Carried(n)'.val[o] <=> p \in handled' /\ ~Selective(req, p)
             /\ Last(p) \in DOMAIN Carried(n)'.val[o] => Carried(n)'.val[o][Last(p)] = Shown(req, p)
  <2>1. PICK m \in Carriers : o \in Objects(Carried(m)) /\ Carried(n)'.val[o] = Carried(m).val[o]
    OBVIOUS
  <2>2. /\ Last(p) \in DOMAIN Carried(m).val[o] <=> p \in handled /\ ~Selective(req, p)
        /\ Last(p) \in DOMAIN Carried(m).val[o] => Carried(m).val[o][Last(p)] = Shown(req, p)
    BY <1>1, <2>1 DEF Contents
  <2>3. p \in handled /\ ~Selective(req, p) <=> p \in handled' /\ ~Selective(req, p)
    OBVIOUS
  <2> QED
    BY <2>1, <2>2, <2>3
<1> QED
  BY <1>1 DEF Contents, Objects

(* A claim in the clear is put into its object.                            *)
LEMMA PutContents ==
  ASSUME Recursion, Contents, Carriage, ipc = "build", ipc' = "build", UNCHANGED <<req, discs>>,
         NEW p \in Processed(req), handled' = handled \cup {p}, ~Selective(req, p),
         Front(p) \in Objects(tree),
         NEW New, Objects(tree') = Objects(tree) \cup New, New \cap Structs(req) = {},
         \A o \in Objects(tree) : o # Front(p) => tree'.val[o] = tree.val[o],
         DOMAIN tree'.val[Front(p)] = DOMAIN tree.val[Front(p)] \cup {Last(p)},
         tree'.val[Front(p)][Last(p)] = Shown(req, p),
         \A x \in DOMAIN tree.val[Front(p)] : x # Last(p) =>
           tree'.val[Front(p)][x] = tree.val[Front(p)][x]
  PROVE  Contents'
<1>1. req \in Requests
  BY DEF Recursion
<1>2. Carriers' = Carriers /\ \A n \in Carriers \ {0} : Carried(n)' = Carried(n)
  BY DEF Carriers, Carried, Opened
<1>3. 0 \in Carriers /\ Carried(0) = tree /\ Carried(0)' = tree'
  BY DEF Carriers, Carried
<1>4. ASSUME NEW n \in Carriers', NEW o \in Structs(req) \cap Objects(Carried(n)'),
             NEW m \in Members(req, o)
      PROVE  /\ Last(m) \in DOMAIN Carried(n)'.val[o] <=> m \in handled' /\ ~Selective(req, m)
             /\ Last(m) \in DOMAIN Carried(n)'.val[o] => Carried(n)'.val[o][Last(m)] = Shown(req, m)
  <2>1. n \in Carriers /\ o \in Objects(Carried(n))
    BY <1>2, <1>3
  <2>2. /\ Last(m) \in DOMAIN Carried(n).val[o] <=> m \in handled /\ ~Selective(req, m)
        /\ Last(m) \in DOMAIN Carried(n).val[o] => Carried(n).val[o][Last(m)] = Shown(req, m)
    BY <2>1 DEF Contents, Dropped
  <2>3. Front(m) = o /\ m = Append(o, Last(m)) /\ p = Append(Front(p), Last(p))
    BY <1>1, MemberFacts, StructTree
  <2>4. CASE n = 0 /\ o = Front(p)
    <3>1. m = p <=> Last(m) = Last(p)
      BY <2>3, <2>4
    <3> QED
      BY <1>3, <2>2, <2>4, <3>1
  <2>5. CASE ~(n = 0 /\ o = Front(p))
    <3>1. o # Front(p)
      BY <1>3, <2>1, <2>5 DEF Carriage
    <3>2. Carried(n)'.val[o] = Carried(n).val[o] /\ m # p
      BY <1>2, <1>3, <2>1, <2>3, <3>1
    <3> QED
      BY <2>2, <3>2
  <2> QED
    BY <2>4, <2>5
<1> QED
  BY <1>4 DEF Contents, Objects

(* An object is empty when it is entered: none of its members is handled.  *)
LEMMA EnterContents ==
  ASSUME Recursion, Contents, UNCHANGED <<req, handled, discs>>, ipc = "build",
         NEW p \in Members(req, icur) \ handled,
         Objects(tree') = Objects(tree) \cup {p}, DOMAIN tree'.val[p] = {},
         \A o \in Objects(tree) \ {p} : tree'.val[o] = tree.val[o]
  PROVE  Contents'
<1>1. req \in Requests /\ icur \in Structs(req) /\ icur \in Path
  BY StructTree DEF Recursion
<1>2. Carriers' = Carriers /\ \A n \in Carriers \ {0} : Carried(n)' = Carried(n)
  BY DEF Carriers, Carried, Opened
<1>3. 0 \in Carriers /\ Carried(0) = tree /\ Carried(0)' = tree'
  BY DEF Carriers, Carried
<1>4. p \in Paths(req) /\ p \in Path /\ ~OnStack(p) /\ IsPrefix(p, p)
  BY <1>1, MemberFacts, PrefixOrder DEF OnStack
<1>5. \A m \in Members(req, p) : m \notin handled
  <2> SUFFICES ASSUME NEW m \in Members(req, p), m \in handled PROVE FALSE
    OBVIOUS
  <2>1. m \in Path /\ m # <<>> /\ Front(m) = p
    BY <1>1, RequestTree DEF Members
  <2>2. IsPrefix(p, m)
    BY <1>4, <2>1, PrefixFront
  <2> QED
    BY <1>4, <2>2 DEF Recursion, Entered
<1>6. ASSUME NEW n \in Carriers', NEW o \in Structs(req) \cap Objects(Carried(n)'),
             NEW m \in Members(req, o)
      PROVE  /\ Last(m) \in DOMAIN Carried(n)'.val[o] <=> m \in handled' /\ ~Selective(req, m)
             /\ Last(m) \in DOMAIN Carried(n)'.val[o] => Carried(n)'.val[o][Last(m)] = Shown(req, m)
  <2>1. CASE n = 0 /\ o = p
    BY <1>3, <1>5, <2>1
  <2>2. CASE ~(n = 0 /\ o = p)
    <3>1. n \in Carriers /\ o \in Objects(Carried(n)) /\ Carried(n)'.val[o] = Carried(n).val[o]
      BY <1>2, <1>3, <2>2
    <3>2. /\ Last(m) \in DOMAIN Carried(n).val[o] <=> m \in handled /\ ~Selective(req, m)
          /\ Last(m) \in DOMAIN Carried(n).val[o] => Carried(n).val[o][Last(m)] = Shown(req, m)
      BY <3>1 DEF Contents, Dropped
    <3> QED
      BY <3>1, <3>2
  <2> QED
    BY <2>1, <2>2
<1> QED
  BY <1>6 DEF Contents, Objects

(* The registered claims take the place of those of the same name.         *)
LEMMA RegisterContents ==
  ASSUME Recursion, Contents, UNCHANGED <<iopts, req, handled, discs>>, ipc = "claims", ipc' = "sign",
         <<>> \in Objects(tree), Objects(tree') \subseteq Objects(tree),
         tree'.val[<<>>] = Overlay(tree.val[<<>>], RegisteredClaims),
         \A o \in Objects(tree') : o # <<>> => tree'.val[o] = tree.val[o]
  PROVE  Contents'
<1>1. req \in Requests
  BY DEF Recursion
<1>2. Carriers' = Carriers /\ \A n \in Carriers \ {0} : Carried(n)' = Carried(n)
  BY DEF Carriers, Carried, Opened
<1>3. 0 \in Carriers /\ Carried(0) = tree /\ Carried(0)' = tree'
  BY DEF Carriers, Carried
<1>4. ASSUME NEW n \in Carriers', NEW o \in Structs(req) \cap Objects(Carried(n)'),
             NEW m \in Members(req, o), ~(o = <<>> /\ Dropped(m)')
      PROVE  /\ Last(m) \in DOMAIN Carried(n)'.val[o] <=> m \in handled' /\ ~Selective(req, m)
             /\ Last(m) \in DOMAIN Carried(n)'.val[o] => Carried(n)'.val[o][Last(m)] = Shown(req, m)
  <2>1. n \in Carriers /\ o \in Objects(Carried(n))
    BY <1>2, <1>3
  <2>2. /\ Last(m) \in DOMAIN Carried(n).val[o] <=> m \in handled /\ ~Selective(req, m)
        /\ Last(m) \in DOMAIN Carried(n).val[o] => Carried(n).val[o][Last(m)] = Shown(req, m)
    BY <2>1 DEF Contents, Dropped
  <2>3. CASE n = 0 /\ o = <<>>
    <3>1. m # <<>> /\ m = Append(<<>>, Last(m)) /\ m \in Path /\ Last(m) \in STRING
      BY <1>1, <2>3, MemberFacts, FrontLast
    <3>2. m[1] = Last(m)
      BY <3>1
    <3>3. m[1] \notin DOMAIN RegisteredClaims
      BY <1>4, <2>3, <3>1, RegisteredNames DEF Dropped
    <3>4. /\ Last(m) \in DOMAIN tree'.val[<<>>] <=> Last(m) \in DOMAIN tree.val[<<>>]
          /\ Last(m) \in DOMAIN tree.val[<<>>] => tree'.val[<<>>][Last(m)] = tree.val[<<>>][Last(m)]
      BY <3>2, <3>3 DEF Overlay
    <3> QED
      BY <1>3, <2>2, <2>3, <3>4
  <2>4. CASE ~(n = 0 /\ o = <<>>)
    <3>1. Carried(n)'.val[o] = Carried(n).val[o]
      BY <1>2, <1>3, <2>4
    <3> QED
      BY <2>2, <3>1
  <2> QED
    BY <2>3, <2>4
<1> QED
  BY <1>4 DEF Contents, Objects

-----------------------------------------------------------------------------
(* The digests.  Objects come and go, with the _sd arrays they have.       *)
LEMMA SameDigests ==
  ASSUME Digests, UNCHANGED <<iopts, discs>>, ipc' = "build" <=> ipc = "build", NEW New,
         \A o \in Objects(tree') : \/ o \in Objects(tree) /\ tree'.sd[o] = tree.sd[o]
                                   \/ o \in New /\ tree'.sd[o] = <<>>,
         \A i \in DOMAIN discs : Front(Of(i)) \notin New,
         ipc # "build" => tree'.sd[<<>>] = tree.sd[<<>>]
  PROVE  Digests'
<1>1. Carriers' = Carriers /\ \A n \in Carriers \ {0} : Carried(n)' = Carried(n)
  BY DEF Carriers, Carried, Opened
<1>2. 0 \in Carriers /\ Carried(0) = tree /\ Carried(0)' = tree'
  BY DEF Carriers, Carried
<1>3. \A i : Of(i)' = Of(i)
  BY DEF Of, Opened
<1>4. SDAlgFromHash(iopts'.hashAlg) # Nil
  BY DEF Digests
<1>5. ASSUME NEW n \in Carriers', NEW o \in Objects(Carried(n)')
      PROVE  /\ Carried(n)'.sd[o] \in Seq(ToSet(Carried(n)'.sd[o]))
             /\ \A j \in DOMAIN Carried(n)'.sd[o] :
                  Real(n, o, j)' \/ (n = 0 /\ o = <<>> /\ ipc' # "build" /\ Decoy(n, o, j)')
             /\ \A j, k \in DOMAIN Carried(n)'.sd[o] :
                  Carried(n)'.sd[o][j] = Carried(n)'.sd[o][k] => j = k
  <2>1. CASE n = 0 /\ tree'.sd[o] = <<>>
    <3>1. Carried(n)'.sd[o] = <<>> /\ DOMAIN Carried(n)'.sd[o] = {}
      BY <1>2, <2>1
    <3> QED
      BY <3>1
  <2>2. CASE ~(n = 0 /\ tree'.sd[o] = <<>>)
    <3>1. n \in Carriers /\ o \in Objects(Carried(n)) /\ Carried(n)'.sd[o] = Carried(n).sd[o]
      BY <1>1, <1>2, <2>2
    <3>2. /\ Carried(n).sd[o] \in Seq(ToSet(Carried(n).sd[o]))
          /\ \A j \in DOMAIN Carried(n).sd[o] :
               Real(n, o, j) \/ (n = 0 /\ o = <<>> /\ ipc # "build" /\ Decoy(n, o, j))
          /\ \A j, k \in DOMAIN Carried(n).sd[o] :
               Carried(n).sd[o][j] = Carried(n).sd[o][k] => j = k
      BY <3>1 DEF Digests
    <3>3. \A j : (Real(n, o, j)' <=> Real(n, o, j)) /\ (Decoy(n, o, j)' <=> Decoy(n, o, j))
      BY <1>3, <3>1 DEF Real, Decoy
    <3> QED
      BY <3>1, <3>2, <3>3
  <2> QED
    BY <2>1, <2>2
<1>6. ASSUME NEW i \in DOMAIN discs', NEW n \in Carriers', Front(Of(i)') \in Objects(Carried(n)')
      PROVE  \E j \in DOMAIN Carried(n)'.sd[Front(Of(i)')] :
               Carried(n)'.sd[Front(Of(i)')][j] = Digest(iopts'.hashAlg, discs'[i])
  <2>1. /\ n \in Carriers /\ Front(Of(i)) \in Objects(Carried(n))
        /\ Carried(n)'.sd[Front(Of(i))] = Carried(n).sd[Front(Of(i))]
    BY <1>1, <1>2, <1>3, <1>6
  <2>2. \E j \in DOMAIN Carried(n).sd[Front(Of(i))] :
          Carried(n).sd[Front(Of(i))][j] = Digest(iopts.hashAlg, discs[i])
    BY <2>1 DEF Digests
  <2> QED
    BY <1>3, <2>1, <2>2
<1>7. ipc' # "build" =>
        LET m == Len(tree'.sd[<<>>]) - iopts'.decoyCount
        IN  m \in Nat /\ \A j \in DOMAIN tree'.sd[<<>>] : Decoy(0, <<>>, j)' <=> j > m
  <2> SUFFICES ASSUME ipc' # "build"
               PROVE  LET m == Len(tree'.sd[<<>>]) - iopts'.decoyCount
                      IN  m \in Nat /\ \A j \in DOMAIN tree'.sd[<<>>] : Decoy(0, <<>>, j)' <=> j > m
    OBVIOUS
  <2>1. \A j : Decoy(0, <<>>, j)' <=> Decoy(0, <<>>, j)
    BY <1>2 DEF Decoy
  <2> QED
    BY <2>1 DEF Digests
<1> QED
  BY <1>4, <1>5, <1>6, <1>7 DEF Digests, Objects

(* What Disclose leaves of the tree, and what it adds to one _sd array.    *)
LEMMA DiscloseTree ==
  ASSUME NEW p, NEW value, NEW rest, IsTree(rest), DOMAIN rest.sd = Objects(rest),
         Front(p) \in Objects(rest), Disclose(p, value, rest)
  PROVE  /\ IsTree(tree') /\ Objects(tree') = Objects(rest) /\ tree'.val = rest.val
         /\ DOMAIN tree'.sd = Objects(tree')
         /\ tree'.sd[Front(p)] =
              Append(rest.sd[Front(p)],
                     Digest(iopts.hashAlg, Encode(Disclosure(fresh, Last(p), value))))
         /\ \A o \in Objects(rest) : o # Front(p) => tree'.sd[o] = rest.sd[o]
<1>1. PICK dig : dig = Digest(iopts.hashAlg, Encode(Disclosure(fresh, Last(p), value)))
  OBVIOUS
<1>2. tree' = [rest EXCEPT !.sd[Front(p)] = Append(@, dig)]
  BY <1>1 DEF Disclose
<1>3. PICK V, S : rest = [val |-> V, sd |-> S] /\ rest.val = V /\ rest.sd = S
  BY DEF IsTree
<1>4. PICK W : W = [S EXCEPT ![Front(p)] = Append(S[Front(p)], dig)]
  OBVIOUS
<1>5. tree' = [val |-> V, sd |-> W]
  BY <1>2, <1>3, <1>4
<1>6. DOMAIN W = DOMAIN S /\ W[Front(p)] = Append(S[Front(p)], dig)
  BY <1>3, <1>4
<1>7. \A o \in DOMAIN S : o # Front(p) => W[o] = S[o]
  BY <1>4
<1>8. tree'.val = V /\ tree'.sd = W
  BY <1>5
<1> QED
  BY <1>1, <1>3, <1>5, <1>6, <1>7, <1>8 DEF IsTree, Objects

(* A sequence is one over its elements.                                    *)
LEMMA SeqOfItself ==
  ASSUME NEW S, NEW t \in Seq(S)
  PROVE  t \in Seq(ToSet(t))
<1>1. PICK n \in Nat : t \in [1 .. n -> S]
  OBVIOUS
<1>2. t \in [1 .. n -> ToSet(t)]
  BY <1>1 DEF ToSet
<1> QED
  BY <1>2

(* A sequence t that is s, of length N, and e at its end.                  *)
Grown(s, e, t, N) ==
  /\ N = Len(s) /\ DOMAIN s = 1 .. N /\ DOMAIN t = (1 .. N) \cup {N + 1}
  /\ N + 1 \notin 1 .. N /\ t[N + 1] = e /\ \A i \in 1 .. N : t[i] = s[i]
  /\ t \in Seq(ToSet(t))

(* Append makes one.                                                       *)
LEMMA Appended ==
  ASSUME NEW s, s \in Seq(ToSet(s)), NEW e
  PROVE  \E N \in Nat : Grown(s, e, Append(s, e), N)
<1>1. PICK N \in Nat : N = Len(s) /\ DOMAIN s = 1 .. N
  OBVIOUS
<1>2. PICK S : s \in Seq(S) /\ e \in S
  <2>1. s \in Seq(ToSet(s) \cup {e})
    OBVIOUS
  <2> QED
    BY <2>1
<1>3. PICK t : t = Append(s, e)
  OBVIOUS
<1>4. /\ Len(t) = N + 1 /\ DOMAIN t = 1 .. N + 1 /\ t \in Seq(S)
      /\ t[N + 1] = e /\ \A i \in 1 .. N : t[i] = s[i]
  BY <1>1, <1>2, <1>3
<1>5. t \in Seq(ToSet(t))
  BY <1>4, SeqOfItself
<1>6. 1 .. N + 1 = (1 .. N) \cup {N + 1} /\ N + 1 \notin 1 .. N
  OBVIOUS
<1>7. Grown(s, e, t, N)
  BY <1>1, <1>4, <1>5, <1>6 DEF Grown
<1> QED
  BY <1>3, <1>7

(* The digest of a new disclosure is new.                                  *)
LEMMA DiscloseDigests ==
  ASSUME Disclosures, Digests, ipc = "build", ipc' = "build", UNCHANGED iopts,
         NEW p, p \notin handled, NEW value, value.claim = p,
         NEW rest, IsTree(rest), DOMAIN rest.sd = Objects(rest), Front(p) \in Objects(rest),
         Disclose(p, value, rest),
         \A o \in Objects(rest) : o \in Objects(tree) /\ rest.sd[o] = tree.sd[o],
         "nested" \in DOMAIN value => \A o \in Objects(value.nested) :
           o \in Objects(tree) /\ value.nested.sd[o] = tree.sd[o],
         \A n \in Carriers' \ {0} : Front(p) \notin Objects(Carried(n)')
  PROVE  Digests'
<1> DEFINE enc == Encode(Disclosure(fresh, Last(p), value))
           dig == Digest(iopts.hashAlg, enc)
           Known(e, o) == \E i \in DOMAIN discs : e = Digest(iopts.hashAlg, discs[i]) /\ Front(Of(i)) = o
<1>1. PICK N \in Nat :
        /\ N = Len(discs) /\ DOMAIN discs = 1 .. N /\ DOMAIN discs' = 1 .. N + 1
        /\ \A i \in 1 .. N : discs'[i] = discs[i] /\ Opened(i)' = Opened(i)
        /\ Opened(N + 1)'.Value = value
        /\ \A n \in 1 .. N + 1 : n \in Carriers' <=>
             n \in Carriers \/ (n = N + 1 /\ "nested" \in DOMAIN value)
        /\ Carriers \subseteq 0 .. N /\ Carriers' \subseteq 0 .. N + 1
        /\ 0 \in Carriers /\ 0 \in Carriers' /\ N + 1 \notin Carriers
        /\ \A n \in 1 .. N : Carried(n)' = Carried(n)
        /\ Carried(N + 1)' = value.nested
        /\ Carried(0) = tree /\ Carried(0)' = tree'
  BY DiscloseFacts DEF Disclosures
<1>2. 1 .. N + 1 = (1 .. N) \cup {N + 1} /\ N + 1 \notin 1 .. N
  OBVIOUS
<1>3. (\A i \in 1 .. N : Of(i)' = Of(i)) /\ Of(N + 1)' = p
  BY <1>1 DEF Of
<1>4. discs'[N + 1] = enc
  <2>1. PICK e, ds : e = enc /\ ds = discs /\ discs' = Append(ds, e) /\ ds \in Seq(ToSet(ds))
    BY DEF Disclose, Disclosures
  <2>2. PICK M \in Nat : Grown(ds, e, Append(ds, e), M)
    BY <2>1, Appended
  <2>3. Grown(ds, e, discs', M)
    BY <2>1, <2>2
  <2> QED
    BY <1>1, <2>1, <2>3 DEF Grown
<1>5. /\ Objects(tree') = Objects(rest) /\ tree'.sd[Front(p)] = Append(rest.sd[Front(p)], dig)
      /\ \A o \in Objects(rest) : o # Front(p) => tree'.sd[o] = rest.sd[o]
  BY DiscloseTree
<1> HIDE DEF enc, dig
<1>6. ASSUME NEW n \in Carriers', NEW o \in Objects(Carried(n)'), ~(n = 0 /\ o = Front(p))
      PROVE  \E m \in Carriers : o \in Objects(Carried(m)) /\ Carried(n)'.sd[o] = Carried(m).sd[o]
  <2>1. CASE n = 0
    BY <1>1, <1>5, <1>6, <2>1
  <2>2. CASE n = N + 1
    <3>1. "nested" \in DOMAIN value /\ Carried(n)' = value.nested
      BY <1>1, <1>2, <2>2
    <3> QED
      BY <1>1, <3>1
  <2>3. CASE n # 0 /\ n # N + 1
    <3>1. n \in 1 .. N
      BY <1>1, <2>3
    <3> QED
      BY <1>1, <1>2, <3>1
  <2> QED
    BY <2>1, <2>2, <2>3
<1>7. \A m \in Carriers : \A o \in Objects(Carried(m)) :
        /\ Carried(m).sd[o] \in Seq(ToSet(Carried(m).sd[o]))
        /\ \A j \in DOMAIN Carried(m).sd[o] : Known(Carried(m).sd[o][j], o)
        /\ \A j, k \in DOMAIN Carried(m).sd[o] : Carried(m).sd[o][j] = Carried(m).sd[o][k] => j = k
  BY DEF Digests, Real
<1>8. ASSUME NEW e, NEW o, Known(e, o)
      PROVE  \E i \in DOMAIN discs' : e = Digest(iopts'.hashAlg, discs'[i]) /\ Front(Of(i)') = o
  <2>1. PICK i \in 1 .. N : e = Digest(iopts.hashAlg, discs[i]) /\ Front(Of(i)) = o
    BY <1>1, <1>8
  <2> QED
    BY <1>1, <1>2, <1>3, <2>1
<1>9. ASSUME NEW o PROVE ~Known(dig, o)
  <2> SUFFICES ASSUME NEW i \in DOMAIN discs, dig = Digest(iopts.hashAlg, discs[i]) PROVE FALSE
    OBVIOUS
  <2>1. discs[i] = enc
    BY DEF dig, Digest
  <2>2. Opened(i).Value = value
    BY <2>1, ParseEncode DEF Opened, enc
  <2>3. Of(i) = p /\ Of(i) \in handled
    BY <2>2 DEF Of, Disclosures
  <2> QED
    BY <2>3
<1>10. PICK old : old = rest.sd[Front(p)] /\ old \in Seq(ToSet(old))
          /\ (\A j \in DOMAIN old : Known(old[j], Front(p)))
          /\ (\A j, k \in DOMAIN old : old[j] = old[k] => j = k)
  <2>1. rest.sd[Front(p)] = tree.sd[Front(p)] /\ Front(p) \in Objects(tree)
    OBVIOUS
  <2> QED
    BY <1>1, <1>7, <2>1
<1>11. PICK d, new : d = dig /\ new = Append(old, d) /\ new = tree'.sd[Front(p)]
  BY <1>5, <1>10
<1>12. PICK M \in Nat : /\ DOMAIN old = 1 .. M /\ DOMAIN new = (1 .. M) \cup {M + 1}
                        /\ M + 1 \notin 1 .. M /\ new[M + 1] = d
                        /\ \A i \in 1 .. M : new[i] = old[i]
                        /\ new \in Seq(ToSet(new))
  <2>1. PICK M \in Nat : Grown(old, d, Append(old, d), M)
    BY <1>10, Appended
  <2>2. Grown(old, d, new, M)
    BY <1>11, <2>1
  <2> QED
    BY <2>2 DEF Grown
<1>13. dig = Digest(iopts'.hashAlg, discs'[N + 1]) /\ N + 1 \in DOMAIN discs'
  BY <1>1, <1>4 DEF dig
<1> HIDE DEF Known
<1>14. ASSUME NEW n \in Carriers', NEW o \in Objects(Carried(n)')
       PROVE  /\ Carried(n)'.sd[o] \in Seq(ToSet(Carried(n)'.sd[o]))
              /\ \A j \in DOMAIN Carried(n)'.sd[o] : Real(n, o, j)'
              /\ \A j, k \in DOMAIN Carried(n)'.sd[o] :
                   Carried(n)'.sd[o][j] = Carried(n)'.sd[o][k] => j = k
  <2>1. CASE n = 0 /\ o = Front(p)
    <3>1. Carried(n)'.sd[o] = new
      BY <1>1, <1>11, <2>1
    <3>2. Carried(n)'.sd[o] \in Seq(ToSet(Carried(n)'.sd[o]))
      BY <1>12, <3>1
    <3>3. ASSUME NEW j \in DOMAIN Carried(n)'.sd[o] PROVE Real(n, o, j)'
      <4>1. CASE j \in 1 .. M
        <5>1. Known(Carried(n)'.sd[o][j], o)
          BY <1>10, <1>11, <1>12, <2>1, <3>1, <4>1
        <5> QED
          BY <1>8, <5>1 DEF Real
      <4>2. CASE j = M + 1
        <5>1. Carried(n)'.sd[o][j] = dig /\ Front(Of(N + 1)') = o
          BY <1>3, <1>11, <1>12, <2>1, <3>1, <4>2
        <5> QED
          BY <1>13, <5>1 DEF Real
      <4> QED
        BY <1>11, <1>12, <3>1, <4>1, <4>2
    <3>4. \A j \in 1 .. M : new[j] # dig
      BY <1>9, <1>10, <1>11, <1>12
    <3>5. \A j, k \in DOMAIN Carried(n)'.sd[o] :
            Carried(n)'.sd[o][j] = Carried(n)'.sd[o][k] => j = k
      BY <1>10, <1>11, <1>12, <3>1, <3>4
    <3> QED
      BY <3>2, <3>3, <3>5
  <2>2. CASE ~(n = 0 /\ o = Front(p))
    <3>1. PICK m \in Carriers : o \in Objects(Carried(m)) /\ Carried(n)'.sd[o] = Carried(m).sd[o]
      BY <1>6, <2>2
    <3>2. \A j \in DOMAIN Carried(n)'.sd[o] : Known(Carried(n)'.sd[o][j], o)
      BY <1>7, <3>1
    <3>3. \A j \in DOMAIN Carried(n)'.sd[o] : Real(n, o, j)'
      BY <1>8, <3>2 DEF Real
    <3> QED
      BY <1>7, <3>1, <3>3
  <2> QED
    BY <2>1, <2>2
<1>15. ASSUME NEW i \in DOMAIN discs', NEW n \in Carriers', Front(Of(i)') \in Objects(Carried(n)')
       PROVE  \E j \in DOMAIN Carried(n)'.sd[Front(Of(i)')] :
                Carried(n)'.sd[Front(Of(i)')][j] = Digest(iopts'.hashAlg, discs'[i])
  <2>1. CASE i = N + 1
    <3>1. n = 0 /\ Front(Of(i)') = Front(p)
      BY <1>3, <1>15, <2>1
    <3> QED
      BY <1>1, <1>11, <1>12, <1>13, <2>1, <3>1
  <2>2. CASE i \in 1 .. N
    <3>1. /\ Of(i)' = Of(i) /\ discs'[i] = discs[i] /\ i \in DOMAIN discs
          /\ Front(Of(i)) \in Objects(Carried(n)')
      BY <1>1, <1>3, <1>15, <2>2
    <3>2. \A m \in Carriers : Front(Of(i)) \in Objects(Carried(m)) =>
            \E j \in DOMAIN Carried(m).sd[Front(Of(i))] :
              Carried(m).sd[Front(Of(i))][j] = Digest(iopts.hashAlg, discs[i])
      BY <3>1 DEF Digests
    <3>3. CASE n = 0 /\ Front(Of(i)) = Front(p)
      <4>1. old = Carried(0).sd[Front(Of(i))] /\ Front(Of(i)) \in Objects(Carried(0))
        BY <1>1, <1>10, <3>3
      <4>2. PICK j \in DOMAIN old : old[j] = Digest(iopts.hashAlg, discs[i])
        BY <1>1, <3>2, <4>1
      <4> QED
        BY <1>1, <1>11, <1>12, <3>1, <3>3, <4>2
    <3>4. CASE ~(n = 0 /\ Front(Of(i)) = Front(p))
      <4>1. PICK m \in Carriers : /\ Front(Of(i)) \in Objects(Carried(m))
                                  /\ Carried(n)'.sd[Front(Of(i))] = Carried(m).sd[Front(Of(i))]
        BY <1>6, <3>1, <3>4
      <4> QED
        BY <3>1, <3>2, <4>1
    <3> QED
      BY <3>3, <3>4
  <2> QED
    BY <1>1, <1>2, <2>1, <2>2
<1>16. SDAlgFromHash(iopts'.hashAlg) # Nil
  BY DEF Digests
<1> QED
  BY <1>14, <1>15, <1>16 DEF Digests, Objects

(* A sequence t that is s, of length N, and then d, of length K.           *)
Joined(s, d, t, N, K) ==
  /\ DOMAIN s = 1 .. N /\ DOMAIN t = 1 .. N + K /\ Len(t) = N + K
  /\ \A i \in 1 .. N : t[i] = s[i]
  /\ \A i \in 1 .. N + K : i > N => t[i] = d[i - N] /\ i - N \in 1 .. K
  /\ t \in Seq(ToSet(t))

(* Concatenation makes one.                                                *)
LEMMA Concatenated ==
  ASSUME NEW s, s \in Seq(ToSet(s)), NEW K \in Nat, NEW T, NEW d \in [1 .. K -> T]
  PROVE  \E N \in Nat : Joined(s, d, s \o d, N, K)
<1>1. PICK N \in Nat : N = Len(s) /\ DOMAIN s = 1 .. N
  OBVIOUS
<1>2. PICK S : s \in Seq(S) /\ d \in Seq(S) /\ Len(d) = K
  <2>1. s \in Seq(ToSet(s) \cup T) /\ d \in Seq(ToSet(s) \cup T) /\ Len(d) = K
    OBVIOUS
  <2> QED
    BY <2>1
<1>3. PICK t : t = s \o d
  OBVIOUS
<1>4. t \in Seq(S) /\ Len(t) = N + K
  <2>1. s \o d \in Seq(S) /\ Len(s \o d) = Len(s) + Len(d)
    BY <1>2, ConcatProperties, Zenon
  <2> QED
    BY <1>1, <1>2, <1>3, <2>1
<1>5. \A i \in 1 .. N + K : t[i] = IF i <= N THEN s[i] ELSE d[i - N]
  BY <1>1, <1>2, <1>3
<1>6. DOMAIN t = 1 .. N + K
  BY <1>1, <1>4
<1>7. t \in Seq(ToSet(t))
  BY <1>4, SeqOfItself
<1>8. \A i \in 1 .. N : t[i] = s[i]
  BY <1>5
<1>9. \A i \in 1 .. N + K : i > N => t[i] = d[i - N] /\ i - N \in 1 .. K
  BY <1>5
<1>10. Joined(s, d, t, N, K)
  BY <1>1, <1>4, <1>6, <1>7, <1>8, <1>9 DEF Joined
<1> QED
  BY <1>3, <1>10

(* A tree is made of its parts.                                            *)
LEMMA TreeParts ==
  \A V, S : /\ [val |-> V, sd |-> S].val = V /\ [val |-> V, sd |-> S].sd = S
            /\ IsTree([val |-> V, sd |-> S])
BY DEF IsTree

(* Decoys come last in the _sd array of the payload, each different from   *)
(* every other digest: their random values are new, and no hash algorithm  *)
(* that Issue accepts makes one.                                           *)
LEMMA DecoyDigests ==
  ASSUME Digests, Carriage, ipc = "build", ipc' # "build", UNCHANGED <<iopts, discs>>,
         <<>> \in Objects(tree), fresh \in Nat, iopts.decoyCount \in Nat,
         tree' = [tree EXCEPT !.sd[<<>>] =
                    @ \o [i \in 1 .. iopts.decoyCount |-> <<"decoy", fresh + i - 1>>]]
  PROVE  /\ IsTree(tree') /\ Objects(tree') = Objects(tree) /\ tree'.val = tree.val
         /\ DOMAIN tree'.sd = Objects(tree')
         /\ Digests'
<1>1. PICK K \in Nat : K = iopts.decoyCount
  OBVIOUS
<1>2. PICK d : d = [i \in 1 .. K |-> <<"decoy", fresh + i - 1>>]
  OBVIOUS
<1>3. /\ \A i \in 1 .. K : d[i] = <<"decoy", fresh + i - 1>>
      /\ d \in [1 .. K -> {d[i] : i \in 1 .. K}]
  BY <1>2
<1>4. PICK V, S : tree = [val |-> V, sd |-> S] /\ tree.val = V /\ tree.sd = S
  BY DEF Carriage, IsTree
<1>5. 0 \in Carriers /\ Carried(0) = tree /\ Carried(0)' = tree'
  BY DEF Carriers, Carried
<1>6. DOMAIN S = Objects(tree) /\ DOMAIN V = Objects(tree)
  BY <1>4, <1>5 DEF Carriage, Objects
<1>7. PICK W : W = [S EXCEPT ![<<>>] = S[<<>>] \o d]
  OBVIOUS
<1>8. tree' = [val |-> V, sd |-> W]
  <2>1. tree' = [tree EXCEPT !.sd[<<>>] = @ \o d]
    BY <1>1, <1>2, Zenon
  <2>2. PICK e : e = S[<<>>] \o d /\ W = [S EXCEPT ![<<>>] = e]
    BY <1>7
  <2>3. tree' = [tree EXCEPT !.sd[<<>>] = e]
    BY <1>4, <2>1, <2>2, Zenon
  <2> QED
    BY <1>4, <2>2, <2>3
<1>9. /\ tree'.val = V /\ tree'.sd = W /\ IsTree(tree') /\ Objects(tree') = Objects(tree)
      /\ DOMAIN W = DOMAIN S
  <2>1. DOMAIN W = DOMAIN S
    BY <1>7
  <2>2. tree'.val = V /\ tree'.sd = W /\ IsTree(tree')
    <3>1. PICK T : T.val = V /\ T.sd = W /\ IsTree(T) /\ T = [val |-> V, sd |-> W]
      BY TreeParts, Zenon
    <3>2. T = tree'
      BY <1>8, <3>1, Zenon
    <3> QED
      BY <3>1, <3>2, Zenon
  <2> QED
    BY <1>4, <2>1, <2>2, Zenon DEF Objects
<1>10. PICK old, new : /\ old = S[<<>>] /\ new = old \o d /\ W[<<>>] = new
                       /\ \A o \in DOMAIN S : o # <<>> => W[o] = S[o]
  BY <1>6, <1>7
<1>11. /\ old \in Seq(ToSet(old))
       /\ \A j \in DOMAIN old : Real(0, <<>>, j)
       /\ \A j, k \in DOMAIN old : old[j] = old[k] => j = k
  BY <1>4, <1>5, <1>10 DEF Digests
<1>12. PICK N \in Nat : Joined(old, d, new, N, K)
  <2>1. PICK N \in Nat : Joined(old, d, old \o d, N, K)
    BY <1>3, <1>11, Concatenated
  <2> QED
    BY <1>10, <2>1
<1>13. Carriers' = Carriers /\ \A n \in Carriers \ {0} : Carried(n)' = Carried(n)
  BY DEF Carriers, Carried, Opened
<1>14. \A i : Of(i)' = Of(i)
  BY DEF Of, Opened
<1>15. SDAlgFromHash(iopts'.hashAlg) # Nil /\ iopts.hashAlg # "decoy"
  BY DEF Digests, SDAlgFromHash
<1>16. /\ \A j \in 1 .. N : new[j] = old[j] /\ new[j][1] # "decoy" /\ Real(0, <<>>, j)'
       /\ \A j \in 1 .. N : j \in DOMAIN old
  <2> SUFFICES ASSUME NEW j \in 1 .. N
               PROVE  new[j] = old[j] /\ new[j][1] # "decoy" /\ Real(0, <<>>, j)' /\ j \in DOMAIN old
    OBVIOUS
  <2>1. new[j] = old[j] /\ j \in DOMAIN old
    BY <1>12 DEF Joined
  <2>2. PICK i \in DOMAIN discs : old[j] = Digest(iopts.hashAlg, discs[i]) /\ Front(Of(i)) = <<>>
    BY <1>4, <1>5, <1>10, <1>11, <2>1 DEF Real
  <2>3. old[j][1] = iopts.hashAlg
    BY <2>2 DEF Digest
  <2>4. Carried(0)'.sd[<<>>][j] = old[j]
    BY <1>5, <1>9, <1>10, <2>1
  <2>5. Real(0, <<>>, j)'
    BY <1>14, <2>2, <2>4 DEF Real
  <2> QED
    BY <1>15, <2>1, <2>3, <2>5
<1>17. \A j \in 1 .. N + K : j > N => /\ new[j] = <<"decoy", fresh + (j - N) - 1>>
                                      /\ Decoy(0, <<>>, j)'
  <2> SUFFICES ASSUME NEW j \in 1 .. N + K, j > N
               PROVE  new[j] = <<"decoy", fresh + (j - N) - 1>> /\ Decoy(0, <<>>, j)'
    OBVIOUS
  <2>1. new[j] = d[j - N] /\ j - N \in 1 .. K
    BY <1>12 DEF Joined
  <2>2. new[j] = <<"decoy", fresh + (j - N) - 1>>
    BY <1>3, <2>1
  <2>3. Carried(0)'.sd[<<>>][j] = new[j]
    BY <1>5, <1>9, <1>10
  <2> QED
    BY <2>2, <2>3 DEF Decoy
<1>18. DOMAIN new = 1 .. N + K /\ Len(new) = N + K /\ new \in Seq(ToSet(new)) /\ DOMAIN old = 1 .. N
  BY <1>12 DEF Joined
<1>19. \A j, k \in 1 .. N + K : new[j] = new[k] => j = k
  <2> SUFFICES ASSUME NEW j \in 1 .. N + K, NEW k \in 1 .. N + K, new[j] = new[k] PROVE j = k
    OBVIOUS
  <2>1. CASE j <= N /\ k <= N
    <3>1. j \in 1 .. N /\ k \in 1 .. N
      BY <2>1
    <3> QED
      BY <1>11, <1>16, <3>1
  <2>2. CASE j > N /\ k > N
    <3>1. fresh + (j - N) - 1 = fresh + (k - N) - 1
      <4>1. <<"decoy", fresh + (j - N) - 1>> = <<"decoy", fresh + (k - N) - 1>>
        BY <1>17, <2>2
      <4> QED
        BY <4>1
    <3> QED
      BY <3>1
  <2>3. CASE ~(j <= N <=> k <= N)
    <3>1. \A i \in 1 .. N + K : i <= N => new[i][1] # "decoy"
      <4> SUFFICES ASSUME NEW i \in 1 .. N + K, i <= N PROVE new[i][1] # "decoy"
        OBVIOUS
      <4>1. i \in 1 .. N
        OBVIOUS
      <4> QED
        BY <1>16, <4>1
    <3>2. \A i \in 1 .. N + K : i > N => new[i][1] = "decoy"
      BY <1>17
    <3> QED
      BY <2>3, <3>1, <3>2
  <2> QED
    BY <2>1, <2>2, <2>3
<1>20. ASSUME NEW n \in Carriers', NEW o \in Objects(Carried(n)')
       PROVE  /\ Carried(n)'.sd[o] \in Seq(ToSet(Carried(n)'.sd[o]))
              /\ \A j \in DOMAIN Carried(n)'.sd[o] :
                   Real(n, o, j)' \/ (n = 0 /\ o = <<>> /\ ipc' # "build" /\ Decoy(n, o, j)')
              /\ \A j, k \in DOMAIN Carried(n)'.sd[o] :
                   Carried(n)'.sd[o][j] = Carried(n)'.sd[o][k] => j = k
  <2>1. CASE n = 0 /\ o = <<>>
    <3>1. Carried(n)'.sd[o] = new
      BY <1>5, <1>9, <1>10, <2>1
    <3>2. ASSUME NEW j \in 1 .. N + K PROVE Real(n, o, j)' \/ Decoy(n, o, j)'
      <4>1. j \in 1 .. N \/ j > N
        OBVIOUS
      <4> QED
        BY <1>16, <1>17, <2>1, <4>1
    <3>3. DOMAIN Carried(n)'.sd[o] = 1 .. N + K
      BY <1>18, <3>1
    <3>4. Carried(n)'.sd[o] \in Seq(ToSet(Carried(n)'.sd[o]))
      BY <1>18, <3>1
    <3>5. \A j \in DOMAIN Carried(n)'.sd[o] :
            Real(n, o, j)' \/ (n = 0 /\ o = <<>> /\ ipc' # "build" /\ Decoy(n, o, j)')
      BY <2>1, <3>2, <3>3
    <3>6. \A j, k \in DOMAIN Carried(n)'.sd[o] :
            Carried(n)'.sd[o][j] = Carried(n)'.sd[o][k] => j = k
      BY <1>19, <3>1, <3>3
    <3> QED
      BY <3>4, <3>5, <3>6
  <2>2. CASE ~(n = 0 /\ o = <<>>)
    <3>1. n \in Carriers /\ o \in Objects(Carried(n)) /\ Carried(n)'.sd[o] = Carried(n).sd[o]
      <4>1. CASE n = 0
        <5>1. o \in Objects(tree) /\ o \in DOMAIN S /\ o # <<>>
          BY <1>5, <1>6, <1>9, <2>2, <4>1
        <5>2. W[o] = S[o]
          BY <1>10, <5>1
        <5> QED
          BY <1>4, <1>5, <1>9, <4>1, <5>1, <5>2
      <4>2. CASE n # 0
        BY <1>13, <4>2
      <4> QED
        BY <4>1, <4>2
    <3>2. \A j : Real(n, o, j)' <=> Real(n, o, j)
      BY <1>14, <3>1 DEF Real
    <3> QED
      BY <3>1, <3>2 DEF Digests
  <2> QED
    BY <2>1, <2>2
<1>21. ASSUME NEW i \in DOMAIN discs', NEW n \in Carriers', Front(Of(i)') \in Objects(Carried(n)')
       PROVE  \E j \in DOMAIN Carried(n)'.sd[Front(Of(i)')] :
                Carried(n)'.sd[Front(Of(i)')][j] = Digest(iopts'.hashAlg, discs'[i])
  <2>1. n \in Carriers /\ Front(Of(i)) \in Objects(Carried(n))
    BY <1>5, <1>9, <1>13, <1>14, <1>21
  <2>2. PICK j \in DOMAIN Carried(n).sd[Front(Of(i))] :
          Carried(n).sd[Front(Of(i))][j] = Digest(iopts.hashAlg, discs[i])
    BY <2>1 DEF Digests
  <2>3. CASE n = 0 /\ Front(Of(i)) = <<>>
    <3>1. j \in 1 .. N /\ old[j] = Digest(iopts.hashAlg, discs[i])
      BY <1>4, <1>5, <1>10, <1>18, <2>2, <2>3
    <3>2. new[j] = Digest(iopts.hashAlg, discs[i]) /\ j \in 1 .. N + K
      BY <1>16, <3>1
    <3>3. Carried(n)'.sd[Front(Of(i)')] = new
      BY <1>5, <1>9, <1>10, <1>14, <2>3
    <3> QED
      BY <1>18, <3>2, <3>3
  <2>4. CASE ~(n = 0 /\ Front(Of(i)) = <<>>)
    <3>1. Carried(n)'.sd[Front(Of(i))] = Carried(n).sd[Front(Of(i))]
      BY <1>4, <1>5, <1>6, <1>9, <1>10, <1>13, <2>1, <2>4
    <3> QED
      BY <1>14, <2>2, <3>1
  <2> QED
    BY <2>3, <2>4
<1>22. LET m == Len(tree'.sd[<<>>]) - iopts'.decoyCount
       IN  m \in Nat /\ \A j \in DOMAIN tree'.sd[<<>>] : Decoy(0, <<>>, j)' <=> j > m
  <2>1. tree'.sd[<<>>] = new /\ iopts'.decoyCount = K /\ Carried(0)'.sd[<<>>] = new
    BY <1>1, <1>5, <1>9, <1>10
  <2>2. Len(tree'.sd[<<>>]) - iopts'.decoyCount = N
    BY <1>18, <2>1
  <2>3. ASSUME NEW j \in 1 .. N + K PROVE Decoy(0, <<>>, j)' <=> j > N
    <3>1. CASE j > N
      BY <1>17, <3>1
    <3>2. CASE ~(j > N)
      <4>1. j \in 1 .. N
        BY <3>2
      <4> QED
        BY <1>16, <2>1, <3>2, <4>1 DEF Decoy
    <3> QED
      BY <3>1, <3>2
  <2> QED
    BY <1>18, <2>1, <2>2, <2>3
<1>23. Digests'
  BY <1>15, <1>20, <1>21, <1>22 DEF Digests, Objects
<1> QED
  BY <1>4, <1>6, <1>9, <1>23

-----------------------------------------------------------------------------
(* The invariant, action by action.  Issue starts with an empty payload.   *)
LEMMA IssueSafe ==
  ASSUME NEW r \in Requests, Idle, Issue(r), ipc' = "build"
  PROVE  Safe'
<1>1. icur = <<>> /\ handled = {} /\ discs = <<>> /\ icur' = <<>> /\ handled' = {} /\ discs' = <<>>
  BY DEF Issue, Idle
<1>2. /\ SDAlgFromHash(iopts.hashAlg) # Nil /\ req' = r /\ iopts' = iopts
      /\ tree' = [val |-> [o \in {<<>>} |-> Empty], sd |-> [o \in {<<>>} |-> <<>>]]
  BY DEF Issue, Fail
<1>3. tree'.val = [o \in {<<>>} |-> Empty] /\ tree'.sd = [o \in {<<>>} |-> <<>>] /\ IsTree(tree')
  BY <1>2 DEF IsTree
<1>4. /\ Objects(tree') = {<<>>} /\ DOMAIN tree'.sd = {<<>>}
      /\ tree'.sd[<<>>] = <<>> /\ DOMAIN tree'.val[<<>>] = {}
  BY <1>3 DEF Objects, Empty
<1>5. Carriers' = {0} /\ Carried(0)' = tree' /\ DOMAIN discs' = {}
  BY <1>1 DEF Carriers, Carried
<1>6. Structs(r) \subseteq Path /\ <<>> \in Structs(r) /\ Processed(r) \subseteq Path \ {<<>>}
  BY StructTree
<1>7. \A o \in Path : OnStack(o)' <=> o = <<>>
  <2>1. \A o \in Path : IsPrefix(o, <<>>) <=> o = <<>>
    <3>1. Len(<<>>) = 0 /\ <<>> \in Path /\ \A o \in Path : Len(o) \in Nat
      BY LenProperties DEF Path
    <3> QED
      BY <3>1, PrefixOrder
  <2> QED
    BY <1>1, <2>1 DEF OnStack
<1>8. Recursion'
  <2>1. ASSUME NEW p \in Processed(r)
        PROVE  \E q \in Processed(r) : IsPrefix(q, p) /\ OnStack(Front(q))' /\ ~OnStack(q)'
    <3>1. p \in Path /\ p # <<>>
      BY <1>6
    <3>2. Len(p) \in Nat /\ Len(p) >= 1
      BY <3>1, FrontLast
    <3>3. 1 \in 0 .. Len(p)
      BY <3>2
    <3>4. PICK q \in Path : Len(q) = 1 /\ IsPrefix(q, p)
      BY <3>1, <3>3, Ancestor
    <3>5. q # <<>>
      BY <3>4
    <3>6. q \in Processed(r)
      BY <3>4, <3>5, StructTree
    <3>7. Front(q) = <<>> /\ Front(q) \in Path
      <4>1. Front(q) \in Path /\ Len(Front(q)) = 1 - 1
        BY <3>4, <3>5, FrontLast
      <4>2. Front(q) \in Seq(STRING) /\ Len(Front(q)) = 0
        BY <4>1 DEF Path
      <4> QED
        BY <4>1, <4>2, EmptySeq
    <3> QED
      BY <1>7, <3>4, <3>5, <3>6, <3>7
  <2> QED
    BY <1>1, <1>2, <1>6, <2>1 DEF Recursion
<1>9. Disclosures'
  <2>1. discs' \in Seq(ToSet(discs'))
    BY <1>1
  <2> QED
    BY <1>1, <1>5, <2>1 DEF Disclosures
<1>10. Carriage'
  <2>1. \A o \in Structs(r) : (Entered(o)' <=> o = <<>>) /\ ~Dropped(o)'
    BY <1>1, <1>6, <1>7 DEF Entered, Dropped
  <2>2. ~Left(<<>>)'
    <3>1. \A q \in Paths(r) : q \in Path /\ q # <<>>
      BY RequestTree
    <3>2. \A q \in Paths(r) : ~IsPrefix(q, <<>>)
      BY <1>1, <1>7, <3>1 DEF OnStack
    <3> QED
      BY <1>2, <3>2 DEF Left
  <2>3. /\ \A o \in Structs(r) : o \in Objects(tree') <=> Entered(o)' /\ ~Left(o)' /\ ~Dropped(o)'
        /\ \A o \in Structs(r) : ~(Entered(o)' /\ Left(o)')
    BY <1>4, <2>1, <2>2
  <2>4. OnStack(<<>>)' /\ <<>> \in Path
    BY <1>6, <1>7
  <2> QED
    BY <1>2, <1>3, <1>4, <1>5, <2>3, <2>4 DEF Carriage, IsTree, Objects
<1>11. Contents'
  BY <1>1, <1>4, <1>5 DEF Contents, Objects
<1>12. Clear'
  BY <1>4 DEF Clear, Objects
<1>13. Digests'
  <2>1. <<>> \in Seq(ToSet(<<>>)) /\ DOMAIN <<>> = {}
    OBVIOUS
  <2>2. \A n \in Carriers' : \A o \in Objects(Carried(n)') : Carried(n)'.sd[o] = <<>>
    BY <1>4, <1>5
  <2> QED
    BY <1>2, <1>5, <2>1, <2>2 DEF Digests, Objects
<1> QED
  BY <1>8, <1>9, <1>10, <1>11, <1>12, <1>13 DEF Safe, Registered

(* A claim that is no StructuredClaim.                                     *)
LEMMA BuildClaimSafe ==
  ASSUME Safe, BuildClaim, ipc' = "build"
  PROVE  Safe'
<1>1. Recursion /\ Disclosures /\ Carriage /\ Contents /\ Clear /\ Digests
  BY DEF Safe
<1>2. ipc = "build" /\ UNCHANGED <<iopts, req, icur>>
  BY DEF BuildClaim
<1>3. PICK p \in Members(req, icur) \ handled :
        /\ req.kind[p] # "structured" /\ handled' = handled \cup {p}
        /\ \/ Selective(req, p) /\ Disclose(p, [claim |-> p], tree)
           \/ ~Selective(req, p) /\ tree' = PutClear(req, tree, p) /\ UNCHANGED discs
  BY DEF BuildClaim, Fail
<1>4. req \in Requests /\ icur \in Structs(req) /\ icur \in Path /\ handled \subseteq Processed(req)
  BY <1>1, StructTree DEF Recursion
<1>5. p \in Processed(req) /\ p \in Path /\ p # <<>> /\ Front(p) = icur /\ p \notin handled
  BY <1>4, MemberFacts
<1>6. 0 \in Carriers /\ Carried(0) = tree /\ Carried(0)' = tree'
  BY DEF Carriers, Carried
<1>7. IsTree(tree) /\ DOMAIN tree.sd = Objects(tree) /\ Objects(tree) \subseteq Path
  BY <1>1, <1>6 DEF Carriage
<1>8. icur \in Objects(tree)
  <2>1. OnStack(icur)
    BY <1>4, PrefixOrder DEF OnStack
  <2> QED
    BY <1>1, <1>2, <1>4, <2>1, CurInTree
<1>9. Recursion'
  BY <1>1, <1>2, <1>3, HandleRec
<1>10. CASE Selective(req, p) /\ Disclose(p, [claim |-> p], tree)
  <2> DEFINE value == [claim |-> p]
  <2>1. value.claim = p /\ "nested" \notin DOMAIN value
    OBVIOUS
  <2> HIDE DEF value
  <2>2. Disclose(p, value, tree)
    BY <1>10 DEF value
  <2>3. PICK N \in Nat :
          /\ \A n \in 1 .. N + 1 : n \in Carriers' <=>
               n \in Carriers \/ (n = N + 1 /\ "nested" \in DOMAIN value)
          /\ Carriers \subseteq 0 .. N /\ Carriers' \subseteq 0 .. N + 1
          /\ 0 \in Carriers /\ 0 \in Carriers' /\ N + 1 \notin Carriers
          /\ \A n \in 1 .. N : Carried(n)' = Carried(n)
    BY <1>1, <2>2, DiscloseFacts DEF Disclosures
  <2>4. Carriers' = Carriers /\ \A n \in Carriers \ {0} : Carried(n)' = Carried(n)
    <3>1. 0 .. N + 1 = {0} \cup (1 .. N) \cup {N + 1} /\ N + 1 \in 1 .. N + 1 /\ N + 1 # 0
      OBVIOUS
    <3>2. 0 .. N = {0} \cup (1 .. N) /\ 1 .. N \subseteq 1 .. N + 1
      OBVIOUS
    <3>3. \A n \in 0 .. N + 1 : n \in Carriers' <=> n \in Carriers
      BY <2>1, <2>3, <3>1, <3>2
    <3>4. Carriers \subseteq 0 .. N + 1
      BY <2>3, <3>1, <3>2
    <3> QED
      BY <2>3, <3>2, <3>3, <3>4
  <2>5. /\ IsTree(tree') /\ Objects(tree') = Objects(tree) /\ tree'.val = tree.val
        /\ DOMAIN tree'.sd = Objects(tree')
    BY <1>5, <1>7, <1>8, <2>2, DiscloseTree
  <2>6. Disclosures'
    BY <1>1, <1>2, <1>3, <1>5, <1>10, <2>1, <2>2, DiscloseDiscs
  <2>7. Carriage'
    <3>1. PICK New : New = {}
      OBVIOUS
    <3>2. Objects(tree') = Objects(tree) \cup New /\ \A q \in New : q \in Path /\ IsPrefix(p, q)
      BY <2>5, <3>1
    <3> QED
      BY <1>1, <1>2, <1>3, <2>4, <2>5, <3>2, HandleCarriage
  <2>8. Contents'
    <3>1. \A q : ~Dropped(q)
      BY <1>2 DEF Dropped
    <3>2. \A q \in handled' \ handled : Selective(req, q)
      BY <1>3, <1>10
    <3>3. \A n \in Carriers' : \A o \in Structs(req) \cap Objects(Carried(n)') :
            \E m \in Carriers : o \in Objects(Carried(m)) /\ Carried(n)'.val[o] = Carried(m).val[o]
      BY <1>6, <2>4, <2>5
    <3> QED
      BY <1>1, <1>2, <1>3, <3>1, <3>2, <3>3, MoveContents
  <2>9. Clear'
    BY <1>1, <1>2, <1>3, <2>5, ClearStep
  <2>10. Digests'
    <3>1. \A n \in Carriers' \ {0} : Front(p) \notin Objects(Carried(n)')
      BY <1>1, <1>5, <1>6, <1>8, <2>4 DEF Carriage
    <3> QED
      BY <1>1, <1>2, <1>5, <1>7, <1>8, <2>1, <2>2, <3>1, DiscloseDigests
  <2> QED
    BY <1>9, <2>6, <2>7, <2>8, <2>9, <2>10 DEF Safe, Registered
<1>11. CASE ~Selective(req, p) /\ tree' = PutClear(req, tree, p) /\ UNCHANGED discs
  <2>1. \A o \in Objects(tree) : ~IsPrefix(p, o)
    BY <1>1, <1>3, <1>6, NothingBelow
  <2>2. PICK New \in SUBSET Path :
          /\ IsTree(tree') /\ DOMAIN tree'.sd = Objects(tree') /\ Objects(tree') = Objects(tree) \cup New
          /\ \A o \in New : IsPrefix(p, o) /\ tree'.sd[o] = <<>>
          /\ \A o \in Objects(tree) : tree'.sd[o] = tree.sd[o]
          /\ \A o \in Objects(tree) : o # Front(p) => tree'.val[o] = tree.val[o]
          /\ DOMAIN tree'.val[Front(p)] = DOMAIN tree.val[Front(p)] \cup {Last(p)}
          /\ tree'.val[Front(p)][Last(p)] = Shown(req, p)
          /\ \A x \in DOMAIN tree.val[Front(p)] : x # Last(p) =>
               tree'.val[Front(p)][x] = tree.val[Front(p)][x]
          /\ \A o \in New : \A k \in DOMAIN tree'.val[o] : "claim" \in DOMAIN tree'.val[o][k] =>
               tree'.val[o][k].claim \in Path /\ IsPrefix(p, tree'.val[o][k].claim)
    <3>1. PICK r, tr : r = req /\ tr = tree
      OBVIOUS
    <3>2. PICK New \in SUBSET Path : Cleared(r, tr, p, PutClear(r, tr, p), New)
      BY <1>3, <1>4, <1>5, <1>7, <1>8, <2>1, <3>1, PutClearFacts
    <3>3. Cleared(req, tree, p, tree', New)
      BY <1>11, <3>1, <3>2
    <3> QED
      BY <3>3 DEF Cleared
  <2>3. Carriers' = Carriers /\ \A n \in Carriers \ {0} : Carried(n)' = Carried(n)
    BY <1>11 DEF Carriers, Carried, Opened
  <2>4. New \cap Structs(req) = {}
    <3> SUFFICES ASSUME NEW q \in New, q \in Structs(req) PROVE FALSE
      OBVIOUS
    <3>1. p \in Structs(req)
      BY <1>4, <1>5, <2>2, StructTree
    <3> QED
      BY <1>3, <1>5, <3>1 DEF Structs
  <2>5. Disclosures'
    BY <1>1, <1>2, <1>3, <1>11, KeepDiscs
  <2>6. Carriage'
    BY <1>1, <1>2, <1>3, <2>2, <2>3, HandleCarriage
  <2>7. Contents'
    BY <1>1, <1>2, <1>3, <1>5, <1>8, <1>11, <2>2, <2>4, PutContents
  <2>8. Clear'
    <3>1. ASSUME NEW o \in Objects(tree'), NEW k \in DOMAIN tree'.val[o],
                 "claim" \in DOMAIN tree'.val[o][k],
                 ~(/\ o \in Objects(tree) /\ k \in DOMAIN tree.val[o]
                   /\ tree'.val[o][k] = tree.val[o][k])
          PROVE  tree'.val[o][k].claim \in Path /\ IsPrefix(p, tree'.val[o][k].claim)
      <4>1. CASE o \in New
        BY <2>2, <3>1, <4>1
      <4>2. CASE o \notin New
        <5>1. o = Front(p) /\ k = Last(p)
          BY <2>2, <3>1, <4>2
        <5>2. tree'.val[o][k] = [claim |-> p]
          BY <2>2, <3>1, <5>1 DEF Shown
        <5> QED
          BY <1>5, <5>2, PrefixOrder
      <4> QED
        BY <4>1, <4>2
    <3>2. p \in handled' /\ req.kind[p] # "structured" /\ ~Selective(req, p)
      BY <1>3, <1>11
    <3> QED
      BY <1>1, <1>2, <1>3, <3>1, <3>2, ClearStep
  <2>9. Digests'
    <3>1. \A i \in DOMAIN discs : Front(Of(i)) \notin New
      BY <1>1, <1>4, <2>4, StructTree DEF Disclosures
    <3>2. \A o \in Objects(tree') : \/ o \in Objects(tree) /\ tree'.sd[o] = tree.sd[o]
                                    \/ o \in New /\ tree'.sd[o] = <<>>
      BY <2>2
    <3> QED
      BY <1>1, <1>2, <1>11, <3>1, <3>2, SameDigests
  <2> QED
    BY <1>9, <2>5, <2>6, <2>7, <2>8, <2>9 DEF Safe, Registered
<1> QED
  BY <1>3, <1>10, <1>11

(* The recursive call.                                                     *)
LEMMA BuildEnterSafe ==
  ASSUME Safe, BuildEnter, ipc' = "build"
  PROVE  Safe'
<1>1. Recursion /\ Disclosures /\ Carriage /\ Contents /\ Clear /\ Digests
  BY DEF Safe
<1>2. ipc = "build" /\ UNCHANGED <<iopts, req, handled, discs>>
  BY DEF BuildEnter
<1>3. PICK p \in Members(req, icur) \ handled :
        req.kind[p] = "structured" /\ icur' = p /\ tree' = Grow(tree, [o \in {p} |-> Empty])
  BY DEF BuildEnter, Fail
<1>4. req \in Requests /\ icur \in Structs(req) /\ icur \in Path
  BY <1>1, StructTree DEF Recursion
<1>5. p \in Processed(req) /\ p \in Paths(req) /\ p \in Path /\ p # <<>> /\ ~OnStack(p) /\ IsPrefix(p, p)
  BY <1>4, MemberFacts, PrefixOrder DEF OnStack
<1>6. 0 \in Carriers /\ Carried(0) = tree /\ Carried(0)' = tree'
  BY DEF Carriers, Carried
<1>7. DOMAIN tree.sd = Objects(tree) /\ p \notin Objects(tree)
  BY <1>1, <1>3, <1>5, <1>6, NothingBelow DEF Carriage
<1>8. /\ IsTree(tree') /\ Objects(tree') = Objects(tree) \cup {p} /\ DOMAIN tree'.sd = Objects(tree')
      /\ DOMAIN tree'.val[p] = {} /\ tree'.sd[p] = <<>>
      /\ \A o \in Objects(tree) \ {p} : tree'.val[o] = tree.val[o] /\ tree'.sd[o] = tree.sd[o]
  <2>1. PICK tr, vals : tr = tree /\ vals = [o \in {p} |-> Empty] /\ tree' = Grow(tr, vals)
    BY <1>3
  <2>2. DOMAIN vals = {p} /\ vals[p] = <<>>
    BY <2>1 DEF Empty
  <2>3. /\ IsTree(tree') /\ Objects(tree') = Objects(tr) \cup DOMAIN vals
        /\ DOMAIN tree'.sd = Objects(tree')
        /\ \A o \in DOMAIN vals : tree'.val[o] = vals[o] /\ tree'.sd[o] = <<>>
        /\ \A o \in Objects(tr) \ DOMAIN vals : tree'.val[o] = tr.val[o] /\ tree'.sd[o] = tr.sd[o]
    BY <1>7, <2>1, GrowFacts
  <2> QED
    BY <2>1, <2>2, <2>3
<1>9. Recursion'
  BY <1>1, <1>2, <1>3, EnterRec
<1>10. Disclosures'
  BY <1>1, <1>2, KeepDiscs
<1>11. Carriage'
  BY <1>1, <1>2, <1>3, <1>8, EnterCarriage
<1>12. Contents'
  BY <1>1, <1>2, <1>3, <1>8, EnterContents
<1>13. Clear'
  BY <1>1, <1>2, <1>7, <1>8, ClearStep
<1>14. Digests'
  <2>1. \A i \in DOMAIN discs : Front(Of(i)) \notin {p}
    <3> SUFFICES ASSUME NEW i \in DOMAIN discs, Front(Of(i)) = p PROVE FALSE
      OBVIOUS
    <3>1. Of(i) \in handled /\ handled \subseteq Processed(req)
      BY <1>1 DEF Disclosures, Recursion
    <3>2. PICK q : q = Of(i) /\ q \in handled /\ Front(q) = p
      BY <3>1
    <3>3. q \in Path /\ q # <<>>
      BY <1>4, <3>1, <3>2, StructTree
    <3>4. IsPrefix(p, q)
      BY <1>5, <3>2, <3>3, PrefixFront
    <3>5. Entered(p)
      BY <1>1, <1>5, <3>2, <3>4 DEF Recursion
    <3> QED
      BY <1>3, <1>5, <3>5 DEF Entered
  <2>2. \A o \in Objects(tree') : \/ o \in Objects(tree) /\ tree'.sd[o] = tree.sd[o]
                                  \/ o \in {p} /\ tree'.sd[o] = <<>>
    BY <1>8
  <2> QED
    BY <1>1, <1>2, <2>1, <2>2, SameDigests
<1> QED
  BY <1>9, <1>10, <1>11, <1>12, <1>13, <1>14 DEF Safe, Registered

(* Its return.                                                             *)
LEMMA BuildReturnSafe ==
  ASSUME Safe, BuildReturn, ipc' = "build"
  PROVE  Safe'
<1>1. Recursion /\ Disclosures /\ Carriage /\ Contents /\ Clear /\ Digests
  BY DEF Safe
<1> DEFINE inner == Below(icur, Objects(tree))
           outer == Only(tree, Objects(tree) \ inner)
           value == [claim |-> icur, nested |-> Only(tree, inner)]
<1>2. /\ ipc = "build" /\ UNCHANGED <<iopts, req>> /\ icur # <<>>
      /\ Members(req, icur) \subseteq handled
      /\ handled' = handled \cup {icur} /\ icur' = Front(icur)
  BY DEF BuildReturn
<1>3. \/ Selective(req, icur) /\ Disclose(icur, value, outer)
      \/ /\ ~Selective(req, icur) /\ tree' = Put(tree, Front(icur), Last(icur), [obj |-> icur])
         /\ UNCHANGED discs
  BY DEF BuildReturn, Fail
<1>4. /\ value.claim = icur /\ "nested" \in DOMAIN value
      /\ IsTree(outer) /\ IsTree(value.nested)
      /\ Objects(outer) = Objects(tree) \ inner /\ DOMAIN outer.sd = Objects(outer)
      /\ \A o \in Objects(outer) : outer.val[o] = tree.val[o] /\ outer.sd[o] = tree.sd[o]
      /\ Objects(value.nested) = inner /\ DOMAIN value.nested.sd = Objects(value.nested)
      /\ \A o \in inner : value.nested.val[o] = tree.val[o] /\ value.nested.sd[o] = tree.sd[o]
  BY DEF IsTree, Only, Objects
<1>5. inner = {o \in Objects(tree) : IsPrefix(icur, o)}
  BY DEF Below
<1>6. req \in Requests /\ icur \in Structs(req) /\ icur \in Path
  BY <1>1, StructTree DEF Recursion
<1>7. /\ icur \in Processed(req) /\ Front(icur) \in Path /\ IsPrefix(Front(icur), icur)
      /\ ~IsPrefix(icur, Front(icur))
  BY <1>2, <1>6, FrontLast, PrefixFront, PrefixOrder DEF Structs
<1>8. icur \notin handled
  BY <1>1, <1>6, PrefixOrder DEF Recursion, OnStack
<1>9. 0 \in Carriers /\ Carried(0) = tree /\ Carried(0)' = tree'
  BY DEF Carriers, Carried
<1>10. IsTree(tree) /\ DOMAIN tree.sd = Objects(tree)
  BY <1>1, <1>9 DEF Carriage
<1>11. Front(icur) \in Objects(tree)
  BY <1>1, <1>2, <1>7, CurInTree DEF OnStack
<1>12. Recursion'
  BY <1>1, <1>2, ReturnRec
<1>13. \A q : ~Dropped(q)
  BY <1>2 DEF Dropped
<1> HIDE DEF inner, outer, value
<1>14. CASE Selective(req, icur) /\ Disclose(icur, value, outer)
  <2>1. Front(icur) \in Objects(outer)
    BY <1>4, <1>5, <1>7, <1>11
  <2>2. /\ IsTree(tree') /\ Objects(tree') = Objects(outer) /\ tree'.val = outer.val
        /\ DOMAIN tree'.sd = Objects(tree')
    <3>1. PICK c, v, rest : /\ rest = outer /\ IsTree(rest) /\ DOMAIN rest.sd = Objects(rest)
                            /\ Front(c) \in Objects(rest) /\ Disclose(c, v, rest)
      BY <1>4, <1>14, <2>1
    <3>2. /\ IsTree(tree') /\ Objects(tree') = Objects(rest) /\ tree'.val = rest.val
          /\ DOMAIN tree'.sd = Objects(tree')
      BY <3>1, DiscloseTree
    <3> QED
      BY <3>1, <3>2
  <2>3. Disclosures'
    BY <1>1, <1>2, <1>4, <1>8, <1>14, DiscloseDiscs
  <2>4. Carriage'
    <3>1. /\ Objects(value.nested) = Below(icur, Objects(tree))
          /\ Objects(tree') = Objects(tree) \ Below(icur, Objects(tree))
      BY <1>4, <2>2 DEF inner
    <3>2. PICK v, rest : /\ v = value /\ rest = outer /\ Disclose(icur, v, rest)
                         /\ "nested" \in DOMAIN v /\ DOMAIN v.nested.sd = Objects(v.nested)
                         /\ Objects(v.nested) = Below(icur, Objects(tree))
      BY <1>4, <1>14, <3>1
    <3> QED
      BY <1>1, <1>2, <1>14, <2>2, <3>1, <3>2, LeaveCarriage
  <2>5. PICK N \in Nat :
          /\ \A n \in 1 .. N + 1 : n \in Carriers' <=>
               n \in Carriers \/ (n = N + 1 /\ "nested" \in DOMAIN value)
          /\ Carriers \subseteq 0 .. N /\ Carriers' \subseteq 0 .. N + 1
          /\ \A n \in 1 .. N : Carried(n)' = Carried(n)
          /\ Carried(N + 1)' = value.nested
    BY <1>1, <1>14, DiscloseFacts DEF Disclosures
  <2>6. Contents'
    <3>1. \A q \in handled' \ handled : Selective(req, q)
      BY <1>2, <1>14
    <3>2. ASSUME NEW n \in Carriers', NEW o \in Objects(Carried(n)')
          PROVE  \E m \in Carriers : o \in Objects(Carried(m)) /\ Carried(n)'.val[o] = Carried(m).val[o]
      <4>1. CASE n = 0
        BY <1>4, <1>9, <2>2, <4>1
      <4>2. CASE n = N + 1
        BY <1>4, <1>5, <1>9, <2>5, <4>2
      <4>3. CASE n # 0 /\ n # N + 1
        <5>1. n \in 1 .. N /\ n \in 1 .. N + 1
          BY <2>5, <4>3
        <5> QED
          BY <2>5, <4>3, <5>1
      <4> QED
        BY <4>1, <4>2, <4>3
    <3> QED
      BY <1>1, <1>2, <1>13, <3>1, <3>2, MoveContents
  <2>7. Clear'
    BY <1>1, <1>2, <1>4, <2>2, ClearStep
  <2>8. Digests'
    <3>1. Front(icur) \in Objects(Carried(0)') /\ 0 \in Carriers'
      BY <1>9, <2>1, <2>2 DEF Carriers
    <3>2. \A n \in Carriers' \ {0} : Front(icur) \notin Objects(Carried(n)')
      BY <2>4, <3>1 DEF Carriage
    <3>3. PICK c : c = icur
      OBVIOUS
    <3>4. \A o \in Objects(outer) : o \in Objects(tree) /\ outer.sd[o] = tree.sd[o]
      BY <1>4
    <3>5. \A o \in Objects(value.nested) : o \in Objects(tree) /\ value.nested.sd[o] = tree.sd[o]
      BY <1>4, <1>5
    <3> QED
      BY <1>1, <1>2, <1>4, <1>8, <1>14, <2>1, <3>2, <3>3, <3>4, <3>5, DiscloseDigests
  <2> QED
    BY <1>12, <2>3, <2>4, <2>6, <2>7, <2>8 DEF Safe, Registered
<1>15. CASE /\ ~Selective(req, icur) /\ tree' = Put(tree, Front(icur), Last(icur), [obj |-> icur])
            /\ UNCHANGED discs
  <2>1. /\ IsTree(tree') /\ Objects(tree') = Objects(tree) /\ tree'.sd = tree.sd
        /\ DOMAIN tree'.val[Front(icur)] = DOMAIN tree.val[Front(icur)] \cup {Last(icur)}
        /\ tree'.val[Front(icur)][Last(icur)] = [obj |-> icur]
        /\ \A x \in DOMAIN tree.val[Front(icur)] : x # Last(icur) =>
             tree'.val[Front(icur)][x] = tree.val[Front(icur)][x]
        /\ \A x \in Objects(tree) : x # Front(icur) => tree'.val[x] = tree.val[x]
    <3>1. PICK tr, o, k, v : /\ tr = tree /\ o = Front(icur) /\ k = Last(icur) /\ v = [obj |-> icur]
                             /\ tree' = Put(tr, o, k, v) /\ o \in Objects(tr)
      BY <1>11, <1>15
    <3>2. /\ IsTree(tree') /\ Objects(tree') = Objects(tr) /\ tree'.sd = tr.sd
          /\ DOMAIN tree'.val[o] = DOMAIN tr.val[o] \cup {k} /\ tree'.val[o][k] = v
          /\ \A x \in DOMAIN tr.val[o] : x # k => tree'.val[o][x] = tr.val[o][x]
          /\ \A x \in Objects(tr) : x # o => tree'.val[x] = tr.val[x]
      BY <1>10, <3>1, PutFacts
    <3> QED
      BY <3>1, <3>2, Zenon
  <2>2. Disclosures'
    BY <1>1, <1>2, <1>15, KeepDiscs
  <2>3. DOMAIN tree'.sd = Objects(tree')
    BY <1>10, <2>1
  <2>4. Carriage'
    BY <1>1, <1>2, <1>15, <2>1, <2>3, ReturnCarriage
  <2>5. Contents'
    <3>1. Shown(req, icur) = [obj |-> icur]
      BY <1>2, <1>6 DEF Shown, Structs
    <3>2. PICK c, New : c = icur /\ New = {}
      OBVIOUS
    <3>3. Objects(tree') = Objects(tree) \cup New /\ New \cap Structs(req) = {}
      BY <2>1, <3>2
    <3> QED
      BY <1>1, <1>2, <1>7, <1>11, <1>15, <2>1, <3>1, <3>2, <3>3, PutContents
  <2>6. Clear'
    <3>1. "claim" \notin DOMAIN [obj |-> icur]
      OBVIOUS
    <3>2. ASSUME NEW o \in Objects(tree'), NEW k \in DOMAIN tree'.val[o]
          PROVE  \/ /\ o \in Objects(tree) /\ k \in DOMAIN tree.val[o]
                    /\ tree'.val[o][k] = tree.val[o][k]
                 \/ "claim" \notin DOMAIN tree'.val[o][k]
      BY <2>1, <3>1
    <3> QED
      BY <1>1, <1>2, <3>2, ClearStep
  <2>7. Digests'
    <3>1. \A i \in DOMAIN discs : Front(Of(i)) \notin {}
      OBVIOUS
    <3>2. \A o \in Objects(tree') : o \in Objects(tree) /\ tree'.sd[o] = tree.sd[o]
      BY <2>1
    <3> QED
      BY <1>1, <1>2, <1>15, <3>1, <3>2, SameDigests
  <2> QED
    BY <1>12, <2>2, <2>4, <2>5, <2>6, <2>7 DEF Safe, Registered
<1> QED
  BY <1>3, <1>14, <1>15

(* The recursion has returned and decoys are added.                        *)
LEMMA AddDecoysSafe ==
  ASSUME Safe, Counters, AddDecoys
  PROVE  Safe'
<1>1. Recursion /\ Disclosures /\ Carriage /\ Contents /\ Clear /\ Digests
  BY DEF Safe
<1>2. /\ ipc = "build" /\ ipc' = "claims" /\ icur = <<>> /\ Members(req, <<>>) \subseteq handled
      /\ UNCHANGED <<iopts, req, icur, handled, discs>>
      /\ tree' = [tree EXCEPT !.sd[<<>>] =
                    @ \o [i \in 1 .. iopts.decoyCount |-> <<"decoy", fresh + i - 1>>]]
  BY DEF AddDecoys
<1>3. fresh \in Nat /\ iopts.decoyCount \in Nat
  BY IssuerAssumption DEF Counters
<1>4. <<>> \in Objects(tree)
  <2>1. <<>> \in Path /\ OnStack(<<>>)
    <3>1. <<>> \in Path
      BY DEF Path
    <3> QED
      BY <1>2, <3>1, PrefixOrder DEF OnStack
  <2> QED
    BY <1>1, <1>2, <2>1, CurInTree
<1>5. /\ IsTree(tree') /\ Objects(tree') = Objects(tree) /\ tree'.val = tree.val
      /\ DOMAIN tree'.sd = Objects(tree')
      /\ Digests'
  BY <1>1, <1>2, <1>3, <1>4, DecoyDigests
<1>6. Recursion'
  BY <1>1, <1>2, StayRec
<1>7. Disclosures'
  BY <1>1, <1>2, KeepDiscs
<1>8. Carriage'
  BY <1>1, <1>2, <1>5, StayCarriage
<1>9. Clear'
  BY <1>1, <1>2, <1>5, ClearStep
<1>10. Contents'
  <2>1. Carriers' = Carriers /\ \A n \in Carriers \ {0} : Carried(n)' = Carried(n)
    BY <1>2 DEF Carriers, Carried, Opened
  <2>2. 0 \in Carriers /\ Carried(0) = tree /\ Carried(0)' = tree'
    BY DEF Carriers, Carried
  <2>3. \A n \in Carriers' : \A o \in Structs(req) \cap Objects(Carried(n)') :
          \E m \in Carriers : o \in Objects(Carried(m)) /\ Carried(n)'.val[o] = Carried(m).val[o]
    BY <1>5, <2>1, <2>2
  <2>4. \A p : ~Dropped(p)
    BY <1>2 DEF Dropped
  <2>5. handled \subseteq handled' /\ \A p \in handled' \ handled : Selective(req, p)
    BY <1>2
  <2> QED
    BY <1>1, <1>2, <2>3, <2>4, <2>5, MoveContents
<1> QED
  BY <1>2, <1>5, <1>6, <1>7, <1>8, <1>9, <1>10 DEF Safe, Registered

(* The registered claims are set.                                          *)
LEMMA RegisterSafe ==
  ASSUME Safe, SetRegisteredClaims, ipc' = "sign"
  PROVE  Safe'
<1>1. Recursion /\ Disclosures /\ Carriage /\ Contents /\ Clear /\ Digests
  BY DEF Safe
<1> DEFINE kept == {o \in Objects(tree) : o # <<>> => o[1] \notin DOMAIN RegisteredClaims}
           root == Overlay(tree.val[<<>>], RegisteredClaims)
<1>2. /\ ipc = "claims" /\ UNCHANGED <<iopts, req, icur, handled, discs>>
      /\ tree' = [Only(tree, kept) EXCEPT !.val[<<>>] = root]
  BY DEF SetRegisteredClaims, Fail
<1>3. <<>> \in Objects(tree)
  <2>1. icur = <<>> /\ req \in Requests
    BY <1>1, <1>2 DEF Recursion
  <2>2. <<>> \in Structs(req) /\ OnStack(<<>>) /\ ~Dropped(<<>>)
    <3>1. <<>> \in Path
      BY DEF Path
    <3> QED
      BY <2>1, <3>1, StructTree, PrefixOrder DEF OnStack, Dropped
  <2>3. ~Left(<<>>)
    BY <2>1 DEF Left, OnStack
  <2> QED
    BY <1>1, <2>2, <2>3 DEF Carriage, Entered
<1> HIDE DEF root
<1>4. /\ IsTree(tree') /\ Objects(tree') = kept /\ DOMAIN tree'.sd = Objects(tree')
      /\ tree'.val[<<>>] = root
      /\ \A o \in kept : o # <<>> => tree'.val[o] = tree.val[o]
      /\ \A o \in kept : tree'.sd[o] = tree.sd[o]
  <2>1. <<>> \in kept
    BY <1>3
  <2> HIDE DEF kept
  <2>2. PICK V, S : V = [o \in kept |-> tree.val[o]] /\ S = [o \in kept |-> tree.sd[o]]
    OBVIOUS
  <2>3. Only(tree, kept) = [val |-> V, sd |-> S]
    BY <2>2 DEF Only
  <2>4. PICK W : W = [V EXCEPT ![<<>>] = root]
    OBVIOUS
  <2>5. tree' = [val |-> W, sd |-> S]
    BY <1>2, <2>3, <2>4
  <2>6. DOMAIN W = kept /\ DOMAIN S = kept /\ W[<<>>] = root /\ \A o \in kept : S[o] = tree.sd[o]
    BY <2>1, <2>2, <2>4
  <2>7. \A o \in kept : o # <<>> => W[o] = tree.val[o]
    BY <2>2, <2>4
  <2>8. tree'.val = W /\ tree'.sd = S
    BY <2>5
  <2> QED
    BY <2>5, <2>6, <2>7, <2>8 DEF IsTree, Objects
<1>5. Recursion'
  BY <1>1, <1>2, StayRec
<1>6. Disclosures'
  BY <1>1, <1>2, KeepDiscs
<1>7. Carriage'
  BY <1>1, <1>2, <1>4, RegisterCarriage
<1>8. Contents'
  <2>1. Objects(tree') \subseteq Objects(tree)
    BY <1>4
  <2> QED
    BY <1>1, <1>2, <1>3, <1>4, <2>1, RegisterContents DEF root
<1>9. Clear'
  <2>1. ASSUME NEW o \in Objects(tree'), NEW k \in DOMAIN tree'.val[o]
        PROVE  \/ /\ o \in Objects(tree) /\ k \in DOMAIN tree.val[o]
                  /\ tree'.val[o][k] = tree.val[o][k]
               \/ "claim" \notin DOMAIN tree'.val[o][k]
    <3>1. CASE o = <<>> /\ k \in DOMAIN RegisteredClaims
      <4>1. tree'.val[o][k] = RegisteredClaims[k]
        BY <1>4, <2>1, <3>1 DEF root, Overlay
      <4> QED
        BY <3>1, <4>1, RegisteredNames
    <3>2. CASE o = <<>> /\ k \notin DOMAIN RegisteredClaims
      BY <1>3, <1>4, <2>1, <3>2 DEF root, Overlay
    <3>3. CASE o # <<>>
      BY <1>4, <2>1, <3>3
    <3> QED
      BY <3>1, <3>2, <3>3
  <2> QED
    BY <1>1, <1>2, <2>1, ClearStep
<1>10. Digests'
  <2>0. PICK New : New = {}
    OBVIOUS
  <2>1. \A i \in DOMAIN discs : Front(Of(i)) \notin New
    BY <2>0
  <2>2. \A o \in Objects(tree') : \/ o \in Objects(tree) /\ tree'.sd[o] = tree.sd[o]
                                  \/ o \in New /\ tree'.sd[o] = <<>>
    BY <1>4
  <2>3. tree'.sd[<<>>] = tree.sd[<<>>]
    BY <1>3, <1>4
  <2>4. UNCHANGED <<iopts, discs>> /\ (ipc' = "build" <=> ipc = "build")
    BY <1>2
  <2> QED
    BY <1>1, <2>1, <2>2, <2>3, <2>4, SameDigests
<1>11. Registered'
  <2>1. DOMAIN RegisteredClaims' = DOMAIN RegisteredClaims
    BY <1>2, RegisteredNames
  <2>2. \A k \in DOMAIN RegisteredClaims : k \in DOMAIN root /\ root[k] = RegisteredClaims[k]
    BY DEF root, Overlay
  <2>3. \A k \in DOMAIN RegisteredClaims :
          /\ k \in DOMAIN root
          /\ "claim" \notin DOMAIN root[k] /\ "obj" \notin DOMAIN root[k]
    BY <2>2, RegisteredNames
  <2> QED
    BY <1>4, <2>1, <2>3 DEF Registered
<1> QED
  BY <1>5, <1>6, <1>7, <1>8, <1>9, <1>10, <1>11 DEF Safe

(* Time passes, or the payload is signed.                                  *)
LEMMA StaySafe ==
  ASSUME Safe, UNCHANGED <<iopts, callVars>>, ipc' = ipc \/ (ipc = "sign" /\ ipc' = "issued")
  PROVE  Safe'
<1>1. Recursion /\ Disclosures /\ Carriage /\ Contents /\ Clear /\ Digests
  BY DEF Safe
<1>2. UNCHANGED <<iopts, req, tree, icur, handled, discs>>
  BY DEF callVars
<1>3. Carriers' = Carriers /\ \A n : Carried(n)' = Carried(n)
  BY <1>2 DEF Carriers, Carried, Opened
<1>4. Recursion'
  BY <1>1, <1>2, StayRec
<1>5. Disclosures'
  BY <1>1, <1>2, KeepDiscs
<1>6. Carriage'
  <2>1. IsTree(tree) /\ DOMAIN tree.sd = Objects(tree)
    BY <1>1 DEF Carriage, Carriers, Carried
  <2>2. IsTree(tree') /\ DOMAIN tree'.sd = Objects(tree') /\ Objects(tree') = Objects(tree)
    BY <1>2, <2>1
  <2> QED
    BY <1>1, <1>2, <2>2, StayCarriage
<1>7. Contents'
  <2>1. \A p : Dropped(p) => Dropped(p)'
    BY <1>2, RegisteredNames DEF Dropped
  <2>2. \A n \in Carriers' : \A o \in Structs(req) \cap Objects(Carried(n)') :
          \E m \in Carriers : o \in Objects(Carried(m)) /\ Carried(n)'.val[o] = Carried(m).val[o]
    BY <1>3
  <2>3. handled \subseteq handled' /\ \A p \in handled' \ handled : Selective(req, p)
    BY <1>2
  <2> QED
    BY <1>1, <1>2, <2>1, <2>2, <2>3, MoveContents
<1>8. Clear'
  BY <1>1, <1>2, ClearStep
<1>9. Digests'
  <2>1. \A i \in DOMAIN discs : Front(Of(i)) \notin {}
    OBVIOUS
  <2>2. \A o \in Objects(tree') : o \in Objects(tree) /\ tree'.sd[o] = tree.sd[o]
    BY <1>2
  <2> QED
    BY <1>1, <1>2, <2>1, <2>2, SameDigests
<1>10. Registered'
  <2>1. Registered
    BY DEF Safe
  <2> QED
    BY <1>2, <2>1, RegisteredNames DEF Registered
<1> QED
  BY <1>4, <1>5, <1>6, <1>7, <1>8, <1>9, <1>10 DEF Safe

-----------------------------------------------------------------------------
(* IssuerInv is an invariant of Issue, whatever the requests, the options  *)
(* and the order in which the claims are visited.                          *)
THEOREM IssuerInvariance == IssuerSpec => []IssuerInv
<1>1. IssuerInit => IssuerInv
  BY IssuerAssumption, ClockAssumption DEF IssuerInit, IssuerInv, Counters, Idle, Working
<1>2. IssuerInv /\ [IssuerNext]_issuerVars => IssuerInv'
  <2> SUFFICES ASSUME IssuerInv, [IssuerNext]_issuerVars PROVE IssuerInv'
    OBVIOUS
  <2>1. Counters /\ Idle /\ (Working => Safe)
    BY DEF IssuerInv
  <2>2. /\ clock \in Int /\ calls \in Int /\ fresh \in Nat /\ MaxTime \in Nat /\ MaxIssues \in Nat
        /\ iopts.decoyCount \in Nat
    BY <2>1, IssuerAssumption, ClockAssumption DEF Counters
  <2>3. CASE IssuerTick
    <3>1. UNCHANGED <<iopts, callVars>> /\ UNCHANGED <<ipc, icur, handled, discs, fresh, calls>>
      BY <2>3 DEF IssuerTick, issueVars, callVars
    <3>2. Counters'
      BY <2>1, <2>2, <2>3, <3>1 DEF IssuerTick, TimePasses, Counters
    <3>3. Idle'
      BY <2>1, <3>1 DEF Idle
    <3>4. Working => Safe'
      BY <2>1, <3>1, StaySafe
    <3> QED
      BY <3>1, <3>2, <3>3, <3>4 DEF IssuerInv, Working
  <2>4. ASSUME NEW r \in Requests, Issue(r) PROVE IssuerInv'
    <3>1. Counters' /\ ipc' \in {"build", "failed"}
      <4>1. /\ ipc' \in {"build", "failed"} /\ UNCHANGED <<clock, iopts, fresh>>
            /\ calls' = calls + 1 /\ calls < MaxIssues
        BY <2>4 DEF Issue, Fail
      <4> QED
        BY <2>1, <2>2, <4>1 DEF Counters
    <3>2. ipc' = "build" => Safe'
      BY <2>1, <2>4, IssueSafe
    <3> QED
      BY <3>1, <3>2 DEF IssuerInv, Idle, Working
  <2>5. CASE BuildClaim
    <3>1. Counters' /\ ipc' \in {"build", "failed"} /\ ipc = "build"
      <4>1. ipc = "build" /\ UNCHANGED <<clock, iopts, calls>>
        BY <2>5 DEF BuildClaim
      <4>2. \/ fresh' = fresh + 1 /\ ipc' = ipc
            \/ fresh' = fresh /\ ipc' \in {ipc, "failed"}
        BY <2>5 DEF BuildClaim, Disclose, Fail
      <4> QED
        BY <2>1, <2>2, <4>1, <4>2 DEF Counters
    <3>2. ipc' = "build" => Safe'
      BY <2>1, <2>5, <3>1, BuildClaimSafe DEF Working
    <3> QED
      BY <3>1, <3>2 DEF IssuerInv, Idle, Working
  <2>6. CASE BuildEnter
    <3>1. Counters' /\ ipc' \in {"build", "failed"} /\ ipc = "build"
      BY <2>1, <2>2, <2>6 DEF BuildEnter, Fail, Counters
    <3>2. ipc' = "build" => Safe'
      BY <2>1, <2>6, <3>1, BuildEnterSafe DEF Working
    <3> QED
      BY <3>1, <3>2 DEF IssuerInv, Idle, Working
  <2>7. CASE BuildReturn
    <3>1. Counters' /\ ipc' \in {"build", "failed"} /\ ipc = "build"
      <4>1. ipc = "build" /\ UNCHANGED <<clock, iopts, calls>>
        BY <2>7 DEF BuildReturn
      <4>2. \/ fresh' = fresh + 1 /\ ipc' = ipc
            \/ fresh' = fresh /\ ipc' \in {ipc, "failed"}
        BY <2>7 DEF BuildReturn, Disclose, Fail
      <4> QED
        BY <2>1, <2>2, <4>1, <4>2 DEF Counters
    <3>2. ipc' = "build" => Safe'
      BY <2>1, <2>7, <3>1, BuildReturnSafe DEF Working
    <3> QED
      BY <3>1, <3>2 DEF IssuerInv, Idle, Working
  <2>8. CASE AddDecoys
    <3>1. Counters' /\ ipc' = "claims" /\ ipc = "build"
      <4>1. /\ ipc = "build" /\ ipc' = "claims" /\ UNCHANGED <<clock, iopts, calls>>
            /\ fresh' = fresh + iopts.decoyCount
        BY <2>8 DEF AddDecoys
      <4> QED
        BY <2>1, <2>2, <4>1 DEF Counters
    <3>2. Safe'
      BY <2>1, <2>8, <3>1, AddDecoysSafe DEF Working
    <3> QED
      BY <3>1, <3>2 DEF IssuerInv, Idle, Working
  <2>9. CASE RandomnessFails
    BY <2>1, <2>9 DEF RandomnessFails, Fail, Counters, IssuerInv, Idle, Working
  <2>10. CASE SetRegisteredClaims
    <3>1. Counters' /\ ipc' \in {"sign", "failed"} /\ ipc = "claims"
      <4>1. ipc = "claims" /\ ipc' \in {"sign", "failed"} /\ UNCHANGED <<clock, iopts, fresh, calls>>
        BY <2>10 DEF SetRegisteredClaims, Fail
      <4> QED
        BY <2>1, <4>1 DEF Counters
    <3>2. ipc' = "sign" => Safe'
      BY <2>1, <2>10, <3>1, RegisterSafe DEF Working
    <3> QED
      BY <3>1, <3>2 DEF IssuerInv, Idle, Working
  <2>11. CASE Sign
    <3>1. Counters' /\ ipc' \in {"issued", "failed"} /\ ipc = "sign" /\ UNCHANGED <<iopts, callVars>>
      BY <2>1, <2>11 DEF Sign, Fail, Counters
    <3>2. ipc' = "issued" => Safe'
      BY <2>1, <3>1, StaySafe DEF Working
    <3> QED
      BY <3>1, <3>2 DEF IssuerInv, Idle, Working
  <2>12. CASE ReturnIssued
    BY <2>1, <2>12 DEF ReturnIssued, Counters, IssuerInv, Idle, Working
  <2>13. CASE UNCHANGED issuerVars
    <3>1. /\ UNCHANGED <<iopts, callVars>>
          /\ UNCHANGED <<clock, iopts, ipc, icur, handled, discs, fresh, calls>>
      BY <2>13 DEF issuerVars, issueVars, callVars
    <3>2. Counters' /\ Idle'
      BY <2>1, <3>1 DEF Counters, Idle
    <3>3. Working => Safe'
      BY <2>1, <3>1, StaySafe
    <3> QED
      BY <3>1, <3>2, <3>3 DEF IssuerInv, Working
  <2> QED
    BY <2>3, <2>4, <2>5, <2>6, <2>7, <2>8, <2>9, <2>10, <2>11, <2>12, <2>13
       DEF IssuerNext, IssuerStep
<1> QED
  BY <1>1, <1>2, PTL DEF IssuerSpec

(* The type invariant: while Issue works, the path of the running          *)
(* recursion is an object of the tree, and the counters stay bounded.      *)
THEOREM IssuerTypes == IssuerSpec => []IssuerTypeOK
<1>1. IssuerInv => IssuerTypeOK
  <2> SUFFICES ASSUME IssuerInv PROVE IssuerTypeOK
    OBVIOUS
  <2>1. Counters /\ Idle /\ (Working => Safe)
    BY DEF IssuerInv
  <2>2. ASSUME Working
        PROVE  /\ icur \in Objects(tree) /\ DOMAIN tree.sd = Objects(tree)
               /\ handled \subseteq Paths(req) /\ (ipc # "build" => icur = <<>>)
    <3>1. Recursion /\ Carriage
      BY <2>1, <2>2 DEF Safe
    <3>2. req \in Requests /\ icur \in Structs(req) /\ icur \in Path /\ handled \subseteq Paths(req)
      BY <3>1, StructTree DEF Recursion, Processed
    <3>3. DOMAIN tree.sd = Objects(tree) /\ (ipc # "build" => icur = <<>>)
      BY <3>1 DEF Recursion, Carriage, Carriers, Carried
    <3>4. OnStack(icur)
      BY <3>2, PrefixOrder DEF OnStack
    <3>5. ~Dropped(icur)
      BY <3>3 DEF Dropped
    <3>6. ~Left(icur)
      BY DEF Left, OnStack
    <3> QED
      BY <3>1, <3>2, <3>3, <3>4, <3>5, <3>6 DEF Carriage, Entered
  <2> QED
    BY <2>1, <2>2 DEF IssuerTypeOK, Counters, Working
<1> QED
  BY <1>1, IssuerInvariance, PTL

(* SelectiveHidden: no field named in a SelectiveFields list can be read   *)
(* from the issuer JWT, provided that every StructuredClaim sits directly  *)
(* inside StructuredClaims.  One inside a plain map or an array is never   *)
(* reached by buildClaimsObject, and its list is not honoured (run         *)
(* issuer_embedded).                                                       *)
THEOREM NothingSelectiveShown ==
  ASSUME \A r \in Requests : DOMAIN r.sel \subseteq Structs(r)
  PROVE  IssuerSpec => []SelectiveHidden
<1>1. IssuerInv => SelectiveHidden
  <2> SUFFICES ASSUME IssuerInv, ipc = "issued",
                      NEW o \in DOMAIN req.sel, NEW x \in Objects(tree),
                      NEW f \in req.sel[o], NEW k \in DOMAIN tree.val[x],
                      "claim" \in DOMAIN tree.val[x][k],
                      IsPrefix(tree.val[x][k].claim, Append(o, f))
               PROVE  FALSE
    BY DEF SelectiveHidden
  <2>1. Recursion /\ Clear
    BY DEF IssuerInv, Safe, Working
  <2>2. req \in Requests /\ handled \subseteq Path /\ IsRequest(req)
    BY <2>1, StructTree, IssuerAssumption DEF Recursion
  <2>3. o \in Structs(req) /\ o \in Path /\ f \in STRING
    BY <2>2, StructTree DEF IsRequest
  <2>4. PICK p \in Path : /\ p = Append(o, f) /\ p # <<>> /\ Front(p) = o /\ Last(p) = f
    BY <2>3, FrontAppend
  <2>5. PICK q \in handled, c \in Path :
          /\ c = tree.val[x][k].claim /\ IsPrefix(q, c)
          /\ req.kind[q] # "structured" /\ ~Selective(req, q)
    BY <2>1 DEF Clear
  <2>6. q \in Path /\ IsPrefix(c, p)
    BY <2>2, <2>4, <2>5
  <2>7. IsPrefix(q, p)
    BY <2>5, <2>6, PrefixOrder
  <2>8. CASE q = p
    BY <2>4, <2>5, <2>8 DEF Selective
  <2>9. CASE q # p
    <3>1. IsPrefix(q, o)
      <4>1. \A z \in Path : IsPrefix(z, p) <=> z = p \/ IsPrefix(z, Front(p))
        BY <2>4, PrefixFront
      <4>2. Front(p) = o /\ q \in Path
        BY <2>4, <2>6
      <4> QED
        BY <2>7, <2>9, <4>1, <4>2, Zenon
    <3>2. q \in Structs(req)
      BY <2>2, <2>3, <2>6, <3>1, StructTree
    <3>3. q # <<>>
      BY <2>1, <2>2, <2>5, StructTree DEF Recursion
    <3> QED
      BY <2>5, <3>2, <3>3 DEF Structs
  <2> QED
    BY <2>8, <2>9
<1> QED
  BY <1>1, IssuerInvariance, PTL

-----------------------------------------------------------------------------
(* The finished credential: everything has been handled, and an object has *)
(* left the payload exactly when something around it is selective.         *)
LEMMA Finished ==
  ASSUME IssuerInv, ipc = "issued"
  PROVE  /\ Safe /\ req \in Requests /\ handled = Processed(req) /\ icur = <<>>
         /\ \A o \in Structs(req) : Entered(o)
         /\ \A o \in Structs(req) :
              Left(o) <=> \E q \in Paths(req) : IsPrefix(q, o) /\ Selective(req, q)
         /\ <<>> \in Objects(tree)
<1>1. Safe /\ Recursion /\ Carriage /\ req \in Requests /\ icur = <<>>
  BY DEF IssuerInv, Safe, Working, Recursion
<1>2. handled = Processed(req)
  BY <1>1, AllHandled DEF Recursion
<1>3. Paths(req) \subseteq Path \ {<<>>} /\ Structs(req) \subseteq Path /\ <<>> \in Structs(req)
  BY <1>1, RequestTree, StructTree
<1>4. \A o \in Path : OnStack(o) <=> o = <<>>
  <2>1. \A o \in Path : IsPrefix(o, <<>>) <=> o = <<>>
    <3>1. Len(<<>>) = 0 /\ <<>> \in Path /\ \A o \in Path : Len(o) \in Nat
      BY LenProperties DEF Path
    <3> QED
      BY <3>1, PrefixOrder
  <2> QED
    BY <1>1, <2>1 DEF OnStack
<1>5. \A o \in Structs(req) : Entered(o)
  BY <1>2, <1>3, <1>4 DEF Entered, Structs
<1>6. \A q \in Paths(req) : ~OnStack(q)
  BY <1>3, <1>4
<1>7. \A o \in Structs(req) : Left(o) <=> \E q \in Paths(req) : IsPrefix(q, o) /\ Selective(req, q)
  BY <1>6 DEF Left
<1>8. <<>> \in Objects(tree)
  <2>1. \A q \in Paths(req) : ~IsPrefix(q, <<>>)
    BY <1>1, <1>6 DEF OnStack
  <2>2. ~Left(<<>>) /\ ~Dropped(<<>>)
    BY <1>3, <1>7, <2>1 DEF Dropped
  <2> QED
    BY <1>1, <1>3, <1>5, <2>2 DEF Carriage
<1> QED
  BY <1>1, <1>2, <1>5, <1>7, <1>8

(* Lost, in terms of the object around the claim.                          *)
LEMMA LostMeaning ==
  ASSUME IssuerInv, ipc = "issued", NEW p \in Processed(req)
  PROVE  LET o == Front(p)
         IN  /\ o \in Structs(req) /\ p \in Members(req, o)
             /\ Lost(p) <=> p[1] \in DOMAIN RegisteredClaims /\ ~Left(o)
             /\ o = <<>> => p[1] = Last(p) /\ ~Left(o) /\ p # <<>>
             /\ o # <<>> => o[1] = p[1]
<1> DEFINE o == Front(p)
<1>1. /\ req \in Requests /\ \A x \in Structs(req) :
           Left(x) <=> \E q \in Paths(req) : IsPrefix(q, x) /\ Selective(req, q)
  BY Finished
<1>2. /\ p \in Path /\ p # <<>> /\ o \in Structs(req) /\ p \in Members(req, o) /\ o \in Path
      /\ Paths(req) \subseteq Path \ {<<>>}
  BY <1>1, RequestTree, StructTree
<1>3. \A q \in Paths(req) : IsStrictPrefix(q, p) <=> IsPrefix(q, o)
  <2>1. (\A q \in Path : IsPrefix(q, p) <=> (q = p \/ IsPrefix(q, o))) /\ ~IsPrefix(p, o)
    BY <1>2, PrefixFront
  <2> QED
    BY <1>2, <2>1 DEF IsStrictPrefix
<1>4. Lost(p) <=> p[1] \in DOMAIN RegisteredClaims /\ ~Left(o)
  BY <1>1, <1>2, <1>3 DEF Lost
<1>5. /\ Len(p) \in Nat /\ Len(p) >= 1 /\ Len(o) = Len(p) - 1
      /\ (\A i \in 1 .. Len(p) - 1 : o[i] = p[i]) /\ p = Append(o, Last(p)) /\ Last(p) \in STRING
  BY <1>2, FrontLast
<1>6. o # <<>> => o[1] = p[1]
  <2> SUFFICES ASSUME o # <<>> PROVE o[1] = p[1]
    OBVIOUS
  <2>1. Len(o) \in Nat /\ Len(o) >= 1
    BY <1>2, FrontLast
  <2>2. 1 \in 1 .. Len(p) - 1
    BY <1>5, <2>1
  <2> QED
    BY <1>5, <2>2
<1>7. o = <<>> => p[1] = Last(p) /\ ~Left(o)
  <2> SUFFICES ASSUME o = <<>> PROVE p[1] = Last(p) /\ ~Left(o)
    OBVIOUS
  <2>1. p[1] = Last(p)
    BY <1>5
  <2>2. \A q \in Path : IsPrefix(q, <<>>) => q = <<>>
    <3>1. Len(<<>>) = 0 /\ <<>> \in Path /\ \A x \in Path : Len(x) \in Nat
      BY LenProperties DEF Path
    <3> QED
      BY <3>1, PrefixOrder
  <2> QED
    BY <1>1, <1>2, <2>1, <2>2
<1> QED
  BY <1>2, <1>4, <1>6, <1>7

(* A carrier that shows a claim, as ClaimsPreserved counts them.           *)
Shows(n, p) ==
  /\ Front(p) \in Objects(Carried(n))
  /\ Last(p) \in DOMAIN Carried(n).val[Front(p)]
  /\ Carried(n).val[Front(p)][Last(p)] \in {[claim |-> p], [obj |-> p]}

(* A claim that is selective, or replaced by a registered claim, is shown  *)
(* by no carrier.                                                          *)
LEMMA ShownNowhere ==
  ASSUME IssuerInv, ipc = "issued", NEW p \in Processed(req), Selective(req, p) \/ Lost(p),
         NEW n \in Carriers, Shows(n, p)
  PROVE  FALSE
<1>1. PICK o : o = Front(p)
  OBVIOUS
<1>2. Contents /\ Registered /\ Carriage /\ <<>> \in Objects(tree)
  BY Finished DEF Safe
<1>3. /\ o \in Structs(req) /\ p \in Members(req, o)
      /\ Lost(p) <=> p[1] \in DOMAIN RegisteredClaims /\ ~Left(o)
      /\ o = <<>> => p[1] = Last(p) /\ ~Left(o) /\ p # <<>>
      /\ o # <<>> => o[1] = p[1]
  BY <1>1, LostMeaning
<1>4. /\ o \in Objects(Carried(n)) /\ Last(p) \in DOMAIN Carried(n).val[o]
      /\ Carried(n).val[o][Last(p)] \in {[claim |-> p], [obj |-> p]}
  BY <1>1 DEF Shows
<1>5. n # 0 => Left(o)
  BY <1>2, <1>3, <1>4 DEF Carriage
<1>6. CASE o = <<>> /\ Dropped(p)
  <2>1. n = 0
    BY <1>3, <1>5, <1>6
  <2>2. Last(p) \in DOMAIN RegisteredClaims
    BY <1>3, <1>6 DEF Dropped
  <2>3. PICK v : v = tree.val[<<>>][Last(p)]
    OBVIOUS
  <2>4. "claim" \notin DOMAIN v /\ "obj" \notin DOMAIN v
    BY <1>2, <2>2, <2>3 DEF Registered
  <2>5. v \in {[claim |-> p], [obj |-> p]}
    BY <1>4, <1>6, <2>1, <2>3 DEF Carried
  <2> QED
    BY <2>4, <2>5
<1>7. CASE ~(o = <<>> /\ Dropped(p))
  <2>1. ~Selective(req, p)
    BY <1>2, <1>3, <1>4, <1>7 DEF Contents
  <2>2. p[1] \in DOMAIN RegisteredClaims /\ ~Left(o)
    BY <1>3, <2>1
  <2>3. o # <<>>
    BY <1>3, <1>7, <2>2 DEF Dropped
  <2>4. n = 0 /\ Dropped(o)
    BY <1>3, <1>5, <2>2, <2>3 DEF Dropped
  <2>5. o \notin Objects(tree)
    BY <1>2, <1>3, <2>4 DEF Carriage
  <2> QED
    BY <1>4, <2>4, <2>5 DEF Carried
<1> QED
  BY <1>6, <1>7

(* Any other claim is shown by the one carrier of its object.              *)
LEMMA ShownOnce ==
  ASSUME IssuerInv, ipc = "issued", NEW p \in Processed(req), ~Selective(req, p), ~Lost(p)
  PROVE  \E n \in Carriers : {m \in Carriers : Shows(m, p)} = {n}
<1>1. PICK o : o = Front(p)
  OBVIOUS
<1>2. /\ Contents /\ Carriage /\ <<>> \in Objects(tree) /\ handled = Processed(req)
      /\ \A x \in Structs(req) : Entered(x)
  BY Finished DEF Safe
<1>3. /\ o \in Structs(req) /\ p \in Members(req, o)
      /\ Lost(p) <=> p[1] \in DOMAIN RegisteredClaims /\ ~Left(o)
      /\ o = <<>> => p[1] = Last(p) /\ ~Left(o) /\ p # <<>>
      /\ o # <<>> => o[1] = p[1]
  BY <1>1, LostMeaning
<1>4. ~(o = <<>> /\ Dropped(p))
  BY <1>3 DEF Dropped
<1>5. PICK n \in Carriers : o \in Objects(Carried(n))
  <2>1. CASE Left(o)
    BY <1>2, <1>3, <2>1 DEF Carriage
  <2>2. CASE ~Left(o)
    <3>1. ~Dropped(o)
      BY <1>3, <2>2 DEF Dropped
    <3>2. o \in Objects(tree)
      BY <1>2, <1>3, <2>2, <3>1 DEF Carriage
    <3> QED
      BY <3>2 DEF Carriers, Carried
  <2> QED
    BY <2>1, <2>2
<1>6. Shows(n, p)
  <2>1. Last(p) \in DOMAIN Carried(n).val[o] /\ Carried(n).val[o][Last(p)] = Shown(req, p)
    BY <1>2, <1>3, <1>4, <1>5 DEF Contents
  <2>2. Shown(req, p) \in {[claim |-> p], [obj |-> p]}
    BY DEF Shown
  <2> QED
    BY <1>1, <1>5, <2>1, <2>2 DEF Shows
<1>7. ASSUME NEW m \in Carriers, Shows(m, p) PROVE m = n
  <2>1. o \in Objects(Carried(m))
    BY <1>1, <1>7 DEF Shows
  <2> QED
    BY <1>2, <1>5, <2>1 DEF Carriage
<1> QED
  BY <1>6, <1>7

(* ClaimsPreserved: Issue duplicates no claim, and loses only those that a *)
(* registered claim replaces.                                              *)
THEOREM NoClaimLost == IssuerSpec => []ClaimsPreserved
<1>1. IssuerInv => ClaimsPreserved
  <2> SUFFICES ASSUME IssuerInv, ipc = "issued", NEW p \in Processed(req)
               PROVE  Cardinality({n \in Carriers : Shows(n, p)})
                        = IF Selective(req, p) \/ Lost(p) THEN 0 ELSE 1
    BY DEF ClaimsPreserved, Shows
  <2>1. CASE Selective(req, p) \/ Lost(p)
    <3>1. {n \in Carriers : Shows(n, p)} = {}
      BY <2>1, ShownNowhere
    <3> QED
      BY <2>1, <3>1, FS_EmptySet
  <2>2. CASE ~(Selective(req, p) \/ Lost(p))
    <3>1. PICK n : {m \in Carriers : Shows(m, p)} = {n}
      BY <2>2, ShownOnce
    <3> QED
      BY <2>2, <3>1, FS_Singleton
  <2> QED
    BY <2>1, <2>2
<1> QED
  BY <1>1, IssuerInvariance, PTL

-----------------------------------------------------------------------------
(* The digest arrays of the finished credential, slot by slot.             *)
LEMMA SlotMeaning ==
  \A s : s \in Slots <=>
    \E n \in Carriers : \E o \in Objects(Carried(n)) : \E j \in DOMAIN Carried(n).sd[o] :
      s = <<n, o, j>>
BY DEF Slots

(* A digest tells its disclosure, and no decoy is one.                     *)
LEMMA DigestTells ==
  ASSUME Digests, Disclosures, NEW i \in DOMAIN discs
  PROVE  /\ Digest(iopts.hashAlg, discs[i])[1] # "decoy"
         /\ \A j \in DOMAIN discs :
              Digest(iopts.hashAlg, discs[j]) = Digest(iopts.hashAlg, discs[i]) => i = j
<1>1. iopts.hashAlg # "decoy"
  <2>1. SDAlgFromHash(iopts.hashAlg) # Nil
    BY DEF Digests
  <2> QED
    BY <2>1 DEF SDAlgFromHash
<1>2. Digest(iopts.hashAlg, discs[i])[1] # "decoy"
  BY <1>1 DEF Digest
<1>3. ASSUME NEW j \in DOMAIN discs,
             Digest(iopts.hashAlg, discs[j]) = Digest(iopts.hashAlg, discs[i])
      PROVE  i = j
  <2>1. discs[i] = discs[j]
    BY <1>3 DEF Digest
  <2>2. Of(i) = Of(j)
    BY <2>1 DEF Of, Opened
  <2> QED
    BY <2>2 DEF Disclosures
<1> QED
  BY <1>2, <1>3

(* The slot of a disclosure is in the object around its claim.             *)
LEMMA SlotOfMeaning ==
  ASSUME IssuerInv, ipc = "issued", NEW i \in DOMAIN discs, NEW s
  PROVE  s \in SlotsOf(i) <=>
           \E n \in Carriers : \E j \in DOMAIN Carried(n).sd[Front(Of(i))] :
             /\ Front(Of(i)) \in Objects(Carried(n)) /\ s = <<n, Front(Of(i)), j>>
             /\ Carried(n).sd[Front(Of(i))][j] = Digest(iopts.hashAlg, discs[i])
<1>1. Digests /\ Disclosures
  BY DEF IssuerInv, Working, Safe
<1>2. PICK dig : dig = Digest(iopts.hashAlg, discs[i])
  OBVIOUS
<1>3. s \in SlotsOf(i) <=> s \in Slots /\ Carried(s[1]).sd[s[2]][s[3]] = dig
  BY <1>2 DEF SlotsOf
<1>4. ASSUME s \in SlotsOf(i)
      PROVE  \E n \in Carriers : \E j \in DOMAIN Carried(n).sd[Front(Of(i))] :
               /\ Front(Of(i)) \in Objects(Carried(n)) /\ s = <<n, Front(Of(i)), j>>
               /\ Carried(n).sd[Front(Of(i))][j] = dig
  <2>1. PICK n \in Carriers : \E o \in Objects(Carried(n)) : \E j \in DOMAIN Carried(n).sd[o] :
               s = <<n, o, j>>
    BY <1>3, <1>4, SlotMeaning
  <2>2. PICK o \in Objects(Carried(n)) : \E j \in DOMAIN Carried(n).sd[o] : s = <<n, o, j>>
    BY <2>1
  <2>3. PICK j \in DOMAIN Carried(n).sd[o] : s = <<n, o, j>>
    BY <2>2
  <2>4. Carried(n).sd[o][j] = dig
    BY <1>3, <1>4, <2>3
  <2>5. ~Decoy(n, o, j)
    BY <1>1, <1>2, <2>4, DigestTells DEF Decoy
  <2>6. Real(n, o, j)
    BY <1>1, <2>5 DEF Digests
  <2>7. PICK k \in DOMAIN discs :
          Carried(n).sd[o][j] = Digest(iopts.hashAlg, discs[k]) /\ Front(Of(k)) = o
    BY <2>6 DEF Real
  <2>8. k = i
    BY <1>1, <1>2, <2>4, <2>7, DigestTells
  <2> QED
    BY <2>3, <2>4, <2>7, <2>8
<1>5. ASSUME NEW n \in Carriers, NEW j \in DOMAIN Carried(n).sd[Front(Of(i))],
             Front(Of(i)) \in Objects(Carried(n)), s = <<n, Front(Of(i)), j>>,
             Carried(n).sd[Front(Of(i))][j] = dig
      PROVE  s \in SlotsOf(i)
  <2>1. s \in Slots
    BY <1>5, SlotMeaning
  <2>2. s[1] = n /\ s[2] = Front(Of(i)) /\ s[3] = j
    BY <1>5
  <2> QED
    BY <1>3, <1>5, <2>1, <2>2
<1> QED
  BY <1>2, <1>4, <1>5

(* A disclosure has one slot, or none when its object is carried nowhere.  *)
LEMMA OneSlot ==
  ASSUME IssuerInv, ipc = "issued", NEW i \in DOMAIN discs
  PROVE  /\ (\E n \in Carriers : Front(Of(i)) \in Objects(Carried(n))) =>
              \E s \in Slots : SlotsOf(i) = {s} /\ s[2] = Front(Of(i))
         /\ (\A n \in Carriers : Front(Of(i)) \notin Objects(Carried(n))) => SlotsOf(i) = {}
<1>1. Digests /\ Carriage
  BY DEF IssuerInv, Working, Safe
<1>2. PICK o, dig : o = Front(Of(i)) /\ dig = Digest(iopts.hashAlg, discs[i])
  OBVIOUS
<1>3. \A s : s \in SlotsOf(i) <=>
           \E n \in Carriers : \E j \in DOMAIN Carried(n).sd[o] :
             o \in Objects(Carried(n)) /\ s = <<n, o, j>> /\ Carried(n).sd[o][j] = dig
  BY <1>2, SlotOfMeaning
<1>4. ASSUME NEW n \in Carriers, o \in Objects(Carried(n))
      PROVE  \E s \in Slots : SlotsOf(i) = {s} /\ s[2] = o
  <2>1. PICK j \in DOMAIN Carried(n).sd[o] : Carried(n).sd[o][j] = dig
    BY <1>1, <1>2, <1>4 DEF Digests
  <2>2. PICK s : s = <<n, o, j>>
    OBVIOUS
  <2>3. s \in SlotsOf(i)
    BY <1>3, <1>4, <2>1, <2>2
  <2>4. ASSUME NEW t \in SlotsOf(i) PROVE t = s
    <3>1. PICK m \in Carriers : \E k \in DOMAIN Carried(m).sd[o] :
             o \in Objects(Carried(m)) /\ t = <<m, o, k>> /\ Carried(m).sd[o][k] = dig
      BY <1>3, <2>4
    <3>2. PICK k \in DOMAIN Carried(m).sd[o] :
             o \in Objects(Carried(m)) /\ t = <<m, o, k>> /\ Carried(m).sd[o][k] = dig
      BY <3>1
    <3>3. m = n
      BY <1>1, <1>4, <3>2 DEF Carriage
    <3>4. k = j
      BY <1>1, <1>4, <2>1, <3>2, <3>3 DEF Digests
    <3> QED
      BY <2>2, <3>2, <3>3, <3>4
  <2>5. s \in Slots /\ s[2] = o
    BY <2>2, <2>3 DEF SlotsOf
  <2> QED
    BY <2>3, <2>4, <2>5
<1> QED
  BY <1>2, <1>3, <1>4

(* The claims CommitsOnce excepts: the object around them is replaced.     *)
Orphans == {p \in Processed(req) : Selective(req, p) /\ Len(p) > 1 /\ Lost(p)}

(* An orphan is a selective claim whose object no carrier holds.           *)
LEMMA OrphanMeaning ==
  ASSUME IssuerInv, ipc = "issued", NEW p \in Processed(req), Selective(req, p)
  PROVE  p \in Orphans <=> \A n \in Carriers : Front(p) \notin Objects(Carried(n))
<1>1. PICK o : o = Front(p)
  OBVIOUS
<1>2. Carriage /\ req \in Requests /\ \A x \in Structs(req) : Entered(x)
  BY Finished DEF Safe
<1>3. /\ o \in Structs(req) /\ p \in Members(req, o)
      /\ Lost(p) <=> p[1] \in DOMAIN RegisteredClaims /\ ~Left(o)
      /\ o # <<>> => o[1] = p[1]
  BY <1>1, LostMeaning
<1>4. Len(p) > 1 <=> o # <<>>
  <2>1. p \in Path /\ p # <<>>
    BY <1>2, StructTree
  <2>2. Len(p) \in Nat /\ Len(p) >= 1 /\ Len(o) = Len(p) - 1 /\ o \in Path
    BY <1>1, <2>1, FrontLast
  <2>3. Len(o) \in Nat /\ (o # <<>> => Len(o) >= 1)
    BY <2>2, FrontLast, LenProperties DEF Path
  <2>4. o = <<>> => Len(o) = 0
    OBVIOUS
  <2> QED
    BY <2>2, <2>3, <2>4
<1>5. p \in Orphans <=> Dropped(o) /\ ~Left(o)
  BY <1>3, <1>4 DEF Orphans, Dropped
<1>6. CASE Left(o)
  BY <1>1, <1>2, <1>3, <1>5, <1>6 DEF Carriage
<1>7. CASE ~Left(o) /\ ~Dropped(o)
  <2>1. o \in Objects(tree)
    BY <1>2, <1>3, <1>7 DEF Carriage
  <2> QED
    BY <1>1, <1>5, <1>7, <2>1 DEF Carriers, Carried
<1>8. CASE ~Left(o) /\ Dropped(o)
  <2>1. o \notin Objects(tree)
    BY <1>2, <1>3, <1>8 DEF Carriage
  <2>2. \A n \in Carriers \ {0} : o \notin Objects(Carried(n))
    BY <1>2, <1>3, <1>8 DEF Carriage
  <2> QED
    BY <1>1, <1>5, <1>8, <2>1, <2>2 DEF Carried
<1> QED
  BY <1>6, <1>7, <1>8

(* Every selective claim has its disclosure, and that one its slot.        *)
LEMMA EachOnce ==
  ASSUME IssuerInv, ipc = "issued", NEW p \in Processed(req), Selective(req, p)
  PROVE  \E i \in DOMAIN discs :
           /\ {j \in DOMAIN discs : Opened(j).Value.claim = p} = {i}
           /\ \/ p \in Orphans /\ SlotsOf(i) = {}
              \/ p \notin Orphans /\ \E s \in Slots : SlotsOf(i) = {s} /\ s[2] = Front(p)
<1>1. Disclosures /\ handled = Processed(req)
  BY Finished DEF Safe
<1>2. PICK i \in DOMAIN discs : Of(i) = p
  BY <1>1 DEF Disclosures
<1>3. {j \in DOMAIN discs : Opened(j).Value.claim = p} = {i}
  BY <1>1, <1>2 DEF Disclosures, Of
<1>4. p \in Orphans => SlotsOf(i) = {}
  BY <1>2, OrphanMeaning, OneSlot
<1>5. p \notin Orphans => \E s \in Slots : SlotsOf(i) = {s} /\ s[2] = Front(p)
  BY <1>2, OrphanMeaning, OneSlot
<1> QED
  BY <1>3, <1>4, <1>5

-----------------------------------------------------------------------------
(* Counting: of the numbers up to L those not in S stand for the members   *)
(* of R, and the members of the rest of T are K.                           *)
LEMMA Counting ==
  ASSUME NEW L \in Nat, NEW K \in Nat, NEW S \in SUBSET (1 .. L), NEW T, NEW R \in SUBSET T,
         ExistsBijection((1 .. L) \ S, R), ExistsBijection(1 .. K, T \ R)
  PROVE  /\ IsFiniteSet(S) /\ Cardinality(S) \in Nat
         /\ Cardinality(T) = L - Cardinality(S) + K
<1>1. /\ IsFiniteSet(1 .. L) /\ Cardinality(1 .. L) = L
      /\ IsFiniteSet(1 .. K) /\ Cardinality(1 .. K) = K
  <2>1. ASSUME NEW n \in Nat PROVE IsFiniteSet(1 .. n) /\ Cardinality(1 .. n) = n
    <3>1. IsFiniteSet(1 .. n) /\ Cardinality(1 .. n) = IF 1 > n THEN 0 ELSE n - 1 + 1
      BY FS_Interval
    <3> QED
      BY <3>1
  <2> QED
    BY <2>1
<1>2. IsFiniteSet(S) /\ IsFiniteSet((1 .. L) \ S)
  BY <1>1, FS_Subset
<1>3. Cardinality(S) \in Nat /\ Cardinality((1 .. L) \ S) \in Nat
  BY <1>2, FS_CardinalityType
<1>4. L = Cardinality(S) + Cardinality((1 .. L) \ S)
  <2>1. S \cup ((1 .. L) \ S) = 1 .. L /\ S \cap ((1 .. L) \ S) = {}
    OBVIOUS
  <2>2. Cardinality(S \cup ((1 .. L) \ S)) =
          Cardinality(S) + Cardinality((1 .. L) \ S) - Cardinality(S \cap ((1 .. L) \ S))
    BY <1>2, FS_Union
  <2>3. L = Cardinality(S) + Cardinality((1 .. L) \ S) - Cardinality({})
    BY <1>1, <2>1, <2>2
  <2> QED
    BY <1>3, <2>3, FS_EmptySet
<1>5. IsFiniteSet(R) /\ Cardinality(R) = Cardinality((1 .. L) \ S)
  BY <1>2, FS_Bijection
<1>6. IsFiniteSet(T \ R) /\ Cardinality(T \ R) = K
  BY <1>1, FS_Bijection
<1>7. Cardinality(T) = Cardinality(R) + Cardinality(T \ R)
  <2>1. R \cup (T \ R) = T /\ R \cap (T \ R) = {}
    OBVIOUS
  <2>2. Cardinality(R \cup (T \ R)) =
          Cardinality(R) + Cardinality(T \ R) - Cardinality(R \cap (T \ R))
    BY <1>5, <1>6, FS_Union
  <2>3. Cardinality(T) = Cardinality(R) + Cardinality(T \ R) - Cardinality({})
    BY <2>1, <2>2
  <2>4. Cardinality(R) \in Nat /\ Cardinality(T \ R) \in Nat /\ Cardinality({}) = 0
    BY <1>3, <1>5, <1>6, FS_EmptySet
  <2> QED
    BY <2>3, <2>4
<1> QED
  BY <1>2, <1>3, <1>4, <1>5, <1>6, <1>7

(* The slots with a disclosure's digest, and the decoys.                   *)
RealSlots == {s \in Slots : \E i \in DOMAIN discs : s \in SlotsOf(i)}

OrphanDiscs == {i \in DOMAIN discs : Of(i) \in Orphans}

(* Orphans have one disclosure each.                                       *)
LEMMA OrphansCounted ==
  ASSUME IssuerInv, ipc = "issued"
  PROVE  ExistsBijection(OrphanDiscs, Orphans)
<1>1. Disclosures /\ handled = Processed(req)
  BY Finished DEF Safe
<1>2. PICK f : f = [i \in OrphanDiscs |-> Of(i)]
  OBVIOUS
<1>3. f \in [OrphanDiscs -> Orphans] /\ \A i \in OrphanDiscs : f[i] = Of(i)
  BY <1>2 DEF OrphanDiscs
<1>4. \A i, j \in OrphanDiscs : f[i] = f[j] => i = j
  BY <1>1, <1>3 DEF Disclosures, OrphanDiscs
<1>5. \A p \in Orphans : \E i \in OrphanDiscs : f[i] = p
  BY <1>1, <1>3 DEF Disclosures, OrphanDiscs, Orphans
<1> QED
  BY <1>3, <1>4, <1>5 DEF ExistsBijection, Bijection, Injection, Surjection, IsInjective

(* Every other disclosure has one slot, and no two the same.               *)
LEMMA SlotsCounted ==
  ASSUME IssuerInv, ipc = "issued"
  PROVE  ExistsBijection(DOMAIN discs \ OrphanDiscs, RealSlots)
<1> DEFINE D == DOMAIN discs \ OrphanDiscs
<1>1. Disclosures /\ handled = Processed(req) /\ Digests
  BY Finished DEF Safe
<1>2. ASSUME NEW i \in DOMAIN discs
      PROVE  /\ i \in D => \E s \in Slots : SlotsOf(i) = {s}
             /\ i \notin D => SlotsOf(i) = {}
  <2>1. Of(i) \in Processed(req) /\ Selective(req, Of(i))
    BY <1>1 DEF Disclosures
  <2>2. i \notin D <=> \A n \in Carriers : Front(Of(i)) \notin Objects(Carried(n))
    BY <2>1, OrphanMeaning DEF OrphanDiscs
  <2> QED
    BY <2>2, OneSlot
<1>3. PICK f : f = [i \in D |-> CHOOSE s \in Slots : SlotsOf(i) = {s}]
  OBVIOUS
<1>4. ASSUME NEW i \in D PROVE f[i] \in Slots /\ SlotsOf(i) = {f[i]}
  <2>1. f[i] = CHOOSE s \in Slots : SlotsOf(i) = {s}
    BY <1>3
  <2> QED
    BY <1>2, <2>1
<1>5. f \in [D -> RealSlots]
  <2>1. \A i \in D : f[i] \in RealSlots
    BY <1>4 DEF RealSlots
  <2> QED
    BY <1>3, <2>1
<1>6. ASSUME NEW i \in D, NEW j \in D, f[i] = f[j] PROVE i = j
  <2>1. f[i] \in SlotsOf(i) /\ f[i] \in SlotsOf(j)
    BY <1>4, <1>6
  <2>2. Digest(iopts.hashAlg, discs[j]) = Digest(iopts.hashAlg, discs[i])
    BY <2>1 DEF SlotsOf
  <2> QED
    BY <1>1, <2>2, DigestTells
<1>7. ASSUME NEW s \in RealSlots PROVE \E i \in D : f[i] = s
  <2>1. PICK i \in DOMAIN discs : s \in SlotsOf(i)
    BY DEF RealSlots
  <2>2. i \in D
    BY <1>2, <2>1
  <2> QED
    BY <1>4, <2>1, <2>2
<1> HIDE DEF D
<1>8. ExistsBijection(D, RealSlots)
  BY <1>5, <1>6, <1>7 DEF ExistsBijection, Bijection, Injection, Surjection, IsInjective
<1> QED
  BY <1>8 DEF D

(* What is left over are the decoys AddDecoys made.                        *)
LEMMA DecoysCounted ==
  ASSUME IssuerInv, ipc = "issued"
  PROVE  ExistsBijection(1 .. iopts.decoyCount, Slots \ RealSlots)
<1>1. Digests /\ Disclosures /\ <<>> \in Objects(tree)
  BY Finished DEF Safe
<1>2. PICK K \in Nat : K = iopts.decoyCount
  BY IssuerAssumption DEF IssuerInv, Counters
<1>3. PICK sd : sd = tree.sd[<<>>]
  OBVIOUS
<1>4. sd \in Seq(ToSet(sd)) /\ Carried(0) = tree /\ 0 \in Carriers
  BY <1>1, <1>3 DEF Digests, Carriers, Carried
<1>5. Len(sd) \in Nat /\ DOMAIN sd = 1 .. Len(sd)
  BY <1>4, LenProperties
<1>6. PICK m \in Nat : m = Len(sd) - K /\ \A j \in DOMAIN sd : Decoy(0, <<>>, j) <=> j > m
  BY <1>1, <1>2, <1>3 DEF Digests
<1>7. PICK f : f = [k \in 1 .. K |-> <<0, <<>>, m + k>>]
  OBVIOUS
<1>8. ASSUME NEW j \in DOMAIN sd, j > m PROVE <<0, <<>>, j>> \in Slots \ RealSlots
  <2>1. PICK s : s = <<0, <<>>, j>>
    OBVIOUS
  <2>2. s \in Slots
    BY <1>1, <1>3, <1>4, <2>1, SlotMeaning
  <2>3. sd[j][1] = "decoy" /\ Carried(s[1]).sd[s[2]][s[3]] = sd[j]
    BY <1>3, <1>4, <1>6, <1>8, <2>1 DEF Decoy
  <2>4. \A i \in DOMAIN discs : s \notin SlotsOf(i)
    BY <1>1, <2>3, DigestTells DEF SlotsOf
  <2> QED
    BY <2>1, <2>2, <2>4 DEF RealSlots
<1>9. ASSUME NEW s \in Slots \ RealSlots PROVE \E j \in DOMAIN sd : j > m /\ s = <<0, <<>>, j>>
  <2>1. PICK n \in Carriers : \E o \in Objects(Carried(n)) : \E j \in DOMAIN Carried(n).sd[o] :
               s = <<n, o, j>>
    BY SlotMeaning
  <2>2. PICK o \in Objects(Carried(n)) : \E j \in DOMAIN Carried(n).sd[o] : s = <<n, o, j>>
    BY <2>1
  <2>3. PICK j \in DOMAIN Carried(n).sd[o] : s = <<n, o, j>>
    BY <2>2
  <2>4. ~Real(n, o, j)
    <3> SUFFICES ASSUME NEW i \in DOMAIN discs,
                        Carried(n).sd[o][j] = Digest(iopts.hashAlg, discs[i])
                 PROVE  FALSE
      BY DEF Real
    <3>1. s[1] = n /\ s[2] = o /\ s[3] = j
      BY <2>3
    <3>2. s \in SlotsOf(i)
      BY <3>1 DEF SlotsOf
    <3> QED
      BY <3>2 DEF RealSlots
  <2>5. n = 0 /\ o = <<>> /\ Decoy(n, o, j)
    BY <1>1, <2>4 DEF Digests
  <2>6. j \in DOMAIN sd
    BY <1>3, <1>4, <2>5
  <2> QED
    BY <1>6, <2>3, <2>5, <2>6
<1>10. \A k \in 1 .. K : f[k] = <<0, <<>>, m + k>> /\ m + k \in DOMAIN sd /\ m + k > m
  BY <1>5, <1>6, <1>7
<1>11. f \in [1 .. K -> Slots \ RealSlots]
  <2>1. \A k \in 1 .. K : f[k] \in Slots \ RealSlots
    BY <1>8, <1>10
  <2> QED
    BY <1>7, <2>1
<1>12. ASSUME NEW k \in 1 .. K, NEW l \in 1 .. K, f[k] = f[l] PROVE k = l
  <2>1. m + k = m + l
    BY <1>10, <1>12
  <2> QED
    BY <2>1
<1>13. ASSUME NEW s \in Slots \ RealSlots PROVE \E k \in 1 .. K : f[k] = s
  <2>1. PICK j \in DOMAIN sd : j > m /\ s = <<0, <<>>, j>>
    BY <1>9
  <2>2. PICK k \in 1 .. K : j = m + k
    <3>1. j - m \in 1 .. K /\ j = m + (j - m)
      BY <1>5, <1>6, <2>1
    <3> QED
      BY <3>1
  <2> QED
    BY <1>10, <2>1, <2>2
<1> QED
  BY <1>2, <1>11, <1>12, <1>13
     DEF ExistsBijection, Bijection, Injection, Surjection, IsInjective

(* CommitsOnce: every selective claim has one disclosure and one digest,   *)
(* in the _sd array of the object it belongs to, and all other digests are *)
(* decoys; the exceptions are those a registered claim orphans.            *)
THEOREM CommittedOnce == IssuerSpec => []CommitsOnce
<1>1. ASSUME IssuerInv, ipc = "issued" PROVE CommitsOnce
  <2>1. PICK L \in Nat : L = Len(discs) /\ DOMAIN discs = 1 .. L
    <3>1. discs \in Seq(ToSet(discs))
      BY <1>1, Finished DEF Safe, Disclosures
    <3> QED
      BY <3>1, LenProperties
  <2>2. PICK K \in Nat : K = iopts.decoyCount
    BY <1>1, IssuerAssumption DEF IssuerInv, Counters
  <2>3. OrphanDiscs \in SUBSET (1 .. L) /\ RealSlots \in SUBSET Slots
    BY <2>1 DEF OrphanDiscs, RealSlots
  <2>4. ExistsBijection((1 .. L) \ OrphanDiscs, RealSlots)
    BY <1>1, <2>1, SlotsCounted
  <2>5. ExistsBijection(1 .. K, Slots \ RealSlots)
    BY <1>1, <2>2, DecoysCounted
  <2>6. IsFiniteSet(OrphanDiscs) /\ Cardinality(Slots) = L - Cardinality(OrphanDiscs) + K
    BY <2>3, <2>4, <2>5, Counting
  <2>7. Cardinality(Orphans) = Cardinality(OrphanDiscs)
    BY <1>1, <2>6, OrphansCounted, FS_Bijection
  <2>8. Cardinality(Slots) = Len(discs) - Cardinality(Orphans) + iopts.decoyCount
    BY <2>1, <2>2, <2>6, <2>7
  <2> QED
    BY <1>1, <2>8, EachOnce DEF CommitsOnce, Orphans
<1>2. IssuerInv => CommitsOnce
  BY <1>1 DEF CommitsOnce
<1> QED
  BY <1>2, IssuerInvariance, PTL
=============================================================================
