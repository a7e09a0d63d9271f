------------------------ MODULE HTTPKeyResolverProofs ------------------------
(***************************************************************************)
(* HTTPTypeOK and BoundedStaleness hold for every number of goroutines and *)
(* issuers, every ttl, and every sequence of published documents.          *)
(*                                                                         *)
(* The invariant follows a JWK set from the issuer to the answer: a set    *)
(* just served is one the issuer had when it was served, a set in the      *)
(* cache one it had no longer before fetchedAt than the slowest fetch      *)
(* took, and what a caller selects from, or has selected, comes from one   *)
(* of these.  HTTPKeyInv is inductive; BoundedStaleness alone is not, for  *)
(* it says nothing of the cache.                                           *)
(***************************************************************************)
EXTENDS HTTPKeyResolver, TLAPS

AllDocuments == UNION {Documents[i] \cup {FirstDocument[i]} : i \in Issuers}
Version == [set : AllDocuments, from : Nat]
Entry == [set : AllDocuments, fetchedAt : Nat]
Arg(a) == a.issuer \in Issuers /\ a.began \in Nat

(* s is a document of issuer i that it still served at time t.             *)
Known(i, s, t) ==
  \E n \in DOMAIN published[i] : published[i][n].set = s /\ InUseAfter(i, n, t - 1)

(* What all callers share.                                                 *)
Times == clock \in Nat /\ slowest \in Nat /\ ttl \in Int

History ==
  /\ published \in [Issuers -> Seq(Version)]
  /\ \A i \in Issuers : Len(published[i]) > 0

CacheKnown ==
  /\ cache \in [Issuers -> Entry \cup {Nil}]
  /\ \A i \in Issuers : cache[i] # Nil =>
       /\ cache[i].fetchedAt <= clock
       /\ Known(i, cache[i].set, cache[i].fetchedAt - slowest)

Shape ==
  /\ at \in [Callers -> {"idle", "read", "check", "fetch", "fetched", "lock", "storing", "select",
                       "done"}]
  /\ entry \in [Callers -> Entry \cup {Nil}]
  /\ set \in [Callers -> AllDocuments \cup {Nil}]
  /\ served \in [Callers -> Nat \cup {Nil}]
  /\ DOMAIN arg = Callers /\ DOMAIN answer = Callers

(* Where a caller is, and where its set or its answer comes from.          *)
CallTypes(c) ==
  /\ at[c] # "idle" => Arg(arg[c]) /\ arg[c].began <= clock
  /\ set[c] # Nil <=> at[c] \in {"fetched", "lock", "storing", "select"}
  /\ answer[c] # Nil => at[c] = "done"
  /\ at[c] \in {"fetched", "lock", "storing"} =>
       served[c] \in Nat /\ arg[c].began <= served[c] /\ served[c] <= clock

EntryKnown(c) ==
  at[c] = "check" /\ entry[c] # Nil =>
    /\ entry[c].fetchedAt <= clock
    /\ Known(arg[c].issuer, entry[c].set, entry[c].fetchedAt - slowest)

FetchKnown(c) ==
  at[c] \in {"fetched", "lock", "storing"} => Known(arg[c].issuer, set[c], served[c])

SelectRecent(c) ==
  at[c] = "select" =>
    \E n \in RecentlyPublished(c) : published[arg[c].issuer][n].set = set[c]

AnswerRecent(c) ==
  at[c] = "done" /\ answer[c] # [err |-> "fetch"] =>
    \E n \in RecentlyPublished(c) :
      answer[c] = KeyFor(published[arg[c].issuer][n].set, arg[c].keyID)

CallOK(c) ==
  CallTypes(c) /\ EntryKnown(c) /\ FetchKnown(c) /\ SelectRecent(c) /\ AnswerRecent(c)

HTTPKeyInv ==
  Times /\ History /\ CacheKnown /\ Shape /\ \A c \in Callers : CallOK(c)

-----------------------------------------------------------------------------
(* The invariant holds at first.                                           *)
LEMMA InitInv == HTTPInit => HTTPKeyInv
<1> SUFFICES ASSUME HTTPInit PROVE HTTPKeyInv
  OBVIOUS
<1> USE DEF HTTPInit, NewHTTPKeyResolver
<1>1. Times
  BY HTTPAssumption DEF NewTTL, Times
<1>2. History
  <2>1. \A i \in Issuers : [set |-> FirstDocument[i], from |-> 0] \in Version
    BY DEF AllDocuments, Version
  <2> QED
    BY <2>1 DEF History
<1>3. CacheKnown /\ Shape
  BY DEF CacheKnown, Shape
<1>4. ASSUME NEW c \in Callers PROVE CallOK(c)
  BY DEF CallOK, CallTypes, EntryKnown, FetchKnown, SelectRecent, AnswerRecent
<1> QED
  BY <1>1, <1>2, <1>3, <1>4 DEF HTTPKeyInv

(* What was still served at some time was so at every time before.         *)
LEMMA InUseEarlier ==
  ASSUME History, NEW i \in Issuers, NEW n \in DOMAIN published[i],
         NEW t \in Int, NEW u \in Int, u <= t, InUseAfter(i, n, t)
  PROVE  InUseAfter(i, n, u)
<1>1. published[i] \in Seq(Version)
  BY DEF History
<1>2. n < Len(published[i]) => published[i][n + 1].from \in Nat
  <2>1. n < Len(published[i]) => n + 1 \in 1 .. Len(published[i])
    BY <1>1
  <2>2. n < Len(published[i]) => published[i][n + 1] \in Version
    BY <1>1, <2>1
  <2> QED
    BY <2>2 DEF Version
<1> QED
  BY <1>2 DEF InUseAfter

(* A document known to be served at some time was so at times before.      *)
LEMMA KnownEarlier ==
  ASSUME History, NEW i \in Issuers, NEW s, NEW t \in Int, NEW u \in Int, u <= t,
         Known(i, s, t)
  PROVE  Known(i, s, u)
<1>1. PICK n \in DOMAIN published[i] : published[i][n].set = s /\ InUseAfter(i, n, t - 1)
  BY DEF Known
<1>2. InUseAfter(i, n, u - 1)
  BY <1>1, InUseEarlier
<1> QED
  BY <1>1, <1>2 DEF Known

(* While no document is published, a step that leaves a caller alone       *)
(* disturbs nothing of it, however slow fetches turn out to be and however *)
(* late it is.                                                             *)
LEMMA Frame ==
  ASSUME Times, History, Times', clock <= clock', slowest <= slowest', ttl' = ttl,
         published' = published, Shape, NEW b \in Callers, CallOK(b),
         at'[b] = at[b], arg'[b] = arg[b], entry'[b] = entry[b], set'[b] = set[b],
         answer'[b] = answer[b], served'[b] = served[b]
  PROVE  CallOK(b)'
<1>1. CallTypes(b)'
  <2>1. at[b] # "idle" => arg[b].began \in Nat
    BY DEF CallOK, CallTypes, Arg
  <2> QED
    BY <2>1 DEF CallOK, CallTypes, Times
<1>2. EntryKnown(b)'
  <2> SUFFICES ASSUME at[b] = "check", entry[b] # Nil
               PROVE  /\ entry[b].fetchedAt <= clock'
                      /\ Known(arg[b].issuer, entry[b].set, entry[b].fetchedAt - slowest')
    BY DEF EntryKnown, Known, InUseAfter
  <2>1. arg[b].issuer \in Issuers /\ entry[b].fetchedAt \in Nat
    BY DEF CallOK, CallTypes, Arg, Shape, Entry
  <2>2. /\ entry[b].fetchedAt - slowest \in Int /\ entry[b].fetchedAt - slowest' \in Int
        /\ entry[b].fetchedAt - slowest' <= entry[b].fetchedAt - slowest
    BY <2>1 DEF Times
  <2>3. /\ entry[b].fetchedAt <= clock
        /\ Known(arg[b].issuer, entry[b].set, entry[b].fetchedAt - slowest)
    BY DEF CallOK, EntryKnown
  <2>4. Known(arg[b].issuer, entry[b].set, entry[b].fetchedAt - slowest')
    BY <2>1, <2>2, <2>3, KnownEarlier
  <2> QED
    BY <2>1, <2>3, <2>4 DEF Times
<1>3. FetchKnown(b)'
  BY DEF CallOK, FetchKnown, Known, InUseAfter
<1>4. ASSUME at[b] # "idle", NEW n \in RecentlyPublished(b)
      PROVE  n \in RecentlyPublished(b)'
  <2>1. arg[b].issuer \in Issuers /\ arg[b].began \in Nat
    BY <1>4 DEF CallOK, CallTypes, Arg
  <2>2. n \in DOMAIN published[arg[b].issuer]
    BY DEF RecentlyPublished
  <2>3. CASE InUseAfter(arg[b].issuer, n, arg[b].began - 1)
    BY <2>2, <2>3 DEF RecentlyPublished, InUseAfter
  <2>4. CASE InUseAfter(arg[b].issuer, n, arg[b].began - ttl - slowest)
    <3>1. /\ arg[b].began - ttl - slowest \in Int /\ arg[b].began - ttl - slowest' \in Int
          /\ arg[b].began - ttl - slowest' <= arg[b].began - ttl - slowest
      BY <2>1 DEF Times
    <3>2. InUseAfter(arg[b].issuer, n, arg[b].began - ttl - slowest')
      BY <2>1, <2>2, <2>4, <3>1, InUseEarlier
    <3> QED
      BY <2>2, <3>2 DEF RecentlyPublished, InUseAfter
  <2> QED
    BY <2>3, <2>4 DEF RecentlyPublished
<1>5. SelectRecent(b)'
  BY <1>4 DEF CallOK, SelectRecent
<1>6. AnswerRecent(b)'
  BY <1>4 DEF CallOK, AnswerRecent
<1> QED
  BY <1>1, <1>2, <1>3, <1>5, <1>6 DEF CallOK

-----------------------------------------------------------------------------
(* Time passes.                                                            *)
LEMMA TickInv == HTTPKeyInv /\ Tick => HTTPKeyInv'
<1> SUFFICES ASSUME HTTPKeyInv, Tick PROVE HTTPKeyInv'
  OBVIOUS
<1> USE DEF Tick, localVars
<1>1. Times' /\ History' /\ Shape' /\ clock <= clock' /\ slowest <= slowest'
  BY DEF HTTPKeyInv, Times, History, Shape
<1>2. CacheKnown'
  <2>1. \A i \in Issuers : cache[i] # Nil => cache[i].fetchedAt \in Nat
    BY DEF HTTPKeyInv, CacheKnown, Entry
  <2> QED
    BY <1>1, <2>1 DEF HTTPKeyInv, Times, CacheKnown, Known, InUseAfter
<1>3. ASSUME NEW c \in Callers PROVE CallOK(c)'
  BY <1>1, Frame DEF HTTPKeyInv
<1> QED
  BY <1>1, <1>2, <1>3 DEF HTTPKeyInv

(* A document in use after some time that has passed is so still when the  *)
(* next one is published.                                                  *)
LEMMA PublishKeeps ==
  ASSUME Times, History, NEW i \in Issuers, NEW d \in Documents[i], Publish(i, d),
         NEW j \in Issuers, NEW n \in DOMAIN published[j],
         NEW since \in Int, since < clock, InUseAfter(j, n, since)
  PROVE  n \in DOMAIN published'[j] /\ published'[j][n] = published[j][n]
           /\ InUseAfter(j, n, since)'
<1>1. published \in [Issuers -> Seq(Version)] /\ clock \in Nat
  BY DEF Times, History
<1>2. published'[j] = IF j = i THEN Append(published[i], [set |-> d, from |-> clock])
                              ELSE published[j]
  BY <1>1 DEF Publish
<1>3. CASE j # i
  BY <1>2, <1>3 DEF InUseAfter
<1>4. CASE j = i
  <2> DEFINE s == published[i]
             new == [set |-> d, from |-> clock]
  <2>1. s \in Seq(Version) /\ new \in Version /\ new.from = clock
    BY <1>1 DEF AllDocuments, Version
  <2> HIDE DEF new
  <2>2. /\ Len(Append(s, new)) = Len(s) + 1
        /\ Append(s, new)[Len(s) + 1] = new
        /\ \A k \in 1 .. Len(s) : Append(s, new)[k] = s[k]
        /\ n \in 1 .. Len(s) /\ Len(s) \in Nat
    BY <1>4, <2>1
  <2>3. n \in DOMAIN Append(s, new) /\ Append(s, new)[n] = s[n]
    BY <2>1, <2>2
  <2>4. published'[j] = Append(s, new)
    BY <1>2, <1>4 DEF new
  <2>5. CASE n = Len(s)
    BY <1>4, <2>1, <2>2, <2>3, <2>4, <2>5 DEF InUseAfter
  <2>6. CASE n < Len(s)
    <3>1. Append(s, new)[n + 1] = s[n + 1]
      BY <2>2, <2>6
    <3> QED
      BY <1>4, <2>2, <2>3, <2>4, <2>6, <3>1 DEF InUseAfter
  <2> QED
    BY <2>2, <2>5, <2>6
<1> QED
  BY <1>3, <1>4

(* An issuer publishes another document.                                   *)
LEMMA PublishInv ==
  ASSUME HTTPKeyInv, NEW i \in Issuers, NEW d \in Documents[i], Publish(i, d)
  PROVE  HTTPKeyInv'
<1>0. Times /\ History /\ CacheKnown /\ Shape /\ \A c \in Callers : CallOK(c)
  BY DEF HTTPKeyInv
<1>1. /\ clock' = clock /\ slowest' = slowest /\ ttl' = ttl /\ cache' = cache
      /\ at' = at /\ arg' = arg /\ entry' = entry /\ set' = set /\ answer' = answer
      /\ served' = served
  BY DEF Publish, localVars
<1>2. Times' /\ Shape'
  BY <1>0, <1>1 DEF Times, Shape
<1>3. History'
  <2>1. [set |-> d, from |-> clock] \in Version
    BY <1>0 DEF AllDocuments, Version, Times
  <2>2. published[i] \in Seq(Version)
    BY <1>0 DEF History
  <2>3. PICK new \in Version : new = [set |-> d, from |-> clock]
    BY <2>1
  <2>4. Append(published[i], new) \in Seq(Version) /\ Len(Append(published[i], new)) > 0
    BY <2>2
  <2>5. published' = [published EXCEPT ![i] = Append(published[i], new)]
    BY <2>3 DEF Publish
  <2> QED
    BY <1>0, <2>4, <2>5 DEF History
<1>4. ASSUME NEW j \in Issuers, NEW s, NEW t \in Int, t <= clock, Known(j, s, t)
      PROVE  Known(j, s, t)'
  <2>1. PICK n \in DOMAIN published[j] : published[j][n].set = s /\ InUseAfter(j, n, t - 1)
    BY <1>4 DEF Known
  <2>2. t - 1 \in Int /\ t - 1 < clock
    BY <1>0, <1>4 DEF Times
  <2> QED
    BY <1>0, <2>1, <2>2, PublishKeeps DEF Known
<1>5. CacheKnown'
  <2>1. \A j \in Issuers : cache[j] # Nil =>
          cache[j].fetchedAt - slowest \in Int /\ cache[j].fetchedAt - slowest <= clock
    BY <1>0 DEF Times, CacheKnown, Entry
  <2> QED
    BY <1>0, <1>1, <1>4, <2>1 DEF CacheKnown
<1>6. ASSUME NEW c \in Callers PROVE CallOK(c)'
  <2>0. CallOK(c)
    BY <1>0
  <2>1. at[c] # "idle" => arg[c].issuer \in Issuers /\ arg[c].began \in Nat /\ arg[c].began <= clock
    BY <2>0 DEF CallOK, CallTypes, Arg
  <2>2. CallTypes(c)'
    BY <1>1, <2>0 DEF CallOK, CallTypes
  <2>3. EntryKnown(c)'
    <3>1. at[c] = "check" /\ entry[c] # Nil =>
            entry[c].fetchedAt - slowest \in Int /\ entry[c].fetchedAt - slowest <= clock
      BY <1>0, <2>0 DEF Times, Shape, Entry, CallOK, EntryKnown
    <3> QED
      BY <1>1, <1>4, <2>0, <2>1, <3>1 DEF CallOK, EntryKnown
  <2>4. FetchKnown(c)'
    <3>1. at[c] \in {"fetched", "lock", "storing"} => served[c] \in Int /\ served[c] <= clock
      BY <2>0 DEF CallOK, CallTypes
    <3> QED
      BY <1>1, <1>4, <2>0, <2>1, <3>1 DEF CallOK, FetchKnown
  <2>5. ASSUME at[c] # "idle", NEW n \in RecentlyPublished(c)
        PROVE  /\ n \in RecentlyPublished(c)'
               /\ published'[arg[c].issuer][n] = published[arg[c].issuer][n]
    <3>1. PICK j \in Issuers : j = arg[c].issuer
      BY <2>1, <2>5
    <3>2. PICK before \in Int : before = arg[c].began - 1
      BY <2>1, <2>5
    <3>3. PICK old \in Int : old = arg[c].began - ttl - slowest
      BY <1>0, <2>1, <2>5 DEF Times
    <3>4. before < clock /\ n \in DOMAIN published[j]
      BY <1>0, <2>1, <2>5, <3>1, <3>2 DEF Times, RecentlyPublished
    <3>5. RecentlyPublished(c)' = {k \in DOMAIN published'[j] :
             InUseAfter(j, k, before)' \/ InUseAfter(j, k, old)'}
      BY <1>1, <3>1, <3>2, <3>3 DEF RecentlyPublished, InUseAfter
    <3>6. CASE InUseAfter(j, n, before)
      <4>1. n \in DOMAIN published'[j] /\ published'[j][n] = published[j][n]
              /\ InUseAfter(j, n, before)'
        BY <1>0, <3>4, <3>6, PublishKeeps
      <4> QED
        BY <3>1, <3>5, <4>1
    <3>7. CASE InUseAfter(j, n, old) /\ old < clock
      <4>1. n \in DOMAIN published'[j] /\ published'[j][n] = published[j][n]
              /\ InUseAfter(j, n, old)'
        BY <1>0, <3>4, <3>7, PublishKeeps
      <4> QED
        BY <3>1, <3>5, <4>1
    <3>8. CASE InUseAfter(j, n, old) /\ ~(old < clock)
      <4>1. before <= old
        BY <1>0, <3>4, <3>8 DEF Times
      <4>2. InUseAfter(j, n, before)
        BY <1>0, <3>4, <3>8, <4>1, InUseEarlier
      <4> QED
        BY <3>6, <4>2
    <3> QED
      BY <3>1, <3>2, <3>3, <3>6, <3>7, <3>8 DEF RecentlyPublished
  <2>6. SelectRecent(c)'
    BY <1>1, <2>0, <2>5 DEF CallOK, SelectRecent
  <2>7. AnswerRecent(c)'
    BY <1>1, <2>0, <2>5 DEF CallOK, AnswerRecent
  <2> QED
    BY <2>2, <2>3, <2>4, <2>6, <2>7 DEF CallOK
<1> QED
  BY <1>2, <1>3, <1>5, <1>6 DEF HTTPKeyInv

-----------------------------------------------------------------------------
(* The steps of a call change the variables of its caller only, but for    *)
(* Store, which also writes the cache.                                     *)
Own(c) ==
  /\ clock' = clock /\ ttl' = ttl /\ published' = published
  /\ \A b \in Callers \ {c} :
       /\ at'[b] = at[b] /\ arg'[b] = arg[b] /\ entry'[b] = entry[b]
       /\ set'[b] = set[b] /\ answer'[b] = answer[b] /\ served'[b] = served[b]

(* A step of one call concerns the others only through the cache.          *)
LEMMA OwnStep ==
  ASSUME HTTPKeyInv, NEW c \in Callers, Own(c), slowest' \in Nat, slowest <= slowest',
         CacheKnown', Shape', CallOK(c)'
  PROVE  HTTPKeyInv'
<1>1. Times' /\ History' /\ clock <= clock'
  BY DEF HTTPKeyInv, Own, Times, History
<1>2. ASSUME NEW b \in Callers \ {c} PROVE CallOK(b)'
  BY <1>1, <1>2, Frame DEF HTTPKeyInv, Own
<1> QED
  BY <1>1, <1>2 DEF HTTPKeyInv

(* A step of one call that leaves the cache alone concerns only that call. *)
LEMMA LocalStep ==
  ASSUME HTTPKeyInv, NEW c \in Callers, Own(c), cache' = cache, slowest' = slowest,
         Shape', CallOK(c)'
  PROVE  HTTPKeyInv'
<1>1. slowest' \in Nat /\ slowest <= slowest'
  BY DEF HTTPKeyInv, Times
<1>2. CacheKnown'
  BY DEF HTTPKeyInv, CacheKnown, Own, Known, InUseAfter
<1> QED
  BY <1>1, <1>2, OwnStep

(* A call begins.                                                          *)
LEMMA CallInv ==
  ASSUME HTTPKeyInv, NEW c \in Callers, NEW q, q.issuer \in Issuers, Call(c, q)
  PROVE  HTTPKeyInv'
<1>0. Shape /\ Times /\ CallOK(c)
  BY DEF HTTPKeyInv
<1>1. PICK a : Arg(a) /\ a = [issuer |-> q.issuer, keyID |-> q.keyID, began |-> clock]
  BY <1>0 DEF Times, Arg
<1>2. Shape' /\ Own(c)
  BY <1>0, <1>1 DEF Call, Shape, Own
<1>3. at'[c] = "read" /\ arg'[c] = a /\ a.began = clock
  BY <1>0, <1>1 DEF Call, Shape
<1>4. CallOK(c)'
  <2>1. CallTypes(c)'
    <3>1. Arg(arg'[c]) /\ arg'[c].began <= clock'
      BY <1>0, <1>1, <1>3 DEF Call, Times
    <3> QED
      BY <1>0, <1>3, <3>1 DEF Call, CallOK, CallTypes, Arg
  <2> QED
    BY <1>3, <2>1 DEF CallOK, EntryKnown, FetchKnown, SelectRecent, AnswerRecent
<1> QED
  BY <1>2, <1>4, LocalStep DEF Call

(* The entry it reads is one of the cache.                                 *)
LEMMA ReadCacheInv ==
  ASSUME HTTPKeyInv, NEW c \in Callers, ReadCache(c)
  PROVE  HTTPKeyInv'
<1>0. Shape /\ Times /\ CacheKnown /\ CallOK(c)
  BY DEF HTTPKeyInv
<1>1. Arg(arg[c]) /\ arg[c].issuer \in Issuers
  BY <1>0 DEF ReadCache, CallOK, CallTypes, Arg
<1>2. Shape' /\ Own(c)
  BY <1>0, <1>1 DEF ReadCache, Shape, CacheKnown, Own
<1>3. at'[c] = "check" /\ entry'[c] = cache[arg[c].issuer]
  BY <1>0 DEF ReadCache, Shape
<1>4. CallOK(c)'
  <2>1. CallTypes(c)'
    BY <1>0, <1>3 DEF ReadCache, CallOK, CallTypes
  <2>2. EntryKnown(c)'
    BY <1>0, <1>1, <1>3 DEF ReadCache, CacheKnown, EntryKnown, Known, InUseAfter
  <2> QED
    BY <1>3, <2>1, <2>2 DEF CallOK, FetchKnown, SelectRecent, AnswerRecent
<1> QED
  BY <1>2, <1>4, LocalStep DEF ReadCache

(* An entry that is fresh was stored less than the ttl ago, after the call *)
(* began or less than the ttl before.                                      *)
LEMMA CheckEntryInv ==
  ASSUME HTTPKeyInv, NEW c \in Callers, CheckEntry(c)
  PROVE  HTTPKeyInv'
<1>0. Shape /\ Times /\ History /\ CallOK(c)
  BY DEF HTTPKeyInv
<1>1. Arg(arg[c]) /\ arg[c].issuer \in Issuers /\ arg[c].began \in Nat /\ arg[c].began <= clock
  BY <1>0 DEF CheckEntry, CallOK, CallTypes, Arg
<1>2. Nil \notin AllDocuments
  BY HTTPAssumption DEF AllDocuments
<1>3. entry[c] # Nil => entry[c] \in Entry /\ entry[c].set \in AllDocuments /\ entry[c].fetchedAt \in Nat
  BY <1>0 DEF Shape, Entry
<1>4. CASE Fresh(entry[c])
  <2>1. /\ at' = [at EXCEPT ![c] = "select"]
        /\ set' = [set EXCEPT ![c] = entry[c].set]
        /\ entry' = [entry EXCEPT ![c] = Nil]
    BY <1>4 DEF CheckEntry
  <2>2. Shape' /\ Own(c)
    BY <1>0, <1>3, <1>4, <2>1 DEF CheckEntry, Fresh, Shape, Own
  <2>3. at'[c] = "select" /\ set'[c] = entry[c].set /\ set'[c] # Nil
    BY <1>0, <1>2, <1>3, <1>4, <2>1 DEF Fresh, Shape
  <2>4. CallTypes(c)'
    BY <1>0, <1>1, <2>3 DEF CheckEntry, CallOK, CallTypes
  <2>5. PICK n \in DOMAIN published[arg[c].issuer] :
          /\ published[arg[c].issuer][n].set = entry[c].set
          /\ InUseAfter(arg[c].issuer, n, entry[c].fetchedAt - slowest - 1)
    BY <1>0, <1>4 DEF CheckEntry, Fresh, CallOK, EntryKnown, Known
  <2>6. /\ entry[c].fetchedAt - slowest - 1 \in Int /\ arg[c].began - ttl - slowest \in Int
        /\ arg[c].began - ttl - slowest <= entry[c].fetchedAt - slowest - 1
    BY <1>0, <1>1, <1>3, <1>4 DEF Fresh, Times
  <2>7. InUseAfter(arg[c].issuer, n, arg[c].began - ttl - slowest)
    BY <1>0, <1>1, <2>5, <2>6, InUseEarlier
  <2>8. SelectRecent(c)'
    BY <2>3, <2>5, <2>7 DEF CheckEntry, SelectRecent, RecentlyPublished, InUseAfter
  <2>9. CallOK(c)'
    BY <2>3, <2>4, <2>8 DEF CallOK, EntryKnown, FetchKnown, AnswerRecent
  <2> QED
    BY <2>2, <2>9, LocalStep DEF CheckEntry
<1>5. CASE ~Fresh(entry[c])
  <2>1. at' = [at EXCEPT ![c] = "fetch"] /\ set' = set /\ entry' = [entry EXCEPT ![c] = Nil]
    BY <1>5 DEF CheckEntry
  <2>2. Shape' /\ Own(c)
    BY <1>0, <2>1 DEF CheckEntry, Shape, Own
  <2>3. at'[c] = "fetch"
    BY <1>0, <2>1 DEF Shape
  <2>4. CallTypes(c)'
    BY <1>0, <1>1, <2>1, <2>3 DEF CheckEntry, CallOK, CallTypes
  <2>5. CallOK(c)'
    BY <2>3, <2>4 DEF CallOK, EntryKnown, FetchKnown, SelectRecent, AnswerRecent
  <2> QED
    BY <2>2, <2>5, LocalStep DEF CheckEntry
<1> QED
  BY <1>4, <1>5

(* The issuer serves its latest document, which it has still.              *)
LEMMA ServeInv ==
  ASSUME HTTPKeyInv, NEW c \in Callers, Serve(c)
  PROVE  HTTPKeyInv'
<1>0. Shape /\ Times /\ History /\ CallOK(c)
  BY DEF HTTPKeyInv
<1>1. Arg(arg[c]) /\ arg[c].issuer \in Issuers /\ arg[c].began \in Nat /\ arg[c].began <= clock
  BY <1>0 DEF Serve, CallOK, CallTypes, Arg
<1>2. Nil \notin AllDocuments
  BY HTTPAssumption DEF AllDocuments
<1>3. PICK i \in Issuers : i = arg[c].issuer
  BY <1>1
<1>4. PICK n \in DOMAIN published[i] : n = Len(published[i]) /\ published[i][n] \in Version
  BY <1>0 DEF History
<1>5. Current(i) \in AllDocuments /\ Known(i, Current(i), clock)
  <2>1. Current(i) = published[i][n].set /\ published[i][n].set \in AllDocuments
    BY <1>4 DEF Current, Version
  <2>2. InUseAfter(i, n, clock - 1)
    BY <1>0, <1>4 DEF InUseAfter, History
  <2> QED
    BY <2>1, <2>2 DEF Known
<1>6. Shape' /\ Own(c)
  BY <1>0, <1>3, <1>5 DEF Serve, Shape, Own, Times
<1>7. at'[c] = "fetched" /\ set'[c] = Current(i) /\ set'[c] # Nil /\ served'[c] = clock
  BY <1>0, <1>2, <1>3, <1>5 DEF Serve, Shape
<1>8. CallOK(c)'
  <2>1. CallTypes(c)'
    BY <1>0, <1>1, <1>7 DEF Serve, CallOK, CallTypes, Times
  <2>2. FetchKnown(c)'
    BY <1>3, <1>5, <1>7 DEF Serve, FetchKnown, Known, InUseAfter
  <2> QED
    BY <1>7, <2>1, <2>2 DEF CallOK, EntryKnown, SelectRecent, AnswerRecent
<1> QED
  BY <1>6, <1>8, LocalStep DEF Serve

(* A failed fetch leaves nothing behind.                                   *)
LEMMA FetchFailsInv ==
  ASSUME HTTPKeyInv, NEW c \in Callers, FetchFails(c)
  PROVE  HTTPKeyInv'
<1>0. Shape /\ Times /\ CallOK(c)
  BY DEF HTTPKeyInv
<1>1. Shape' /\ Own(c)
  BY <1>0 DEF FetchFails, Shape, Own
<1>2. at'[c] = "done" /\ set'[c] = Nil /\ answer'[c] = [err |-> "fetch"]
  BY <1>0 DEF FetchFails, Shape
<1>3. CallTypes(c)'
  BY <1>0, <1>2 DEF FetchFails, CallOK, CallTypes
<1>4. CallOK(c)'
  BY <1>2, <1>3 DEF CallOK, EntryKnown, FetchKnown, SelectRecent, AnswerRecent
<1> QED
  BY <1>1, <1>4, LocalStep DEF FetchFails

(* A document that has arrived waits for r.mu, and is what was served.     *)
LEMMA FetchDoneInv ==
  ASSUME HTTPKeyInv, NEW c \in Callers, FetchDone(c)
  PROVE  HTTPKeyInv'
<1>0. Shape /\ Times /\ CallOK(c)
  BY DEF HTTPKeyInv
<1>1. Shape' /\ Own(c)
  BY <1>0 DEF FetchDone, Shape, Own
<1>2. at[c] = "fetched" /\ at'[c] = "lock"
  BY <1>0 DEF FetchDone, Shape
<1>3. CallTypes(c)' /\ FetchKnown(c)'
  BY <1>0, <1>2 DEF FetchDone, CallOK, CallTypes, FetchKnown, Known, InUseAfter
<1>4. CallOK(c)'
  BY <1>2, <1>3 DEF CallOK, EntryKnown, SelectRecent, AnswerRecent
<1> QED
  BY <1>1, <1>4, LocalStep DEF FetchDone

(* So is the one about to be stored.                                       *)
LEMMA LockInv ==
  ASSUME HTTPKeyInv, NEW c \in Callers, Lock(c)
  PROVE  HTTPKeyInv'
<1>0. Shape /\ Times /\ CallOK(c)
  BY DEF HTTPKeyInv
<1>1. Shape' /\ Own(c)
  BY <1>0 DEF Lock, Shape, Own
<1>2. at[c] = "lock" /\ at'[c] = "storing"
  BY <1>0 DEF Lock, Shape
<1>3. CallTypes(c)' /\ FetchKnown(c)'
  BY <1>0, <1>2 DEF Lock, CallOK, CallTypes, FetchKnown, Known, InUseAfter
<1>4. CallOK(c)'
  BY <1>2, <1>3 DEF CallOK, EntryKnown, SelectRecent, AnswerRecent
<1> QED
  BY <1>1, <1>4, LocalStep DEF Lock

(* What is stored was served no longer ago than the slowest fetch took,    *)
(* even when it overwrites the entry of a fetch that was served later.     *)
LEMMA StoreInv ==
  ASSUME HTTPKeyInv, NEW c \in Callers, Store(c)
  PROVE  HTTPKeyInv'
<1>0. Shape /\ Times /\ History /\ CacheKnown /\ CallOK(c)
  BY DEF HTTPKeyInv
<1>1. /\ Arg(arg[c]) /\ arg[c].began \in Nat
      /\ served[c] \in Nat /\ arg[c].began <= served[c] /\ served[c] <= clock
      /\ set[c] # Nil /\ set[c] \in AllDocuments
  BY <1>0 DEF Store, CallOK, CallTypes, Arg, Shape
<1>2. PICK i \in Issuers : i = arg[c].issuer
  BY <1>1 DEF Arg
<1>3. Known(i, set[c], served[c])
  BY <1>0, <1>2 DEF Store, CallOK, FetchKnown
<1>4. slowest' \in Nat /\ slowest <= slowest' /\ clock - served[c] <= slowest' /\ clock \in Nat
  BY <1>0, <1>1 DEF Store, Times
<1>5. PICK e \in Entry : e = [set |-> set[c], fetchedAt |-> clock]
  BY <1>0, <1>1 DEF Entry, Times
<1>6. cache' = [cache EXCEPT ![i] = e] /\ e.set = set[c] /\ e.fetchedAt = clock
  BY <1>2, <1>5 DEF Store
<1>7. Shape' /\ Own(c)
  BY <1>0 DEF Store, Shape, Own
<1>8. CacheKnown'
  <2>1. cache' \in [Issuers -> Entry \cup {Nil}]
    BY <1>0, <1>6 DEF CacheKnown
  <2>2. ASSUME NEW j \in Issuers, cache'[j] # Nil
        PROVE  /\ cache'[j].fetchedAt <= clock
               /\ Known(j, cache'[j].set, cache'[j].fetchedAt - slowest')
    <3>1. CASE j = i
      <4>1. cache'[j] = e
        BY <1>0, <1>6, <3>1 DEF CacheKnown
      <4>2. clock - slowest' \in Int /\ clock - slowest' <= served[c]
        BY <1>1, <1>4
      <4>3. Known(i, set[c], clock - slowest')
        BY <1>0, <1>1, <1>3, <4>2, KnownEarlier
      <4> QED
        BY <1>4, <1>6, <3>1, <4>1, <4>3
    <3>2. CASE j # i
      <4>1. cache'[j] = cache[j] /\ cache[j] # Nil
        BY <1>0, <1>6, <2>2, <3>2 DEF CacheKnown
      <4>2. cache[j].fetchedAt \in Nat /\ cache[j].fetchedAt <= clock
              /\ Known(j, cache[j].set, cache[j].fetchedAt - slowest)
        BY <1>0, <4>1 DEF CacheKnown, Entry
      <4>3. /\ cache[j].fetchedAt - slowest \in Int /\ cache[j].fetchedAt - slowest' \in Int
            /\ cache[j].fetchedAt - slowest' <= cache[j].fetchedAt - slowest
        BY <1>0, <1>4, <4>2 DEF Times
      <4>4. Known(j, cache[j].set, cache[j].fetchedAt - slowest')
        BY <1>0, <4>2, <4>3, KnownEarlier
      <4> QED
        BY <4>1, <4>2, <4>4
    <3> QED
      BY <3>1, <3>2
  <2>3. clock' = clock /\ published' = published
    BY DEF Store
  <2> QED
    BY <2>1, <2>2, <2>3 DEF CacheKnown, Known, InUseAfter
<1>9. CallOK(c)'
  <2>1. at'[c] = "select" /\ arg' = arg /\ set' = set /\ published' = published
    BY <1>0 DEF Store, Shape
  <2>2. CallTypes(c)'
    BY <1>0, <1>1, <2>1 DEF Store, CallOK, CallTypes
  <2>3. PICK n \in DOMAIN published[i] :
          published[i][n].set = set[c] /\ InUseAfter(i, n, served[c] - 1)
    BY <1>3 DEF Known
  <2>4. InUseAfter(i, n, arg[c].began - 1)
    <3>1. served[c] - 1 \in Int /\ arg[c].began - 1 \in Int /\ arg[c].began - 1 <= served[c] - 1
      BY <1>1
    <3> QED
      BY <1>0, <2>3, <3>1, InUseEarlier
  <2>5. SelectRecent(c)'
    BY <1>2, <2>1, <2>3, <2>4 DEF SelectRecent, RecentlyPublished, InUseAfter
  <2> QED
    BY <2>1, <2>2, <2>5 DEF CallOK, EntryKnown, FetchKnown, AnswerRecent
<1> QED
  BY <1>4, <1>7, <1>8, <1>9, OwnStep

(* The answer is a lookup in that set.                                     *)
LEMMA SelectInv ==
  ASSUME HTTPKeyInv, NEW c \in Callers, Select(c)
  PROVE  HTTPKeyInv'
<1>0. Shape /\ Times /\ CallOK(c)
  BY DEF HTTPKeyInv
<1>1. Shape' /\ Own(c)
  BY <1>0 DEF Select, Shape, Own
<1>2. at'[c] = "done" /\ set'[c] = Nil /\ answer'[c] = KeyFor(set[c], arg[c].keyID)
  BY <1>0 DEF Select, Shape
<1>3. CallTypes(c)'
  BY <1>0, <1>2 DEF Select, CallOK, CallTypes
<1>4. AnswerRecent(c)'
  <2>1. PICK n \in RecentlyPublished(c) : published[arg[c].issuer][n].set = set[c]
    BY <1>0 DEF Select, CallOK, SelectRecent
  <2>2. n \in RecentlyPublished(c)'
    BY DEF Select, RecentlyPublished, InUseAfter
  <2>3. answer'[c] = KeyFor(published'[arg'[c].issuer][n].set, arg'[c].keyID)
    BY <1>2, <2>1 DEF Select
  <2>4. \E k \in RecentlyPublished(c)' :
          answer'[c] = KeyFor(published'[arg'[c].issuer][k].set, arg'[c].keyID)
    BY <2>2, <2>3
  <2> QED
    BY <2>4 DEF AnswerRecent
<1>5. CallOK(c)'
  BY <1>2, <1>3, <1>4 DEF CallOK, EntryKnown, FetchKnown, SelectRecent
<1> QED
  BY <1>1, <1>5, LocalStep DEF Select

(* The caller has its answer.                                              *)
LEMMA ReturnInv ==
  ASSUME HTTPKeyInv, NEW c \in Callers, Return(c)
  PROVE  HTTPKeyInv'
<1>0. Shape /\ Times /\ CallOK(c)
  BY DEF HTTPKeyInv
<1>1. Shape' /\ Own(c)
  BY <1>0 DEF Return, Shape, Own
<1>2. at'[c] = "idle" /\ answer'[c] = Nil
  BY <1>0 DEF Return, Shape
<1>3. CallTypes(c)'
  BY <1>0, <1>2 DEF Return, CallOK, CallTypes
<1>4. CallOK(c)'
  BY <1>2, <1>3 DEF CallOK, EntryKnown, FetchKnown, SelectRecent, AnswerRecent
<1> QED
  BY <1>1, <1>4, LocalStep DEF Return

(* So does a step that leaves the resolver alone.                          *)
LEMMA StutterInv == HTTPKeyInv /\ UNCHANGED httpVars => HTTPKeyInv'
<1> SUFFICES ASSUME HTTPKeyInv, UNCHANGED httpVars PROVE HTTPKeyInv'
  OBVIOUS
<1>1. /\ clock' = clock /\ slowest' = slowest /\ ttl' = ttl /\ cache' = cache
      /\ at' = at /\ arg' = arg /\ entry' = entry /\ set' = set /\ answer' = answer
      /\ served' = served /\ published' = published
  BY DEF httpVars, localVars
<1>2. Times' /\ History' /\ Shape' /\ clock <= clock' /\ slowest <= slowest'
  BY <1>1 DEF HTTPKeyInv, Times, History, Shape
<1>3. CacheKnown'
  BY <1>1 DEF HTTPKeyInv, CacheKnown, Known, InUseAfter
<1>4. ASSUME NEW c \in Callers PROVE CallOK(c)'
  BY <1>1, <1>2, Frame DEF HTTPKeyInv
<1> QED
  BY <1>2, <1>3, <1>4 DEF HTTPKeyInv

(* And every step of a call.                                               *)
LEMMA CallStepInv ==
  ASSUME HTTPKeyInv, NEW c \in Callers, CallStep(c)
  PROVE  HTTPKeyInv'
BY ReadCacheInv, CheckEntryInv, ServeInv, FetchFailsInv, FetchDoneInv, LockInv, StoreInv,
   SelectInv DEF CallStep

-----------------------------------------------------------------------------
(* The invariant is inductive.                                             *)
THEOREM HTTPKeyInvariance == HTTPSpec => []HTTPKeyInv
<1>1. HTTPInit => HTTPKeyInv
  BY InitInv
<1>2. HTTPKeyInv /\ [HTTPNext]_httpVars => HTTPKeyInv'
  <2> SUFFICES ASSUME HTTPKeyInv, [HTTPNext]_httpVars PROVE HTTPKeyInv'
    OBVIOUS
  <2>1. CASE Tick
    BY <2>1, TickInv
  <2>2. CASE \E i \in Issuers : \E d \in Documents[i] : Publish(i, d)
    BY <2>2, PublishInv
  <2>3. CASE \E c \in Callers, q \in Lookups : Call(c, q)
    BY <2>3, CallInv, HTTPAssumption
  <2>4. CASE \E c \in Callers : CallStep(c) \/ Return(c)
    BY <2>4, CallStepInv, ReturnInv
  <2>5. CASE UNCHANGED httpVars
    BY <2>5, StutterInv
  <2> QED
    BY <2>1, <2>2, <2>3, <2>4, <2>5 DEF HTTPNext
<1> QED
  BY <1>1, <1>2, PTL DEF HTTPSpec

(* A caller of ResolveKey has a set to select from exactly from the fetch  *)
(* or the hit to the selection, and no entry is from the future.           *)
THEOREM HTTPTypeCorrect == HTTPSpec => []HTTPTypeOK
<1>1. HTTPKeyInv => HTTPTypeOK
  <2> SUFFICES ASSUME HTTPKeyInv PROVE HTTPTypeOK
    OBVIOUS
  <2>1. clock \in Nat /\ slowest \in Nat /\ ttl \in Int
    BY DEF HTTPKeyInv, Times
  <2>2. ASSUME NEW c \in Callers
        PROVE  /\ at[c] # "idle" => arg[c].issuer \in Issuers /\ arg[c].began \in 0 .. clock
               /\ set[c] # Nil <=> at[c] \in {"fetched", "lock", "storing", "select"}
               /\ answer[c] # Nil => at[c] = "done"
               /\ at[c] \in {"fetched", "lock", "storing"} => served[c] \in 0 .. clock
    <3>1. CallTypes(c)
      BY DEF HTTPKeyInv, CallOK
    <3>2. at[c] # "idle" => arg[c].issuer \in Issuers /\ arg[c].began \in 0 .. clock
      BY <2>1, <3>1 DEF CallTypes, Arg
    <3>3. at[c] \in {"fetched", "lock", "storing"} => served[c] \in 0 .. clock
      BY <2>1, <3>1 DEF CallTypes
    <3> QED
      BY <3>1, <3>2, <3>3 DEF CallTypes
  <2>3. \A i \in Issuers : cache[i] # Nil => cache[i].fetchedAt \in 0 .. clock
    <3>1. \A i \in Issuers : cache[i] # Nil =>
            cache[i].fetchedAt \in Nat /\ cache[i].fetchedAt <= clock
      BY DEF HTTPKeyInv, CacheKnown, Entry
    <3> QED
      BY <2>1, <3>1
  <2> QED
    BY <2>1, <2>2, <2>3 DEF HTTPTypeOK, HTTPKeyInv, Shape
<1> QED
  BY <1>1, HTTPKeyInvariance, PTL

(* Every key or refusal ResolveKey returns is that of a document the       *)
(* issuer still served when the call began, or less than the ttl and the   *)
(* slowest fetch before, whatever fetches overlap.                         *)
THEOREM StalenessBounded == HTTPSpec => []BoundedStaleness
<1>1. HTTPKeyInv => BoundedStaleness
  BY DEF HTTPKeyInv, CallOK, AnswerRecent, BoundedStaleness
<1> QED
  BY <1>1, HTTPKeyInvariance, PTL
=============================================================================
