--------------------------- MODULE LRUCacheProofs ---------------------------
(***************************************************************************)
(* The safety of LRUCache for every set of models, every set of sizes and  *)
(* every capacity; and list, map and eviction loop implement the abstract  *)
(* cache ModelCache.                                                       *)
(***************************************************************************)
EXTENDS LRUCache, SequenceTheorems, NatLemmas, TLAPS

-----------------------------------------------------------------------------
(* What the list operations do.                                            *)

\* PushFront: the new element comes first, the others move up by one.
LEMMA ConsProperties ==
  ASSUME NEW S, NEW s \in Seq(S), NEW e \in S
  PROVE  /\ Cons(e, s) \in Seq(S)
         /\ Len(Cons(e, s)) = Len(s) + 1
         /\ Cons(e, s)[1] = e
         /\ \A k \in 2..(Len(s) + 1) : Cons(e, s)[k] = s[k - 1]
<1>1. <<e>> \in Seq(S) /\ Len(<<e>>) = 1 /\ <<e>>[1] = e
  OBVIOUS
<1>. QED
  BY <1>1, ConcatProperties DEF Cons

\* list.Remove of an inner element closes the gap.
LEMMA RemoveAtProperties ==
  ASSUME NEW S, NEW s \in Seq(S), NEW i \in DOMAIN s
  PROVE  /\ RemoveAt(s, i) \in Seq(S)
         /\ Len(RemoveAt(s, i)) = Len(s) - 1
         /\ \A k \in 1..(Len(s) - 1) : RemoveAt(s, i)[k] = IF k < i THEN s[k] ELSE s[k + 1]
<1>0. i \in 1..Len(s) /\ Len(s) \in Nat /\ \A k \in 1..Len(s) : s[k] \in S
  BY LenProperties, ElementOfSeq
<1>1. /\ SubSeq(s, 1, i - 1) \in Seq(S)
      /\ Len(SubSeq(s, 1, i - 1)) = i - 1
      /\ \A k \in 1..(i - 1) : SubSeq(s, 1, i - 1)[k] = s[k]
  <2>1. \A k \in 1..(i - 1) : s[k] \in S
    BY <1>0
  <2>. QED
    BY <1>0, <2>1, SubSeqProperties
<1>2. /\ SubSeq(s, i + 1, Len(s)) \in Seq(S)
      /\ Len(SubSeq(s, i + 1, Len(s))) = Len(s) - i
      /\ \A k \in 1..(Len(s) - i) : SubSeq(s, i + 1, Len(s))[k] = s[i + k]
  <2>1. \A k \in (i + 1)..Len(s) : s[k] \in S
    BY <1>0
  <2>2. \A k \in 1..(Len(s) - (i + 1) + 1) : SubSeq(s, i + 1, Len(s))[k] = s[(i + 1) + k - 1]
    BY <1>0, <2>1, SubSeqProperties, SMTT(40)
  <2>. QED
    BY <1>0, <2>1, <2>2, SubSeqProperties
<1>3. PICK a, b \in Seq(S) : a = SubSeq(s, 1, i - 1) /\ b = SubSeq(s, i + 1, Len(s))
  BY <1>1, <1>2
<1>4. /\ Len(a) = i - 1
      /\ Len(b) = Len(s) - i
      /\ \A k \in 1..(i - 1) : a[k] = s[k]
      /\ \A k \in 1..(Len(s) - i) : b[k] = s[i + k]
  BY <1>1, <1>2, <1>3
<1>5. /\ a \o b \in Seq(S)
      /\ Len(a \o b) = Len(s) - 1
      /\ \A k \in 1..(Len(s) - 1) : (a \o b)[k] = IF k <= i - 1 THEN a[k] ELSE b[k - (i - 1)]
  BY <1>0, <1>4, ConcatProperties, SMTT(40)
<1>6. ASSUME NEW k \in 1..(Len(s) - 1)
      PROVE  (a \o b)[k] = IF k < i THEN s[k] ELSE s[k + 1]
  <2>1. CASE k < i
    <3>1. k \in 1..(i - 1)
      BY <1>0, <2>1
    <3>. QED
      BY <1>0, <1>4, <1>5, <2>1, <3>1
  <2>2. CASE ~(k < i)
    <3>1. k - (i - 1) \in 1..(Len(s) - i) /\ i + (k - (i - 1)) = k + 1 /\ ~(k <= i - 1)
      BY <1>0, <2>2
    <3>2. b[k - (i - 1)] = s[k + 1]
      BY <1>4, <3>1
    <3>. QED
      BY <1>5, <2>2, <3>1, <3>2
  <2>. QED
    BY <2>1, <2>2
<1>7. RemoveAt(s, i) = a \o b
  BY <1>3 DEF RemoveAt
<1>. QED
  BY <1>5, <1>6, <1>7

\* MoveToFront keeps a list a list: it only permutes the elements.
LEMMA MoveToFrontProperties ==
  ASSUME NEW S, NEW s \in Seq(S), NEW i \in DOMAIN s
  PROVE  /\ MoveToFront(s, i) \in Seq(S)
         /\ Len(MoveToFront(s, i)) = Len(s)
         /\ MoveToFront(s, i)[1] = s[i]
         /\ \A k \in 2..Len(s) : MoveToFront(s, i)[k] = IF k <= i THEN s[k - 1] ELSE s[k]
<1>0. i \in 1..Len(s) /\ Len(s) \in Nat /\ s[i] \in S
  BY LenProperties, ElementOfSeq
<1>1. /\ RemoveAt(s, i) \in Seq(S)
      /\ Len(RemoveAt(s, i)) = Len(s) - 1
      /\ \A k \in 1..(Len(s) - 1) : RemoveAt(s, i)[k] = IF k < i THEN s[k] ELSE s[k + 1]
  BY RemoveAtProperties
<1>2. /\ Cons(s[i], RemoveAt(s, i)) \in Seq(S)
      /\ Len(Cons(s[i], RemoveAt(s, i))) = Len(s)
      /\ Cons(s[i], RemoveAt(s, i))[1] = s[i]
      /\ \A k \in 2..Len(s) : Cons(s[i], RemoveAt(s, i))[k] = RemoveAt(s, i)[k - 1]
  BY <1>0, <1>1, ConsProperties
<1>. QED
  BY <1>0, <1>1, <1>2 DEF MoveToFront

\* list.Remove of Back: the others stay where they are.
LEMMA FrontProperties ==
  ASSUME NEW S, NEW s \in Seq(S), s # <<>>
  PROVE  /\ Front(s) \in Seq(S)
         /\ Len(Front(s)) = Len(s) - 1
         /\ \A k \in 1..(Len(s) - 1) : Front(s)[k] = s[k]
         /\ Last(s) = s[Len(s)]
         /\ Last(s) \in S
         /\ Len(s) >= 1
<1>1. Len(s) \in Nat \ {0} /\ \A k \in 1..Len(s) : s[k] \in S
  BY EmptySeq, ElementOfSeq
<1>2. \A k \in 1..(Len(s) - 1) : s[k] \in S
  BY <1>1
<1>3. PICK n \in Nat : n = Len(s) - 1
  BY <1>1
<1>4. /\ SubSeq(s, 1, n) \in Seq(S)
      /\ Len(SubSeq(s, 1, n)) = n
      /\ \A k \in 1..n : SubSeq(s, 1, n)[k] = s[k]
  <2>1. \A k \in 1..n : s[k] \in S
    BY <1>2, <1>3
  <2>. QED
    BY <2>1, SubSeqProperties
<1>5. Front(s) = SubSeq(s, 1, n) /\ Last(s) = s[Len(s)]
  BY <1>3 DEF Front, Last
<1>. QED
  BY <1>1, <1>3, <1>4, <1>5

-----------------------------------------------------------------------------
(* Identifiers and sizes along the list operations.                        *)

\* The fields of a Model: an identifier and a size, which is a number of bytes.
LEMMA SizesAreNat == \A m \in Model : m.id \in Models /\ m.size \in Sizes /\ m.size \in Nat
BY CacheAssumption DEF CacheAssumption, Model

\* PushFront of a new model adds its identifier and keeps identifiers distinct.
LEMMA ConsIds ==
  ASSUME NEW s \in Seq(Model), NEW m \in Model
  PROVE  /\ Ids(Cons(m, s)) = Ids(s) \cup {m.id}
         /\ Distinct(s) /\ m.id \notin Ids(s) => Distinct(Cons(m, s))
<1>. DEFINE t == Cons(m, s)
<1>1. /\ Len(s) \in Nat /\ DOMAIN s = 1..Len(s)
      /\ t \in Seq(Model) /\ Len(t) = Len(s) + 1 /\ DOMAIN t = 1..(Len(s) + 1)
      /\ t[1] = m
      /\ \A k \in 2..(Len(s) + 1) : t[k] = s[k - 1]
  BY ConsProperties, LenProperties
<1>. HIDE DEF t
<1>2. \A k \in 1..Len(s) : k + 1 \in DOMAIN t /\ t[k + 1] = s[k]
  BY <1>1
<1>3. \A k \in DOMAIN t : k = 1 \/ (k - 1 \in DOMAIN s /\ t[k] = s[k - 1])
  BY <1>1
<1>4. Ids(t) = Ids(s) \cup {m.id}
  <2>1. m.id \in Ids(t)
    BY <1>1 DEF Ids
  <2>2. Ids(s) \subseteq Ids(t)
    BY <1>1, <1>2 DEF Ids
  <2>3. Ids(t) \subseteq Ids(s) \cup {m.id}
    BY <1>1, <1>3 DEF Ids
  <2>. QED
    BY <2>1, <2>2, <2>3
<1>5. ASSUME Distinct(s), m.id \notin Ids(s)
      PROVE  Distinct(t)
  BY <1>1, <1>3, <1>5, SMTT(40) DEF Distinct, Ids
<1>. QED
  BY <1>4, <1>5 DEF t

\* MoveToFront loses and repeats no identifier.
LEMMA MoveToFrontIds ==
  ASSUME NEW s \in Seq(Model), NEW i \in DOMAIN s
  PROVE  /\ Ids(MoveToFront(s, i)) = Ids(s)
         /\ Distinct(s) => Distinct(MoveToFront(s, i))
<1>. DEFINE t == MoveToFront(s, i)
            from(k) == IF k = 1 THEN i ELSE IF k <= i THEN k - 1 ELSE k
            to(k) == IF k = i THEN 1 ELSE IF k < i THEN k + 1 ELSE k
<1>1. /\ Len(s) \in Nat /\ DOMAIN s = 1..Len(s) /\ i \in 1..Len(s)
      /\ t \in Seq(Model) /\ Len(t) = Len(s) /\ DOMAIN t = 1..Len(s)
      /\ t[1] = s[i]
      /\ \A k \in 2..Len(s) : t[k] = IF k <= i THEN s[k - 1] ELSE s[k]
  BY MoveToFrontProperties, LenProperties
<1>. HIDE DEF t
<1>2. \A k \in DOMAIN t : from(k) \in DOMAIN s /\ t[k] = s[from(k)]
  BY <1>1
<1>3. \A k \in DOMAIN s : to(k) \in DOMAIN t /\ from(to(k)) = k
  BY <1>1
<1>4. \A k, l \in DOMAIN t : from(k) = from(l) => k = l
  BY <1>1
<1>5. Ids(t) \subseteq Ids(s)
  BY <1>2 DEF Ids
<1>6. Ids(s) \subseteq Ids(t)
  <2>. SUFFICES ASSUME NEW k \in DOMAIN s
                PROVE  \E l \in DOMAIN t : t[l].id = s[k].id
    BY DEF Ids
  <2>. QED
    BY <1>2, <1>3
<1>7. Distinct(s) => Distinct(t)
  <2>. HIDE DEF from
  <2>. QED
    BY <1>2, <1>4 DEF Distinct
<1>. QED
  BY <1>5, <1>6, <1>7 DEF t

\* Removing the back element removes its identifier, and no other.
LEMMA FrontIds ==
  ASSUME NEW s \in Seq(Model), s # <<>>, Distinct(s)
  PROVE  /\ Ids(Front(s)) = Ids(s) \ {Last(s).id}
         /\ Distinct(Front(s))
<1>. DEFINE t == Front(s)
<1>1. /\ Len(s) \in Nat /\ Len(s) >= 1 /\ DOMAIN s = 1..Len(s)
      /\ t \in Seq(Model) /\ Len(t) = Len(s) - 1 /\ DOMAIN t = 1..(Len(s) - 1)
      /\ Last(s) = s[Len(s)]
      /\ \A k \in 1..(Len(s) - 1) : t[k] = s[k]
  BY FrontProperties, LenProperties
<1>. HIDE DEF t
<1>2. \A k \in DOMAIN t : k \in DOMAIN s /\ k # Len(s) /\ t[k] = s[k]
  BY <1>1
<1>3. \A k \in DOMAIN s : k = Len(s) \/ k \in DOMAIN t
  BY <1>1
<1>4. Distinct(t)
  BY <1>2 DEF Distinct
<1>5. Len(s) \in DOMAIN s
  BY <1>1
<1>6. \A k \in DOMAIN t : t[k].id # Last(s).id
  BY <1>1, <1>2, <1>5 DEF Distinct
<1>7. Ids(t) = Ids(s) \ {Last(s).id}
  BY <1>1, <1>2, <1>3, <1>6 DEF Ids
<1>. QED
  BY <1>4, <1>7 DEF t

\* f holds the partial sums of the sizes along s.
IsPrefixSums(f, s) ==
  /\ f \in [0..Len(s) -> Int]
  /\ f[0] = 0
  /\ \A i \in 1..Len(s) : f[i] = f[i - 1] + s[i].size

\* The inductive form of AccountingExact.
Accounted(s, n) == \E f : IsPrefixSums(f, s) /\ n = f[Len(s)]

\* Partial sums grow by one size at a time, and are integers.
LEMMA PrefixSumStep ==
  ASSUME NEW s \in Seq(Model), NEW f, IsPrefixSums(f, s), NEW k \in 1..Len(s)
  PROVE  /\ f[k] \in Int /\ f[k - 1] \in Int
         /\ s[k].size \in Nat
         /\ f[k] = f[k - 1] + s[k].size
<1>1. k \in 0..Len(s) /\ k - 1 \in 0..Len(s) /\ Len(s) \in Nat
  BY LenProperties
<1>2. s[k].size \in Nat
  BY ElementOfSeq, SizesAreNat
<1>. QED
  BY <1>1, <1>2 DEF IsPrefixSums

\* A new cache, with nothing in it and nothing counted, is accounted for.
LEMMA EmptyAccounted == Accounted(<<>>, 0)
<1>1. IsPrefixSums([i \in 0..0 |-> 0], <<>>)
  BY DEF IsPrefixSums
<1>. QED
  BY <1>1 DEF Accounted

\* Put adds the size of the model it pushes (lrucache.go:61).
LEMMA ConsAccounted ==
  ASSUME NEW s \in Seq(Model), NEW m \in Model, NEW n \in Int, Accounted(s, n)
  PROVE  Accounted(Cons(m, s), n + m.size)
<1>. DEFINE t == Cons(m, s)
<1>1. /\ Len(s) \in Nat
      /\ t \in Seq(Model) /\ Len(t) = Len(s) + 1
      /\ t[1] = m
      /\ \A k \in 2..(Len(s) + 1) : t[k] = s[k - 1]
  BY ConsProperties, LenProperties
<1>. HIDE DEF t
<1>2. m.size \in Int
  BY SizesAreNat
<1>3. PICK f : IsPrefixSums(f, s) /\ n = f[Len(s)]
  BY DEF Accounted
<1>. DEFINE g == [k \in 0..Len(t) |-> IF k = 0 THEN 0 ELSE f[k - 1] + m.size]
<1>4. g \in [0..Len(t) -> Int] /\ g[0] = 0
  BY <1>1, <1>2, <1>3 DEF IsPrefixSums
<1>5. ASSUME NEW i \in 1..Len(t)
      PROVE  g[i] = g[i - 1] + t[i].size
  <2>1. CASE i = 1
    BY <1>1, <1>2, <1>3, <2>1 DEF IsPrefixSums
  <2>2. CASE i > 1
    <3>1. PICK j \in 1..Len(s) : j = i - 1 /\ t[i] = s[j]
      BY <1>1, <2>2
    <3>2. f[j] = f[j - 1] + s[j].size /\ f[j] \in Int /\ f[j - 1] \in Int /\ s[j].size \in Nat
      BY <1>3, PrefixSumStep
    <3>3. g[i] = f[j] + m.size /\ g[j] = f[j - 1] + m.size
      BY <1>1, <3>1
    <3>. HIDE DEF g
    <3>. QED
      BY <1>2, <3>1, <3>2, <3>3, SMTT(40)
  <2>. QED
    BY <1>1, <2>1, <2>2
<1>6. n + m.size = g[Len(t)]
  BY <1>1, <1>2, <1>3 DEF IsPrefixSums
<1>. HIDE DEF g
<1>7. IsPrefixSums(g, t)
  BY <1>4, <1>5 DEF IsPrefixSums
<1>. QED
  BY <1>6, <1>7 DEF Accounted, t

\* The eviction loop subtracts the size of the model it removes
\* (lrucache.go:80); the last model leaves nothing behind.
LEMMA FrontAccounted ==
  ASSUME NEW s \in Seq(Model), s # <<>>, NEW n \in Int, Accounted(s, n)
  PROVE  /\ Accounted(Front(s), n - Last(s).size)
         /\ Len(s) = 1 => n = Last(s).size
<1>. DEFINE t == Front(s)
<1>1. /\ Len(s) \in Nat /\ Len(s) >= 1
      /\ t \in Seq(Model) /\ Len(t) = Len(s) - 1
      /\ Last(s) = s[Len(s)] /\ Last(s) \in Model
      /\ \A k \in 1..(Len(s) - 1) : t[k] = s[k]
  BY FrontProperties, LenProperties
<1>. HIDE DEF t
<1>2. Last(s).size \in Int
  BY <1>1, SizesAreNat
<1>3. PICK f : IsPrefixSums(f, s) /\ n = f[Len(s)]
  BY DEF Accounted
<1>. DEFINE g == [k \in 0..Len(t) |-> f[k]]
<1>4. g \in [0..Len(t) -> Int] /\ g[0] = 0
  BY <1>1, <1>3 DEF IsPrefixSums
<1>5. ASSUME NEW i \in 1..Len(t)
      PROVE  g[i] = g[i - 1] + t[i].size
  BY <1>1, <1>3 DEF IsPrefixSums
<1>6. n - Last(s).size = g[Len(t)] /\ (Len(s) = 1 => n = Last(s).size)
  <2>1. PICK j \in 1..Len(s) : j = Len(s)
    BY <1>1
  <2>2. f[j] = f[j - 1] + s[j].size /\ f[j] \in Int /\ f[j - 1] \in Int
    BY <1>3, PrefixSumStep
  <2>3. g[Len(t)] = f[j - 1] /\ f[0] = 0 /\ n = f[j] /\ Last(s) = s[j]
    BY <1>1, <1>3, <2>1 DEF IsPrefixSums
  <2>. HIDE DEF g
  <2>. QED
    BY <1>2, <2>1, <2>2, <2>3
<1>. HIDE DEF g
<1>7. IsPrefixSums(g, t)
  BY <1>4, <1>5 DEF IsPrefixSums
<1>. QED
  BY <1>6, <1>7 DEF Accounted, t

\* Get and Put of a cached model change the order of the sizes, not their sum.
LEMMA MoveToFrontAccounted ==
  ASSUME NEW s \in Seq(Model), NEW i \in DOMAIN s, NEW n \in Int, Accounted(s, n)
  PROVE  Accounted(MoveToFront(s, i), n)
<1>. DEFINE t == MoveToFront(s, i)
<1>1. /\ Len(s) \in Nat /\ i \in 1..Len(s) /\ s[i] \in Model
      /\ t \in Seq(Model) /\ Len(t) = Len(s)
      /\ t[1] = s[i]
      /\ \A k \in 2..Len(s) : t[k] = IF k <= i THEN s[k - 1] ELSE s[k]
  BY MoveToFrontProperties, LenProperties, ElementOfSeq
<1>. HIDE DEF t
<1>2. s[i].size \in Int /\ \A k \in 1..Len(s) : s[k].size \in Int
  BY <1>1, ElementOfSeq, SizesAreNat
<1>3. PICK f : IsPrefixSums(f, s) /\ n = f[Len(s)]
  BY DEF Accounted
<1>. DEFINE g == [k \in 0..Len(t) |-> IF k = 0 \/ k > i THEN f[k] ELSE f[k - 1] + s[i].size]
<1>4. g \in [0..Len(t) -> Int] /\ g[0] = 0
  BY <1>1, <1>2, <1>3, SMTT(40) DEF IsPrefixSums
<1>5. ASSUME NEW k \in 1..Len(t)
      PROVE  g[k] = g[k - 1] + t[k].size
  <2>1. CASE k = 1
    BY <1>1, <1>2, <1>3, <2>1 DEF IsPrefixSums
  <2>2. CASE k > 1 /\ k <= i
    <3>1. PICK j \in 1..Len(s) : j = k - 1 /\ t[k] = s[j]
      BY <1>1, <2>2
    <3>2. f[j] = f[j - 1] + s[j].size /\ f[j] \in Int /\ f[j - 1] \in Int /\ s[j].size \in Nat
      BY <1>3, PrefixSumStep
    <3>3. g[k] = f[j] + s[i].size /\ g[k - 1] = f[j - 1] + s[i].size
      BY <1>1, <2>2, <3>1
    <3>4. f[j] + s[i].size = (f[j - 1] + s[i].size) + s[j].size
      BY <1>2, <3>2, SMTT(40)
    <3>. HIDE DEF g
    <3>. QED
      BY <3>1, <3>3, <3>4
  <2>3. CASE k > i
    <3>1. k \in 1..Len(s) /\ t[k] = s[k] /\ g[k] = f[k]
      BY <1>1, <2>3
    <3>2. f[k] = f[k - 1] + s[k].size /\ f[k] \in Int /\ f[k - 1] \in Int /\ s[k].size \in Nat
      BY <1>3, <3>1, PrefixSumStep
    <3>3. f[i] = f[i - 1] + s[i].size
      BY <1>1, <1>3, PrefixSumStep
    <3>4. g[k - 1] = f[k - 1]
      BY <1>1, <2>3, <3>3
    <3>. HIDE DEF g
    <3>. QED
      BY <3>1, <3>2, <3>4
  <2>. QED
    BY <1>1, <2>1, <2>2, <2>3
<1>6. n = g[Len(t)]
  BY <1>1, <1>2, <1>3 DEF IsPrefixSums
<1>. HIDE DEF g
<1>7. IsPrefixSums(g, t)
  BY <1>4, <1>5 DEF IsPrefixSums
<1>. QED
  BY <1>6, <1>7 DEF Accounted, t

-----------------------------------------------------------------------------
(* The inductive invariant.                                                *)

LRUInv == /\ LRUTypeOK
          /\ MapMatchesList
          /\ CapacityBound
          /\ Accounted(lruList, currentSize)

\* A key of the map has its element in the list.
LEMMA PositionInList ==
  ASSUME NEW m, MapMatchesList, m \in modelMap
  PROVE  Position(m) \in DOMAIN lruList /\ lruList[Position(m)].id = m
BY DEF MapMatchesList, Ids, Position

\* NewLRUCache establishes the invariant.
LEMMA InitInv == LRUInit => LRUInv
<1>. SUFFICES ASSUME LRUInit
              PROVE  LRUInv
  OBVIOUS
<1>. USE DEF LRUInit, NewLRUCache
<1>1. LRUTypeOK
  BY EmptySeq DEF LRUTypeOK, CopyState
<1>2. MapMatchesList
  BY DEF MapMatchesList, Ids, Distinct, NoCall
<1>3. CapacityBound
  BY CacheAssumption DEF CapacityBound, CacheAssumption
<1>4. Accounted(lruList, currentSize)
  BY EmptyAccounted
<1>. QED
  BY <1>1, <1>2, <1>3, <1>4 DEF LRUInv

\* Get of a cached model, and Put of one: the model moves to the front.
LEMMA MoveInv ==
  ASSUME LRUInv, NEW m \in modelMap,
         lruList' = MoveToFront(lruList, Position(m)),
         UNCHANGED <<modelMap, currentSize, call, disk>>
  PROVE  LRUInv'
<1>1. /\ Position(m) \in DOMAIN lruList
      /\ lruList \in Seq(Model)
      /\ currentSize \in Int
  BY PositionInList DEF LRUInv, LRUTypeOK
<1>2. /\ lruList' \in Seq(Model)
      /\ Len(lruList') = Len(lruList)
  BY <1>1, MoveToFrontProperties
<1>3. LRUTypeOK'
  BY <1>2 DEF LRUInv, LRUTypeOK
<1>4. MapMatchesList'
  BY <1>1, MoveToFrontIds DEF LRUInv, MapMatchesList
<1>5. CapacityBound'
  BY <1>2 DEF LRUInv, CapacityBound
<1>6. Accounted(lruList, currentSize)'
  BY <1>1, MoveToFrontAccounted DEF LRUInv
<1>. QED
  BY <1>3, <1>4, <1>5, <1>6 DEF LRUInv

\* Steps that leave list, map and byte count alone.
LEMMA CallInv ==
  ASSUME LRUInv, LRUTypeOK',
         call'.op = "put" => call'.model.id \notin modelMap,
         UNCHANGED <<lruList, modelMap, currentSize>>
  PROVE  LRUInv'
BY DEF LRUInv, MapMatchesList, CapacityBound, Accounted

\* One iteration of the eviction loop of EnsureFreeBytes keeps the invariant.
LEMMA EvictInv ==
  ASSUME LRUInv, EvictLRU
  PROVE  LRUInv'
<1>1. /\ lruList \in Seq(Model) /\ lruList # <<>>
      /\ currentSize \in Int
      /\ lruList' = Front(lruList)
      /\ currentSize' = currentSize - Last(lruList).size
      /\ modelMap' = modelMap \ {Last(lruList).id}
      /\ call' = call
      /\ Distinct(lruList) /\ modelMap = Ids(lruList)
      /\ call.op = "put" => call.model.id \notin modelMap
  BY DEF LRUInv, LRUTypeOK, EvictLRU, MustEvict, DropBack, MapMatchesList
<1>2. /\ lruList' \in Seq(Model)
      /\ Len(lruList') = Len(lruList) - 1
      /\ Last(lruList) \in Model /\ Last(lruList).size \in Nat
      /\ Len(lruList) \in Nat /\ Len(lruList) >= 1
  BY <1>1, FrontProperties, SizesAreNat, LenProperties
<1>3. LRUTypeOK'
  <2>1. disk' \in [Models -> CopyState]
    BY DEF LRUInv, LRUTypeOK, EvictLRU, CopyState
  <2>2. modelMap' \subseteq Models /\ currentSize' \in Int
    BY <1>1, <1>2 DEF LRUInv, LRUTypeOK
  <2>. QED
    BY <1>1, <1>2, <2>1, <2>2 DEF LRUInv, LRUTypeOK
<1>4. MapMatchesList'
  <2>1. Ids(lruList') = modelMap' /\ Distinct(lruList')
    BY <1>1, FrontIds
  <2>. QED
    BY <1>1, <2>1 DEF MapMatchesList
<1>5. Accounted(lruList', currentSize') /\ (Len(lruList) = 1 => currentSize' = 0)
  <2>1. /\ Accounted(Front(lruList), currentSize - Last(lruList).size)
        /\ Len(lruList) = 1 => currentSize = Last(lruList).size
    BY <1>1, FrontAccounted DEF LRUInv
  <2>2. Accounted(lruList', currentSize')
    BY <1>1, <2>1
  <2>. QED
    BY <1>1, <1>2, <2>1, <2>2
<1>6. CapacityBound'
  <2>1. CASE Len(lruList) = 1
    BY <1>5, <2>1, CacheAssumption DEF CapacityBound, CacheAssumption
  <2>2. CASE Len(lruList) # 1
    BY <1>1, <1>2, <2>2, CacheAssumption DEF LRUInv, CapacityBound, CacheAssumption
  <2>. QED
    BY <2>1, <2>2
<1>. QED
  BY <1>3, <1>4, <1>5, <1>6 DEF LRUInv

\* The second half of Put, once there is room, keeps the invariant.
LEMMA PushInv ==
  ASSUME LRUInv, Pushed
  PROVE  LRUInv'
<1>1. /\ lruList \in Seq(Model) /\ currentSize \in Int
      /\ call.model \in Model
      /\ call.model.id \notin modelMap
      /\ call.bytes = call.model.size
      /\ modelMap = Ids(lruList) /\ Distinct(lruList)
      /\ Accounted(lruList, currentSize)
  BY DEF LRUInv, LRUTypeOK, MapMatchesList, Pushed, NoCall
<1>2. /\ lruList' = Cons(call.model, lruList)
      /\ modelMap' = modelMap \cup {call.model.id}
      /\ currentSize' = currentSize + call.model.size
      /\ call' = NoCall /\ disk' = disk
      /\ ~MustEvict(call.bytes)
  BY DEF Pushed
<1>3. /\ call.model.size \in Nat /\ call.model.id \in Models
      /\ lruList' \in Seq(Model)
      /\ Len(lruList') = Len(lruList) + 1
      /\ Len(lruList) \in Nat
  BY <1>1, <1>2, SizesAreNat, ConsProperties, LenProperties
<1>4. LRUTypeOK'
  BY <1>1, <1>2, <1>3 DEF LRUInv, LRUTypeOK
<1>5. MapMatchesList'
  <2>1. Ids(lruList') = modelMap' /\ Distinct(lruList')
    BY <1>1, <1>2, ConsIds
  <2>. QED
    BY <1>2, <2>1 DEF MapMatchesList, NoCall
<1>6. Accounted(lruList', currentSize')
  BY <1>1, <1>2, ConsAccounted
<1>7. CapacityBound'
  <2>1. CASE lruList = <<>>
    BY <1>3, <2>1 DEF CapacityBound
  <2>2. CASE lruList # <<>>
    BY <1>1, <1>2, <1>3, <2>2, CacheAssumption DEF CapacityBound, MustEvict, CacheAssumption
  <2>. QED
    BY <2>1, <2>2
<1>. QED
  BY <1>4, <1>5, <1>6, <1>7 DEF LRUInv

\* A process that starts again starts from an empty cache.
LEMMA RestartInv ==
  ASSUME LRUTypeOK, Restart
  PROVE  LRUInv'
<1>. USE DEF Restart
<1>1. LRUTypeOK'
  BY EmptySeq DEF LRUTypeOK
<1>2. MapMatchesList'
  BY DEF MapMatchesList, Ids, Distinct, NoCall
<1>3. CapacityBound'
  BY CacheAssumption DEF CapacityBound, CacheAssumption
<1>4. Accounted(lruList, currentSize)'
  BY EmptyAccounted
<1>. QED
  BY <1>1, <1>2, <1>3, <1>4 DEF LRUInv

\* The invariant is inductive: one case per operation of the cache.
LEMMA NextInv == LRUInv /\ [LRUNext]_lruVars => LRUInv'
<1>. SUFFICES ASSUME LRUInv, [LRUNext]_lruVars
              PROVE  LRUInv'
  OBVIOUS
<1>1. ASSUME NEW m \in Models, Get(m)
      PROVE  LRUInv'
  <2>1. CASE m \in modelMap
    BY <1>1, <2>1, MoveInv DEF Get
  <2>2. CASE m \notin modelMap
    <3>1. UNCHANGED lruVars
      BY <1>1, <2>2 DEF Get, lruVars
    <3>. QED
      BY <3>1 DEF lruVars, LRUInv, LRUTypeOK, MapMatchesList, CapacityBound, Accounted
  <2>. QED
    BY <2>1, <2>2
<1>2. ASSUME NEW b \in Sizes, EnsureFreeBytes(b)
      PROVE  LRUInv'
  <2>1. LRUTypeOK' /\ call'.op # "put"
    BY <1>2 DEF EnsureFreeBytes, LRUInv, LRUTypeOK, NoModel
  <2>. QED
    BY <1>2, <2>1, CallInv DEF EnsureFreeBytes
<1>3. ASSUME NEW m \in Model, Put(m)
      PROVE  LRUInv'
  <2>1. CASE PutExisting(m)
    BY <2>1, MoveInv DEF PutExisting
  <2>2. CASE PutNew(m)
    <3>1. LRUTypeOK' /\ call'.model = m
      BY <2>2 DEF PutNew, LRUInv, LRUTypeOK
    <3>. QED
      BY <2>2, <3>1, CallInv DEF PutNew
  <2>. QED
    BY <1>3, <2>1, <2>2 DEF Put
<1>4. CASE EvictLRU
  BY <1>4, EvictInv
<1>5. CASE Freed
  <2>1. LRUTypeOK' /\ call'.op # "put"
    BY <1>5 DEF Freed, LRUInv, LRUTypeOK, NoCall
  <2>. QED
    BY <1>5, <2>1, CallInv DEF Freed
<1>6. CASE Pushed
  BY <1>6, PushInv
<1>7. CASE Restart
  BY <1>7, RestartInv DEF LRUInv
<1>8. ASSUME NEW m \in Models, DiskChanges(m)
      PROVE  LRUInv'
  <2>1. LRUTypeOK'
    BY <1>8 DEF DiskChanges, LRUInv, LRUTypeOK, CopyState
  <2>2. call'.op = "put" => call'.model.id \notin modelMap
    BY <1>8 DEF DiskChanges, LRUInv, MapMatchesList
  <2>. QED
    BY <1>8, <2>1, <2>2, CallInv DEF DiskChanges
<1>9. CASE UNCHANGED lruVars
  BY <1>9 DEF lruVars, LRUInv, LRUTypeOK, MapMatchesList, CapacityBound, Accounted
<1>. QED
  BY <1>1, <1>2, <1>3, <1>4, <1>5, <1>6, <1>7, <1>8, <1>9 DEF LRUNext, FatalRemove

\* The invariant holds in every state of the cache.
LEMMA InvAlways == LRUSpec => []LRUInv
BY InitInv, NextInv, PTL DEF LRUSpec

\* The recursive PrefixSums has the value of any function of partial sums.
LEMMA PrefixSumsValue ==
  ASSUME NEW s \in Seq(Model), NEW f, IsPrefixSums(f, s)
  PROVE  PrefixSums(s)[Len(s)] = f[Len(s)]
<1>. DEFINE D == 0..Len(s)
            F == PrefixSums(s)
<1>0. Len(s) \in Nat
  BY LenProperties
<1>1. f = [n \in D |-> IF n = 0 THEN 0 ELSE f[n - 1] + s[n].size]
  <2>1. \A n \in D : f[n] = IF n = 0 THEN 0 ELSE f[n - 1] + s[n].size
    BY <1>0 DEF IsPrefixSums
  <2>2. f = [n \in D |-> f[n]]
    BY DEF IsPrefixSums
  <2>. QED
    BY <2>1, <2>2
<1>2. F = [n \in D |-> IF n = 0 THEN 0 ELSE F[n - 1] + s[n].size]
  BY <1>1 DEF PrefixSums
<1>. HIDE DEF F
<1>3. \A n \in D : F[n] = f[n]
  <2>. DEFINE T == {n \in D : F[n] # f[n]}
  <2>. SUFFICES ASSUME T # {}
                PROVE  FALSE
    OBVIOUS
  <2>1. PICK n \in T : \A y \in T : n <= y
    <3>1. T \subseteq Nat
      BY <1>0
    <3>. QED
      BY <3>1, LeastElement
  <2>2. n # 0
    BY <1>0, <1>1, <1>2
  <2>3. n - 1 \in D /\ n - 1 \notin T
    BY <1>0, <2>1, <2>2
  <2>4. F[n - 1] = f[n - 1]
    BY <2>3
  <2>5. F[n] = F[n - 1] + s[n].size /\ f[n] = f[n - 1] + s[n].size
    BY <1>1, <1>2, <2>2
  <2>. QED
    BY <2>4, <2>5
<1>. QED
  BY <1>0, <1>3 DEF F

-----------------------------------------------------------------------------
(* The theorems.                                                           *)

\* Every state of the cache is well typed: list, map, byte count and the call
\* in progress (lrucache.go:20-26).
THEOREM LRUTypeCorrect == LRUSpec => []LRUTypeOK
<1>1. LRUInv => LRUTypeOK
  BY DEF LRUInv
<1>. QED
  BY <1>1, InvAlways, PTL

\* List and map of the cache never disagree, whatever calls are made and in
\* whatever order (lrucache.go:43-87).
THEOREM MapCorrect == LRUSpec => []MapMatchesList
<1>1. LRUInv => MapMatchesList
  BY DEF LRUInv
<1>. QED
  BY <1>1, InvAlways, PTL

\* The accounted bytes stay within the capacity unless one model alone is
\* larger than the cache (lrucache.go:54-87).
THEOREM BudgetCorrect == LRUSpec => []CapacityBound
<1>1. LRUInv => CapacityBound
  BY DEF LRUInv
<1>. QED
  BY <1>1, InvAlways, PTL

\* The prefix sums of the invariant are those of AccountingExact.
LEMMA InvIsExact ==
  ASSUME LRUInv
  PROVE  AccountingExact
<1>1. PICK f : IsPrefixSums(f, lruList) /\ currentSize = f[Len(lruList)]
  BY DEF LRUInv, Accounted
<1>. QED
  BY <1>1, PrefixSumsValue DEF AccountingExact, LRUInv, LRUTypeOK

\* The running byte count is the sum of the sizes in the list
\* (lrucache.go:61 and :80).
THEOREM AccountingCorrect == LRUSpec => []AccountingExact
<1>1. LRUInv => AccountingExact
  BY InvIsExact
<1>. QED
  BY <1>1, InvAlways, PTL

-----------------------------------------------------------------------------
(* The refinement mapping as a function of the list.                       *)

NewerIn(s) == {<<s[p[1]].id, s[p[2]].id>> :
                 p \in {q \in (DOMAIN s) \X (DOMAIN s) : q[1] < q[2]}}

PositionIn(s, m) == CHOOSE i \in DOMAIN s : s[i].id = m

SizesIn(s) == [m \in Ids(s) |-> s[PositionIn(s, m)].size]

\* What the mapping reads off the list, written without CHOOSE: <<a, b>> is in
\* the relation iff a is nearer to the front than b, and the size of a model is
\* that of its element.
LEMMA MappingOfList ==
  ASSUME NEW s \in Seq(Model), Distinct(s)
  PROVE  /\ \A r : r \in NewerIn(s) <=>
              \E i, j \in DOMAIN s : i < j /\ r = <<s[i].id, s[j].id>>
         /\ DOMAIN SizesIn(s) = Ids(s)
         /\ \A i \in DOMAIN s : PositionIn(s, s[i].id) = i
         /\ \A i \in DOMAIN s : SizesIn(s)[s[i].id] = s[i].size
<1>1. ASSUME NEW r, r \in NewerIn(s)
      PROVE  \E i, j \in DOMAIN s : i < j /\ r = <<s[i].id, s[j].id>>
  <2>1. PICK p \in (DOMAIN s) \X (DOMAIN s) : p[1] < p[2] /\ r = <<s[p[1]].id, s[p[2]].id>>
    BY <1>1 DEF NewerIn
  <2>. QED
    BY <2>1
<1>2. ASSUME NEW r, NEW i \in DOMAIN s, NEW j \in DOMAIN s, i < j, r = <<s[i].id, s[j].id>>
      PROVE  r \in NewerIn(s)
  <2>1. <<i, j>> \in {q \in (DOMAIN s) \X (DOMAIN s) : q[1] < q[2]}
    BY <1>2
  <2>. QED
    BY <1>2, <2>1 DEF NewerIn
<1>3. ASSUME NEW i \in DOMAIN s
      PROVE  PositionIn(s, s[i].id) = i /\ SizesIn(s)[s[i].id] = s[i].size
  <2>1. PositionIn(s, s[i].id) \in DOMAIN s /\ s[PositionIn(s, s[i].id)].id = s[i].id
    BY DEF PositionIn
  <2>2. PositionIn(s, s[i].id) = i
    BY <2>1 DEF Distinct
  <2>. QED
    BY <2>2 DEF SizesIn, Ids
<1>. QED
  BY <1>1, <1>2, <1>3 DEF SizesIn

\* In a reachable state the variables of the abstract cache are these.
LEMMA MappingOfState ==
  /\ Newer = NewerIn(lruList)
  /\ modelMap = Ids(lruList) => SizeOf = SizesIn(lruList)
  /\ Newer' = NewerIn(lruList')
  /\ modelMap' = Ids(lruList') => SizeOf' = SizesIn(lruList')
BY DEF Newer, NewerIn, SizeOf, SizesIn, Position, PositionIn

\* MoveToFront makes the model the newest of all and leaves the order of the
\* others and every size alone.
LEMMA MoveToFrontMapping ==
  ASSUME NEW s \in Seq(Model), Distinct(s), NEW i \in DOMAIN s
  PROVE  LET m == s[i].id
         IN  /\ NewerIn(MoveToFront(s, i)) =
                  {p \in NewerIn(s) : p[1] # m /\ p[2] # m} \cup ({m} \X (Ids(s) \ {m}))
             /\ SizesIn(MoveToFront(s, i)) = SizesIn(s)
<1>. DEFINE m == s[i].id
            t == MoveToFront(s, i)
            from(k) == IF k = 1 THEN i ELSE IF k <= i THEN k - 1 ELSE k
            to(k) == IF k = i THEN 1 ELSE IF k < i THEN k + 1 ELSE k
<1>1. /\ Len(s) \in Nat /\ DOMAIN s = 1..Len(s) /\ i \in 1..Len(s)
      /\ t \in Seq(Model) /\ Len(t) = Len(s) /\ DOMAIN t = 1..Len(s)
      /\ t[1] = s[i]
      /\ \A k \in 2..Len(s) : t[k] = IF k <= i THEN s[k - 1] ELSE s[k]
  BY MoveToFrontProperties, LenProperties
<1>2. Ids(t) = Ids(s) /\ Distinct(t)
  BY MoveToFrontIds
<1>. HIDE DEF t, m
<1>3. \A k \in DOMAIN t : from(k) \in DOMAIN s /\ t[k] = s[from(k)] /\ (k # 1 => from(k) # i)
  BY <1>1
<1>4. \A k \in DOMAIN s : to(k) \in DOMAIN t /\ t[to(k)] = s[k] /\ (k # i => to(k) # 1)
  BY <1>1
<1>5. \A k, l \in DOMAIN t : k # 1 /\ k < l => from(k) < from(l)
  BY <1>1
<1>6. \A k, l \in DOMAIN s : k # i /\ l # i /\ k < l => to(k) < to(l)
  BY <1>1
<1>7. \A l \in DOMAIN s : l # i => 1 < to(l)
  BY <1>1
<1>8. \A k \in DOMAIN s : s[k].id = m <=> k = i
  BY DEF Distinct, m
<1>9. 1 \in DOMAIN t /\ t[1].id = m /\ \A k \in DOMAIN t : k >= 1
  BY <1>1 DEF m
<1>. HIDE DEF from, to
<1>10. ASSUME NEW r, r \in NewerIn(t)
       PROVE  r \in {p \in NewerIn(s) : p[1] # m /\ p[2] # m} \cup ({m} \X (Ids(s) \ {m}))
  <2>1. PICK k, l \in DOMAIN t : k < l /\ r = <<t[k].id, t[l].id>>
    BY <1>1, <1>2, <1>10, MappingOfList, SMTT(40)
  <2>2. l # 1 /\ from(l) \in DOMAIN s /\ t[l] = s[from(l)] /\ from(l) # i
    BY <1>1, <1>3, <2>1
  <2>3. t[l].id \in Ids(s) \ {m}
    BY <1>8, <2>2 DEF Ids
  <2>4. CASE k = 1
    BY <1>9, <2>1, <2>3, <2>4
  <2>5. CASE k # 1
    <3>1. from(k) \in DOMAIN s /\ t[k] = s[from(k)] /\ from(k) # i /\ from(k) < from(l)
      BY <1>3, <1>5, <2>1, <2>5
    <3>2. r \in NewerIn(s)
      BY <2>1, <2>2, <3>1, MappingOfList
    <3>3. r[1] # m /\ r[2] # m
      BY <1>8, <2>1, <2>2, <3>1
    <3>. QED
      BY <3>2, <3>3
  <2>. QED
    BY <2>4, <2>5
<1>11. ASSUME NEW r \in NewerIn(s), r[1] # m, r[2] # m
       PROVE  r \in NewerIn(t)
  <2>1. PICK k, l \in DOMAIN s : k < l /\ r = <<s[k].id, s[l].id>>
    BY MappingOfList
  <2>2. k # i /\ l # i
    BY <1>8, <1>11, <2>1
  <2>3. /\ to(k) \in DOMAIN t /\ t[to(k)] = s[k]
        /\ to(l) \in DOMAIN t /\ t[to(l)] = s[l]
        /\ to(k) < to(l)
    BY <1>4, <1>6, <2>1, <2>2
  <2>. QED
    BY <1>1, <1>2, <2>1, <2>3, MappingOfList
<1>12. ASSUME NEW r \in {m} \X (Ids(s) \ {m})
       PROVE  r \in NewerIn(t)
  <2>1. PICK l \in DOMAIN s : r = <<m, s[l].id>> /\ s[l].id # m
    BY DEF Ids
  <2>2. l # i
    BY <1>8, <2>1
  <2>3. to(l) \in DOMAIN t /\ t[to(l)] = s[l] /\ 1 < to(l)
    BY <1>4, <1>7, <2>2
  <2>. QED
    BY <1>1, <1>2, <1>9, <2>1, <2>3, MappingOfList
<1>13. NewerIn(t) = {p \in NewerIn(s) : p[1] # m /\ p[2] # m} \cup ({m} \X (Ids(s) \ {m}))
  BY <1>10, <1>11, <1>12
<1>14. ASSUME NEW x \in Ids(s)
       PROVE  SizesIn(t)[x] = SizesIn(s)[x]
  <2>1. PICK k \in DOMAIN s : x = s[k].id
    BY DEF Ids
  <2>2. to(k) \in DOMAIN t /\ t[to(k)] = s[k]
    BY <1>4
  <2>3. SizesIn(s)[x] = s[k].size
    BY <2>1, MappingOfList
  <2>4. SizesIn(t)[t[to(k)].id] = t[to(k)].size
    BY <1>1, <1>2, <2>2, MappingOfList
  <2>. QED
    BY <2>1, <2>2, <2>3, <2>4
<1>15. SizesIn(t) = SizesIn(s)
  BY <1>2, <1>14 DEF SizesIn
<1>. QED
  BY <1>13, <1>15 DEF m, t

\* PushFront of a new model makes it the newest of all.
LEMMA ConsMapping ==
  ASSUME NEW s \in Seq(Model), Distinct(s), NEW m \in Model, m.id \notin Ids(s)
  PROVE  /\ NewerIn(Cons(m, s)) = NewerIn(s) \cup ({m.id} \X Ids(s))
         /\ SizesIn(Cons(m, s)) =
              [x \in Ids(s) \cup {m.id} |-> IF x = m.id THEN m.size ELSE SizesIn(s)[x]]
<1>. DEFINE t == Cons(m, s)
<1>1. /\ Len(s) \in Nat /\ DOMAIN s = 1..Len(s)
      /\ t \in Seq(Model) /\ Len(t) = Len(s) + 1 /\ DOMAIN t = 1..(Len(s) + 1)
      /\ t[1] = m
      /\ \A k \in 2..(Len(s) + 1) : t[k] = s[k - 1]
  BY ConsProperties, LenProperties
<1>2. Ids(t) = Ids(s) \cup {m.id} /\ Distinct(t)
  BY ConsIds
<1>. HIDE DEF t
<1>3. \A k \in 1..Len(s) : k + 1 \in DOMAIN t /\ t[k + 1] = s[k]
  BY <1>1
<1>0. \A r : r \in NewerIn(t) <=> \E i, j \in DOMAIN t : i < j /\ r = <<t[i].id, t[j].id>>
  BY <1>1, <1>2, MappingOfList
<1>4. ASSUME NEW r, r \in NewerIn(t)
      PROVE  r \in NewerIn(s) \cup ({m.id} \X Ids(s))
  <2>1. PICK k, l \in DOMAIN t : k < l /\ r = <<t[k].id, t[l].id>>
    BY <1>0, <1>4
  <2>2. l - 1 \in DOMAIN s /\ t[l] = s[l - 1]
    BY <1>1, <2>1
  <2>3. CASE k = 1
    BY <1>1, <2>1, <2>2, <2>3 DEF Ids
  <2>4. CASE k # 1
    <3>1. k - 1 \in DOMAIN s /\ t[k] = s[k - 1] /\ k - 1 < l - 1
      BY <1>1, <2>1, <2>4
    <3>. QED
      BY <2>1, <2>2, <3>1, MappingOfList
  <2>. QED
    BY <2>3, <2>4
<1>5. ASSUME NEW r \in NewerIn(s)
      PROVE  r \in NewerIn(t)
  <2>1. PICK k, l \in DOMAIN s : k < l /\ r = <<s[k].id, s[l].id>>
    BY MappingOfList
  <2>2. /\ k + 1 \in DOMAIN t /\ l + 1 \in DOMAIN t /\ k + 1 < l + 1
        /\ t[k + 1] = s[k] /\ t[l + 1] = s[l]
    BY <1>1, <1>3, <2>1
  <2>. QED
    BY <1>0, <1>1, <2>1, <2>2
<1>6. ASSUME NEW r \in {m.id} \X Ids(s)
      PROVE  r \in NewerIn(t)
  <2>1. PICK l \in DOMAIN s : r = <<m.id, s[l].id>>
    BY DEF Ids
  <2>2. 1 \in DOMAIN t /\ l + 1 \in DOMAIN t /\ 1 < l + 1 /\ t[l + 1] = s[l]
    BY <1>1, <1>3
  <2>. QED
    BY <1>0, <1>1, <2>1, <2>2
<1>7. ASSUME NEW x \in Ids(s) \cup {m.id}
      PROVE  SizesIn(t)[x] = IF x = m.id THEN m.size ELSE SizesIn(s)[x]
  <2>1. CASE x = m.id
    <3>1. 1 \in DOMAIN t
      BY <1>1
    <3>. QED
      BY <1>1, <1>2, <2>1, <3>1, MappingOfList
  <2>2. CASE x # m.id
    <3>1. PICK k \in DOMAIN s : x = s[k].id
      BY <2>2 DEF Ids
    <3>2. k + 1 \in DOMAIN t /\ t[k + 1] = s[k]
      BY <1>1, <1>3
    <3>3. SizesIn(s)[x] = s[k].size
      BY <3>1, MappingOfList
    <3>4. SizesIn(t)[t[k + 1].id] = t[k + 1].size
      BY <1>1, <1>2, <3>2, MappingOfList
    <3>. QED
      BY <2>2, <3>1, <3>2, <3>3, <3>4
  <2>. QED
    BY <2>1, <2>2
<1>8. NewerIn(t) = NewerIn(s) \cup ({m.id} \X Ids(s))
  BY <1>4, <1>5, <1>6
<1>9. SizesIn(t) = [x \in Ids(s) \cup {m.id} |-> IF x = m.id THEN m.size ELSE SizesIn(s)[x]]
  BY <1>2, <1>7 DEF SizesIn
<1>. QED
  BY <1>8, <1>9 DEF t

\* The back of the list is the model used longest ago; taking it off leaves the
\* order and the sizes of the others alone.
LEMMA FrontMapping ==
  ASSUME NEW s \in Seq(Model), s # <<>>, Distinct(s)
  PROVE  LET m == Last(s).id
         IN  /\ m \in Ids(s)
             /\ SizesIn(s)[m] = Last(s).size
             /\ \A x \in Ids(s) \ {m} : <<x, m>> \in NewerIn(s)
             /\ NewerIn(Front(s)) = {p \in NewerIn(s) : p[1] # m /\ p[2] # m}
             /\ SizesIn(Front(s)) = [x \in Ids(s) \ {m} |-> SizesIn(s)[x]]
<1>. DEFINE m == Last(s).id
            t == Front(s)
<1>1. /\ Len(s) \in Nat /\ Len(s) >= 1 /\ DOMAIN s = 1..Len(s)
      /\ t \in Seq(Model) /\ Len(t) = Len(s) - 1 /\ DOMAIN t = 1..(Len(s) - 1)
      /\ Last(s) = s[Len(s)]
      /\ \A k \in 1..(Len(s) - 1) : t[k] = s[k]
  BY FrontProperties, LenProperties
<1>2. Ids(t) = Ids(s) \ {m} /\ Distinct(t)
  BY FrontIds
<1>. HIDE DEF t, m
<1>3. Len(s) \in DOMAIN s /\ m = s[Len(s)].id
  BY <1>1 DEF m
<1>4. \A k \in DOMAIN s : s[k].id = m <=> k = Len(s)
  BY <1>3 DEF Distinct
<1>5. \A k \in DOMAIN s : k # Len(s) => k \in DOMAIN t /\ t[k] = s[k] /\ k < Len(s)
  BY <1>1
<1>6. \A k \in DOMAIN t : k \in DOMAIN s /\ t[k] = s[k] /\ k # Len(s)
  BY <1>1
<1>0. \A r : r \in NewerIn(t) <=> \E i, j \in DOMAIN t : i < j /\ r = <<t[i].id, t[j].id>>
  BY <1>1, <1>2, MappingOfList
<1>7. m \in Ids(s) /\ SizesIn(s)[m] = Last(s).size
  BY <1>1, <1>3, MappingOfList DEF Ids
<1>8. ASSUME NEW x \in Ids(s) \ {m}
      PROVE  <<x, m>> \in NewerIn(s)
  <2>1. PICK k \in DOMAIN s : x = s[k].id
    BY DEF Ids
  <2>2. k < Len(s)
    BY <1>4, <1>5, <2>1
  <2>. QED
    BY <1>3, <2>1, <2>2, MappingOfList
<1>9. ASSUME NEW r, r \in NewerIn(t)
      PROVE  r \in {p \in NewerIn(s) : p[1] # m /\ p[2] # m}
  <2>1. PICK k, l \in DOMAIN t : k < l /\ r = <<t[k].id, t[l].id>>
    BY <1>0, <1>9
  <2>2. /\ k \in DOMAIN s /\ t[k] = s[k] /\ k # Len(s)
        /\ l \in DOMAIN s /\ t[l] = s[l] /\ l # Len(s)
    BY <1>6
  <2>3. r \in NewerIn(s)
    BY <2>1, <2>2, MappingOfList
  <2>4. r[1] # m /\ r[2] # m
    BY <1>4, <2>1, <2>2
  <2>. QED
    BY <2>3, <2>4
<1>10. ASSUME NEW r \in NewerIn(s), r[1] # m, r[2] # m
       PROVE  r \in NewerIn(t)
  <2>1. PICK k, l \in DOMAIN s : k < l /\ r = <<s[k].id, s[l].id>>
    BY MappingOfList
  <2>2. k # Len(s) /\ l # Len(s)
    BY <1>4, <1>10, <2>1
  <2>3. k \in DOMAIN t /\ t[k] = s[k] /\ l \in DOMAIN t /\ t[l] = s[l]
    BY <1>5, <2>2
  <2>. QED
    BY <1>0, <2>1, <2>3
<1>11. ASSUME NEW x \in Ids(s) \ {m}
       PROVE  SizesIn(t)[x] = SizesIn(s)[x]
  <2>1. PICK k \in DOMAIN s : x = s[k].id
    BY DEF Ids
  <2>2. k \in DOMAIN t /\ t[k] = s[k]
    BY <1>4, <1>5, <2>1
  <2>3. SizesIn(s)[x] = s[k].size
    BY <2>1, MappingOfList
  <2>4. SizesIn(t)[t[k].id] = t[k].size
    BY <1>1, <1>2, <2>2, MappingOfList
  <2>. QED
    BY <2>1, <2>2, <2>3, <2>4
<1>12. NewerIn(t) = {p \in NewerIn(s) : p[1] # m /\ p[2] # m}
  BY <1>9, <1>10
<1>13. SizesIn(t) = [x \in Ids(s) \ {m} |-> SizesIn(s)[x]]
  BY <1>2, <1>11 DEF SizesIn
<1>. QED
  BY <1>7, <1>8, <1>12, <1>13 DEF m, t

-----------------------------------------------------------------------------
(* Every step of the cache is a step of the abstract cache, or none.       *)

\* A new cache is an empty abstract cache.
LEMMA EmptyMapping == Ids(<<>>) = {} /\ NewerIn(<<>>) = {}
BY DEF Ids, NewerIn

\* NewLRUCache starts an empty abstract cache.
LEMMA InitRefines == LRUInit => Abstract!Init
<1>. SUFFICES ASSUME LRUInit
              PROVE  Abstract!Init
  OBVIOUS
<1>1. Newer = {}
  BY MappingOfState, EmptyMapping DEF LRUInit, NewLRUCache
<1>. QED
  BY <1>1 DEF LRUInit, NewLRUCache, NoCall, Abstract!Init, SizeOf

\* Get of a cached model, and Put of one, are a Use.
LEMMA MoveRefines ==
  ASSUME LRUInv, NEW m \in modelMap,
         lruList' = MoveToFront(lruList, Position(m)),
         UNCHANGED <<modelMap, currentSize, call>>
  PROVE  Abstract!Use(m)
<1>1. /\ lruList \in Seq(Model) /\ Distinct(lruList) /\ modelMap = Ids(lruList)
      /\ Position(m) \in DOMAIN lruList /\ lruList[Position(m)].id = m
  BY PositionInList DEF LRUInv, LRUTypeOK, MapMatchesList
<1>2. /\ NewerIn(lruList') = {p \in NewerIn(lruList) : p[1] # m /\ p[2] # m}
                               \cup ({m} \X (Ids(lruList) \ {m}))
      /\ SizesIn(lruList') = SizesIn(lruList)
  BY <1>1, MoveToFrontMapping
<1>3. Ids(lruList') = Ids(lruList)
  BY <1>1, MoveToFrontIds
<1>4. /\ Newer' = {p \in Newer : p[1] # m /\ p[2] # m} \cup ({m} \X (modelMap \ {m}))
      /\ SizeOf' = SizeOf
  BY <1>1, <1>2, <1>3, MappingOfState
<1>. QED
  BY <1>4 DEF Abstract!Use, Abstract!Newest, Abstract!Without

\* The loop of EnsureFreeBytes ends when the bytes fit, or the cache is empty.
LEMMA NoMoreToEvict ==
  ASSUME LRUInv, call.op # "none", ~MustEvict(call.bytes)
  PROVE  currentSize + call.bytes <= Capacity \/ modelMap = {}
<1>1. currentSize \in Int /\ modelMap = Ids(lruList)
  BY DEF LRUInv, LRUTypeOK, MapMatchesList
<1>2. call.bytes \in Nat
  <2>1. call.bytes \in Sizes
    BY SizesAreNat DEF LRUInv, LRUTypeOK, NoCall
  <2>. QED
    BY <2>1, CacheAssumption DEF CacheAssumption
<1>3. CASE lruList = <<>>
  BY <1>1, <1>3, EmptyMapping
<1>4. CASE lruList # <<>>
  BY <1>1, <1>2, <1>4, CacheAssumption DEF MustEvict, CacheAssumption
<1>. QED
  BY <1>3, <1>4

\* The second half of Put is an Admit: there is room, or nothing was left to
\* evict.
LEMMA PushRefines ==
  ASSUME LRUInv, Pushed
  PROVE  \E m \in Models, z \in Sizes : Abstract!Admit(m, z)
<1>. DEFINE m == call.model.id
            z == call.model.size
<1>1. /\ lruList \in Seq(Model) /\ Distinct(lruList) /\ modelMap = Ids(lruList)
      /\ currentSize \in Int
      /\ call.model \in Model
      /\ call.model.id \notin modelMap
      /\ call.bytes = call.model.size
      /\ call.op # "none"
  BY DEF LRUInv, LRUTypeOK, MapMatchesList, Pushed, NoCall
<1>2. /\ lruList' = Cons(call.model, lruList)
      /\ modelMap' = modelMap \cup {m}
      /\ currentSize' = currentSize + z
      /\ ~MustEvict(call.bytes)
      /\ call'.bytes = 0
  BY DEF Pushed, NoCall
<1>3. m \in Models /\ z \in Sizes /\ z \in Nat
  BY <1>1, SizesAreNat
<1>4. currentSize + z <= Capacity \/ modelMap = {}
  BY <1>1, <1>2, NoMoreToEvict
<1>5. /\ NewerIn(lruList') = NewerIn(lruList) \cup ({m} \X Ids(lruList))
      /\ SizesIn(lruList') =
           [x \in Ids(lruList) \cup {m} |-> IF x = m THEN z ELSE SizesIn(lruList)[x]]
      /\ Ids(lruList') = modelMap'
  BY <1>1, <1>2, ConsMapping, ConsIds
<1>6. /\ Newer' = Newer \cup ({m} \X modelMap)
      /\ SizeOf' = [x \in modelMap \cup {m} |-> IF x = m THEN z ELSE SizeOf[x]]
  BY <1>1, <1>5, MappingOfState
<1>. HIDE DEF m, z
<1>7. \A p \in Newer : p[1] # m /\ p[2] # m
  <2>. SUFFICES ASSUME NEW p \in NewerIn(lruList)
                PROVE  p[1] # m /\ p[2] # m
    BY MappingOfState
  <2>1. PICK i, j \in DOMAIN lruList : p = <<lruList[i].id, lruList[j].id>>
    BY <1>1, MappingOfList
  <2>. QED
    BY <1>1, <2>1 DEF m, Ids
<1>8. m \notin modelMap
  BY <1>1 DEF m
<1>9. Newer' = Abstract!Newest(m)
  BY <1>6, <1>7, <1>8 DEF Abstract!Newest, Abstract!Without
<1>9a. call.bytes = z
  BY <1>1 DEF z
<1>10. Abstract!Admit(m, z)
  BY <1>2, <1>4, <1>6, <1>8, <1>9, <1>9a DEF Abstract!Admit, Abstract!Fits
<1>. QED
  BY <1>3, <1>10

\* An iteration of the eviction loop is an Evict: the back of the list is the
\* model used longest ago, and the bytes asked for do not fit.
LEMMA EvictRefines ==
  ASSUME LRUInv, EvictLRU
  PROVE  \E m \in Models : Abstract!Evict(m)
<1>. DEFINE m == Last(lruList).id
<1>1. /\ lruList \in Seq(Model) /\ lruList # <<>> /\ Distinct(lruList)
      /\ modelMap = Ids(lruList) /\ modelMap \subseteq Models
      /\ currentSize \in Int
      /\ lruList' = Front(lruList)
      /\ currentSize' = currentSize - Last(lruList).size
      /\ modelMap' = modelMap \ {m}
      /\ Capacity - currentSize < call.bytes
      /\ call' = call
  BY DEF LRUInv, LRUTypeOK, EvictLRU, MustEvict, DropBack, MapMatchesList
<1>2. call.bytes \in Sizes /\ call.bytes \in Nat
  <2>1. call.bytes \in Sizes
    BY SizesAreNat DEF LRUInv, LRUTypeOK, EvictLRU, NoCall
  <2>. QED
    BY <2>1, CacheAssumption DEF CacheAssumption
<1>3. currentSize + call.bytes > Capacity
  BY <1>1, <1>2, CacheAssumption DEF CacheAssumption
<1>4. /\ m \in Ids(lruList)
      /\ SizesIn(lruList)[m] = Last(lruList).size
      /\ \A x \in Ids(lruList) \ {m} : <<x, m>> \in NewerIn(lruList)
      /\ NewerIn(lruList') = {p \in NewerIn(lruList) : p[1] # m /\ p[2] # m}
      /\ SizesIn(lruList') = [x \in Ids(lruList) \ {m} |-> SizesIn(lruList)[x]]
      /\ Ids(lruList') = modelMap'
  BY <1>1, FrontMapping, FrontIds
<1>5. /\ m \in modelMap /\ m \in Models
      /\ SizeOf[m] = Last(lruList).size
      /\ \A x \in modelMap \ {m} : <<x, m>> \in Newer
      /\ Newer' = {p \in Newer : p[1] # m /\ p[2] # m}
      /\ SizeOf' = [x \in modelMap \ {m} |-> SizeOf[x]]
  BY <1>1, <1>4, MappingOfState
<1>. HIDE DEF m
<1>6. Abstract!Oldest(m) /\ Newer' = Abstract!Without(m)
  BY <1>5 DEF Abstract!Oldest, Abstract!Without
<1>7. Abstract!Evict(m)
  <2>1. ~Abstract!Fits(call.bytes)
    BY <1>1, <1>2, <1>3, <1>5, CacheAssumption DEF Abstract!Fits, CacheAssumption
  <2>. QED
    BY <1>1, <1>5, <1>6, <2>1 DEF Abstract!Evict
<1>. QED
  BY <1>5, <1>7

\* A process that starts again has an empty abstract cache.
LEMMA RestartRefines == Restart => Abstract!Clear
<1>. SUFFICES ASSUME Restart
              PROVE  Abstract!Clear
  OBVIOUS
<1>1. Newer' = {}
  BY MappingOfState, EmptyMapping DEF Restart
<1>. QED
  BY <1>1 DEF Restart, NoCall, Abstract!Clear, Abstract!Init, SizeOf

\* Steps that leave list, map and byte count alone change nothing but the bytes
\* asked for, and are invisible if there is no call either.
LEMMA StutterRefines ==
  ASSUME UNCHANGED <<lruList, modelMap, currentSize>>
  PROVE  /\ UNCHANGED <<modelMap, SizeOf, currentSize, Newer>>
         /\ call'.bytes = call.bytes => UNCHANGED Abstract!vars
BY DEF Abstract!vars, Newer, SizeOf, Position

\* One case per operation of the cache.
LEMMA StepRefines ==
  LRUInv /\ [LRUNext]_lruVars => [Abstract!Next]_(Abstract!vars)
<1>. SUFFICES ASSUME LRUInv, [LRUNext]_lruVars
              PROVE  Abstract!Next \/ UNCHANGED Abstract!vars
  OBVIOUS
<1>0. modelMap \subseteq Models
  BY DEF LRUInv, LRUTypeOK
<1>1. ASSUME NEW m \in Models, Get(m)
      PROVE  Abstract!Use(m) \/ UNCHANGED Abstract!vars
  <2>1. CASE m \in modelMap
    BY <1>1, <2>1, MoveRefines DEF Get
  <2>2. CASE m \notin modelMap
    BY <1>1, <2>2, StutterRefines DEF Get
  <2>. QED
    BY <2>1, <2>2
<1>2. ASSUME NEW b \in Sizes, EnsureFreeBytes(b)
      PROVE  Abstract!Ask(b)
  BY <1>2, StutterRefines DEF EnsureFreeBytes, Abstract!Ask
<1>3. ASSUME NEW m \in Model, Put(m)
      PROVE  (m.id \in Models /\ Abstract!Use(m.id)) \/ (m.size \in Sizes /\ Abstract!Ask(m.size))
  <2>1. CASE PutExisting(m)
    BY <1>0, <2>1, MoveRefines DEF PutExisting
  <2>2. CASE PutNew(m)
    BY <2>2, StutterRefines, SizesAreNat DEF PutNew, Abstract!Ask
  <2>. QED
    BY <1>3, <2>1, <2>2 DEF Put
<1>4. CASE EvictLRU
  BY <1>4, EvictRefines DEF Abstract!Next
<1>5. CASE Freed
  <2>1. Abstract!Fits(call.bytes)
    BY <1>5, NoMoreToEvict DEF Freed, Abstract!Fits
  <2>2. Abstract!Granted
    BY <1>5, <2>1, StutterRefines DEF Freed, NoCall, Abstract!Granted
  <2>. QED
    BY <2>2 DEF Abstract!Next
<1>6. CASE Pushed
  BY <1>6, PushRefines DEF Abstract!Next
<1>7. CASE Restart
  BY <1>7, RestartRefines DEF Abstract!Next
<1>8. ASSUME NEW m \in Models, DiskChanges(m)
      PROVE  UNCHANGED Abstract!vars
  BY <1>8, StutterRefines DEF DiskChanges
<1>9. CASE UNCHANGED lruVars
  BY <1>9, StutterRefines DEF lruVars
<1>10. (\E m \in Models : Abstract!Use(m)) \/ (\E b \in Sizes : Abstract!Ask(b)) => Abstract!Next
  BY DEF Abstract!Next
<1>. QED
  BY <1>1, <1>2, <1>3, <1>4, <1>5, <1>6, <1>7, <1>8, <1>9, <1>10 DEF LRUNext, FatalRemove

\* The cache of lrucache.go implements the abstract cache: what leaves to make
\* room is always the model used longest ago, it leaves only while the bytes
\* asked for do not fit, and what enters is within the budget or alone
\* (lrucache.go:43-87).
THEOREM CacheImplementsModelCache == LRUSpec => ImplementsModelCache
<1>1. LRUInv /\ [LRUNext]_lruVars => [Abstract!Next]_(Abstract!vars)
  BY StepRefines
<1>. QED
  BY <1>1, InitRefines, InvAlways, PTL DEF LRUSpec, ImplementsModelCache, Abstract!Spec
=============================================================================
