--------------------------- MODULE UseOrderProofs ---------------------------
(***************************************************************************)
(* The list of LRUCache is the order of use, and the configuration made of *)
(* it is the list, in its order, for every set of models, every set of     *)
(* sizes and every capacity.                                               *)
(***************************************************************************)
EXTENDS UseOrder, LRUCacheProofs, ServingConfigProofs

-----------------------------------------------------------------------------
(* The order of use.                                                       *)

\* A call of UseOrder is a call of the cache.
LEMMA OrderIsLRUStep ==
  ASSUME [OrderNext]_orderVars
  PROVE  [LRUNext]_lruVars
BY DEF OrderNext, orderVars, LRUNext, Put

\* The history only watches: with it the cache does what it does without.
LEMMA OrderIsLRU == OrderSpec => LRUSpec
<1>1. OrderInit => LRUInit
  BY DEF OrderInit
<1>. QED
  BY <1>1, OrderIsLRUStep, PTL DEF OrderSpec, LRUSpec

\* A model that is put in front of others by its use is later than all of them,
\* and the others keep their order: what MoveToFront of a model of the list and
\* PushFront of a new one have in common.
LEMMA FrontOfUses ==
  ASSUME LRUTypeOK, lruList' \in Seq(Model), ListIsUseOrder, NEW m \in Models, Use(m),
         lruList' # <<>>, lruList'[1].id = m,
         \A i \in 2..Len(lruList') :
           \E k \in DOMAIN lruList : /\ lruList'[i].id = lruList[k].id
                                     /\ lruList[k].id # m
                                     /\ \A j \in 1..k : \E h \in 1..i : lruList[j].id = lruList'[h].id
  PROVE  ListIsUseOrder'
<1>. SUFFICES ASSUME NEW i \in DOMAIN lruList', NEW n \in Models,
                     n \notin {lruList'[j].id : j \in 1..i}
              PROVE  <<lruList'[i].id, n>> \in later'
  BY DEF ListIsUseOrder
<1>1. Len(lruList') \in Nat /\ i \in 1..Len(lruList')
  BY LenProperties
<1>2. 1 \in 1..i /\ n # m
  BY <1>1
<1>3. CASE i = 1
  BY <1>2, <1>3 DEF Use
<1>4. CASE i # 1
  <2>1. i \in 2..Len(lruList')
    BY <1>1, <1>4
  <2>2. PICK k \in DOMAIN lruList :
          /\ lruList'[i].id = lruList[k].id
          /\ lruList[k].id # m
          /\ \A j \in 1..k : \E h \in 1..i : lruList[j].id = lruList'[h].id
    BY <2>1
  <2>3. n \notin {lruList[j].id : j \in 1..k}
    BY <2>2
  <2>4. <<lruList[k].id, n>> \in later
    BY <2>3 DEF ListIsUseOrder
  <2>5. <<lruList[k].id, n>>[2] = n
    OBVIOUS
  <2>. QED
    BY <1>2, <2>2, <2>4, <2>5 DEF Use
<1>. QED
  BY <1>3, <1>4

\* A hit of Get, and Put of a model that is in the cache.
LEMMA MoveIsUse ==
  ASSUME LRUInv, ListIsUseOrder, NEW m \in modelMap, Use(m),
         lruList' = MoveToFront(lruList, Position(m))
  PROVE  ListIsUseOrder'
<1>. DEFINE p == Position(m)
<1>1. /\ LRUTypeOK /\ lruList \in Seq(Model) /\ m \in Models
      /\ p \in DOMAIN lruList /\ lruList[p].id = m /\ Distinct(lruList)
  BY PositionInList DEF LRUInv, LRUTypeOK, MapMatchesList
<1>. HIDE DEF p
<1>2. lruList' = MoveToFront(lruList, p)
  BY DEF p
<1>3. Len(lruList) \in Nat /\ DOMAIN lruList = 1..Len(lruList) /\ p \in 1..Len(lruList)
  BY <1>1, LenProperties
<1>4. /\ lruList' \in Seq(Model) /\ Len(lruList') = Len(lruList)
      /\ lruList'[1] = lruList[p]
      /\ \A k \in 2..Len(lruList) : lruList'[k] = IF k <= p THEN lruList[k - 1] ELSE lruList[k]
  BY <1>1, <1>2, MoveToFrontProperties
<1>5. lruList' # <<>> /\ lruList'[1].id = m
  BY <1>1, <1>3, <1>4
<1>6. ASSUME NEW i \in 2..Len(lruList')
      PROVE  \E k \in DOMAIN lruList :
               /\ lruList'[i].id = lruList[k].id
               /\ lruList[k].id # m
               /\ \A j \in 1..k : \E h \in 1..i : lruList[j].id = lruList'[h].id
  <2>. DEFINE k == IF i <= p THEN i - 1 ELSE i
  <2>1. k \in 1..Len(lruList) /\ k # p /\ k <= i
    BY <1>3, <1>4
  <2>2. lruList'[i] = lruList[k]
    BY <1>3, <1>4
  <2>3. lruList[k].id # m
    BY <1>1, <1>3, <2>1 DEF Distinct
  <2>4. ASSUME NEW j \in 1..k
        PROVE  \E h \in 1..i : lruList[j].id = lruList'[h].id
    <3>1. CASE j = p
      BY <1>4, <3>1
    <3>2. CASE j < p
      <4>1. j + 1 \in 1..i /\ j + 1 \in 2..Len(lruList) /\ j + 1 <= p
        BY <1>3, <1>4, <2>1, <3>2
      <4>2. lruList'[j + 1] = lruList[j]
        BY <1>3, <1>4, <4>1
      <4>. QED
        BY <4>1, <4>2
    <3>3. CASE j > p
      <4>1. j \in 1..i /\ j \in 2..Len(lruList) /\ ~(j <= p)
        BY <1>3, <1>4, <2>1, <3>3
      <4>2. lruList'[j] = lruList[j]
        BY <1>4, <4>1
      <4>. QED
        BY <4>1, <4>2
    <3>. QED
      BY <1>3, <2>1, <3>1, <3>2, <3>3
  <2>. HIDE DEF k
  <2>. QED
    BY <1>3, <2>1, <2>2, <2>3, <2>4
<1>. QED
  BY <1>1, <1>4, <1>5, <1>6, FrontOfUses

\* The end of Put of a new model.
LEMMA PushIsUse ==
  ASSUME LRUInv, ListIsUseOrder, Pushed, Use(call.model.id)
  PROVE  ListIsUseOrder'
<1>. DEFINE m == call.model
<1>1. /\ LRUTypeOK /\ lruList \in Seq(Model) /\ m \in Model /\ m.id \in Models
      /\ m.id \notin Ids(lruList)
  BY SizesAreNat DEF LRUInv, LRUTypeOK, MapMatchesList, Pushed, NoCall
<1>2. Len(lruList) \in Nat /\ DOMAIN lruList = 1..Len(lruList)
  BY <1>1, LenProperties
<1>3. lruList' = Cons(m, lruList)
  BY DEF Pushed
<1>4. Use(m.id)
  OBVIOUS
<1>. HIDE DEF m
<1>5. /\ lruList' \in Seq(Model) /\ Len(lruList') = Len(lruList) + 1
      /\ lruList'[1] = m
      /\ \A k \in 2..(Len(lruList) + 1) : lruList'[k] = lruList[k - 1]
  <2>1. /\ Cons(m, lruList) \in Seq(Model) /\ Len(Cons(m, lruList)) = Len(lruList) + 1
        /\ Cons(m, lruList)[1] = m
        /\ \A k \in 2..(Len(lruList) + 1) : Cons(m, lruList)[k] = lruList[k - 1]
    BY <1>1, ConsProperties
  <2>. QED
    BY <1>3, <2>1, Zenon
<1>6. lruList' # <<>> /\ lruList'[1].id = m.id
  BY <1>2, <1>5
<1>7. ASSUME NEW i \in 2..Len(lruList')
      PROVE  \E k \in DOMAIN lruList :
               /\ lruList'[i].id = lruList[k].id
               /\ lruList[k].id # m.id
               /\ \A j \in 1..k : \E h \in 1..i : lruList[j].id = lruList'[h].id
  <2>1. i - 1 \in DOMAIN lruList /\ lruList'[i] = lruList[i - 1]
    BY <1>2, <1>5
  <2>2. lruList[i - 1].id # m.id
    BY <1>1, <2>1 DEF Ids
  <2>3. ASSUME NEW j \in 1..(i - 1)
        PROVE  \E h \in 1..i : lruList[j].id = lruList'[h].id
    <3>1. j + 1 \in 1..i /\ j + 1 \in 2..(Len(lruList) + 1) /\ (j + 1) - 1 = j
      BY <1>2, <1>5
    <3>2. lruList'[j + 1] = lruList[j]
      BY <1>5, <3>1
    <3>. QED
      BY <3>1, <3>2
  <2>. QED
    BY <2>1, <2>2, <2>3
<1>. QED
  BY <1>1, <1>4, <1>5, <1>6, <1>7, FrontOfUses

\* An eviction takes the back of the list and leaves the order of the rest.
LEMMA EvictKeepsUses ==
  ASSUME LRUInv, ListIsUseOrder, EvictLRU, later' = later
  PROVE  ListIsUseOrder'
<1>1. lruList \in Seq(Model) /\ lruList # <<>> /\ lruList' = Front(lruList)
  BY DEF LRUInv, LRUTypeOK, EvictLRU, MustEvict, DropBack
<1>2. /\ lruList' \in Seq(Model) /\ Len(lruList') = Len(lruList) - 1
      /\ \A k \in 1..(Len(lruList) - 1) : lruList'[k] = lruList[k]
  BY <1>1, FrontProperties
<1>3. Len(lruList) \in Nat /\ DOMAIN lruList = 1..Len(lruList) /\ DOMAIN lruList' = 1..(Len(lruList) - 1)
  BY <1>1, <1>2, LenProperties
<1>4. \A i \in DOMAIN lruList' : /\ i \in DOMAIN lruList
                                 /\ \A j \in 1..i : lruList'[j] = lruList[j]
                                 /\ i \in 1..i
  BY <1>2, <1>3
<1>. SUFFICES ASSUME NEW i \in DOMAIN lruList', NEW n \in Models,
                     n \notin {lruList'[j].id : j \in 1..i}
              PROVE  <<lruList'[i].id, n>> \in later'
  BY DEF ListIsUseOrder
<1>5. n \notin {lruList[j].id : j \in 1..i}
  BY <1>4
<1>6. <<lruList[i].id, n>> \in later
  BY <1>4, <1>5 DEF ListIsUseOrder
<1>. QED
  BY <1>4, <1>6

\* Whatever calls are made and in whatever order, the list is the order of use:
\* what the eviction loop takes from its back was used longest ago
\* (lrucache.go:43-87).
THEOREM UseOrderCorrect == OrderSpec => []ListIsUseOrder
<1>1. OrderInit => ListIsUseOrder
  BY DEF OrderInit, LRUInit, NewLRUCache, ListIsUseOrder
<1>2. LRUInv /\ ListIsUseOrder /\ [OrderNext]_orderVars => ListIsUseOrder'
  <2>. SUFFICES ASSUME LRUInv, ListIsUseOrder, [OrderNext]_orderVars
                PROVE  ListIsUseOrder'
    OBVIOUS
  <2>1. CASE UNCHANGED <<lruList, later>>
    BY <2>1 DEF ListIsUseOrder
  <2>2. ASSUME NEW m \in Models, Get(m), IF m \in modelMap THEN Use(m) ELSE UNCHANGED later
        PROVE  ListIsUseOrder'
    <3>1. CASE m \in modelMap
      BY <2>2, <3>1, MoveIsUse DEF Get
    <3>2. CASE m \notin modelMap
      BY <2>1, <2>2, <3>2 DEF Get
    <3>. QED
      BY <3>1, <3>2
  <2>3. ASSUME NEW m \in Model, PutExisting(m), Use(m.id)
        PROVE  ListIsUseOrder'
    BY <2>3, MoveIsUse DEF PutExisting
  <2>4. CASE EvictLRU /\ UNCHANGED later
    BY <2>4, EvictKeepsUses
  <2>5. CASE Pushed /\ Use(call.model.id)
    BY <2>5, PushIsUse
  <2>6. CASE FatalRemove \/ Restart
    BY <2>6 DEF FatalRemove, Restart, ListIsUseOrder
  <2>7. CASE \/ \E b \in Sizes : EnsureFreeBytes(b) /\ UNCHANGED later
             \/ \E m \in Model : PutNew(m) /\ UNCHANGED later
             \/ Freed /\ UNCHANGED later
             \/ \E m \in Models : DiskChanges(m) /\ UNCHANGED later
    BY <2>1, <2>7 DEF EnsureFreeBytes, PutNew, Freed, DiskChanges
  <2>. QED
    BY <2>1, <2>2, <2>3, <2>4, <2>5, <2>6, <2>7 DEF OrderNext, orderVars, lruVars
<1>. QED
  BY <1>1, <1>2, OrderIsLRU, InvAlways, PTL DEF OrderSpec

-----------------------------------------------------------------------------
(* The configuration made of the list.                                     *)

\* The list names models that createModelConfig knows, each once.
LEMMA ListedIdsProperties ==
  ASSUME LRUInv
  PROVE  /\ ListedIds \in Seq(Identifiers)
         /\ Len(ListedIds) = Len(lruList)
         /\ DOMAIN lruList = 1..Len(lruList)
         /\ \A i \in 1..Len(lruList) : ListedIds[i] = lruList[i].id /\ ListedIds[i] \in Models
         /\ \A a, b \in 1..Len(lruList) : ListedIds[a] = ListedIds[b] => a = b
<1>1. lruList \in Seq(Model) /\ Distinct(lruList)
  BY DEF LRUInv, LRUTypeOK, MapMatchesList
<1>2. Len(lruList) \in Nat /\ DOMAIN lruList = 1..Len(lruList)
  BY <1>1, LenProperties
<1>3. \A i \in 1..Len(lruList) : ListedIds[i] = lruList[i].id /\ lruList[i] \in Model
  BY <1>1, <1>2, ElementOfSeq DEF ListedIds
<1>4. \A i \in 1..Len(lruList) : ListedIds[i] \in Models
  BY <1>3, SizesAreNat
<1>5. ListedIds \in [1..Len(lruList) -> Identifiers]
  BY <1>2, <1>4, OrderAssumption DEF OrderAssumption, ListedIds
<1>6. ListedIds \in Seq(Identifiers) /\ Len(ListedIds) = Len(lruList)
  BY <1>2, <1>5, SeqDef, LenProperties
<1>7. \A a, b \in 1..Len(lruList) : ListedIds[a] = ListedIds[b] => a = b
  BY <1>1, <1>2, <1>3 DEF Distinct
<1>. QED
  BY <1>2, <1>3, <1>4, <1>6, <1>7

\* Whatever list the cache holds, TF Serving accepts its configuration, which
\* asks for exactly the models of the list (servingcontroller.go:159-187).
THEOREM ConfigCorrect == OrderSpec => []ConfigIsList
<1>1. LRUInv => ConfigIsList
  BY ListedIdsProperties, ConfigOfList DEF ConfigIsList
<1>. QED
  BY <1>1, OrderIsLRU, InvAlways, PTL

\* A slot of the configuration is the model of one place of the list.
LEMMA SlotIsPlace ==
  ASSUME LRUInv, NEW i, NEW k, Slot(createModelConfig(ListedIds), i, k)
  PROVE  \E a \in 1..Len(lruList) :
           /\ At(createModelConfig(ListedIds), i, k, ListedIds[a])
           /\ Position(ModelAt(createModelConfig(ListedIds)[i], k)) = a
<1>. DEFINE configs == createModelConfig(ListedIds)
<1>1. Holds(configs, ListedIds, Len(lruList))
  BY ListedIdsProperties, ConfigHolds
<1>. HIDE DEF configs
<1>2. PICK a \in 1..Len(lruList) : At(configs, i, k, ListedIds[a])
  BY <1>1 DEF Holds, configs
<1>3. ListedIds[a] \in Models /\ ListedIds[a] = lruList[a].id /\ a \in DOMAIN lruList
  BY ListedIdsProperties
<1>4. ModelAt(configs[i], k) = ListedIds[a]
  <2>1. ModelName[ListedIds[a]] = configs[i].Name /\ Version[ListedIds[a]] = configs[i].Versions[k]
    BY <1>2 DEF At
  <2>2. \A m \in Models : ModelName[m] = configs[i].Name /\ Version[m] = configs[i].Versions[k]
          => m = ListedIds[a]
    BY <1>3, <2>1, IdentifierAssumption, OrderAssumption DEF IdentifierAssumption, OrderAssumption
  <2>. QED
    BY <1>3, <2>1, <2>2 DEF ModelAt
<1>5. Position(ListedIds[a]) = a
  <2>1. \A b \in DOMAIN lruList : lruList[b].id = ListedIds[a] => b = a
    BY <1>3 DEF LRUInv, MapMatchesList, Distinct
  <2>. QED
    BY <1>3, <2>1 DEF Position
<1>. QED
  BY <1>2, <1>4, <1>5 DEF configs

\* Whatever list the cache holds, its configuration keeps the order of the list
\* between names and within a name (servingcontroller.go:163-184).
THEOREM OrderCorrect == OrderSpec => []OrderKept
<1>1. ASSUME LRUInv
      PROVE  OrderKept
  <2>. DEFINE configs == createModelConfig(ListedIds)
  <2>1. /\ Holds(configs, ListedIds, Len(lruList))
        /\ InOrder(configs, ListedIds, Len(lruList))
    BY <1>1, ListedIdsProperties, ConfigHolds
  <2>2. \A i, k : Slot(configs, i, k) =>
          \E a \in 1..Len(lruList) : /\ At(configs, i, k, ListedIds[a])
                                     /\ Position(ModelAt(configs[i], k)) = a
    BY <1>1, SlotIsPlace
  <2>. HIDE DEF configs
  <2>3. ASSUME NEW i \in DOMAIN configs, NEW j \in DOMAIN configs, i < j
        PROVE  Position(ModelAt(configs[i], 1)) < Position(ModelAt(configs[j], 1))
    <3>1. \A x \in DOMAIN configs : Slot(configs, x, 1)
      <4>1. configs \in Seq(Config) /\ \A x \in DOMAIN configs : configs[x].Versions # <<>>
        BY <2>1 DEF Holds, GoodConfigs
      <4>2. ASSUME NEW x \in DOMAIN configs
            PROVE  1 \in DOMAIN configs[x].Versions
        <5>1. configs[x] \in Config
          BY <4>1, ElementOfSeq, LenProperties
        <5>2. configs[x].Versions \in Seq({Version[m] : m \in Identifiers})
          BY <5>1 DEF Config
        <5>3. configs[x].Versions # <<>>
          BY <4>1
        <5>. QED
          BY <5>2, <5>3, EmptySeq, LenProperties
      <4>. QED
        BY <4>2 DEF Slot
    <3>2. PICK a \in 1..Len(lruList) :
            At(configs, i, 1, ListedIds[a]) /\ Position(ModelAt(configs[i], 1)) = a
      BY <2>2, <3>1
    <3>3. PICK b \in 1..Len(lruList) :
            At(configs, j, 1, ListedIds[b]) /\ Position(ModelAt(configs[j], 1)) = b
      BY <2>2, <3>1
    <3>4. a < b
      BY <2>1, <2>3, <3>1, <3>2, <3>3 DEF InOrder, NamesInOrder
    <3>. QED
      BY <3>2, <3>3, <3>4
  <2>4. ASSUME NEW i \in DOMAIN configs, NEW k \in DOMAIN configs[i].Versions,
               NEW l \in DOMAIN configs[i].Versions, k < l
        PROVE  Position(ModelAt(configs[i], k)) < Position(ModelAt(configs[i], l))
    <3>1. Slot(configs, i, k) /\ Slot(configs, i, l)
      BY DEF Slot
    <3>2. PICK a \in 1..Len(lruList) :
            At(configs, i, k, ListedIds[a]) /\ Position(ModelAt(configs[i], k)) = a
      BY <2>2, <3>1
    <3>3. PICK b \in 1..Len(lruList) :
            At(configs, i, l, ListedIds[b]) /\ Position(ModelAt(configs[i], l)) = b
      BY <2>2, <3>1
    <3>4. a < b
      BY <2>1, <2>4, <3>1, <3>2, <3>3 DEF InOrder, VersionsInOrder
    <3>. QED
      BY <3>2, <3>3, <3>4
  <2>. QED
    BY <2>3, <2>4 DEF OrderKept, configs
<1>. QED
  BY <1>1, OrderIsLRU, InvAlways, PTL
=============================================================================
