------------------------- MODULE ServingConfigProofs -------------------------
(***************************************************************************)
(* What createModelConfig makes of a list of models, for every list.       *)
(***************************************************************************)
EXTENDS ServingConfig, SequenceTheorems, NatLemmas, TLAPS

-----------------------------------------------------------------------------
(* FoldLeft runs AddModel over the models, first to last.  The fold of the *)
(* library is a recursive function on sets of positions that takes the     *)
(* greatest first; that there is such a function is shown by extending it  *)
(* from the positions 1..n to 1..n+1.                                      *)

\* f is the fold on the sets of positions up to n.
IsFold(f, models, n) ==
  f = [s \in SUBSET (1..n) |->
         IF s = {} THEN <<>> ELSE AddModel(f[s \ {Max(s)}], models[Max(s)])]

\* The greatest position of a set of positions.
LEMMA MaxIsGreatest ==
  ASSUME NEW n \in Nat, NEW s \in SUBSET (1..n), s # {}
  PROVE  Max(s) \in s /\ \A y \in s : y <= Max(s)
<1>1. s \subseteq 0..n
  OBVIOUS
<1>2. PICK x \in s : \A y \in s : y <= x
  BY <1>1, GreatestElement
<1>3. \E z \in s : \A y \in s : z >= y
  BY <1>2
<1>4. Max(s) \in s /\ \A y \in s : Max(s) >= y
  BY <1>3 DEF Max
<1>. QED
  BY <1>4

\* There is a fold on the positions up to any n.
LEMMA FoldExists ==
  ASSUME NEW models
  PROVE  \A n \in Nat : \E f : IsFold(f, models, n)
<1>. DEFINE T == {n \in Nat : ~\E f : IsFold(f, models, n)}
<1>. SUFFICES ASSUME T # {}
              PROVE  FALSE
  OBVIOUS
<1>1. PICK n \in T : \A y \in T : n <= y
  BY LeastElement
<1>2. n # 0
  <2>1. IsFold([s \in SUBSET (1..0) |-> <<>>], models, 0)
    BY DEF IsFold
  <2>. QED
    BY <2>1
<1>3. n - 1 \in Nat /\ n - 1 \notin T
  BY <1>1, <1>2
<1>4. PICK f : IsFold(f, models, n - 1)
  BY <1>3
<1>. DEFINE g == [s \in SUBSET (1..n) |->
                    IF n \in s THEN AddModel(f[s \ {n}], models[n]) ELSE f[s]]
<1>5. ASSUME NEW s \in SUBSET (1..n)
      PROVE  g[s] = IF s = {} THEN <<>> ELSE AddModel(g[s \ {Max(s)}], models[Max(s)])
  <2>1. CASE n \in s
    <3>1. Max(s) = n
      <4>1. n \in Nat /\ s # {}
        BY <2>1
      <4>2. Max(s) \in 1..n /\ n <= Max(s)
        BY <2>1, <4>1, MaxIsGreatest
      <4>. QED
        BY <4>1, <4>2
    <3>2. s \ {n} \in SUBSET (1..n) /\ n \notin s \ {n} /\ s # {}
      BY <2>1
    <3>3. g[s \ {n}] = f[s \ {n}]
      BY <3>2
    <3>. QED
      BY <2>1, <3>1, <3>2, <3>3
  <2>2. CASE n \notin s
    <3>1. s \in SUBSET (1..(n - 1))
      BY <2>2
    <3>2. f[s] = IF s = {} THEN <<>> ELSE AddModel(f[s \ {Max(s)}], models[Max(s)])
      BY <1>4, <3>1 DEF IsFold
    <3>3. \A x : s \ {x} \in SUBSET (1..n) /\ n \notin s \ {x}
      BY <2>2
    <3>4. g[s] = f[s] /\ g[s \ {Max(s)}] = f[s \ {Max(s)}]
      BY <2>2, <3>3
    <3>. QED
      BY <3>2, <3>4
  <2>. QED
    BY <2>1, <2>2
<1>6. IsFold(g, models, n)
  BY <1>5, Zenon DEF IsFold
<1>. QED
  BY <1>6

\* The loop of createModelConfig: configs[i] is what it has after i models.
IsLoop(configs, models) ==
  /\ configs[0] = <<>>
  /\ \A i \in 1..Len(models) : configs[i] = AddModel(configs[i - 1], models[i])

\* createModelConfig is what that loop ends with.
LEMMA ConfigIsLoop ==
  ASSUME NEW S, NEW models \in Seq(S)
  PROVE  \E configs : IsLoop(configs, models) /\ createModelConfig(models) = configs[Len(models)]
<1>. DEFINE n == Len(models)
<1>0. n \in Nat /\ DOMAIN models = 1..n
  BY LenProperties
<1>. DEFINE iter == CHOOSE f : IsFold(f, models, n)
<1>1. createModelConfig(models) = iter[1..n]
  BY <1>0 DEF createModelConfig, FoldLeft, MapThenFoldSet, IsFold
<1>2. IsFold(iter, models, n)
  BY <1>0, FoldExists
<1>. HIDE DEF iter
<1>. DEFINE configs == [i \in 0..n |-> iter[1..i]]
<1>3. configs[0] = <<>>
  <2>1. iter[{}] = <<>> /\ 1..0 = {}
    BY <1>2 DEF IsFold
  <2>. QED
    BY <1>0, <2>1
<1>4. ASSUME NEW i \in 1..n
      PROVE  configs[i] = AddModel(configs[i - 1], models[i])
  <2>1. 1..i \in SUBSET (1..n) /\ i \in 1..i /\ i \in Nat
    BY <1>0
  <2>2. Max(1..i) = i
    <3>1. 1..i \in SUBSET (1..i) /\ 1..i # {}
      BY <2>1
    <3>2. Max(1..i) \in 1..i /\ i <= Max(1..i)
      BY <2>1, <3>1, MaxIsGreatest
    <3>. QED
      BY <2>1, <3>2
  <2>3. (1..i) \ {i} = 1..(i - 1)
    BY <1>0
  <2>4. iter[1..i] = AddModel(iter[(1..i) \ {Max(1..i)}], models[Max(1..i)])
    BY <1>2, <2>1 DEF IsFold
  <2>. QED
    BY <1>0, <2>2, <2>3, <2>4
<1>5. IsLoop(configs, models)
  BY <1>3, <1>4 DEF IsLoop
<1>6. createModelConfig(models) = configs[n]
  BY <1>0, <1>1
<1>. QED
  BY <1>5, <1>6

-----------------------------------------------------------------------------
(* One iteration of the loop.                                              *)

Config == [Name : {ModelName[m] : m \in Identifiers},
           Versions : Seq({Version[m] : m \in Identifiers})]

\* What every configuration of the loop is: a name is configured once, with at
\* least one version.
GoodConfigs(configs) ==
  /\ configs \in Seq(Config)
  /\ Accepts(configs)
  /\ \A i \in DOMAIN configs : configs[i].Versions # <<>>

\* The k-th version of the i-th ModelConfig: there is one, and it is model m.
Slot(configs, i, k) == i \in DOMAIN configs /\ k \in DOMAIN configs[i].Versions
At(configs, i, k, m) == configs[i].Name = ModelName[m] /\ configs[i].Versions[k] = Version[m]

\* Model m was added in a new slot, all other slots are as they were: the new
\* slot is the last one of its ModelConfig, which is an old one or the last.
Added(old, new, m, i0, k0) ==
  /\ Slot(new, i0, k0) /\ At(new, i0, k0, m) /\ ~Slot(old, i0, k0)
  /\ \A i, k : Slot(old, i, k) => Slot(new, i, k)
  /\ \A i, k : Slot(new, i, k) => Slot(old, i, k) \/ (i = i0 /\ k = k0)
  /\ \A i, k, n : Slot(old, i, k) => (At(new, i, k, n) <=> At(old, i, k, n))
  /\ \A k : Slot(old, i0, k) => k < k0
  /\ k0 = 1 => \A i \in DOMAIN old : i < i0

\* An iteration for a name that is not configured yet appends a ModelConfig.
LEMMA AddsConfig ==
  ASSUME NEW configs, GoodConfigs(configs), NEW m \in Identifiers,
         \A i \in DOMAIN configs : configs[i].Name # ModelName[m]
  PROVE  /\ GoodConfigs(AddModel(configs, m))
         /\ Added(configs, AddModel(configs, m), m, Len(configs) + 1, 1)
<1>. DEFINE e == [Name |-> ModelName[m], Versions |-> <<Version[m]>>]
            new == Append(configs, e)
            n == Len(configs)
<1>1. AddModel(configs, m) = new
  BY DEF AddModel
<1>2. configs \in Seq(Config) /\ n \in Nat /\ DOMAIN configs = 1..n
  BY LenProperties DEF GoodConfigs
<1>3. e \in Config
  <2>1. <<Version[m]>> \in Seq({Version[x] : x \in Identifiers})
    OBVIOUS
  <2>. QED
    BY <2>1 DEF Config
<1>4. /\ new \in Seq(Config) /\ Len(new) = n + 1 /\ DOMAIN new = 1..(n + 1)
      /\ \A i \in 1..n : new[i] = configs[i]
      /\ new[n + 1] = e
  BY <1>2, <1>3, AppendProperties, LenProperties
<1>5. e.Name = ModelName[m] /\ e.Versions = <<Version[m]>>
  OBVIOUS
<1>6. DOMAIN e.Versions = {1} /\ e.Versions[1] = Version[m] /\ e.Versions # <<>>
  BY <1>5
<1>. HIDE DEF e, new, n
<1>7. Accepts(new)
  <2>. SUFFICES ASSUME NEW i \in DOMAIN new, NEW j \in DOMAIN new, new[i].Name = new[j].Name
                PROVE  i = j
    BY DEF Accepts
  <2>1. CASE i \in 1..n /\ j \in 1..n
    BY <1>2, <1>4, <2>1 DEF GoodConfigs, Accepts
  <2>2. CASE ~(i \in 1..n /\ j \in 1..n)
    BY <1>2, <1>4, <1>5, <2>2
  <2>. QED
    BY <2>1, <2>2
<1>8. \A i \in DOMAIN new : new[i].Versions # <<>>
  BY <1>2, <1>4, <1>6 DEF GoodConfigs
<1>9. \A i \in DOMAIN configs : i \in DOMAIN new /\ new[i] = configs[i] /\ i < n + 1
  BY <1>2, <1>4
<1>10. \A i \in DOMAIN new : i \in DOMAIN configs \/ i = n + 1
  BY <1>2, <1>4
<1>11. n + 1 \in DOMAIN new /\ n + 1 \notin DOMAIN configs
  BY <1>2, <1>4
<1>12. Added(configs, new, m, n + 1, 1)
  BY <1>4, <1>5, <1>6, <1>9, <1>10, <1>11 DEF Added, Slot, At
<1>. QED
  BY <1>1, <1>4, <1>7, <1>8, <1>12 DEF GoodConfigs, n

\* An iteration for a name that is configured appends a version to it.
LEMMA AddsVersion ==
  ASSUME NEW configs, GoodConfigs(configs), NEW m \in Identifiers,
         \E i \in DOMAIN configs : configs[i].Name = ModelName[m]
  PROVE  \E i0, k0 \in Nat : /\ GoodConfigs(AddModel(configs, m))
                             /\ Added(configs, AddModel(configs, m), m, i0, k0)
<1>. DEFINE same == {i \in DOMAIN configs : configs[i].Name = ModelName[m]}
            i0 == CHOOSE i \in same : TRUE
            new == [configs EXCEPT ![i0].Versions = Append(@, Version[m])]
            n == Len(configs)
            vs == configs[i0].Versions
            k0 == Len(vs) + 1
<1>0. i0 \in DOMAIN configs /\ configs[i0].Name = ModelName[m] /\ same # {}
  OBVIOUS
<1>1. AddModel(configs, m) = new
  BY <1>0 DEF AddModel
<1>2. configs \in Seq(Config) /\ n \in Nat /\ DOMAIN configs = 1..n
  BY LenProperties DEF GoodConfigs
<1>. HIDE DEF i0
<1>3. configs[i0] \in Config /\ vs \in Seq({Version[x] : x \in Identifiers}) /\ vs # <<>>
  <2>1. configs[i0] \in Config
    BY <1>0, <1>2, ElementOfSeq
  <2>2. configs[i0].Versions \in Seq({Version[x] : x \in Identifiers})
    BY <2>1 DEF Config
  <2>3. configs[i0].Versions # <<>>
    BY <1>0 DEF GoodConfigs
  <2>. QED
    BY <2>1, <2>2, <2>3
<1>4. /\ Append(vs, Version[m]) \in Seq({Version[x] : x \in Identifiers})
      /\ Len(vs) \in Nat /\ Len(vs) # 0 /\ DOMAIN vs = 1..Len(vs)
      /\ DOMAIN Append(vs, Version[m]) = 1..k0
      /\ \A k \in 1..Len(vs) : Append(vs, Version[m])[k] = vs[k]
      /\ Append(vs, Version[m])[k0] = Version[m]
  BY <1>3, AppendProperties, LenProperties, EmptySeq
<1>5. /\ DOMAIN new = DOMAIN configs
      /\ \A i \in DOMAIN configs : i # i0 => new[i] = configs[i]
      /\ new[i0].Name = ModelName[m]
      /\ new[i0].Versions = Append(vs, Version[m])
  BY <1>0, <1>3 DEF Config
<1>6. new[i0] \in Config
  BY <1>0, <1>3, <1>4 DEF Config
<1>7. new \in Seq(Config)
  <2>1. new \in [1..n -> Config]
    BY <1>0, <1>2, <1>6, ElementOfSeq
  <2>. QED
    BY <1>2, <2>1, SeqDef
<1>8. k0 \in Nat /\ k0 # 1 /\ Append(vs, Version[m]) # <<>>
  BY <1>4
<1>9. i0 \in Nat
  BY <1>0, <1>2
<1>. DEFINE av == Append(vs, Version[m])
<1>. HIDE DEF new, n, vs, k0, same, av
<1>10. /\ new[i0].Versions = av
       /\ configs[i0].Versions = vs
       /\ \A k : k \in DOMAIN vs => k \in DOMAIN av /\ av[k] = vs[k] /\ k < k0
       /\ \A k : k \in DOMAIN av => k \in DOMAIN vs \/ k = k0
       /\ k0 \in DOMAIN av /\ k0 \notin DOMAIN vs /\ av[k0] = Version[m]
       /\ av # <<>>
  BY <1>4, <1>5, <1>8, SMTT(40) DEF av, vs, k0
<1>11. Accepts(new) /\ \A i \in DOMAIN new : new[i].Versions # <<>>
  <2>1. \A i \in DOMAIN configs : new[i].Name = configs[i].Name
    BY <1>0, <1>5
  <2>2. Accepts(new)
    BY <1>5, <2>1 DEF GoodConfigs, Accepts
  <2>. QED
    BY <1>5, <1>10, <2>2 DEF GoodConfigs
<1>12. Added(configs, new, m, i0, k0)
  <2>1. Slot(new, i0, k0) /\ At(new, i0, k0, m) /\ ~Slot(configs, i0, k0)
    BY <1>0, <1>5, <1>10 DEF Slot, At
  <2>2. \A i, k : Slot(configs, i, k) => Slot(new, i, k)
    BY <1>0, <1>5, <1>10 DEF Slot
  <2>3. \A i, k : Slot(new, i, k) => Slot(configs, i, k) \/ (i = i0 /\ k = k0)
    BY <1>0, <1>5, <1>10 DEF Slot
  <2>4. \A i, k, x : Slot(configs, i, k) => (At(new, i, k, x) <=> At(configs, i, k, x))
    BY <1>0, <1>5, <1>10 DEF Slot, At
  <2>5. \A k : Slot(configs, i0, k) => k < k0
    BY <1>0, <1>10 DEF Slot
  <2>. QED
    BY <1>8, <2>1, <2>2, <2>3, <2>4, <2>5 DEF Added
<1>. QED
  BY <1>1, <1>7, <1>8, <1>9, <1>11, <1>12 DEF GoodConfigs

\* Every iteration adds the model it is about in one new slot.
LEMMA AddModelAdds ==
  ASSUME NEW configs, GoodConfigs(configs), NEW m \in Identifiers
  PROVE  /\ GoodConfigs(AddModel(configs, m))
         /\ \E i0, k0 \in Nat : Added(configs, AddModel(configs, m), m, i0, k0)
<1>1. CASE \A i \in DOMAIN configs : configs[i].Name # ModelName[m]
  <2>1. Len(configs) + 1 \in Nat
    BY LenProperties DEF GoodConfigs
  <2>. QED
    BY <1>1, <2>1, AddsConfig
<1>2. CASE \E i \in DOMAIN configs : configs[i].Name = ModelName[m]
  BY <1>2, AddsVersion
<1>. QED
  BY <1>1, <1>2

-----------------------------------------------------------------------------
(* The whole loop.                                                         *)

\* The slots hold exactly the models the loop has been through.
Holds(configs, models, n) ==
  /\ GoodConfigs(configs)
  /\ \A a \in 1..n : \E i, k : Slot(configs, i, k) /\ At(configs, i, k, models[a])
  /\ \A i, k : Slot(configs, i, k) => \E a \in 1..n : At(configs, i, k, models[a])

\* The order of the models is kept between names, by their first version, ...
NamesInOrder(configs, models, n) ==
  \A a, b \in 1..n : \A i, j :
    Slot(configs, i, 1) /\ Slot(configs, j, 1) /\ At(configs, i, 1, models[a]) /\ At(configs, j, 1, models[b]) =>
      (i < j => a < b)

\* ... and within a name.
VersionsInOrder(configs, models, n) ==
  \A a, b \in 1..n : \A i, k, l :
    Slot(configs, i, k) /\ Slot(configs, i, l) /\ At(configs, i, k, models[a]) /\ At(configs, i, l, models[b]) =>
      (k < l => a < b)

InOrder(configs, models, n) ==
  NamesInOrder(configs, models, n) /\ VersionsInOrder(configs, models, n)

\* An iteration keeps both.
LEMMA LoopStep ==
  ASSUME NEW models \in Seq(Identifiers), NEW n \in 1..Len(models), NEW old,
         Holds(old, models, n - 1)
  PROVE  LET new == AddModel(old, models[n])
         IN  /\ Holds(new, models, n)
             /\ (\A a, b \in 1..Len(models) : models[a] = models[b] => a = b)
                  /\ InOrder(old, models, n - 1) => InOrder(new, models, n)
<1>. DEFINE new == AddModel(old, models[n])
            m == models[n]
<1>0. /\ Len(models) \in Nat /\ n \in Nat
      /\ \A a \in 1..Len(models) : models[a] \in Identifiers
      /\ m \in Identifiers
      /\ \A a \in 1..n : a = n \/ a \in 1..(n - 1)
      /\ \A a \in 1..(n - 1) : a \in 1..n /\ a < n
      /\ \A a \in 1..n : a \in 1..Len(models)
      /\ n \in 1..n
  BY LenProperties, ElementOfSeq
<1>1. GoodConfigs(new) /\ \E i0, k0 \in Nat : Added(old, new, m, i0, k0)
  BY <1>0, AddModelAdds DEF Holds
<1>2. PICK i0, k0 \in Nat : Added(old, new, m, i0, k0)
  BY <1>1
<1>. HIDE DEF new, m
<1>3. m = models[n]
  BY DEF m
<1>4. ASSUME NEW a \in 1..n
      PROVE  \E i, k : Slot(new, i, k) /\ At(new, i, k, models[a])
  <2>1. CASE a = n
    BY <1>2, <1>3, <2>1 DEF Added
  <2>2. CASE a \in 1..(n - 1)
    <3>1. PICK i, k : Slot(old, i, k) /\ At(old, i, k, models[a])
      BY <2>2 DEF Holds
    <3>. QED
      BY <1>2, <3>1 DEF Added
  <2>. QED
    BY <1>0, <2>1, <2>2
<1>5. ASSUME NEW i, NEW k, Slot(new, i, k)
      PROVE  \E a \in 1..n : At(new, i, k, models[a])
  <2>1. CASE Slot(old, i, k)
    <3>1. PICK a \in 1..(n - 1) : At(old, i, k, models[a])
      BY <2>1 DEF Holds
    <3>2. At(new, i, k, models[a])
      BY <1>2, <2>1, <3>1 DEF Added
    <3>. QED
      BY <1>0, <3>2
  <2>2. CASE i = i0 /\ k = k0
    BY <1>0, <1>2, <1>3, <2>2 DEF Added
  <2>. QED
    BY <1>2, <1>5, <2>1, <2>2 DEF Added
<1>6. Holds(new, models, n)
  BY <1>1, <1>4, <1>5 DEF Holds
<1>7. ASSUME \A a, b \in 1..Len(models) : models[a] = models[b] => a = b,
             InOrder(old, models, n - 1)
      PROVE  InOrder(new, models, n)
  <2>1. ASSUME NEW i, NEW k, Slot(new, i, k), NEW a \in 1..n, At(new, i, k, models[a])
        PROVE  IF a = n THEN i = i0 /\ k = k0
               ELSE a \in 1..(n - 1) /\ Slot(old, i, k) /\ At(old, i, k, models[a])
    <3>1. CASE Slot(old, i, k)
      <4>1. PICK b \in 1..(n - 1) : At(old, i, k, models[b])
        BY <3>1 DEF Holds
      <4>2. At(old, i, k, models[a])
        BY <1>2, <2>1, <3>1 DEF Added
      <4>3. models[a] = models[b]
        BY <1>0, <4>1, <4>2, IdentifierAssumption DEF At, IdentifierAssumption
      <4>4. a = b
        BY <1>0, <1>7, <4>3
      <4>. QED
        BY <1>0, <3>1, <4>2, <4>4
    <3>2. CASE ~Slot(old, i, k)
      <4>1. i = i0 /\ k = k0
        BY <1>2, <2>1, <3>2 DEF Added
      <4>2. At(new, i, k, models[n])
        BY <1>2, <1>3, <4>1 DEF Added
      <4>3. models[a] = models[n]
        BY <1>0, <2>1, <4>2, IdentifierAssumption DEF At, IdentifierAssumption
      <4>4. a = n
        BY <1>0, <1>7, <4>3
      <4>. QED
        BY <4>1, <4>4
    <3>. QED
      BY <3>1, <3>2
  <2>. SUFFICES ASSUME NEW a \in 1..n, NEW b \in 1..n, NEW i, NEW j, NEW k, NEW l,
                       Slot(new, i, k), Slot(new, j, l),
                       At(new, i, k, models[a]), At(new, j, l, models[b])
                PROVE  /\ k = 1 /\ l = 1 /\ i < j => a < b
                       /\ i = j /\ k < l => a < b
    <3>1. NamesInOrder(new, models, n)
      <4>. SUFFICES ASSUME NEW a \in 1..n, NEW b \in 1..n, NEW i, NEW j,
                           Slot(new, i, 1), Slot(new, j, 1),
                           At(new, i, 1, models[a]), At(new, j, 1, models[b]), i < j
                    PROVE  a < b
        BY Zenon DEF NamesInOrder
      <4>. QED
        OBVIOUS
    <3>2. VersionsInOrder(new, models, n)
      <4>. SUFFICES ASSUME NEW a \in 1..n, NEW b \in 1..n, NEW i, NEW k, NEW l,
                           Slot(new, i, k), Slot(new, i, l),
                           At(new, i, k, models[a]), At(new, i, l, models[b]), k < l
                    PROVE  a < b
        BY Zenon DEF VersionsInOrder
      <4>. QED
        OBVIOUS
    <3>. QED
      BY <3>1, <3>2 DEF InOrder
  <2>2. CASE a # n /\ b # n
    <3>1. a \in 1..(n - 1) /\ Slot(old, i, k) /\ At(old, i, k, models[a])
      BY <2>1, <2>2
    <3>2. b \in 1..(n - 1) /\ Slot(old, j, l) /\ At(old, j, l, models[b])
      BY <2>1, <2>2
    <3>3. ASSUME k = 1, l = 1, i < j
          PROVE  a < b
      <4>1. NamesInOrder(old, models, n - 1)
        BY <1>7 DEF InOrder
      <4>2. /\ Slot(old, i, 1) /\ Slot(old, j, 1)
            /\ At(old, i, 1, models[a]) /\ At(old, j, 1, models[b])
        BY <3>1, <3>2, <3>3
      <4>. QED
        BY <3>1, <3>2, <3>3, <4>1, <4>2 DEF NamesInOrder
    <3>4. ASSUME i = j, k < l
          PROVE  a < b
      <4>1. VersionsInOrder(old, models, n - 1)
        BY <1>7 DEF InOrder
      <4>2. Slot(old, i, l) /\ At(old, i, l, models[b])
        BY <3>2, <3>4
      <4>. QED
        BY <3>1, <3>2, <3>4, <4>1, <4>2 DEF VersionsInOrder
    <3>. QED
      BY <3>3, <3>4
  <2>3. CASE a # n /\ b = n
    <3>1. a \in 1..(n - 1)
      BY <1>0, <2>3
    <3>2. a < b
      BY <1>0, <2>3, <3>1
    <3>. QED
      BY <3>2
  <2>4. CASE a = n /\ b # n
    <3>1. i = i0 /\ k = k0 /\ Slot(old, j, l)
      BY <2>1, <2>4
    <3>2. i = j => l < k
      BY <1>2, <3>1 DEF Added
    <3>3. k = 1 => j < i
      BY <1>2, <3>1 DEF Added, Slot
    <3>4. j \in Nat /\ l \in Nat
      <4>1. old \in Seq(Config) /\ j \in DOMAIN old
        BY <3>1 DEF Slot, Holds, GoodConfigs
      <4>2. j \in Nat /\ old[j] \in Config
        BY <4>1, LenProperties, ElementOfSeq
      <4>3. old[j].Versions \in Seq({Version[x] : x \in Identifiers})
        BY <4>2 DEF Config
      <4>4. l \in DOMAIN old[j].Versions
        BY <3>1 DEF Slot
      <4>. QED
        BY <4>2, <4>3, <4>4, LenProperties
    <3>. QED
      BY <3>1, <3>2, <3>3, <3>4
  <2>5. CASE a = n /\ b = n
    <3>1. i = i0 /\ j = i0 /\ k = k0 /\ l = k0
      BY <2>1, <2>5
    <3>. QED
      BY <3>1
  <2>. QED
    BY <2>2, <2>3, <2>4, <2>5
<1>. QED
  BY <1>6, <1>7 DEF new

\* What createModelConfig returns holds exactly the models it was given, and
\* keeps their order when none is given twice.
LEMMA ConfigHolds ==
  ASSUME NEW models \in Seq(Identifiers)
  PROVE  /\ Holds(createModelConfig(models), models, Len(models))
         /\ (\A a, b \in 1..Len(models) : models[a] = models[b] => a = b)
              => InOrder(createModelConfig(models), models, Len(models))
<1>. DEFINE inj == \A a, b \in 1..Len(models) : models[a] = models[b] => a = b
<1>1. PICK configs : IsLoop(configs, models) /\ createModelConfig(models) = configs[Len(models)]
  BY ConfigIsLoop
<1>. DEFINE Ok(n) == Holds(configs[n], models, n) /\ (inj => InOrder(configs[n], models, n))
            T == {n \in 0..Len(models) : ~Ok(n)}
<1>2. Len(models) \in Nat
  BY LenProperties
<1>3. Ok(0)
  <2>1. GoodConfigs(<<>>) /\ \A i, k : ~Slot(<<>>, i, k)
    BY EmptySeq DEF GoodConfigs, Accepts, Slot
  <2>2. Holds(<<>>, models, 0) /\ InOrder(<<>>, models, 0)
    BY <2>1 DEF Holds, InOrder, NamesInOrder, VersionsInOrder
  <2>. QED
    BY <1>1, <2>2 DEF IsLoop
<1>4. ASSUME NEW n \in 1..Len(models), Ok(n - 1)
      PROVE  Ok(n)
  <2>1. configs[n] = AddModel(configs[n - 1], models[n])
    BY <1>1 DEF IsLoop
  <2>. QED
    BY <1>4, <2>1, LoopStep
<1>. HIDE DEF Ok
<1>5. T = {}
  <2>. SUFFICES ASSUME T # {}
                PROVE  FALSE
    OBVIOUS
  <2>1. T \subseteq Nat
    BY <1>2
  <2>2. PICK n \in T : \A y \in T : n <= y
    BY <2>1, LeastElement
  <2>3. n # 0
    BY <1>3, <2>2
  <2>4. n \in 1..Len(models) /\ n - 1 \in 0..Len(models) /\ n - 1 \notin T
    BY <1>2, <2>2, <2>3
  <2>. QED
    BY <1>4, <2>2, <2>4
<1>6. Ok(Len(models))
  BY <1>2, <1>5
<1>. QED
  BY <1>1, <1>6 DEF Ok

\* TF Serving accepts the configuration that is made of any list of models, and
\* it asks for exactly these models (servingcontroller.go:159-187).
THEOREM ConfigOfList ==
  \A models \in Seq(Identifiers) :
    /\ Accepts(createModelConfig(models))
    /\ Aspired(createModelConfig(models)) = Range(models)
<1>. SUFFICES ASSUME NEW models \in Seq(Identifiers)
              PROVE  /\ Accepts(createModelConfig(models))
                     /\ Aspired(createModelConfig(models)) = Range(models)
  OBVIOUS
<1>. DEFINE configs == createModelConfig(models)
<1>1. Holds(configs, models, Len(models))
  BY ConfigHolds
<1>. HIDE DEF configs
<1>2. DOMAIN models = 1..Len(models) /\ \A a \in 1..Len(models) : models[a] \in Identifiers
  BY LenProperties, ElementOfSeq
<1>3. ASSUME NEW x \in Identifiers
      PROVE  x \in Aspired(configs) <=> \E i, k : Slot(configs, i, k) /\ At(configs, i, k, x)
  BY DEF Aspired, Range, Slot, At
<1>4. ASSUME NEW x \in Aspired(configs)
      PROVE  x \in Range(models)
  <2>1. x \in Identifiers
    BY DEF Aspired
  <2>2. PICK i, k : Slot(configs, i, k) /\ At(configs, i, k, x)
    BY <1>3, <2>1
  <2>3. PICK a \in 1..Len(models) : At(configs, i, k, models[a])
    BY <1>1, <2>2 DEF Holds
  <2>4. x = models[a]
    BY <1>2, <2>1, <2>2, <2>3, IdentifierAssumption DEF At, IdentifierAssumption
  <2>. QED
    BY <1>2, <2>4 DEF Range
<1>5. ASSUME NEW x \in Range(models)
      PROVE  x \in Aspired(configs)
  <2>1. PICK a \in 1..Len(models) : x = models[a]
    BY <1>2 DEF Range
  <2>. QED
    BY <1>1, <1>2, <1>3, <2>1 DEF Holds
<1>6. Accepts(configs)
  BY <1>1 DEF Holds, GoodConfigs
<1>. QED
  BY <1>4, <1>5, <1>6 DEF configs
==============================================================================
