------------------------------ MODULE UseOrder ------------------------------
(***************************************************************************)
(* LRUCache with a history of its calls, which is kept apart from the list *)
(* and says what order the list must have; and the configuration that      *)
(* createModelConfig makes of the list.                                    *)
(***************************************************************************)
EXTENDS LRUCache, ServingConfig

ASSUME OrderAssumption == Identifiers = Models

VARIABLE later  \* <<m, n>>: m was used, and n has not been used since

orderVars == <<lruVars, later>>

Use(m) == later' = {p \in later : p[2] # m} \cup ({m} \X (Models \ {m}))

OrderInit == LRUInit /\ later = {}

OrderNext ==
  \/ /\ call.op = "none"
     /\ \/ \E m \in Models : Get(m) /\ IF m \in modelMap THEN Use(m) ELSE UNCHANGED later
        \/ \E b \in Sizes : EnsureFreeBytes(b) /\ UNCHANGED later
        \/ \E m \in Model : PutExisting(m) /\ Use(m.id)
        \/ \E m \in Model : PutNew(m) /\ UNCHANGED later
  \/ (EvictLRU \/ Freed) /\ UNCHANGED later
  \/ Pushed /\ Use(call.model.id)
  \/ (FatalRemove \/ Restart) /\ later' = {}
  \/ \E m \in Models : DiskChanges(m) /\ UNCHANGED later

OrderSpec == OrderInit /\ [][OrderNext]_orderVars

\* The list is the order of use: a model in it was used later than every model
\* that is not before it, in the list or not, so that EnsureFreeBytes takes from
\* the back what was used longest ago (lrucache.go:43-65).
ListIsUseOrder ==
  \A i \in DOMAIN lruList : \A n \in Models :
    n \notin {lruList[j].id : j \in 1..i} => <<lruList[i].id, n>> \in later

-----------------------------------------------------------------------------
\* What reloadServingConfig hands to createModelConfig when all models fit.
ListedIds == [i \in DOMAIN lruList |-> lruList[i].id]

\* TF Serving accepts the configuration of whatever list the cache holds, and it
\* asks for exactly the models of the list: no version is lost or invented when
\* several versions of a model share a ModelConfig (servingcontroller.go:165-168).
ConfigIsList ==
  /\ Accepts(createModelConfig(ListedIds))
  /\ Aspired(createModelConfig(ListedIds)) = Range(ListedIds)

\* The model that the k-th version of a ModelConfig is.
ModelAt(c, k) == CHOOSE m \in Models : ModelName[m] = c.Name /\ Version[m] = c.Versions[k]

\* The first model of the list, the one a request waits for, is the first
\* version of the first ModelConfig: the order of the list is kept between
\* names and within a name (servingcontroller.go:163-184).
OrderKept ==
  LET configs == createModelConfig(ListedIds)
  IN  /\ \A i, j \in DOMAIN configs :
           i < j => Position(ModelAt(configs[i], 1)) < Position(ModelAt(configs[j], 1))
      /\ \A i \in DOMAIN configs : \A k, l \in DOMAIN configs[i].Versions :
           k < l => Position(ModelAt(configs[i], k)) < Position(ModelAt(configs[i], l))
=============================================================================
