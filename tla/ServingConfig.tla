---------------------------- MODULE ServingConfig ----------------------------
(***************************************************************************)
(* createModelConfig of pkg/cachemanager/servingcontroller.go: the list of *)
(* models to serve becomes one ModelConfig per model name, which names the *)
(* versions to load.                                                       *)
(***************************************************************************)
EXTENDS Integers, Sequences, SequencesExt

CONSTANTS ModelName, Version  \* the two fields of each model identifier

Identifiers == DOMAIN ModelName

ASSUME IdentifierAssumption ==
  /\ DOMAIN Version = Identifiers
  /\ \A m, n \in Identifiers : ModelName[m] = ModelName[n] /\ Version[m] = Version[n] => m = n

Mut_KeepsFirstVersion(configs, m) ==
  IF \E c \in Range(configs) : c.Name = ModelName[m]
  THEN configs
  ELSE Append(configs, [Name |-> ModelName[m], Versions |-> <<Version[m]>>])

Mut_PrependsVersion(configs, m) ==
  LET same == {i \in DOMAIN configs : configs[i].Name = ModelName[m]}
  IN  IF same # {}
      THEN [configs EXCEPT ![CHOOSE i \in same : TRUE].Versions = <<Version[m]>> \o @]
      ELSE Append(configs, [Name |-> ModelName[m], Versions |-> <<Version[m]>>])

\* One iteration of the loop over the models.
AddModel(configs, m) ==
  LET same == {i \in DOMAIN configs : configs[i].Name = ModelName[m]}
  IN  IF same # {}
      THEN [configs EXCEPT ![CHOOSE i \in same : TRUE].Versions = Append(@, Version[m])]
      ELSE Append(configs, [Name |-> ModelName[m], Versions |-> <<Version[m]>>])

createModelConfig(models) == FoldLeft(AddModel, <<>>, models)

-----------------------------------------------------------------------------
\* TF Serving (external): the models a configuration asks for.  When a name is
\* configured twice the request is refused.
Accepts(configs) ==
  \A i, j \in DOMAIN configs : configs[i].Name = configs[j].Name => i = j

Aspired(configs) ==
  {m \in Identifiers : \E c \in Range(configs) :
     c.Name = ModelName[m] /\ \E i \in DOMAIN c.Versions : c.Versions[i] = Version[m]}
=============================================================================
