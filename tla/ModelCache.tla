----------------------------- MODULE ModelCache -----------------------------
(***************************************************************************)
(* What the ModelCache interface (lrucache.go) promises to its user: a     *)
(* set of models within a byte budget, in which the only model that may be *)
(* dropped to make room is the one used longest ago.  No list, no map, no  *)
(* loop: recency is the relation "used after".                             *)
(***************************************************************************)
EXTENDS Integers

CONSTANTS Models,    \* the model identifiers (name, version)
          Sizes,     \* the sizes a model may have on disk
          Capacity   \* modelCache.size, the budget in bytes

VARIABLES cached,    \* the models in the cache
          size,      \* the size accounted for each of them
          used,      \* the bytes accounted in total
          newer,     \* <<a, b>> : both are cached and a was used after b
          asked      \* the bytes room is being made for, 0 if for none

vars == <<cached, size, used, newer, asked>>

Init == /\ cached = {}
        /\ size = [m \in {} |-> 0]
        /\ used = 0
        /\ newer = {}
        /\ asked = 0

Without(m) == {p \in newer : p[1] # m /\ p[2] # m}

Newest(m) == Without(m) \cup ({m} \X (cached \ {m}))

Oldest(m) == m \in cached /\ \A x \in cached \ {m} : <<x, m>> \in newer

\* A model of the cache is looked up, or put again.
Use(m) == /\ m \in cached
          /\ newer' = Newest(m)
          /\ UNCHANGED <<cached, size, used, asked>>

Fits(bytes) == used + bytes <= Capacity \/ cached = {}

\* Someone wants room for so many bytes.
Ask(bytes) == asked' = bytes /\ UNCHANGED <<cached, size, used, newer>>

\* There is room now, as much as there can be.
Granted == Fits(asked) /\ asked' = 0 /\ UNCHANGED <<cached, size, used, newer>>

\* A model enters, once there is room for it.  It may exceed the budget only
\* when it has the cache for itself.
Admit(m, s) == /\ m \notin cached
               /\ asked = s /\ Fits(s)
               /\ asked' = 0
               /\ cached' = cached \cup {m}
               /\ size' = [x \in cached \cup {m} |-> IF x = m THEN s ELSE size[x]]
               /\ used' = used + s
               /\ newer' = Newest(m)

\* Room is made: the model used longest ago leaves, and only if the bytes
\* asked for do not fit.
Evict(m) == /\ Oldest(m)
            /\ ~Fits(asked)
            /\ cached' = cached \ {m}
            /\ size' = [x \in cached \ {m} |-> size[x]]
            /\ used' = used - size[m]
            /\ newer' = Without(m)
            /\ UNCHANGED asked

\* The process restarts with an empty cache.
Clear == Init'

Next == \/ \E m \in Models : Use(m) \/ Evict(m)
        \/ \E m \in Models, s \in Sizes : Admit(m, s)
        \/ \E s \in Sizes : Ask(s)
        \/ Granted
        \/ Clear

Spec == Init /\ [][Next]_vars
=============================================================================
