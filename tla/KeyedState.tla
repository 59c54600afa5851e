----------------------------- MODULE KeyedState -----------------------------
(***************************************************************************)
(* What a keyed state store promises: a table from keys to states that the *)
(* update function moves on once a batch.  A key takes part in a batch     *)
(* when it has a state or new values; the update function may answer None, *)
(* and then the key has no state until new values arrive for it.           *)
(*                                                                         *)
(* This is the abstract specification that StateStore, the translation of  *)
(* DStream.updateStateByKey, is checked to implement.                      *)
(***************************************************************************)
CONSTANTS
    Keys,              \* the keys
    States,            \* the states a key may have
    Batches,           \* the new values of a batch: a sequence for every key
    UpdateFunc(_, _),  \* updateFunc(new values, state or None)
    None               \* no state

VARIABLES
    table,             \* the state of every key, None for a key without
    batch              \* the new values of the last batch

vars == <<table, batch>>

TypeOK ==
    /\ table \in [Keys -> States \cup {None}]
    /\ batch \in Batches

\* The store may be seeded with any table; no batch has arrived.
Init ==
    /\ table \in [Keys -> States \cup {None}]
    /\ batch = [k \in Keys |-> <<>>]

\* A key with neither a state nor new values is left out of the batch.
TakesPart(k, vs) == table[k] # None \/ vs[k] # <<>>

Tick(vs) ==
    /\ batch' = vs
    /\ table' = [k \in Keys |-> IF TakesPart(k, vs) THEN UpdateFunc(vs[k], table[k])
                                ELSE None]

Next == \E vs \in Batches : Tick(vs)

Spec == Init /\ [][Next]_vars

=============================================================================
