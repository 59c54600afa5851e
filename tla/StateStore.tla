----------------------------- MODULE StateStore -----------------------------
(***************************************************************************)
(* The stream DStream.updateStateByKey builds, batch after batch: the      *)
(* state dataset of the previous batch is cogrouped with the new batch,    *)
(* updateFunc is called on every key of either, and the pairs it answers   *)
(* None for are filtered out.                                              *)
(*                                                                         *)
(* A dataset of (key, value) pairs is a function from Keys to the sequence *)
(* of the values of a key, in the order the dataset yields them.           *)
(***************************************************************************)
EXTENDS Integers, Sequences, FiniteSets, SequencesExt

CONSTANTS
    Keys,              \* the keys of the pairs
    States,            \* the states updateFunc answers, None apart
    Batches,           \* the datasets a batch of the stream may be
    Initials,          \* the initialRDD arguments updateStateByKey is given
    MaxTicks,          \* bound on the number of batches
    UpdateFunc(_, _),  \* updateFunc(new values, state or None)
    None               \* Python's None

ASSUME MaxTicks \in Nat /\ None \notin States

VARIABLES
    initialRDD,  \* the dataset the state node was built with, or None
    state,       \* the state dataset emitted at the last batch, None before it
    batch,       \* history: the last batch
    ticks        \* the number of batches so far

vars == <<initialRDD, state, batch, ticks>>

-----------------------------------------------------------------------------
(* The RDD operations reduceFunc calls.                                    *)

Empty == [k \in Keys |-> <<>>]

mapValues(d, f(_)) == [k \in Keys |-> [i \in DOMAIN d[k] |-> f(d[k][i])]]

filter(d, keep(_)) == [k \in Keys |-> SelectSeq(d[k], keep)]

\* One pair a key that has values, holding all of them.
groupByKey(b) == [k \in Keys |-> IF b[k] = <<>> THEN <<>> ELSE <<b[k]>>]

\* One pair a key of either dataset, holding the values of both.
cogroup(a, b) ==
    [k \in Keys |-> IF a[k] = <<>> /\ b[k] = <<>> THEN <<>> ELSE <<<<a[k], b[k]>>>>]

IsNotNone(s) == s # None

-----------------------------------------------------------------------------
(* updateStateByKey.                                                       *)

\* An initialRDD argument is None, a dataset (an RDD) or a list of pairs.
\* `if initialRDD` is the truth of a Python object: a list is true when it
\* has elements, a dataset always.
Truthy(arg) == arg # None /\ (arg.isRDD \/ arg.pairs # Empty)

\* The initial dataset the state node is built with: the third argument of
\* PythonStateDStream, or none.
updateStateByKey(arg) == IF Truthy(arg) THEN arg.pairs ELSE None

\* Mutants of reduceFunc: the pairs with state None are handed on; the last
\* of the previous states of a key is taken.
reduceFunc_NoFilter(a, b) ==
    LET fresh(vs)  == <<vs, None>>
        joined(ab) == <<ab[2], IF Len(ab[1]) > 0 THEN Head(ab[1]) ELSE None>>
        update(vs_s) == UpdateFunc(vs_s[1], vs_s[2])
        g == IF a = None THEN mapValues(groupByKey(b), fresh)
                         ELSE mapValues(cogroup(a, b), joined)
    IN  mapValues(g, update)

reduceFunc_LastState(a, b) ==
    LET fresh(vs)  == <<vs, None>>
        joined(ab) == <<ab[2], IF Len(ab[1]) > 0 THEN Last(ab[1]) ELSE None>>
        update(vs_s) == UpdateFunc(vs_s[1], vs_s[2])
        g == IF a = None THEN mapValues(groupByKey(b), fresh)
                         ELSE mapValues(cogroup(a, b), joined)
    IN  filter(mapValues(g, update), IsNotNone)

\* reduceFunc(t, a, b): every key of the new batch b, and of the previous
\* state a if there is one, with its new values and the first of its
\* previous states; updateFunc on each; what is not None.
reduceFunc(a, b) ==
    LET fresh(vs)  == <<vs, None>>
        joined(ab) == <<ab[2], IF Len(ab[1]) > 0 THEN Head(ab[1]) ELSE None>>
        update(vs_s) == UpdateFunc(vs_s[1], vs_s[2])
        g == IF a = None THEN mapValues(groupByKey(b), fresh)
                         ELSE mapValues(cogroup(a, b), joined)
    IN  filter(mapValues(g, update), IsNotNone)

\* The state node at a batch: reduceFunc on the state of the batch before,
\* or on the initial dataset when there is none yet.
PythonStateDStream(b) ==
    reduceFunc(IF state # None THEN state ELSE initialRDD, b)

-----------------------------------------------------------------------------
(* The specification: the stream is built, then batches arrive.            *)

Init ==
    /\ \E arg \in Initials : initialRDD = updateStateByKey(arg)
    /\ state = None
    /\ batch = Empty
    /\ ticks = 0

Tick(b) ==
    /\ ticks < MaxTicks
    /\ state' = PythonStateDStream(b)
    /\ batch' = b
    /\ ticks' = ticks + 1
    /\ UNCHANGED initialRDD

Next == \E b \in Batches : Tick(b)

Spec == Init /\ [][Next]_vars

-----------------------------------------------------------------------------
(* Properties.                                                             *)

\* What the next batch will find as the previous state.
Previous ==
    IF state # None THEN state ELSE IF initialRDD # None THEN initialRDD ELSE Empty

\* The table of the store: the state reduceFunc takes for a key.
Table == [k \in Keys |-> IF Previous[k] = <<>> THEN None ELSE Head(Previous[k])]

\* The shape of the state; from the first batch on the state dataset has
\* one pair a key at most (cogroup and groupByKey make one pair a key) and
\* no pair with state None (the filter that ends reduceFunc).
TypeOK ==
    /\ ticks \in 0..MaxTicks
    /\ batch \in Batches \cup {Empty}
    /\ (state = None) = (ticks = 0)
    /\ state # None =>
           \A k \in Keys : Len(state[k]) <= 1 /\ \A i \in DOMAIN state[k] : state[k][i] \in States

\* The stream implements the keyed state store (reduceFunc and the state
\* node that calls it): every batch moves the state of every key that has a
\* state or new values by one call of updateFunc, on this key's new values
\* of the batch that arrived and its state alone; a key without either
\* stays without.  The state of a key with several pairs in the initial
\* dataset is the first.
KS == INSTANCE KeyedState WITH table <- Table, batch <- batch

Implements == KS!Spec

\* Tombstones (the filter on None that ends reduceFunc): a key updateFunc
\* answered None for has no state, and gets one again with new values only.
Tombstoned ==
    [][\A k \in Keys : Table[k] = None /\ Table'[k] # None => batch'[k] # <<>>]_vars

=============================================================================
