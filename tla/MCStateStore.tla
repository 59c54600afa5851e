---------------------------- MODULE MCStateStore ----------------------------
(***************************************************************************)
(* StateStore for TLC: two keys, up to two new values a key and batch, a   *)
(* running count that expires at a cap.                                    *)
(***************************************************************************)
EXTENDS StateStore

\* Bound on the count a key reaches before its state expires.
Cap == 4

MCStates == 0..(Cap - 1)

\* updateFunc: the sum of the new values and the state, None from Cap on.
RunningCount(vs, s) ==
    LET n == FoldLeft(+, IF s = None THEN 0 ELSE s, vs)
    IN  IF n >= Cap THEN None ELSE n

MCBatches == [Keys -> {<<>>, <<1>>, <<1, 1>>}]

\* No initialRDD; an empty list and an empty dataset; datasets and lists
\* with a state for some keys, and with two pairs for a key.
MCInitials ==
    {None} \cup [isRDD : BOOLEAN, pairs : [Keys -> {<<>>, <<1>>, <<2, 1>>}]]

KeySymmetry == Permutations(Keys)
=============================================================================
