-------------------------- MODULE MCWindowedReduce --------------------------
(***************************************************************************)
(* WindowedReduce for TLC: two keys, batches with up to two values a key,  *)
(* windows shorter than, as long as and longer than the slide.             *)
(***************************************************************************)
EXTENDS WindowedReduce

\* operator.add and operator.sub, and a filterFunc that drops what sub
\* leaves of a key whose values have all left.
add(a, b)  == a + b
sub(a, b)  == a - b
NonZero(v) == v # 0

MCShapes == {<<1, 1>>, <<2, 1>>, <<3, 1>>, <<2, 2>>, <<1, 2>>}

\* Batches of counted elements (every value a 1, as countByValueAndWindow
\* keys them, and numbers to sum as well), and of values to be listed.
CountBatches == {keyed(n) : n \in [Keys -> 0..2]}
ListBatches  == {ls(d) : d \in [Keys -> {<<>>, <<1>>, <<2, 3>>}]}

\* Batches of up to three elements for countByWindow, and longer windows.
OneBatches == {keyedByOne(ones(n)) : n \in 0..3}
OneShapes  == {<<1, 1>>, <<2, 1>>, <<4, 1>>, <<2, 2>>, <<4, 2>>, <<1, 2>>, <<3, 3>>}

EmptyList == <<>>

\* With and without a filterFunc; without.  Merged in either order; in the
\* order of arrival.
Either   == BOOLEAN
NoFilter == {FALSE}
InOrder  == {FALSE}

KeySymmetry == Permutations(Keys)
=============================================================================
