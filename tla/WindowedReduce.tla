--------------------------- MODULE WindowedReduce ---------------------------
(***************************************************************************)
(* What a stream built by DStream.reduceByKeyAndWindow emits, batch after  *)
(* batch: the incremental path (invFunc given), which keeps the previous   *)
(* window's reduced values, adds the batches that entered and takes away   *)
(* the batches that left, beside the naive path (no invFunc), which        *)
(* reduces the whole window again.  countByValueAndWindow and              *)
(* groupByKeyAndWindow are the incremental path with the functions they    *)
(* pass.                                                                   *)
(*                                                                         *)
(* A dataset of (key, value) pairs is a function from Keys to the sequence *)
(* of the values of a key; a key without pairs has the empty sequence.     *)
(* Time is counted in batches of the stream the method is called on: a     *)
(* window of w batches that slides every s batches.                        *)
(***************************************************************************)
EXTENDS Integers, Sequences, FiniteSets, SequencesExt

CONSTANTS
    Keys,           \* the keys of the pairs
    Batches,        \* the datasets a batch of the keyed stream may be
    Shapes,         \* the <<windowDuration, slideDuration>> pairs, in batches
    MaxTicks,       \* bound on the number of batches
    Func(_, _),     \* func: the reduce function
    InvFunc(_, _),  \* invFunc: the inverse reduce function
    Filters,        \* whether a filterFunc is passed: the choices, from BOOLEAN
    Swaps,          \* whether reduceByKey merges the later value into the
                    \* earlier or the other way round: the choices
    FilterFunc(_),  \* filterFunc, on the value of a pair
    Zero,           \* the value InvFunc leaves when all that was added has left
    None            \* Python's None

ASSUME /\ MaxTicks \in Nat /\ Filters \subseteq BOOLEAN /\ Swaps \subseteq BOOLEAN
       /\ \A sh \in Shapes : sh[1] \in Nat \ {0} /\ sh[2] \in Nat \ {0}

VARIABLES
    batches,   \* the batches of the keyed stream so far, oldest first
    shape,     \* the window and slide the stream was built with
    hasFilter, \* whether the stream was built with a filterFunc
    swapped,   \* whether reduceByKey calls func(later, earlier)
    R_prev     \* the reduced window emitted at the last slide, None before it

vars == <<batches, shape, hasFilter, swapped, R_prev>>

-----------------------------------------------------------------------------
(* The RDD operations the per-batch functions call.                        *)

Empty == [k \in Keys |-> <<>>]

union(a, b) == [k \in Keys |-> a[k] \o b[k]]

\* reduceByKey promises no order in which the values of a key are merged,
\* which is why func is to be commutative: the values are merged as they
\* come, by func(earlier, later) or by func(later, earlier).
merge(x, y) == IF swapped THEN Func(y, x) ELSE Func(x, y)

reduceByKey(d) ==
    [k \in Keys |-> IF d[k] = <<>> THEN <<>>
                    ELSE <<FoldLeft(merge, Head(d[k]), Tail(d[k]))>>]

filter(d, keep(_)) == [k \in Keys |-> SelectSeq(d[k], keep)]

mapValues(d, f(_)) == [k \in Keys |-> [i \in DOMAIN d[k] |-> f(d[k][i])]]

\* The right side is always a reduced dataset here: one value a key at most.
leftOuterJoin(a, b) ==
    LET right(k) == IF b[k] = <<>> THEN None ELSE Head(b[k])
    IN  [k \in Keys |-> [i \in DOMAIN a[k] |-> <<a[k][i], right(k)>>]]

-----------------------------------------------------------------------------
(* The functions reduceByKeyAndWindow hands to the JVM.                    *)

\* Mutants of reduceFunc: the union with the previous window is not reduced
\* again; the filter is never applied.
reduceFunc_Unreduced(a, b) ==
    LET new == reduceByKey(b)
        r   == IF a # None THEN union(a, new) ELSE new
    IN  IF hasFilter THEN filter(r, FilterFunc) ELSE r

reduceFunc_NoFilter(a, b) ==
    LET new == reduceByKey(b)
    IN  IF a # None THEN reduceByKey(union(a, new)) ELSE new

\* reduceFunc(t, a, b): the previous window a, if there is one, with the
\* entering batches b reduced into it, then filtered.
reduceFunc(a, b) ==
    LET new == reduceByKey(b)
        r   == IF a # None THEN reduceByKey(union(a, new)) ELSE new
    IN  IF hasFilter THEN filter(r, FilterFunc) ELSE r

\* Mutant of invReduceFunc: an inner join, which loses the keys nothing left.
invReduceFunc_InnerJoin(a, b) ==
    LET left == reduceByKey(b)
        inv(kv) == InvFunc(kv[1], kv[2])
    IN  mapValues(leftOuterJoin([k \in Keys |-> IF left[k] = <<>> THEN <<>> ELSE a[k]],
                                left), inv)

\* invReduceFunc(t, a, b): the leaving batches b taken out of a, key by key;
\* a key of a that nothing left keeps its value, and no key is removed.
invReduceFunc(a, b) ==
    LET invOrKeep(kv) == IF kv[2] # None THEN InvFunc(kv[1], kv[2]) ELSE kv[1]
    IN  mapValues(leftOuterJoin(a, reduceByKey(b)), invOrKeep)

-----------------------------------------------------------------------------
(* The streams.  bs is the keyed stream up to the batch being computed.    *)

\* reduced = self.reduceByKey(func): every batch reduced on its own.
reduced(bs) == [i \in DOMAIN bs |-> reduceByKey(bs[i])]

\* The union of the reduced batches after batch lo, up to batch hi.
Span(bs, lo, hi) ==
    FoldLeft(union, Empty, SubSeq(reduced(bs), Max({lo, 0}) + 1, Max({hi, 0})))

\* The reduced-window node at batch Len(bs): the batches that entered since
\* the last slide go in, then the batches that left since then come out.
PythonReducedWindowedDStream(bs, prev, w, s) ==
    LET t == Len(bs)
    IN  invReduceFunc(reduceFunc(prev, Span(bs, t - s, t)),
                      Span(bs, t - s - w, t - w))

\* The window node at batch Len(bs): the last w batches together.
WindowedDStream(bs, w) == Span(bs, Len(bs) - w, Len(bs))

\* The naive path: reduced.window(...).reduceByKey(func).
naive(bs, w) == reduceByKey(WindowedDStream(bs, w))

-----------------------------------------------------------------------------
(* The methods built on reduceByKeyAndWindow.                              *)

\* countByValueAndWindow keys every element by itself with a count of 1:
\* a batch with n[k] elements equal to k.
keyed(n) == [k \in Keys |-> [i \in 1..n[k] |-> 1]]

Positive(v) == v > 0

\* Mutant: the counts are handed on as the window keeps them.
countByValueAndWindow_Unfiltered(counted) == counted

\* ... and hands on the counts that are above zero.
countByValueAndWindow(counted) == filter(counted, Positive)

\* groupByKeyAndWindow makes a list of every value, joins the lists of the
\* entering batches to the end, and drops from the front as many values as
\* the leaving batches had.
ListOf(x) == <<x>>

ls(d) == mapValues(d, ListOf)

extend(a, b) == a \o b

dropPrefix_Suffix(a, b) == SubSeq(a, 1, Len(a) - Len(b))

dropPrefix_OneLess(a, b) == SubSeq(a, Len(b), Len(a))

dropPrefix(a, b) == SubSeq(a, Len(b) + 1, Len(a))

windowDuration == shape[1]
slideDuration  == shape[2]

\* reduceByWindow keys every element with the constant 1, runs the keyed
\* window with one partition, and strips the key from what it emits.  The
\* constant is the one key of an instance with one key.
TheKey == CHOOSE k \in Keys : TRUE

keyedByOne(xs) == [k \in Keys |-> IF k = TheKey THEN xs ELSE <<>>]

reduceByWindow(R) == R[TheKey]

\* countByWindow maps every element to 1 before: a batch of n elements.
ones(n) == [i \in 1..n |-> 1]

\* count(): the elements of every partition are counted and the counts
\* added up, one element whatever the dataset holds.
count(xs) == <<Len(xs)>>

\* window(): the last w batches of the stream together, as they came.
window(bs, w) ==
    FoldLeft(union, Empty, SubSeq(bs, Max({Len(bs) - w, 0}) + 1, Len(bs)))

-----------------------------------------------------------------------------
(* The specification: batches arrive one after the other; the windowed     *)
(* stream computes at every batch that completes a slide.                  *)

Init ==
    /\ batches = <<>>
    /\ shape \in Shapes
    /\ hasFilter \in Filters
    /\ swapped \in Swaps
    /\ R_prev = None

\* A batch between two slides: the windowed stream emits nothing.
Quiet(b) ==
    /\ Len(batches) < MaxTicks
    /\ (Len(batches) + 1) % slideDuration # 0
    /\ batches' = Append(batches, b)
    /\ UNCHANGED <<shape, hasFilter, swapped, R_prev>>

\* A batch that completes a slide: the windowed stream computes and keeps
\* what it emits.
Slide(b) ==
    /\ Len(batches) < MaxTicks
    /\ (Len(batches) + 1) % slideDuration = 0
    /\ batches' = Append(batches, b)
    /\ R_prev' = PythonReducedWindowedDStream(batches', R_prev,
                                              windowDuration, slideDuration)
    /\ UNCHANGED <<shape, hasFilter, swapped>>

Next ==
    \/ \E b \in Batches : Quiet(b)
    \/ \E b \in Batches : Slide(b)

Spec == Init /\ [][Next]_vars

-----------------------------------------------------------------------------
(* Properties.                                                             *)

\* The batch of the last slide, and the stream up to it.
LastSlide == Len(batches) - (Len(batches) % slideDuration)
AtLastSlide == SubSeq(batches, 1, LastSlide)

\* The shape of the state; what is kept is a reduced dataset, one value a
\* key at most (reduceFunc reduces the union of the previous window and the
\* new batches again), and is there from the first slide on.
TypeOK ==
    /\ batches \in Seq(Batches) /\ Len(batches) <= MaxTicks
    /\ shape \in Shapes /\ hasFilter \in Filters /\ swapped \in Swaps
    /\ (R_prev = None) = (LastSlide = 0)
    /\ R_prev # None => DOMAIN R_prev = Keys /\ \A k \in Keys : Len(R_prev[k]) <= 1

\* The incremental path keeps up with the window (reduceFunc, invReduceFunc
\* and the batches the reduced-window node hands them), as long as values
\* are merged in the order they arrived: at every slide, a key with values
\* in the window has the value the naive path computes from the whole
\* window, and a key without any is either gone or left with the value that
\* remains when everything added was taken away again.
IncrementalTracksWindow ==
    R_prev # None /\ ~swapped =>
        LET whole == naive(AtLastSlide, windowDuration)
        IN  \A k \in Keys : \/ R_prev[k] = whole[k]
                            \/ whole[k] = <<>> /\ R_prev[k] = <<Zero>>

\* With a filterFunc that drops the Zero value, a key outlives its values
\* by one slide at most (the filter in reduceFunc runs before invReduceFunc
\* takes the leaving batches out): a key kept without values in the window
\* had values in the batches that left at this very slide.
StaleKeysPruned ==
    hasFilter /\ R_prev # None =>
        LET whole == naive(AtLastSlide, windowDuration)
            left  == Span(AtLastSlide, LastSlide - slideDuration - windowDuration,
                          LastSlide - windowDuration)
        IN  \A k \in Keys : R_prev[k] # <<>> /\ whole[k] = <<>> => left[k] # <<>>

\* countByValueAndWindow counts the window (the filter after the window of
\* add and subtract, built without a filterFunc, which keeps a count of 0
\* for every value it has ever seen): at every slide it emits exactly the
\* values that occur in the window, each with the number of its occurrences.
CountsExact ==
    ~hasFilter /\ R_prev # None =>
        countByValueAndWindow(R_prev) = naive(AtLastSlide, windowDuration)

\* groupByKeyAndWindow in whatever order reduceByKey merges (extend, which
\* is not commutative, and dropPrefix, which counts on the oldest values
\* being in front): the list of a key always has as many values as the key
\* has in the window, though merged the other way round they are not the
\* values of the window.
GroupSizesExact ==
    R_prev # None =>
        LET inWindow == window(AtLastSlide, windowDuration)
        IN  \A k \in Keys :
                \/ R_prev[k] = <<>> /\ inWindow[k] = <<>>
                \/ /\ Len(R_prev[k]) = 1
                   /\ Len(Head(R_prev[k])) = Len(inWindow[k])

\* What the documentation of countByWindow says and the code does not do:
\* "each RDD has a single element", "equivalent to window(windowDuration,
\* slideDuration).count()".  countByWindow is reduceByWindow over add and
\* subtract, a keyed window whose one key appears with the first element of
\* the stream: until then it emits nothing, where window().count() emits 0.
CountByWindowIsWindowCount ==
    R_prev # None =>
        reduceByWindow(R_prev) = count(window(AtLastSlide, windowDuration)[TheKey])

\* What the design says of the two paths and the code does not do: "the
\* incremental path and the naive path produce identical key -> value maps
\* at every tick".  invReduceFunc joins from the left and removes no key,
\* and without a filterFunc nothing else does.
IncrementalEqualsNaive ==
    R_prev # None => R_prev = naive(AtLastSlide, windowDuration)

=============================================================================
