---------------------------- MODULE DStreamGraph ----------------------------
(***************************************************************************)
(* The lazy graph of discretized streams that python/pyspark/streaming/    *)
(* dstream.py builds: Python stream objects (DStream, TransformedDStream), *)
(* the JVM stream nodes they stand for, the folding of chained transforms  *)
(* into one function, the memoised creation of a TransformedDStream's JVM  *)
(* node, the cache and checkpoint flags, the validation done when a window *)
(* or a union is built, and the serializer each stream says its batches    *)
(* are written with against the one each function is told to read them     *)
(* with.  Nothing here runs a batch: a call only adds objects and nodes.   *)
(*                                                                         *)
(* Data is abstracted to what the graph depends on.  A per-batch function  *)
(* is the name of the RDD operation it applies (a "stage"); a composed     *)
(* function is the sequence of its stages.  A duration is an integer       *)
(* number of milliseconds, which is what int(seconds * 1000) and           *)
(* milliseconds() / 1000.0 convert between.                                *)
(***************************************************************************)
EXTENDS Integers, Sequences, FiniteSets

CONSTANTS
    Sources,    \* number of input streams the StreamingContext has handed out
    BatchMs,    \* batch duration of the context: the slide of every input stream
    Durations,  \* the durations a caller passes as windowDuration or slideDuration
    Argcs,      \* co_argcount of the functions a caller passes to transform*()
    MaxPy,      \* bound on the number of Python stream objects ever constructed
    MaxStreams, \* bound on the number of streams the driver program holds
    Calls,      \* the methods the driver program calls
    InputDeserializers, \* what the context may give an input stream to read with
    MaxRefused, \* bound on the streams that have a refused JVM call unanswered
    RefuseUpTo, \* the JVM refuses calls only while at most this many objects exist
    None        \* Python's None, for an omitted slideDuration

ASSUME /\ Sources \in Nat \ {0} /\ MaxPy \in Nat /\ Sources <= MaxPy
       /\ MaxStreams \in Nat /\ Sources <= MaxStreams
       /\ BatchMs \in Nat \ {0}
       /\ Durations \subseteq Int /\ Argcs \subseteq Nat /\ None \notin Int
       /\ InputDeserializers # {} /\ None \notin InputDeserializers
       /\ MaxRefused \in Nat /\ RefuseUpTo \in Nat

VARIABLES
    py,        \* every Python stream object constructed so far, in order
    jvm,       \* every JVM stream node constructed so far, in order
    outputs,   \* the output streams registered (foreachRDD): node and deserializer
    handles,   \* the Python objects a caller holds: the values calls returned
    err        \* what the last call raised, or "ok"

vars == <<py, jvm, outputs, handles, err>>

Stages == {"mapPartitionsWithIndex", "combineByKey", "partitionBy",
           "groupByKey", "repartition", "transform"}
Joins  == {"union", "cogroup", "join", "leftOuterJoin", "rightOuterJoin",
           "fullOuterJoin", "transformWith"}
StatelessMethods ==
    {"map", "filter", "flatMap", "glom", "mapPartitions", "mapPartitionsWithIndex",
     "mapValues", "flatMapValues", "reduceByKey", "combineByKey", "groupByKey",
     "partitionBy", "repartition"}
AggregateMethods == {"reduce", "count", "countByValue"}
JoinMethods ==
    {"cogroup", "join", "leftOuterJoin", "rightOuterJoin", "fullOuterJoin"}
WindowedMethods ==
    {"reduceByWindow", "countByWindow", "countByValueAndWindow", "groupByKeyAndWindow"}
OutputMethods == {"foreachRDD", "pprint", "saveAsTextFiles"}
Methods ==
    StatelessMethods \cup AggregateMethods \cup JoinMethods \cup WindowedMethods
        \cup OutputMethods
        \cup {"transform", "transformWith", "union", "cache", "persist", "checkpoint",
              "window", "reduceByKeyAndWindow", "updateStateByKey", "slice"}

ASSUME Calls \subseteq Methods

sc_serializer == "sc.serializer"     \* the serializer of the SparkContext

Errors == {"ok", "ValueError", "AssertionError", "ZeroDivisionError", "Py4JError"}
Initials == {"None", "emptyList", "list", "RDD"}   \* what initialRDD may be

-----------------------------------------------------------------------------
(* The JVM side.  Its classes are not part of dstream.py; a node records   *)
(* what the constructor was given and the slide duration it ticks at.      *)

\* A function as the JVM calls it: its stages, and the deserializers it
\* wraps the datasets it is called with in, in the order of the datasets.
TransformFunction(func, deserializers) == [func |-> func, reads |-> deserializers]

NoFunction == TransformFunction(<<>>, <<>>)

\* seed is the serializer the initial state was written with, if there is one.
Node(op, parents, jfunc, window, slide) ==
    [op |-> op, parents |-> parents, func |-> jfunc.func, reads |-> jfunc.reads,
     window |-> window, slide |-> slide, persisted |-> FALSE,
     checkpointed |-> FALSE, seed |-> None]

InputDStream == Node("input", <<>>, NoFunction, 0, BatchMs)

PythonTransformedDStream(jv, parent, jfunc) ==
    Node("transformed", <<parent>>, jfunc, 0, jv[parent].slide)

PythonTransformed2DStream(jv, a, b, jfunc) ==
    Node("transformed2", <<a, b>>, jfunc, 0, jv[a].slide)

WindowedDStream(jv, parent, window, slide) ==
    Node("windowed", <<parent>>, NoFunction, window,
         IF slide = None THEN jv[parent].slide ELSE slide)

PythonReducedWindowedDStream(jv, parent, jfunc, window, slide) ==
    Node("reducedWindowed", <<parent>>, jfunc, window, slide)

PythonStateDStream(jv, parent, jfunc, seed) ==
    [Node("state", <<parent>>, jfunc, 0, jv[parent].slide) EXCEPT !.seed = seed]

-----------------------------------------------------------------------------
(* History kept for the properties only: what the caller asked a stream to *)
(* be, whatever folding made of it.  origin is the nearest ancestor that   *)
(* is not a TransformedDStream, lineage the stages asked for since it,     *)
(* ancs the TransformedDStreams on the way, cut those of them that were    *)
(* cached or checkpointed when the next stream on the way was derived.     *)

Flagged(o) == o.is_cached \/ o.is_checkpointed

NoSaid == [origin |-> 0, lineage |-> <<>>, ancs |-> {}, cut |-> {}]

Said(hp, prev, func) ==
    LET p == hp[prev]
        t == p.cls = "TransformedDStream"
    IN  [origin  |-> IF t THEN p.said.origin ELSE prev,
         lineage |-> (IF t THEN p.said.lineage ELSE <<>>) \o func,
         ancs    |-> IF t THEN p.said.ancs \cup {prev} ELSE {},
         cut     |-> IF t THEN p.said.cut \cup (IF Flagged(p) THEN {prev} ELSE {})
                          ELSE {}]

-----------------------------------------------------------------------------
(* Python objects.                                                         *)

\* DStream.__init__: a handle on a JVM stream that already exists, and the
\* deserializer its batches are to be read with.
DStream(jd, jrdd_deserializer) ==
    [cls |-> "DStream", prev |-> 0, func |-> <<>>, jd |-> jd,
     ser |-> jrdd_deserializer, is_cached |-> FALSE, is_checkpointed |-> FALSE,
     lost |-> {}, said |-> NoSaid]

Foldable(o) ==
    o.cls = "TransformedDStream" /\ ~o.is_cached /\ ~o.is_checkpointed

\* What TransformedDStream.__init__ sets whatever prev is: no JVM node yet,
\* no flags, batches written with the context's serializer.
Unmaterialised(prev, func, said) ==
    [cls |-> "TransformedDStream", prev |-> prev, func |-> func, jd |-> 0,
     ser |-> sc_serializer, is_cached |-> FALSE, is_checkpointed |-> FALSE,
     lost |-> {}, said |-> said]

\* Mutants of the constructor: it composes and keeps prev; it does not look
\* at the type of prev; it folds whatever the flags say; it composes the
\* two functions in the wrong order.
TransformedDStream_KeepsPrev(hp, prev, func) ==
    LET p == hp[prev] IN
    Unmaterialised(prev, IF Foldable(p) THEN p.func \o func ELSE func,
                   Said(hp, prev, func))

TransformedDStream_AnyType(hp, prev, func) ==
    LET p == hp[prev] IN
    IF ~Flagged(p) THEN Unmaterialised(p.prev, p.func \o func, Said(hp, prev, func))
    ELSE Unmaterialised(prev, func, Said(hp, prev, func))

TransformedDStream_IgnoresFlags(hp, prev, func) ==
    LET p == hp[prev] IN
    IF p.cls = "TransformedDStream"
    THEN Unmaterialised(p.prev, p.func \o func, Said(hp, prev, func))
    ELSE Unmaterialised(prev, func, Said(hp, prev, func))

TransformedDStream_Swapped(hp, prev, func) ==
    LET p == hp[prev] IN
    IF Foldable(p) THEN Unmaterialised(p.prev, func \o p.func, Said(hp, prev, func))
    ELSE Unmaterialised(prev, func, Said(hp, prev, func))

\* TransformedDStream.__init__: a transform of an uncached, uncheckpointed
\* TransformedDStream takes over its function and its parent.
TransformedDStream(hp, prev, func) ==
    LET p == hp[prev] IN
    IF Foldable(p) THEN Unmaterialised(p.prev, p.func \o func, Said(hp, prev, func))
    ELSE Unmaterialised(prev, func, Said(hp, prev, func))

-----------------------------------------------------------------------------
(* A call works on the heap h = [py, jvm, outputs, err] and returns the    *)
(* heap it leaves.  The object a call returns is the last one it made.     *)

Heap == [py |-> py, jvm |-> jvm, outputs |-> outputs, err |-> "ok"]

Ok(h)        == h.err = "ok"
Top(h)       == Len(h.py)
Raise(h, e)  == [h EXCEPT !.err = e]
New(h, o)    == [h EXCEPT !.py = Append(@, o)]
NewJ(h, n)   == [h EXCEPT !.jvm = Append(@, n)]
Jd(h, p)     == h.py[p].jd
Wrap(h, ser) == New(h, DStream(Len(h.jvm), ser))   \* a DStream on the newest node

\* Mutants of _jdstream: the node is built again on every access; the
\* function reads with the stream's own deserializer, not its parent's.
RECURSIVE jdstream_NoMemo(_, _)
jdstream_NoMemo(h, n) ==
    LET o == h.py[n] IN
    IF o.cls = "DStream" THEN h
    ELSE LET r == jdstream_NoMemo(h, o.prev)
             jfunc == TransformFunction(o.func, <<r.py[o.prev].ser>>)
             j == NewJ(r, PythonTransformedDStream(r.jvm, Jd(r, o.prev), jfunc))
         IN  [j EXCEPT !.py[n].jd = Len(j.jvm)]

RECURSIVE jdstream_OwnDeserializer(_, _)
jdstream_OwnDeserializer(h, n) ==
    LET o == h.py[n] IN
    IF o.jd # 0 THEN h
    ELSE LET r == jdstream_OwnDeserializer(h, o.prev)
             jfunc == TransformFunction(o.func, <<o.ser>>)
             j == NewJ(r, PythonTransformedDStream(r.jvm, Jd(r, o.prev), jfunc))
         IN  [j EXCEPT !.py[n].jd = Len(j.jvm)]

\* TransformedDStream._jdstream: the JVM node is made on first use, from the
\* parent's node (made first if need be), and remembered.  Its function
\* reads with the deserializer of the parent it has after folding.
RECURSIVE jdstream(_, _)
jdstream(h, n) ==
    LET o == h.py[n] IN
    IF o.jd # 0 THEN h
    ELSE LET r == jdstream(h, o.prev)
             jfunc == TransformFunction(o.func, <<r.py[o.prev].ser>>)
             j == NewJ(r, PythonTransformedDStream(r.jvm, Jd(r, o.prev), jfunc))
         IN  [j EXCEPT !.py[n].jd = Len(j.jvm)]

\* DStream._slideDuration, read once the node exists.
slideDuration(h, p) == h.jvm[Jd(h, p)].slide

-----------------------------------------------------------------------------
(* Stateless transformations: each is transform() of one RDD operation,    *)
(* or a chain of them.                                                     *)

\* A function without the leading time argument is wrapped into one with it.
Timed(argc, n) == IF argc = n - 1 THEN n ELSE argc

transform(h, p, stage, argc) ==
    IF ~Ok(h) THEN h
    ELSE IF Timed(argc, 2) # 2 THEN Raise(h, "AssertionError")
    ELSE New(h, TransformedDStream(h.py, p, <<stage>>))

mapPartitionsWithIndex(h, p) == transform(h, p, "mapPartitionsWithIndex", 1)
mapPartitions(h, p) == mapPartitionsWithIndex(h, p)
map(h, p)           == mapPartitions(h, p)
filter(h, p)        == mapPartitions(h, p)
flatMap(h, p)       == mapPartitionsWithIndex(h, p)
mapValues(h, p)     == map(h, p)
flatMapValues(h, p) == flatMap(h, p)
glom(h, p)          == mapPartitions(h, p)
combineByKey(h, p)  == transform(h, p, "combineByKey", 1)
reduceByKey(h, p)   == combineByKey(h, p)
partitionBy(h, p)   == transform(h, p, "partitionBy", 1)
groupByKey(h, p)    == transform(h, p, "groupByKey", 1)
repartition(h, p)   == transform(h, p, "repartition", 1)

reduce(h, p) ==
    LET keyed   == map(h, p)
        reduced == reduceByKey(keyed, Top(keyed))
    IN  map(reduced, Top(reduced))

count(h, p) ==
    LET ones == mapPartitions(h, p) IN reduce(ones, Top(ones))

countByValue(h, p) ==
    LET keyed == map(h, p) IN reduceByKey(keyed, Top(keyed))

-----------------------------------------------------------------------------
(* Cache and checkpoint flags.                                             *)

\* A call of a method of the JVM stream of p, which the JVM may refuse: the
\* error goes to the caller.  lost is history: the calls that were refused
\* and have not been answered since.
JvmCall(h, p, method, raises) ==
    IF raises THEN [Raise(h, "Py4JError") EXCEPT !.py[p].lost = @ \cup {method}]
    ELSE [h EXCEPT !.py[p].lost = @ \ {method}]

\* The flag is set before the JVM stream is asked for and told.
persist(h, p, raises) ==
    LET r == JvmCall(jdstream([h EXCEPT !.py[p].is_cached = TRUE], p),
                     p, "persist", raises)
    IN  IF Ok(r) THEN [r EXCEPT !.jvm[Jd(r, p)].persisted = TRUE] ELSE r

cache(h, p, raises) == persist([h EXCEPT !.py[p].is_cached = TRUE], p, raises)

checkpoint(h, p, raises) ==
    LET r == JvmCall(jdstream([h EXCEPT !.py[p].is_checkpointed = TRUE], p),
                     p, "checkpoint", raises)
    IN  IF Ok(r) THEN [r EXCEPT !.jvm[Jd(r, p)].checkpointed = TRUE] ELSE r

-----------------------------------------------------------------------------
(* Binary combinators.                                                     *)

\* The result is declared in the serializer of the left stream if
\* keepSerializer, in the context's otherwise.
transformWith(h, p, q, stage, argc, keepSerializer) ==
    IF Timed(argc, 3) # 3 THEN Raise(h, "AssertionError")
    ELSE LET r == jdstream(jdstream(h, p), q)
             jfunc == TransformFunction(<<stage>>, <<r.py[p].ser, r.py[q].ser>>)
         IN  Wrap(NewJ(r, PythonTransformed2DStream(r.jvm, Jd(r, p), Jd(r, q), jfunc)),
                  IF keepSerializer THEN r.py[p].ser ELSE sc_serializer)

\* Mutants of union: the slide durations are not compared; they are
\* compared when the union has been built.
union_Unchecked(h, p, q) == transformWith(h, p, q, "union", 2, TRUE)

union_ChecksLate(h, p, q) ==
    LET r == transformWith(h, p, q, "union", 2, TRUE) IN
    IF slideDuration(r, p) # slideDuration(r, q) THEN Raise(r, "ValueError") ELSE r

union(h, p, q) ==
    LET r == jdstream(jdstream(h, p), q) IN
    IF slideDuration(r, p) # slideDuration(r, q) THEN Raise(r, "ValueError")
    ELSE transformWith(r, p, q, "union", 2, TRUE)

cogroup(h, p, q)        == transformWith(h, p, q, "cogroup", 2, FALSE)
join(h, p, q)           == transformWith(h, p, q, "join", 2, FALSE)
leftOuterJoin(h, p, q)  == transformWith(h, p, q, "leftOuterJoin", 2, FALSE)
rightOuterJoin(h, p, q) == transformWith(h, p, q, "rightOuterJoin", 2, FALSE)
fullOuterJoin(h, p, q)  == transformWith(h, p, q, "fullOuterJoin", 2, FALSE)

-----------------------------------------------------------------------------
(* Windows.                                                                *)

\* Mutant of the validation: the slide duration is never looked at.
validate_window_param_WindowOnly(h, p, window, slide) ==
    LET r == jdstream(h, p)
        duration == slideDuration(r, p)
    IN  IF duration = 0 THEN Raise(r, "ZeroDivisionError")
        ELSE IF window % duration # 0 THEN Raise(r, "ValueError")
        ELSE r

\* _validate_window_param.  "if slide and ..." skips None and 0 alike; a
\* parent that ticks every 0 ms makes the % raise.
validate_window_param(h, p, window, slide) ==
    LET r == jdstream(h, p)
        duration == slideDuration(r, p)
    IN  IF duration = 0 THEN Raise(r, "ZeroDivisionError")
        ELSE IF \/ window % duration # 0
                \/ slide \notin {None, 0} /\ slide % duration # 0
             THEN Raise(r, "ValueError")
        ELSE r

\* Mutant of window: the result is declared in the context's serializer.
window_DeclaresSc(h, p, windowDuration, slideDuration_) ==
    LET v == validate_window_param(h, p, windowDuration, slideDuration_) IN
    IF ~Ok(v) THEN v
    ELSE Wrap(NewJ(v, WindowedDStream(v.jvm, Jd(v, p), windowDuration, slideDuration_)),
              sc_serializer)

window(h, p, windowDuration, slideDuration_) ==
    LET v == validate_window_param(h, p, windowDuration, slideDuration_) IN
    IF ~Ok(v) THEN v
    ELSE Wrap(NewJ(v, WindowedDStream(v.jvm, Jd(v, p), windowDuration, slideDuration_)),
              v.py[p].ser)

\* The graph reduceByKeyAndWindow builds.  With an inverse function: the
\* per-batch reduce, made into a JVM node at once, under a reduced-window
\* node.  Without: the per-batch reduce, a window over it, a reduce of that.
reduceByKeyAndWindow(h, p, invFunc, windowDuration, slideDuration_) ==
    LET v == validate_window_param(h, p, windowDuration, slideDuration_) IN
    IF ~Ok(v) THEN v
    ELSE LET reduced == reduceByKey(v, p) IN
         IF invFunc
         THEN LET r == jdstream(reduced, Top(reduced))
                  jfunc == TransformFunction(<<>>, <<r.py[Top(reduced)].ser>>)
                  s == IF slideDuration_ = None THEN slideDuration(r, p)
                                                ELSE slideDuration_
              IN  Wrap(NewJ(r, PythonReducedWindowedDStream(
                                   r.jvm, Jd(r, Top(reduced)), jfunc, windowDuration, s)),
                       sc_serializer)
         ELSE LET w == window(reduced, Top(reduced), windowDuration, slideDuration_)
              IN  reduceByKey(w, Top(w))

reduceByWindow(h, p, invReduceFunc, windowDuration, slideDuration_) ==
    LET keyed   == map(h, p)
        reduced == reduceByKeyAndWindow(keyed, Top(keyed), invReduceFunc,
                                        windowDuration, slideDuration_)
    IN  map(reduced, Top(reduced))

countByWindow(h, p, windowDuration, slideDuration_) ==
    LET ones == map(h, p)
    IN  reduceByWindow(ones, Top(ones), TRUE, windowDuration, slideDuration_)

countByValueAndWindow(h, p, windowDuration, slideDuration_) ==
    LET keyed   == map(h, p)
        counted == reduceByKeyAndWindow(keyed, Top(keyed), TRUE,
                                        windowDuration, slideDuration_)
    IN  filter(counted, Top(counted))

groupByKeyAndWindow(h, p, windowDuration, slideDuration_) ==
    LET ls      == mapValues(h, p)
        grouped == reduceByKeyAndWindow(ls, Top(ls), TRUE,
                                        windowDuration, slideDuration_)
    IN  mapValues(grouped, Top(grouped))

-----------------------------------------------------------------------------
(* Keyed state, outputs, slices.                                           *)

\* The graph updateStateByKey builds.  An empty list counts as no initial
\* state ("if initialRDD").  The function reads the state with the
\* context's serializer and the batch with the stream's; the initial state
\* is rewritten with the stream's.
updateStateByKey(h, p, initialRDD) ==
    LET r == jdstream(h, p)
        jfunc == TransformFunction(<<>>, <<sc_serializer, r.py[p].ser>>)
        seed == IF initialRDD \in {"list", "RDD"} THEN r.py[p].ser ELSE None
    IN  Wrap(NewJ(r, PythonStateDStream(r.jvm, Jd(r, p), jfunc, seed)), sc_serializer)

foreachRDD(h, p) ==
    LET r == jdstream(h, p)
    IN  [r EXCEPT !.outputs = @ \cup {[node |-> Jd(r, p), reads |-> r.py[p].ser]}]

pprint(h, p)          == foreachRDD(h, p)
saveAsTextFiles(h, p) == foreachRDD(h, p)

slice(h, p) == jdstream(h, p)

-----------------------------------------------------------------------------
(* The specification: a driver program that calls the methods named in     *)
(* Calls, in any order, on the streams it holds.                           *)

Init ==
    /\ \E d \in [1..Sources -> InputDeserializers] :
           py = [i \in 1..Sources |-> DStream(i, d[i])]
    /\ jvm     = [i \in 1..Sources |-> InputDStream]
    /\ outputs = {}
    /\ handles = 1..Sources
    /\ err     = "ok"

\* The heap a call leaves becomes the state; a call that returned a new
\* stream leaves the caller holding it.
Call(h, returnsStream) ==
    /\ Len(h.py) <= MaxPy
    /\ py' = h.py /\ jvm' = h.jvm /\ outputs' = h.outputs /\ err' = h.err
    /\ handles' = IF returnsStream /\ Ok(h) THEN handles \cup {Top(h)} ELSE handles
    /\ Cardinality(handles') <= MaxStreams

Stateless(p) ==
    \E m \in Calls \cap StatelessMethods :
        Call(CASE m = "map"                    -> map(Heap, p)
               [] m = "filter"                 -> filter(Heap, p)
               [] m = "flatMap"                -> flatMap(Heap, p)
               [] m = "glom"                   -> glom(Heap, p)
               [] m = "mapPartitions"          -> mapPartitions(Heap, p)
               [] m = "mapPartitionsWithIndex" -> mapPartitionsWithIndex(Heap, p)
               [] m = "mapValues"              -> mapValues(Heap, p)
               [] m = "flatMapValues"          -> flatMapValues(Heap, p)
               [] m = "reduceByKey"            -> reduceByKey(Heap, p)
               [] m = "combineByKey"           -> combineByKey(Heap, p)
               [] m = "groupByKey"             -> groupByKey(Heap, p)
               [] m = "partitionBy"            -> partitionBy(Heap, p)
               [] m = "repartition"            -> repartition(Heap, p), TRUE)

Aggregate(p) ==
    \E m \in Calls \cap AggregateMethods :
        Call(CASE m = "reduce"       -> reduce(Heap, p)
               [] m = "count"        -> count(Heap, p)
               [] m = "countByValue" -> countByValue(Heap, p), TRUE)

Transform(p) ==
    /\ "transform" \in Calls
    /\ \E argc \in Argcs : Call(transform(Heap, p, "transform", argc), TRUE)

\* The JVM may refuse a call while fewer than MaxRefused streams wait for an
\* answer to a call it refused, and no more than RefuseUpTo objects exist.
JvmRaises ==
    IF /\ Cardinality({n \in DOMAIN py : py[n].lost # {}}) < MaxRefused
       /\ Len(py) <= RefuseUpTo
    THEN BOOLEAN ELSE {FALSE}

Persist(p) ==
    \E m \in Calls \cap {"cache", "persist"}, raises \in JvmRaises :
        Call(IF m = "cache" THEN cache(Heap, p, raises)
                            ELSE persist(Heap, p, raises), FALSE)

Checkpoint(p) ==
    /\ "checkpoint" \in Calls
    /\ \E raises \in JvmRaises : Call(checkpoint(Heap, p, raises), FALSE)

TransformWith(p, q) ==
    /\ "transformWith" \in Calls
    /\ \E argc \in Argcs, keepSerializer \in BOOLEAN :
           Call(transformWith(Heap, p, q, "transformWith", argc, keepSerializer), TRUE)

Union(p, q) ==
    /\ "union" \in Calls
    /\ Call(union(Heap, p, q), TRUE)

Join(p, q) ==
    \E m \in Calls \cap JoinMethods :
        Call(CASE m = "cogroup"        -> cogroup(Heap, p, q)
               [] m = "join"           -> join(Heap, p, q)
               [] m = "leftOuterJoin"  -> leftOuterJoin(Heap, p, q)
               [] m = "rightOuterJoin" -> rightOuterJoin(Heap, p, q)
               [] m = "fullOuterJoin"  -> fullOuterJoin(Heap, p, q), TRUE)

Window(p) ==
    /\ "window" \in Calls
    /\ \E w \in Durations, s \in Durations \cup {None} :
           Call(window(Heap, p, w, s), TRUE)

ReduceByKeyAndWindow(p) ==
    /\ "reduceByKeyAndWindow" \in Calls
    /\ \E w \in Durations, s \in Durations \cup {None}, inv \in BOOLEAN :
           Call(reduceByKeyAndWindow(Heap, p, inv, w, s), TRUE)

WindowedAggregate(p) ==
    \E m \in Calls \cap WindowedMethods, w \in Durations, s \in Durations :
      \E inv \in IF m = "reduceByWindow" THEN BOOLEAN ELSE {TRUE} :
        Call(CASE m = "reduceByWindow"        -> reduceByWindow(Heap, p, inv, w, s)
               [] m = "countByWindow"         -> countByWindow(Heap, p, w, s)
               [] m = "countByValueAndWindow" -> countByValueAndWindow(Heap, p, w, s)
               [] m = "groupByKeyAndWindow"   -> groupByKeyAndWindow(Heap, p, w, s),
             TRUE)

UpdateStateByKey(p) ==
    /\ "updateStateByKey" \in Calls
    /\ \E i \in Initials : Call(updateStateByKey(Heap, p, i), TRUE)

Output(p) ==
    \E m \in Calls \cap OutputMethods :
        Call(CASE m = "foreachRDD"      -> foreachRDD(Heap, p)
               [] m = "pprint"          -> pprint(Heap, p)
               [] m = "saveAsTextFiles" -> saveAsTextFiles(Heap, p), FALSE)

Slice(p) ==
    /\ "slice" \in Calls
    /\ Call(slice(Heap, p), FALSE)

Next ==
    \/ \E p \in handles : Stateless(p)
    \/ \E p \in handles : Aggregate(p)
    \/ \E p \in handles : Transform(p)
    \/ \E p \in handles : Persist(p)
    \/ \E p \in handles : Checkpoint(p)
    \/ \E p \in handles : Window(p)
    \/ \E p \in handles : ReduceByKeyAndWindow(p)
    \/ \E p \in handles : WindowedAggregate(p)
    \/ \E p \in handles : UpdateStateByKey(p)
    \/ \E p \in handles : Output(p)
    \/ \E p \in handles : Slice(p)
    \/ \E p, q \in handles : TransformWith(p, q)
    \/ \E p, q \in handles : Union(p, q)
    \/ \E p, q \in handles : Join(p, q)

Spec == Init /\ [][Next]_vars

-----------------------------------------------------------------------------
(* What the graph means: the stages a stream applies, walked back to the   *)
(* first stream that is not a transform, on either side.                   *)

RECURSIVE PyLineage(_, _), PyOrigin(_, _), PrevChain(_, _)
PyLineage(hp, n) ==
    IF hp[n].cls = "DStream" THEN <<>> ELSE PyLineage(hp, hp[n].prev) \o hp[n].func
PyOrigin(hp, n) ==
    IF hp[n].cls = "DStream" THEN n ELSE PyOrigin(hp, hp[n].prev)
PrevChain(hp, n) ==
    IF hp[n].cls = "DStream" THEN {} ELSE {hp[n].prev} \cup PrevChain(hp, hp[n].prev)

RECURSIVE JvmLineage(_), JvmOrigin(_), JvmAncestors(_)
JvmLineage(j) ==
    IF jvm[j].op # "transformed" THEN <<>>
    ELSE JvmLineage(jvm[j].parents[1]) \o jvm[j].func
JvmOrigin(j) ==
    IF jvm[j].op # "transformed" THEN j ELSE JvmOrigin(jvm[j].parents[1])
JvmAncestors(j) ==
    IF jvm[j].op # "transformed" THEN {}
    ELSE {jvm[j].parents[1]} \cup JvmAncestors(jvm[j].parents[1])

Transformed == {n \in DOMAIN py : py[n].cls = "TransformedDStream"}

\* The datasets the function of node j is called with, by the node they
\* come from: the batches of its parents, after its own previous state or
\* window if it keeps one; and the deserializer it reads the i-th with (a
\* function given one deserializer reads every dataset with it).
Datasets(j) ==
    IF jvm[j].op \in {"state", "reducedWindowed"} THEN <<j>> \o jvm[j].parents
    ELSE jvm[j].parents
Deserializer(j, i) ==
    LET reads == jvm[j].reads IN reads[IF i <= Len(reads) THEN i ELSE Len(reads)]

\* The Python streams that stand for JVM node j, and what they say of it.
Wrappers(j) == {n \in DOMAIN py : py[n].jd = j}
Declares(j, ser) == \A n \in Wrappers(j) : py[n].ser = ser

-----------------------------------------------------------------------------
(* Properties.                                                             *)

Serializers == InputDeserializers \cup {sc_serializer}

PyObject ==
    [cls : {"DStream", "TransformedDStream"}, prev : 0..MaxPy, func : Seq(Stages),
     jd : Nat, ser : Serializers, is_cached : BOOLEAN, is_checkpointed : BOOLEAN,
     lost : SUBSET {"persist", "checkpoint"},
     said : [origin : 0..MaxPy, lineage : Seq(Stages),
             ancs : SUBSET (1..MaxPy), cut : SUBSET (1..MaxPy)]]

JvmNode ==
    [op : {"input", "transformed", "transformed2", "windowed", "reducedWindowed",
           "state"},
     parents : Seq(Nat), func : Seq(Stages \cup Joins), reads : Seq(Serializers),
     window : Int, slide : Int, persisted : BOOLEAN, checkpointed : BOOLEAN,
     seed : Serializers \cup {None}]

\* The shape of the state: objects and nodes are well-formed records, every
\* reference points to an older object or node, streams that are not
\* transforms always have their JVM node (DStream.__init__ is given it).
TypeOK ==
    /\ py \in Seq(PyObject) /\ Len(py) <= MaxPy
    /\ jvm \in Seq(JvmNode)
    /\ outputs \subseteq [node : DOMAIN jvm, reads : Serializers]
    /\ handles \subseteq DOMAIN py
    /\ err \in Errors
    /\ \A n \in DOMAIN py :
         /\ py[n].jd \in 0..Len(jvm)
         /\ IF py[n].cls = "DStream" THEN py[n].prev = 0 /\ py[n].jd # 0
                                      ELSE py[n].prev \in 1..(n - 1)
    /\ \A j \in DOMAIN jvm : \A i \in DOMAIN jvm[j].parents :
         jvm[j].parents[i] \in 1..(j - 1)

\* Fusion is transparent (TransformedDStream.__init__, _jdstream): whatever
\* was folded, a transformed stream applies exactly the stages the caller
\* chained, in the order they were chained, to the stream the chain started
\* from; and once its JVM node exists, the chain of JVM transform nodes
\* below it applies the same stages to that stream's node.
FusionTransparent ==
    \A n \in Transformed :
        /\ PyLineage(py, n) = py[n].said.lineage
        /\ PyOrigin(py, n) = py[n].said.origin
        /\ py[n].jd # 0 =>
             /\ JvmLineage(py[n].jd) = py[n].said.lineage
             /\ JvmOrigin(py[n].jd) = py[py[n].said.origin].jd

\* A cache or checkpoint boundary is kept (the guard of the fold, persist,
\* checkpoint, _jdstream): an ancestor that was cached or checkpointed when
\* its child on the way to a stream was derived stays on the chain the
\* stream reads through, whatever is folded later, and the stream's JVM
\* node, once made, sits on top of the ancestor's JVM node.
BoundaryKept ==
    \A n \in Transformed : \A a \in py[n].said.cut :
        /\ a \in PrevChain(py, n)
        /\ py[n].jd # 0 => py[a].jd \in JvmAncestors(py[n].jd)

\* The flags of the two sides agree (cache, persist, checkpoint, which set
\* the flag before they call the JVM, against the memo of _jdstream): the
\* JVM node a cached stream stands for, now and after any later call that
\* asks for the node again, is a persisted one, and the node of a
\* checkpointed stream is checkpointed.  A flag without its mark on the node
\* is what a call the JVM refused leaves: the caller was told, and the flag
\* gets its mark when the call is made again and answered.
FlagsReachJvm ==
    \A n \in DOMAIN py :
        /\ py[n].is_cached =>
              py[n].jd # 0 /\ (jvm[py[n].jd].persisted \/ "persist" \in py[n].lost)
        /\ py[n].is_checkpointed =>
              py[n].jd # 0 /\ (jvm[py[n].jd].checkpointed \/ "checkpoint" \in py[n].lost)

\* A call that raises in Python leaves the graph as it was, but for the
\* memo (the validation of window and reduceByKeyAndWindow and the
\* comparison of union, which read the slide duration through _jdstream
\* before anything is built): the streams keep their parents, functions and
\* flags, no stream, window node or output is added, the driver holds what
\* it held, and every JVM node that was added is the node of a stream that
\* had none.  A call the JVM refuses is another matter: cache, persist and
\* checkpoint have set their flag by then (FlagsReachJvm).
FailedCallOnlyMaterialises ==
    [][err' \notin {"ok", "Py4JError"} =>
         /\ DOMAIN py' = DOMAIN py /\ outputs' = outputs /\ handles' = handles
         /\ \A n \in DOMAIN py :
                /\ py'[n] = [py[n] EXCEPT !.jd = py'[n].jd]
                /\ py[n].jd # 0 => py'[n].jd = py[n].jd
         /\ SubSeq(jvm', 1, Len(jvm)) = jvm
         /\ \A j \in (DOMAIN jvm') \ DOMAIN jvm :
                \E n \in DOMAIN py : py[n].jd = 0 /\ py'[n].jd = j]_vars

\* Every dataset is read as its stream says it is written (the
\* deserializers given to TransformFunction in _jdstream, transformWith,
\* reduceByKeyAndWindow, updateStateByKey and foreachRDD, against the
\* _jrdd_deserializer of the streams, whatever folding made their parents):
\* a function reads each batch of a parent, and its own previous state or
\* window, with the serializer the stream of that node declares; a window
\* declares what the stream under it declares; an output function reads
\* what its stream declares.  The initial state of updateStateByKey is the
\* exception the code makes: it is written with the deserializer of the
\* stream the method was called on and read, as the first previous state,
\* with the context's serializer, so it is read as written only on a stream
\* that declares the context's serializer.
ReadAsDeclared ==
    /\ \A j \in DOMAIN jvm : \A i \in DOMAIN Datasets(j) :
         /\ jvm[j].reads # <<>> => Declares(Datasets(j)[i], Deserializer(j, i))
         /\ jvm[j].op = "windowed" =>
                \A n \in Wrappers(j) : Declares(Datasets(j)[i], py[n].ser)
         /\ jvm[j].seed # None =>
                \/ jvm[j].seed = Deserializer(j, 1)
                \/ ~Declares(jvm[j].parents[1], sc_serializer)
    /\ \A o \in outputs : Declares(o.node, o.reads)

\* A union joins streams that tick together (union's comparison of
\* _slideDuration): the two parents of every union node have the same slide
\* duration, however they were windowed, transformed and folded before.
UnionTicksTogether ==
    \A j \in DOMAIN jvm :
        jvm[j].op = "transformed2" /\ jvm[j].func = <<"union">> =>
            jvm[jvm[j].parents[1]].slide = jvm[jvm[j].parents[2]].slide

\* Windows are aligned with the batches below them (_validate_window_param,
\* checked on the stream the method was called on, while the node is built
\* on another one: the per-batch reduce of a keyed copy of it): the window
\* and the slide of every windowed node are multiples of its parent's slide.
WindowAligned ==
    \A j \in DOMAIN jvm :
        jvm[j].op \in {"windowed", "reducedWindowed"} =>
            LET d == jvm[jvm[j].parents[1]].slide
            IN  d # 0 /\ jvm[j].window % d = 0 /\ jvm[j].slide % d = 0

\* What the design says of fusion and the code does not do: "once either
\* flag is true, fusion across this node is disabled".  A stream derived
\* while an ancestor is already cached or checkpointed would not take over
\* that ancestor's function.  TransformedDStream.__init__ looks at the flags
\* of the immediate parent alone, and the parent may have folded the
\* ancestor before the ancestor was flagged.
NoFoldAcrossFlagged ==
    [][\A n \in (DOMAIN py') \ (DOMAIN py) : \A a \in py'[n].said.ancs :
         Flagged(py[a]) => a \in PrevChain(py', n)]_vars

\* What the design says of a window and the code does not check: window and
\* slide durations are positive multiples of the parent's slide.
\* _validate_window_param accepts 0 (and any negative multiple).
WindowPositive ==
    \A j \in DOMAIN jvm :
        jvm[j].op \in {"windowed", "reducedWindowed"} =>
            jvm[j].window > 0 /\ jvm[j].slide > 0

=============================================================================
