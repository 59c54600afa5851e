# TLA+ models of PySpark Streaming's DStream

This directory holds TLA+ specifications of `src/python/pyspark/streaming/dstream.py`,
the TLC configurations that check them, and `PROJECT.json`, which lists the
components, the runs, the mutants that show each property can fail, the map from
definitions to source lines, the findings and the hazards.

## 1. The system

`dstream.py` is the Python side of Spark Streaming's discretized streams. A driver
program calls methods on `DStream` objects; every call returns a new stream and
nothing is computed until the streaming context runs. Then a JVM scheduler
produces one batch per slide duration and calls back into the Python functions
the streams carry.

| Part | Where | State | Operations |
|---|---|---|---|
| Stream graph node | `class DStream` (60-873) | `_jdstream`, `is_cached`, `is_checkpointed`, `_jrdd_deserializer` | 40 methods: stateless transformations, aggregates, flags, joins, windows, state, outputs |
| Transform fusion | `class TransformedDStream` (876-931) | `prev`, `func`, `_jdstream_val` | the constructor's fold, the lazy `_jdstream` property |
| Window engine | `_validate_window_param`, `window`, `reduceByKeyAndWindow` and the four methods built on it (594-822) | in the JVM node: the previous window's reduced dataset | validation at construction; `reduceFunc` and `invReduceFunc` at every slide |
| Keyed state store | `updateStateByKey` (824-873) | in the JVM node: the previous state dataset | `reduceFunc` at every batch |
| Output sinks | `foreachRDD`, `pprint`, `saveAsTextFiles` (225-366) | files written | one call per output and batch |
| JVM nodes, RDDs, scheduler | not in this repository | | |

How the parts interact: every method ends in `transform`/`TransformedDStream`
(Python only, lazy) or in a JVM constructor (eager, needs the parents' JVM
nodes, which `_jdstream` builds and memoises on the way). `cache`, `persist` and
`checkpoint` set a Python flag that later folds read, and tell the JVM node. The
window methods validate against the JVM slide duration of the stream they are
called on. At run time the JVM hands the Python closures the previous result
and the entering or leaving batches, and calls the functions of the outputs
once a batch; after a crash it calls them again for the batch that was not
finished.

There is a single driver thread. What makes the code hard is not concurrency but
long sequences of legal calls: decisions taken at construction time from state
that changes later (the fold, the memo), validation on one stream and
construction on another, incremental state that must stay equal to a
recomputation over data that has long gone, and outputs that are run twice.

### What must hold

* Fusion: a folded stream computes exactly the chain the caller wrote, in order;
  a fold never crosses a stream that was cached or checkpointed when its child
  was derived; the JVM node of a flagged stream is the flagged node, unless
  the JVM refused the call.
* Serializers: every function reads each dataset with the serializer the
  stream it comes from declares, whatever folding made of the stream's parent.
* Windows: every window node is aligned with the slide of its parent; a union
  joins streams that tick together; a call that is refused builds nothing.
* Incremental windows: the kept window agrees with a reduce of the whole window;
  keys without values do not outlive their values (with a filter), and never
  show in counts.
* State store: every batch moves the state of every key that has a state or
  new values by one call of `updateFunc`; a key set to None is gone until new
  values arrive.
* Sinks: a batch run twice after recovery is not an error; a batch that is
  recorded has its files; every batch reaches every output in the end.

## 2. The modules

| Module | Models | Used by |
|---|---|---|
| `DStreamGraph` | the graph a driver program builds: Python objects, JVM nodes, fusion, memo, flags, validation, declared serializers | `MCDStreamGraph` |
| `MCDStreamGraph` | repertoires of methods and durations for TLC | 5 configurations |
| `WindowedReduce` | what `reduceByKeyAndWindow` and the methods built on it emit at every slide, incremental and naive | `MCWindowedReduce` |
| `MCWindowedReduce` | the functions, batches and shapes of the uses (counts, lists, one key) | 4 configurations |
| `KeyedState` | the abstract keyed state store: a table from keys to states, one update a batch | `StateStore` |
| `StateStore` | what `updateStateByKey` emits at every batch; refines `KeyedState` | `MCStateStore` |
| `MCStateStore` | a running count that expires, batches and initial datasets | 1 configuration |
| `OutputSinks` | the outputs of a program batch after batch, with crashes, recovery and failing writes | `MCOutputSinks` |
| `MCOutputSinks` | two programs: six outputs of every kind; one `saveAsTextFiles` | 2 configurations |

### DStreamGraph

State: `py` is the sequence of Python stream objects ever constructed (a record
with `cls`, `prev`, `func`, `jd`, `ser`, `is_cached`, `is_checkpointed`;
`jd = 0` is `_jdstream_val is None`, `ser` is `_jrdd_deserializer`), `jvm` the
sequence of JVM nodes (operation, parents, function, the deserializers the
function was given, window, slide, persisted, checkpointed, the serializer of
the initial state), `outputs` the registered outputs (node and deserializer),
`handles` the objects the driver holds, `err` what the last call raised. Two
record fields are history for the properties only: `said`, the chain the
caller asked for and which ancestors were flagged when the next stream on the
chain was derived, and `lost`, the calls of `persist` and `checkpoint` the JVM
refused and has not answered since.

Every method is an operator from a heap to a heap, written the way the method
is written: `count` is `mapPartitions` then `reduce`, `reduce` is `map`,
`reduceByKey`, `map`, and so on down to `transform` and the constructor
`TransformedDStream`. A method that calls `self._jdstream` calls `jdstream`,
which builds the missing nodes from the parent up and records them in the
objects. An action applies one method to streams the driver holds and makes the
resulting heap the next state, so a call is one atomic step, including
everything it calls. Actions group methods of the same kind (`Stateless`,
`Aggregate`, `Join`...); the constant `Calls` names the methods the driver of a
configuration uses.

Abstraction: a per-batch function is the name of the RDD operation it applies
(its *stage*); a composed function is the sequence of stages. Durations are
integer milliseconds. The arity of a user function is `co_argcount`.
Partition counts and storage levels are left out.

Faults: `cache`, `persist` and `checkpoint` set their flag and then call the
JVM stream. `JvmCall` is that call: it is answered, or it is refused and the
caller gets the error (`err = "Py4JError"`), with the flag set and the node
built and memoised. The code has no handler, so nothing else happens; the
driver may make the call again. Why the JVM refuses is not modelled. The other
JVM calls (constructors, `slideDuration`, `register`, `slice`) are answered.

Serializers are names: `sc_serializer` for `self._sc.serializer`, and whatever
the context gave an input stream (`InputDeserializers`, chosen in `Init`). The
model keeps what the source says: the deserializer every stream is constructed
with, the deserializers every `TransformFunction` is constructed with, and the
serializer `updateStateByKey` rewrites the initial state with. It does not say
what a dataset returned by an RDD method is written with, which is RDD code.
`TransformedDStream._jdstream` reads `self.prev._jrdd_deserializer` when the
node is first asked for, so `jdstream` reads it from the heap it works on,
after folding has rewired `prev`.

### WindowedReduce

State: `batches`, the batches of the keyed stream so far; `shape`, the window
and slide in batches; `hasFilter`, whether a `filterFunc` was passed;
`swapped`, the order in which `reduceByKey` merges two values of a key (all
three chosen at the start); `R_prev`, the reduced window the stream emitted at
the last slide and keeps for the next (None before the first). A dataset is a
function from keys to the sequence of values of the key.

`reduceFunc` and `invReduceFunc` are translated from the closures of
`reduceByKeyAndWindow`; `naive` is its other branch. The node that calls them
is modelled from the design document: at a slide it hands `reduceFunc` the
batches that entered since the last slide, then `invReduceFunc` the batches
that left. `Func`, `InvFunc`, `FilterFunc` and `Zero` are constants:
`add`/`sub`/0 for counts, `extend`/`dropPrefix`/`<<>>` for the lists of
`groupByKeyAndWindow`. `reduceByWindow` and `countByWindow` are the same stream
with every element keyed by one constant key (`keyedByOne`, `ones`) and the key
stripped from the result; `window` and `count` are what the documentation of
`countByWindow` compares it with. The action `Slide` is a batch that completes
a slide, `Quiet` a batch between slides.

`reduceByKey` is not part of this source. Its contract asks for a commutative
function because it merges the values of a key in no promised order; the model
merges them as they come, calling `func(earlier, later)` or, when `swapped`,
`func(later, earlier)`.

### KeyedState and StateStore

`KeyedState` is the store the design describes: `table` maps every key to a
state or None, and `Tick(vs)` replaces the state of every key that has a state
or new values by `updateFunc(new values, state)`, and leaves the others
without. `batch` records the new values of the tick.

`StateStore` is the code. State: `initialRDD`, the dataset the state node was
built with (None when `updateStateByKey` was given nothing that is true in
Python: None or an empty list; an empty dataset is true); `state`, the dataset
emitted at the last batch; `batch` and `ticks`. `reduceFunc` is translated from
the closure: `groupByKey` when there is no previous dataset, `cogroup`
otherwise, the first of the previous states of a key, `updateFunc`, the filter
on None. `Tick(b)` is the state node calling `reduceFunc` once a batch with the
previous state, or the initial dataset at the first batch.

The refinement mapping is `Table`: the state `reduceFunc` will take for a key
at the next batch, the first pair of the key in the previous dataset. An
initial dataset with two pairs for a key maps to the table that holds the first
of them. `Implements` is `KeyedState`'s specification under this mapping.

### OutputSinks

A program is the constant `Outputs`, the sequence of its output calls.
`foreachRDD`, `pprint` and `saveAsTextFiles` give the function each call
registers, a record of its body, its argument count and its prefix;
`saveAsTextFile(e)` says whether the closure of `saveAsTextFiles` raises, given
what `rdd.saveAsTextFile(path)` raised.

State: `fs`, the files (for every path nothing, or who wrote it and whether it
is whole); `completed`, the batches recorded as done, which survive a crash;
`job`, the batch and the output being run; `crashes`; and the history
variables `ran`, `raised`, `failed` and `torn` for the properties.

Actions: `StartBatch` takes the first batch without a record; for the current
output one of `CallRuns` (takeAndPrint or a user function), `CallFails` (a
function that cannot be called with `(time, rdd)`), `SaveBegins` then
`SaveEnds` (the path appears, then is whole), `SaveExists` (the path is there:
the error is swallowed), `SaveFails` (another error, which is raised);
`FinishBatch` records the batch; `Crash` forgets the job and keeps files and
records. The scheduler, the record of completed batches and recovery are
modelled from the design document (re-invocation after a recovery event);
that a write is not atomic is the assumption about the file system under which
the comment in `saveAsTextFile` is examined.

## 3. The runs

| Run | Configuration | Properties | Result |
|---|---|---|---|
| fusion | `DStreamGraphFusion.cfg` | `TypeOK`, `FusionTransparent`, `BoundaryKept`, `FlagsReachJvm` | hold, 470,924 states |
| windows | `DStreamGraphWindows.cfg` | `UnionTicksTogether`, `WindowAligned`, `ReadAsDeclared`, `FailedCallOnlyMaterialises` | hold, 21,744 states |
| composite | `DStreamGraphComposite.cfg` | `FusionTransparent`, `ReadAsDeclared` | hold, 21,984 states |
| fold_across_flagged | `DStreamGraphFold.cfg` | `NoFoldAcrossFlagged` | violated |
| window_positive | `DStreamGraphPositive.cfg` | `WindowPositive` | violated |
| window_incremental | `WindowedReduceIncremental.cfg` | `IncrementalTracksWindow`, `StaleKeysPruned`, `CountsExact` | hold, 333,970 states |
| window_group | `WindowedReduceGroup.cfg` | `TypeOK`, `IncrementalTracksWindow`, `GroupSizesExact` | hold, 333,970 states |
| window_count | `WindowedReduceCountByWindow.cfg` | `CountByWindowIsWindowCount` | violated |
| window_equivalence | `WindowedReduceEquivalence.cfg` | `IncrementalEqualsNaive` | violated |
| state_store | `StateStore.cfg` | `TypeOK`, `Implements`, `Tombstoned` | hold, 5,646 states |
| sink_recovery | `OutputSinksRecovery.cfg` | `WrittenUnlessTorn`, `RecoveryIsQuiet`, `EveryBatchDelivered` | hold, 108,346 states |
| sink_torn | `OutputSinksTorn.cfg` | `CompletedMeansWritten` | violated |

What the passing runs show:

* **fusion**: whatever the driver does with `map`, `reduceByKey`, `cache`,
  `checkpoint` and `slice` on up to four streams, a transformed stream applies
  the stages that were chained, in order, to the stream the chain started from,
  on the Python side and in the JVM nodes (`FusionTransparent`); an ancestor that was flagged when its child on
  the chain was derived stays on the chain the stream reads through, and
  under the stream's JVM node (`BoundaryKept`); the node the memo holds for a flagged stream
  carries the flag (`FlagsReachJvm`). The JVM may refuse a `persist` or a
  `checkpoint`: the three properties hold of the graphs that leaves as well,
  and `FlagsReachJvm` says what a refusal leaves, a flag whose node has no
  mark until the call is made again and answered. Nothing in the code resets
  the flag, so until then folds stop at a stream that is not persisted.
* **windows**: with durations of 0, 1 and 2 batches, windows over windows, both
  branches of `reduceByKeyAndWindow` and unions of the results, no window node
  is misaligned with its parent, and no union node joins streams of different
  slide, although validation looks at one stream and the node is built on
  another. A call that raises in Python (`ValueError`, `ZeroDivisionError`)
  leaves the graph as it was, but for the JVM nodes `_jdstream` built and memoised on the
  way to the slide duration (`FailedCallOnlyMaterialises`). A window declares
  the serializer of the stream under it, and a union reads each side with what
  that side declares (`ReadAsDeclared`).
* **composite**: the same transparency through the methods that are chains of
  other methods, with every kind of JVM node below and above. On an input
  stream of pickled objects or of text, every function (of a transform, a
  join, a reduced window, a state stream, an output) reads the batches of each
  parent, and its own previous window or state, with the serializer the stream
  of that node declares (`ReadAsDeclared`). The property names one exception,
  which is what the code does: `updateStateByKey` rewrites `initialRDD` with
  the stream's deserializer (line 862) and has `reduceFunc` read the state
  with the context's serializer (line 858), so on a stream that declares
  another serializer the initial state is read with the wrong one. Without
  the exception TLC reports `updateStateByKey` with an initial RDD on the
  input stream of text, after one call.
* **window_incremental**: for all sequences of five batches and all five shapes,
  with and without a filter that drops zeros, the value kept for a key that has
  values in the window is the reduce of those values, and a key that has none
  is absent or holds 0; with the filter it is absent one slide later at most;
  `countByValueAndWindow` emits exactly the counts of the window.
* **window_group**: the lists of `groupByKeyAndWindow` are the values of the
  window, oldest first, when `reduceByKey` merges in the order of arrival.
  Merged the other way round the list of a key still has the length of the
  window (`GroupSizesExact`) but not its values: after batches `[1]` and
  `[2, 3]` a window of one batch holds `[2, 1]`. `extend` is not commutative,
  which `reduceByKeyAndWindow` asks of its `func`.
* **state_store**: `StateStore` implements `KeyedState`: the `groupByKey` branch
  of the first batch and the `cogroup` branch of the later ones are the same
  update, idle keys are updated with an empty list, and every kind of initial
  dataset starts the store in one of its tables. A key that was removed comes
  back only in a batch that has values for it.
* **sink_recovery**: with crashes at any point, a recorded batch has the whole
  file of every `saveAsTextFiles` that did not raise, unless a crash interrupted
  the writing of that file or another output writes to the same prefix
  (`WrittenUnlessTorn`); running outputs again raises nothing the file system or
  the arity of a function did not cause (`RecoveryIsQuiet`); and every batch is
  recorded and has reached every output in the end (`EveryBatchDelivered`).

What the violations show (details in `PROJECT.json`, "findings"):

* **fold_across_flagged**: `a = s.map(f); b = a.map(g); a.cache(); c = b.map(h)`
  gives a `c` that recomputes `f` from `s`. The constructor looks at its parent's
  flags only, and `b` folded `a` before `a` was cached.
* **window_positive**: a window of 0 passes `_validate_window_param`, since
  `0 % duration == 0` (line 596): TLC's counterexample is a window of 0 that slides by one batch.
  A slide of 0 passes as well, skipped like None by `if slide and` (line 601).
* **window_count**: before the first element of the stream `countByWindow`
  emits an empty RDD, where `window().count()`, which its docstring calls
  equivalent, emits 0. The one key of the keyed window under `reduceByWindow`
  appears with the first element and is never removed; from then on it holds
  the count of the window, 0 for a window that has emptied
  (`IncrementalTracksWindow`, of the same keyed window).
* **window_equivalence**: without a `filterFunc` the incremental path keeps a key
  with value 0 after its values left; the naive path does not have the key.
* **sink_torn**: the driver crashes while the file of a batch is being written;
  after recovery the write finds the path, `saveAsTextFile` swallows the error,
  and the batch is recorded with half a file and no error.

## 4. Bounds

| Constant | Value | Why it is enough |
|---|---|---|
| `Sources` | 1 | all input streams of a context share the batch duration; streams of other slide come from `window` |
| `BatchMs` | 1000 | the batch duration of the context |
| `MaxPy` | 4 (fusion, windows), 7 (composite) | the fold counterexample needs 4 objects; `countByWindow` constructs 5 in one call |
| `MaxStreams` | 4, 4, 3 | streams the driver holds; composite: the input and two derived streams |
| `Durations` | {0, 1000, 2000}; composite {1000, 2000} | zero, the batch, and a multiple: a window sliding by 2000 is a parent of which 1000 is no multiple |
| `Argcs` | {1, 2, 3} | one below, at, and above what `transform` and `transformWith` accept |
| `Calls` | per run, see `MCDStreamGraph` | each run needs the methods of its question only |
| `MaxRefused` | 1 (fusion), 0 elsewhere | streams with a refused call that was not made again: one is enough for a flag without a mark, for a fold that stops at it and for the retry |
| `RefuseUpTo` | 2 (fusion), 0 elsewhere | the JVM refuses while at most two objects exist: the input stream or the first derived stream is refused, and two more streams are derived on top |
| `InputDeserializers` | the context's serializer and a text deserializer (windows, composite); text alone elsewhere | a stream that declares what every transform declares, and one that does not |
| `MaxTicks` (windows) | 5; 7 for window_count | with a window of 3 batches the first batch leaves at tick 4 and a key can go stale and return; with a window of 4 at tick 5 |
| `Shapes` | (1,1) (2,1) (3,1) (2,2) (1,2); window_count adds (4,1) (4,2) (3,3) | window longer than, equal to and shorter than the slide |
| `Keys` | 2, symmetric; 1 for window_count | one key that leaves while the other stays; `reduceByWindow` has one key |
| `Batches` (windows) | 0 to 2 values a key; 0 to 3 elements for window_count | a key with no, one and several values in a batch |
| `Filters`, `Swaps` | both choices where the run is about them | |
| `Cap` | 4 | the running count of the state store answers None from 4 on: a key expires after a few batches and returns |
| `MaxTicks` (state) | 6 | a key can expire, stay away, return and expire again |
| `Initials` | None, and lists and datasets with no, one or two pairs a key | every way through `if initialRDD`, and a key twice |
| `Outputs` | six outputs: `saveAsTextFiles` on prefix a, twice on prefix b, `foreachRDD` with 1 and with 3 arguments, `pprint` | every kind of output, a shared prefix, a function that is wrapped and one that cannot be called |
| `MaxTicks` (sinks) | 3 | a batch before and a batch after the one a crash interrupts |
| `MaxCrashes` | 3 | a crash in every batch, or several in one |
| `MaxFaults` | 2 | a failed write, and another one when the batch is run again |

A program that has run out of calls, batches or ticks stops: the
configurations switch the deadlock check off.

## 5. Fairness

`OutputSinks` assumes weak fairness of `Schedule`, the disjunction of the steps
the scheduler and the functions take (`StartBatch`, `CallRuns`, `CallFails`,
`SaveBegins`, `SaveEnds`, `SaveExists`, `FinishBatch`): the JVM scheduler runs
the jobs of a batch to their end and then generates the next batch, so a step
that stays possible is taken. Nothing obliges the driver to crash or the file
system to fail, so `Crash` and `SaveFails` are not fair, and they are bounded:
a driver that crashes for ever delivers nothing. `EveryBatchDelivered` is
checked under this assumption.

The other specifications assume no fairness and check safety only: graph
construction is a finite program, and the per-batch models are driven by the
arrival of batches, which nothing obliges to continue.

## 6. Not modelled

* What datasets are really written with. The source says which deserializer
  every stream declares and every function is given, and `DStreamGraph`
  checks the two against each other; what an RDD method writes is decided by
  RDD code outside this repository (`union`, `_reserialize`, the worker). So
  the model cannot say whether a `union` of a stream of text and a stream of
  pickled objects, which declares the serializer of its left side (line 494),
  declares the truth.
* The clock of `slice`: `_jtime` and the batches the JVM stream returns. The
  graph keeps no time, and the conversion of a datetime to whole seconds
  (line 580) is listed as a hazard only.
* py4j failures other than a refused `persist` or `checkpoint`: a failing
  constructor, `slideDuration`, `register` or `slice` raises before the
  method has changed anything on the Python side, but for the memo.
* Floating-point arithmetic in `int(window * 1000)`; durations are whole
  milliseconds.
* What a join emits when its streams tick at different rates: the design
  document does not say, and the JVM node is not in this repository.
* RDD partitioning and parallel execution, the contents of user functions,
  what `takeAndPrint` prints, checkpoint files.
* Merge orders of `reduceByKey` other than the two of `swapped` (a tree of
  merges over partitions).

## 7. Plan

1. **Done**: `DStreamGraph` with the declared serializers and the refused
   JVM calls, `WindowedReduce`,
   `StateStore` with `KeyedState`, `OutputSinks`.
2. `GraphEval`: per-batch evaluation of a built graph, to show that the graph
   fusion builds computes batch by batch what the unfused chain computes, and
   that a folded function runs once per child.
3. An abstract specification of a window (the multiset of the values of the
   last w batches) that `WindowedReduce` refines under a filter.
4. A clock for `slice` (`_jtime`, line 580) and floating-point durations
   (line 596): both need values the graph model abstracts away, and a
   configuration of their own.
