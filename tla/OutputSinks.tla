---------------------------- MODULE OutputSinks -----------------------------
(***************************************************************************)
(* The outputs of a streaming program, batch after batch, with a driver    *)
(* that may crash and recover: foreachRDD and the function it registers,   *)
(* pprint, and saveAsTextFiles with the error it swallows because "after   *)
(* recovered from checkpointing, the foreachRDD may be called twice".      *)
(*                                                                         *)
(* The scheduler runs the outputs of a batch one after the other, in the   *)
(* order they were registered, and then records the batch as completed.    *)
(* The record survives a crash; after a crash the scheduler starts again   *)
(* at the first batch that has no record.  A file is written in two        *)
(* steps: the path appears, and later it is whole.                         *)
(***************************************************************************)
EXTENDS Integers, Sequences, FiniteSets, FiniteSetsExt

CONSTANTS
    Outputs,     \* the calls of the program, in order: records with the
                 \* method, the argument count of the function passed to
                 \* foreachRDD, and the prefix passed to saveAsTextFiles
    MaxTicks,    \* bound on the number of batches
    MaxCrashes,  \* bound on the number of crashes of the driver
    MaxFaults,   \* bound on the number of writes the file system fails
    None         \* Python's None

ASSUME /\ MaxTicks \in Nat /\ MaxCrashes \in Nat /\ MaxFaults \in Nat
       /\ \A i \in DOMAIN Outputs :
              Outputs[i].method \in {"foreachRDD", "pprint", "saveAsTextFiles"}

Ticks == 1..MaxTicks

Prefixes == {Outputs[i].prefix : i \in DOMAIN Outputs}

VARIABLES
    fs,         \* the file system: for every path None, or who wrote it and
                \* whether it is whole
    completed,  \* the batches recorded as completed; survives a crash
    job,        \* the output being run: the batch, the index of the output
                \* and whether its file is being written; None between batches
    ran,        \* history: the <<output, batch>> takeAndPrint or a user's
                \* function has run for
    raised,     \* history: the <<output, batch>> whose function raised
    failed,     \* history: the <<output, batch>> the file system failed
    torn,       \* history: the paths a crash left half written
    crashes     \* the number of crashes so far

vars == <<fs, completed, job, ran, raised, failed, torn, crashes>>

-----------------------------------------------------------------------------
(* The output methods, and the functions they register.                    *)

\* Mutant of foreachRDD: a function of one argument is registered as it is.
foreachRDD_NoWrap(func) == func

\* foreachRDD registers func; a func of one argument is wrapped in one that
\* takes the time as well.
foreachRDD(func) == IF func.argc = 1 THEN [func EXCEPT !.argc = 2] ELSE func

pprint == foreachRDD([body |-> "takeAndPrint", argc |-> 2, prefix |-> None])

saveAsTextFiles(prefix) ==
    foreachRDD([body |-> "saveAsTextFile", argc |-> 2, prefix |-> prefix])

\* The function the scheduler holds for the i-th output.
Registered(i) ==
    LET o == Outputs[i]
    IN  CASE o.method = "saveAsTextFiles" -> saveAsTextFiles(o.prefix)
          [] o.method = "pprint"          -> pprint
          [] o.method = "foreachRDD"      ->
                 foreachRDD([body |-> "user", argc |-> o.argc, prefix |-> None])

\* The scheduler calls a registered function with the time and the dataset.
Callable(func) == func.argc = 2

\* The path of a batch: the prefix and the time.
rddToFileName(prefix, t) == <<prefix, t>>

Paths == Prefixes \X Ticks

\* Mutants of saveAsTextFile: every error is swallowed; none is.
saveAsTextFile_SwallowAll(e) == FALSE

saveAsTextFile_NoSwallow(e) == e # None

\* saveAsTextFile(t, rdd), given what rdd.saveAsTextFile(path) raised, None
\* if nothing: whether it raises.  An error that names
\* FileAlreadyExistsException is swallowed.
saveAsTextFile(e) == e # None /\ e # "FileAlreadyExistsException"

-----------------------------------------------------------------------------
(* The specification.                                                      *)

Init ==
    /\ fs = [p \in Paths |-> None]
    /\ completed = {}
    /\ job = None
    /\ ran = {} /\ raised = {} /\ failed = {} /\ torn = {}
    /\ crashes = 0

Running == job # None /\ job.i \in DOMAIN Outputs

Func == Registered(job.i)

Path == rddToFileName(Func.prefix, job.t)

Saving == Running /\ Callable(Func) /\ Func.body = "saveAsTextFile"

\* The function of the current output returns or raises, and the scheduler
\* goes on to the next output of the batch.
Return(raises) ==
    /\ raised' = IF raises THEN raised \cup {<<job.i, job.t>>} ELSE raised
    /\ job' = [job EXCEPT !.i = @ + 1, !.writing = FALSE]

\* The scheduler starts the first batch without a record.
StartBatch ==
    /\ job = None
    /\ Ticks \ completed # {}
    /\ job' = [t |-> Min(Ticks \ completed), i |-> 1, writing |-> FALSE]
    /\ UNCHANGED <<fs, completed, ran, raised, failed, torn, crashes>>

\* A function that does not take (time, rdd) raises when it is called.
CallFails ==
    /\ Running /\ ~Callable(Func)
    /\ Return(TRUE)
    /\ UNCHANGED <<fs, completed, ran, failed, torn, crashes>>

\* takeAndPrint, or the function of the user, runs.
CallRuns ==
    /\ Running /\ Callable(Func) /\ Func.body # "saveAsTextFile"
    /\ ran' = ran \cup {<<job.i, job.t>>}
    /\ Return(FALSE)
    /\ UNCHANGED <<fs, completed, failed, torn, crashes>>

\* saveAsTextFile when the path is there already.
SaveExists ==
    /\ Saving /\ ~job.writing /\ fs[Path] # None
    /\ Return(saveAsTextFile("FileAlreadyExistsException"))
    /\ UNCHANGED <<fs, completed, ran, failed, torn, crashes>>

\* saveAsTextFile when the path is free: the path appears ...
SaveBegins ==
    /\ Saving /\ ~job.writing /\ fs[Path] = None
    /\ fs' = [fs EXCEPT ![Path] = [by |-> job.i, t |-> job.t, whole |-> FALSE]]
    /\ job' = [job EXCEPT !.writing = TRUE]
    /\ UNCHANGED <<completed, ran, raised, failed, torn, crashes>>

\* ... and is whole, and saveAsTextFile returns ...
SaveEnds ==
    /\ Saving /\ job.writing
    /\ fs' = [fs EXCEPT ![Path].whole = TRUE]
    /\ Return(saveAsTextFile(None))
    /\ UNCHANGED <<completed, ran, failed, torn, crashes>>

\* ... or the file system fails the write, before or after the path has
\* appeared, with an error saveAsTextFile does not know.
SaveFails ==
    /\ Saving /\ (job.writing \/ fs[Path] = None)
    /\ Cardinality(failed) < MaxFaults
    /\ failed' = failed \cup {<<job.i, job.t>>}
    /\ Return(saveAsTextFile("IOException"))
    /\ UNCHANGED <<fs, completed, ran, torn, crashes>>

\* All outputs of the batch have run: the batch is recorded.
FinishBatch ==
    /\ job # None /\ job.i = Len(Outputs) + 1
    /\ completed' = completed \cup {job.t}
    /\ job' = None
    /\ UNCHANGED <<fs, ran, raised, failed, torn, crashes>>

\* The driver crashes and recovers: what it was running is forgotten, the
\* files and the records stay.
Crash ==
    /\ crashes < MaxCrashes
    /\ crashes' = crashes + 1
    /\ torn' = IF Saving /\ job.writing THEN torn \cup {Path} ELSE torn
    /\ job' = None
    /\ UNCHANGED <<fs, completed, ran, raised, failed>>

Next ==
    \/ StartBatch
    \/ CallFails
    \/ CallRuns
    \/ SaveExists
    \/ SaveBegins
    \/ SaveEnds
    \/ SaveFails
    \/ FinishBatch
    \/ Crash

\* What the scheduler does, it does eventually; crashes and failing writes
\* need not happen.
Schedule ==
    StartBatch \/ CallFails \/ CallRuns \/ SaveExists \/ SaveBegins \/ SaveEnds
        \/ FinishBatch

Spec == Init /\ [][Next]_vars /\ WF_vars(Schedule)

-----------------------------------------------------------------------------
(* Properties.                                                             *)

\* An output and a batch.
Calls == (DOMAIN Outputs) \X Ticks

Saves == {i \in DOMAIN Outputs : Outputs[i].method = "saveAsTextFiles"}

\* The file of output i for batch t is there, whole, and is this output's.
Written(i, t) ==
    LET file == fs[rddToFileName(Outputs[i].prefix, t)]
    IN  file # None /\ file.whole /\ file.by = i /\ file.t = t

\* Another saveAsTextFiles of the program writes to the same paths.
Shared(i) == \E j \in Saves \ {i} : Outputs[j].prefix = Outputs[i].prefix

\* The output of batch t by output i is lost without anyone being told
\* only if a crash interrupted the writing of its file, or if the path is
\* another output's as well.
Excused(i, t) == rddToFileName(Outputs[i].prefix, t) \in torn \/ Shared(i)

\* What the swallowed error costs, and no more (saveAsTextFile, run again
\* after a crash, with the scheduler and the records of completed batches):
\* a batch that is recorded as completed has the file of every
\* saveAsTextFiles, whole and written for this batch, unless the driver
\* was told that the output failed, a crash interrupted the writing of
\* that very file, or two outputs share the prefix.
WrittenUnlessTorn ==
    \A t \in completed, i \in Saves :
        Written(i, t) \/ <<i, t>> \in raised \/ Excused(i, t)

\* Recovery is quiet (the error saveAsTextFile swallows): an output raises
\* only when the file system failed its write or its function cannot be
\* called, however often a crash makes the scheduler run it again.
RecoveryIsQuiet ==
    \A i \in DOMAIN Outputs, t \in Ticks :
        <<i, t>> \in raised => <<i, t>> \in failed \/ ~Callable(Registered(i))

\* What a program that registers outputs expects, and saveAsTextFile does
\* not give: a completed batch has the file of every saveAsTextFiles,
\* unless the driver was told that the output failed.
CompletedMeansWritten ==
    \A t \in completed, i \in Saves : Written(i, t) \/ <<i, t>> \in raised

\* Every batch reaches every output (foreachRDD's wrapper, the scheduler
\* and recovery): whatever crashes and failed writes there are, in the end
\* every batch is recorded, a function of (rdd) or (time, rdd) passed to
\* foreachRDD and takeAndPrint have run for every batch, and every
\* saveAsTextFiles has written its file or raised, unless its file was
\* torn or its prefix is shared.
Delivered(i, t) ==
    CASE Outputs[i].method = "saveAsTextFiles" ->
             Written(i, t) \/ <<i, t>> \in raised \/ Excused(i, t)
      [] Outputs[i].method = "pprint" -> <<i, t>> \in ran
      [] Outputs[i].method = "foreachRDD" ->
             Outputs[i].argc \in {1, 2} => <<i, t>> \in ran

EveryBatchDelivered ==
    <>(/\ completed = Ticks
       /\ \A i \in DOMAIN Outputs, t \in Ticks : Delivered(i, t))

=============================================================================
