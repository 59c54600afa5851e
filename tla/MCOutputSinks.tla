---------------------------- MODULE MCOutputSinks ---------------------------
(***************************************************************************)
(* OutputSinks for TLC: the outputs a program registers.                   *)
(***************************************************************************)
EXTENDS OutputSinks

Save(prefix)  == [method |-> "saveAsTextFiles", argc |-> 2, prefix |-> prefix]
Foreach(argc) == [method |-> "foreachRDD", argc |-> argc, prefix |-> None]
PPrint        == [method |-> "pprint", argc |-> 2, prefix |-> None]

\* A saveAsTextFiles with a prefix of its own and two that share one,
\* a function of (rdd), a function of three arguments and a pprint.
Program == <<Save("a"), Foreach(1), Save("b"), Foreach(3), PPrint, Save("b")>>

\* One saveAsTextFiles.
OneSave == <<Save("a")>>
=============================================================================
