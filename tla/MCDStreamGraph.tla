--------------------------- MODULE MCDStreamGraph ---------------------------
(***************************************************************************)
(* DStreamGraph for TLC.  Each configuration gives the driver program a    *)
(* repertoire of methods and bounds the number of stream objects so that   *)
(* the longest call of the repertoire fits.                                *)
(***************************************************************************)
EXTENDS DStreamGraph

\* Durations: zero, one batch of 1000 ms, two batches.  A window that slides
\* by two batches is a parent of which one batch is no multiple.
MCDurations == {0, 1000, 2000}
MCArgcs     == {1, 2, 3}

\* An input stream of pickled objects, and one of lines of text.
MCDeserializers == {sc_serializer, "UTF8Deserializer"}
TextInput       == {"UTF8Deserializer"}

\* Chains of transforms with cache and checkpoint boundaries in between, and
\* the calls that ask for a JVM node.
FusionCalls ==
    {"map", "reduceByKey", "cache", "checkpoint", "slice"}

\* Windows over windows, and unions of what they make.
WindowCalls == {"window", "reduceByKeyAndWindow", "union"}

\* The methods that are made of other methods, and those that build the
\* other kinds of JVM node.
CompositeCalls ==
    {"count", "reduceByWindow", "countByWindow", "groupByKeyAndWindow",
     "transform", "transformWith", "join", "updateStateByKey", "saveAsTextFiles"}
CompositeDurations == {1000, 2000}
=============================================================================
