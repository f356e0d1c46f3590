-------------------------- MODULE MCIngestPipeline --------------------------
(* Partitions of a few messages for IngestPipeline. *)
EXTENDS IngestPipelineProps

CONSTANTS t1, t2

Reading(t, ts, level) == [valid |-> TRUE, tag |-> t, ts |-> ts, level |-> level]
Unparseable == [valid |-> FALSE, tag |-> t1, ts |-> 0, level |-> "ok"]

\* Two tags in turns, each in and out of alarm, one reading late.
MCLog == << Reading(t1, 1, "ok"), Reading(t2, 1, "hi"), Reading(t1, 2, "hi"),
            Reading(t2, 3, "ok"), Reading(t2, 2, "hi") >>

\* The same with a message that does not parse.
MCLogWithUnparseable ==
    << Reading(t1, 1, "ok"), Unparseable, Reading(t2, 1, "hi"), Reading(t1, 2, "hi"),
       Reading(t2, 3, "ok") >>

=============================================================================
