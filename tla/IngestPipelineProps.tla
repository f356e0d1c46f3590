------------------------ MODULE IngestPipelineProps ------------------------
(* What the ingest pipeline promises. *)
EXTENDS IngestPipeline

TypeOK ==
    /\ committed \in 0..Len(Log)
    /\ position \in 1..(Len(Log) + 1)
    /\ pc \in {"select", "upsert", "cache", "alarms", "commit"}
    /\ pending \in Seq(Offsets)
    /\ buffer \in Seq(Offsets)
    /\ toEvaluate \subseteq Tags
    /\ flushed \in Nat
    /\ history \subseteq Readings
    /\ lastValue \in [Tags -> Nat]
    /\ live \in [Tags -> Nat]
    /\ alarmState \in [Tags -> {"ok"} \cup {Log[o].level : o \in Offsets}]
    /\ events \in [Readings -> Nat]
    /\ faults \in 0..MaxFaults

\* At least once: an offset is committed only when its reading, and every
\* reading before it, is in history.tag_values_raw, so that no crash can lose
\* one (specs/0029: the offset is committed after a successful flush).
CommittedIsPersisted ==
    \A o \in 1..committed : Log[o].valid => RowOf(o) \in history

\* What remains of it on a partition with messages that do not parse, whose
\* commit covers the readings buffered before them: of the readings since the
\* last such message none is committed before it is in the history.
ValidRun(o, last) == \A p \in o..last : Log[p].valid

CommittedSinceSkip ==
    \A o \in 1..committed : ValidRun(o, committed) => RowOf(o) \in history

\* "commit count exceeds pending messages" (tag_value_handler.go:230) cannot
\* happen: the handler's list and the use case's buffer, kept apart and cut by
\* a count, always hold the same messages.
PendingMatchesBuffer ==
    IF pc = "commit" THEN flushed = Len(pending) /\ buffer = <<>>
    ELSE pending = buffer

\* What a viewer is shown, live or from the cache, is already in the history.
ShownIsPersisted ==
    \A t \in Tags :
        /\ lastValue[t] # 0 => <<t, lastValue[t]>> \in history
        /\ live[t] # 0 => <<t, live[t]>> \in history

\* An alarm event is about a reading that is in the history.
EventIsPersisted ==
    \A r \in Readings : events[r] > 0 => r \in history

\* The pipeline is a durable consumer: the readings in the history are what is
\* stored, the committed offset is what is acknowledged, and a message that does
\* not parse is skipped.  Crashes, retries and redelivery are stuttering or
\* repeated acknowledgements.
Durable == INSTANCE DurableConsumer WITH
    Last <- Len(Log),
    Unreadable <- {o \in Offsets : ~Log[o].valid},
    stored <- {o \in Offsets : Log[o].valid /\ RowOf(o) \in history},
    acknowledged <- committed

AtLeastOnce == Durable!FairSpec

\* The group catches up after finitely many faults: nothing stays uncommitted.
CatchesUp == <>[](committed = Len(Log))

=============================================================================
