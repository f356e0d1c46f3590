--------------------------- MODULE IngestPipeline ---------------------------
(***************************************************************************)
(* The tags.values consumer of ms-viewer: TagValueHandler.Run (fetch,      *)
(* flush ticker, retry, offset commit) around IngestUseCase (buffer,       *)
(* flushLocked).  One partition is modelled: a flush always commits all of *)
(* the pending messages, so partitions only meet in the batch.  The        *)
(* writer of tags.values sets no balancer and spreads the readings of a    *)
(* tag over the partitions: a reading may come after a later one.          *)
(*                                                                         *)
(* A message stands for its reading: the tag, the timestamp, the alarm     *)
(* state its value resolves to (AlarmEvaluator), or not parseable at all.  *)
(* The handler's goroutine is a program counter, so that a crash or a      *)
(* rebalance can fall between any two calls it makes to another system.    *)
(***************************************************************************)
EXTENDS Integers, Sequences, FiniteSetsExt, Functions

CONSTANTS
    Tags,
    Log,        \* the partition: offsets are 1..Len(Log)
    BatchSize,  \* IngestBatchSize
    MaxFaults,  \* bound: crashes, rebalances and failed alarm evaluations
    Rebalances  \* whether the consumer group is ever rebalanced

Message ==
    [valid : BOOLEAN, tag : Tags, ts : Nat, level : STRING]

ASSUME LogAssumption == Log \in Seq(Message)
ASSUME BatchSizeAssumption == BatchSize \in Nat \ {0}
ASSUME MaxFaultsAssumption == MaxFaults \in Nat
ASSUME RebalancesAssumption == Rebalances \in BOOLEAN

VARIABLES
    committed,  \* Kafka: the group's committed offset (the last one processed)
    position,   \* kafka-go reader: the next offset it hands out
    pc,         \* where Run is
    pending,    \* pendingMessages, as offsets
    buffer,     \* IngestUseCase.buffer, as offsets
    toEvaluate, \* tags of the batch the loop of ingestAlarms has left
    flushed,    \* the count flushLocked returned
    history,    \* rows of history.tag_values_raw: <<tag, ts>>
    lastValue,  \* Redis: ts of the last value per tag, 0 for none
    live,       \* realtime dispatcher: ts last published per tag, 0 for none
    alarmState, \* alarms.states per tag
    events,     \* alarms.events: how many were inserted per <<tag, ts>>
    faults

reader   == <<committed, position>>
handler  == <<pc, pending, buffer, toEvaluate, flushed>>
alarms   == <<alarmState, events>>
outputs  == <<history, lastValue, live, alarms>>
vars     == <<reader, handler, outputs, faults>>

Offsets == 1..Len(Log)
RowOf(o) == <<Log[o].tag, Log[o].ts>>
Readings == {RowOf(o) : o \in {p \in Offsets : Log[p].valid}}

TagsOf(s) == {Log[o].tag : o \in Range(s)}

\* latestByTag: the newest reading of a tag in the batch.
NewestTs(s, t) == Max({Log[o].ts : o \in {p \in Range(s) : Log[p].tag = t}})
Newest(s, t) ==
    CHOOSE o \in Range(s) : Log[o].tag = t /\ Log[o].ts = NewestTs(s, t)

\* One INSERT ... ON CONFLICT DO UPDATE with two rows of the same key is
\* rejected by PostgreSQL.
DistinctRows(s) ==
    \A i, j \in DOMAIN s : RowOf(s[i]) = RowOf(s[j]) => i = j

\* The rows of one INSERT (one per reading of the batch).
NewestOnly(s) == {<<t, NewestTs(s, t)>> : t \in TagsOf(s)}      \* mutant
AllButLast(s) == {RowOf(s[i]) : i \in 1..(Len(s) - 1)}          \* mutant
BatchRows(s) == {RowOf(o) : o \in Range(s)}

\* Where a reader that lost its position resumes.
KeepsPosition == position                                       \* mutant
OnCommitted == committed                                        \* mutant
ResumeAt == committed + 1

\* commitFirstPending: kafka-go commits the highest offset of the call, and the
\* committed messages are cut off the list.
LowestOf(s, n) == Min({s[i] : i \in 1..n})                      \* mutant
HighestOf(s, n) == Max({s[i] : i \in 1..n})
KeepsLast(s, n) == SubSeq(s, n, Len(s))                         \* mutant
Rest(s, n) == SubSeq(s, n + 1, Len(s))

Init ==
    /\ committed = 0
    /\ position = 1
    /\ pc = "select"
    /\ pending = <<>>
    /\ buffer = <<>>
    /\ toEvaluate = {}
    /\ flushed = 0
    /\ history = {}
    /\ lastValue = [t \in Tags |-> 0]
    /\ live = [t \in Tags |-> 0]
    /\ alarmState = [t \in Tags |-> "ok"]
    /\ events = [r \in Readings |-> 0]
    /\ faults = 0

-----------------------------------------------------------------------------
\* Run takes a parsed message: it joins the pending messages and the buffer,
\* and a full buffer is flushed at once.
TakeReading ==
    /\ pc = "select"
    /\ position \in Offsets
    /\ Log[position].valid
    /\ position' = position + 1
    /\ pending' = Append(pending, position)
    /\ buffer' = Append(buffer, position)
    /\ pc' = IF Len(buffer') < BatchSize THEN "select" ELSE "upsert"
    /\ UNCHANGED <<committed, toEvaluate, flushed, outputs, faults>>

\* A message that does not parse is committed on its own and skipped.
SkipUnparseable ==
    /\ pc = "select"
    /\ position \in Offsets
    /\ ~Log[position].valid
    /\ position' = position + 1
    /\ committed' = position
    /\ UNCHANGED <<handler, outputs, faults>>

\* The flush ticker, with something to flush.
TickerFlush ==
    /\ pc = "select"
    /\ buffer # <<>>
    /\ pc' = "upsert"
    /\ UNCHANGED <<reader, pending, buffer, toEvaluate, flushed, outputs, faults>>

\* flushLocked, UpsertRawValues.  While it fails the buffer is kept and
\* flushWithRetry calls again after the backoff: no state changes.
UpsertRows ==
    /\ pc = "upsert"
    /\ DistinctRows(buffer)
    /\ history' = history \cup BatchRows(buffer)
    /\ pc' = "cache"
    /\ UNCHANGED <<reader, pending, buffer, toEvaluate, flushed, lastValue, live, alarms, faults>>

\* updateLastValueCacheBestEffort: any of the writes may fail and is not retried.
UpdateCache ==
    /\ pc = "cache"
    /\ \E written \in SUBSET TagsOf(buffer) :
         lastValue' = [t \in Tags |-> IF t \in written THEN NewestTs(buffer, t)
                                      ELSE lastValue[t]]
    /\ toEvaluate' = TagsOf(buffer)
    /\ pc' = "alarms"
    /\ UNCHANGED <<reader, pending, buffer, flushed, history, live, alarms, faults>>

\* ingestAlarms, one turn of the loop over the map (in any order): the newest
\* reading of the tag, an event if it changes the alarm state.
EvaluateAlarm(t) ==
    LET o == Newest(buffer, t)
    IN  /\ pc = "alarms"
        /\ t \in toEvaluate
        /\ toEvaluate' = toEvaluate \ {t}
        /\ alarmState' = [alarmState EXCEPT ![t] = Log[o].level]
        /\ events' = IF Log[o].level = alarmState[t] THEN events
                     ELSE [events EXCEPT ![RowOf(o)] = @ + 1]
        /\ UNCHANGED <<reader, pc, pending, buffer, flushed, history, lastValue, live, faults>>

\* IngestValue fails: flushLocked returns the error before it clears the
\* buffer, and the whole batch is flushed again.
AlarmFails ==
    /\ pc = "alarms"
    /\ toEvaluate # {}
    /\ faults < MaxFaults
    /\ faults' = faults + 1
    /\ toEvaluate' = {}
    /\ pc' = "upsert"
    /\ UNCHANGED <<reader, pending, buffer, flushed, outputs>>

\* publishRealtimeBestEffort, then the buffer is cleared and its length returned.
PublishAndClear ==
    /\ pc = "alarms"
    /\ toEvaluate = {}
    /\ live' = [t \in Tags |-> IF t \in TagsOf(buffer) THEN NewestTs(buffer, t) ELSE live[t]]
    /\ flushed' = Len(buffer)
    /\ buffer' = <<>>
    /\ pc' = "commit"
    /\ UNCHANGED <<reader, pending, toEvaluate, history, lastValue, alarms, faults>>

\* commitFirstPending with the count of the flush.
CommitFirstPending ==
    /\ pc = "commit"
    /\ flushed <= Len(pending)
    /\ committed' = HighestOf(pending, flushed)
    /\ pending' = Rest(pending, flushed)
    /\ flushed' = 0
    /\ pc' = "select"
    /\ UNCHANGED <<position, buffer, toEvaluate, outputs, faults>>

\* The process dies, or Run returns (a failed fetch or commit, a shutdown,
\* whose flush fails on the cancelled context), and it is started again: what was
\* in memory is gone, the group resumes behind the committed offset.
Crash ==
    /\ faults < MaxFaults
    /\ faults' = faults + 1
    /\ position' = ResumeAt
    /\ pc' = "select"
    /\ pending' = <<>>
    /\ buffer' = <<>>
    /\ toEvaluate' = {}
    /\ flushed' = 0
    /\ UNCHANGED <<committed, outputs>>

\* The group is rebalanced while the process runs: the reader resumes behind
\* the committed offset, the handler's buffer is not told.
Rebalance ==
    /\ Rebalances
    /\ faults < MaxFaults
    /\ faults' = faults + 1
    /\ position' = ResumeAt
    /\ UNCHANGED <<committed, handler, outputs>>

Flush ==
    \/ UpsertRows
    \/ UpdateCache
    \/ \E t \in Tags : EvaluateAlarm(t)
    \/ PublishAndClear
    \/ CommitFirstPending

Fetch == TakeReading \/ SkipUnparseable

Next == Fetch \/ TickerFlush \/ Flush \/ AlarmFails \/ Crash \/ Rebalance

Spec == Init /\ [][Next]_vars

\* The goroutine keeps running, the broker hands out what there is, the ticker
\* fires, and the stores answer in the end (flushWithRetry never gives up).
Fairness == WF_vars(Fetch) /\ WF_vars(TickerFlush) /\ WF_vars(Flush)

FairSpec == Spec /\ Fairness

=============================================================================
