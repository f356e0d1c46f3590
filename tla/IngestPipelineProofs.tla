------------------------ MODULE IngestPipelineProofs ------------------------
(***************************************************************************)
(* Proofs about IngestPipeline, for every partition, batch size and number *)
(* of faults.  The inductive invariant says where a reading that the       *)
(* reader has passed can be: in the history, or still pending.             *)
(***************************************************************************)
EXTENDS IngestPipelineProps, FiniteSetTheorems, SequenceTheorems, WellFoundedInduction, TLAPS

\* A function from a non-empty finite set to the integers takes a greatest value.
LEMMA GreatestExists ==
    ASSUME NEW S, IsFiniteSet(S), S # {}, NEW f \in [S -> Int]
    PROVE  \E x \in S : \A y \in S : f[y] <= f[x]
<1> DEFINE Above(x) == {y \in S : f[y] >= f[x]}
           T == {Above(x) : x \in S}
<1>1. IsWellFoundedOn(StrictSubsetOrdering(S), SUBSET S)
  BY FS_StrictSubsetOrderingWellFounded, FS_FiniteSubsetsOfFinite
<1>2. T \subseteq SUBSET S /\ T # {}
  <2>1. \A x \in S : Above(x) \in SUBSET S
    OBVIOUS
  <2>2. PICK x \in S : TRUE
    OBVIOUS
  <2>3. Above(x) \in T
    BY <2>2
  <2> QED BY <2>1, <2>3
<1>3. PICK A \in T : \A B \in T : ~(<<B, A>> \in StrictSubsetOrdering(S))
  <2> HIDE DEF T
  <2> QED BY <1>1, <1>2, WFMin
<1>4. PICK x \in S : A = Above(x)
  OBVIOUS
<1>5. ASSUME NEW y \in S, ~(f[y] <= f[x])
      PROVE  FALSE
  <2>1. Above(y) \in T /\ Above(y) \subseteq S /\ A \subseteq S
    BY <1>4
  <2>2. Above(y) \subseteq A
    BY <1>4, <1>5
  <2>3. x \in A /\ x \notin Above(y)
    BY <1>4, <1>5
  <2>4. <<Above(y), A>> \in StrictSubsetOrdering(S)
    BY <2>1, <2>2, <2>3 DEF StrictSubsetOrdering
  <2> QED BY <1>3, <2>1, <2>4
<1> QED BY <1>5

\* The batch is a finite set of offsets.
LEMMA RangeOfBatch ==
    ASSUME NEW s \in Seq(Offsets)
    PROVE  Range(s) \subseteq Offsets /\ IsFiniteSet(Range(s))
<1>1. Range(s) \subseteq Offsets
  BY DEF Range
<1>2. IsFiniteSet(Offsets)
  BY FS_Interval, LogAssumption DEF Offsets
<1> QED BY <1>1, <1>2, FS_Subset

\* The highest offset of a non-empty batch is one of it.
LEMMA HighestOfAll ==
    ASSUME NEW s \in Seq(Offsets), s # <<>>
    PROVE  /\ HighestOf(s, Len(s)) \in Range(s)
           /\ \A o \in Range(s) : o <= HighestOf(s, Len(s))
<1>1. {s[i] : i \in 1..Len(s)} = Range(s)
  BY DEF Range
<1>2. Range(s) # {} /\ Range(s) \subseteq Int
  <2>1. s[1] \in Range(s)
    BY DEF Range
  <2>2. Offsets \subseteq Int
    BY DEF Offsets
  <2> QED BY <2>1, <2>2, RangeOfBatch
<1>3. PICK f : f = [o \in Range(s) |-> o]
  OBVIOUS
<1>4. f \in [Range(s) -> Int]
  BY <1>2, <1>3
<1>5. \E x \in Range(s) : \A y \in Range(s) : x >= y
  BY <1>2, <1>3, <1>4, RangeOfBatch, GreatestExists
<1> QED BY <1>1, <1>2, <1>5 DEF HighestOf, Max

\* The newest timestamp of a tag in a batch is that of a reading of the batch.
LEMMA NewestInBatch ==
    ASSUME NEW s \in Seq(Offsets), NEW t \in TagsOf(s)
    PROVE  /\ NewestTs(s, t) \in Nat
           /\ Newest(s, t) \in Range(s)
           /\ RowOf(Newest(s, t)) = <<t, NewestTs(s, t)>>
<1> DEFINE O == {p \in Range(s) : Log[p].tag = t}
           TS == {Log[o].ts : o \in O}
<1>1. /\ Range(s) \subseteq Offsets
      /\ O \subseteq Range(s)
      /\ \A o \in Offsets : Log[o] \in Message
  BY RangeOfBatch, LogAssumption DEF Offsets
<1>2. IsFiniteSet(O)
  BY RangeOfBatch, FS_Subset
<1>3. O # {}
  BY DEF TagsOf
<1>4. \A o \in O : Log[o].ts \in Nat
  BY <1>1 DEF Message
<1>5. PICK f : f = [o \in O |-> Log[o].ts]
  OBVIOUS
<1>6. f \in [O -> Int]
  BY <1>4, <1>5
<1>7. \E x \in O : \A y \in O : f[y] <= f[x]
  <2> HIDE DEF O
  <2> QED BY <1>2, <1>3, <1>6, GreatestExists
<1>8. \E x \in TS : \A y \in TS : x >= y
  BY <1>4, <1>5, <1>7
<1>9. NewestTs(s, t) \in TS
  BY <1>8 DEF NewestTs, Max
<1>10. \E o \in Range(s) : Log[o].tag = t /\ Log[o].ts = NewestTs(s, t)
  BY <1>9
<1>11. /\ Newest(s, t) \in Range(s)
       /\ Log[Newest(s, t)].tag = t
       /\ Log[Newest(s, t)].ts = NewestTs(s, t)
  BY <1>10 DEF Newest
<1> QED BY <1>4, <1>9, <1>11 DEF RowOf

-----------------------------------------------------------------------------
(* The invariants that hold of every partition. *)

\* The buffer holds parsed readings, the loop of ingestAlarms runs over its tags.
BatchInv ==
    /\ \A o \in Range(buffer) : Log[o].valid
    /\ toEvaluate \subseteq TagsOf(buffer)

\* How far a flush has come says what is already in the history.
StageInv ==
    /\ pc \in {"upsert", "cache", "alarms"} => buffer # <<>>
    /\ pc \in {"cache", "alarms"} => \A o \in Range(buffer) : RowOf(o) \in history
    /\ pc = "commit" =>
         /\ pending # <<>>
         /\ \A o \in Range(pending) : Log[o].valid /\ RowOf(o) \in history

Inv ==
    /\ TypeOK
    /\ PendingMatchesBuffer
    /\ BatchInv
    /\ StageInv
    /\ ShownIsPersisted
    /\ EventIsPersisted

USE DEF reader, handler, alarms, outputs, vars

LEMMA MessageType ==
    /\ Len(Log) \in Nat
    /\ \A o \in Offsets : /\ Log[o].tag \in Tags
                          /\ Log[o].ts \in Nat
                          /\ Log[o].valid => RowOf(o) \in Readings
<1>1. Len(Log) \in Nat
  BY LogAssumption
<1>2. \A o \in Offsets : Log[o] \in Message
  BY LogAssumption DEF Offsets
<1>3. \A o \in Offsets : Log[o].valid => RowOf(o) \in Readings
  BY DEF Readings
<1> QED BY <1>1, <1>2, <1>3 DEF Message

LEMMA TagsOfBatch ==
    ASSUME NEW s \in Seq(Offsets)
    PROVE  TagsOf(s) \subseteq Tags
BY RangeOfBatch, MessageType DEF TagsOf

LEMMA InitInv == Init => Inv
<1> SUFFICES ASSUME Init PROVE Inv
  OBVIOUS
<1> USE DEF Init
<1>1. TypeOK
  <2>1. <<>> \in Seq(Offsets) /\ Len(Log) \in Nat
    BY MessageType
  <2>2. lastValue \in [Tags -> Nat] /\ live \in [Tags -> Nat]
    OBVIOUS
  <2>3. alarmState \in [Tags -> {"ok"} \cup {Log[o].level : o \in Offsets}]
    OBVIOUS
  <2>4. events \in [Readings -> Nat]
    OBVIOUS
  <2> QED BY <2>1, <2>2, <2>3, <2>4, MaxFaultsAssumption DEF TypeOK
<1>2. PendingMatchesBuffer /\ StageInv
  BY DEF PendingMatchesBuffer, StageInv
<1>3. BatchInv
  BY DEF BatchInv, Range
<1>4. ShownIsPersisted /\ EventIsPersisted
  BY DEF ShownIsPersisted, EventIsPersisted
<1> QED BY <1>1, <1>2, <1>3, <1>4 DEF Inv

\* A message taken from the reader is appended to both lists.
LEMMA AppendToBatch ==
    ASSUME NEW s \in Seq(Offsets), NEW o \in Offsets
    PROVE  /\ Append(s, o) \in Seq(Offsets)
           /\ Append(s, o) # <<>>
           /\ Range(Append(s, o)) = Range(s) \cup {o}
<1> DEFINE a == Append(s, o)
<1>1. /\ a \in Seq(Offsets) /\ a # <<>>
      /\ Len(a) = Len(s) + 1
      /\ \A i \in 1..Len(s) : a[i] = s[i]
      /\ a[Len(s) + 1] = o
  BY AppendProperties
<1>2. DOMAIN a = 1..(Len(s) + 1) /\ DOMAIN s = 1..Len(s) /\ Len(s) \in Nat
  BY <1>1
<1>3. ASSUME NEW x \in Range(a) PROVE x \in Range(s) \cup {o}
  BY <1>1, <1>2, <1>3 DEF Range
<1>4. ASSUME NEW x \in Range(s) \cup {o} PROVE x \in Range(a)
  BY <1>1, <1>2, <1>4 DEF Range
<1> QED BY <1>1, <1>3, <1>4

LEMMA TakeReadingInv == Inv /\ TakeReading => Inv'
<1> SUFFICES ASSUME Inv, TakeReading PROVE Inv'
  OBVIOUS
<1> USE DEF TakeReading, Inv
<1>1. /\ position \in Offsets /\ Log[position].valid /\ pc = "select"
      /\ pending = buffer /\ buffer \in Seq(Offsets)
  BY DEF TypeOK, PendingMatchesBuffer
<1>2. /\ buffer' \in Seq(Offsets) /\ buffer' # <<>>
      /\ pending' = buffer'
      /\ Range(buffer') = Range(buffer) \cup {position}
  BY <1>1, AppendToBatch
<1>3. TypeOK'
  BY <1>1, <1>2, MessageType DEF TypeOK, Offsets
<1>4. PendingMatchesBuffer' /\ StageInv'
  BY <1>1, <1>2 DEF PendingMatchesBuffer, StageInv
<1>5. BatchInv'
  BY <1>1, <1>2 DEF BatchInv, TagsOf
<1>6. ShownIsPersisted' /\ EventIsPersisted'
  BY DEF ShownIsPersisted, EventIsPersisted
<1> QED BY <1>3, <1>4, <1>5, <1>6

LEMMA SkipUnparseableInv == Inv /\ SkipUnparseable => Inv'
<1> SUFFICES ASSUME Inv, SkipUnparseable PROVE Inv'
  OBVIOUS
<1> USE DEF SkipUnparseable, Inv
<1>1. TypeOK'
  BY MessageType DEF TypeOK, Offsets
<1>2. PendingMatchesBuffer' /\ StageInv' /\ BatchInv'
  BY DEF PendingMatchesBuffer, StageInv, BatchInv, TagsOf
<1>3. ShownIsPersisted' /\ EventIsPersisted'
  BY DEF ShownIsPersisted, EventIsPersisted
<1> QED BY <1>1, <1>2, <1>3

LEMMA TickerFlushInv == Inv /\ TickerFlush => Inv'
<1> SUFFICES ASSUME Inv, TickerFlush PROVE Inv'
  OBVIOUS
<1> USE DEF TickerFlush, Inv
<1>1. TypeOK'
  BY DEF TypeOK
<1>2. PendingMatchesBuffer' /\ StageInv' /\ BatchInv'
  BY DEF PendingMatchesBuffer, StageInv, BatchInv, TagsOf
<1>3. ShownIsPersisted' /\ EventIsPersisted'
  BY DEF ShownIsPersisted, EventIsPersisted
<1> QED BY <1>1, <1>2, <1>3

\* The INSERT persists every row of the batch.
LEMMA UpsertRowsInv == Inv /\ UpsertRows => Inv'
<1> SUFFICES ASSUME Inv, UpsertRows PROVE Inv'
  OBVIOUS
<1> USE DEF UpsertRows, Inv
<1>1. Range(buffer) \subseteq Offsets /\ \A o \in Range(buffer) : Log[o].valid
  BY RangeOfBatch DEF TypeOK, BatchInv
<1>2. BatchRows(buffer) \subseteq Readings
  BY <1>1, MessageType DEF BatchRows
<1>3. TypeOK'
  BY <1>2 DEF TypeOK
<1>4. PendingMatchesBuffer' /\ BatchInv'
  BY DEF PendingMatchesBuffer, BatchInv, TagsOf
<1>5. StageInv'
  BY DEF StageInv, BatchRows, RowOf
<1>6. ShownIsPersisted' /\ EventIsPersisted'
  BY DEF ShownIsPersisted, EventIsPersisted
<1> QED BY <1>3, <1>4, <1>5, <1>6

LEMMA UpdateCacheInv == Inv /\ UpdateCache => Inv'
<1> SUFFICES ASSUME Inv, UpdateCache PROVE Inv'
  OBVIOUS
<1> USE DEF UpdateCache, Inv
<1>1. buffer \in Seq(Offsets) /\ TagsOf(buffer) \subseteq Tags
  BY TagsOfBatch DEF TypeOK
<1>2. PICK written \in SUBSET TagsOf(buffer) :
        lastValue' = [t \in Tags |-> IF t \in written THEN NewestTs(buffer, t)
                                     ELSE lastValue[t]]
  OBVIOUS
<1>3. \A t \in written : NewestTs(buffer, t) \in Nat
  BY <1>1, <1>2, NewestInBatch
<1>4. TypeOK'
  <2>1. lastValue' \in [Tags -> Nat]
    BY <1>2, <1>3 DEF TypeOK
  <2> QED BY <1>1, <2>1 DEF TypeOK
<1>5. PendingMatchesBuffer' /\ StageInv'
  BY DEF PendingMatchesBuffer, StageInv
<1>6. BatchInv'
  BY DEF BatchInv, TagsOf
<1>7. ShownIsPersisted'
  <2>1. ASSUME NEW t \in written
        PROVE  <<t, NewestTs(buffer, t)>> \in history
    BY <1>1, NewestInBatch DEF StageInv
  <2> QED BY <1>2, <2>1 DEF ShownIsPersisted
<1>8. EventIsPersisted'
  BY DEF EventIsPersisted
<1> QED BY <1>4, <1>5, <1>6, <1>7, <1>8

LEMMA EvaluateAlarmInv == ASSUME NEW t \in Tags PROVE Inv /\ EvaluateAlarm(t) => Inv'
<1> SUFFICES ASSUME Inv, EvaluateAlarm(t) PROVE Inv'
  OBVIOUS
<1> DEFINE o == Newest(buffer, t)
<1> USE DEF EvaluateAlarm, Inv
<1>1. buffer \in Seq(Offsets) /\ t \in TagsOf(buffer)
  BY DEF TypeOK, BatchInv
<1>2. o \in Range(buffer) /\ o \in Offsets /\ Log[o].valid
  BY <1>1, NewestInBatch, RangeOfBatch DEF BatchInv
<1>3. RowOf(o) \in Readings /\ RowOf(o) \in history
  BY <1>2, MessageType DEF StageInv
<1> HIDE DEF o
<1>4. /\ alarmState' = [alarmState EXCEPT ![t] = Log[o].level]
      /\ events' = IF Log[o].level = alarmState[t] THEN events
                   ELSE [events EXCEPT ![RowOf(o)] = @ + 1]
  BY DEF o
<1>5. TypeOK'
  <2>1. /\ events' \in [Readings -> Nat]
        /\ alarmState' \in [Tags -> {"ok"} \cup {Log[p].level : p \in Offsets}]
    <3>1. /\ events \in [Readings -> Nat]
          /\ alarmState \in [Tags -> {"ok"} \cup {Log[p].level : p \in Offsets}]
      BY DEF TypeOK
    <3>2. [events EXCEPT ![RowOf(o)] = @ + 1] \in [Readings -> Nat]
      BY <3>1, <1>3
    <3> QED BY <3>1, <3>2, <1>2, <1>4
  <2> QED BY <2>1 DEF TypeOK
<1>6. PendingMatchesBuffer' /\ StageInv'
  BY DEF PendingMatchesBuffer, StageInv
<1>7. BatchInv' /\ ShownIsPersisted'
  BY DEF BatchInv, TagsOf, ShownIsPersisted
<1>8. EventIsPersisted'
  BY <1>3, <1>4 DEF EventIsPersisted, TypeOK
<1> QED BY <1>5, <1>6, <1>7, <1>8

LEMMA AlarmFailsInv == Inv /\ AlarmFails => Inv'
<1> SUFFICES ASSUME Inv, AlarmFails PROVE Inv'
  OBVIOUS
<1> USE DEF AlarmFails, Inv
<1>1. TypeOK'
  BY MaxFaultsAssumption DEF TypeOK
<1>2. PendingMatchesBuffer' /\ StageInv' /\ BatchInv'
  BY DEF PendingMatchesBuffer, StageInv, BatchInv, TagsOf
<1>3. ShownIsPersisted' /\ EventIsPersisted'
  BY DEF ShownIsPersisted, EventIsPersisted
<1> QED BY <1>1, <1>2, <1>3

LEMMA PublishAndClearInv == Inv /\ PublishAndClear => Inv'
<1> SUFFICES ASSUME Inv, PublishAndClear PROVE Inv'
  OBVIOUS
<1> USE DEF PublishAndClear, Inv
<1>1. buffer \in Seq(Offsets) /\ pending = buffer /\ buffer # <<>>
  BY DEF TypeOK, PendingMatchesBuffer, StageInv
<1>2. ASSUME NEW t \in TagsOf(buffer)
      PROVE  NewestTs(buffer, t) \in Nat /\ <<t, NewestTs(buffer, t)>> \in history
  BY <1>1, NewestInBatch DEF StageInv
<1>3. TypeOK'
  <2>1. live' \in [Tags -> Nat]
    BY <1>2 DEF TypeOK
  <2>2. <<>> \in Seq(Offsets) /\ Len(buffer) \in Nat
    BY <1>1
  <2> QED BY <2>1, <2>2 DEF TypeOK
<1>4. PendingMatchesBuffer' /\ StageInv'
  BY <1>1 DEF PendingMatchesBuffer, BatchInv, StageInv, RowOf
<1>5. BatchInv'
  BY DEF BatchInv, TagsOf, Range
<1>6. ShownIsPersisted' /\ EventIsPersisted'
  BY <1>2 DEF ShownIsPersisted, EventIsPersisted
<1> QED BY <1>3, <1>4, <1>5, <1>6

\* The committed offset is one of the pending ones, and all of them are cut off.
LEMMA CommitFirstPendingInv == Inv /\ CommitFirstPending => Inv'
<1> SUFFICES ASSUME Inv, CommitFirstPending PROVE Inv'
  OBVIOUS
<1> USE DEF CommitFirstPending, Inv
<1>1. pending \in Seq(Offsets) /\ pending # <<>> /\ flushed = Len(pending) /\ buffer = <<>>
  BY DEF TypeOK, PendingMatchesBuffer, StageInv
<1>2. committed' \in Offsets
  BY <1>1, HighestOfAll, RangeOfBatch
<1>3. pending' = <<>>
  BY <1>1, SubSeqEmpty DEF Rest
<1>4. TypeOK'
  BY <1>1, <1>2, <1>3 DEF TypeOK, Offsets
<1>5. PendingMatchesBuffer' /\ StageInv'
  BY <1>1, <1>3 DEF PendingMatchesBuffer, StageInv
<1>6. BatchInv' /\ ShownIsPersisted' /\ EventIsPersisted'
  BY DEF BatchInv, TagsOf, ShownIsPersisted, EventIsPersisted
<1> QED BY <1>4, <1>5, <1>6

LEMMA CrashInv == Inv /\ Crash => Inv'
<1> SUFFICES ASSUME Inv, Crash PROVE Inv'
  OBVIOUS
<1> USE DEF Crash, Inv, ResumeAt
<1>1. TypeOK'
  BY MaxFaultsAssumption, MessageType DEF TypeOK
<1>2. PendingMatchesBuffer' /\ StageInv'
  BY DEF PendingMatchesBuffer, StageInv
<1>3. BatchInv'
  BY DEF BatchInv, Range
<1>4. ShownIsPersisted' /\ EventIsPersisted'
  BY DEF ShownIsPersisted, EventIsPersisted
<1> QED BY <1>1, <1>2, <1>3, <1>4

LEMMA RebalanceInv == Inv /\ Rebalance => Inv'
<1> SUFFICES ASSUME Inv, Rebalance PROVE Inv'
  OBVIOUS
<1> USE DEF Rebalance, Inv, ResumeAt
<1>1. TypeOK'
  BY MaxFaultsAssumption, MessageType DEF TypeOK
<1>2. PendingMatchesBuffer' /\ StageInv' /\ BatchInv'
  BY DEF PendingMatchesBuffer, StageInv, BatchInv, TagsOf
<1>3. ShownIsPersisted' /\ EventIsPersisted'
  BY DEF ShownIsPersisted, EventIsPersisted
<1> QED BY <1>1, <1>2, <1>3

LEMMA StutterInv == Inv /\ UNCHANGED vars => Inv'
BY DEF Inv, TypeOK, PendingMatchesBuffer, BatchInv, StageInv, TagsOf,
       ShownIsPersisted, EventIsPersisted

LEMMA Inductive == Spec => []Inv
<1>1. Inv /\ [Next]_vars => Inv'
  BY TakeReadingInv, SkipUnparseableInv, TickerFlushInv, UpsertRowsInv, UpdateCacheInv,
     EvaluateAlarmInv, AlarmFailsInv, PublishAndClearInv, CommitFirstPendingInv,
     CrashInv, RebalanceInv, StutterInv DEF Next, Fetch, Flush
<1> QED BY InitInv, <1>1, PTL DEF Spec

\* The state of the pipeline is well typed: a commit never leaves the partition
\* and the reader never runs past it.
THEOREM TypeCorrect == Spec => []TypeOK
<1>1. Inv => TypeOK
  BY DEF Inv
<1> QED BY Inductive, <1>1, PTL

\* The handler's list and the use case's buffer always agree, so that
\* commitFirstPending never fails, through crashes and rebalances.
THEOREM PendingCorrect == Spec => []PendingMatchesBuffer
<1>1. Inv => PendingMatchesBuffer
  BY DEF Inv
<1> QED BY Inductive, <1>1, PTL

\* No value is in the cache or published to viewers before the reading is in
\* the history, whichever of the writes of a flush fails or is cut off.
THEOREM PersistedBeforeShown == Spec => []ShownIsPersisted
<1>1. Inv => ShownIsPersisted
  BY DEF Inv
<1> QED BY Inductive, <1>1, PTL

\* Alarms are evaluated, and their events inserted, only for readings that are
\* in the history by then.
THEOREM PersistedBeforeAlarm == Spec => []EventIsPersisted
<1>1. Inv => EventIsPersisted
  BY DEF Inv
<1> QED BY Inductive, <1>1, PTL

-----------------------------------------------------------------------------
(* At least once.  A message that does not parse is committed by itself over *)
(* the readings still buffered before it (tag_value_handler.go:120-130, and  *)
(* the run IngestPipeline_unparseable), so the guarantee is for the readings *)
(* after the last such message.                                              *)

\* The offset o belongs to an unbroken run of readings up to one the reader is
\* past, that is pending or that is committed.
Passed(o) ==
    \E last \in {position - 1, committed} \cup Range(pending) : o <= last /\ ValidRun(o, last)

Kept(o) == RowOf(o) \in history \/ o \in Range(pending)

NothingLost == \A o \in Offsets : Passed(o) => Kept(o)

AtLeastOnceInv == Inv /\ NothingLost /\ CommittedSinceSkip

LEMMA NothingLostStep ==
    AtLeastOnceInv /\ [Next]_vars => (NothingLost /\ CommittedSinceSkip)'
<1> SUFFICES ASSUME AtLeastOnceInv, [Next]_vars
             PROVE  (NothingLost /\ CommittedSinceSkip)'
  OBVIOUS
<1> USE DEF AtLeastOnceInv
<1>0. /\ pending \in Seq(Offsets) /\ Range(pending) \subseteq Offsets
      /\ committed \in 0..Len(Log) /\ position \in 1..(Len(Log) + 1)
      /\ Len(Log) \in Nat
  BY RangeOfBatch, MessageType DEF Inv, TypeOK
<1>1. CASE TakeReading
  <2>1. /\ Range(pending') = Range(pending) \cup {position}
        /\ position' = position + 1
        /\ UNCHANGED <<committed, history>>
    BY <1>0, <1>1, AppendToBatch DEF TakeReading
  <2>2. ASSUME NEW o \in Offsets, Passed(o)' PROVE Passed(o) \/ o = position
    <3>1. PICK last \in {position, committed} \cup Range(pending) : o <= last /\ ValidRun(o, last)
      BY <1>0, <2>1, <2>2 DEF Passed, ValidRun
    <3>2. CASE last = position /\ o # position
      <4>1. o <= position - 1 /\ ValidRun(o, position - 1)
        BY <1>0, <3>1, <3>2 DEF ValidRun, Offsets
      <4> QED BY <4>1 DEF Passed
    <3> QED BY <3>1, <3>2 DEF Passed
  <2> QED BY <2>1, <2>2 DEF NothingLost, Kept, CommittedSinceSkip, ValidRun, RowOf
<1>2. CASE SkipUnparseable
  <2>1. /\ position \in Offsets /\ ~Log[position].valid
        /\ position' = position + 1 /\ committed' = position
        /\ UNCHANGED <<pending, history>>
    BY <1>2 DEF SkipUnparseable, handler, outputs
  <2>2. \A o \in Offsets : o <= position => ~ValidRun(o, position)
    BY <1>0, <2>1 DEF ValidRun, Offsets
  <2>3. \A o \in Offsets : Passed(o)' => Passed(o)
    BY <1>0, <2>1, <2>2 DEF Passed, ValidRun
  <2> QED BY <1>0, <2>1, <2>2, <2>3 DEF NothingLost, Kept, CommittedSinceSkip, ValidRun, RowOf, Offsets
<1>3. CASE TickerFlush
  BY <1>3 DEF TickerFlush, NothingLost, Passed, Kept, CommittedSinceSkip, ValidRun, RowOf
<1>4. CASE UpsertRows
  <2>1. history \subseteq history' /\ UNCHANGED <<committed, position, pending>>
    BY <1>4 DEF UpsertRows
  <2> QED BY <2>1 DEF NothingLost, Passed, Kept, CommittedSinceSkip, ValidRun, RowOf
<1>5. CASE UpdateCache \/ AlarmFails \/ PublishAndClear \/ \E t \in Tags : EvaluateAlarm(t)
  <2>1. UNCHANGED <<committed, position, pending, history>>
    BY <1>5 DEF UpdateCache, AlarmFails, PublishAndClear, EvaluateAlarm
  <2> QED BY <2>1 DEF NothingLost, Passed, Kept, CommittedSinceSkip, ValidRun, RowOf
<1>6. CASE CommitFirstPending
  <2>1. /\ pending # <<>> /\ flushed = Len(pending)
        /\ \A o \in Range(pending) : RowOf(o) \in history
        /\ UNCHANGED <<position, history>>
    BY <1>6 DEF CommitFirstPending, Inv, PendingMatchesBuffer, StageInv
  <2>2. committed' \in Range(pending)
    BY <1>0, <1>6, <2>1, HighestOfAll DEF CommitFirstPending
  <2>3. \A o \in Offsets : Passed(o) => RowOf(o) \in history
    BY <2>1 DEF NothingLost, Kept
  <2>4. pending' = <<>>
    BY <1>0, <1>6, <2>1, SubSeqEmpty DEF CommitFirstPending, Rest
  <2>5. Range(pending') = {}
    BY <2>4 DEF Range
  <2>6. \A o \in Offsets : Passed(o)' => Passed(o)
    BY <2>1, <2>2, <2>5 DEF Passed, ValidRun
  <2>7. \A o \in 1..committed' : o \in Offsets /\ (ValidRun(o, committed') => Passed(o))
    BY <1>0, <2>2 DEF Passed, Offsets
  <2>8. CommittedSinceSkip'
    BY <2>1, <2>3, <2>7 DEF CommittedSinceSkip, ValidRun, RowOf
  <2>9. NothingLost'
    BY <2>1, <2>3, <2>6 DEF NothingLost, Kept, RowOf
  <2> QED BY <2>8, <2>9
<1>7. CASE Crash \/ Rebalance
  <2>1. /\ position' = committed + 1
        /\ UNCHANGED <<committed, history>>
        /\ pending' = <<>> \/ pending' = pending
    BY <1>7 DEF Crash, Rebalance, ResumeAt
  <2>2. ASSUME NEW o \in Offsets, o <= committed, ValidRun(o, committed)
        PROVE  RowOf(o) \in history
    BY <1>0, <2>2 DEF CommittedSinceSkip, Offsets
  <2>3. ASSUME NEW o \in Offsets, Passed(o)' PROVE Kept(o)'
    <3>1. PICK last \in {committed} \cup Range(pending') : o <= last /\ ValidRun(o, last)
      BY <1>0, <2>1, <2>3 DEF Passed, ValidRun
    <3>2. CASE last = committed
      BY <2>1, <2>2, <3>1, <3>2 DEF Kept, RowOf
    <3>3. CASE last \in Range(pending')
      <4>1. pending' = pending
        BY <2>1, <3>3 DEF Range
      <4>2. Passed(o)
        BY <3>1, <3>3, <4>1 DEF Passed
      <4> QED BY <2>1, <4>1, <4>2 DEF NothingLost, Kept, RowOf
    <3> QED BY <3>1, <3>2, <3>3
  <2> QED BY <2>1, <2>3 DEF NothingLost, CommittedSinceSkip, ValidRun, RowOf
<1>8. CASE UNCHANGED vars
  BY <1>8 DEF NothingLost, Passed, Kept, CommittedSinceSkip, ValidRun, RowOf
<1> QED BY <1>1, <1>2, <1>3, <1>4, <1>5, <1>6, <1>7, <1>8 DEF Next, Fetch, Flush

LEMMA AtLeastOnceInductive == Spec => []AtLeastOnceInv
<1>1. Init => NothingLost /\ CommittedSinceSkip
  <2> SUFFICES ASSUME Init PROVE NothingLost /\ CommittedSinceSkip
    OBVIOUS
  <2>1. Range(pending) = {}
    BY DEF Init, Range
  <2>2. \A o \in Offsets : ~Passed(o)
    BY <2>1 DEF Init, Passed, Offsets
  <2>3. committed = 0
    BY DEF Init
  <2> QED BY <2>2, <2>3 DEF NothingLost, CommittedSinceSkip
<1>2. NothingLost /\ CommittedSinceSkip /\ Inv /\ [Next]_vars
      => (NothingLost /\ CommittedSinceSkip)'
  BY NothingLostStep DEF AtLeastOnceInv
<1>3. Inv /\ NothingLost /\ CommittedSinceSkip => AtLeastOnceInv
  BY DEF AtLeastOnceInv
<1> QED BY <1>1, <1>2, <1>3, Inductive, PTL DEF Spec

\* Of the readings since the last message that does not parse none is committed
\* before it is in the history, whatever crashes and rebalances happen.
THEOREM CommittedSinceSkipCorrect == Spec => []CommittedSinceSkip
<1>1. AtLeastOnceInv => CommittedSinceSkip
  BY DEF AtLeastOnceInv
<1> QED BY AtLeastOnceInductive, <1>1, PTL

Stored == {o \in Offsets : Log[o].valid /\ RowOf(o) \in history}

\* The pipeline implements the durable consumer (its safety part), on every
\* partition, whatever crashes, retries and rebalances happen: a commit after a
\* flush acknowledges stored readings only, and what is let go of unstored is let
\* go of by a message that does not parse (tag_value_handler.go:115-131).
THEOREM Refinement == Spec => Durable!Spec
<1>1. Init => Durable!Init
  BY DEF Init, Durable!Init
<1>2. AtLeastOnceInv /\ AtLeastOnceInv' /\ [Next]_vars => [Durable!Next]_Durable!vars
  <2> SUFFICES ASSUME AtLeastOnceInv, AtLeastOnceInv', [Next]_vars
               PROVE  [Durable!Next]_Durable!vars
    OBVIOUS
  <2> USE DEF Stored
  <2>1. CASE UpsertRows
    <3>1. UNCHANGED committed /\ Stored \subseteq Stored'
      BY <2>1 DEF UpsertRows, RowOf
    <3>2. Stored' \subseteq (1..Len(Log)) \ {o \in Offsets : ~Log[o].valid}
      BY DEF Offsets
    <3>3. CASE Stored' = Stored
      BY <3>1, <3>3 DEF Durable!vars
    <3>4. CASE Stored' # Stored
      BY <3>1, <3>2, <3>4 DEF Durable!Next, Durable!Store
    <3> QED BY <3>3, <3>4
  <2>2. CASE SkipUnparseable
    <3>1. UNCHANGED history /\ committed' = position
      BY <2>2 DEF SkipUnparseable
    <3>2. committed' \in {o \in Offsets : ~Log[o].valid}
      BY <2>2 DEF SkipUnparseable
    <3>3. UNCHANGED Stored
      BY <3>1 DEF RowOf
    <3> QED BY <3>2, <3>3 DEF Durable!Next, Durable!Skip
  <2>3. CASE CommitFirstPending
    <3>1. /\ pending \in Seq(Offsets) /\ pending # <<>> /\ flushed = Len(pending)
          /\ UNCHANGED history
      BY <2>3 DEF CommitFirstPending, AtLeastOnceInv, Inv, TypeOK, PendingMatchesBuffer, StageInv
    <3>2. committed' \in Range(pending)
      BY <2>3, <3>1, HighestOfAll DEF CommitFirstPending
    <3>3. committed' \in Offsets /\ Log[committed'].valid
      BY <2>3, <3>1, <3>2, RangeOfBatch DEF AtLeastOnceInv, Inv, StageInv, CommitFirstPending
    <3>4. \A o \in 1..committed' : ValidRun(o, committed') => RowOf(o) \in history'
      BY DEF AtLeastOnceInv, CommittedSinceSkip, RowOf
    <3>5. ASSUME NEW o \in Durable!SinceSkip(committed')
          PROVE  o \in Stored
      <4>1. o \in Offsets /\ ValidRun(o, committed') /\ o \in 1..committed'
        BY <3>3, <3>5 DEF Durable!SinceSkip, ValidRun, Offsets
      <4>2. Log[o].valid
        BY <4>1, <3>3 DEF ValidRun, Offsets
      <4> QED BY <3>1, <3>4, <4>1, <4>2
    <3>6. committed' \in Durable!SinceSkip(committed')
      BY <3>3 DEF Durable!SinceSkip, Offsets
    <3>7. UNCHANGED Stored
      BY <3>1 DEF RowOf
    <3> QED BY <3>5, <3>6, <3>7 DEF Durable!Next, Durable!Acknowledge
  <2>4. CASE ~UpsertRows /\ ~SkipUnparseable /\ ~CommitFirstPending
    <3>1. UNCHANGED <<history, committed>>
      BY <2>4 DEF Next, Fetch, Flush, TakeReading, TickerFlush, UpdateCache, EvaluateAlarm,
                  AlarmFails, PublishAndClear, Crash, Rebalance
    <3> QED BY <3>1 DEF Durable!vars, RowOf
  <2> QED BY <2>1, <2>2, <2>3, <2>4
<1> QED BY <1>1, <1>2, AtLeastOnceInductive, PTL DEF Spec, Durable!Spec

=============================================================================
