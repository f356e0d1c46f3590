-------------------------- MODULE AlarmEngineProofs --------------------------
(***************************************************************************)
(* Proofs about AlarmEngine, for every set of tags, readings and setpoints, *)
(* with all actors, failures and crashes, and with calls of IngestValue     *)
(* that overlap: types, the event history, the alarms that have been        *)
(* reported, and the setpoints.                                             *)
(* The last part is about one tag under an arbitrary signal (AlarmTag).     *)
(***************************************************************************)
EXTENDS AlarmEngine, AlarmTag, SequenceTheorems, TLAPS

USE DEF tables, configs, counters, calls, missed, vars

LEMMA EvaluateType ==
    ASSUME NEW prev \in AlarmStates, NEW v, NEW q \in Qualities, NEW s
    PROVE  Evaluate(prev, v, q, s) \in AlarmStates
BY DEF Evaluate, Resolve, AlarmStates, HighStates, LowStates, QualityStates, Qualities

LEMMA SetpointsType ==
    /\ NoSetpoints \in Setpoints
    /\ \A s \in SetpointChoices \cup {Deleted} : Effective(s) \in Setpoints
BY SetpointChoicesAssumption DEF Effective, NoSetpoints, Setpoints, Level

LEMMA JobType ==
    ASSUME NEW pc \in {"idle", "get", "upsert", "apply", "first"}, NEW t \in Tags \cup {NoTag},
           NEW v \in Level, NEW q \in Qualities, NEW recent \in BOOLEAN
    PROVE  NewJob(pc, t, v, q, recent) \in Job
BY DEF NewJob, Job, AlarmStates

LEMMA IdleType == Idle \in Job
BY DEF Idle, NewJob, Job, Level, Qualities, AlarmStates

LEMMA ConfigEventType ==
    ASSUME TypeOK, configQueue # <<>>
    PROVE  /\ Head(configQueue).tag \in Tags
           /\ Tail(configQueue) \in Seq(ConfigEvent)
<1>1. configQueue \in Seq(ConfigEvent)
  BY DEF TypeOK
<1>2. Head(configQueue) \in ConfigEvent /\ Tail(configQueue) \in Seq(ConfigEvent)
  <2> HIDE DEF ConfigEvent
  <2> QED BY <1>1, HeadTailProperties
<1> QED BY <1>2 DEF ConfigEvent

LEMMA InitType == Init => TypeOK
<1> SUFFICES ASSUME Init PROVE TypeOK
  OBVIOUS
<1> USE DEF Init
<1>1. states \in [Tags -> Row \cup {NoRow}]
  OBVIOUS
<1>2. lastEvent \in [Tags -> Event \cup {NoEvent}] /\ job \in [Writers -> Job]
  BY IdleType
<1>3. \A w \in Writers : job[w].pc = "idle"
  BY DEF Idle, NewJob
<1>4. dbSetpoints \in [Tags -> SetpointChoices \cup {Deleted}] /\ setpoints \in [Tags -> Setpoints]
  BY SetpointChoicesAssumption
<1>5. configQueue \in Seq(ConfigEvent) /\ config \in Config /\ config.pc = "idle"
  BY SetpointsType DEF IdleConfig, Config
<1> QED BY <1>1, <1>2, <1>3, <1>4, <1>5, BoundsAssumption DEF TypeOK

LEMMA IngestType ==
    ASSUME TypeOK, NEW w \in Writers, IngestValue(w) \/ StatementFails(w)
    PROVE  TypeOK'
<1> USE DEF TypeOK
<1> DEFINE j == job[w]
<1>0. j \in Job
  OBVIOUS
<1>1. CASE GetState(w)
  <2> DEFINE row  == states[j.tag]
             prev == IF row = NoRow THEN "ok" ELSE row.state
             next == Evaluate(prev, j.value, j.quality, setpoints[j.tag])
             new  == [j EXCEPT !.prev = prev, !.next = next, !.pc = FirstWrite(row, prev, next)]
  <2>1. j.tag \in Tags /\ j.pc = "get"
    BY <1>1 DEF GetState
  <2>2. prev \in AlarmStates
    BY <2>1 DEF Row, AlarmStates
  <2>3. next \in AlarmStates
    BY <1>0, <2>2, EvaluateType DEF Job
  <2>4. FirstWrite(row, prev, next) \in {"upsert", "apply"}
    BY DEF FirstWrite
  <2>5. /\ job' = [job EXCEPT ![w] = new] /\ overtaken' = overtaken \ {w}
        /\ UNCHANGED <<tables, candidates, configs, counters, unreported, missed>>
    BY <1>1 DEF GetState
  <2> HIDE DEF row, prev, next
  <2>6. new \in Job /\ new.tag = j.tag
    BY <1>0, <2>2, <2>3, <2>4 DEF Job
  <2> HIDE DEF new
  <2>7. job' \in [Writers -> Job] /\ \A v \in Writers : job'[v].pc # "idle" => job'[v].tag \in Tags
    BY <2>1, <2>5, <2>6
  <2> QED BY <2>5, <2>7
<1>2. CASE UpsertState(w)
  <2>1. j.tag \in Tags /\ RowFor(j) \in Row
    BY <1>0, <1>2 DEF UpsertState, RowFor, Row, Job
  <2>2. AfterUpsert(j) \in Job /\ (AfterUpsert(j).pc # "idle" => AfterUpsert(j).tag \in Tags)
    BY <1>0, <2>1, IdleType DEF AfterUpsert, Idle, NewJob, Job
  <2>3. /\ states' = [states EXCEPT ![j.tag] = RowFor(j)]
        /\ job' = [job EXCEPT ![w] = AfterUpsert(j)]
        /\ overtaken' = overtaken \cup OvertakenBy(w)
        /\ unreported' = unreported \cup {j.tag : v \in overtaken \cap {w}}
        /\ UNCHANGED <<lastEvent, candidates, configs, counters, missed>>
    BY <1>2 DEF UpsertState
  <2>4. overtaken' \subseteq Writers /\ unreported' \subseteq Tags
    BY <2>1, <2>3 DEF OvertakenBy
  <2> QED BY <2>1, <2>2, <2>3, <2>4
<1>3. CASE ApplyTransition(w)
  <2>1. j.tag \in Tags /\ RowFor(j) \in Row /\ j.prev \in AlarmStates /\ j.next \in AlarmStates
    BY <1>0, <1>3 DEF ApplyTransition, RowFor, Row, Job
  <2>3. [from |-> j.prev, to |-> j.next] \in Event
    BY <2>1 DEF Event
  <2>4. /\ states' = [states EXCEPT ![j.tag] = RowFor(j)]
        /\ lastEvent' = [lastEvent EXCEPT ![j.tag] = [from |-> j.prev, to |-> j.next]]
        /\ job' = [job EXCEPT ![w] = Idle]
        /\ overtaken' = overtaken \cup OvertakenBy(w)
        /\ unreported' = unreported \ {j.tag}
        /\ UNCHANGED <<candidates, configs, counters, missed>>
    BY <1>3 DEF ApplyTransition
  <2>2. overtaken' \subseteq Writers /\ unreported' \subseteq Tags
    BY <2>4 DEF OvertakenBy
  <2>5. Idle \in Job /\ Idle.pc = "idle"
    BY IdleType DEF Idle, NewJob
  <2> QED BY <2>1, <2>2, <2>3, <2>4, <2>5
<1>4. CASE StatementFails(w)
  <2> DEFINE new == IF w = "ingest" THEN [j EXCEPT !.pc = "get"] ELSE Idle
  <2>1. /\ j.tag \in Tags /\ job' = [job EXCEPT ![w] = new]
        /\ unreported' = unreported \cup CutOff({w})
        /\ UNCHANGED <<tables, candidates, configs, counters, overtaken, missed>>
    BY <1>4 DEF StatementFails
  <2>2. new \in Job /\ (new.pc # "idle" => new.tag \in Tags)
    BY <1>0, <2>1, IdleType DEF Idle, NewJob, Job
  <2>3. unreported' \subseteq Tags
    BY <2>1 DEF CutOff
  <2> HIDE DEF new
  <2> QED BY <2>1, <2>2, <2>3
<1> QED BY <1>1, <1>2, <1>3, <1>4 DEF IngestValue

LEMMA ScannerType ==
    ASSUME TypeOK, StartIngest \/ RunCommLossScanner \/ \E t \in Tags : Elapse(t)
    PROVE  TypeOK'
<1> USE DEF TypeOK
<1>1. CASE StartIngest
  <2>1. PICK t \in Tags, r \in Readings, recent \in BOOLEAN :
          job' = [job EXCEPT !["ingest"] = NewJob("get", t, r.value, r.quality, recent)]
    BY <1>1 DEF StartIngest
  <2> DEFINE new == NewJob("get", t, r.value, r.quality, recent)
  <2>2. r.value \in Level /\ r.quality \in Qualities
    BY ReadingsAssumption
  <2>3. new \in Job /\ new.tag = t
    BY <2>2, JobType DEF NewJob
  <2> HIDE DEF new
  <2>4. readings' \in 0..MaxReadings /\ UNCHANGED <<tables, candidates, configs, edits, faulty, calls, missed>>
    BY <1>1, BoundsAssumption DEF StartIngest
  <2> QED BY <2>1, <2>3, <2>4 DEF new
<1>2. CASE ListCommLossCandidates
  BY <1>2 DEF ListCommLossCandidates
<1>3. CASE ScanNext
  <2>1. PICK t \in candidates :
          /\ candidates' = candidates \ {t}
          /\ job' = [job EXCEPT !["scanner"] = NewJob("get", t, NoLevel, "comm_loss", TRUE)]
    BY <1>3 DEF ScanNext
  <2> DEFINE new == NewJob("get", t, NoLevel, "comm_loss", TRUE)
  <2>2. NoLevel \in Level /\ "comm_loss" \in Qualities
    BY DEF Level, Qualities, QualityStates
  <2>3. new \in Job /\ new.tag = t /\ t \in Tags
    BY <2>2, JobType DEF NewJob
  <2> HIDE DEF new
  <2>4. UNCHANGED <<tables, configs, counters, calls, missed>>
    BY <1>3 DEF ScanNext
  <2> QED BY <2>1, <2>3, <2>4 DEF new
<1>4. ASSUME NEW t \in Tags, Elapse(t) PROVE TypeOK'
  <2>1. [states[t] EXCEPT !.recent = FALSE] \in Row
    <3>1. states[t] \in Row
      BY <1>4 DEF Elapse
    <3> QED BY <3>1 DEF Row
  <2>2. /\ states' = [states EXCEPT ![t] = [@ EXCEPT !.recent = FALSE]]
        /\ job' = [w \in Writers |-> IF job[w].tag = t THEN [job[w] EXCEPT !.recent = FALSE]
                                     ELSE job[w]]
        /\ UNCHANGED <<lastEvent, candidates, configs, counters, calls, missed>>
    BY <1>4 DEF Elapse
  <2>3. states' \in [Tags -> Row \cup {NoRow}]
    BY <2>1, <2>2
  <2>4. ASSUME NEW w \in Writers
        PROVE  /\ [job[w] EXCEPT !.recent = FALSE] \in Job
               /\ [job[w] EXCEPT !.recent = FALSE].pc = job[w].pc
               /\ [job[w] EXCEPT !.recent = FALSE].tag = job[w].tag
    <3>1. job[w] \in Job
      OBVIOUS
    <3> QED BY <3>1 DEF Job
  <2>5. job' \in [Writers -> Job] /\ \A w \in Writers : job'[w].pc # "idle" => job'[w].tag \in Tags
    BY <2>2, <2>4
  <2> QED BY <2>2, <2>3, <2>5
<1> QED BY <1>1, <1>2, <1>3, <1>4 DEF RunCommLossScanner

LEMMA EditType ==
    ASSUME TypeOK, NEW t \in Tags, EditSetpoints(t) \/ DeleteTag(t)
    PROVE  TypeOK'
<1>1. PICK new \in SetpointChoices \cup {Deleted}, operation \in {"updated", "deleted"} :
        Edit(t, new, operation)
  BY DEF EditSetpoints, DeleteTag
<1>2. [tag |-> t, operation |-> operation] \in ConfigEvent
  BY DEF ConfigEvent
<1>3. configQueue' \in Seq(ConfigEvent) /\ (config.pc # "idle" => configQueue' # <<>>)
  <2>1. CASE UNCHANGED configQueue
    BY <2>1 DEF TypeOK
  <2>2. CASE configQueue' = Append(configQueue, [tag |-> t, operation |-> operation])
    BY <1>2, <2>2, AppendProperties DEF TypeOK
  <2> QED BY <1>1, <2>1, <2>2 DEF Edit
<1>4. edits' \in 0..MaxEdits
  BY <1>1, BoundsAssumption DEF Edit, TypeOK
<1>5. dbSetpoints' \in [Tags -> SetpointChoices \cup {Deleted}] /\ unannounced' \subseteq Tags
  BY <1>1 DEF Edit, TypeOK
<1> QED BY <1>1, <1>3, <1>4, <1>5 DEF Edit, TypeOK

LEMMA DeleteWithTagsType ==
    ASSUME TypeOK, NEW tags \in SUBSET Tags, DeleteWithTags(tags)
    PROVE  TypeOK'
<1>1. edits' \in 0..MaxEdits
  BY BoundsAssumption DEF DeleteWithTags, TypeOK
<1>2. dbSetpoints' \in [Tags -> SetpointChoices \cup {Deleted}] /\ unannounced' \subseteq Tags
  BY DEF DeleteWithTags, TypeOK
<1> QED BY <1>1, <1>2 DEF DeleteWithTags, TypeOK

LEMMA ConfigType ==
    ASSUME TypeOK, HandleTagConfigChanged \/ LoadFails \/ DeleteFails
    PROVE  TypeOK'
<1> DEFINE t == Head(configQueue).tag
<1>1. configQueue # <<>> /\ t \in Tags /\ Tail(configQueue) \in Seq(ConfigEvent)
  BY ConfigEventType
  DEF TypeOK, HandleTagConfigChanged, HandleUpdated, StoreSetpoints, HandleDeleted,
      DeleteStates, LoadFails, DeleteFails
<1>2. IdleConfig \in Config /\ IdleConfig.pc = "idle" /\ config.loaded \in Setpoints
  BY SetpointsType DEF IdleConfig, Config, TypeOK
<1>3. CASE HandleUpdated
  BY <1>1, <1>3, SetpointsType DEF HandleUpdated, Caught, LoadSetpoint, Config, TypeOK
<1>4. CASE StoreSetpoints
  BY <1>1, <1>2, <1>4 DEF StoreSetpoints, HandleDone, TypeOK
<1>5. CASE HandleDeleted
  <2>1. [config EXCEPT !.pc = "delete_states"] \in Config
    BY DEF Config, TypeOK
  <2> QED BY <1>1, <1>5, <2>1, SetpointsType DEF HandleDeleted, Caught, TypeOK
<1>7. CASE DeleteStates
  BY <1>1, <1>2, <1>7 DEF DeleteStates, HandleDone, TypeOK
<1>8. CASE LoadFails \/ DeleteFails
  BY <1>1, <1>2, <1>8 DEF LoadFails, DeleteFails, HandleDone, TypeOK
<1> QED BY <1>3, <1>4, <1>5, <1>7, <1>8 DEF HandleTagConfigChanged

LEMMA OvertakeType ==
    ASSUME TypeOK, Overtake
    PROVE  TypeOK'
<1>1. PICK i \in 1..(Len(configQueue) - 1) :
        configQueue' = [configQueue EXCEPT ![i] = configQueue[i + 1], ![i + 1] = configQueue[i]]
  BY DEF Overtake
<1>2. configQueue \in Seq(ConfigEvent) /\ Len(configQueue) \in Nat
      /\ DOMAIN configQueue = 1..Len(configQueue)
      /\ \A k \in 1..Len(configQueue) : configQueue[k] \in ConfigEvent
  <2> HIDE DEF ConfigEvent
  <2> QED BY DEF TypeOK
<1>3. /\ DOMAIN configQueue' = 1..Len(configQueue)
      /\ \A k \in 1..Len(configQueue) : configQueue'[k] \in ConfigEvent
  <2> HIDE DEF ConfigEvent
  <2> QED BY <1>1, <1>2
<1>4. configQueue' \in [1..Len(configQueue) -> ConfigEvent]
  <2> HIDE DEF ConfigEvent
  <2> QED BY <1>1, <1>3
<1>5. configQueue' \in Seq(ConfigEvent)
  <2> HIDE DEF ConfigEvent
  <2> QED BY <1>2, <1>4
<1> QED BY <1>5 DEF Overtake, TypeOK

LEMMA CrashType ==
    ASSUME TypeOK, Crash
    PROVE  TypeOK'
<1>1. ASSUME NEW w \in Writers, job[w].pc # "idle"
      PROVE  [job[w] EXCEPT !.pc = "get"] \in Job /\ [job[w] EXCEPT !.pc = "get"].tag \in Tags
  BY <1>1 DEF TypeOK, Job
<1>2. Idle \in Job /\ Idle.pc = "idle"
  BY IdleType DEF Idle, NewJob
<1>3. job' \in [Writers -> Job] /\ \A w \in Writers : job'[w].pc # "idle" => job'[w].tag \in Tags
  BY <1>1, <1>2 DEF Crash
<1>4. setpoints' \in [Tags -> Setpoints] /\ config' \in Config /\ config'.pc = "idle"
  BY SetpointsType DEF Crash, TypeOK, IdleConfig, Config
<1>5. unreported' \subseteq Tags
  BY DEF Crash, CutOff, TypeOK
<1> QED BY <1>3, <1>4, <1>5 DEF Crash, TypeOK

LEMMA StepType == TypeOK /\ [Next]_vars => TypeOK'
<1> SUFFICES ASSUME TypeOK, [Next]_vars PROVE TypeOK'
  OBVIOUS
<1>1. CASE UNCHANGED vars
  BY <1>1 DEF TypeOK
<1>2. CASE Next
  BY <1>2, IngestType, ScannerType, EditType, DeleteWithTagsType, ConfigType, OvertakeType,
      CrashType
  DEF Next
<1> QED BY <1>1, <1>2

\* Every step of every actor keeps the tables, the calls in progress and the
\* consumer's state well typed; in particular the consumer is never busy with an
\* event that is no longer in its queue.
THEOREM TypeCorrect == Spec => []TypeOK
BY InitType, StepType, PTL DEF Spec

-----------------------------------------------------------------------------
(* Calls.  One that has not been overtaken knows the row it is about to      *)
(* replace, unless it has been deleted; and if it writes the row back with   *)
(* the state it had, the event of that state is still the last one, because  *)
(* events are never deleted.                                                 *)

KnowsRow(w) ==
    LET j == job[w]
    IN  w \notin overtaken =>
        /\ j.pc = "upsert" =>
             (states[j.tag] # NoRow => states[j.tag].state = j.prev /\ j.next = j.prev)
        /\ j.pc = "apply" =>
             (states[j.tag] # NoRow => states[j.tag].state = j.prev)
        /\ j.pc = "first" =>
             (states[j.tag] # NoRow => states[j.tag].state = j.next)

EventStands(w) ==
    LET j == job[w]
    IN  /\ w \notin overtaken /\ j.tag \notin unreported /\ ~BetweenWrites(j.tag)
        /\ j.pc = "upsert" /\ j.next = j.prev /\ j.prev # "ok"
        => lastEvent[j.tag] # NoEvent /\ lastEvent[j.tag].to = j.prev

CallInv ==
    TypeOK /\ ActiveAlarmRaised /\ \A w \in Writers : KnowsRow(w) /\ EventStands(w)

\* A step that writes no event, changes no row's state and leaves every call where
\* it is, takes one up, or sends it back.
LEMMA QuietCalls ==
    ASSUME CallInv, UNCHANGED <<lastEvent, overtaken>>, unreported \subseteq unreported',
           \A t \in Tags : states'[t] # NoRow =>
             states[t] # NoRow /\ states'[t].state = states[t].state,
           \A w \in Writers :
             \/ /\ job'[w].pc \in {"idle", "get"}
                /\ job[w].pc = "first" => job[w].tag \in unreported'
             \/ /\ job'[w].pc = job[w].pc /\ job'[w].tag = job[w].tag
                /\ job'[w].prev = job[w].prev /\ job'[w].next = job[w].next
    PROVE  ActiveAlarmRaised' /\ \A w \in Writers : KnowsRow(w)' /\ EventStands(w)'
<1>0. \A w \in Writers : job[w].pc # "idle" => job[w].tag \in Tags
  BY DEF CallInv, TypeOK
<1>1. ASSUME NEW t \in Tags, t \notin unreported', BetweenWrites(t) PROVE BetweenWrites(t)'
  BY <1>1 DEF BetweenWrites
<1>2. ASSUME NEW t \in Tags, t \notin unreported', State(t)' # "ok", ~BetweenWrites(t)'
      PROVE  LastEventRaised(t)'
  <2>1. State(t)' = State(t)
    BY <1>2 DEF State
  <2>2. LastEventRaised(t)
    BY <1>1, <1>2, <2>1 DEF CallInv, ActiveAlarmRaised
  <2> QED BY <2>1, <2>2 DEF LastEventRaised
<1>3. ASSUME NEW w \in Writers PROVE KnowsRow(w)' /\ EventStands(w)'
  <2>1. CASE job'[w].pc \in {"idle", "get"}
    BY <2>1 DEF KnowsRow, EventStands
  <2>2. CASE job'[w].pc \notin {"idle", "get"}
    <3>1. /\ job'[w].pc = job[w].pc /\ job'[w].tag = job[w].tag
          /\ job'[w].prev = job[w].prev /\ job'[w].next = job[w].next
          /\ job[w].tag \in Tags /\ KnowsRow(w) /\ EventStands(w)
      BY <1>0, <2>2 DEF CallInv
    <3>2. KnowsRow(w)'
      BY <3>1 DEF KnowsRow
    <3>3. EventStands(w)'
      BY <1>1, <3>1 DEF EventStands
    <3> QED BY <3>2, <3>3
  <2> QED BY <2>1, <2>2
<1> QED BY <1>2, <1>3 DEF ActiveAlarmRaised

\* A call that reads its row knows it, and, if it is an alarm, that it is reported.
LEMMA GetStateCalls ==
    ASSUME CallInv, NEW w \in Writers, GetState(w)
    PROVE  ActiveAlarmRaised' /\ \A v \in Writers : KnowsRow(v)' /\ EventStands(v)'
<1> DEFINE j    == job[w]
           row  == states[j.tag]
           prev == IF row = NoRow THEN "ok" ELSE row.state
           next == Evaluate(prev, j.value, j.quality, setpoints[j.tag])
           pc   == FirstWrite(row, prev, next)
           new  == [j EXCEPT !.prev = prev, !.next = next, !.pc = pc]
<1>0. /\ j \in Job /\ j.tag \in Tags /\ j.pc = "get" /\ job \in [Writers -> Job]
      /\ \A v \in Writers : KnowsRow(v) /\ EventStands(v)
  BY DEF CallInv, TypeOK, GetState
<1>1. /\ job' = [job EXCEPT ![w] = new] /\ overtaken' = overtaken \ {w}
      /\ UNCHANGED <<states, lastEvent, unreported>>
  BY DEF GetState
<1> HIDE DEF next
<1>2. new.pc = pc /\ new.prev = prev /\ new.next = next /\ new.tag = j.tag
  BY <1>0 DEF Job
<1>3. pc = IF row = NoRow \/ next = prev THEN "upsert" ELSE "apply"
  BY DEF FirstWrite
<1>4. job'[w] = new /\ \A v \in Writers \ {w} : job'[v] = job[v]
  BY <1>0, <1>1
<1> HIDE DEF new, pc
<1>5. ASSUME NEW t \in Tags PROVE BetweenWrites(t)' <=> BetweenWrites(t)
  BY <1>0, <1>2, <1>3, <1>4 DEF BetweenWrites
<1>6. ASSUME NEW t \in Tags PROVE State(t)' = State(t) /\ (LastEventRaised(t)' <=> LastEventRaised(t))
  BY <1>1 DEF State, LastEventRaised
<1>7. ActiveAlarmRaised'
  BY <1>1, <1>5, <1>6 DEF ActiveAlarmRaised, CallInv
<1>8. KnowsRow(w)'
  BY <1>0, <1>1, <1>2, <1>3, <1>4 DEF KnowsRow
<1>9. EventStands(w)'
  <2>1. State(j.tag) = prev
    BY DEF State
  <2>2. j.tag \notin unreported /\ ~BetweenWrites(j.tag) /\ prev # "ok"
          => lastEvent[j.tag] # NoEvent /\ lastEvent[j.tag].to = prev
    BY <1>0, <2>1 DEF CallInv, ActiveAlarmRaised, LastEventRaised
  <2> HIDE DEF prev
  <2> QED BY <1>0, <1>1, <1>2, <1>4, <1>5, <2>2 DEF EventStands
<1>10. ASSUME NEW v \in Writers \ {w} PROVE KnowsRow(v)' /\ EventStands(v)'
  <2>1. job'[v] = job[v] /\ (v \in overtaken' <=> v \in overtaken)
    BY <1>1, <1>4
  <2>2. KnowsRow(v)'
    BY <1>0, <1>1, <2>1 DEF KnowsRow
  <2>3. EventStands(v)'
    <3>1. CASE job[v].pc = "upsert"
      <4>1. job[v].tag \in Tags
        BY <3>1 DEF CallInv, TypeOK
      <4> QED BY <1>0, <1>1, <1>5, <2>1, <4>1 DEF EventStands
    <3>2. CASE job[v].pc # "upsert"
      BY <2>1, <3>2 DEF EventStands
    <3> QED BY <3>1, <3>2
  <2> QED BY <2>2, <2>3
<1> QED BY <1>7, <1>8, <1>9, <1>10

\* What a write of w's leaves of the calls and the rows it has nothing to do with.
LEMMA OtherCalls ==
    ASSUME CallInv, NEW w \in Writers, UpsertState(w) \/ ApplyTransition(w)
    PROVE  /\ \A v \in Writers \ {w} : KnowsRow(v)' /\ EventStands(v)'
           /\ \A t \in Tags \ {job[w].tag} :
                t \notin unreported' /\ State(t)' # "ok" /\ ~BetweenWrites(t)'
                  => LastEventRaised(t)'
<1> DEFINE j == job[w]
<1>0. /\ j \in Job /\ j.tag \in Tags /\ job \in [Writers -> Job]
      /\ states \in [Tags -> Row \cup {NoRow}] /\ lastEvent \in [Tags -> Event \cup {NoEvent}]
      /\ \A v \in Writers : KnowsRow(v) /\ EventStands(v)
      /\ j.pc \in {"upsert", "apply", "first"}
  BY DEF CallInv, TypeOK, UpsertState, ApplyTransition
<1>1. /\ overtaken' = overtaken \cup OvertakenBy(w)
      /\ \A v \in Writers \ {w} : job'[v] = job[v]
      /\ \A t \in Tags \ {j.tag} :
           /\ states'[t] = states[t] /\ lastEvent'[t] = lastEvent[t]
           /\ t \in unreported' <=> t \in unreported
  <2>1. CASE UpsertState(w)
    BY <1>0, <2>1 DEF UpsertState
  <2>2. CASE ApplyTransition(w)
    BY <1>0, <2>2 DEF ApplyTransition
  <2> QED BY <2>1, <2>2
<1>2. job'[w].pc = "first" => job'[w].tag = j.tag
  <2>1. Idle.pc = "idle" /\ [j EXCEPT !.pc = "first"].tag = j.tag
    BY <1>0 DEF Idle, NewJob, Job
  <2>2. CASE UpsertState(w)
    BY <1>0, <2>1, <2>2 DEF UpsertState, AfterUpsert
  <2>3. CASE ApplyTransition(w)
    BY <1>0, <2>1, <2>3 DEF ApplyTransition
  <2> QED BY <2>2, <2>3
<1>3. ASSUME NEW t \in Tags, t # j.tag PROVE BetweenWrites(t)' <=> BetweenWrites(t)
  BY <1>1, <1>2, <1>3 DEF BetweenWrites
<1>4. ASSUME NEW v \in Writers \ {w} PROVE KnowsRow(v)' /\ EventStands(v)'
  <2>1. CASE job[v].tag = j.tag
    <3>1. v \in overtaken'
      BY <1>1, <2>1 DEF OvertakenBy
    <3> QED BY <3>1 DEF KnowsRow, EventStands
  <2>2. CASE job[v].tag # j.tag /\ job[v].pc \in {"upsert", "apply", "first"}
    <3>1. job[v].tag \in Tags /\ job'[v] = job[v] /\ (v \in overtaken' <=> v \in overtaken)
      BY <1>1, <2>2 DEF OvertakenBy, CallInv, TypeOK
    <3>2. KnowsRow(v)'
      BY <1>0, <1>1, <2>2, <3>1 DEF KnowsRow
    <3>3. EventStands(v)'
      BY <1>0, <1>1, <1>3, <2>2, <3>1 DEF EventStands
    <3> QED BY <3>2, <3>3
  <2>3. CASE job[v].pc \notin {"upsert", "apply", "first"}
    BY <1>1, <2>3 DEF KnowsRow, EventStands
  <2> QED BY <2>1, <2>2, <2>3
<1>5. ASSUME NEW t \in Tags \ {j.tag},
             t \notin unreported', State(t)' # "ok", ~BetweenWrites(t)'
      PROVE  LastEventRaised(t)'
  <2>1. State(t)' = State(t) /\ t \notin unreported /\ ~BetweenWrites(t)
    BY <1>1, <1>3, <1>5 DEF State
  <2>2. LastEventRaised(t)
    BY <1>5, <2>1 DEF CallInv, ActiveAlarmRaised
  <2> QED BY <1>1, <2>1, <2>2 DEF LastEventRaised
<1> QED BY <1>4, <1>5

LEMMA UpsertCalls ==
    ASSUME CallInv, NEW w \in Writers, UpsertState(w)
    PROVE  ActiveAlarmRaised' /\ \A v \in Writers : KnowsRow(v)' /\ EventStands(v)'
<1> DEFINE j == job[w]
<1>a. PICK t \in Tags : t = j.tag
  BY DEF CallInv, TypeOK, UpsertState
<1>0. /\ j \in Job /\ job \in [Writers -> Job]
      /\ states \in [Tags -> Row \cup {NoRow}]
      /\ KnowsRow(w) /\ EventStands(w)
  BY DEF CallInv, TypeOK, UpsertState
<1>1. /\ states' = [states EXCEPT ![t] = RowFor(j)]
      /\ job' = [job EXCEPT ![w] = AfterUpsert(j)]
      /\ j.pc = "upsert"
      /\ unreported' = unreported \cup {t : v \in overtaken \cap {w}}
      /\ overtaken' = overtaken \cup OvertakenBy(w)
      /\ UNCHANGED lastEvent
  BY <1>a DEF UpsertState
<1>2. RowFor(j).state = j.next /\ RowFor(j) # NoRow
  BY <1>0, NoRowAssumption DEF RowFor, Row, Job
<1>3. states'[t].state = j.next /\ State(t)' = j.next
  BY <1>0, <1>1, <1>2 DEF State
<1>4. job'[w] = IF j.next = j.prev THEN Idle ELSE [j EXCEPT !.pc = "first"]
  BY <1>0, <1>1 DEF AfterUpsert
<1>5. CASE j.next = j.prev
  <2>1. job'[w].pc = "idle"
    BY <1>4, <1>5 DEF Idle, NewJob
  <2>2. KnowsRow(w)' /\ EventStands(w)'
    BY <2>1 DEF KnowsRow, EventStands
  <2>3. ASSUME t \notin unreported', State(t)' # "ok", ~BetweenWrites(t)'
        PROVE  LastEventRaised(t)'
    <3>1. w \notin overtaken /\ t \notin unreported
      BY <1>1, <2>3
    <3>2. ~BetweenWrites(t)
      BY <1>0, <1>1, <2>1, <2>3 DEF BetweenWrites
    <3> QED BY <1>a, <1>0, <1>1, <1>3, <1>5, <2>3, <3>1, <3>2 DEF EventStands, LastEventRaised
  <2> QED BY <1>a, <2>2, <2>3, OtherCalls DEF ActiveAlarmRaised
<1>6. CASE j.next # j.prev
  <2>1. job'[w].pc = "first" /\ job'[w].tag = t /\ job'[w].next = j.next
    BY <1>a, <1>0, <1>4, <1>6 DEF Job
  <2>2. KnowsRow(w)' /\ EventStands(w)'
    BY <1>3, <2>1 DEF KnowsRow, EventStands
  <2>3. BetweenWrites(t)'
    BY <2>1 DEF BetweenWrites
  <2> QED BY <1>a, <2>2, <2>3, OtherCalls DEF ActiveAlarmRaised
<1> QED BY <1>5, <1>6

LEMMA ApplyCalls ==
    ASSUME CallInv, NEW w \in Writers, ApplyTransition(w)
    PROVE  ActiveAlarmRaised' /\ \A v \in Writers : KnowsRow(v)' /\ EventStands(v)'
<1> DEFINE j == job[w]
           event == [from |-> j.prev, to |-> j.next]
<1>a. PICK t \in Tags : t = j.tag
  BY DEF CallInv, TypeOK, ApplyTransition
<1>0. /\ j \in Job /\ job \in [Writers -> Job]
      /\ states \in [Tags -> Row \cup {NoRow}] /\ lastEvent \in [Tags -> Event \cup {NoEvent}]
  BY DEF CallInv, TypeOK, ApplyTransition
<1>1. /\ states' = [states EXCEPT ![t] = RowFor(j)]
      /\ lastEvent' = [lastEvent EXCEPT ![t] = event]
      /\ job' = [job EXCEPT ![w] = Idle]
  BY <1>a DEF ApplyTransition
<1>2. RowFor(j).state = j.next /\ RowFor(j) # NoRow
  BY <1>0, NoRowAssumption DEF RowFor, Row, Job
<1>3. event \in Event /\ event.to = j.next
  BY <1>0 DEF Event, Job
<1>4. State(t)' = j.next
  BY <1>0, <1>1, <1>2 DEF State
<1> HIDE DEF event
<1>5. LastEventRaised(t)'
  BY <1>0, <1>1, <1>3, <1>4, NoRowAssumption DEF LastEventRaised
<1>6. job'[w].pc = "idle"
  BY <1>0, <1>1 DEF Idle, NewJob
<1>7. KnowsRow(w)' /\ EventStands(w)'
  BY <1>6 DEF KnowsRow, EventStands
<1> QED BY <1>a, <1>5, <1>7, OtherCalls DEF ActiveAlarmRaised

LEMMA RestCalls ==
    ASSUME CallInv, [Next]_vars, \A w \in Writers : ~IngestValue(w)
    PROVE  ActiveAlarmRaised' /\ \A v \in Writers : KnowsRow(v)' /\ EventStands(v)'
<1>0. /\ states \in [Tags -> Row \cup {NoRow}] /\ job \in [Writers -> Job]
      /\ \A w \in Writers : job[w].pc # "idle" => job[w].tag \in Tags
  BY DEF CallInv, TypeOK
<1>1. CASE StartIngest \/ ListCommLossCandidates \/ ScanNext
  <2>1. UNCHANGED <<states, lastEvent, overtaken, unreported>>
    BY <1>1 DEF StartIngest, ListCommLossCandidates, ScanNext
  <2>2. \A v \in Writers : \/ job'[v] = job[v]
                           \/ job[v].pc = "idle" /\ job'[v].pc = "get"
    BY <1>0, <1>1 DEF StartIngest, ListCommLossCandidates, ScanNext, NewJob
  <2> QED BY <1>0, <2>1, <2>2, QuietCalls
<1>2. ASSUME NEW t \in Tags, Elapse(t)
      PROVE  ActiveAlarmRaised' /\ \A v \in Writers : KnowsRow(v)' /\ EventStands(v)'
  <2>1. ASSUME NEW s \in Tags
        PROVE  states'[s] # NoRow =>
                 states[s] # NoRow /\ states'[s].state = states[s].state
    <3>1. states[t] \in Row
      BY <1>0, <1>2 DEF Elapse
    <3>2. [states[t] EXCEPT !.recent = FALSE].state = states[t].state
      BY <3>1 DEF Row
    <3>3. states' = [states EXCEPT ![t] = [@ EXCEPT !.recent = FALSE]] /\ states[t] # NoRow
      BY <1>2 DEF Elapse
    <3> QED BY <1>0, <3>2, <3>3
  <2>2. ASSUME NEW v \in Writers
        PROVE  /\ job'[v].pc = job[v].pc /\ job'[v].tag = job[v].tag
               /\ job'[v].prev = job[v].prev /\ job'[v].next = job[v].next
    <3>1. job'[v] = IF job[v].tag = t THEN [job[v] EXCEPT !.recent = FALSE] ELSE job[v]
      BY <1>2 DEF Elapse
    <3> QED BY <1>0, <3>1 DEF Job
  <2>3. UNCHANGED <<lastEvent, overtaken, unreported>>
    BY <1>2 DEF Elapse
  <2> QED BY <2>1, <2>2, <2>3, QuietCalls
<1>3. ASSUME NEW w \in Writers, StatementFails(w)
      PROVE  ActiveAlarmRaised' /\ \A v \in Writers : KnowsRow(v)' /\ EventStands(v)'
  <2>1. /\ job' = [job EXCEPT ![w] = IF w = "ingest" THEN [job[w] EXCEPT !.pc = "get"] ELSE Idle]
        /\ unreported' = unreported \cup CutOff({w})
        /\ UNCHANGED <<states, lastEvent, overtaken>>
    BY <1>3 DEF StatementFails
  <2>2. job'[w].pc \in {"idle", "get"}
    BY <1>0, <2>1 DEF Idle, NewJob, Job
  <2>3. job[w].pc = "first" => job[w].tag \in unreported'
    BY <2>1 DEF CutOff
  <2>4. \A v \in Writers \ {w} : job'[v] = job[v]
    BY <1>0, <2>1
  <2> QED BY <2>1, <2>2, <2>3, <2>4, QuietCalls
<1>4. CASE HandleTagConfigChanged \/ LoadFails \/ DeleteFails \/ Overtake \/ UNCHANGED vars
           \/ (\E t \in Tags : EditSetpoints(t) \/ DeleteTag(t))
           \/ (\E tags \in SUBSET Tags : DeleteWithTags(tags))
  <2>1. UNCHANGED <<job, lastEvent, overtaken, unreported>>
    BY <1>4 DEF HandleTagConfigChanged, HandleUpdated, StoreSetpoints, HandleDeleted,
                DeleteStates, LoadFails, DeleteFails, EditSetpoints, DeleteTag, Edit,
                DeleteWithTags, Overtake
  <2>2. ASSUME NEW t \in Tags
        PROVE  states'[t] # NoRow => states'[t] = states[t]
    <3>1. CASE UNCHANGED states
      BY <3>1
    <3>2. CASE DeleteStates
      BY <1>0, <3>2 DEF DeleteStates
    <3> QED
      BY <1>4, <3>1, <3>2
      DEF HandleTagConfigChanged, HandleUpdated, StoreSetpoints, HandleDeleted, LoadFails,
          DeleteFails, EditSetpoints, DeleteTag, Edit, DeleteWithTags, Overtake
  <2> QED BY <2>1, <2>2, QuietCalls
<1>5. CASE Crash
  <2>1. /\ unreported' = unreported \cup CutOff(Writers)
        /\ UNCHANGED <<states, lastEvent, overtaken>>
    BY <1>5 DEF Crash
  <2>2. \A w \in Writers : job'[w].pc \in {"idle", "get"}
    BY <1>0, <1>5 DEF Crash, Idle, NewJob, Job
  <2>3. \A w \in Writers : job[w].pc = "first" => job[w].tag \in unreported'
    BY <2>1 DEF CutOff
  <2> QED BY <2>1, <2>2, <2>3, QuietCalls
<1> QED BY <1>1, <1>2, <1>3, <1>4, <1>5 DEF Next, RunCommLossScanner

LEMMA InitCalls == Init => CallInv
<1> SUFFICES ASSUME Init PROVE CallInv
  OBVIOUS
<1>1. \A w \in Writers : job[w].pc = "idle"
  BY DEF Init, Idle, NewJob
<1>2. \A w \in Writers : KnowsRow(w) /\ EventStands(w)
  BY <1>1 DEF KnowsRow, EventStands
<1>3. ActiveAlarmRaised
  BY DEF Init, ActiveAlarmRaised, State
<1> QED BY InitType, <1>2, <1>3 DEF CallInv

LEMMA StepCalls == CallInv /\ [Next]_vars => CallInv'
<1> SUFFICES ASSUME CallInv, [Next]_vars PROVE CallInv'
  OBVIOUS
<1>1. TypeOK'
  BY StepType DEF CallInv
<1>2. ActiveAlarmRaised' /\ \A v \in Writers : KnowsRow(v)' /\ EventStands(v)'
  BY GetStateCalls, UpsertCalls, ApplyCalls, RestCalls DEF IngestValue
<1> QED BY <1>1, <1>2 DEF CallInv

\* A tag in alarm has the event that raised it at the end of its history, though
\* calls overlap, fail, are retried and are cut off by crashes, and though rows are
\* deleted under a call in progress: except for the tags in unreported.
THEOREM AlarmRaised == Spec => []ActiveAlarmRaised
<1>1. CallInv => ActiveAlarmRaised
  BY DEF CallInv
<1> QED BY InitCalls, StepCalls, <1>1, PTL DEF Spec

\* Every change of a tag's alarm state is in the event history with the state it
\* came from, unless an overtaken call made it: an overlap with another call for
\* the tag is the only way to a change that is not recorded.
THEOREM ChangesRecorded == Spec => EveryChangeRecorded
<1> DEFINE Overtaken(t) == \E w \in overtaken : job[w].tag = t /\ job'[w] # job[w]
           AllRecorded ==
             \A t \in Tags :
               Changes(t) => \/ Recorded(t)
                             \/ \E w \in overtaken : job[w].tag = t /\ job'[w] # job[w]
<1>1. CallInv /\ [Next]_vars => [AllRecorded]_vars
  <2> SUFFICES ASSUME CallInv, Next, NEW t \in Tags, Changes(t)
               PROVE  Recorded(t) \/ Overtaken(t)
    OBVIOUS
  <2>0. /\ states \in [Tags -> Row \cup {NoRow}] /\ lastEvent \in [Tags -> Event \cup {NoEvent}]
        /\ job \in [Writers -> Job] /\ \A w \in Writers : KnowsRow(w)
    BY DEF CallInv, TypeOK
  <2>1. ASSUME NEW w \in Writers, UpsertState(w) PROVE Overtaken(t)
    <3>1. /\ job[w] \in Job /\ job[w].tag \in Tags /\ job[w].pc = "upsert"
          /\ states' = [states EXCEPT ![job[w].tag] = RowFor(job[w])]
          /\ job'[w] = AfterUpsert(job[w])
      BY <2>0, <2>1 DEF CallInv, TypeOK, UpsertState
    <3>2. t = job[w].tag /\ states'[t].state = job[w].next
      BY <2>0, <3>1 DEF Changes, RowFor
    <3>3. w \in overtaken
      BY <2>0, <3>1, <3>2 DEF Changes, KnowsRow
    <3>4. AfterUpsert(job[w]).pc # "upsert"
      BY <3>1 DEF AfterUpsert, Idle, NewJob, Job
    <3> QED BY <3>1, <3>2, <3>3, <3>4
  <2>2. ASSUME NEW w \in Writers, ApplyTransition(w) PROVE Recorded(t) \/ Overtaken(t)
    <3>1. /\ job[w].tag \in Tags /\ job[w].pc \in {"apply", "first"}
          /\ states' = [states EXCEPT ![job[w].tag] = RowFor(job[w])]
          /\ lastEvent' = [lastEvent EXCEPT ![job[w].tag] =
                             [from |-> job[w].prev, to |-> job[w].next]]
          /\ job'[w] = Idle
      BY <2>0, <2>2 DEF CallInv, TypeOK, ApplyTransition
    <3>2. t = job[w].tag /\ states'[t].state = job[w].next
      BY <2>0, <3>1 DEF Changes, RowFor
    <3>3. CASE w \in overtaken
      <4>1. Idle.pc # job[w].pc
        BY <3>1 DEF Idle, NewJob
      <4> QED BY <3>1, <3>2, <3>3, <4>1
    <3>4. CASE w \notin overtaken
      <4>1. states[t].state = job[w].prev
        BY <2>0, <3>1, <3>2, <3>4 DEF KnowsRow, Changes
      <4> QED BY <2>0, <3>1, <3>2, <4>1 DEF Recorded
    <3> QED BY <3>3, <3>4
  <2>3. ASSUME NEW s \in Tags, Elapse(s) PROVE FALSE
    <3>1. states' = [states EXCEPT ![s] = [@ EXCEPT !.recent = FALSE]] /\ states[s] \in Row
      BY <2>0, <2>3 DEF Elapse
    <3>2. [states[s] EXCEPT !.recent = FALSE].state = states[s].state
      BY <3>1 DEF Row
    <3> QED BY <2>0, <3>1, <3>2 DEF Changes
  <2>4. ASSUME DeleteStates PROVE FALSE
    BY <2>0, <2>4 DEF DeleteStates, Changes
  <2>5. ASSUME UNCHANGED states PROVE FALSE
    BY <2>5 DEF Changes
  <2> QED
    BY <2>1, <2>2, <2>3, <2>4, <2>5
    DEF Next, IngestValue, GetState, StatementFails, StartIngest, RunCommLossScanner,
        ListCommLossCandidates, ScanNext, EditSetpoints, DeleteTag, Edit, DeleteWithTags,
        HandleTagConfigChanged, HandleUpdated, StoreSetpoints, HandleDeleted,
        LoadFails, DeleteFails, Overtake, Crash
<1> QED BY InitCalls, StepCalls, <1>1, PTL DEF Spec, EveryChangeRecorded

-----------------------------------------------------------------------------
(* Setpoints.  Whatever the engine has not reloaded yet has an event in the  *)
(* queue that will make it do so: the one in the handler's hands if what it  *)
(* has loaded is what is stored, or a later one.                             *)

Stale(t)  == setpoints[t] # Effective(dbSetpoints[t])
AtHead(t) == configQueue # <<>> /\ configQueue[1].tag = t
Due(t)    == \E i \in 2..Len(configQueue) : configQueue[i].tag = t

DeletedForGood ==
    \A i \in 1..Len(configQueue) :
        configQueue[i].operation = "deleted" => dbSetpoints[configQueue[i].tag] = Deleted

Missed == unannounced \cup notReloaded

StaleIsDue(t) ==
    /\ Stale(t) => \/ t \in Missed
                   \/ Due(t)
                   \/ AtHead(t) /\ config.pc \in {"idle", "store"}
    /\ AtHead(t) /\ config.pc = "store" /\ config.loaded # Effective(dbSetpoints[t])
       => Due(t) \/ t \in Missed

FollowInv == TypeOK /\ DeletedForGood /\ \A t \in Tags : StaleIsDue(t)

LEMMA QueueFacts ==
    ASSUME TypeOK
    PROVE  /\ configQueue \in Seq(ConfigEvent) /\ Len(configQueue) \in Nat
           /\ \A i \in 1..Len(configQueue) : configQueue[i] \in ConfigEvent
           /\ configQueue # <<>> =>
                /\ Len(configQueue) >= 1
                /\ Head(configQueue) = configQueue[1] /\ configQueue[1].tag \in Tags
                /\ Len(Tail(configQueue)) = Len(configQueue) - 1
                /\ \A i \in 1..Len(Tail(configQueue)) :
                     Tail(configQueue)[i] = configQueue[i + 1]
<1>1. configQueue \in Seq(ConfigEvent)
  BY DEF TypeOK
<1>2. Len(configQueue) \in Nat /\ \A i \in 1..Len(configQueue) : configQueue[i] \in ConfigEvent
  <2> HIDE DEF ConfigEvent
  <2> QED BY <1>1
<1>3. ASSUME configQueue # <<>>
      PROVE  /\ Len(configQueue) >= 1 /\ Head(configQueue) = configQueue[1]
             /\ Len(Tail(configQueue)) = Len(configQueue) - 1
             /\ \A i \in 1..Len(Tail(configQueue)) : Tail(configQueue)[i] = configQueue[i + 1]
  <2> HIDE DEF ConfigEvent
  <2>1. Len(configQueue) # 0
    BY <1>1, <1>3, EmptySeq
  <2> QED BY <1>1, <1>2, <1>3, <2>1, HeadTailProperties
<1>4. configQueue # <<>> => configQueue[1].tag \in Tags
  BY <1>3, ConfigEventType
<1> QED BY <1>1, <1>2, <1>3, <1>4

\* An event that is handled leaves the queue; what was due is at the head then,
\* or still due.
LEMMA HandledEvent ==
    ASSUME FollowInv, TypeOK', configQueue # <<>>, HandleDone, UNCHANGED dbSetpoints,
           \A t \in Tags : Stale(t)' => Due(t) \/ t \in Missed'
    PROVE  FollowInv'
<1>1. /\ Len(configQueue) \in Nat /\ Len(configQueue) >= 1
      /\ Len(configQueue') = Len(configQueue) - 1
      /\ \A i \in 1..Len(configQueue') : configQueue'[i] = configQueue[i + 1]
  BY QueueFacts DEF FollowInv, HandleDone
<1>2. Len(configQueue') # 0 => configQueue' # <<>>
  BY QueueFacts DEF TypeOK
<1>3. config'.pc = "idle"
  BY DEF HandleDone, IdleConfig
<1>4. ASSUME NEW t \in Tags, Due(t) PROVE Due(t)' \/ AtHead(t)'
  <2>1. PICK i \in 2..Len(configQueue) : configQueue[i].tag = t
    BY <1>4 DEF Due
  <2>2. i - 1 \in 1..Len(configQueue') /\ configQueue'[i - 1].tag = t
    BY <1>1, <2>1
  <2>3. CASE i = 2
    BY <1>1, <1>2, <2>1, <2>2, <2>3 DEF AtHead
  <2>4. CASE i # 2
    BY <1>1, <2>1, <2>2, <2>4 DEF Due
  <2> QED BY <2>3, <2>4
<1>5. ASSUME NEW t \in Tags PROVE StaleIsDue(t)'
  BY <1>3, <1>4 DEF StaleIsDue
<1>6. DeletedForGood'
  BY <1>1 DEF FollowInv, DeletedForGood
<1> QED BY <1>5, <1>6 DEF FollowInv

\* An edit that is announced.
LEMMA EditFollows ==
    ASSUME FollowInv, TypeOK', NEW t \in Tags, EditSetpoints(t) \/ DeleteTag(t),
           configQueue' # configQueue
    PROVE  FollowInv'
<1>1. PICK new, operation :
        /\ Edit(t, new, operation)
        /\ operation \in {"updated", "deleted"}
        /\ operation = "deleted" => new = Deleted
  BY DEF EditSetpoints, DeleteTag
<1> DEFINE event == [tag |-> t, operation |-> operation]
<1>2. /\ configQueue' = Append(configQueue, event) /\ dbSetpoints[t] # Deleted
      /\ dbSetpoints' = [dbSetpoints EXCEPT ![t] = new]
      /\ UNCHANGED <<setpoints, config, faulty, missed>>
  BY <1>1 DEF Edit
<1>3. dbSetpoints'[t] = new /\ \A s \in Tags : s # t => dbSetpoints'[s] = dbSetpoints[s]
  BY <1>2 DEF FollowInv, TypeOK
<1> DEFINE n == Len(configQueue)
<1>4. /\ n \in Nat /\ Len(configQueue') = n + 1
      /\ \A i \in 1..n : configQueue'[i] = configQueue[i] /\ configQueue[i] \in ConfigEvent
      /\ configQueue'[n + 1] = event
  <2>1. configQueue \in Seq(ConfigEvent) /\ event \in ConfigEvent
    BY <1>1 DEF FollowInv, TypeOK, ConfigEvent
  <2>2. n \in Nat /\ \A i \in 1..n : configQueue[i] \in ConfigEvent
    BY QueueFacts DEF FollowInv
  <2> HIDE DEF ConfigEvent, event
  <2> QED BY <1>2, <2>1, <2>2, AppendProperties
<1>5. event.tag = t /\ event.operation = operation
  OBVIOUS
<1> HIDE DEF event
<1>6. DeletedForGood'
  <2> SUFFICES ASSUME NEW i \in 1..(n + 1), configQueue'[i].operation = "deleted"
               PROVE  dbSetpoints'[configQueue'[i].tag] = Deleted
    BY <1>4 DEF DeletedForGood
  <2>1. CASE i = n + 1
    BY <1>1, <1>3, <1>4, <1>5, <2>1
  <2>2. CASE i # n + 1
    <3>1. i \in 1..n /\ configQueue'[i] = configQueue[i]
      BY <1>4, <2>2
    <3>2. dbSetpoints[configQueue[i].tag] = Deleted /\ configQueue[i].tag \in Tags
      BY <1>4, <3>1 DEF FollowInv, DeletedForGood, ConfigEvent
    <3> QED BY <1>2, <1>3, <3>1, <3>2
  <2> QED BY <2>1, <2>2
\* What was at the head or due stays so.
<1>7. configQueue # <<>> => n >= 1
  BY QueueFacts DEF FollowInv
<1>8. n >= 1 => configQueue # <<>>
  BY QueueFacts DEF FollowInv
<1>9. configQueue' # <<>>
  BY <1>4
<1>10. ASSUME NEW s \in Tags
       PROVE  /\ Due(s) => Due(s)'
              /\ AtHead(s) => AtHead(s)'
              /\ AtHead(s)' /\ config.pc # "idle" => AtHead(s)
  <2>1. Due(s) => Due(s)'
    BY <1>4 DEF Due
  <2>2. AtHead(s) => AtHead(s)'
    BY <1>4, <1>7, <1>9 DEF AtHead
  <2>3. config.pc # "idle" => configQueue # <<>>
    BY DEF FollowInv, TypeOK
  <2>4. AtHead(s)' /\ config.pc # "idle" => AtHead(s)
    BY <1>4, <1>7, <2>3 DEF AtHead
  <2> QED BY <2>1, <2>2, <2>4
<1>11. ASSUME NEW s \in Tags PROVE StaleIsDue(s)'
  <2>1. CASE s = t
    <3>1. CASE configQueue = <<>>
      <4>1. n = 0 /\ config.pc = "idle"
        BY <1>8, <1>4, <3>1 DEF FollowInv, TypeOK
      <4>2. AtHead(s)'
        BY <1>4, <1>5, <1>9, <2>1, <4>1 DEF AtHead
      <4> QED BY <1>2, <4>1, <4>2 DEF StaleIsDue
    <3>2. CASE configQueue # <<>>
      <4>1. n + 1 \in 2..Len(configQueue')
        BY <1>4, <1>7, <3>2
      <4>2. Due(s)'
        BY <1>4, <1>5, <2>1, <4>1 DEF Due
      <4> QED BY <4>2 DEF StaleIsDue
    <3> QED BY <3>1, <3>2
  <2>2. CASE s # t
    <3>1. dbSetpoints'[s] = dbSetpoints[s] /\ StaleIsDue(s)
      BY <1>3, <2>2 DEF FollowInv
    <3>2. Stale(s)' => Stale(s)
      BY <1>2, <3>1 DEF Stale
    <3> QED BY <1>2, <1>10, <3>1, <3>2 DEF StaleIsDue, Missed
  <2> QED BY <2>1, <2>2
<1> QED BY <1>6, <1>11 DEF FollowInv

\* Only an idle consumer sees its queue reordered, and it does not matter to it
\* which place the event of a tag has.
LEMMA OvertakeFollows ==
    ASSUME FollowInv, TypeOK', Overtake
    PROVE  FollowInv'
<1>1. PICK i \in 1..(Len(configQueue) - 1) :
        configQueue' = [configQueue EXCEPT ![i] = configQueue[i + 1], ![i + 1] = configQueue[i]]
  BY DEF Overtake
<1>2. /\ Len(configQueue) \in Nat /\ DOMAIN configQueue = 1..Len(configQueue)
      /\ configQueue # <<>>
  BY <1>1, QueueFacts DEF FollowInv
<1>3. UNCHANGED <<dbSetpoints, setpoints, config, missed>> /\ config.pc = "idle"
  BY DEF Overtake
<1>4. DOMAIN configQueue' = 1..Len(configQueue)
  BY <1>1, <1>2
<1>5. Len(configQueue') = Len(configQueue) /\ configQueue' # <<>>
  BY <1>1, <1>2, <1>4, QueueFacts DEF TypeOK
<1> DEFINE swap(k) == IF k = i THEN i + 1 ELSE IF k = i + 1 THEN i ELSE k
<1>6. \A k \in 1..Len(configQueue) :
        swap(k) \in 1..Len(configQueue) /\ configQueue'[k] = configQueue[swap(k)]
                                        /\ configQueue'[swap(k)] = configQueue[k]
  BY <1>1, <1>2
<1> HIDE DEF swap
<1>7. DeletedForGood'
  <2> SUFFICES ASSUME NEW k \in 1..Len(configQueue), configQueue'[k].operation = "deleted"
               PROVE  dbSetpoints[configQueue'[k].tag] = Deleted
    BY <1>3, <1>5 DEF DeletedForGood
  <2>1. swap(k) \in 1..Len(configQueue) /\ configQueue'[k] = configQueue[swap(k)]
    BY <1>6
  <2> QED BY <2>1 DEF FollowInv, DeletedForGood
<1>8. ASSUME NEW t \in Tags, Due(t) \/ AtHead(t) PROVE Due(t)' \/ AtHead(t)'
  <2>1. PICK k \in 1..Len(configQueue) : configQueue[k].tag = t
    BY <1>2, <1>8 DEF Due, AtHead
  <2>2. swap(k) \in 1..Len(configQueue') /\ configQueue'[swap(k)].tag = t
    BY <1>5, <1>6, <2>1
  <2>3. swap(k) = 1 \/ swap(k) \in 2..Len(configQueue')
    BY <1>2, <1>5, <2>2
  <2> QED BY <1>5, <2>2, <2>3 DEF Due, AtHead
<1>9. ASSUME NEW t \in Tags PROVE StaleIsDue(t)'
  <2>1. StaleIsDue(t) /\ (Stale(t)' => Stale(t))
    BY <1>3 DEF FollowInv, Stale
  <2> QED BY <1>3, <1>8, <2>1 DEF StaleIsDue, Missed
<1> QED BY <1>7, <1>9 DEF FollowInv

LEMMA HandlerFollows ==
    ASSUME FollowInv, TypeOK', HandleTagConfigChanged
    PROVE  FollowInv'
<1> DEFINE t == configQueue[1].tag
<1>0. /\ configQueue # <<>> /\ t \in Tags /\ Head(configQueue) = configQueue[1]
      /\ Len(configQueue) \in Nat /\ Len(configQueue) >= 1
      /\ DeletedForGood /\ \A s \in Tags : StaleIsDue(s)
  BY QueueFacts
  DEF FollowInv, TypeOK, HandleTagConfigChanged, HandleUpdated, StoreSetpoints, HandleDeleted,
      DeleteStates
<1>1. UNCHANGED <<dbSetpoints, faulty>>
  BY DEF HandleTagConfigChanged, HandleUpdated, StoreSetpoints, HandleDeleted,
         DeleteStates
<1>2. \A s \in Tags : AtHead(s) <=> s = t
  BY <1>0 DEF AtHead
<1>3. setpoints \in [Tags -> Setpoints] /\ config \in Config
  BY DEF FollowInv, TypeOK
<1>4. CASE HandleUpdated
  <2>1. /\ config.pc = "idle" /\ config' = [pc |-> "store", loaded |-> Effective(dbSetpoints[t])]
        /\ UNCHANGED <<setpoints, configQueue>> /\ Caught(t)
    BY <1>0, <1>4 DEF HandleUpdated, LoadSetpoint
  <2>2. config'.pc = "store" /\ config'.loaded = Effective(dbSetpoints[t])
    BY <2>1
  <2>3. ASSUME NEW s \in Tags
        PROVE  /\ Stale(s)' = Stale(s) /\ Due(s)' = Due(s) /\ AtHead(s)' = AtHead(s)
    BY <1>1, <2>1 DEF Stale, Due, AtHead
  <2>4. ASSUME NEW s \in Tags PROVE StaleIsDue(s)'
    BY <1>0, <1>1, <1>2, <2>1, <2>2, <2>3 DEF StaleIsDue, Missed, Caught
  <2>5. DeletedForGood'
    BY <1>0, <1>1, <2>1 DEF DeletedForGood
  <2> QED BY <2>4, <2>5 DEF FollowInv
<1>5. CASE StoreSetpoints
  <2>1. /\ config.pc = "store" /\ setpoints' = [setpoints EXCEPT ![t] = config.loaded]
        /\ HandleDone /\ Missed' = Missed
    BY <1>0, <1>5 DEF StoreSetpoints, Missed
  <2>2. ASSUME NEW s \in Tags, Stale(s)' PROVE Due(s) \/ s \in Missed
    <3>1. CASE s = t
      BY <1>0, <1>1, <1>2, <1>3, <2>1, <2>2, <3>1 DEF Stale, StaleIsDue
    <3>2. CASE s # t
      BY <1>0, <1>1, <1>2, <1>3, <2>1, <2>2, <3>2 DEF Stale, StaleIsDue
    <3> QED BY <3>1, <3>2
  <2> QED BY <1>0, <1>1, <2>1, <2>2, HandledEvent
<1>6. CASE HandleDeleted
  <2>1. /\ configQueue[1].operation = "deleted" /\ UNCHANGED configQueue
        /\ setpoints' = [setpoints EXCEPT ![t] = NoSetpoints]
        /\ config' = [config EXCEPT !.pc = "delete_states"]
        /\ Caught(t)
    BY <1>0, <1>6 DEF HandleDeleted
  <2>2. config'.pc = "delete_states"
    BY <1>3, <2>1 DEF Config
  <2>3. Effective(dbSetpoints[t]) = NoSetpoints
    BY <1>0, <2>1 DEF DeletedForGood, Effective
  <2>4. ASSUME NEW s \in Tags
        PROVE  /\ Due(s)' = Due(s)
               /\ Stale(s)' => Stale(s) /\ s # t
    <3>1. s # t => setpoints'[s] = setpoints[s]
      BY <1>3, <2>1
    <3>2. setpoints'[t] = NoSetpoints
      BY <1>0, <1>3, <2>1
    <3>3. s = t => ~Stale(s)'
      BY <1>1, <2>3, <3>2 DEF Stale
    <3>4. s # t => (Stale(s)' => Stale(s))
      BY <1>1, <3>1 DEF Stale
    <3> QED BY <2>1, <3>3, <3>4 DEF Due
  <2>5. ASSUME NEW s \in Tags PROVE StaleIsDue(s)'
    BY <1>0, <1>2, <2>1, <2>2, <2>4 DEF StaleIsDue, Missed, Caught
  <2>6. DeletedForGood'
    BY <1>0, <1>1, <2>1 DEF DeletedForGood
  <2> QED BY <2>5, <2>6 DEF FollowInv
<1>8. CASE DeleteStates
  <2>1. config.pc = "delete_states" /\ UNCHANGED setpoints /\ HandleDone /\ Missed' = Missed
    BY <1>8 DEF DeleteStates, Missed
  <2>2. ASSUME NEW s \in Tags, Stale(s)' PROVE Due(s) \/ s \in Missed
    BY <1>0, <1>1, <2>1, <2>2 DEF Stale, StaleIsDue
  <2> QED BY <1>0, <1>1, <2>1, <2>2, HandledEvent
<1> QED BY <1>4, <1>5, <1>6, <1>8 DEF HandleTagConfigChanged

\* A change without an event, and a reload that fails.
LEMMA MissesFollow ==
    ASSUME FollowInv, TypeOK', UNCHANGED <<setpoints, configQueue, config, notReloaded>>,
           unannounced \subseteq unannounced',
           \A t \in Tags : dbSetpoints'[t] = dbSetpoints[t] \/ t \in unannounced',
           \A t \in Tags : dbSetpoints[t] = Deleted => dbSetpoints'[t] = Deleted
    PROVE  FollowInv'
<1>1. ASSUME NEW t \in Tags PROVE StaleIsDue(t)'
  <2>1. CASE t \in Missed'
    BY <2>1 DEF StaleIsDue
  <2>2. CASE t \notin Missed'
    <3>1. dbSetpoints'[t] = dbSetpoints[t] /\ t \notin Missed /\ StaleIsDue(t)
      BY <2>2 DEF Missed, FollowInv
    <3>2. /\ Stale(t)' = Stale(t) /\ Due(t)' = Due(t) /\ AtHead(t)' = AtHead(t)
      BY <3>1 DEF Stale, Due, AtHead
    <3> QED BY <3>1, <3>2 DEF StaleIsDue
  <2> QED BY <2>1, <2>2
<1>2. DeletedForGood'
  <2>1. \A i \in 1..Len(configQueue) : configQueue[i].tag \in Tags
    BY QueueFacts DEF FollowInv, ConfigEvent
  <2> QED BY <2>1 DEF FollowInv, DeletedForGood
<1> QED BY <1>1, <1>2 DEF FollowInv

LEMMA LoadFailsFollows ==
    ASSUME FollowInv, TypeOK', LoadFails
    PROVE  FollowInv'
<1> DEFINE t == configQueue[1].tag
<1>0. /\ configQueue # <<>> /\ t \in Tags /\ Head(configQueue) = configQueue[1]
  BY QueueFacts DEF FollowInv, LoadFails
<1>1. /\ HandleDone /\ UNCHANGED <<dbSetpoints, setpoints, unannounced>>
      /\ notReloaded' = notReloaded \cup {t}
  BY <1>0 DEF LoadFails
<1>2. ASSUME NEW s \in Tags, Stale(s)' PROVE Due(s) \/ s \in Missed'
  <2>1. Stale(s) /\ StaleIsDue(s)
    BY <1>1, <1>2 DEF Stale, FollowInv
  <2>2. AtHead(s) => s = t
    BY DEF AtHead
  <2> QED BY <1>1, <2>1, <2>2 DEF StaleIsDue, Missed
<1> QED BY <1>0, <1>1, <1>2, HandledEvent

LEMMA DeleteFailsFollows ==
    ASSUME FollowInv, TypeOK', DeleteFails
    PROVE  FollowInv'
<1>1. /\ configQueue # <<>> /\ config.pc = "delete_states"
      /\ HandleDone /\ UNCHANGED <<dbSetpoints, setpoints, missed>>
  BY DEF FollowInv, TypeOK, DeleteFails
<1>2. ASSUME NEW s \in Tags, Stale(s)' PROVE Due(s) \/ s \in Missed'
  <2>1. Stale(s) /\ StaleIsDue(s)
    BY <1>1, <1>2 DEF Stale, FollowInv
  <2> QED BY <1>1, <2>1 DEF StaleIsDue, Missed
<1> QED BY <1>1, <1>2, HandledEvent

LEMMA CrashFollows ==
    ASSUME FollowInv, TypeOK', Crash
    PROVE  FollowInv'
<1>1. /\ \A t \in Tags : setpoints'[t] = Effective(dbSetpoints'[t])
      /\ config'.pc = "idle" /\ UNCHANGED <<dbSetpoints, configQueue>>
  BY DEF Crash, IdleConfig
<1>2. ASSUME NEW t \in Tags PROVE StaleIsDue(t)'
  BY <1>1 DEF StaleIsDue, Stale
<1> QED BY <1>1, <1>2 DEF FollowInv, DeletedForGood

LEMMA AppendChanges ==
    ASSUME NEW S, NEW q \in Seq(S), NEW e
    PROVE  Append(q, e) # q
<1>1. q \in Seq(S \cup {e}) /\ Len(q) \in Nat
  OBVIOUS
<1>2. Len(Append(q, e)) = Len(q) + 1
  BY <1>1, AppendProperties
<1> QED BY <1>1, <1>2

LEMMA StepFollows == FollowInv /\ [Next]_vars => FollowInv'
<1> SUFFICES ASSUME FollowInv, [Next]_vars PROVE FollowInv'
  OBVIOUS
<1>0. TypeOK'
  BY StepType DEF FollowInv
<1>1. CASE UNCHANGED <<configs, missed>>
  BY <1>0, <1>1 DEF FollowInv, DeletedForGood, StaleIsDue, Missed, Stale, Due, AtHead
<1>2. ASSUME NEW t \in Tags, EditSetpoints(t) \/ DeleteTag(t) PROVE FollowInv'
  <2>1. CASE ~UNCHANGED configQueue
    BY <1>0, <1>2, <2>1, EditFollows
  <2>2. CASE UNCHANGED configQueue
    <3>1. PICK new, operation : Edit(t, new, operation)
      BY <1>2 DEF EditSetpoints, DeleteTag
    <3>2. /\ unannounced' = unannounced \cup {t} /\ dbSetpoints[t] # Deleted
          /\ dbSetpoints' = [dbSetpoints EXCEPT ![t] = new]
          /\ UNCHANGED <<setpoints, configQueue, config, notReloaded>>
      <4>1. configQueue' # Append(configQueue, [tag |-> t, operation |-> operation])
        BY <2>2, AppendChanges DEF FollowInv, TypeOK
      <4> QED BY <2>2, <3>1, <4>1 DEF Edit
    <3>3. /\ dbSetpoints \in [Tags -> SetpointChoices \cup {Deleted}]
          /\ \A s \in Tags \ {t} : dbSetpoints'[s] = dbSetpoints[s]
      BY <3>2 DEF FollowInv, TypeOK
    <3> QED BY <1>0, <3>2, <3>3, MissesFollow
  <2> QED BY <2>1, <2>2
<1>3. ASSUME NEW tags \in SUBSET Tags, DeleteWithTags(tags) PROVE FollowInv'
  <2>1. /\ \A t \in Tags : dbSetpoints'[t] = IF t \in tags THEN Deleted ELSE dbSetpoints[t]
        /\ unannounced' = unannounced \cup {t \in tags : dbSetpoints[t] # Deleted}
        /\ UNCHANGED <<setpoints, configQueue, config, notReloaded>>
    BY <1>3 DEF DeleteWithTags
  <2> QED BY <1>0, <2>1, MissesFollow
<1>4. CASE \/ HandleTagConfigChanged \/ LoadFails \/ DeleteFails \/ Overtake \/ Crash
  BY <1>0, <1>4, HandlerFollows, LoadFailsFollows, DeleteFailsFollows, OvertakeFollows,
     CrashFollows
<1> QED
  BY <1>1, <1>2, <1>3, <1>4
  DEF Next, IngestValue, GetState, UpsertState, ApplyTransition, StatementFails, StartIngest,
      RunCommLossScanner, ListCommLossCandidates, ScanNext, Elapse

\* The engine evaluates a tag against the setpoints that are stored, or will take up
\* an event of the tag, in whatever order the events arrive, however often a tag is
\* edited while an older version of it is being loaded, and through restarts; except
\* for a tag that was changed without an event, or whose reload failed, until the
\* next event of the tag or the next restart.
THEOREM SetpointsFollow == Spec => []SetpointsCurrent
<1>1. Init => FollowInv
  <2> SUFFICES ASSUME Init PROVE FollowInv
    OBVIOUS
  <2>1. TypeOK /\ configQueue = <<>> /\ Len(configQueue) = 0
    BY InitType DEF Init
  <2>2. \A t \in Tags : ~Stale(t) /\ ~AtHead(t)
    BY <2>1, NoValuesAssumption, SetpointChoicesAssumption
    DEF Init, Stale, AtHead, Effective
  <2> QED BY <2>1, <2>2 DEF FollowInv, DeletedForGood, StaleIsDue
<1>2. FollowInv => SetpointsCurrent
  <2> SUFFICES ASSUME FollowInv, NEW t \in Tags, t \notin Missed, Stale(t)
               PROVE  Awaited(t)
    BY DEF SetpointsCurrent, Stale, Missed
  <2>1. Due(t) \/ AtHead(t)
    BY DEF FollowInv, StaleIsDue
  <2>2. Len(configQueue) \in Nat /\ (configQueue # <<>> => Len(configQueue) >= 1)
    BY QueueFacts DEF FollowInv
  <2> QED BY <2>1, <2>2 DEF Due, AtHead, Awaited
<1> QED BY <1>1, <1>2, StepFollows, PTL DEF Spec

-----------------------------------------------------------------------------
(* One tag under an arbitrary signal: AlarmTag.  The setpoints need not be    *)
(* validated for what is proved here.                                         *)

\* What an editor may give the tag are setpoints.
LEMMA TagSetpoints == ValidSetpoints \subseteq Setpoints
BY ValidSetpointsAssumption DEF Setpoints, Level

\* The margin is a product of two constants: it is kept folded from here on.
LEMMA MarginType ==
    ASSUME NEW s \in Setpoints
    PROVE  Margin(s) \in Nat
<1> DEFINE span == IF Span(s.hihi, s.lolo) > 0 THEN Span(s.hihi, s.lolo)
                   ELSE IF Span(s.hi, s.lo) > 0 THEN Span(s.hi, s.lo) ELSE 1
<1>1. span \in Nat
  <2>1. \A a, b \in Level : Span(a, b) \in Nat
    BY DEF Span, Abs, Level
  <2>2. s.hihi \in Level /\ s.lolo \in Level /\ s.hi \in Level /\ s.lo \in Level
    BY DEF Setpoints
  <2> QED BY <2>1, <2>2
<1>2. HysteresisPercent \in Nat
  BY PercentAssumption
<1>3. Margin(s) = HysteresisPercent * span
  BY DEF Margin
<1> HIDE DEF span
<1>4. \A m, n \in Nat : m * n \in Nat
  OBVIOUS
<1> QED BY <1>1, <1>2, <1>3, <1>4

\* What Resolve answers says which threshold the value has passed.
LEMMA ResolveReason ==
    ASSUME NEW v \in Level, NEW q \in Qualities, NEW s \in Setpoints
    PROVE  LET next == Resolve(v, q, s)
           IN  /\ next \in HighStates => Reaches(v, s[next])
               /\ next \in LowStates => FallsTo(v, s[next])
               /\ next = "ok" => v \in Int
               /\ (next \in HighStates \cup LowStates => v \in Int)
BY DEF Resolve, HighStates, LowStates, QualityStates, Qualities, Setpoints, Level

\* A reading leaves a level state for the threshold its value has passed, or for
\* the margin of the outermost one.
LEMMA LevelHasReason ==
    ASSUME NEW prev \in AlarmStates, NEW v \in Level, NEW q \in Qualities, NEW s \in Setpoints
    PROVE  LET next == Evaluate(prev, v, q, s)
           IN  /\ next \in HighStates =>
                    \/ Reaches(v, s[next])
                    \/ /\ FirstLevel(s.hihi, s.hi) # NoLevel
                       /\ 100 * FirstLevel(s.hihi, s.hi) - 100 * v < Margin(s)
               /\ next \in LowStates =>
                    \/ FallsTo(v, s[next])
                    \/ /\ FirstLevel(s.lolo, s.lo) # NoLevel
                       /\ 100 * v - 100 * FirstLevel(s.lolo, s.lo) < Margin(s)
               /\ next # prev => next = Resolve(v, q, s)
<1> DEFINE answer == Resolve(v, q, s)
           next == Evaluate(prev, v, q, s)
           high == FirstLevel(s.hihi, s.hi)
           low == FirstLevel(s.lolo, s.lo)
<1>1. Margin(s) \in Int
  BY MarginType
<1>2. high \in Level /\ low \in Level
  BY DEF FirstLevel, Setpoints
<1>3. CASE next = answer
  BY <1>3, ResolveReason
<1>4. CASE next # answer
  <2>1. next = prev /\ KeepsPrevious(prev, answer, v, s)
    BY <1>4 DEF Evaluate
  <2>2. v \in Int
    BY <2>1 DEF KeepsPrevious, Level
  <2>3. next \notin HighStates \/ next \notin LowStates
    BY DEF HighStates, LowStates
  <2>4. next \in HighStates => high # NoLevel /\ 100 * v > 100 * high - Margin(s)
    BY <2>1, <2>3 DEF KeepsPrevious
  <2>5. next \in LowStates => low # NoLevel /\ 100 * v < 100 * low + Margin(s)
    BY <2>1, <2>3 DEF KeepsPrevious
  <2>6. next \in HighStates => high # NoLevel /\ 100 * high - 100 * v < Margin(s)
    <3> HIDE DEF high, next
    <3>1. high # NoLevel => high \in Int
      BY <1>2 DEF Level
    <3> QED BY <1>1, <2>2, <2>4, <3>1
  <2>7. next \in LowStates => low # NoLevel /\ 100 * v - 100 * low < Margin(s)
    <3> HIDE DEF low, next
    <3>1. low # NoLevel => low \in Int
      BY <1>2 DEF Level
    <3> QED BY <1>1, <2>2, <2>5, <3>1
  <2> QED BY <2>1, <2>6, <2>7
<1> QED BY <1>3, <1>4

\* The value that raised the present level state has passed the threshold of that
\* state, as long as the setpoints are those it was raised under.
TagRaised ==
    raisedAt # NoLevel =>
        /\ state \in HighStates => Reaches(raisedAt, sp[state])
        /\ state \in LowStates => FallsTo(raisedAt, sp[state])

TagInv == TagTypeOK /\ TagRaised /\ LevelAlarmJustified

LEMMA TagStarts == TagInit => TagInv
BY DEF TagInit, TagInv, TagTypeOK, TagRaised, LevelAlarmJustified, GoodReading,
       AlarmStates, Level, Qualities

LEMMA TagReads ==
    ASSUME TagInv, NEW v \in Level, NEW q \in Qualities, Read(v, q)
    PROVE  TagInv'
<1> DEFINE next == Evaluate(state, v, q, sp)
<1>1. /\ sp \in Setpoints /\ sp \in ValidSetpoints
      /\ state \in AlarmStates /\ raisedAt \in Level
  BY TagSetpoints DEF TagInv, TagTypeOK
<1>2. /\ state' = next /\ value' = v /\ quality' = q /\ settled' = TRUE
      /\ sp' = sp
      /\ raisedAt' = IF next # state THEN v ELSE raisedAt
  BY DEF Read
<1>3. next \in AlarmStates
  BY <1>1, EvaluateType
<1>4. TagTypeOK'
  BY <1>1, <1>2, <1>3 DEF TagTypeOK
<1>5. TagRaised'
  <2>1. CASE next = state
    BY <1>2, <2>1 DEF TagInv, TagRaised
  <2>2. CASE next # state
    <3>1. next = Resolve(v, q, sp)
      BY <1>1, <2>2, LevelHasReason
    <3>2. /\ next \in HighStates => Reaches(v, sp[next])
          /\ next \in LowStates => FallsTo(v, sp[next])
      BY <1>1, <3>1, ResolveReason
    <3> HIDE DEF next
    <3> QED BY <1>2, <2>2, <3>2 DEF TagRaised
  <2> QED BY <2>1, <2>2
<1>6. LevelAlarmJustified'
  <2>1. /\ next \in HighStates =>
             \/ Reaches(v, sp[next])
             \/ /\ FirstLevel(sp.hihi, sp.hi) # NoLevel
                /\ 100 * FirstLevel(sp.hihi, sp.hi) - 100 * v
                     < Margin(sp)
        /\ next \in LowStates =>
             \/ FallsTo(v, sp[next])
             \/ /\ FirstLevel(sp.lolo, sp.lo) # NoLevel
                /\ 100 * v - 100 * FirstLevel(sp.lolo, sp.lo)
                     < Margin(sp)
    BY <1>1, LevelHasReason
  <2>2. /\ next \in HighStates /\ Reaches(v, sp[next]) => next \in Crossed'
        /\ next \in LowStates /\ FallsTo(v, sp[next]) => next \in Crossed'
    <3> HIDE DEF next
    <3> QED BY <1>2 DEF Crossed, Reaches, FallsTo
  <2> HIDE DEF next
  <2> QED BY <1>2, <2>1, <2>2 DEF LevelAlarmJustified
<1> QED BY <1>4, <1>5, <1>6 DEF TagInv

LEMMA TagSteps == TagInv /\ [TagNext]_tagVars => TagInv'
<1> SUFFICES ASSUME TagInv, [TagNext]_tagVars PROVE TagInv'
  OBVIOUS
<1>1. CASE \E v \in Values, q \in Qualities : Read(v, q)
  BY <1>1, TagReads, ValuesAssumption
<1>2. CASE ReplaceSetpoints
  <2>1. TagTypeOK'
    BY <1>2 DEF TagInv, TagTypeOK, ReplaceSetpoints, Level
  <2>2. TagRaised'
    BY <1>2 DEF ReplaceSetpoints, TagRaised
  <2>3. LevelAlarmJustified'
    BY <1>2 DEF ReplaceSetpoints, LevelAlarmJustified, GoodReading
  <2> QED BY <2>1, <2>2, <2>3 DEF TagInv
<1>3. CASE UNCHANGED tagVars
  BY <1>3 DEF tagVars, TagInv, TagTypeOK, TagRaised, LevelAlarmJustified, GoodReading,
              Crossed
<1> QED BY <1>1, <1>2, <1>3 DEF TagNext

\* A level alarm always has a reason in the setpoints of the moment, whatever
\* values, qualities and edits come: EvaluateAlarmState keeps a state only while
\* the value is within the margin of a threshold that is still set.
THEOREM TagJustified == TagSpec => []LevelAlarmJustified
<1>1. TagInv => LevelAlarmJustified
  BY DEF TagInv
<1> QED BY <1>1, TagStarts, TagSteps, PTL DEF TagSpec

\* A step that clears a level alarm leaves the value a margin away from the one
\* that raised it.
LEMMA ClearsAfterMargin ==
    ASSUME TagInv, [TagNext]_tagVars, state \in HighStates \cup LowStates,
           OneThreshold, raisedAt # NoLevel, state' = "ok"
    PROVE  Abs(100 * raisedAt - 100 * value') >= Margin(sp)
<1> DEFINE margin == Margin(sp)
           level == sp[state]
<1>1. /\ sp \in Setpoints /\ state \in AlarmStates
      /\ raisedAt \in Int
  BY TagSetpoints DEF TagInv, TagTypeOK, Level
<1>2. margin \in Nat
  BY <1>1, MarginType
<1>3. PICK v \in Level, q \in Qualities : Read(v, q)
  BY ValuesAssumption DEF TagNext, ReplaceSetpoints, tagVars, HighStates, LowStates
<1>4. /\ value' = v
      /\ Evaluate(state, v, q, sp) = "ok"
  BY <1>3 DEF Read
<1>5. state # "ok"
  BY DEF HighStates, LowStates
<1>6. /\ Resolve(v, q, sp) = "ok"
      /\ ~KeepsPrevious(state, "ok", v, sp)
  BY <1>4, <1>5 DEF Evaluate
<1>7. v \in Int /\ v # NoLevel
  BY <1>1, <1>6, ResolveReason, NoLevelAssumption
<1>8. CASE state \in HighStates
  <2>1. level # NoLevel /\ raisedAt >= level
    BY <1>8 DEF TagInv, TagRaised, Reaches
  <2>2. FirstLevel(sp.hihi, sp.hi) = level
    BY <1>8, <2>1 DEF OneThreshold, FirstLevel, HighStates
  <2>3. level \in Int
    BY <1>1, <1>8, <2>1 DEF Setpoints, HighStates, Level
  <2>4. ~(100 * v > 100 * level - margin)
    BY <1>6, <1>7, <1>8, <2>1, <2>2 DEF KeepsPrevious
  <2> HIDE DEF level, margin
  <2> QED BY <1>1, <1>2, <1>4, <1>7, <2>1, <2>3, <2>4 DEF Abs, margin
<1>9. CASE state \in LowStates
  <2>1. level # NoLevel /\ raisedAt <= level
    BY <1>9 DEF TagInv, TagRaised, FallsTo
  <2>2. FirstLevel(sp.lolo, sp.lo) = level
    BY <1>9, <2>1 DEF OneThreshold, FirstLevel, LowStates
  <2>3. level \in Int
    BY <1>1, <1>9, <2>1 DEF Setpoints, LowStates, Level
  <2>4. ~(100 * v < 100 * level + margin)
    BY <1>6, <1>7, <1>9, <2>1, <2>2 DEF KeepsPrevious
  <2> HIDE DEF level, margin
  <2> QED BY <1>1, <1>2, <1>4, <1>7, <2>1, <2>3, <2>4 DEF Abs, margin
<1> QED BY <1>8, <1>9

\* No chatter: between the value that raised a level alarm and the one that clears
\* it lies at least the hysteresis margin, on a side with one threshold.
THEOREM TagClears == TagSpec => ClearedAfterMargin
<1>1. TagInv /\ [TagNext]_tagVars =>
        [(/\ state \in HighStates \cup LowStates
          /\ OneThreshold
          /\ raisedAt # NoLevel
          /\ state' = "ok")
         => Abs(100 * raisedAt - 100 * value') >= Margin(sp)]_tagVars
  BY ClearsAfterMargin
<1> QED BY <1>1, TagStarts, TagSteps, PTL DEF TagSpec, ClearedAfterMargin

=============================================================================
