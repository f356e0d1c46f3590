----------------------------- MODULE AlarmEngine -----------------------------
(***************************************************************************)
(* The alarm engine of ms-viewer: AlarmUseCase over the tables of the      *)
(* alarms schema.  Three actors share the tables without a common lock:    *)
(*   - the ingest goroutine, which puts every reading through IngestValue; *)
(*   - the comm-loss scanner, which puts tags it found silent through the  *)
(*     same IngestValue;                                                   *)
(*   - the config.changed consumer, which reloads a tag's setpoints or     *)
(*     deletes its rows.                                                   *)
(* A step is one statement or transaction on the database, since those are *)
(* what the database makes atomic; IngestValue is up to three of them.     *)
(*                                                                         *)
(* Operators change nothing here: Acknowledge and AcknowledgeBulk read     *)
(* alarms.states LEFT JOIN alarms.acks ... FOR UPDATE, a query PostgreSQL   *)
(* rejects (it locks no row of the nullable side of an outer join), so     *)
(* every acknowledgement ends in an error and alarms.acks stays empty.     *)
(*                                                                         *)
(* Time is abstracted to one bit per row, whether its last_seen_at is      *)
(* within commLossTimeout; Elapse is the passing of that timeout.          *)
(***************************************************************************)
EXTENDS AlarmEvaluator, Sequences

CONSTANTS
    Tags, NoTag,
    Readings,         \* the readings ingested: [value, quality]
    SetpointChoices,  \* what an editor may set
    NoRow, NoEvent, Deleted,
    Failures,         \* whether statements fail and the process crashes: a behaviour
                      \* takes one of these
    MaxReadings,      \* bound: readings ingested
    MaxEdits          \* bound: edits of the configuration

ASSUME ReadingsAssumption == Readings \subseteq [value : Level, quality : Qualities]
ASSUME SetpointChoicesAssumption == SetpointChoices \subseteq Setpoints
ASSUME FailuresAssumption == Failures \subseteq BOOLEAN
ASSUME BoundsAssumption == MaxReadings \in Nat /\ MaxEdits \in Nat
ASSUME NoValuesAssumption ==
    /\ NoTag \notin Tags
    /\ Deleted \notin Setpoints

Row   == [state : AlarmStates, recent : BOOLEAN]
Event == [from : AlarmStates, to : AlarmStates]
ASSUME NoRowAssumption == NoRow \notin Row /\ NoEvent \notin Event

Writers == {"ingest", "scanner"}

\* The local variables of one call of IngestValue.
\* "first" is the transition of a tag whose row the call has just inserted.
Job == [pc : {"idle", "get", "upsert", "apply", "first"}, tag : Tags \cup {NoTag},
        value : Level, quality : Qualities, recent : BOOLEAN,
        prev : AlarmStates, next : AlarmStates]

NewJob(pc, t, value, quality, recent) ==
    [pc |-> pc, tag |-> t, value |-> value, quality |-> quality, recent |-> recent,
     prev |-> "ok", next |-> "ok"]

Idle == NewJob("idle", NoTag, NoLevel, "ok", FALSE)

ConfigEvent == [tag : Tags, operation : {"updated", "deleted"}]

VARIABLES
    states,       \* alarms.states
    lastEvent,    \* alarms.events: the last transition of each tag
    job,          \* the IngestValue call of each writer
    candidates,   \* what the scanner has left of its list
    dbSetpoints,  \* tags.tag_setpoints
    setpoints,    \* AlarmUseCase.setpointsByTag
    configQueue,  \* config.changed, not yet committed by the viewer's consumer,
                  \* in the order in which it will be read
    config,       \* the consumer's HandleTagConfigChanged: pc and what it loaded
    readings,     \* number of readings ingested, up to MaxReadings
    edits,        \* number of edits, up to MaxEdits
    faulty,       \* whether statements fail and the process crashes
    \* History, read by no action:
    overtaken,    \* the calls whose row another call has written since GetState
    unreported,   \* the tags whose row an overtaken call wrote, or whose first
                  \* transition was cut off, without a transition since
    unannounced,  \* the tags changed without an event, and not reloaded since
    notReloaded   \* the tags whose reload failed, and not reloaded since

tables   == <<states, lastEvent>>
configs  == <<dbSetpoints, setpoints, configQueue, config>>
counters == <<readings, edits, faulty>>
calls    == <<overtaken, unreported>>
missed   == <<unannounced, notReloaded>>
vars     == <<tables, job, candidates, configs, counters, calls, missed>>

Config == [pc : {"idle", "store", "delete_states"}, loaded : Setpoints]
IdleConfig == [pc |-> "idle", loaded |-> NoSetpoints]

\* Setpoints that are not stored count as none set.
Effective(s) == IF s = Deleted THEN NoSetpoints ELSE s

Init ==
    /\ states = [t \in Tags |-> NoRow]
    /\ lastEvent = [t \in Tags |-> NoEvent]
    /\ job = [w \in Writers |-> Idle]
    /\ candidates = {}
    /\ dbSetpoints \in [Tags -> SetpointChoices]
    /\ setpoints = dbSetpoints
    /\ configQueue = <<>>
    /\ config = IdleConfig
    /\ readings = 0
    /\ edits = 0
    /\ faulty \in Failures
    /\ overtaken = {} /\ unreported = {}
    /\ unannounced = {} /\ notReloaded = {}

-----------------------------------------------------------------------------
(* IngestValue *)

\* The ingest pipeline hands over a reading; one that was queued or delivered
\* again may be older than the comm-loss timeout.
StartIngest ==
    /\ job["ingest"].pc = "idle"
    /\ readings < MaxReadings
    /\ \E t \in Tags, r \in Readings, recent \in BOOLEAN :
         job' = [job EXCEPT !["ingest"] = NewJob("get", t, r.value, r.quality, recent)]
    /\ readings' = readings + 1
    /\ UNCHANGED <<tables, candidates, configs, edits, faulty, calls, missed>>

AlwaysUpsert(row, prev, next) == "upsert"                        \* mutant
FirstWrite(row, prev, next) ==
    IF row = NoRow \/ next = prev THEN "upsert" ELSE "apply"

\* GetState, getSetpoints and EvaluateAlarmState.  A tag without a row counts
\* as ok.
GetState(w) ==
    LET j    == job[w]
        row  == states[j.tag]
        prev == IF row = NoRow THEN "ok" ELSE row.state
        next == Evaluate(prev, j.value, j.quality, setpoints[j.tag])
    IN  /\ j.pc = "get"
        /\ job' = [job EXCEPT ![w] =
                     [j EXCEPT !.prev = prev, !.next = next,
                               !.pc = FirstWrite(row, prev, next)]]
        /\ overtaken' = overtaken \ {w}
        /\ UNCHANGED <<tables, candidates, configs, counters, unreported, missed>>

RowFor(j) == [state |-> j.next, recent |-> j.recent]

\* The other calls for the tag of w's: they have read, or will, another row.
OvertakenBy(w) == {v \in Writers \ {w} : job[v].tag = job[w].tag}

EndsAtUpsert(j) == Idle                                          \* mutant
AfterUpsert(j) == IF j.next = j.prev THEN Idle ELSE [j EXCEPT !.pc = "first"]

\* UpsertState: the first reading of a tag, or a reading that changes nothing.
\* The former goes on to ApplyTransition if it leaves ok.
UpsertState(w) ==
    LET j == job[w]
    IN  /\ j.pc = "upsert"
        /\ states' = [states EXCEPT ![j.tag] = RowFor(j)]
        /\ job' = [job EXCEPT ![w] = AfterUpsert(j)]
        /\ overtaken' = overtaken \cup OvertakenBy(w)
        /\ unreported' = unreported \cup {j.tag : v \in overtaken \cap {w}}
        /\ UNCHANGED <<lastEvent, candidates, configs, counters, missed>>

\* ApplyTransition, one transaction: the row and the event.
ApplyTransition(w) ==
    LET j == job[w]
    IN  /\ j.pc \in {"apply", "first"}
        /\ states' = [states EXCEPT ![j.tag] = RowFor(j)]
        /\ lastEvent' = [lastEvent EXCEPT ![j.tag] = [from |-> j.prev, to |-> j.next]]
        /\ job' = [job EXCEPT ![w] = Idle]
        /\ overtaken' = overtaken \cup OvertakenBy(w)
        /\ unreported' = unreported \ {j.tag}
        /\ UNCHANGED <<candidates, configs, counters, missed>>

CutOff(writers) == {job[w].tag : w \in {w \in writers : job[w].pc = "first"}}

\* A statement of IngestValue fails.  The pipeline ingests the batch again; the
\* scanner only logs.
StatementFails(w) ==
    /\ faulty
    /\ job[w].pc # "idle"
    /\ job' = [job EXCEPT ![w] = IF w = "ingest" THEN [@ EXCEPT !.pc = "get"] ELSE Idle]
    /\ unreported' = unreported \cup CutOff({w})
    /\ UNCHANGED <<tables, candidates, configs, counters, overtaken, missed>>

-----------------------------------------------------------------------------
(* RunCommLossScanner *)

SilentWhenOk(t) ==                                               \* mutant
    states[t] # NoRow /\ ~states[t].recent /\ states[t].state = "ok"
Silent(t) ==
    /\ states[t] # NoRow
    /\ ~states[t].recent
    /\ states[t].state \notin {"comm_loss", "offline"}

ListCommLossCandidates ==
    /\ job["scanner"].pc = "idle"
    /\ candidates = {}
    /\ candidates' = {t \in Tags : Silent(t)}
    /\ candidates' # {}
    /\ UNCHANGED <<tables, job, configs, counters, calls, missed>>

\* The next candidate goes through IngestValue with quality comm_loss, now.
ScanNext ==
    /\ job["scanner"].pc = "idle"
    /\ \E t \in candidates :
         /\ candidates' = candidates \ {t}
         /\ job' = [job EXCEPT !["scanner"] = NewJob("get", t, NoLevel, "comm_loss", TRUE)]
    /\ UNCHANGED <<tables, configs, counters, calls, missed>>

\* commLossTimeout passes without anything new about t.
Elapse(t) ==
    /\ states[t] # NoRow
    /\ states[t].recent
    /\ states' = [states EXCEPT ![t].recent = FALSE]
    /\ job' = [w \in Writers |-> IF job[w].tag = t THEN [job[w] EXCEPT !.recent = FALSE]
                                 ELSE job[w]]
    /\ UNCHANGED <<lastEvent, candidates, configs, counters, calls, missed>>

-----------------------------------------------------------------------------
(* Configuration: ms-editor's commit and its config.changed event, then    *)
(* HandleTagConfigChanged.                                                 *)

\* publishTagEvent comes after the commit, and only logs when it fails.
Edit(t, new, operation) ==
    /\ edits < MaxEdits
    /\ dbSetpoints[t] # Deleted
    /\ dbSetpoints' = [dbSetpoints EXCEPT ![t] = new]
    /\ \/ /\ configQueue' = Append(configQueue, [tag |-> t, operation |-> operation])
          /\ UNCHANGED unannounced
       \/ /\ faulty
          /\ unannounced' = unannounced \cup {t}
          /\ UNCHANGED configQueue
    /\ edits' = edits + 1
    /\ UNCHANGED <<tables, job, candidates, setpoints, config, readings, faulty, calls,
                   notReloaded>>

EditSetpoints(t) == \E new \in SetpointChoices : Edit(t, new, "updated")
DeleteTag(t)     == Edit(t, Deleted, "deleted")

\* DeleteDevice and DeleteMonitoringObject soft-delete the tags beneath what they
\* delete, and publish an event of the device or the object alone, which the
\* viewer does not pass on to the alarm engine.
DeleteWithTags(tags) ==
    /\ edits < MaxEdits
    /\ \E t \in tags : dbSetpoints[t] # Deleted
    /\ dbSetpoints' = [t \in Tags |-> IF t \in tags THEN Deleted ELSE dbSetpoints[t]]
    /\ unannounced' = unannounced \cup {t \in tags : dbSetpoints[t] # Deleted}
    /\ edits' = edits + 1
    /\ UNCHANGED <<tables, job, candidates, setpoints, configQueue, config, readings, faulty,
                   calls, notReloaded>>

\* No producer of the system sets a balancer, so the events go to the partitions
\* of the topic in turn, and one of a partition may overtake one of another.
Overtake ==
    /\ config.pc = "idle"
    /\ \E i \in 1..(Len(configQueue) - 1) :
         configQueue' = [configQueue EXCEPT ![i] = configQueue[i + 1],
                                            ![i + 1] = configQueue[i]]
    /\ UNCHANGED <<tables, job, candidates, dbSetpoints, setpoints, config, counters, calls,
                   missed>>

\* What LoadSetpoint returns for a tag.
CachedSetpoints(t) == setpoints[t]                               \* mutant
LoadSetpoint(t) == Effective(dbSetpoints[t])

\* The message at the head stays uncommitted until it is handled.
DoneButBusy == configQueue' = Tail(configQueue) /\ UNCHANGED config    \* mutant
HandleDone == configQueue' = Tail(configQueue) /\ config' = IdleConfig

\* The handler starts over with what the database has of t.
Caught(t) == unannounced' = unannounced \ {t} /\ notReloaded' = notReloaded \ {t}

HandleUpdated ==
    /\ config.pc = "idle"
    /\ configQueue # <<>>
    /\ Head(configQueue).operation = "updated"
    /\ config' = [pc |-> "store", loaded |-> LoadSetpoint(Head(configQueue).tag)]
    /\ Caught(Head(configQueue).tag)
    /\ UNCHANGED <<tables, job, candidates, dbSetpoints, setpoints, configQueue, counters, calls>>

\* LoadSetpoint fails: a warning, and the message is committed.
LoadFails ==
    /\ faulty
    /\ config.pc = "idle"
    /\ configQueue # <<>>
    /\ Head(configQueue).operation = "updated"
    /\ HandleDone
    /\ notReloaded' = notReloaded \cup {Head(configQueue).tag}
    /\ UNCHANGED <<tables, job, candidates, dbSetpoints, setpoints, counters, calls, unannounced>>

StoreSetpoints ==
    /\ config.pc = "store"
    /\ setpoints' = [setpoints EXCEPT ![Head(configQueue).tag] = config.loaded]
    /\ HandleDone
    /\ UNCHANGED <<tables, job, candidates, dbSetpoints, counters, calls, missed>>

HandleDeleted ==
    /\ config.pc = "idle"
    /\ configQueue # <<>>
    /\ Head(configQueue).operation = "deleted"
    /\ setpoints' = [setpoints EXCEPT ![Head(configQueue).tag] = NoSetpoints]
    /\ config' = [config EXCEPT !.pc = "delete_states"]
    /\ Caught(Head(configQueue).tag)
    /\ UNCHANGED <<tables, job, candidates, dbSetpoints, configQueue, counters, calls>>

\* DeleteByTagID; alarms.acks, which it clears first, is empty.
DeleteStates ==
    /\ config.pc = "delete_states"
    /\ states' = [states EXCEPT ![Head(configQueue).tag] = NoRow]
    /\ HandleDone
    /\ UNCHANGED <<lastEvent, job, candidates, dbSetpoints, setpoints, counters, calls, missed>>

\* The error of DeleteByTagID is dropped.
DeleteFails ==
    /\ faulty
    /\ config.pc = "delete_states"
    /\ HandleDone
    /\ UNCHANGED <<tables, job, candidates, dbSetpoints, setpoints, counters, calls, missed>>

\* The process dies and starts again: Initialize loads all setpoints; Kafka
\* delivers the reading and the config event that were not committed again.
Crash ==
    /\ faulty
    /\ job' = [w \in Writers |-> IF w = "ingest" /\ job[w].pc # "idle"
                                 THEN [job[w] EXCEPT !.pc = "get"] ELSE Idle]
    /\ candidates' = {}
    /\ setpoints' = [t \in Tags |-> Effective(dbSetpoints[t])]
    /\ config' = IdleConfig
    /\ unreported' = unreported \cup CutOff(Writers)
    /\ unannounced' = {} /\ notReloaded' = {}
    /\ UNCHANGED <<tables, dbSetpoints, configQueue, counters, overtaken>>

IngestValue(w) == GetState(w) \/ UpsertState(w) \/ ApplyTransition(w)

HandleTagConfigChanged ==
    \/ HandleUpdated \/ StoreSetpoints
    \/ HandleDeleted \/ DeleteStates

RunCommLossScanner == ListCommLossCandidates \/ ScanNext

Next ==
    \/ StartIngest
    \/ RunCommLossScanner
    \/ \E w \in Writers : IngestValue(w) \/ StatementFails(w)
    \/ \E t \in Tags : Elapse(t) \/ EditSetpoints(t) \/ DeleteTag(t)
    \/ \E tags \in SUBSET Tags : DeleteWithTags(tags)
    \/ HandleTagConfigChanged
    \/ LoadFails \/ DeleteFails
    \/ Overtake
    \/ Crash

Spec == Init /\ [][Next]_vars

\* The goroutines keep running, time passes.  Nobody has to edit or send
\* readings.
Fairness ==
    /\ \A w \in Writers : WF_vars(IngestValue(w))
    /\ WF_vars(RunCommLossScanner)
    /\ WF_vars(HandleTagConfigChanged)
    /\ \A t \in Tags : WF_vars(Elapse(t))

FairSpec == Spec /\ Fairness

-----------------------------------------------------------------------------
TypeOK ==
    /\ states \in [Tags -> Row \cup {NoRow}]
    /\ lastEvent \in [Tags -> Event \cup {NoEvent}]
    /\ job \in [Writers -> Job]
    /\ \A w \in Writers : job[w].pc # "idle" => job[w].tag \in Tags
    /\ candidates \subseteq Tags
    /\ dbSetpoints \in [Tags -> SetpointChoices \cup {Deleted}]
    /\ setpoints \in [Tags -> Setpoints]
    /\ configQueue \in Seq(ConfigEvent)
    /\ config \in Config
    /\ config.pc # "idle" => configQueue # <<>>
    /\ readings \in 0..MaxReadings
    /\ edits \in 0..MaxEdits
    /\ faulty \in Failures
    /\ overtaken \subseteq Writers /\ unreported \subseteq Tags
    /\ unannounced \subseteq Tags /\ notReloaded \subseteq Tags

State(t) == IF states[t] = NoRow THEN "ok" ELSE states[t].state

Changes(t) ==
    states[t] # NoRow /\ states'[t] # NoRow /\ states'[t].state # states[t].state

Recorded(t) == lastEvent'[t] = [from |-> states[t].state, to |-> states'[t].state]

\* Whoever replaces the state in a tag's row by another puts the transition in the
\* event history, from the one to the other; only a call that another call for the
\* tag has overtaken since it read the row replaces what it does not know of.
EveryChangeRecorded ==
    [][ \A t \in Tags :
          Changes(t) => \/ Recorded(t)
                        \/ \E w \in overtaken : job[w].tag = t /\ job'[w] # job[w] ]_vars

\* What specs/0033 says of transitions: the row and the event, in one transaction.
\* It does not hold: the comm-loss scanner and the ingest goroutine overlap.
NoSilentChange == [][ \A t \in Tags : Changes(t) => Recorded(t) ]_vars

LastEventRaised(t) == lastEvent[t] # NoEvent /\ lastEvent[t].to = State(t)

\* Between the two writes of a tag's first transition its row is ahead of its history.
BetweenWrites(t) == \E w \in Writers : job[w].tag = t /\ job[w].pc = "first"

\* A tag in alarm has been reported: the last event of its history raised the state
\* it is in, whatever calls overlap, fail and are retried.  The tags that are
\* exempt until their next transition are those an overtaken call wrote to, and
\* those whose first transition failed, or was lost in a crash, after the row was
\* written.
ActiveAlarmRaised ==
    \A t \in Tags \ unreported :
        State(t) # "ok" /\ ~BetweenWrites(t) => LastEventRaised(t)

\* The same of every tag no call is at work on, as specs/0033 has it.  It does not
\* hold: the retry of a first reading finds the row in the new state, and raises
\* nothing.
EveryAlarmRaised ==
    \A t \in Tags :
        State(t) # "ok" /\ (\A w \in Writers : job[w].tag # t) => LastEventRaised(t)

Awaited(t) == \E i \in 1..Len(configQueue) : configQueue[i].tag = t

\* The engine evaluates a tag against the setpoints that are stored, or will take
\* up an event of the tag, or was never told: the change had no event, or the
\* reload failed.
SetpointsCurrent ==
    \A t \in Tags \ (unannounced \cup notReloaded) :
        setpoints[t] = Effective(dbSetpoints[t]) \/ Awaited(t)

\* The same with a failed reload being retried, as specs/0032 has it.  It does not
\* hold: HandleTagConfigChanged returns no error, and the event is committed.
ReloadsRetried ==
    \A t \in Tags \ unannounced :
        setpoints[t] = Effective(dbSetpoints[t]) \/ Awaited(t)

\* A tag nobody sends readings for any more ends up in comm_loss.
SilentTagsDetected ==
    <>[](\A t \in Tags : states[t] # NoRow => states[t].state \in {"comm_loss", "offline"})

=============================================================================
