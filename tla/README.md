# Controlitix in TLA+

Controlitix is a SCADA platform: devices are polled, their readings stored and shown, alarms raised and
delivered. This directory holds TLA+ models of its core, configurations that check them with TLC, and
proofs of the main results for TLAPS. Everything is read from the Go code; `PROJECT.json` names, for
every definition, the lines it stands for, and lists the hazards the properties are aimed at.

Contents: [inventory](#the-system), [modules](#modules), [runs](#runs), [proofs](#proofs),
[disagreements](#disagreements-between-code-and-documents), [limits](#what-is-not-modelled),
[plan](#plan).

## The system

```
 ms-editor ──config.changed──▶ ms-poll ──tag.values──▶ ms-viewer ──alarms──▶ notifier ──▶ Telegram
     │                           │                        │
 PostgreSQL (devices, tags)   devices (modbus, SNMP)      ├─ TimescaleDB (history), Redis (last values)
                                                          └─ WebSocket hub ──▶ viewer-ui
 ms-auth: logins and tokens of all of them
```

| Component | State it keeps | Operations | What makes it correct |
|---|---|---|---|
| ms-viewer ingest (`tag_value_handler.go`, `ingest_usecase.go`) | list of pending messages, buffer of readings, Kafka offset; `history.tag_values_raw`, Redis, live values | fetch, buffer, flush (history, cache, alarms, live), retry, commit | at least once: nothing is committed before it is stored; nothing is shown before it is stored |
| ms-viewer alarm evaluator (`alarm_evaluator.go`) | none (pure) | quality, thresholds, hysteresis | the state is explained by value and setpoints; no chatter |
| ms-viewer alarm engine (`alarm_usecase.go`, `alarm_repository.go`) | `alarms.states`, `acks`, `events`; setpoints in memory | `IngestValue`, comm-loss scanner, acknowledge, reload of setpoints, deletion | every change of state is an event; a tag in alarm was reported; setpoints are current; silent tags are found |
| ms-viewer realtime hub (`realtime/hub.go`) | subscriptions of connections to tags and group topics, counts | subscribe, unsubscribe, reconcile, drop a tag, close | a tag is delivered as long as there is a reason; limit per connection |
| topic resolver, membership cache | cached tags of a topic | resolve, invalidate | a topic's tags follow the configuration |
| debouncer, connection (`debouncer.go`, `connection.go`) | last, pending and sent value and timers per connection and tag; outbox | publish, timers, heartbeat, snapshot, drop oldest, close | nothing falls between snapshot and stream; the screen comes to show the latest value; nothing is left of a closed connection |
| alarm publication (`alarm_usecase.go`, `alarms_producer.go`) | goroutines, retry queue in memory | publish, queue again | no committed event is dropped |
| notifier (`notifier_usecase.go`, `notification_repository.go`) | `alarms.notifications`, `alarms.escalations`, an advisory lock | route and send, retry, escalate | every event reaches its chats, once where it can be; escalations are kept |
| ms-poll configuration (`snapshot_store.go`, `config_event_handler.go`) | snapshot of devices and tags | load, handle events, upsert, remove | the snapshot follows the database |
| ms-poll scheduler (`scheduler.go`) | one worker per device | start, stop, restart | a worker polls what the snapshot says |
| ms-poll drivers, normalisation, publication | connections to devices | read, scale, write to Kafka | batches cover each tag once |
| ms-editor (`usecase/`, `postgres_repository.go`) | `devices`, `tags`, `monitoring_objects`, `diagrams`, `figures` with their parameters | CRUD in transactions, soft deletion with cascades, then a config.changed event | deletions take everything below; settings fit the device's type; every edit is announced |
| ms-auth (`token_service.go`, `admin_service.go`, `limiter.go`) | users, roles, refresh tokens, service accounts; limiter in memory | log in, rotate, revoke, administer | one usable token per session; revocation holds; an administrator remains |
| shared/authctx | JWKS cache | fetch, validate | keys are current |
| viewer-ui, editor-ui | browser stores | connect, resubscribe, edit | the screen follows the server |

They interact by three Kafka topics, two databases and WebSocket frames. What is hard:

* **Shared tables without locks.** The ingest goroutine, the comm-loss scanner, operators and the
  config consumer change one tag's rows by separate statements.
* **Several stores, no transaction.** A flush writes history, cache, alarms and live values one after
  the other; a crash or an error leaves a prefix, and the retry repeats it.
* **Kafka.** Messages come again after crashes and rebalances. No producer sets a balancer, and the
  default spreads messages over the partitions (three in `docker-compose.yml`), so the messages of one
  entity have no order.
* **Reads before unlocks.** The hub resolves topics and the scheduler's workers read their
  configuration outside the lock under which the result is used.
* **Bounded queues that drop**: the snapshot subscription (64), the outbox of a connection, and
  publications that are tried three times.

## Modules

| Module | Models |
|---|---|
| `AlarmEvaluator` | `EvaluateAlarmState`: quality first, then thresholds from the outside in, then hysteresis |
| `AlarmTag` | one tag under an arbitrary signal and arbitrary edits of its setpoints |
| `DurableConsumer` | abstract: a consumer of a log that stores before it acknowledges, and skips what it cannot read |
| `IngestPipeline` | the ingest of one partition: handler, use case, the four stores |
| `IngestPipelineProps`, `IngestPipelineProofs` | its properties; their proofs and the refinement |
| `AlarmEngine`, `AlarmEngineProofs` | the alarm engine over its tables; proofs, those about `AlarmTag` among them |
| `RealtimeHub` | subscriptions and their reference counts |
| `TopicMembership`, `TopicMembershipProofs` | the hub with topic resolver, membership cache, ms-editor's edits and their events; proofs about the hub, that this implements it, and that subscriptions follow the edits |
| `PollConfig`, `PollConfigProofs` | from an edit in ms-editor to the worker that polls the device; proofs |
| `EditorStore`, `EditorStoreProofs` | ms-editor's requests side by side, statement by statement; proofs |
| `Sessions`, `SessionsProofs` | ms-auth: logins, refresh tokens, administration, login limiter; proofs |
| `Notifier`, `NotifierProofs` | from a committed alarm event to a message in Telegram; proofs |
| `Delivery`, `DeliveryProofs` | from `Hub.Publish` to the client: debouncer, timers, snapshots, outbox; proofs |
| `MC...` | values for TLC, symmetry |

### AlarmEvaluator, AlarmTag

Values, thresholds and margins are integers on a small scale, thresholds may be absent (`NoLevel`).
`Evaluate` is the switch of the code in its order: a quality that decides alone, no value, the four
thresholds from the most severe, the memory of the previous state within the margin. The margin is
`HysteresisPercent` of the span of the thresholds, computed in hundredths so that no rounding enters.
`AlarmTag` lets a reading of any value and quality, or an edit to any setpoints `ValidateSetpoints`
accepts, come at any moment.

### IngestPipeline

One partition is the sequence `Log`: per message its tag, timestamp, the alarm level it evaluates to,
and whether it parses. `position` and `committed` are the reader's offset and the group's. `pending` is
the handler's list of messages, `buffer` the use case's list of readings; the code keeps the two apart
and cuts the first by a count the second returns, and so does the model. A flush is four steps
(`UpsertRows`, `UpdateCache`, `EvaluateAlarm` per tag, `PublishAndClear`) and `CommitFirstPending`.
`Crash` restarts at the committed offset; an error in any part starts the same flush again
(`flushWithRetry`); `Rebalance` resets the position only, because kafka-go does that beneath the
handler, which keeps its lists. `SkipUnparseable` commits the message at once, as the code does.
A graceful shutdown flushes with a context that is already cancelled, which fails: it is a `Crash`.
`DistinctRows`: an `INSERT ... ON CONFLICT DO UPDATE` refuses a batch that contains a key twice.

`DurableConsumer` is the abstract specification: store any offset; acknowledge when everything since the
last unreadable message is stored; skip an unreadable message, which lets go of what was not stored before
it. With no unreadable message, acknowledged means stored. The mapping is *stored = readings in the
history, acknowledged = committed offset, unreadable = what does not parse*; `AtLeastOnce` adds its
fairness, for a log that parses.

### AlarmEngine

A step is one statement or transaction. `job[w]` holds the local variables of the `IngestValue` call of
writer `w`, the ingest goroutine or the scanner: `GetState` reads and decides, `UpsertState` writes the
row (of a new tag, or when nothing changed), `ApplyTransition` is the transaction that writes row and
event; a new tag's first transition takes both. The two writers run side by side, as in the code.
`HandleTagConfigChanged` is likewise in its statements. `config.changed` is a queue of which neighbours
may be swapped (`Overtake`), since the partitions have no common order. Time is one bit per row, whether
`last_seen_at` is within the comm-loss timeout.

A tag is deleted by a request of its own, which announces it (`Edit`), or with its device or object, which
does not (`DeleteWithTags`): `config_change_usecase.go:77` passes only tag events on to the engine.

Acknowledging has no action. Both of its queries read `alarms.states LEFT JOIN alarms.acks ... FOR UPDATE`
(`alarm_repository.go:278`, `409`), which PostgreSQL rejects, because it cannot lock the nullable side of an
outer join: every acknowledgement ends in an error, and `alarms.acks` stays empty.

The histories name what the code cannot get right, each for as long as it is true: calls whose row another
call has written since they read it (`overtaken`), tags whose state was written without the event that
belongs to it (`unreported`), tags changed without an event (`unannounced`) or whose reload failed
(`notReloaded`). The properties of the run hold of everything else, with overlapping calls, failing
statements and crashes in any combination; three further configurations show for each exemption that it is needed.

### RealtimeHub

Per connection: the tags subscribed directly, the group topics with the tags recorded for them, and
`refs`, the count per tag. A step is what happens under one hold of the hub's mutex: each topic of a
frame is one, a group topic two (resolve without the lock, then subscribe). The config consumer
copies a topic's subscribers, resolves, and reconciles them one at a time.
What a topic resolves to is any set of tags or an error here; `TopicMembership` says which. Closing can happen between any two steps, and the read loop may still be in the middle of a
frame: it then makes the connection's maps again.

Two shortcuts of the code make a count wrong: at the limit a reconciliation counts only some of the
tags it records, and the deletion of a tag takes one from its count whatever the count was. `miscounted`
remembers for which connections and tags that happened; `RefsMatch` says that the counts are right
everywhere else.

### TopicMembership

It extends `RealtimeHub` with what is around it and has the hub's actions as parts of its own.
`members` is what ms-editor's tables say a topic has (the tags of a diagram's figures, the live tags of
an object's devices), `cache` the membership cache, `query[r]` what a goroutine has read and not stored
yet: read loops and the consumer resolve side by side without a lock, so that one may store what an edit
and its event have overtaken. An event waits in `events` until the consumer takes it, drops a deleted tag
from all subscriptions, invalidates (`Affected`) and reconciles topic by topic (`handling`).

`MembershipFollows`: a subscription has the tags its diagram or object has, unless an event is pending or
the change was `missed`. What counts as missed is what the code cannot follow: the publication failed, a
figure's or device's event names no topic (`MemberEvent`), the topic was not cached, or a read loop was
resolving it.

### PollConfig

The chain ms-editor, config.changed, `ConfigEventHandler`, `SnapshotStore`, `Scheduler`, worker. Events in
flight are a set (no order, may come again). A device or tag is its version; ids are UUIDs and are not
used again, and no operation of ms-editor moves a tag to another device, so `DeviceOf` is constant. The
handler's read of the database and its store are two steps, and so are `LoadAll`'s two queries,
the scheduler's subscription and its first listing, the check in `startDevice` and the read in the
worker's goroutine. A driver that cannot be built leaves the worker at `Starting`, where it reads
again. `lost` names the entities whose announcement an error dropped (publication failed, query failed,
a monitoring object deleted with its devices), `missed` the devices of which the full channel dropped an
event; both are cleared by whatever makes good for it.

The words for the operations are chosen at the start from `Dialects`: those that ms-editor writes
(`created`, `updated`, `deleted`) or those the handler reads (`create`, `update`, `delete`). An event whose
word the handler does not know is ignored and committed, and `ignored` names its entity until something
makes good for it. With the words of ms-editor that is every event, and only a restart brings the snapshot
up to date; what is then left of `DivergenceAnnounced` is that nothing else makes it diverge.

### EditorStore

A request has the phases of the code: the handler decodes it, the use case checks it (some read the
device, the tag or the diagram first), its statements run one by one, and after the commit the use case
reads the entity again and publishes it. What the statements of a request are is its *plan*, a sequence
of operators, one for each SQL statement (`DeleteDevicePlan`, `BulkPlan`, ...). `tx[r]` holds what its
transaction has written, `View(r)` what it sees: the committed rows with its own on top, which is what
READ COMMITTED gives a statement. A statement locks the rows it would change one by one (`LockRow`, in any
order), waits while another transaction holds one, and looks at it again when it has it; two statements can
wait for each other, and PostgreSQL then ends one of them with an error. That, like any statement that
fails, is `Fail`: the transaction is rolled back. `Crash` ends everything in progress. The statements of
figures name a column `figure_params.deleted_at` that no migration adds; whether it is there is the constant
`FigureParamsDeletedAt`, and without it the statements that write it fail always. (`ListFigures` filters
by it too, so what `CascadeComplete` says of figures presumes the column.) Settings and addresses are reduced to the device
type they are valid for. Histories: `late` (put under a parent whose deletion had begun), `retyped`
(devices whose type was changed), `moved` (devices put under another object), `unsent`, and what others
committed `meanwhile`.

### Sessions

Every SQL statement of ms-auth commits on its own, so a request is a sequence of statements, and two of
them interleave in any way. A refresh token names the family it belongs to; `used`, `revoked` and
`expired` are the columns the code looks at. Passwords are right or wrong by choice. The limiter is a
map whose entry is loaded and stored in two steps, swept by `gcLoop` in two steps, and lost in a restart; the
clock is read before the load, and windows pass between any two steps. The rows of `user_roles` have an
identity of their own: `SetUserRoles` deletes those it saw, waits for a transaction that holds one, and does
not see what was inserted meanwhile. (Two of them that wait for each other end with a failed statement.)
Histories count the exceptions a property has to allow: rotations that overlapped (`forks`), that failed
after `MarkUsed` (`lost`), tokens created by a request that had decided before a revocation (`late`).

### Notifier

A step is a statement, or a call of Kafka or Telegram. `pub[e]` is the goroutine that publishes event
`e`, `queue` the producer's memory, `topic` the partition with `position` and `committed`. `rows[e][c]` is
the notification of event and chat, `esc[e]` the escalation, `job[w]` what the consumer or the scheduler
of a replica is doing. Every call may fail before or after it took effect, and replicas crash and go on.
The advisory lock belongs to a session of the pool, not to the replica: `Unlock` may go to another
session and then does nothing, until the pool closes the one that holds the lock (`CloseSession`). Time
is one bit: backoff or delay have passed. `order` has the pending rows by `updated_at` and the open escalations
by `fire_at`, and a list takes the first `BatchLimit` of those that wait (100 in the code, 1 or 2 here). A row
that is skipped is not written and keeps its place. Whether `tags.tags` has the column `unit_id` that
`GetAlarmRouteContext` selects is the constant `RouteSchema`. `auth.telegram_chats` is in no migration either;
the model takes it as given, as specs/0035:224 does. No alarm is ever acknowledged (see `AlarmEngine`), so the
branch of an acknowledged escalation is left out. `doubts` counts the reasons there were to send once more, so
that `HeardOnce` says exactly when a chat may hear of an event twice.

### Delivery

One connection and one tag. The hub's maps, the debouncer and the outbox each have a lock of their own,
and a step is what happens under one lock: `HubPublish` takes the subscribers, `PublishNow` or
`PublishLater` changes the debouncer, `Enqueue` the outbox, and other goroutines run in between. A frame is
read (`ReadFrame`) before it reaches the hub (`Subscribe`, `Unsubscribe`), and the connection may be closed
and unregistered in between; the hub then makes its maps again. A timer
is armed, has fired, or is a *stray*: `flushPending` and `emitHeartbeat` clear the pointer to their timer
even when it was armed again after it fired, and the state no longer knows that timer; `strays` counts
them. `overtaken` and `revived` name the two things that go wrong: a snapshot that was loaded before a
later reading and stored after it, and a state that was made for a tag nobody is subscribed to, or a
subscription of a connection that was unregistered. Readings come in the order of their time.

## Runs

| Run | Shows | Bounds |
|---|---|---|
| `AlarmTag` | a level alarm is explained by the present setpoints; on a side with one threshold it is cleared only a margin away from where it was raised | all threshold combinations over the scale, wide enough that margins cross thresholds |
| `IngestPipeline_safety` | pending and buffer never part; shown and alarmed readings are stored; nothing since the last unparseable message is committed unstored | 5 messages, 2 tags, one unparseable, batch of 3, 2 faults, rebalances |
| `IngestPipeline_live` | refinement of `DurableConsumer`, with liveness; committed readings are stored; catches up | the same without the unparseable message and without rebalances |
| `AlarmEngine` | with overlapping calls, failing statements and crashes: changes of state are events, raised alarms are in the history, setpoints are current or about to be - but for what `overtaken`, `unreported`, `unannounced` and `notReloaded` name | 1 tag, 3 readings, 2 edits, behaviours with and without failing statements |
| `AlarmEngine_commloss` | silent tags end in comm_loss | 2 tags, fairness |
| `TopicMembership` | subscriptions follow the configuration; counts match reasons; limit respected | 1 connection, 1 diagram, 1 object, 2 tags, 2 edits, limit 1; group topics only (`TopicsOnly`) |
| `PollConfig` | snapshot and workers go stale only where something is on its way, was lost, or was ignored for its word | 2 devices and tags, 2 edits after the initial configuration, 1 restart, channel of 1, the words of either side |
| `PollConfig_words` | *violation*: with the words of ms-editor an edit never reaches the snapshot | the same with the words of ms-editor |
| `EditorStore` | what was there when a deletion began goes with it; deleted rows stay; settings and addresses fit the type they were written for; a bulk save replaces the figures it saw; the last state of edited devices and tags is announced, and deletions by their own event or their parent's, but for `unsent` and the tags of a device that was moved or added during a deletion | 2 requests at a time, 3 in all; 1 object, 2 devices, 1 tag, 1 diagram, 2 figures; 2 device types; the column `deleted_at` is there |
| `Sessions` | one usable token per session, revocation and deactivation hold, an administrator remains, the limiter counts, accounts change as asked - each but for the overlaps its history names | 2 users, 2 requests at a time, 3 in all from one of four groups of operations, 1 failed statement or restart, 1 window |
| `Notifier` | no event dropped but in two ways; heard once but for `doubts`; escalations kept; everything settles while rows that cannot settle do not fill a batch | 2 chats, 2 replicas, 2 attempts, batches of 2; five workloads of 1 or 2 events, 1 or 2 tags and up to 2 faults; the column `unit_id` is there |
| `Delivery` | nothing between snapshot and stream, nothing left behind, the client converges - but for `overtaken` and `revived` | 2 snapshot and 2 timer goroutines; four workloads: 2 readings, 2 frames, a closed connection, a shared outbox of 2 |

These are the runs of `PROJECT.json`. Seven more configurations show counterexamples: each checks one
property that a document states and the code does not keep, the reverse of an exemption above
(`tlc -config AlarmEngine_overlap.cfg MCAlarmEngine`). What the documents say is
[below](#disagreements-between-code-and-documents).

| Configuration | Property, violated | Counterexample | Bounds |
|---|---|---|---|
| `IngestPipeline_unparseable` | `CommittedIsPersisted` | an unparseable message commits readings that are not stored | the log of `IngestPipeline_safety` |
| `AlarmEngine_overlap` | `NoSilentChange` | two calls overlap, and a change of state has no event | 1 tag, 2 readings, nothing fails |
| `AlarmEngine_unreported` | `EveryAlarmRaised` | the second write of a tag's first alarm fails, and the alarm is never raised | 1 tag, 2 readings |
| `AlarmEngine_reload` | `ReloadsRetried` | a reload fails, and the engine goes on with old setpoints | 1 tag, 1 edit |
| `EditorStore_schema` | `BulkSucceeds` | without the column a bulk save that keeps or leaves out a figure is undone | 1 request |
| `Notifier_batch` | `RetriesGoOut` | a row that cannot be routed fills the batch, and another row is never sent again | a batch of 1, 2 tags, 2 failed sends |
| `Notifier_schema` | `EventsRouted` | without the column no event is routed | as `Notifier` |

`EditorStore`, `Sessions`, `Notifier` and `Delivery` bound their behaviours by workloads or a total of
requests, because the interesting cases need several kinds of trouble at a time but not all of them.
Each module also has a `TypeOK` (`TopicMembership` the hub's).

**Why the bounds are enough.** A batch of 3 in a log of 5 has full and partial batches and a batch on
either side of the unparseable message; two faults are a crash in the recovery from a crash. Three
readings raise, change and clear an alarm; two edits are an edit and a deletion, and can overtake each
other, and the deletion can come with the device and without an event. The limit of 1 is exceeded by a topic with two tags, and two topics share a tag; the second edit of
`TopicMembership` brings the event that makes the hub see what the first one's did not. `TopicsOnly`
leaves out direct subscriptions and closing, and of the frames after an edit those that ask for what the
connection has or give up what nobody is reconciling; with one tag the run passes without it (3.5 million
states). The hub's own properties are proved for all of that and for any number of connections. Two edits
of `PollConfig` are enough to have one event handled while the other is made or in flight, and a channel of 1
drops the second event about a device. `OneSide` leaves out that a request about a
device or tag overlaps one about a diagram or figure, which share no row. One tag is enough for the announcements of `EditorStore`; what more rows
add is the order in which statements lock them, and a deadlock is a failed statement like any other, which may
happen to any request anyway. A batch of 2 is filled by the two chats of one deleted tag, a batch of 1 by one
row, as a hundred do in the code. A hub without deletions bounded would count a deleted tag up for
ever, which is why `MaxDeletions` is there. Three requests of ms-editor are two that overlap and one
that prepared, or follows, what they meet in; three of ms-auth a login and the two that race for its
token. The groups of `Sessions` meet in no table, or only in ways one of them has already. Two events of
a tag share queue, topic and lock; two attempts and two faults reach the end of the retries and a crash
after a failure. One reading after the first is enough for it to be pending, overtaken or lost; two
frames are a subscription and its end.

**Deadlock** is not checked where a run can really come to rest: the bounds of readings, edits and faults
are used up, or the log is at its end. `AlarmTag` checks it.

**Fairness.** `IngestPipeline!Fairness`: the handler's loop goes on and its ticker fires; faults are
finitely many (`MaxFaults`), since no promise can be kept under infinitely many crashes.
Rebalances are excluded from the live run, because one can bring an offset into the buffer twice, and
`DistinctRows` then blocks the partition until a restart: the promise is not kept then.
`AlarmEngine!Fairness`: weak fairness for each goroutine (the Go scheduler) and for the passing of time;
none for editors and readings. `Notifier!Fairness`: each scheduler's ticker fires and its
tick goes on, backoffs pass, and pgxpool closes idle connections, which is what frees a lock left behind;
none for the consumer and faults (which are bounded). `Delivery!Fairness`: goroutines run and
timers fire; the writer is strongly fair, because a goroutine that waits in a receive is handed the next
message by the sender, so that those who drop messages cannot starve it; nobody has to publish,
subscribe or close. The other modules state no liveness.

Every property has a mutant of the code, listed in `PROJECT.json`, that violates it under its own run.

## Proofs

| Theorem | Says | Assumes |
|---|---|---|
| `IngestPipelineProofs!TypeCorrect`, `PendingCorrect`, `PersistedBeforeShown`, `PersistedBeforeAlarm` | types; pending = buffer; shown and alarmed readings are stored | — |
| `CommittedSinceSkipCorrect` | no reading since the last unparseable message is committed unstored | — |
| `Refinement` | the pipeline implements `DurableConsumer` (safety), whatever does not parse | — |
| `AlarmEngineProofs!TypeCorrect` | types, for the code as it is | — |
| `SetpointsFollow` | the evaluator's setpoints are the stored ones, or an event waits, or the tag was changed without one or its reload failed | — |
| `AlarmEngineProofs!TagJustified`, `TagClears` | of `AlarmTag`: a level alarm is explained by value and setpoints; it clears only a margin away from where it was raised | — |
| `ChangesRecorded`, `AlarmRaised` | every change is an event unless an overtaken call made it; a tag in alarm has been reported unless an overtaken or cut-off call wrote it | — |
| `TopicMembershipProofs!TypeCorrect`, `CountsCorrect`, `LimitCorrect` | of the hub alone: types; counts match reasons; limit | finite sets of tags and topics |
| `MembershipImplementsHub`, `MembershipCounts` | the hub with resolver, cache and editor implements `RealtimeHub`; its counts and limit | the same |
| `SubscriptionsFollow` | a subscription has the tags the editor's tables say, but for what is pending or was missed | no connection is named as the consumer; "no row" and "not cached" are no sets of tags |
| `DeliveryProofs!TypeCorrect`, `SubscriberIsCurrent`, `StateIsRemoved` | types and the outbox's bound; nothing falls between snapshot and stream; nothing is left behind but what was revived | the goroutines have different names |
| `PollConfigProofs!TypeCorrect`, `SnapshotFollows`, `WorkersFollow` | types; the snapshot and the workers are stale only where something is on its way, was lost, or was ignored for its word | the value for no worker is not a stage of one; no word for a creation or an update is `delete` |
| `NotifierProofs!NothingDropped`, `Kept`, `Once` | no event is dropped unnoticed; no escalation is; a chat hears of an event once, and once more for each doubt | finitely many replicas, none of them named as the consumer; no set of chats is `None` |
| `SessionsProofs!RevocationCorrect`, `DeactivationCorrect`, `AdminCorrect`, `AccountsCorrect` | an ended session and a deactivated user have no usable token, an administrator remains, service accounts change as asked, but for the overlaps the histories name | finitely many requests at a time |
| `EditorStoreProofs!BaseHolds`, `TypeCorrect` | what transactions hold and what the tables refer to; types | — |
| `DeletedRowsFrozen`, `ConfigCorrect`, `BulkCorrect` | deleted rows stay as they are; settings and addresses fit the type; a bulk save replaces the figures it saw | — |
| `CascadesCorrect`, `Announced` | a deletion takes everything below that was there when it began; when all is quiet the last state of edited devices and tags and all deletions are announced, but for `unsent` and the tags of devices `moved` or `late` | — |
| `SessionsProofs!OneHeadCorrect`, `AttemptsCorrect` | one token to go on with; the limiter counts | the same; "no entry" of the limiter is no entry and no user |

They hold for every value of the constants.

*Ingest.* `CommittedSinceSkip` is not inductive: the offset that will be committed is the end of
`pending`. The invariant adds that `pending` is a run of offsets that ends before `position`, that what is
between the committed offset and `pending` is stored or not valid, and that past the `upsert` step
everything pending is stored. Then a commit adds only stored readings, and a crash only moves
`position` back.

*One tag.* `LevelAlarmJustified` is inductive once `Evaluate` is described by why it answers (`LevelHasReason`):
a level is returned because the value has crossed its threshold, or because the state was this level and the
value has not come back by the margin. The setpoints need not pass `ValidateSetpoints` for it, and any scale of
values will do. `ClearedAfterMargin` follows from `TagRaised`, which says that on a side with one threshold the
alarm was raised beyond that threshold: an edit of the setpoints ends the claim, and a reading on the near side
of the margin is the only one that clears.

*Alarm engine.* A call that is about to write knows the row it replaces unless it has been overtaken:
`KnowsRow(w)` says that the row still has the state `GetState` read, or has been deleted meanwhile; every write
of the other writer marks it as overtaken in the same step, and a deletion keeps `KnowsRow`. So the event it
writes starts at the state it replaces (`ChangesRecorded`). `AlarmRaised` rests on `EventStands(w)`: a call
that found the tag in alarm and rewrites its row unchanged may find the row deleted and bring the alarm back,
and then the event that raised it is still the last one, because events are never deleted. For
`SetpointsFollow` whatever is stale has an event in the queue, or is exempt: the event in the handler's hands
if what it loaded is current, or a later one (`StaleIsDue`); this holds of every interleaving because the
handler takes an event off the queue only after it has stored.

*Hub.* The invariant adds that an unsubscribed topic has no tags recorded. A step changes the set of
reasons for a tag by at most one element, and its count by the same one, unless the pair is
miscounted. The limit follows because every increment is checked against the tags delivered
under the same hold of the lock. *Topic membership.* What a resolution returns are tags and what is
dropped is a tag (`ResolverTyped`), so every step of the composition is a step of the hub or leaves it
alone. For `SubscriptionsFollow` the invariant (`FreshInv`) says the same of everything a goroutine has in
its hands on the way to a subscription: a cache entry, a query's rows, a resolved topic, the consumer's result
are what the tables say, or the topic is excused (`Excused`: an event about it is to come, or a change was
missed). A subscription is corrected by a reconciliation only, so it may also wait for its topic's turn, or
for its connection's. An edit excuses every topic it changes; the only step that ends an excuse is the
invalidation, and it does so where the cache tells the event is about the topic and no read loop holds it.

*Delivery.* `SubscribedIsCurrent` speaks of a moment when nobody is at work; the invariant `Informed` says
who, before that, still brings the last published reading to the debouncer of a subscriber: the ingest,
the reader that has yet to start a snapshot, or a snapshot goroutine that has yet to load the hub's last
reading or has loaded one that is late enough. Loading no reading at all is harmless because the hub's
last reading is never before the published one (`Roles`), so that nothing has been published.
Both theorems need that a reader about to remove the state has ended the subscription before, which is the
order of the calls in `Unsubscribe`; a subscription after `UnregisterConnection` is marked as revived.

*Polling.* An identifier is given once, so whatever was announced or read and is not in the database has
been deleted: a deletion or edit covers just the identifiers it changes, and those it does not change stay
as covered as they were (`DInv`). Between the two queries of the loader (`HalfLoaded`) what changed since
the first is covered by its event, because the consumer's position is not past it. For the workers
(`WInv`), each change of the snapshot either appends an event about its device to the channel or marks the
device as missed; `RemovedIsGone` says that the last event about a device, if it is a removal, is still
true of the snapshot. The proofs do not depend on the words: an event that is ignored ends the cover it gave and
puts its entity among `ignored` in the same step.

*Sessions.* Each invariant follows a request from what it read to what it writes. `RevocationInv`: if a family
was ended after a rotation found its token, the rotation or the token is marked late, because
every revocation marks the rotations in hand in the same step and a lookup after it finds nothing. A family has one
user (`TokensTyped`), so `RevokeAllForUser` ends whole families. `SignedInv`: what a login is about to
issue and a rotation to create belongs to a user who is active or covered by a revocation to come or
a failed one (`Covered`); only the revocation ends a cover, and it ends or marks all it covered. `AdminInv`: a change
that was decided has another administrator (`OtherAdmin`), or takes none away (`Harmless`), or a removal by another
request has marked it stale; a removal that was not marked therefore leaves the other one.
`AccountInv`: an update that was not marked has read the switch and the scopes as they still are.
`HeadInv` counts, for each session that lasts, the tokens that were not used, the rotations that will create
one, and those lost (`Balanced`). A step moves a unit from one to another; only marking a token that is used
already makes one, so the invariant also says that a rotation about to mark knows whether it is the
second (`Twins`). `LimiterInv`: for a key whose writers have not overlapped, the entry counts what was missed,
whoever is about to store has read what is still there and whoever is about to delete has read what is stale
(`Acts`), and what was missed together with the logins let through (`Triers`) keeps to the limit.

*Notifier.* A message the consumer has fetched was given up, or has a row for every chat it was routed to,
or is the one in hand (`FetchedInv`); while one is in hand, `committed` is before `position`, so that a crash
hands it out again, and every chat of it still lacks its row only if the consumer has yet to come to it
(`ConsumerInv`). `FetchedEscalations` says the same of the escalation, which is inserted last. An escalation is
`processed` only by a scheduler that has seen to every admin chat it owes (`OwedOk`), whichever replica
has fetched it before. `HeardOnce` counts; it is not inductive because a worker with the message in hand may
still send it. The invariant `Budget` counts what was heard, the workers that may still send
(`Claimants`) and a delivery that anybody may start (`Open`), and bounds the sum by one more than the doubts: each
step moves a unit from one of the three to another, and the steps that make a unit (a lost reply, a
lost lock, a crash after sending) are those that count a doubt. What a scheduler took while another worker
had it (`busy`) is a doubt already, so it claims nothing.

*Editing.* Everything rests on `Base`: a request has a known plan and what is left of it is an end of that
plan (`Left`); its transaction has written only what the statements of the plan write, of rows that were
committed as live or that the request creates (`Written`); no two transactions share a row and no two requests
create the same entity (`Alone`); what is there has a parent of its kind that is there (`References`). A commit of
one request therefore takes nothing from what is true of another (`CommitOthers`), and each of the following is a
matter of one request's statements and of what the commits of others add. *Frozen:* a row that a transaction has
written was live when it committed. *Types:* what a check
compared still holds, or the type was changed (`Fits`); a new entity and its parameters come together (`Together`). *Bulk:*
`Saving` says where a save stands after each statement. *Cascades:* what a statement that has run was to delete
is deleted by this transaction, or came too late (`Cascades`), and what a transaction deletes is its request's
entity, lies under it, or is a figure the request will announce (`Deletes`); so whatever loses its parent at a commit goes
with it or is late (`CommitTakes`, `OrphansStep`). `CascadeComplete` is not inductive without them, because a deletion is
many statements and a tag may be inserted between any two. *Announcements:* for every edited device and tag there is
an event with its present state, or a request that will publish this state or read it again (`Told`); for every deleted
figure whose diagram is there an event, or a request that will publish one (`ToldGone`). A figure that goes
with its diagram or object is not owed one, and that needs `Cascades` again.

**Only model-checked:** liveness (`AtLeastOnce` with its fairness, `CatchesUp`, `SilentTagsDetected`,
`Settles`, `Converges`), which TLAPS does not reach, and `CommittedIsPersisted`, which holds where every
message parses and follows there from `Refinement`. Every other invariant and every action property of a
passing run is also a theorem.

## Disagreements between code and documents

Eight have a configuration with a counterexample; `PollConfig_words`, which cuts ms-poll off from every edit, is
a run of `PROJECT.json`, and its finding:

| Configuration | What is said, and what the code does |
|---|---|
| `IngestPipeline_unparseable` | offsets are committed after the flush (specs/0029:276); skipping an unparseable message commits the readings buffered before it (`tag_value_handler.go:127`) |
| `AlarmEngine_overlap` | a transition writes state and event in one transaction (specs/0033:187); what it goes from was read before, and the scanner and the ingest overlap (`alarm_usecase.go:98`) |
| `AlarmEngine_unreported` | the same; a new tag's row is written first, and if the event then fails the retry finds nothing to raise (`alarm_usecase.go:124`) |
| `AlarmEngine_reload` | an error of the handler leaves the offset uncommitted (specs/0032:86); the failed reload of setpoints is logged and committed (`alarm_usecase.go:267`) |
| `PollConfig_words` | operations are `create`, `update`, `delete` (specs/0013:16); ms-editor writes `created`, `updated`, `deleted` (`tag_usecase.go:175`), and the handler ignores every event (`config_event_handler.go:75`) |
| `EditorStore_schema` | an empty list deletes all figures and answers 200 (specs/0025:206); the statements name `figure_params.deleted_at`, which no migration adds, and are refused (`postgres_repository.go:684`) |
| `Notifier_batch` | after a 500 the scanner sends again (specs/0035:229); rows of deleted tags are skipped unwritten and stay first in a batch of 100 (`notification_repository.go:223`) |
| `Notifier_schema` | a published event leaves a row with status 1 (specs/0035:225); `GetAlarmRouteContext` selects `t.unit_id` (`telegram_chats_repository.go:189`), and the migrations put `unit_id` on `tags.tag_params` (`000002_devices_tags_schemas.sql:186`), so routing fails for every event |

Three more are stated as definitions that TLC refutes when they are added to the named configuration:

| Add | To | What it says, and what the code does |
|---|---|---|
| `DirectIsDelivered` | `TopicMembership.cfg` without its CONSTRAINT | a direct subscription survives giving up a topic (specs/0034:153); not after a reconciliation at the limit (`hub.go:714`) |
| `EscalationHeard` | `Notifier.cfg` | an escalation goes to the admins (specs/0035:232); not to an admin chat that got the alarm itself (`notifier_usecase.go:358`) |
| `LastIsFreshest` | `Delivery.cfg` | the last message is always the latest reading (specs/0030:247); a snapshot loaded earlier may be stored and sent after it, and the heartbeat repeats it (`connection.go:293`) |

Others were met on the way and have no definition of their own:

* Adding figures to a diagram or devices to an object does not reach its subscribers (specs/0034:155-156
  promises `topics_changed` and values): the viewer looks for `diagram_id` or `object_id` in the event's
  payload, and ms-editor sends figures none (`figure_usecase.go:114`) and devices theirs one level down
  (`device_usecase.go:110`, `subscription_groups.go:34`).
* A deleted tag is dropped from all subscriptions and, where a figure still shows it,
  subscribed again by the reconciliation that follows (`ws_topic_repository.go:50` does not look at the tag).
* With both thresholds on a side the hysteresis is measured from the outer one, so an alarm of the
  inner one has none (specs/0033:176; `alarm_evaluator.go:79`).
* A reading that is twice in one batch makes the insertion fail for ever (specs/0029:290 promises
  idempotence).
* No alarm can be acknowledged (specs/0033:255 promises a 200): the locked read asks `FOR UPDATE`
  of the nullable side of an outer join (`alarm_repository.go:278`, `409`).
* `trend_repository.go:42` and `tag_repository.go:48` select `t.unit_id` and `t.data_type_id` as well, which the
  migrations have on `tags.tag_params`; these queries only read and are not modelled.
* The tags deleted with a device or an object have no event of their own (specs/0006:113 wants one per
  deletion), so the viewer keeps their setpoints until it restarts, and their alarm rows for good.
* Readings delivered again with other batch boundaries can make a second alarm event (specs/0033:291).
* The scanner acts on a stale list (specs/0033:204); the rows of a deleted tag can be written again
  (specs/0033:332).
* A connection closed during a subscription keeps what was subscribed last, and its debouncer state with
  a heartbeat that runs for ever (`hub_test.go:95` expects neither after `UnregisterConnection`). A heartbeat timer that is armed again
  after it fired leaves two.
* ms-poll writes `value` and `quality` (`serialize.go:12`), ms-viewer reads `v` and `q`
  (`tag_value_handler.go:25`).
* A failed handler is not repeated, because the next commit covers its message (specs/0013:184 for
  ms-poll, the review in specs/0035:350 for the notifier).
* A deleted monitoring object does not stop the polling of its devices (`monitoring_object_usecase.go:103`).
* A chat can hear of an alarm more than once (specs/0035:212): `HeardOnce` lists the reasons. The rows of
  a deleted tag, and rows whose attempts two deliveries used up together, stay pending for ever.
* Producers name keys for the order of one entity's messages (ADR-0010) but set no balancer and no
  `RequiredAcks`, so kafka-go spreads and does not wait.
* Saving figures in bulk into a deleted diagram succeeds (docs/04_API/ms-editor.md:85 says 404); the
  creation of figures publishes no event.
* A refresh that fails after `MarkUsed` ends the session, and the client's retry counts as reuse.
  Deactivating an inactive user again does not repeat a revocation that failed. Logout answers 204 even if
  nothing was revoked. Two administrators can deactivate each other at the same time.

## What is not modelled

* **ms-poll's drivers, normalisation and publication**: wire protocols through libraries, arithmetic on
  readings; scan rates, health checks and the readings of a worker.
* **Queries that only read**, RBAC lookups and audit logs, which the program never reads back. Of
  ms-editor's lists the filters are modelled, not the pages; creating and changing objects and diagrams is
  not implemented in the code (501).
* **ms-auth**: contents and signatures of tokens, key store, password hashes, external identity sources.
* **Notifier**: templates, HTTP to Telegram, acknowledged escalations. One partition. A tag and its alarm rows
  go in one step, although ms-viewer deletes the rows only when it handles ms-editor's event.
* **Realtime**: the limit of connections per user; `Ensure` and `Remove` of a reconciliation, which run
  outside the hub's lock beside those of the read loop; readings that come again or out of order.
* **viewer-ui, editor-ui, shared/authctx and the tag-meta cache.**
* Fetch and list limits far above the instances (200 silent tags per scan, Kafka fetch sizes) are taken
  to be large. In `AlarmEngine` the publication of events is left to `Notifier`: it has no effect on the
  tables.

## Plan

1. *Done:* `AlarmEvaluator`, `AlarmTag`; `DurableConsumer`, `IngestPipeline`; `AlarmEngine`;
   `RealtimeHub`, `TopicMembership`; `PollConfig`; `EditorStore`; `Sessions`; `Notifier`; `Delivery`.
2. *Done:* proofs of every safety property the runs check.
3. The JWKS cache of shared/authctx and the tag-meta cache.
4. Transport: telemetry over several partitions without a balancer, with `IngestPipeline`.
5. Pure algorithms: modbus batching against a reference definition, scaling.
6. viewer-ui's realtime client (reconnect and resubscribe) against the hub.
