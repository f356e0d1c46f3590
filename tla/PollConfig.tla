----------------------------- MODULE PollConfig -----------------------------
(***************************************************************************)
(* How a configuration edit reaches the pollers of ms-poll.                *)
(*                                                                         *)
(*   ms-editor commits the edit and then announces it on config.changed;   *)
(*   ms-poll's consumer hands the event to ConfigEventHandler, which reads *)
(*   the entity again and changes the SnapshotStore; the store announces   *)
(*   the change on a bounded channel to the Scheduler, which restarts the  *)
(*   device's worker; the worker's goroutine takes the device and its tags *)
(*   from the store once, when it starts.                                  *)
(*                                                                         *)
(* Every arrow is a gap in which the next edit can happen, and all but the *)
(* worker's can lose the message.  The module keeps what is in flight as a *)
(* set, because no producer sets a balancer and events of one entity reach *)
(* different partitions; an event may be delivered again.                  *)
(*                                                                         *)
(* A device or tag is its version, 0 when there is none.  Ids are UUIDs    *)
(* and not used again, and no editor operation moves a tag to another      *)
(* device.  The history variables lost, ignored and missed name what an    *)
(* error, a word the handler does not know or a full channel dropped: the  *)
(* properties say that nothing else goes stale.  ms-editor writes created, *)
(* updated and deleted (tag_usecase.go:175), the handler and specs/0013    *)
(* know create, update and delete: what ms-editor writes is a constant.    *)
(***************************************************************************)
EXTENDS Integers, Sequences, FiniteSets

CONSTANTS
    Devices, Tags,
    DeviceOf,                   \* the device of each tag
    Dialects,                   \* the words the announcements may be written in
    Buffer,                     \* snapshotSubscriptionBufferSize
    MaxEdits, MaxRestarts,      \* bounds: edits of the configuration, restarts of ms-poll
    NoEntity, NoWorker

Entities == Devices \cup Tags

ASSUME EntitiesAssumption == Devices \cap Tags = {} /\ NoEntity \notin Entities
ASSUME DeviceOfAssumption == DeviceOf \in [Tags -> Devices]
\* "delete" is nobody's word for a creation or an update.
ASSUME DialectsAssumption ==
    \A w \in Dialects : w.created # "delete" /\ w.updated # "delete"
ASSUME BoundsAssumption == Buffer \in Nat \ {0} /\ MaxEdits \in Nat \ {0} /\ MaxRestarts \in Nat

VARIABLES
    db,         \* the configuration, in the database
    deleted,    \* ids that are not used again
    edits,      \* edits so far
    words,      \* those the announcements are written in
    inFlight,   \* config.changed events announced and not handled
    lost,       \* history: entities of which an announcement was lost
    ignored,    \* history: entities of which the handler ignored one for its word
    phase,      \* of ms-poll's start: "load", "tags", "up"
    restarts,
    handler,    \* the entity the handler has read and not stored
    snapshot,   \* the SnapshotStore
    scheduler,  \* "down", "subscribed", "running"
    channel,    \* its subscription
    missed,     \* history: devices of which the channel dropped an event
    starting,   \* devices the scheduler is about to start
    workers

editor == <<db, deleted, edits, words>>
consumer == <<phase, restarts, handler, snapshot>>
polling == <<scheduler, starting, workers>>
vars == <<editor, inFlight, lost, ignored, consumer, polling, channel, missed>>

Version == 0..MaxEdits
Config == [Entities -> Version]
Words == {"update"} \cup UNION {{w.created, w.updated, w.deleted} : w \in Dialects}
Event == [id : Entities, op : Words]
SnapshotEvent == [kind : {"device_upserted", "device_removed", "tag_upserted", "tag_removed"},
                  device : Devices]
Running == [device : Version \ {0}, tags : [Tags -> Version]]

TagsOf(d) == {t \in Tags : DeviceOf[t] = d}
Empty == [e \in Entities |-> 0]
IdleHandler == [id |-> NoEntity, version |-> 0]

\* The configuration there is before ms-poll's first start counts as one edit.
Init ==
    /\ \E ids \in SUBSET Entities :
         /\ \A t \in Tags : t \in ids => DeviceOf[t] \in ids
         /\ db = [e \in Entities |-> IF e \in ids THEN 1 ELSE 0]
    /\ deleted = {} /\ edits = 1 /\ words \in Dialects
    /\ inFlight = {} /\ lost = {} /\ ignored = {}
    /\ phase = "load" /\ restarts = 0 /\ handler = IdleHandler /\ snapshot = Empty
    /\ scheduler = "down" /\ channel = <<>> /\ missed = {}
    /\ starting = {} /\ workers = [d \in Devices |-> NoWorker]

-----------------------------------------------------------------------------
(* ms-editor: the transaction, then the event, which can fail to be sent. *)

Announce(id, op, sent) ==
    /\ inFlight' = IF sent THEN inFlight \cup {[id |-> id, op |-> op]} ELSE inFlight
    /\ lost' = IF sent THEN lost ELSE lost \cup {id}

\* The version is new with every edit.
Write(id) ==
    /\ edits < MaxEdits
    /\ edits' = edits + 1
    /\ db' = [db EXCEPT ![id] = edits + 1]
    /\ UNCHANGED words

Create(id, sent) ==
    /\ db[id] = 0
    /\ id \notin deleted
    /\ id \in Tags => db[DeviceOf[id]] # 0
    /\ Write(id)
    /\ Announce(id, words.created, sent)
    /\ UNCHANGED <<deleted, ignored, consumer, polling, channel, missed>>

Update(id, sent) ==
    /\ db[id] # 0
    /\ Write(id)
    /\ Announce(id, words.updated, sent)
    /\ UNCHANGED <<deleted, ignored, consumer, polling, channel, missed>>

Erase(ids) ==
    /\ edits < MaxEdits
    /\ edits' = edits + 1
    /\ db' = [e \in Entities |-> IF e \in ids THEN 0 ELSE db[e]]
    /\ deleted' = deleted \cup ids
    /\ UNCHANGED <<words, ignored, consumer, polling, channel, missed>>

DeleteTag(t, sent) ==
    /\ db[t] # 0
    /\ Erase({t})
    /\ Announce(t, words.deleted, sent)

\* The device's tags go with it; only the device is announced.
DeleteDevice(d, sent) ==
    /\ db[d] # 0
    /\ Erase({d} \cup TagsOf(d))
    /\ inFlight' = IF sent THEN inFlight \cup {[id |-> d, op |-> words.deleted]} ELSE inFlight
    /\ lost' = IF sent THEN lost ELSE lost \cup {d} \cup TagsOf(d)

\* A monitoring object goes with its devices and their tags; only the object is
\* announced, and ms-poll handles no object events.
DeleteMonitoringObject(ds) ==
    /\ ds # {}
    /\ \A d \in ds : db[d] # 0
    /\ Erase(ds \cup {t \in Tags : DeviceOf[t] \in ds})
    /\ lost' = lost \cup ds \cup {t \in Tags : DeviceOf[t] \in ds}
    /\ UNCHANGED inFlight

-----------------------------------------------------------------------------
(* ConfigLoader.Load, in two queries. *)

LoadDevices ==
    /\ phase = "load"
    /\ snapshot' = [e \in Entities |-> IF e \in Devices THEN db[e] ELSE 0]
    /\ lost' = lost \ Devices
    /\ ignored' = ignored \ Devices
    /\ phase' = "tags"
    /\ UNCHANGED <<editor, inFlight, restarts, handler, polling, channel, missed>>

\* Only the tags of the devices just read.
LoadTags ==
    LET read == {t \in Tags : snapshot[DeviceOf[t]] # 0}
    IN  /\ phase = "tags"
        /\ snapshot' = [e \in Entities |-> IF e \in read THEN db[e] ELSE snapshot[e]]
        /\ lost' = lost \ read
        /\ ignored' = ignored \ read
        /\ phase' = "up"
        /\ UNCHANGED <<editor, inFlight, restarts, handler, polling, channel, missed>>

-----------------------------------------------------------------------------
(* The SnapshotStore and its subscription. *)

\* publishEventLocked; an event in the channel makes good for one dropped before.
Publish(kind, d) ==
    LET fits == Len(channel) < Buffer
    IN  /\ channel' = IF scheduler # "down" /\ fits
                      THEN Append(channel, [kind |-> kind, device |-> d]) ELSE channel
        /\ missed' = IF scheduler = "down" THEN missed
                     ELSE IF fits THEN missed \ {d} ELSE missed \cup {d}

Upsert(id, version) ==
    /\ snapshot' = [snapshot EXCEPT ![id] = version]
    /\ IF id \in Devices THEN Publish("device_upserted", id)
       ELSE Publish("tag_upserted", DeviceOf[id])

KeepsTags(d) ==                                                    \* mutant
    /\ snapshot' = [snapshot EXCEPT ![d] = 0]
    /\ Publish("device_removed", d)
RemoveDevice(d) ==
    /\ snapshot' = [e \in Entities |-> IF e \in {d} \cup TagsOf(d) THEN 0 ELSE snapshot[e]]
    /\ Publish("device_removed", d)

\* A tag the snapshot does not have is not announced.
RemoveTag(t) ==
    /\ snapshot' = [snapshot EXCEPT ![t] = 0]
    /\ IF snapshot[t] # 0 THEN Publish("tag_removed", DeviceOf[t])
       ELSE UNCHANGED <<channel, missed>>

Remove(id) == IF id \in Devices THEN RemoveDevice(id) ELSE RemoveTag(id)

-----------------------------------------------------------------------------
(* ConfigChangedConsumer.Run and ConfigEventHandler.Handle. *)

\* again: the same event is delivered once more.
Take(event, again) ==
    /\ phase = "up"
    /\ handler = IdleHandler
    /\ event \in inFlight
    /\ inFlight' = IF again THEN inFlight ELSE inFlight \ {event}
    /\ UNCHANGED <<editor, phase, restarts, polling>>

LoadEntity(event, again) ==
    /\ Take(event, again)
    /\ event.op \in {"create", "update"}
    /\ handler' = [id |-> event.id, version |-> db[event.id]]
    /\ lost' = lost \ {event.id}
    /\ ignored' = ignored \ {event.id}
    /\ UNCHANGED <<snapshot, channel, missed>>

\* What an event is about: an entity, and a device's tags.
About(event) == {event.id} \cup (IF event.id \in Devices THEN TagsOf(event.id) ELSE {})

\* The query failed: the message is skipped, and the next one's commit covers it.
LoadFails(event, again) ==
    /\ Take(event, again)
    /\ event.op \in {"create", "update"}
    /\ lost' = lost \cup About(event)
    /\ UNCHANGED <<ignored, handler, snapshot, channel, missed>>

StoreEntity ==
    /\ handler.id # NoEntity
    /\ IF handler.version # 0 THEN Upsert(handler.id, handler.version) ELSE Remove(handler.id)
    /\ handler' = IdleHandler
    /\ UNCHANGED <<editor, inFlight, lost, ignored, phase, restarts, polling>>

RemoveEntity(event, again) ==
    /\ Take(event, again)
    /\ event.op = "delete"
    /\ Remove(event.id)
    /\ UNCHANGED <<handler, lost, ignored>>

IgnoreOperation(event, again) ==
    /\ Take(event, again)
    /\ event.op \notin {"create", "update", "delete"}
    /\ ignored' = ignored \cup About(event)
    /\ UNCHANGED <<handler, lost, snapshot, channel, missed>>

-----------------------------------------------------------------------------
(* Scheduler. *)

Wanted(d) == snapshot[d] # 0 /\ \E t \in TagsOf(d) : snapshot[t] # 0
ConfigOf(d) == [device |-> snapshot[d],
                tags |-> [t \in Tags |-> IF t \in TagsOf(d) THEN snapshot[t] ELSE 0]]
Starting == [device |-> 0, tags |-> [t \in Tags |-> 0]]
ASSUME NoWorkerAssumption == NoWorker # Starting

Subscribe ==
    /\ phase = "up"
    /\ scheduler = "down"
    /\ scheduler' = "subscribed"
    /\ UNCHANGED <<editor, inFlight, lost, ignored, consumer, channel, missed, starting, workers>>

ReinitializeAllDevices ==
    /\ scheduler = "subscribed"
    /\ scheduler' = "running"
    /\ starting' = {d \in Devices : Wanted(d)}
    /\ UNCHANGED <<editor, inFlight, lost, ignored, consumer, channel, missed, workers>>

UpsertsOnly(event) == event.kind \in {"device_upserted", "tag_upserted"}   \* mutant
Restarts(event) == event.kind \in {"device_upserted", "tag_upserted", "tag_removed"}

\* handleSnapshotEvent: the worker is stopped and waited for.
HandleSnapshotEvent ==
    LET event == Head(channel)
    IN  /\ scheduler = "running"
        /\ starting = {}
        /\ channel # <<>>
        /\ channel' = Tail(channel)
        /\ IF Restarts(event) \/ event.kind = "device_removed"
           THEN workers' = [workers EXCEPT ![event.device] = NoWorker]
           ELSE UNCHANGED workers
        /\ starting' = IF Restarts(event) THEN {event.device} ELSE {}
        /\ UNCHANGED <<editor, inFlight, lost, ignored, consumer, scheduler, missed>>

StartDevice(d) ==
    /\ d \in starting
    /\ starting' = starting \ {d}
    /\ workers' = IF Wanted(d) THEN [workers EXCEPT ![d] = Starting] ELSE workers
    /\ UNCHANGED <<editor, inFlight, lost, ignored, consumer, scheduler, channel, missed>>

\* runDevice reads the configuration for itself, and again after a driver that
\* could not be built; without tags it ends, and its entry stays.
RunDevice(d) ==
    /\ workers[d] = Starting
    /\ workers' = [workers EXCEPT ![d] = IF Wanted(d) THEN ConfigOf(d) ELSE NoWorker]
    /\ UNCHANGED <<editor, inFlight, lost, ignored, consumer, scheduler, starting, channel, missed>>

Restart ==
    /\ phase # "load"
    /\ restarts < MaxRestarts
    /\ restarts' = restarts + 1
    /\ phase' = "load"
    /\ handler' = IdleHandler
    /\ snapshot' = Empty
    /\ inFlight' = IF handler.id = NoEntity THEN inFlight
                   ELSE inFlight \cup {[id |-> handler.id, op |-> "update"]}
    /\ scheduler' = "down" /\ channel' = <<>> /\ missed' = {}
    /\ starting' = {} /\ workers' = [d \in Devices |-> NoWorker]
    /\ UNCHANGED <<editor, lost, ignored>>

-----------------------------------------------------------------------------
Editor ==
    \/ \E id \in Entities, sent \in BOOLEAN : Create(id, sent) \/ Update(id, sent)
    \/ \E t \in Tags, sent \in BOOLEAN : DeleteTag(t, sent)
    \/ \E d \in Devices, sent \in BOOLEAN : DeleteDevice(d, sent)
    \/ \E ds \in SUBSET Devices : DeleteMonitoringObject(ds)

ConfigChangedConsumer ==
    \/ LoadDevices
    \/ LoadTags
    \/ \E event \in inFlight, again \in BOOLEAN :
         \/ LoadEntity(event, again)
         \/ LoadFails(event, again)
         \/ RemoveEntity(event, again)
         \/ IgnoreOperation(event, again)
    \/ StoreEntity

Scheduler ==
    \/ Subscribe
    \/ ReinitializeAllDevices
    \/ HandleSnapshotEvent
    \/ \E d \in Devices : StartDevice(d) \/ RunDevice(d)

Next == Editor \/ ConfigChangedConsumer \/ Scheduler \/ Restart

Spec == Init /\ [][Next]_vars

-----------------------------------------------------------------------------
TypeOK ==
    /\ db \in Config /\ deleted \subseteq Entities /\ edits \in 0..MaxEdits
    /\ words \in Dialects
    /\ inFlight \subseteq Event /\ lost \subseteq Entities /\ ignored \subseteq Entities
    /\ phase \in {"load", "tags", "up"} /\ restarts \in 0..MaxRestarts
    /\ handler \in [id : Entities \cup {NoEntity}, version : Version]
    /\ snapshot \in Config
    /\ scheduler \in {"down", "subscribed", "running"}
    /\ channel \in Seq(SnapshotEvent) /\ Len(channel) <= Buffer
    /\ missed \subseteq Devices /\ starting \subseteq Devices
    /\ workers \in [Devices -> Running \cup {NoWorker, Starting}]

\* An entity is on its way to the snapshot: announced, or read by the handler as
\* it is now; a tag that is gone, also by its device that is gone.
Announced(id) == \E event \in inFlight : event.id = id
BeingStored(id) == handler = [id |-> id, version |-> db[id]]
OnItsWay(id) ==
    \/ Announced(id) \/ BeingStored(id)
    \/ /\ id \in Tags /\ db[id] = 0 /\ db[DeviceOf[id]] = 0
       /\ Announced(DeviceOf[id]) \/ BeingStored(DeviceOf[id])

\* Entities of which an announcement came to nothing.
Dropped == lost \cup ignored

\* Whatever order the events come in and whenever the database is read, a device or
\* tag of which the snapshot has another version than the database is still on its
\* way, unless an error lost its announcement or the handler did not know its word
\* (config_event_handler.go:75, 103): the snapshot is never left behind by a race.
DivergenceAnnounced ==
    phase = "up" =>
        \A id \in Entities :
            snapshot[id] # db[id] => OnItsWay(id) \/ id \in Dropped

\* No announcement is ignored: specs/0013:16 gives the words both sides use, and says
\* that the events of devices and tags are those that count.
EditsReachSnapshot ==
    phase = "up" =>
        \A id \in Entities : snapshot[id] # db[id] => OnItsWay(id) \/ id \in lost

\* With no event about a device waiting for the scheduler, its worker polls exactly the
\* device and tags of the snapshot, or does not run if it has none: neither the start of
\* the scheduler nor an edit between its check and the goroutine's own reading leaves a
\* worker with an old configuration, unless the channel dropped an event.
Settled(d) ==
    /\ scheduler = "running"
    /\ d \notin starting \cup missed
    /\ workers[d] # Starting
    /\ \A i \in 1..Len(channel) : channel[i].device # d
WorkersCurrent ==
    \A d \in Devices :
        Settled(d) => workers[d] = IF Wanted(d) THEN ConfigOf(d) ELSE NoWorker

=============================================================================
