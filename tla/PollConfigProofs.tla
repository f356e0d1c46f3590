-------------------------- MODULE PollConfigProofs --------------------------
(***************************************************************************)
(* Proofs about PollConfig, for any devices and tags, any number of edits  *)
(* and restarts, and a channel of any size.                                *)
(***************************************************************************)
EXTENDS PollConfig, SequenceTheorems, TLAPS

USE DEF vars, editor, consumer, polling

-----------------------------------------------------------------------------
(* Types. *)

LEMMA VersionType == 0 \in Version /\ 1 \in Version /\ Version \subseteq Nat
BY BoundsAssumption DEF Version

LEMMA EntityFacts ==
    /\ Devices \subseteq Entities /\ Tags \subseteq Entities
    /\ \A t \in Tags : t \notin Devices /\ DeviceOf[t] \in Devices
    /\ \A d \in Devices : TagsOf(d) \subseteq Tags /\ TagsOf(d) \cap Devices = {}
    /\ NoEntity \notin Entities
BY EntitiesAssumption, DeviceOfAssumption DEF Entities, TagsOf

LEMMA EmptyType == Empty \in Config /\ IdleHandler \in [id : Entities \cup {NoEntity}, version : Version]
BY VersionType DEF Empty, Config, IdleHandler

LEMMA InitType == Init => TypeOK
<1> SUFFICES ASSUME Init PROVE TypeOK
  OBVIOUS
<1>1. db \in Config
  BY VersionType DEF Init, Config
<1>2. deleted \subseteq Entities /\ edits \in 0..MaxEdits /\ inFlight \subseteq Event /\ lost \subseteq Entities
      /\ words \in Dialects /\ ignored \subseteq Entities
  BY BoundsAssumption DEF Init
<1>3. phase \in {"load", "tags", "up"} /\ restarts \in 0..MaxRestarts
  BY BoundsAssumption DEF Init
<1>4. handler \in [id : Entities \cup {NoEntity}, version : Version] /\ snapshot \in Config
  BY EmptyType DEF Init
<1>5. channel \in Seq(SnapshotEvent) /\ Len(channel) = 0
  BY DEF Init
<1>6. Len(channel) <= Buffer
  BY <1>5, BoundsAssumption
<1>7. /\ scheduler \in {"down", "subscribed", "running"}
      /\ missed \subseteq Devices /\ starting \subseteq Devices
      /\ workers \in [Devices -> Running \cup {NoWorker, Starting}]
  BY DEF Init
<1> QED BY <1>1, <1>2, <1>3, <1>4, <1>5, <1>6, <1>7 DEF TypeOK

(* What ms-editor changes, and what it does not.                           *)
EditorParts ==
    /\ db' \in Config /\ deleted' \subseteq Entities /\ edits' \in 0..MaxEdits
    /\ inFlight' \subseteq Event /\ lost' \subseteq Entities
    /\ UNCHANGED <<words, ignored, consumer, polling, channel, missed>>

LEMMA EditorType ==
    ASSUME TypeOK, Editor
    PROVE  EditorParts
<1> USE DEF EditorParts
<1>0. db \in Config /\ deleted \subseteq Entities /\ edits \in Nat /\ edits <= MaxEdits
      /\ inFlight \subseteq Event /\ lost \subseteq Entities
      /\ {words.created, words.updated, words.deleted} \subseteq Words
  BY BoundsAssumption DEF TypeOK, Words
<1>1. ASSUME NEW id \in Entities, NEW op \in Words
      PROVE  [id |-> id, op |-> op] \in Event
  BY DEF Event
<1>2. ASSUME NEW id \in Entities, Write(id)
      PROVE  db' \in Config /\ edits' \in 0..MaxEdits /\ UNCHANGED words
  <2>1. edits' = edits + 1 /\ edits + 1 \in Version /\ edits + 1 \in 0..MaxEdits
    BY <1>0, <1>2, BoundsAssumption DEF Write, Version
  <2> QED BY <1>0, <1>2, <2>1 DEF Write, Config
<1>3. ASSUME NEW ids \in SUBSET Entities, Erase(ids)
      PROVE  /\ db' \in Config /\ deleted' \subseteq Entities /\ edits' \in 0..MaxEdits
             /\ UNCHANGED <<words, ignored, consumer, polling, channel, missed>>
  <2>1. edits' \in 0..MaxEdits
    BY <1>0, <1>3, BoundsAssumption DEF Erase
  <2>2. db' \in Config
    BY <1>0, <1>3, VersionType DEF Erase, Config
  <2> QED BY <1>0, <1>3, <2>1, <2>2 DEF Erase
<1>4. ASSUME NEW id \in Entities, NEW sent \in BOOLEAN, Create(id, sent) \/ Update(id, sent)
      PROVE  EditorParts
  <2>1. Write(id) /\ UNCHANGED <<deleted, ignored, consumer, polling, channel, missed>>
    BY <1>4 DEF Create, Update
  <2>2. inFlight' \subseteq Event /\ lost' \subseteq Entities
    BY <1>0, <1>1, <1>4 DEF Create, Update, Announce
  <2> QED BY <1>0, <1>2, <2>1, <2>2
<1>5. ASSUME NEW t \in Tags, NEW sent \in BOOLEAN, DeleteTag(t, sent)
      PROVE  EditorParts
  <2>1. inFlight' \subseteq Event /\ lost' \subseteq Entities
    BY <1>0, <1>1, <1>5, EntityFacts DEF DeleteTag, Announce
  <2>2. {t} \in SUBSET Entities
    BY EntityFacts
  <2> QED BY <1>3, <1>5, <2>1, <2>2 DEF DeleteTag
<1>6. ASSUME NEW d \in Devices, NEW sent \in BOOLEAN, DeleteDevice(d, sent)
      PROVE  EditorParts
  <2>1. {d} \cup TagsOf(d) \in SUBSET Entities
    BY EntityFacts
  <2>2. inFlight' \subseteq Event /\ lost' \subseteq Entities
    BY <1>0, <1>1, <1>6, <2>1 DEF DeleteDevice
  <2> QED BY <1>3, <1>6, <2>1, <2>2 DEF DeleteDevice
<1>7. ASSUME NEW ds \in SUBSET Devices, DeleteMonitoringObject(ds)
      PROVE  EditorParts
  <2>1. ds \cup {t \in Tags : DeviceOf[t] \in ds} \in SUBSET Entities
    BY EntityFacts
  <2>2. inFlight' \subseteq Event /\ lost' \subseteq Entities
    BY <1>0, <1>7, <2>1 DEF DeleteMonitoringObject
  <2> QED BY <1>3, <1>7, <2>1, <2>2 DEF DeleteMonitoringObject
<1> QED BY <1>4, <1>5, <1>6, <1>7 DEF Editor

(* An event about a device is put into the channel, or the device is       *)
(* missed, or nobody has subscribed.                                       *)
LEMMA PublishCases ==
    ASSUME TypeOK, NEW kind, NEW d \in Devices, Publish(kind, d)
    PROVE  \/ scheduler = "down" /\ UNCHANGED <<channel, missed>>
           \/ /\ scheduler # "down" /\ Len(channel) < Buffer
              /\ channel' = Append(channel, [kind |-> kind, device |-> d])
              /\ missed' = missed \ {d}
           \/ scheduler # "down" /\ channel' = channel /\ missed' = missed \cup {d}
BY DEF Publish

LEMMA PublishType ==
    ASSUME TypeOK, NEW d \in Devices,
           NEW kind \in {"device_upserted", "device_removed", "tag_upserted", "tag_removed"},
           Publish(kind, d)
    PROVE  channel' \in Seq(SnapshotEvent) /\ Len(channel') <= Buffer /\ missed' \subseteq Devices
<1> DEFINE e == [kind |-> kind, device |-> d]
<1>1. e \in SnapshotEvent
  BY DEF SnapshotEvent
<1>2. channel \in Seq(SnapshotEvent) /\ Len(channel) <= Buffer /\ Buffer \in Nat
  BY BoundsAssumption DEF TypeOK
<1> HIDE DEF e
<1>3. /\ Append(channel, e) \in Seq(SnapshotEvent)
      /\ Len(Append(channel, e)) = Len(channel) + 1 /\ Len(channel) \in Nat
  <2> HIDE DEF SnapshotEvent
  <2> QED BY <1>1, <1>2
<1>4. missed' \subseteq Devices
  <2>1. missed \subseteq Devices
    BY DEF TypeOK
  <2>2. missed' \in {missed, missed \ {d}, missed \cup {d}}
    BY PublishCases
  <2> QED BY <2>1, <2>2
<1>5. channel' = channel \/ (channel' = Append(channel, e) /\ Len(channel) < Buffer)
  BY PublishCases DEF e
<1> QED BY <1>2, <1>3, <1>4, <1>5

(* What the store announces of an entity that is stored or removed.        *)
StoreParts ==
    /\ snapshot' \in Config
    /\ channel' \in Seq(SnapshotEvent) /\ Len(channel') <= Buffer
    /\ missed' \subseteq Devices

LEMMA UpsertType ==
    ASSUME TypeOK, NEW id \in Entities, NEW version \in Version, Upsert(id, version)
    PROVE  StoreParts
<1>1. snapshot' \in Config
  BY DEF Upsert, TypeOK, Config
<1>2. CASE id \in Devices
  <2>1. Publish("device_upserted", id)
    BY <1>2 DEF Upsert
  <2> QED BY <1>1, <1>2, <2>1, PublishType DEF StoreParts
<1>3. CASE id \notin Devices
  <2>1. Publish("tag_upserted", DeviceOf[id]) /\ DeviceOf[id] \in Devices
    BY <1>3, EntityFacts DEF Upsert, Entities
  <2> QED BY <1>1, <2>1, PublishType DEF StoreParts
<1> QED BY <1>2, <1>3

LEMMA RemoveType ==
    ASSUME TypeOK, NEW id \in Entities, Remove(id)
    PROVE  StoreParts
<1>1. CASE id \in Devices
  <2>1. RemoveDevice(id)
    BY <1>1 DEF Remove
  <2>2. snapshot' \in Config
    BY <2>1, VersionType DEF RemoveDevice, TypeOK, Config
  <2>3. Publish("device_removed", id)
    BY <2>1 DEF RemoveDevice
  <2> QED BY <1>1, <2>2, <2>3, PublishType DEF StoreParts
<1>2. CASE id \notin Devices
  <2>1. RemoveTag(id) /\ DeviceOf[id] \in Devices
    BY <1>2, EntityFacts DEF Remove, Entities
  <2>2. snapshot' \in Config
    BY <2>1, VersionType DEF RemoveTag, TypeOK, Config
  <2>3. Publish("tag_removed", DeviceOf[id]) \/ UNCHANGED <<channel, missed>>
    BY <2>1 DEF RemoveTag
  <2>4. CASE Publish("tag_removed", DeviceOf[id])
    BY <2>1, <2>2, <2>4, PublishType DEF StoreParts
  <2>5. CASE UNCHANGED <<channel, missed>>
    BY <2>2, <2>5 DEF StoreParts, TypeOK
  <2> QED BY <2>3, <2>4, <2>5
<1> QED BY <1>1, <1>2

LEMMA StoreTypes ==
    ASSUME TypeOK, ConfigChangedConsumer
    PROVE  TypeOK'
<1>0. /\ db \in Config /\ snapshot \in Config /\ inFlight \subseteq Event /\ lost \subseteq Entities
      /\ ignored \subseteq Entities
      /\ handler \in [id : Entities \cup {NoEntity}, version : Version]
  BY DEF TypeOK
<1>1. CASE LoadDevices
  <2>1. snapshot' \in Config
    BY <1>0, <1>1, VersionType DEF LoadDevices, Config
  <2>2. lost' \subseteq Entities /\ ignored' \subseteq Entities /\ phase' \in {"load", "tags", "up"}
    BY <1>0, <1>1 DEF LoadDevices
  <2> QED BY <1>1, <2>1, <2>2 DEF LoadDevices, TypeOK
<1>2. CASE LoadTags
  <2>1. snapshot' \in Config
    BY <1>0, <1>2 DEF LoadTags, Config
  <2>2. lost' \subseteq Entities /\ ignored' \subseteq Entities /\ phase' \in {"load", "tags", "up"}
    BY <1>0, <1>2 DEF LoadTags
  <2> QED BY <1>2, <2>1, <2>2 DEF LoadTags, TypeOK
<1>3. ASSUME NEW event \in inFlight, NEW again \in BOOLEAN, Take(event, again)
      PROVE  inFlight' \subseteq Event /\ event.id \in Entities
  BY <1>0, <1>3 DEF Take, Event
<1>4. ASSUME NEW event \in inFlight, NEW again \in BOOLEAN, LoadEntity(event, again)
      PROVE  TypeOK'
  <2>1. Take(event, again)
    BY <1>4 DEF LoadEntity
  <2>2. inFlight' \subseteq Event /\ event.id \in Entities
    BY <1>3, <2>1
  <2>3. handler' \in [id : Entities \cup {NoEntity}, version : Version] /\ lost' \subseteq Entities
        /\ ignored' \subseteq Entities
    BY <1>0, <1>4, <2>2 DEF LoadEntity, Config
  <2> QED BY <1>4, <2>1, <2>2, <2>3 DEF LoadEntity, Take, TypeOK
<1>5. ASSUME NEW event \in inFlight, NEW again \in BOOLEAN, LoadFails(event, again)
      PROVE  TypeOK'
  <2>1. Take(event, again)
    BY <1>5 DEF LoadFails
  <2>2. inFlight' \subseteq Event /\ event.id \in Entities
    BY <1>3, <2>1
  <2>3. lost' \subseteq Entities
    BY <1>0, <1>5, <2>2, EntityFacts DEF LoadFails, About
  <2> QED BY <1>5, <2>1, <2>2, <2>3 DEF LoadFails, Take, TypeOK
<1>6. ASSUME NEW event \in inFlight, NEW again \in BOOLEAN, RemoveEntity(event, again)
      PROVE  TypeOK'
  <2>1. Take(event, again) /\ Remove(event.id)
    BY <1>6 DEF RemoveEntity
  <2>2. inFlight' \subseteq Event /\ event.id \in Entities
    BY <1>3, <2>1
  <2>3. StoreParts
    BY <2>1, <2>2, RemoveType
  <2> QED BY <1>6, <2>1, <2>2, <2>3 DEF RemoveEntity, Take, TypeOK, StoreParts
<1>7. ASSUME NEW event \in inFlight, NEW again \in BOOLEAN, IgnoreOperation(event, again)
      PROVE  TypeOK'
  <2>1. Take(event, again)
    BY <1>7 DEF IgnoreOperation
  <2>2. inFlight' \subseteq Event /\ event.id \in Entities
    BY <1>3, <2>1
  <2>3. ignored' \subseteq Entities
    BY <1>0, <1>7, <2>2, EntityFacts DEF IgnoreOperation, About
  <2> QED BY <1>7, <2>1, <2>2, <2>3 DEF IgnoreOperation, Take, TypeOK
<1>8. CASE StoreEntity
  <2>1. handler.id \in Entities /\ handler.version \in Version
    BY <1>0, <1>8 DEF StoreEntity
  <2>2. Upsert(handler.id, handler.version) \/ Remove(handler.id)
    BY <1>8 DEF StoreEntity
  <2>3. StoreParts
    BY <2>1, <2>2, UpsertType, RemoveType
  <2> QED BY <1>8, <2>3, EmptyType DEF StoreEntity, TypeOK, StoreParts
<1> QED BY <1>1, <1>2, <1>4, <1>5, <1>6, <1>7, <1>8 DEF ConfigChangedConsumer

LEMMA ConfigOfType ==
    ASSUME TypeOK, NEW d \in Devices, Wanted(d)
    PROVE  ConfigOf(d) \in Running
<1>1. snapshot \in Config /\ d \in Entities /\ Tags \subseteq Entities
  BY EntityFacts DEF TypeOK
<1>2. snapshot[d] \in Version \ {0} /\ \A t \in Tags : snapshot[t] \in Version
  BY <1>1 DEF Wanted, Config
<1>3. [t \in Tags |-> IF t \in TagsOf(d) THEN snapshot[t] ELSE 0] \in [Tags -> Version]
  BY <1>2, VersionType
<1> QED BY <1>2, <1>3 DEF ConfigOf, Running

LEMMA SchedulerType ==
    ASSUME TypeOK, Scheduler
    PROVE  TypeOK'
<1> DEFINE Workers == Running \cup {NoWorker, Starting}
<1>0. workers \in [Devices -> Workers] /\ starting \subseteq Devices
  BY DEF TypeOK
<1>1. CASE Subscribe
  BY <1>1 DEF Subscribe, TypeOK
<1>2. CASE ReinitializeAllDevices
  <2>1. starting' \subseteq Devices
    BY <1>2 DEF ReinitializeAllDevices
  <2> QED BY <1>2, <2>1 DEF ReinitializeAllDevices, TypeOK
<1>3. CASE HandleSnapshotEvent
  <2>1. channel \in Seq(SnapshotEvent) /\ channel # <<>> /\ Len(channel) <= Buffer
        /\ Buffer \in Nat
    BY <1>3, BoundsAssumption DEF HandleSnapshotEvent, TypeOK
  <2>2. /\ Head(channel) \in SnapshotEvent /\ Tail(channel) \in Seq(SnapshotEvent)
        /\ Len(Tail(channel)) = Len(channel) - 1 /\ Len(channel) \in Nat
    <3> HIDE DEF SnapshotEvent
    <3> QED BY <2>1, HeadTailProperties
  <2>3. Head(channel).device \in Devices
    BY <2>2 DEF SnapshotEvent
  <2>4. channel' \in Seq(SnapshotEvent) /\ Len(channel') <= Buffer
    BY <1>3, <2>1, <2>2 DEF HandleSnapshotEvent
  <2>5. starting' \subseteq Devices
    BY <1>3, <2>3 DEF HandleSnapshotEvent
  <2>6. workers' \in [Devices -> Workers]
    BY <1>0, <1>3, <2>3 DEF HandleSnapshotEvent
  <2> QED BY <1>3, <2>4, <2>5, <2>6 DEF HandleSnapshotEvent, TypeOK
<1>4. ASSUME NEW d \in Devices, StartDevice(d) PROVE TypeOK'
  <2>1. workers' \in [Devices -> Workers] /\ starting' \subseteq Devices
    BY <1>0, <1>4 DEF StartDevice
  <2> QED BY <1>4, <2>1 DEF StartDevice, TypeOK
<1>5. ASSUME NEW d \in Devices, RunDevice(d) PROVE TypeOK'
  <2>1. workers' \in [Devices -> Workers]
    BY <1>0, <1>5, ConfigOfType DEF RunDevice
  <2> QED BY <1>5, <2>1 DEF RunDevice, TypeOK
<1> QED BY <1>1, <1>2, <1>3, <1>4, <1>5 DEF Scheduler

LEMMA RestartType ==
    ASSUME TypeOK, Restart
    PROVE  TypeOK'
<1>1. handler' \in [id : Entities \cup {NoEntity}, version : Version] /\ snapshot' \in Config
  BY EmptyType DEF Restart
<1>2. inFlight' \subseteq Event
  <2>1. handler.id # NoEntity => [id |-> handler.id, op |-> "update"] \in Event
    BY DEF TypeOK, Event, Words
  <2> QED BY <2>1 DEF Restart, TypeOK
<1>3. restarts' \in 0..MaxRestarts
  BY BoundsAssumption DEF Restart, TypeOK
<1>4. channel' \in Seq(SnapshotEvent) /\ Len(channel') = 0
  BY DEF Restart
<1>5. Len(channel') <= Buffer
  BY <1>4, BoundsAssumption
<1>6. /\ starting' \subseteq Devices /\ missed' \subseteq Devices
      /\ workers' \in [Devices -> Running \cup {NoWorker, Starting}]
  BY DEF Restart
<1>7. UNCHANGED <<db, deleted, edits, words, lost, ignored>> /\ phase' = "load" /\ scheduler' = "down"
  BY DEF Restart
<1> QED BY <1>1, <1>2, <1>3, <1>4, <1>5, <1>6, <1>7 DEF TypeOK

LEMMA NextType == TypeOK /\ [Next]_vars => TypeOK'
<1> SUFFICES ASSUME TypeOK, [Next]_vars PROVE TypeOK'
  OBVIOUS
<1>1. CASE Editor
  <2>1. EditorParts
    BY <1>1, EditorType
  <2> QED BY <2>1 DEF EditorParts, TypeOK
<1>2. CASE ConfigChangedConsumer
  BY <1>2, StoreTypes
<1>3. CASE Scheduler
  BY <1>3, SchedulerType
<1>4. CASE Restart
  BY <1>4, RestartType
<1>5. CASE UNCHANGED vars
  BY <1>5 DEF TypeOK
<1> QED BY <1>1, <1>2, <1>3, <1>4, <1>5 DEF Next

(* The variables keep their types and the channel its bound, whatever the  *)
(* editors, the consumer, the scheduler and restarts do.                   *)
THEOREM TypeCorrect == Spec => []TypeOK
<1>1. Init => TypeOK
  BY InitType
<1>2. TypeOK /\ [Next]_vars => TypeOK'
  BY NextType
<1> QED BY <1>1, <1>2, PTL DEF Spec

-----------------------------------------------------------------------------
(* The snapshot is never left behind. *)

(* An id is used once: what was announced, or read by the handler, and is  *)
(* not in the database has been deleted and never comes back.              *)
Ids ==
    /\ \A t \in Tags : db[t] # 0 => db[DeviceOf[t]] # 0
    /\ \A id \in deleted : db[id] = 0
    /\ \A event \in inFlight : event.op = "delete" \/ db[event.id] = 0 => event.id \in deleted
    /\ handler.id # NoEntity =>
         (handler.version = 0 \/ db[handler.id] = 0 => handler.id \in deleted)

Started == phase # "up" => handler = IdleHandler

(* On its way, even without what the handler has in its hands.             *)
Covered(id) ==
    \/ Announced(id)
    \/ id \in Dropped
    \/ id \in Tags /\ db[id] = 0 /\ db[DeviceOf[id]] = 0 /\ Announced(DeviceOf[id])

(* What the handler has read and is no longer so was announced again.      *)
StaleCovered ==
    handler.id # NoEntity /\ handler.version # db[handler.id] => Covered(handler.id)

(* Between the two queries of ConfigLoader.Load.                           *)
HalfLoaded ==
    phase = "tags" =>
        /\ \A d \in Devices : snapshot[d] # db[d] => Announced(d) \/ d \in Dropped
        /\ \A t \in Tags : snapshot[t] = 0
        /\ \A t \in Tags : db[t] # 0 /\ snapshot[DeviceOf[t]] = 0 => Announced(t) \/ t \in Dropped

DInv == TypeOK /\ Ids /\ Started /\ StaleCovered /\ HalfLoaded /\ DivergenceAnnounced

(* An edit of the entities ids: each of them is covered afterwards.        *)
Edits(ids) ==
    /\ ids \subseteq Entities
    /\ inFlight \subseteq inFlight' /\ Dropped \subseteq Dropped' /\ deleted \subseteq deleted'
    /\ UNCHANGED <<handler, snapshot, phase>>
    /\ \A id \in Entities \ ids : db'[id] = db[id]
    /\ \A id \in ids : Covered(id)'
    /\ Ids'

LEMMA EditsPreserve ==
    ASSUME DInv, TypeOK', NEW ids, Edits(ids)
    PROVE  DInv'
<1>0. TypeOK /\ Ids /\ Started /\ StaleCovered /\ HalfLoaded /\ DivergenceAnnounced
  BY DEF DInv
<1>1. /\ inFlight \subseteq inFlight' /\ Dropped \subseteq Dropped' /\ deleted \subseteq deleted'
      /\ UNCHANGED <<handler, snapshot, phase>>
      /\ \A id \in Entities \ ids : db'[id] = db[id]
      /\ \A id \in ids : Covered(id)'
      /\ Ids'
  BY DEF Edits
<1>2. \A id : Announced(id) => Announced(id)'
  BY <1>1 DEF Announced
<1>3. ASSUME NEW d \in Devices, db[d] = 0, Announced(d) \/ BeingStored(d)
      PROVE  db'[d] = 0
  <2>1. d \in deleted
    BY <1>0, <1>3, EntityFacts DEF Ids, Announced, BeingStored
  <2> QED BY <1>1, <2>1 DEF Ids
<1>4. ASSUME NEW id \in Entities \ ids, Covered(id) PROVE Covered(id)'
  <2>1. CASE Announced(id) \/ id \in Dropped
    BY <1>1, <1>2, <2>1 DEF Covered
  <2>2. CASE id \in Tags /\ db[id] = 0 /\ db[DeviceOf[id]] = 0 /\ Announced(DeviceOf[id])
    <3>1. db'[DeviceOf[id]] = 0 /\ Announced(DeviceOf[id])' /\ db'[id] = 0
      BY <1>1, <1>2, <1>3, <2>2, EntityFacts
    <3> QED BY <2>2, <3>1 DEF Covered
  <2> QED BY <1>4, <2>1, <2>2 DEF Covered
<1>5. Started'
  BY <1>0, <1>1 DEF Started
<1>6. StaleCovered'
  <2> SUFFICES ASSUME handler.id # NoEntity, handler.version # db'[handler.id]
               PROVE  Covered(handler.id)'
    BY <1>1 DEF StaleCovered
  <2>1. handler.id \in Entities
    BY <1>0 DEF TypeOK
  <2>2. CASE handler.id \in ids
    BY <1>1, <2>2
  <2>3. CASE handler.id \notin ids
    BY <1>0, <1>1, <1>4, <2>1, <2>3 DEF StaleCovered
  <2> QED BY <2>2, <2>3
<1>7. HalfLoaded'
  <2> SUFFICES ASSUME phase = "tags" PROVE HalfLoaded'
    BY <1>1 DEF HalfLoaded
  <2>1. ASSUME NEW d \in Devices, snapshot[d] # db'[d] PROVE Announced(d)' \/ d \in Dropped'
    <3>1. d \in Entities /\ d \notin Tags
      BY EntityFacts
    <3>2. CASE d \in ids
      BY <1>1, <3>1, <3>2 DEF Covered
    <3>3. CASE d \notin ids
      BY <1>0, <1>1, <1>2, <2>1, <3>1, <3>3 DEF HalfLoaded
    <3> QED BY <3>2, <3>3
  <2>2. ASSUME NEW t \in Tags, db'[t] # 0, snapshot[DeviceOf[t]] = 0
        PROVE  Announced(t)' \/ t \in Dropped'
    <3>1. CASE t \in ids
      BY <1>1, <2>2, <3>1 DEF Covered
    <3>2. CASE t \notin ids
      BY <1>0, <1>1, <1>2, <2>2, <3>2, EntityFacts DEF HalfLoaded
    <3> QED BY <3>1, <3>2
  <2>3. \A t \in Tags : snapshot[t] = 0
    BY <1>0 DEF HalfLoaded
  <2> QED BY <1>1, <2>1, <2>2, <2>3 DEF HalfLoaded
<1>8. DivergenceAnnounced'
  <2> SUFFICES ASSUME phase = "up", NEW id \in Entities, snapshot[id] # db'[id]
               PROVE  OnItsWay(id)' \/ id \in Dropped'
    BY <1>1 DEF DivergenceAnnounced
  <2>1. Covered(id)' => OnItsWay(id)' \/ id \in Dropped'
    BY DEF Covered, OnItsWay
  <2>2. CASE id \in ids
    BY <1>1, <2>1, <2>2
  <2>3. CASE id \notin ids
    <3>1. db'[id] = db[id] /\ (OnItsWay(id) \/ id \in Dropped)
      BY <1>0, <1>1, <2>3 DEF DivergenceAnnounced
    <3>2. CASE Announced(id) \/ id \in Dropped
      BY <1>1, <1>2, <3>2 DEF OnItsWay
    <3>3. CASE BeingStored(id)
      BY <1>1, <3>1, <3>3 DEF OnItsWay, BeingStored
    <3>4. CASE /\ id \in Tags /\ db[id] = 0 /\ db[DeviceOf[id]] = 0
               /\ Announced(DeviceOf[id]) \/ BeingStored(DeviceOf[id])
      <4>1. db'[DeviceOf[id]] = 0
        BY <1>3, <3>4, EntityFacts
      <4>2. Announced(DeviceOf[id])' \/ BeingStored(DeviceOf[id])'
        BY <1>1, <1>2, <3>4, <4>1 DEF BeingStored
      <4> QED BY <3>1, <3>4, <4>1, <4>2 DEF OnItsWay
    <3> QED BY <3>1, <3>2, <3>3, <3>4 DEF OnItsWay
  <2> QED BY <2>2, <2>3
<1> QED BY <1>1, <1>5, <1>6, <1>7, <1>8 DEF DInv

LEMMA EditorEdits ==
    ASSUME DInv, Editor
    PROVE  \E ids : Edits(ids)
<1>0. TypeOK /\ Ids /\ db \in Config /\ edits \in Nat /\ inFlight \subseteq Event
      /\ DOMAIN db = Entities
  BY DEF DInv, TypeOK, Config
<1>1. words.created # "delete" /\ words.updated # "delete"
  BY <1>0, DialectsAssumption DEF TypeOK
<1>2. UNCHANGED <<handler, snapshot, phase, ignored>>
  BY EditorType, <1>0 DEF EditorParts
<1>3. ASSUME NEW id \in Entities, NEW sent \in BOOLEAN, Create(id, sent) \/ Update(id, sent)
      PROVE  Edits({id})
  <2>1. /\ db' = [db EXCEPT ![id] = edits + 1] /\ edits + 1 # 0 /\ deleted' = deleted
        /\ id \in Tags => db[DeviceOf[id]] # 0
        /\ id \notin deleted
    BY <1>0, <1>3 DEF Create, Update, Write, Ids
  <2>2. PICK op \in {words.created, words.updated} : Announce(id, op, sent)
    BY <1>3 DEF Create, Update
  <2>3. inFlight \subseteq inFlight' /\ Dropped \subseteq Dropped'
    BY <1>2, <2>2 DEF Announce, Dropped
  <2>4. Announced(id)' \/ id \in Dropped'
    <3> DEFINE e == [id |-> id, op |-> op]
    <3>1. e.id = id
      OBVIOUS
    <3>2. e \in inFlight' \/ id \in Dropped'
      BY <2>2 DEF Announce, Dropped
    <3> HIDE DEF e
    <3> QED BY <3>1, <3>2 DEF Announced
  <2>5. db'[id] # 0 /\ \A x \in Entities \ {id} : db'[x] = db[x]
    BY <1>0, <2>1
  <2>6. \A t \in Tags : db'[t] # 0 => db'[DeviceOf[t]] # 0
    BY <1>0, <2>1, <2>5, EntityFacts DEF Ids
  <2>7. \A x \in deleted : db'[x] = 0
    <3>1. deleted \subseteq Entities
      BY <1>0 DEF TypeOK
    <3> QED BY <1>0, <2>1, <2>5, <3>1 DEF Ids
  <2>8. ASSUME NEW event \in inFlight', event.op = "delete" \/ db'[event.id] = 0
        PROVE  event.id \in deleted
    <3>1. CASE event \in inFlight
      <4>1. event.id \in Entities
        BY <1>0, <3>1 DEF Event
      <4> QED BY <1>0, <2>1, <2>5, <2>8, <3>1, <4>1 DEF Ids
    <3>2. CASE event \notin inFlight
      <4>1. event = [id |-> id, op |-> op]
        BY <2>2, <3>2 DEF Announce
      <4>2. event.id = id /\ event.op = op
        BY <4>1
      <4> QED BY <1>1, <2>5, <2>8, <4>2
    <3> QED BY <3>1, <3>2
  <2>9. handler.id # NoEntity =>
          (handler.version = 0 \/ db'[handler.id] = 0 => handler.id \in deleted)
    BY <1>0, <2>5 DEF Ids, TypeOK
  <2>10. Ids'
    BY <1>2, <2>1, <2>6, <2>7, <2>8, <2>9 DEF Ids
  <2> QED BY <1>2, <2>1, <2>3, <2>4, <2>5, <2>10 DEF Edits, Covered
<1>4. ASSUME NEW ids \in SUBSET Entities, Erase(ids),
             \A d \in ids \cap Devices : TagsOf(d) \subseteq ids,
             inFlight \subseteq inFlight', Dropped \subseteq Dropped',
             \A event \in inFlight' \ inFlight : event.id \in ids,
             \A id \in ids : \/ Announced(id)' \/ id \in Dropped'
                             \/ /\ id \in Tags /\ DeviceOf[id] \in ids
                                /\ Announced(DeviceOf[id])'
      PROVE  Edits(ids)
  <2>1. /\ db' = [e \in Entities |-> IF e \in ids THEN 0 ELSE db[e]]
        /\ deleted' = deleted \cup ids
    BY <1>4 DEF Erase
  <2>2. /\ \A id \in ids : db'[id] = 0
        /\ \A id \in Entities \ ids : db'[id] = db[id]
    BY <1>4, <2>1
  <2>3. \A id \in ids : Covered(id)'
    BY <1>4, <2>2 DEF Covered
  <2>4. \A t \in Tags : db'[t] # 0 => db'[DeviceOf[t]] # 0
    <3> SUFFICES ASSUME NEW t \in Tags, db'[t] # 0 PROVE db'[DeviceOf[t]] # 0
      OBVIOUS
    <3>1. t \notin ids /\ db[t] # 0 /\ t \in TagsOf(DeviceOf[t])
      BY <2>2, EntityFacts DEF TagsOf
    <3>2. DeviceOf[t] \notin ids /\ DeviceOf[t] \in Entities
      BY <1>4, <3>1, EntityFacts
    <3> QED BY <1>0, <2>2, <3>1, <3>2 DEF Ids
  <2>5. \A id \in deleted' : db'[id] = 0
    <3>1. deleted \subseteq Entities
      BY <1>0 DEF TypeOK
    <3> QED BY <1>0, <2>1, <2>2, <3>1 DEF Ids
  <2>6. ASSUME NEW event \in inFlight', event.op = "delete" \/ db'[event.id] = 0
        PROVE  event.id \in deleted'
    <3>1. CASE event \in inFlight
      <4>1. event.id \in Entities
        BY <1>0, <3>1 DEF Event
      <4> QED BY <1>0, <2>1, <2>2, <2>6, <3>1, <4>1 DEF Ids
    <3>2. CASE event \notin inFlight
      BY <1>4, <2>1, <3>2
    <3> QED BY <3>1, <3>2
  <2>7. handler.id # NoEntity =>
          (handler.version = 0 \/ db'[handler.id] = 0 => handler.id \in deleted')
    BY <1>0, <2>1, <2>2 DEF Ids, TypeOK
  <2>8. Ids'
    BY <1>2, <2>4, <2>5, <2>6, <2>7 DEF Ids
  <2> QED BY <1>2, <1>4, <2>1, <2>2, <2>3, <2>8 DEF Edits
<1>5. ASSUME NEW id \in Entities,
             inFlight' = inFlight \cup {[id |-> id, op |-> words.deleted]}
      PROVE  /\ inFlight \subseteq inFlight' /\ Announced(id)'
             /\ \A event \in inFlight' \ inFlight : event.id = id
  <2> DEFINE e == [id |-> id, op |-> words.deleted]
  <2>1. e.id = id /\ inFlight' = inFlight \cup {e}
    BY <1>5
  <2> HIDE DEF e
  <2> QED BY <2>1 DEF Announced
<1>6. ASSUME NEW t \in Tags, NEW sent \in BOOLEAN, DeleteTag(t, sent)
      PROVE  Edits({t})
  <2>1. Erase({t}) /\ Announce(t, words.deleted, sent) /\ t \in Entities /\ t \notin Devices
    BY <1>6, EntityFacts DEF DeleteTag
  <2>2. CASE sent
    <3>1. inFlight' = inFlight \cup {[id |-> t, op |-> words.deleted]} /\ Dropped' = Dropped
      BY <1>2, <2>1, <2>2 DEF Announce, Dropped
    <3> QED BY <1>4, <1>5, <2>1, <3>1
  <2>3. CASE ~sent
    <3>1. inFlight' = inFlight /\ Dropped' = Dropped \cup {t}
      BY <1>2, <2>1, <2>3 DEF Announce, Dropped
    <3> QED BY <1>4, <2>1, <3>1
  <2> QED BY <2>2, <2>3
<1>7. ASSUME NEW d \in Devices, NEW sent \in BOOLEAN, DeleteDevice(d, sent)
      PROVE  Edits({d} \cup TagsOf(d))
  <2> DEFINE ids == {d} \cup TagsOf(d)
  <2>1. /\ Erase(ids) /\ ids \in SUBSET Entities /\ d \in Entities
        /\ \A x \in ids \cap Devices : TagsOf(x) \subseteq ids
        /\ \A id \in ids : id = d \/ (id \in Tags /\ DeviceOf[id] = d)
    BY <1>7, EntityFacts DEF DeleteDevice, TagsOf
  <2>2. CASE sent
    <3>1. inFlight' = inFlight \cup {[id |-> d, op |-> words.deleted]} /\ Dropped' = Dropped
      BY <1>2, <1>7, <2>2 DEF DeleteDevice, Dropped
    <3>2. \A event \in inFlight' \ inFlight : event.id \in ids
      BY <1>5, <2>1, <3>1
    <3>3. Announced(d)' /\ inFlight \subseteq inFlight'
      BY <1>5, <2>1, <3>1
    <3>4. d \in ids
      OBVIOUS
    <3> HIDE DEF ids
    <3> QED BY <1>4, <2>1, <3>1, <3>2, <3>3, <3>4 DEF ids
  <2>3. CASE ~sent
    <3>1. inFlight' = inFlight /\ Dropped' = Dropped \cup {d} \cup TagsOf(d)
      BY <1>2, <1>7, <2>3 DEF DeleteDevice, Dropped
    <3> QED BY <1>4, <2>1, <3>1
  <2> QED BY <2>2, <2>3
<1>8. ASSUME NEW ds \in SUBSET Devices, DeleteMonitoringObject(ds)
      PROVE  Edits(ds \cup {t \in Tags : DeviceOf[t] \in ds})
  <2> DEFINE ids == ds \cup {t \in Tags : DeviceOf[t] \in ds}
  <2>1. /\ Erase(ids) /\ ids \in SUBSET Entities
        /\ \A x \in ids \cap Devices : TagsOf(x) \subseteq ids
    BY <1>8, EntityFacts DEF DeleteMonitoringObject, TagsOf
  <2>2. inFlight' = inFlight /\ Dropped \subseteq Dropped' /\ ids \subseteq Dropped'
    BY <1>2, <1>8 DEF DeleteMonitoringObject, Dropped
  <2> HIDE DEF ids
  <2>3. Edits(ids)
    BY <1>4, <2>1, <2>2
  <2> QED BY <2>3 DEF ids
<1> QED BY <1>3, <1>6, <1>7, <1>8 DEF Editor

LEMMA LoaderDiverges ==
    ASSUME DInv, TypeOK', LoadDevices \/ LoadTags
    PROVE  DInv'
<1>0. TypeOK /\ Ids /\ Started /\ StaleCovered /\ HalfLoaded
  BY DEF DInv
<1>1. UNCHANGED <<db, deleted, inFlight, handler>> /\ phase # "up"
  BY DEF LoadDevices, LoadTags
<1>2. handler = IdleHandler /\ handler.id = NoEntity
  BY <1>0, <1>1 DEF Started, IdleHandler
<1>3. Ids' /\ Started' /\ StaleCovered'
  BY <1>0, <1>1, <1>2 DEF Ids, Started, StaleCovered
<1>4. \A id : Announced(id)' = Announced(id)
  BY <1>1 DEF Announced
<1>5. CASE LoadDevices
  <2>1. phase' = "tags"
    BY <1>5 DEF LoadDevices
  <2>2. /\ \A d \in Devices : snapshot'[d] = db[d]
        /\ \A t \in Tags : snapshot'[t] = 0 /\ snapshot'[DeviceOf[t]] = db[DeviceOf[t]]
    BY <1>5, EntityFacts DEF LoadDevices
  <2>3. \A t \in Tags : db[t] # 0 => snapshot'[DeviceOf[t]] # 0
    BY <1>0, <2>2 DEF Ids
  <2>4. HalfLoaded'
    BY <1>1, <2>2, <2>3 DEF HalfLoaded
  <2>5. DivergenceAnnounced'
    BY <2>1 DEF DivergenceAnnounced
  <2> QED BY <1>3, <2>4, <2>5 DEF DInv
<1>6. CASE LoadTags
  <2> DEFINE read == {t \in Tags : snapshot[DeviceOf[t]] # 0}
  <2>1. /\ phase = "tags" /\ phase' = "up" /\ Dropped' = Dropped \ read
        /\ snapshot' = [e \in Entities |-> IF e \in read THEN db[e] ELSE snapshot[e]]
    BY <1>6 DEF LoadTags, Dropped
  <2>2. HalfLoaded'
    BY <2>1 DEF HalfLoaded
  <2>3. ASSUME NEW id \in Entities, snapshot'[id] # db[id]
        PROVE  Announced(id) \/ id \in Dropped'
    <3>1. id \notin read /\ snapshot[id] # db[id]
      BY <2>1, <2>3
    <3>2. CASE id \in Devices
      BY <1>0, <2>1, <3>1, <3>2 DEF HalfLoaded
    <3>3. CASE id \in Tags
      BY <1>0, <2>1, <3>1, <3>3 DEF HalfLoaded
    <3> QED BY <3>2, <3>3 DEF Entities
  <2>4. DivergenceAnnounced'
    BY <1>1, <1>4, <2>3 DEF DivergenceAnnounced, OnItsWay
  <2> QED BY <1>3, <2>2, <2>4 DEF DInv
<1> QED BY <1>5, <1>6

(* What a removal or a store does to the snapshot.                         *)
LEMMA RemoveSnapshot ==
    ASSUME TypeOK, NEW id \in Entities, Remove(id)
    PROVE  /\ snapshot'[id] = 0
           /\ \A t \in Tags : DeviceOf[t] = id => snapshot'[t] = 0
           /\ \A x \in Entities :
                snapshot'[x] = snapshot[x] \/ x = id \/ (x \in Tags /\ DeviceOf[x] = id)
<1>0. snapshot \in Config
  BY DEF TypeOK
<1>1. CASE id \in Devices
  <2>1. snapshot' = [e \in Entities |-> IF e \in {id} \cup TagsOf(id) THEN 0 ELSE snapshot[e]]
    BY <1>1 DEF Remove, RemoveDevice
  <2> QED BY <2>1, EntityFacts DEF TagsOf
<1>2. CASE id \notin Devices
  <2>1. snapshot' = [snapshot EXCEPT ![id] = 0]
    BY <1>2 DEF Remove, RemoveTag
  <2> QED BY <1>0, <1>2, <2>1, EntityFacts DEF Config
<1> QED BY <1>1, <1>2

LEMMA UpsertSnapshot ==
    ASSUME TypeOK, NEW id \in Entities, NEW version, Upsert(id, version)
    PROVE  /\ snapshot'[id] = version
           /\ \A x \in Entities \ {id} : snapshot'[x] = snapshot[x]
BY DEF Upsert, TypeOK, Config

LEMMA TakeFacts ==
    ASSUME DInv, NEW event \in inFlight, NEW again \in BOOLEAN, Take(event, again)
    PROVE  /\ phase = "up" /\ UNCHANGED <<db, deleted, phase>>
           /\ handler = IdleHandler /\ handler.id = NoEntity
           /\ event.id \in Entities
           /\ inFlight' \subseteq inFlight
           /\ \A id : Announced(id) => Announced(id)' \/ id = event.id
           /\ \A id \in Entities : ~BeingStored(id)
<1>1. /\ phase = "up" /\ UNCHANGED <<db, deleted, phase>>
      /\ handler = IdleHandler
      /\ inFlight' = IF again THEN inFlight ELSE inFlight \ {event}
  BY DEF Take
<1>2. handler.id = NoEntity /\ handler = [id |-> NoEntity, version |-> 0]
  BY <1>1 DEF IdleHandler
<1>3. event.id \in Entities
  BY DEF DInv, TypeOK, Event
<1>4. ASSUME NEW id \in Entities, BeingStored(id) PROVE FALSE
  <2>1. handler.id = id
    BY <1>4 DEF BeingStored
  <2> QED BY <1>2, <2>1, EntityFacts
<1> QED BY <1>1, <1>2, <1>3, <1>4 DEF Announced

LEMMA HandlerDiverges ==
    ASSUME DInv, TypeOK', NEW event \in inFlight, NEW again \in BOOLEAN,
           \/ LoadEntity(event, again) \/ LoadFails(event, again)
           \/ RemoveEntity(event, again) \/ IgnoreOperation(event, again)
    PROVE  DInv'
<1>0. TypeOK /\ Ids /\ DivergenceAnnounced
  BY DEF DInv
<1> DEFINE id == event.id
<1>1. /\ phase = "up" /\ UNCHANGED <<db, deleted, phase>>
      /\ handler = IdleHandler /\ handler.id = NoEntity
      /\ id \in Entities
      /\ inFlight' \subseteq inFlight
      /\ \A x : Announced(x) => Announced(x)' \/ x = id
      /\ \A x \in Entities : ~BeingStored(x)
  BY TakeFacts DEF LoadEntity, LoadFails, RemoveEntity, IgnoreOperation
<1>3. Started' /\ HalfLoaded'
  BY <1>1 DEF Started, HalfLoaded
<1> HIDE DEF id
<1>4. ASSUME NEW x \in Entities, snapshot[x] # db[x]
      PROVE  \/ Announced(x) \/ x \in Dropped
             \/ x \in Tags /\ db[x] = 0 /\ db[DeviceOf[x]] = 0 /\ Announced(DeviceOf[x])
  BY <1>0, <1>1, <1>4, EntityFacts DEF DivergenceAnnounced, OnItsWay
<1>5. CASE LoadEntity(event, again)
  <2>1. handler' = [id |-> id, version |-> db[id]] /\ Dropped' = Dropped \ {id} /\ UNCHANGED snapshot
    BY <1>5 DEF LoadEntity, Dropped, id
  <2>2. handler'.id = id /\ handler'.version = db'[id] /\ BeingStored(id)'
    BY <1>1, <2>1 DEF BeingStored
  <2>3. db[id] = 0 => id \in deleted
    BY <1>0 DEF Ids, id
  <2>4. Ids'
    BY <1>0, <1>1, <2>2, <2>3 DEF Ids
  <2>5. StaleCovered'
    BY <2>2 DEF StaleCovered
  <2>6. DivergenceAnnounced'
    <3> SUFFICES ASSUME NEW x \in Entities, snapshot'[x] # db'[x]
                 PROVE  OnItsWay(x)' \/ x \in Dropped'
      BY DEF DivergenceAnnounced
    <3>1. snapshot[x] # db[x]
      BY <1>1, <2>1
    <3>2. CASE x = id
      BY <2>2, <3>2 DEF OnItsWay
    <3>3. CASE x # id /\ (Announced(x) \/ x \in Dropped)
      BY <1>1, <2>1, <3>3 DEF OnItsWay
    <3>4. CASE x \in Tags /\ db[x] = 0 /\ db[DeviceOf[x]] = 0 /\ Announced(DeviceOf[x])
      <4>1. Announced(DeviceOf[x])' \/ BeingStored(DeviceOf[x])'
        BY <1>1, <2>2, <3>4
      <4> QED BY <1>1, <3>4, <4>1 DEF OnItsWay
    <3> QED BY <1>4, <3>1, <3>2, <3>3, <3>4
  <2> QED BY <1>3, <2>4, <2>5, <2>6 DEF DInv
<1>6. CASE LoadFails(event, again) \/ IgnoreOperation(event, again)
  <2>1. /\ UNCHANGED <<handler, snapshot>>
        /\ Dropped \subseteq Dropped' /\ id \in Dropped'
        /\ id \in Devices => TagsOf(id) \subseteq Dropped'
    BY <1>6 DEF LoadFails, IgnoreOperation, About, Dropped, id
  <2>2. Ids' /\ StaleCovered'
    BY <1>0, <1>1, <2>1 DEF Ids, StaleCovered
  <2>3. DivergenceAnnounced'
    <3> SUFFICES ASSUME NEW x \in Entities, snapshot'[x] # db'[x]
                 PROVE  OnItsWay(x)' \/ x \in Dropped'
      BY DEF DivergenceAnnounced
    <3>1. snapshot[x] # db[x]
      BY <1>1, <2>1
    <3>2. CASE Announced(x) \/ x \in Dropped
      BY <1>1, <2>1, <3>2 DEF OnItsWay
    <3>3. CASE x \in Tags /\ db[x] = 0 /\ db[DeviceOf[x]] = 0 /\ Announced(DeviceOf[x])
      <4>1. CASE DeviceOf[x] = id
        BY <2>1, <3>3, <4>1, EntityFacts DEF TagsOf
      <4>2. CASE DeviceOf[x] # id
        BY <1>1, <3>3, <4>2 DEF OnItsWay
      <4> QED BY <4>1, <4>2
    <3> QED BY <1>4, <3>1, <3>2, <3>3
  <2> QED BY <1>3, <2>2, <2>3 DEF DInv
<1>7. CASE RemoveEntity(event, again)
  <2>1. UNCHANGED <<handler, Dropped>> /\ Remove(id) /\ event.op = "delete"
    BY <1>7 DEF RemoveEntity, Dropped, id
  <2>2. id \in deleted
    BY <1>0, <2>1 DEF Ids, id
  <2>3. db[id] = 0 /\ \A t \in Tags : DeviceOf[t] = id => db[t] = 0
    BY <1>0, <2>2 DEF Ids
  <2>4. Ids' /\ StaleCovered'
    BY <1>0, <1>1, <2>1 DEF Ids, StaleCovered
  <2>5. DivergenceAnnounced'
    <3> SUFFICES ASSUME NEW x \in Entities, snapshot'[x] # db'[x]
                 PROVE  OnItsWay(x)' \/ x \in Dropped'
      BY DEF DivergenceAnnounced
    <3>1. /\ snapshot'[x] = snapshot[x] /\ x # id
          /\ ~(x \in Tags /\ DeviceOf[x] = id)
      BY <1>0, <1>1, <2>1, <2>3, RemoveSnapshot
    <3>2. snapshot[x] # db[x]
      BY <1>1, <3>1
    <3>3. CASE Announced(x) \/ x \in Dropped
      BY <1>1, <2>1, <3>1, <3>3 DEF OnItsWay
    <3>4. CASE x \in Tags /\ db[x] = 0 /\ db[DeviceOf[x]] = 0 /\ Announced(DeviceOf[x])
      BY <1>1, <3>1, <3>4 DEF OnItsWay
    <3> QED BY <1>4, <3>2, <3>3, <3>4
  <2> QED BY <1>3, <2>4, <2>5 DEF DInv
<1> QED BY <1>5, <1>6, <1>7

LEMMA StoreDiverges ==
    ASSUME DInv, TypeOK', StoreEntity
    PROVE  DInv'
<1>0. TypeOK /\ Ids /\ Started /\ StaleCovered /\ DivergenceAnnounced
  BY DEF DInv
<1> DEFINE id == handler.id
<1>1. /\ id \in Entities /\ UNCHANGED <<db, deleted, inFlight, Dropped, phase>>
      /\ handler' = IdleHandler /\ handler'.id = NoEntity
  BY <1>0 DEF StoreEntity, TypeOK, IdleHandler, Dropped
<1>2. phase = "up"
  BY <1>0, <1>1, EntityFacts DEF Started, IdleHandler
<1>3. /\ handler.version # 0 => Upsert(id, handler.version)
      /\ handler.version = 0 => Remove(id)
  BY DEF StoreEntity
<1>4. Ids' /\ Started' /\ StaleCovered' /\ HalfLoaded'
  BY <1>0, <1>1, <1>2 DEF Ids, Started, StaleCovered, HalfLoaded
<1>5. ASSUME NEW x PROVE /\ Announced(x)' = Announced(x)
                         /\ Covered(x) => OnItsWay(x)' \/ x \in Dropped'
  BY <1>1 DEF Announced, Covered, OnItsWay
<1>6. ASSUME NEW x \in Entities, BeingStored(x) PROVE x = id /\ db[id] = handler.version
  BY <1>6 DEF BeingStored
<1>7. ASSUME NEW x \in Entities \ {id}, snapshot[x] # db[x],
             ~(x \in Tags /\ DeviceOf[x] = id /\ handler.version = 0)
      PROVE  OnItsWay(x)' \/ x \in Dropped'
  <2>1. OnItsWay(x) \/ x \in Dropped
    BY <1>0, <1>2, <1>7 DEF DivergenceAnnounced
  <2>2. CASE Announced(x) \/ x \in Dropped
    BY <1>5, <2>2 DEF Covered
  <2>3. CASE BeingStored(x)
    BY <1>6, <1>7, <2>3
  <2>4. CASE /\ x \in Tags /\ db[x] = 0 /\ db[DeviceOf[x]] = 0
             /\ Announced(DeviceOf[x]) \/ BeingStored(DeviceOf[x])
    <3>1. ~BeingStored(DeviceOf[x])
      BY <1>6, <1>7, <2>4, EntityFacts
    <3> QED BY <1>5, <2>4, <3>1 DEF Covered
  <2> QED BY <2>1, <2>2, <2>3, <2>4 DEF OnItsWay
<1> HIDE DEF id
<1>8. DivergenceAnnounced'
  <2> SUFFICES ASSUME NEW x \in Entities, snapshot'[x] # db[x]
               PROVE  OnItsWay(x)' \/ x \in Dropped'
    BY <1>1 DEF DivergenceAnnounced
  <2>1. CASE handler.version # 0
    <3>1. snapshot'[id] = handler.version /\ \A y \in Entities \ {id} : snapshot'[y] = snapshot[y]
      BY <1>0, <1>1, <1>3, <2>1, UpsertSnapshot
    <3>2. CASE x = id
      <4>1. Covered(id)
        BY <1>0, <1>1, <3>1, <3>2, EntityFacts DEF StaleCovered, id
      <4> QED BY <1>5, <3>2, <4>1
    <3>3. CASE x # id
      BY <1>7, <2>1, <3>1, <3>3
    <3> QED BY <3>2, <3>3
  <2>2. CASE handler.version = 0
    <3>1. id \in deleted
      BY <1>0, <1>1, <2>2, EntityFacts DEF Ids, id
    <3>2. db[id] = 0 /\ \A t \in Tags : DeviceOf[t] = id => db[t] = 0
      BY <1>0, <3>1 DEF Ids
    <3>3. /\ snapshot'[x] = snapshot[x] /\ x # id
          /\ ~(x \in Tags /\ DeviceOf[x] = id)
      BY <1>0, <1>1, <1>3, <2>2, <3>2, RemoveSnapshot
    <3> QED BY <1>7, <3>3
  <2> QED BY <2>1, <2>2
<1> QED BY <1>4, <1>8 DEF DInv

LEMMA InitDiverges == Init => DInv
<1> SUFFICES ASSUME Init PROVE DInv
  OBVIOUS
<1>1. TypeOK
  BY InitType
<1>2. deleted = {} /\ inFlight = {} /\ handler = IdleHandler /\ phase = "load"
  BY DEF Init
<1>3. \A t \in Tags : db[t] # 0 => db[DeviceOf[t]] # 0
  BY EntityFacts DEF Init
<1>4. handler.id = NoEntity
  BY <1>2 DEF IdleHandler
<1> QED BY <1>1, <1>2, <1>3, <1>4
        DEF DInv, Ids, Started, StaleCovered, HalfLoaded, DivergenceAnnounced

LEMMA NextDiverges == DInv /\ [Next]_vars => DInv'
<1> SUFFICES ASSUME DInv, [Next]_vars PROVE DInv'
  OBVIOUS
<1>0. TypeOK'
  BY NextType DEF DInv
<1>1. CASE Editor
  BY <1>0, <1>1, EditorEdits, EditsPreserve
<1>2. CASE ConfigChangedConsumer
  BY <1>0, <1>2, LoaderDiverges, HandlerDiverges, StoreDiverges DEF ConfigChangedConsumer
<1>3. CASE Scheduler
  <2>1. UNCHANGED <<editor, inFlight, Dropped, consumer>>
    BY <1>3 DEF Dropped, Scheduler, Subscribe, ReinitializeAllDevices, HandleSnapshotEvent,
                StartDevice, RunDevice
  <2> QED BY <1>0, <2>1 DEF DInv, Ids, Started, StaleCovered, HalfLoaded, DivergenceAnnounced,
                            Covered, OnItsWay, Announced, BeingStored
<1>4. CASE Restart
  <2>1. /\ UNCHANGED <<editor, Dropped>> /\ phase' = "load" /\ handler' = IdleHandler
        /\ handler'.id = NoEntity
    BY <1>4 DEF Restart, IdleHandler, Dropped
  <2>2. ASSUME NEW event \in inFlight', event.op = "delete" \/ db[event.id] = 0
        PROVE  event.id \in deleted
    <3>1. CASE event \in inFlight
      BY <2>2, <3>1 DEF DInv, Ids
    <3>2. CASE event \notin inFlight
      <4>1. handler.id # NoEntity /\ event = [id |-> handler.id, op |-> "update"]
        BY <1>4, <3>2 DEF Restart
      <4>2. event.id = handler.id /\ event.op # "delete"
        BY <4>1
      <4> QED BY <2>2, <4>1, <4>2 DEF DInv, Ids
    <3> QED BY <3>1, <3>2
  <2>3. Ids'
    BY <2>1, <2>2 DEF DInv, Ids
  <2>4. Started' /\ StaleCovered' /\ HalfLoaded' /\ DivergenceAnnounced'
    BY <2>1 DEF Started, StaleCovered, HalfLoaded, DivergenceAnnounced
  <2> QED BY <1>0, <2>3, <2>4 DEF DInv
<1>5. CASE UNCHANGED vars
  BY <1>0, <1>5 DEF Dropped, DInv, Ids, Started, StaleCovered, HalfLoaded, DivergenceAnnounced,
                    Covered, OnItsWay, Announced, BeingStored
<1> QED BY <1>1, <1>2, <1>3, <1>4, <1>5 DEF Next

(* No order of events, no repetition and no moment at which the database   *)
(* is read leaves an old version of a device or tag in the snapshot for    *)
(* good, unless an error lost its announcement or the handler ignored it   *)
(* for its word, whatever words ms-editor writes.                          *)
THEOREM SnapshotFollows == Spec => []DivergenceAnnounced
<1>1. Init => DInv
  BY InitDiverges
<1>2. DInv /\ [Next]_vars => DInv'
  BY NextDiverges
<1>3. DInv => DivergenceAnnounced
  BY DEF DInv
<1> QED BY <1>1, <1>2, <1>3, PTL DEF Spec

-----------------------------------------------------------------------------
(* A worker polls what the snapshot says. *)

(* The scheduler only runs on a loaded snapshot, and a device it is about  *)
(* to start has no worker.                                                 *)
Stages ==
    /\ scheduler # "down" => phase = "up"
    /\ scheduler = "down" => channel = <<>>
    /\ scheduler # "running" => starting = {} /\ \A d \in Devices : workers[d] = NoWorker
    /\ \A d \in starting : workers[d] = NoWorker

(* A removal that is the last event about its device is still true.        *)
LastFor(i) == \A j \in (i + 1)..Len(channel) : channel[j].device # channel[i].device
RemovedIsGone ==
    \A i \in 1..Len(channel) :
        channel[i].kind = "device_removed" /\ LastFor(i) /\ channel[i].device \notin missed
        => snapshot[channel[i].device] = 0

WInv == TypeOK /\ Stages /\ RemovedIsGone /\ WorkersCurrent

LEMMA ChannelFacts ==
    ASSUME TypeOK
    PROVE  /\ channel \in Seq(SnapshotEvent) /\ Len(channel) \in Nat
           /\ \A i \in 1..Len(channel) : channel[i].device \in Devices
<1>1. channel \in Seq(SnapshotEvent)
  BY DEF TypeOK
<1>2. Len(channel) \in Nat /\ \A i \in 1..Len(channel) : channel[i] \in SnapshotEvent
  <2> HIDE DEF SnapshotEvent
  <2> QED BY <1>1
<1> QED BY <1>1, <1>2 DEF SnapshotEvent

(* What a change of one device's entities leaves of the other devices.     *)
LEMMA OtherDevices ==
    ASSUME TypeOK, NEW d \in Devices, NEW e \in Devices \ {d},
           \A x \in Entities \ ({d} \cup TagsOf(d)) : snapshot'[x] = snapshot[x]
    PROVE  /\ snapshot'[e] = snapshot[e]
           /\ Wanted(e)' = Wanted(e) /\ ConfigOf(e)' = ConfigOf(e)
<1>1. snapshot'[e] = snapshot[e]
  BY EntityFacts
<1>2. \A t \in TagsOf(e) : snapshot'[t] = snapshot[t]
  BY EntityFacts DEF TagsOf
<1>3. Wanted(e)' = Wanted(e)
  BY <1>1, <1>2 DEF Wanted
<1>4. ConfigOf(e)' = ConfigOf(e)
  BY <1>1, <1>2 DEF ConfigOf
<1> QED BY <1>1, <1>3, <1>4

(* A change of the snapshot that is announced on the channel.              *)
LEMMA PublishPreserves ==
    ASSUME WInv, TypeOK', NEW kind, NEW d \in Devices, Publish(kind, d),
           \A x \in Entities \ ({d} \cup TagsOf(d)) : snapshot'[x] = snapshot[x],
           kind = "device_removed" => snapshot'[d] = 0,
           UNCHANGED <<phase, polling>>
    PROVE  WInv'
<1>0. TypeOK /\ Stages /\ RemovedIsGone /\ WorkersCurrent
  BY DEF WInv
<1>1. \A e \in Devices \ {d} :
        /\ snapshot'[e] = snapshot[e]
        /\ Wanted(e)' = Wanted(e) /\ ConfigOf(e)' = ConfigOf(e)
  BY <1>0, OtherDevices
<1>2. /\ channel \in Seq(SnapshotEvent) /\ Len(channel) \in Nat
      /\ \A i \in 1..Len(channel) : channel[i].device \in Devices
  BY <1>0, ChannelFacts
<1>3. CASE scheduler = "down" /\ UNCHANGED <<channel, missed>>
  <2>1. Len(channel) = 0
    BY <1>0, <1>3 DEF Stages
  <2>2. Stages' /\ RemovedIsGone'
    BY <1>0, <1>3, <2>1 DEF Stages, RemovedIsGone
  <2>3. WorkersCurrent'
    BY <1>3 DEF WorkersCurrent, Settled
  <2> QED BY <2>2, <2>3 DEF WInv
<1>4. CASE /\ scheduler # "down"
           /\ channel' = Append(channel, [kind |-> kind, device |-> d])
           /\ missed' = missed \ {d}
  <2> DEFINE e == [kind |-> kind, device |-> d]
             n == Len(channel)
  <2>1. e.kind = kind /\ e.device = d
    OBVIOUS
  <2> HIDE DEF e
  <2>2. /\ channel' = Append(channel, e) /\ n \in Nat /\ Len(channel') = n + 1
        /\ channel'[n + 1] = e
        /\ \A i \in 1..n : channel'[i] = channel[i]
    <3> HIDE DEF SnapshotEvent
    <3> QED BY <1>2, <1>4 DEF e
  <2>3. Stages'
    BY <1>0, <1>4 DEF Stages
  <2>4. RemovedIsGone'
    <3> SUFFICES ASSUME NEW i \in 1..(n + 1), channel'[i].kind = "device_removed",
                        \A j \in (i + 1)..(n + 1) : channel'[j].device # channel'[i].device,
                        channel'[i].device \notin missed'
                 PROVE  snapshot'[channel'[i].device] = 0
      BY <2>2 DEF RemovedIsGone, LastFor
    <3>1. CASE i = n + 1
      BY <2>1, <2>2, <3>1
    <3>2. CASE i \in 1..n
      <4>1. n + 1 \in (i + 1)..(n + 1) /\ channel'[i] = channel[i]
        BY <2>2, <3>2
      <4>2. channel[i].device \in Devices \ {d}
        BY <1>2, <2>1, <2>2, <3>2, <4>1
      <4>3. channel[i].device \notin missed
        BY <1>4, <4>1, <4>2
      <4>4. LastFor(i)
        <5> SUFFICES ASSUME NEW j \in (i + 1)..n PROVE channel[j].device # channel[i].device
          BY DEF LastFor
        <5>1. j \in 1..n /\ j \in (i + 1)..(n + 1)
          BY <2>2, <3>2
        <5> QED BY <2>2, <4>1, <5>1
      <4>5. snapshot[channel[i].device] = 0
        BY <1>0, <3>2, <4>1, <4>3, <4>4 DEF RemovedIsGone
      <4> QED BY <1>1, <4>1, <4>2, <4>5
    <3> QED BY <2>2, <3>1, <3>2
  <2>5. WorkersCurrent'
    <3> SUFFICES ASSUME NEW x \in Devices, Settled(x)'
                 PROVE  workers'[x] = IF Wanted(x)' THEN ConfigOf(x)' ELSE NoWorker
      BY DEF WorkersCurrent
    <3>1. \A i \in 1..(n + 1) : channel'[i].device # x
      BY <2>2 DEF Settled
    <3>2. x # d
      BY <2>1, <2>2, <3>1
    <3>3. \A i \in 1..n : channel[i].device # x
      BY <2>2, <3>1
    <3>4. Settled(x)
      BY <1>4, <3>2, <3>3 DEF Settled
    <3> QED BY <1>0, <1>1, <3>2, <3>4 DEF WorkersCurrent
  <2> QED BY <2>3, <2>4, <2>5 DEF WInv
<1>5. CASE scheduler # "down" /\ channel' = channel /\ missed' = missed \cup {d}
  <2>1. Stages'
    BY <1>0, <1>5 DEF Stages
  <2>2. RemovedIsGone'
    <3> SUFFICES ASSUME NEW i \in 1..Len(channel), channel[i].kind = "device_removed",
                        LastFor(i), channel[i].device \notin missed'
                 PROVE  snapshot'[channel[i].device] = 0
      BY <1>5 DEF RemovedIsGone, LastFor
    <3>1. channel[i].device \in Devices \ {d} /\ channel[i].device \notin missed
      BY <1>2, <1>5
    <3> QED BY <1>0, <1>1, <3>1 DEF RemovedIsGone
  <2>3. WorkersCurrent'
    <3> SUFFICES ASSUME NEW x \in Devices, Settled(x)'
                 PROVE  workers'[x] = IF Wanted(x)' THEN ConfigOf(x)' ELSE NoWorker
      BY DEF WorkersCurrent
    <3>1. x # d /\ Settled(x)
      BY <1>5 DEF Settled
    <3> QED BY <1>0, <1>1, <3>1 DEF WorkersCurrent
  <2> QED BY <2>1, <2>2, <2>3 DEF WInv
<1> QED BY <1>0, <1>3, <1>4, <1>5, PublishCases

(* The consumer's changes are announced; the loader runs before there is a *)
(* scheduler to tell.                                                      *)
LEMMA UnchangedWInv ==
    ASSUME WInv, TypeOK', UNCHANGED <<phase, snapshot, polling, channel, missed>>
    PROVE  WInv'
BY DEF WInv, Stages, RemovedIsGone, LastFor, WorkersCurrent, Settled, Wanted, ConfigOf

LEMMA RemovePreserves ==
    ASSUME WInv, TypeOK', NEW id \in Entities, Remove(id), UNCHANGED <<phase, polling>>
    PROVE  WInv'
<1>0. TypeOK /\ snapshot \in Config
  BY DEF WInv, TypeOK
<1>1. CASE id \in Devices
  <2>1. /\ snapshot' = [e \in Entities |-> IF e \in {id} \cup TagsOf(id) THEN 0 ELSE snapshot[e]]
        /\ Publish("device_removed", id)
    BY <1>1 DEF Remove, RemoveDevice
  <2>2. /\ snapshot'[id] = 0
        /\ \A x \in Entities \ ({id} \cup TagsOf(id)) : snapshot'[x] = snapshot[x]
    BY <2>1
  <2> QED BY <1>1, <2>1, <2>2, PublishPreserves
<1>2. CASE id \notin Devices
  <2>1. id \in Tags /\ DeviceOf[id] \in Devices /\ id \in TagsOf(DeviceOf[id])
    BY <1>2, EntityFacts DEF Entities, TagsOf
  <2>2. /\ snapshot' = [snapshot EXCEPT ![id] = 0]
        /\ IF snapshot[id] # 0 THEN Publish("tag_removed", DeviceOf[id])
           ELSE UNCHANGED <<channel, missed>>
    BY <1>2 DEF Remove, RemoveTag
  <2>3. CASE snapshot[id] # 0
    <3>1. \A x \in Entities \ ({DeviceOf[id]} \cup TagsOf(DeviceOf[id])) : snapshot'[x] = snapshot[x]
      BY <1>0, <2>1, <2>2 DEF Config
    <3>2. Publish("tag_removed", DeviceOf[id])
      BY <2>2, <2>3
    <3> QED BY <2>1, <3>1, <3>2, PublishPreserves
  <2>4. CASE snapshot[id] = 0
    <3>1. snapshot' = snapshot
      BY <1>0, <2>2, <2>4 DEF Config
    <3> QED BY <2>2, <2>4, <3>1, UnchangedWInv
  <2> QED BY <2>3, <2>4
<1> QED BY <1>1, <1>2

LEMMA UpsertPreserves ==
    ASSUME WInv, TypeOK', NEW id \in Entities, NEW version, Upsert(id, version),
           UNCHANGED <<phase, polling>>
    PROVE  WInv'
<1>0. TypeOK
  BY DEF WInv
<1>1. \A x \in Entities \ {id} : snapshot'[x] = snapshot[x]
  BY <1>0, UpsertSnapshot
<1>2. CASE id \in Devices
  <2>1. Publish("device_upserted", id)
    BY <1>2 DEF Upsert
  <2> QED BY <1>1, <1>2, <2>1, PublishPreserves
<1>3. CASE id \notin Devices
  <2>1. Publish("tag_upserted", DeviceOf[id])
    BY <1>3 DEF Upsert
  <2>2. DeviceOf[id] \in Devices /\ id \in TagsOf(DeviceOf[id])
    BY <1>3, EntityFacts DEF Entities, TagsOf
  <2> QED BY <1>1, <2>1, <2>2, PublishPreserves
<1> QED BY <1>2, <1>3

LEMMA ConsumerPreserves ==
    ASSUME WInv, TypeOK', ConfigChangedConsumer
    PROVE  WInv'
<1>0. TypeOK /\ Stages
  BY DEF WInv
<1>1. CASE LoadDevices \/ LoadTags
  <2>1. phase # "up" /\ UNCHANGED <<polling, channel, missed>>
    BY <1>1 DEF LoadDevices, LoadTags
  <2>2. scheduler = "down" /\ Len(channel) = 0
    BY <1>0, <2>1 DEF Stages
  <2>3. Stages' /\ RemovedIsGone' /\ WorkersCurrent'
    BY <1>0, <2>1, <2>2 DEF Stages, RemovedIsGone, WorkersCurrent, Settled
  <2> QED BY <2>3 DEF WInv
<1>2. ASSUME NEW event \in inFlight, NEW again \in BOOLEAN,
             LoadEntity(event, again) \/ LoadFails(event, again) \/ IgnoreOperation(event, again)
      PROVE  WInv'
  <2>1. UNCHANGED <<phase, snapshot, polling, channel, missed>>
    BY <1>2 DEF LoadEntity, LoadFails, IgnoreOperation, Take
  <2> QED BY <2>1, UnchangedWInv
<1>3. ASSUME NEW event \in inFlight, NEW again \in BOOLEAN, RemoveEntity(event, again)
      PROVE  WInv'
  <2>1. Remove(event.id) /\ UNCHANGED <<phase, polling>>
    BY <1>3 DEF RemoveEntity, Take
  <2>2. event.id \in Entities
    BY <1>0 DEF TypeOK, Event
  <2> QED BY <2>1, <2>2, RemovePreserves
<1>4. CASE StoreEntity
  <2>1. handler.id \in Entities
    BY <1>0, <1>4 DEF StoreEntity, TypeOK
  <2>2. /\ Upsert(handler.id, handler.version) \/ Remove(handler.id)
        /\ UNCHANGED <<phase, polling>>
    BY <1>4 DEF StoreEntity
  <2> QED BY <2>1, <2>2, RemovePreserves, UpsertPreserves
<1> QED BY <1>1, <1>2, <1>3, <1>4 DEF ConfigChangedConsumer

LEMMA HandlePreserves ==
    ASSUME WInv, TypeOK', HandleSnapshotEvent
    PROVE  WInv'
<1>0. TypeOK /\ Stages /\ RemovedIsGone /\ WorkersCurrent
  BY DEF WInv
<1> DEFINE event == Head(channel)
           d == event.device
           n == Len(channel)
<1>1. /\ scheduler = "running" /\ starting = {} /\ channel # <<>> /\ channel' = Tail(channel)
      /\ workers' = IF Restarts(event) \/ event.kind = "device_removed"
                    THEN [workers EXCEPT ![d] = NoWorker] ELSE workers
      /\ starting' = IF Restarts(event) THEN {d} ELSE {}
      /\ UNCHANGED <<phase, snapshot, scheduler, missed>>
  BY DEF HandleSnapshotEvent
<1>2. /\ channel \in Seq(SnapshotEvent) /\ n \in Nat /\ n > 0
      /\ \A i \in 1..n : channel[i].device \in Devices
  BY <1>0, <1>1, ChannelFacts
<1>3. /\ event = channel[1] /\ event \in SnapshotEvent
      /\ Len(channel') = n - 1 /\ \A i \in 1..(n - 1) : channel'[i] = channel[i + 1]
  <2> HIDE DEF SnapshotEvent
  <2> QED BY <1>1, <1>2, HeadTailProperties
<1>4. d \in Devices /\ (Restarts(event) \/ event.kind = "device_removed")
  BY <1>3 DEF SnapshotEvent, Restarts
<1>5. workers' = [workers EXCEPT ![d] = NoWorker] /\ workers \in [Devices -> Running \cup {NoWorker, Starting}]
  BY <1>0, <1>1, <1>4 DEF TypeOK
<1> HIDE DEF event
<1>6. Stages'
  BY <1>0, <1>1, <1>4, <1>5 DEF Stages
<1>7. RemovedIsGone'
  <2> SUFFICES ASSUME NEW i \in 1..(n - 1), channel'[i].kind = "device_removed",
                      \A j \in (i + 1)..(n - 1) : channel'[j].device # channel'[i].device,
                      channel'[i].device \notin missed
               PROVE  snapshot[channel'[i].device] = 0
    BY <1>1, <1>3 DEF RemovedIsGone, LastFor
  <2>1. i + 1 \in 1..n /\ channel'[i] = channel[i + 1]
    BY <1>2, <1>3
  <2>2. LastFor(i + 1)
    <3> SUFFICES ASSUME NEW j \in (i + 2)..n PROVE channel[j].device # channel[i + 1].device
      BY DEF LastFor
    <3>1. j - 1 \in (i + 1)..(n - 1) /\ j - 1 \in 1..(n - 1) /\ j = (j - 1) + 1
      BY <1>2
    <3>2. channel'[j - 1] = channel[j]
      BY <1>3, <3>1
    <3> QED BY <2>1, <3>1, <3>2
  <2> QED BY <1>0, <2>1, <2>2 DEF RemovedIsGone
<1>8. WorkersCurrent'
  <2> SUFFICES ASSUME NEW x \in Devices, Settled(x)'
               PROVE  workers'[x] = IF Wanted(x) THEN ConfigOf(x) ELSE NoWorker
    BY <1>1 DEF WorkersCurrent, Wanted, ConfigOf
  <2>1. \A i \in 1..(n - 1) : channel'[i].device # x
    BY <1>3 DEF Settled
  <2>2. \A j \in 2..n : channel[j].device # x
    <3> SUFFICES ASSUME NEW j \in 2..n PROVE channel[j].device # x
      OBVIOUS
    <3>1. j - 1 \in 1..(n - 1) /\ j = (j - 1) + 1
      BY <1>2
    <3>2. channel'[j - 1] = channel[j]
      BY <1>3, <3>1
    <3> QED BY <2>1, <3>1, <3>2
  <2>3. CASE x # d
    <3>1. channel[1].device # x
      BY <1>3, <2>3
    <3>2. ASSUME NEW i \in 1..n PROVE channel[i].device # x
      <4>1. i = 1 \/ i \in 2..n
        BY <1>2
      <4> QED BY <2>2, <3>1, <4>1
    <3>3. workers'[x] = workers[x]
      BY <1>5, <2>3
    <3>4. Settled(x)
      BY <1>1, <3>2, <3>3 DEF Settled
    <3> QED BY <1>0, <3>3, <3>4 DEF WorkersCurrent
  <2>4. CASE x = d
    <3>1. ~Restarts(event) /\ d \notin missed
      BY <1>1, <2>4 DEF Settled
    <3>2. channel[1].kind = "device_removed" /\ channel[1].device = d
      BY <1>3, <1>4, <3>1
    <3>3. 1 \in 1..n /\ LastFor(1)
      BY <1>2, <2>2, <2>4, <3>2 DEF LastFor
    <3>4. snapshot[d] = 0
      BY <1>0, <3>1, <3>2, <3>3 DEF RemovedIsGone
    <3>5. ~Wanted(x) /\ workers'[x] = NoWorker
      BY <1>4, <1>5, <2>4, <3>4 DEF Wanted
    <3> QED BY <3>5
  <2> QED BY <2>3, <2>4
<1> QED BY <1>6, <1>7, <1>8 DEF WInv

LEMMA SchedulerPreserves ==
    ASSUME WInv, TypeOK', Scheduler
    PROVE  WInv'
<1>0. TypeOK /\ Stages /\ RemovedIsGone /\ WorkersCurrent
      /\ workers \in [Devices -> Running \cup {NoWorker, Starting}]
  BY DEF WInv, TypeOK
<1>1. CASE Subscribe
  <2>1. /\ scheduler = "down" /\ scheduler' = "subscribed" /\ phase = "up"
        /\ UNCHANGED <<phase, snapshot, channel, missed, starting, workers>>
    BY <1>1 DEF Subscribe
  <2>2. Stages' /\ RemovedIsGone' /\ WorkersCurrent'
    BY <1>0, <2>1 DEF Stages, RemovedIsGone, LastFor, WorkersCurrent, Settled
  <2> QED BY <2>2 DEF WInv
<1>2. CASE ReinitializeAllDevices
  <2>1. /\ scheduler = "subscribed" /\ scheduler' = "running"
        /\ starting' = {d \in Devices : Wanted(d)}
        /\ UNCHANGED <<phase, snapshot, channel, missed, workers>>
    BY <1>2 DEF ReinitializeAllDevices
  <2>2. Stages' /\ RemovedIsGone'
    BY <1>0, <2>1 DEF Stages, RemovedIsGone, LastFor
  <2>3. WorkersCurrent'
    BY <1>0, <2>1 DEF Stages, WorkersCurrent, Settled, Wanted
  <2> QED BY <2>2, <2>3 DEF WInv
<1>3. CASE HandleSnapshotEvent
  BY <1>3, HandlePreserves
<1>4. ASSUME NEW d \in Devices, StartDevice(d) PROVE WInv'
  <2>1. /\ d \in starting /\ starting' = starting \ {d}
        /\ workers' = IF Wanted(d) THEN [workers EXCEPT ![d] = Starting] ELSE workers
        /\ UNCHANGED <<phase, snapshot, scheduler, channel, missed>>
    BY <1>4 DEF StartDevice
  <2>2. scheduler = "running" /\ workers[d] = NoWorker
    BY <1>0, <2>1 DEF Stages
  <2>3. \A x \in Devices \ {d} : workers'[x] = workers[x]
    BY <1>0, <2>1
  <2>4. \A x \in starting' : x \in Devices \ {d}
    BY <1>0, <2>1 DEF TypeOK
  <2>5. Stages'
    BY <1>0, <2>1, <2>2, <2>3, <2>4 DEF Stages
  <2>6. RemovedIsGone'
    BY <1>0, <2>1 DEF RemovedIsGone, LastFor
  <2>7. WorkersCurrent'
    <3> SUFFICES ASSUME NEW x \in Devices, Settled(x)'
                 PROVE  workers'[x] = IF Wanted(x) THEN ConfigOf(x) ELSE NoWorker
      BY <2>1 DEF WorkersCurrent, Wanted, ConfigOf
    <3>1. CASE x = d
      <4>1. workers'[d] # Starting
        BY <3>1 DEF Settled
      <4>2. ~Wanted(d)
        BY <1>0, <2>1, <4>1
      <4> QED BY <2>1, <2>2, <3>1, <4>2
    <3>2. CASE x # d
      <4>1. Settled(x)
        BY <2>1, <2>3, <3>2 DEF Settled
      <4> QED BY <1>0, <2>3, <3>2, <4>1 DEF WorkersCurrent
    <3> QED BY <3>1, <3>2
  <2> QED BY <2>5, <2>6, <2>7 DEF WInv
<1>5. ASSUME NEW d \in Devices, RunDevice(d) PROVE WInv'
  <2>1. /\ workers[d] = Starting
        /\ workers' = [workers EXCEPT ![d] = IF Wanted(d) THEN ConfigOf(d) ELSE NoWorker]
        /\ UNCHANGED <<phase, snapshot, scheduler, starting, channel, missed>>
    BY <1>5 DEF RunDevice
  <2>2. scheduler = "running" /\ d \notin starting
    BY <1>0, <2>1, NoWorkerAssumption DEF Stages
  <2>3. /\ workers'[d] = IF Wanted(d) THEN ConfigOf(d) ELSE NoWorker
        /\ \A x \in Devices \ {d} : workers'[x] = workers[x]
    BY <1>0, <2>1
  <2>4. \A x \in starting : x \in Devices \ {d}
    BY <1>0, <2>2 DEF TypeOK
  <2>5. Stages'
    BY <1>0, <2>1, <2>2, <2>3, <2>4 DEF Stages
  <2>6. RemovedIsGone'
    BY <1>0, <2>1 DEF RemovedIsGone, LastFor
  <2>7. WorkersCurrent'
    <3> SUFFICES ASSUME NEW x \in Devices, Settled(x)'
                 PROVE  workers'[x] = IF Wanted(x) THEN ConfigOf(x) ELSE NoWorker
      BY <2>1 DEF WorkersCurrent, Wanted, ConfigOf
    <3>1. CASE x = d
      BY <2>3, <3>1
    <3>2. CASE x # d
      <4>1. Settled(x)
        BY <2>1, <2>3, <3>2 DEF Settled
      <4> QED BY <1>0, <2>3, <3>2, <4>1 DEF WorkersCurrent
    <3> QED BY <3>1, <3>2
  <2> QED BY <2>5, <2>6, <2>7 DEF WInv
<1> QED BY <1>1, <1>2, <1>3, <1>4, <1>5 DEF Scheduler

LEMMA InitWorkers == Init => WInv
<1> SUFFICES ASSUME Init PROVE WInv
  OBVIOUS
<1>1. TypeOK
  BY InitType
<1>2. scheduler = "down" /\ channel = <<>> /\ Len(channel) = 0 /\ starting = {}
      /\ workers = [d \in Devices |-> NoWorker]
  BY DEF Init
<1> QED BY <1>1, <1>2 DEF WInv, Stages, RemovedIsGone, WorkersCurrent, Settled

LEMMA NextWorkers == WInv /\ [Next]_vars => WInv'
<1> SUFFICES ASSUME WInv, [Next]_vars PROVE WInv'
  OBVIOUS
<1>0. TypeOK'
  BY NextType DEF WInv
<1>1. CASE Editor
  <2>1. UNCHANGED <<phase, snapshot, polling, channel, missed>>
    BY <1>1, EditorType DEF WInv, EditorParts
  <2> QED BY <1>0, <2>1, UnchangedWInv
<1>2. CASE ConfigChangedConsumer
  BY <1>0, <1>2, ConsumerPreserves
<1>3. CASE Scheduler
  BY <1>0, <1>3, SchedulerPreserves
<1>4. CASE Restart
  <2>1. scheduler' = "down" /\ channel' = <<>> /\ Len(channel') = 0 /\ starting' = {}
        /\ workers' = [d \in Devices |-> NoWorker]
    BY <1>4 DEF Restart
  <2> QED BY <1>0, <2>1 DEF WInv, Stages, RemovedIsGone, WorkersCurrent, Settled
<1>5. CASE UNCHANGED vars
  BY <1>0, <1>5, UnchangedWInv
<1> QED BY <1>1, <1>2, <1>3, <1>4, <1>5 DEF Next

(* A worker that nobody is about to change polls exactly the device and    *)
(* tags of the snapshot, whatever edits fall between the scheduler's       *)
(* subscription, its first listing, its check and the worker's own         *)
(* reading, unless the channel dropped an event about the device.          *)
THEOREM WorkersFollow == Spec => []WorkersCurrent
<1>1. Init => WInv
  BY InitWorkers
<1>2. WInv /\ [Next]_vars => WInv'
  BY NextWorkers
<1>3. WInv => WorkersCurrent
  BY DEF WInv
<1> QED BY <1>1, <1>2, <1>3, PTL DEF Spec
=============================================================================
