--------------------------- MODULE TopicMembership ---------------------------
(***************************************************************************)
(* Which tags a group topic has: ms-editor's tables, the config.changed    *)
(* events about them, the topic resolver with its membership cache, and    *)
(* the hub (RealtimeHub), whose topics resolve to what the resolver finds. *)
(*                                                                         *)
(* The resolver has no lock of its own around "look in the cache, query,   *)
(* store in the cache": the read loops and the config.changed consumer     *)
(* resolve one topic at once, while edits are committed and the consumer   *)
(* invalidates.  A topic that is not in the cache when its event comes is  *)
(* not reconciled.                                                         *)
(*                                                                         *)
(* The two queries of the repository, for the topic's row and its tags,    *)
(* are one step; that a cache entry has expired is a choice made when it   *)
(* is read.  A device that is moved is two edits, one of each object.      *)
(***************************************************************************)
EXTENDS RealtimeHub

CONSTANTS
    Objects,     \* the topics object:<id>; the others are diagram:<id>
    NoTag,
    Gone,        \* the members of a topic whose row is deleted
    Uncached,
    NoEvent,
    MaxEdits     \* bound: edits of the configuration

ASSUME ObjectsAssumption == Objects \subseteq Topics
ASSUME EditsAssumption == MaxEdits \in Nat /\ MaxEdits <= MaxDeletions
ASSUME NothingAssumption ==
    /\ "consumer" \notin Connections
    /\ NoTag \notin Tags
    /\ \A tags \in SUBSET Tags : tags \notin {Gone, Uncached}

Resolvers == Connections \cup {"consumer"}

VARIABLES
    members,   \* ms-editor's tables: the tags of each topic
    life,      \* tags.tags: not created yet, live or deleted
    edits,     \* number of edits, up to MaxEdits
    events,    \* config.changed; several partitions, so in any order.  changed is
               \* history: the topics that have other members since the edit
    cache,     \* MembershipCache.byKey
    query,     \* what a goroutine has read and not stored in the cache yet
    handling,  \* the event HandleConfigChanged is at
    missed     \* history: topics that changed and are not reconciled for it

hub      == vars
database == <<members, life, edits>>
resolver == <<cache, query>>
allvars  == <<hub, database, events, resolver, handling, missed>>

NoQuery == [topic |-> NoTopic, tags |-> {}]
NotHandling == [event |-> NoEvent, pc |-> "idle", topics |-> {}]

MembersOf(topic) == IF members[topic] = Gone THEN {} ELSE members[topic]
Having(t) == {topic \in Topics : t \in MembersOf(topic)}

MembershipInit ==
    /\ Init
    /\ life \in [Tags -> {"new", "live"}]
    /\ members \in [Topics -> SUBSET {t \in Tags : life[t] = "live"}]
    /\ \A o, p \in Objects : o # p => members[o] \cap members[p] = {}
    /\ edits = 0
    /\ events = {}
    /\ cache = [topic \in Topics |-> Uncached]
    /\ query = [r \in Resolvers |-> NoQuery]
    /\ handling = NotHandling
    /\ missed = {}

-----------------------------------------------------------------------------
(* ms-editor: the commit, then the event. *)

\* The publication may fail.
Announce(event) ==
    /\ edits < MaxEdits
    /\ edits' = edits + 1
    /\ \/ events' = events \cup {event} /\ UNCHANGED missed
       \/ missed' = missed \cup event.changed /\ UNCHANGED events
    /\ UNCHANGED <<hub, resolver, handling>>

TopicEvent(topic, changed) ==
    [edit |-> edits, tag |-> NoTag, deleted |-> FALSE, topic |-> topic, changed |-> changed]
TagEvent(t, deleted, changed) ==
    [edit |-> edits, tag |-> t, deleted |-> deleted, topic |-> NoTopic, changed |-> changed]
\* An event of a figure or a device is about the topic in its payload's diagram_id
\* or object_id.  ms-editor sends figures no payload and a device's one level down.
MemberEvent(changed) == TopicEvent(NoTopic, changed)

\* BulkUpsertFigures, DeleteFigure.  A figure may refer to a deleted tag.
EditFigures(diagram, tags) ==
    /\ members[diagram] \notin {Gone, tags}
    /\ \A t \in tags : life[t] # "new"
    /\ members' = [members EXCEPT ![diagram] = tags]
    /\ Announce(MemberEvent({diagram}))
    /\ UNCHANGED life

\* AssignDeviceToObject, UpdateDevice: devices with live tags come and go.
AssignDevices(object, tags) ==
    /\ members[object] \notin {Gone, tags}
    /\ \A t \in tags : life[t] = "live" /\ Having(t) \cap Objects \subseteq {object}
    /\ members' = [members EXCEPT ![object] = tags]
    /\ Announce(MemberEvent({object}))
    /\ UNCHANGED life

\* Tags go with their device, without an event of their own.
DeleteDevice(object, tags) ==
    /\ members[object] # Gone
    /\ tags # {} /\ tags \subseteq members[object]
    /\ life' = [t \in Tags |-> IF t \in tags THEN "deleted" ELSE life[t]]
    /\ members' = [members EXCEPT ![object] = @ \ tags]
    /\ Announce(MemberEvent({object}))

CreateTag(t, object) ==
    /\ life[t] = "new"
    /\ members[object] # Gone
    /\ life' = [life EXCEPT ![t] = "live"]
    /\ members' = [members EXCEPT ![object] = @ \cup {t}]
    /\ Announce(TagEvent(t, FALSE, {object}))

\* A tag keeps its device when it is updated.
UpdateTag(t) ==
    /\ life[t] = "live"
    /\ Announce(TagEvent(t, FALSE, {}))
    /\ UNCHANGED <<members, life>>

\* The figures that show the tag go on to refer to it.
DeleteTag(t) ==
    /\ life[t] = "live"
    /\ life' = [life EXCEPT ![t] = "deleted"]
    /\ members' = [topic \in Topics |->
                     IF topic \in Objects \cap Having(t) THEN members[topic] \ {t}
                     ELSE members[topic]]
    /\ Announce(TagEvent(t, TRUE, Having(t)))

DeleteDiagram(topic) ==
    /\ topic \notin Objects
    /\ members[topic] # Gone
    /\ members' = [members EXCEPT ![topic] = Gone]
    /\ Announce(TopicEvent(topic, {topic}))
    /\ UNCHANGED life

\* Its devices' tags and its diagrams go with an object; one event.
DeleteObject(object, diagrams) ==
    LET topicsGone == {object} \cup {d \in diagrams : members[d] # Gone}
    IN  /\ members[object] # Gone
        /\ members' = [topic \in Topics |-> IF topic \in topicsGone THEN Gone ELSE members[topic]]
        /\ life' = [t \in Tags |-> IF t \in members[object] THEN "deleted" ELSE life[t]]
        /\ Announce(TopicEvent(object, topicsGone))

-----------------------------------------------------------------------------
(* TopicResolver.ResolveTopic, by a read loop: from the cache, or by a query *)
(* whose result is stored in the cache afterwards.                           *)

ResolveCached(c, topic) ==
    /\ query[c] = NoQuery
    /\ cache[topic] # Uncached
    /\ ResolveTopic(c, topic, cache[topic])
    /\ UNCHANGED <<database, events, resolver, handling, missed>>

\* Get deletes an entry that has expired.
StartQuery(r, topic) ==
    /\ query[r] = NoQuery
    /\ members[topic] # Gone
    /\ cache' = [cache EXCEPT ![topic] = Uncached]
    /\ query' = [query EXCEPT ![r] = [topic |-> topic, tags |-> members[topic]]]
    /\ UNCHANGED <<hub, database, events, handling, missed>>

EndQuery(r) ==
    /\ query[r] # NoQuery
    /\ cache' = [cache EXCEPT ![query[r].topic] = query[r].tags]
    /\ query' = [query EXCEPT ![r] = NoQuery]
    /\ UNCHANGED <<database, events, handling, missed>>

QueryMembers(c, topic) ==
    /\ Working(c, "subscribe", topic)
    /\ topic \notin topics[c]
    /\ StartQuery(c, topic)

StoreMembers(c) == EndQuery(c) /\ ResolveTopic(c, query[c].topic, query[c].tags)

\* The topic is gone, has more tags than the resolver allows, or a query fails.
QueryFails(c, topic) ==
    /\ query[c] = NoQuery
    /\ topic \notin topics[c]
    /\ SkipTopic(c, topic)
    /\ cache' = [cache EXCEPT ![topic] = Uncached]
    /\ UNCHANGED <<database, events, query, handling, missed>>

\* The rest of the read loop.
OtherWork(c) ==
    /\ query[c] = NoQuery
    /\ \/ \E op \in {"subscribe", "unsubscribe"}, names \in SUBSET (Tags \cup Topics) :
            Cardinality(names) \in 1..MaxFrame /\ ReadFrame(c, op, names)
       \/ \E t \in Tags : SubscribeDirectTag(c, t) \/ UnsubscribeDirectTag(c, t)
       \/ \E topic \in Topics : UnsubscribeGroupTopic(c, topic)
       \/ \E topic \in Topics : topic \in topics[c] /\ SkipTopic(c, topic)
       \/ SubscribeGroupTopic(c)
    /\ UNCHANGED <<database, events, resolver, handling, missed>>

-----------------------------------------------------------------------------
(* The config.changed consumer: ConfigChangeUseCase.HandleConfigChanged. *)

TakeEvent(event) ==
    /\ handling = NotHandling
    /\ event \in events
    /\ events' = events \ {event}
    /\ handling' = [event |-> event, topics |-> {},
                    pc |-> IF event.deleted THEN "drop" ELSE "invalidate"]
    /\ UNCHANGED <<hub, database, resolver, missed>>

\* UnsubscribeTagFromAll, for a deleted tag.
DropTag ==
    LET t == handling.event.tag
    IN  /\ handling.pc = "drop"
        /\ \/ UnsubscribeTagFromAll(t)
           \/ (\A c \in Connections : refs[c][t] = 0) /\ UNCHANGED hub
        /\ handling' = [handling EXCEPT !.pc = "invalidate"]
        /\ UNCHANGED <<database, events, resolver, missed>>

\* InvalidateByConfigEvent: of the cached topics, those it has to do with.
InvalidateOnlyNamed(event) ==                                     \* mutant
    {topic \in Topics : topic = event.topic /\ cache[topic] # Uncached}
Affected(event) ==
    {topic \in Topics :
       /\ cache[topic] # Uncached
       /\ topic = event.topic \/ event.tag \in cache[topic]}

Forget(affected) ==
    [topic \in Topics |-> IF topic \in affected THEN Uncached ELSE cache[topic]]

\* History: the topics a connection's goroutine is resolving, or has resolved and
\* not recorded; those that have changed by an event, the ones a deleted tag is
\* dropped from included; and those the cache tells the event is about.
Resolving == {query[c].topic : c \in Connections} \cup {reader[c].topic : c \in Connections}
Concerns(event) == event.changed \cup (IF event.deleted THEN Having(event.tag) ELSE {})
Evident(event) == {topic \in Topics : cache[topic] # Uncached
                                     /\ (topic = event.topic \/ event.tag \in cache[topic])}

Invalidate ==
    LET event    == handling.event
        affected == Affected(event)
        current  == Evident(event) \ Resolving
    IN  /\ handling.pc = "invalidate"
        /\ cache' = Forget(affected)
        /\ missed' = (missed \cup Concerns(event)) \ current
        /\ handling' = IF affected = {} THEN NotHandling
                       ELSE [handling EXCEPT !.pc = "reconcile", !.topics = affected]
        /\ UNCHANGED <<hub, database, events, query>>

\* reconcileGroupTopic for each topic, unless nobody is subscribed to it.
NextTopic(topic) ==
    /\ topic \in handling.topics
    /\ consumer = IdleConsumer
    /\ StartReconcile(topic) \/ (Subscribers(topic) = {} /\ UNCHANGED hub)
    /\ handling' = [handling EXCEPT !.topics = @ \ {topic}]
    /\ UNCHANGED <<database, events, resolver, missed>>

ReconcileCached ==
    /\ query["consumer"] = NoQuery
    /\ consumer.topic # NoTopic /\ cache[consumer.topic] # Uncached
    /\ ResolveReconciled(FALSE, cache[consumer.topic])
    /\ UNCHANGED <<database, events, resolver, handling, missed>>

ReconcileQuery ==
    /\ consumer.topic # NoTopic /\ ~consumer.resolved
    /\ StartQuery("consumer", consumer.topic)

ReconcileStore == EndQuery("consumer") /\ ResolveReconciled(FALSE, query["consumer"].tags)

ReconcileError ==
    /\ query["consumer"] = NoQuery
    /\ ResolveReconciled(TRUE, {})
    /\ cache' = [cache EXCEPT ![consumer.topic] = Uncached]
    /\ UNCHANGED <<database, events, query, handling, missed>>

ReconcileConnection(c) ==
    /\ \/ ReconcileGone(c)
       \/ ReconcileFailed(c)
       \/ \E kept \in SUBSET Tags : Reconcile(c, kept)
    /\ UNCHANGED <<database, events, resolver, handling, missed>>

EventDone ==
    /\ handling.pc = "reconcile"
    /\ handling.topics = {}
    /\ consumer = IdleConsumer
    /\ handling' = NotHandling
    /\ UNCHANGED <<hub, database, events, resolver, missed>>

-----------------------------------------------------------------------------
Editor ==
    \/ \E diagram \in Topics \ Objects, tags \in SUBSET Tags : EditFigures(diagram, tags)
    \/ \E object \in Objects, tags \in SUBSET Tags :
         AssignDevices(object, tags) \/ DeleteDevice(object, tags)
    \/ \E t \in Tags, object \in Objects : CreateTag(t, object)
    \/ \E t \in Tags : UpdateTag(t) \/ DeleteTag(t)
    \/ \E topic \in Topics : DeleteDiagram(topic)
    \/ \E object \in Objects, diagrams \in SUBSET (Topics \ Objects) :
         DeleteObject(object, diagrams)

Reads(c) ==
    \/ \E topic \in Topics :
         ResolveCached(c, topic) \/ QueryMembers(c, topic) \/ QueryFails(c, topic)
    \/ StoreMembers(c)
    \/ OtherWork(c)
    \/ Close(c) /\ UNCHANGED <<database, events, resolver, handling, missed>>

Handles ==
    \/ \E event \in events : TakeEvent(event)
    \/ DropTag
    \/ Invalidate
    \/ \E topic \in Topics : NextTopic(topic)
    \/ ReconcileCached \/ ReconcileQuery \/ ReconcileStore \/ ReconcileError
    \/ \E c \in Connections : ReconcileConnection(c)
    \/ EventDone

MembershipNext == Editor \/ (\E c \in Connections : Reads(c)) \/ Handles

MembershipSpec == MembershipInit /\ [][MembershipNext]_allvars

-----------------------------------------------------------------------------
\* An event about the topic is still to be handled.
Waiting(topic) ==
    \/ \E event \in events : topic \in Concerns(event)
    \/ handling.pc \in {"drop", "invalidate"} /\ topic \in Concerns(handling.event)

\* Or its reconciliation is still to end.
Pending(topic) == Waiting(topic) \/ topic \in handling.topics \cup {consumer.topic}

\* A connection that has subscribed to a diagram or an object has the tags that
\* diagram or object has now (specs/0034: after an invalidation every active
\* subscription is resolved again), with an event still to be handled, or a change
\* that was missed: the event was not published or named no topic, the topic was
\* not in the cache, or a read loop was resolving it when the event came.
MembershipFollows ==
    \A c \in Connections : \A topic \in topics[c] :
        grouped[c][topic] = members[topic] \/ topic \in missed \/ Pending(topic)

=============================================================================
