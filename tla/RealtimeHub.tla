---------------------------- MODULE RealtimeHub ----------------------------
(***************************************************************************)
(* The subscriptions of ms-viewer's realtime hub.  A connection subscribes *)
(* to single tags and to group topics (diagram:<id>, object:<id>), which   *)
(* the hub expands to tags.  A tag may be wanted for several reasons, so   *)
(* the hub counts them per connection and tag, and delivers a tag's values *)
(* while its count is above zero.                                          *)
(*                                                                         *)
(* Three kinds of goroutines meet here: each connection's read loop, which *)
(* works through the topics of a frame and resolves group topics without   *)
(* the hub's lock; the config.changed consumer, which reconciles topics,   *)
(* one connection at a time, and drops deleted tags; and whoever closes a  *)
(* connection (its write loop, its read loop, the eviction by a newer one).*)
(* A step is what happens under one hold of the lock.                      *)
(*                                                                         *)
(* What a topic resolves to comes from the topic resolver and its cache    *)
(* (TopicMembership); here it is any set of tags, or an error.             *)
(* hub.subscriptions and hub.connectionSubscriptions change exactly where  *)
(* a count leaves or reaches zero, and hub.groupTopicSubscribers where a   *)
(* connection gains or loses a topic: they are the operators Delivered and *)
(* Subscribers.                                                            *)
(***************************************************************************)
EXTENDS Integers, FiniteSets

CONSTANTS
    Connections,
    Tags, Topics,
    NoTopic,
    MaxSubscriptions,  \* maxSubscriptionsPerConn
    MaxFrame,          \* bound: topics in one frame
    MaxDeletions       \* bound: deletions of tags, redelivered ones included

ASSUME TagsAssumption == IsFiniteSet(Tags) /\ IsFiniteSet(Topics)
ASSUME NamesAssumption == Tags \cap Topics = {} /\ NoTopic \notin Topics
ASSUME LimitAssumption == MaxSubscriptions \in Nat \ {0} /\ MaxFrame \in Nat /\ MaxDeletions \in Nat

VARIABLES
    open,        \* connections whose done channel is not closed
    direct,      \* groups.directTags
    topics,      \* the keys of groups.groupedTopics
    grouped,     \* groups.groupedTopics: the tags recorded for a topic
    refs,        \* groups.tagRefs, 0 for no entry
    reader,      \* the frame each read loop is working on
    consumer,    \* the topic the config.changed consumer is reconciling
    deletions,   \* how often a tag was dropped, for the bound
    miscounted   \* history: the pairs <<connection, tag>> a shortcut was taken with

subscriptions == <<direct, topics, grouped, refs, miscounted>>
vars == <<open, subscriptions, reader, consumer, deletions>>

Reader == [op : {"none", "subscribe", "unsubscribe"}, left : SUBSET (Tags \cup Topics),
           topic : Topics \cup {NoTopic}, tags : SUBSET Tags]
IdleReader == [op |-> "none", left |-> {}, topic |-> NoTopic, tags |-> {}]

Consumer == [topic : Topics \cup {NoTopic}, left : SUBSET Connections,
             resolved : BOOLEAN, failed : BOOLEAN, tags : SUBSET Tags]
IdleConsumer ==
    [topic |-> NoTopic, left |-> {}, resolved |-> FALSE, failed |-> FALSE, tags |-> {}]

Delivered(c) == {t \in Tags : refs[c][t] > 0}
Subscribers(topic) == {c \in Connections : topic \in topics[c]}

\* The reasons a connection has to receive a tag.
Holders(c, t) == {topic \in topics[c] : t \in grouped[c][topic]}
Count(c, t) == (IF t \in direct[c] THEN 1 ELSE 0) + Cardinality(Holders(c, t))

Exceeds(c, tags) == Cardinality(Delivered(c) \cup tags) > MaxSubscriptions

Increment(count, tags) == [t \in Tags |-> IF t \in tags THEN count[t] + 1 ELSE count[t]]
Decrement(count, tags) ==
    [t \in Tags |-> IF t \in tags /\ count[t] > 0 THEN count[t] - 1 ELSE count[t]]

Init ==
    /\ open = Connections
    /\ direct = [c \in Connections |-> {}]
    /\ topics = [c \in Connections |-> {}]
    /\ grouped = [c \in Connections |-> [topic \in Topics |-> {}]]
    /\ refs = [c \in Connections |-> [t \in Tags |-> 0]]
    /\ reader = [c \in Connections |-> IdleReader]
    /\ consumer = IdleConsumer
    /\ deletions = 0
    /\ miscounted = {}

-----------------------------------------------------------------------------
(* The read loop: Hub.Subscribe and Hub.Unsubscribe. *)

ReadFrame(c, op, names) ==
    /\ c \in open
    /\ reader[c] = IdleReader
    /\ reader' = [reader EXCEPT ![c] = [IdleReader EXCEPT !.op = op, !.left = names]]
    /\ UNCHANGED <<open, subscriptions, consumer, deletions>>

\* The loop is done with one of the frame's topics.
After(r, name) ==
    IF r.left = {name} THEN IdleReader ELSE [IdleReader EXCEPT !.op = r.op, !.left = r.left \ {name}]

Working(c, op, name) ==
    /\ reader[c].op = op
    /\ reader[c].topic = NoTopic
    /\ name \in reader[c].left

\* A closed connection finds its maps created again.
SubscribeDirectTag(c, t) ==
    LET new == t \notin direct[c] /\ ~Exceeds(c, {t})
    IN  /\ Working(c, "subscribe", t)
        /\ direct' = IF new THEN [direct EXCEPT ![c] = @ \cup {t}] ELSE direct
        /\ refs' = IF new THEN [refs EXCEPT ![c] = Increment(@, {t})] ELSE refs
        /\ reader' = [reader EXCEPT ![c] = After(@, t)]
        /\ UNCHANGED <<open, topics, grouped, consumer, miscounted, deletions>>

\* The topic is subscribed already, or cannot be resolved.
SkipTopic(c, topic) ==
    /\ Working(c, "subscribe", topic)
    /\ reader' = [reader EXCEPT ![c] = After(@, topic)]
    /\ UNCHANGED <<open, subscriptions, consumer, deletions>>

\* ResolveTopic, without the lock.
ResolveTopic(c, topic, tags) ==
    /\ Working(c, "subscribe", topic)
    /\ topic \notin topics[c]
    /\ reader' = [reader EXCEPT ![c].topic = topic, ![c].tags = tags]
    /\ UNCHANGED <<open, subscriptions, consumer, deletions>>

SubscribeGroupTopic(c) ==
    LET topic == reader[c].topic
        tags  == reader[c].tags
        new   == topic \notin topics[c] /\ ~Exceeds(c, tags)
    IN  /\ topic # NoTopic
        /\ topics' = IF new THEN [topics EXCEPT ![c] = @ \cup {topic}] ELSE topics
        /\ grouped' = IF new THEN [grouped EXCEPT ![c][topic] = tags] ELSE grouped
        /\ refs' = IF new THEN [refs EXCEPT ![c] = Increment(@, tags)] ELSE refs
        /\ reader' = [reader EXCEPT ![c] = After(@, topic)]
        /\ UNCHANGED <<open, direct, consumer, miscounted, deletions>>

UnsubscribeDirectTag(c, t) ==
    /\ Working(c, "unsubscribe", t)
    /\ direct' = [direct EXCEPT ![c] = @ \ {t}]
    /\ refs' = IF t \in direct[c] THEN [refs EXCEPT ![c] = Decrement(@, {t})] ELSE refs
    /\ reader' = [reader EXCEPT ![c] = After(@, t)]
    /\ UNCHANGED <<open, topics, grouped, consumer, miscounted, deletions>>

UnsubscribeGroupTopic(c, topic) ==
    /\ Working(c, "unsubscribe", topic)
    /\ topics' = [topics EXCEPT ![c] = @ \ {topic}]
    /\ grouped' = [grouped EXCEPT ![c][topic] = {}]
    /\ refs' = [refs EXCEPT ![c] = Decrement(@, grouped[c][topic])]
    /\ reader' = [reader EXCEPT ![c] = After(@, topic)]
    /\ UNCHANGED <<open, direct, consumer, miscounted, deletions>>

\* Close and UnregisterConnection, whatever the read loop is doing.
Close(c) ==
    /\ c \in open
    /\ open' = open \ {c}
    /\ direct' = [direct EXCEPT ![c] = {}]
    /\ topics' = [topics EXCEPT ![c] = {}]
    /\ grouped' = [grouped EXCEPT ![c] = [topic \in Topics |-> {}]]
    /\ refs' = [refs EXCEPT ![c] = [t \in Tags |-> 0]]
    /\ miscounted' = {pair \in miscounted : pair[1] # c}
    /\ UNCHANGED <<reader, consumer, deletions>>

-----------------------------------------------------------------------------
(* The config.changed consumer. *)

\* reconcileGroupTopic copies the subscribers, then resolves without the lock.
StartReconcile(topic) ==
    /\ consumer = IdleConsumer
    /\ Subscribers(topic) # {}
    /\ consumer' = [IdleConsumer EXCEPT !.topic = topic, !.left = Subscribers(topic)]
    /\ UNCHANGED <<open, subscriptions, reader, deletions>>

ResolveReconciled(failed, tags) ==
    /\ consumer.topic # NoTopic
    /\ ~consumer.resolved
    /\ consumer' = [consumer EXCEPT !.resolved = TRUE, !.failed = failed, !.tags = tags]
    /\ UNCHANGED <<open, subscriptions, reader, deletions>>

NextConnection(c) ==
    consumer' = IF consumer.left = {c} THEN IdleConsumer
                ELSE [consumer EXCEPT !.left = @ \ {c}]

\* The subscribers are those of before the resolution; each is looked up again.
StillListed(c) == c \in consumer.left                             \* mutant
StillSubscribed(c) == consumer.topic \in topics[c]

Turn(c) == consumer.resolved /\ c \in consumer.left

ReconcileGone(c) ==
    /\ Turn(c)
    /\ ~StillSubscribed(c)
    /\ NextConnection(c)
    /\ UNCHANGED <<open, subscriptions, reader, deletions>>

ReconcileFailed(c) ==
    LET topic == consumer.topic
    IN  /\ Turn(c)
        /\ StillSubscribed(c)
        /\ consumer.failed
        /\ topics' = [topics EXCEPT ![c] = @ \ {topic}]
        /\ grouped' = [grouped EXCEPT ![c][topic] = {}]
        /\ refs' = [refs EXCEPT ![c] = Decrement(@, grouped[c][topic])]
        /\ NextConnection(c)
        /\ UNCHANGED <<open, direct, reader, miscounted, deletions>>

\* How many of the added tags are subscribed: all, or as many as the limit
\* leaves room for, whichever the map yields first.
AllFit(c, added) == {added}                                      \* mutant
Admitted(c, added) ==
    IF Exceeds(c, added)
    THEN {kept \in SUBSET added : Cardinality(kept) = MaxSubscriptions - Cardinality(Delivered(c))}
    ELSE {added}

\* The tags that are not subscribed are recorded all the same.
Reconcile(c, kept) ==
    LET topic   == consumer.topic
        added   == consumer.tags \ grouped[c][topic]
        removed == grouped[c][topic] \ consumer.tags
    IN  /\ Turn(c)
        /\ StillSubscribed(c)
        /\ ~consumer.failed
        /\ kept \in Admitted(c, added)
        /\ grouped' = [grouped EXCEPT ![c][topic] = consumer.tags]
        /\ refs' = [refs EXCEPT ![c] = Increment(Decrement(@, removed), kept)]
        /\ miscounted' = miscounted \cup {<<c, t>> : t \in added \ kept}
        /\ NextConnection(c)
        /\ UNCHANGED <<open, direct, topics, reader, deletions>>

\* UnsubscribeTagFromAll: every reason goes, the count by one; a topic that
\* has no tag left is dropped.
UnsubscribeTagFromAll(t) ==
    LET affected == {c \in Connections : refs[c][t] > 0}
        emptied(c) == {topic \in Holders(c, t) : grouped[c][topic] = {t}}
    IN  /\ consumer = IdleConsumer
        /\ affected # {}
        /\ deletions < MaxDeletions
        /\ deletions' = deletions + 1
        /\ direct' = [c \in Connections |-> IF c \in affected THEN direct[c] \ {t} ELSE direct[c]]
        /\ topics' = [c \in Connections |-> IF c \in affected THEN topics[c] \ emptied(c)
                                            ELSE topics[c]]
        /\ grouped' = [c \in Connections |->
                         IF c \in affected THEN [topic \in Topics |-> grouped[c][topic] \ {t}]
                         ELSE grouped[c]]
        /\ refs' = [c \in Connections |-> Decrement(refs[c], {t})]
        /\ miscounted' = miscounted \cup {<<c, t>> : c \in {d \in affected : Count(d, t) > 1}}
        /\ UNCHANGED <<open, reader, consumer>>

-----------------------------------------------------------------------------
ReadLoop(c) ==
    \/ \E op \in {"subscribe", "unsubscribe"}, names \in SUBSET (Tags \cup Topics) :
         Cardinality(names) \in 1..MaxFrame /\ ReadFrame(c, op, names)
    \/ \E t \in Tags : SubscribeDirectTag(c, t) \/ UnsubscribeDirectTag(c, t)
    \/ \E topic \in Topics : SkipTopic(c, topic) \/ UnsubscribeGroupTopic(c, topic)
    \/ \E topic \in Topics, tags \in SUBSET Tags : ResolveTopic(c, topic, tags)
    \/ SubscribeGroupTopic(c)

HandleConfigChanged ==
    \/ \E topic \in Topics : StartReconcile(topic)
    \/ \E tags \in SUBSET Tags, failed \in BOOLEAN : ResolveReconciled(failed, tags)
    \/ \E c \in Connections :
         \/ ReconcileGone(c)
         \/ ReconcileFailed(c)
         \/ \E kept \in SUBSET Tags : Reconcile(c, kept)
    \/ \E t \in Tags : UnsubscribeTagFromAll(t)

Next ==
    \/ \E c \in Connections : ReadLoop(c) \/ Close(c)
    \/ HandleConfigChanged

Spec == Init /\ [][Next]_vars

-----------------------------------------------------------------------------
TypeOK ==
    /\ open \subseteq Connections
    /\ direct \in [Connections -> SUBSET Tags]
    /\ topics \in [Connections -> SUBSET Topics]
    /\ grouped \in [Connections -> [Topics -> SUBSET Tags]]
    /\ refs \in [Connections -> [Tags -> Nat]]
    /\ reader \in [Connections -> Reader]
    /\ consumer \in Consumer
    /\ deletions \in 0..MaxDeletions
    /\ miscounted \subseteq Connections \X Tags

\* The hub counts right: a connection receives a tag as many times as it has
\* reasons to, direct or by a topic, so that giving up one reason never cuts off
\* another and the last one always does (specs/0034, refcount per connection and
\* tag).  Two shortcuts of the code break it, and only for the tags they touch:
\* a reconciliation at the limit (hub.go:699-718) and the deletion of a tag held
\* more than once (hub.go:612).
RefsMatch ==
    \A c \in Connections, t \in Tags : <<c, t>> \notin miscounted => refs[c][t] = Count(c, t)

\* No interleaving of subscriptions and reconciliations takes a connection over
\* its limit of distinct tags.
LimitRespected == \A c \in Connections : Cardinality(Delivered(c)) <= MaxSubscriptions

\* A tag a connection has subscribed to directly is delivered, whatever topics it
\* subscribes to and gives up besides (specs/0034: unsubscribing the diagram
\* keeps a tag that is subscribed directly).
DirectIsDelivered == \A c \in Connections : direct[c] \subseteq Delivered(c)

=============================================================================
