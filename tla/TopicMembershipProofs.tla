----------------------- MODULE TopicMembershipProofs -----------------------
(***************************************************************************)
(* Proofs about RealtimeHub and about its composition in TopicMembership,  *)
(* for any number of connections, any finite sets of tags and topics, any  *)
(* limit and frames of any size.                                           *)
(*                                                                         *)
(* First the hub by itself: its types, the counts and the limit.  Then the *)
(* hub with the resolver, its cache and the editor around it, which is a   *)
(* hub as RealtimeHub describes it: every step of the composition is a     *)
(* step of the hub or leaves the hub alone, so that what is proved of      *)
(* RealtimeHub holds of it however stale the cache is.  Last: what the     *)
(* subscriptions show follows what the editor's tables say.                *)
(***************************************************************************)
EXTENDS TopicMembership, FiniteSetTheorems, TLAPS

USE DEF subscriptions, vars

-----------------------------------------------------------------------------
(* Types. *)

LEMMA IdleTypes == IdleReader \in Reader /\ IdleConsumer \in Consumer
BY DEF IdleReader, Reader, IdleConsumer, Consumer

LEMMA AfterType ==
    ASSUME NEW r \in Reader, NEW name
    PROVE  After(r, name) \in Reader
BY DEF After, IdleReader, Reader

LEMMA CountTypes ==
    ASSUME NEW count \in [Tags -> Nat], NEW tags
    PROVE  /\ Increment(count, tags) \in [Tags -> Nat]
           /\ Decrement(count, tags) \in [Tags -> Nat]
BY DEF Increment, Decrement

LEMMA InitType == Init => TypeOK
BY IdleTypes, LimitAssumption DEF Init, TypeOK

LEMMA ReaderType ==
    ASSUME TypeOK, NEW c \in Connections, ReadLoop(c)
    PROVE  TypeOK'
<1> USE DEF TypeOK
<1>0. reader[c] \in Reader
  OBVIOUS
<1>1. ASSUME NEW op \in {"subscribe", "unsubscribe"}, NEW names \in SUBSET (Tags \cup Topics),
             ReadFrame(c, op, names)
      PROVE  TypeOK'
  <2>1. [IdleReader EXCEPT !.op = op, !.left = names] \in Reader
    BY DEF IdleReader, Reader
  <2> QED BY <1>1, <2>1 DEF ReadFrame
<1>2. ASSUME NEW t \in Tags, SubscribeDirectTag(c, t) PROVE TypeOK'
  <2>1. After(reader[c], t) \in Reader /\ Increment(refs[c], {t}) \in [Tags -> Nat]
    BY <1>0, AfterType, CountTypes
  <2> QED BY <1>2, <2>1 DEF SubscribeDirectTag
<1>3. ASSUME NEW t \in Tags, UnsubscribeDirectTag(c, t) PROVE TypeOK'
  <2>1. After(reader[c], t) \in Reader /\ Decrement(refs[c], {t}) \in [Tags -> Nat]
    BY <1>0, AfterType, CountTypes
  <2> QED BY <1>3, <2>1 DEF UnsubscribeDirectTag
<1>4. ASSUME NEW topic \in Topics, SkipTopic(c, topic) PROVE TypeOK'
  BY <1>0, <1>4, AfterType DEF SkipTopic
<1>5. ASSUME NEW topic \in Topics, UnsubscribeGroupTopic(c, topic) PROVE TypeOK'
  <2>1. /\ After(reader[c], topic) \in Reader
        /\ Decrement(refs[c], grouped[c][topic]) \in [Tags -> Nat]
    BY <1>0, AfterType, CountTypes
  <2> QED BY <1>5, <2>1 DEF UnsubscribeGroupTopic
<1>6. ASSUME NEW topic \in Topics, NEW tags \in SUBSET Tags, ResolveTopic(c, topic, tags)
      PROVE  TypeOK'
  <2>1. reader' = [reader EXCEPT ![c] = [@ EXCEPT !.topic = topic, !.tags = tags]]
    BY <1>6 DEF ResolveTopic
  <2>2. [reader[c] EXCEPT !.topic = topic, !.tags = tags] \in Reader
    BY <1>0 DEF Reader
  <2> QED BY <1>6, <2>1, <2>2 DEF ResolveTopic
<1>7. ASSUME SubscribeGroupTopic(c) PROVE TypeOK'
  <2>1. reader[c].topic \in Topics /\ reader[c].tags \in SUBSET Tags
    BY <1>0, <1>7 DEF SubscribeGroupTopic, Reader
  <2>2. /\ After(reader[c], reader[c].topic) \in Reader
        /\ Increment(refs[c], reader[c].tags) \in [Tags -> Nat]
    BY <1>0, AfterType, CountTypes
  <2> QED BY <1>7, <2>1, <2>2 DEF SubscribeGroupTopic
<1> QED BY <1>1, <1>2, <1>3, <1>4, <1>5, <1>6, <1>7 DEF ReadLoop

LEMMA CloseType ==
    ASSUME TypeOK, NEW c \in Connections, Close(c)
    PROVE  TypeOK'
BY DEF TypeOK, Close

LEMMA ConsumerType ==
    ASSUME TypeOK, HandleConfigChanged
    PROVE  TypeOK'
<1> USE DEF TypeOK
<1>0. consumer \in Consumer
  OBVIOUS
<1>1. ASSUME NEW c \in Connections, NextConnection(c) PROVE consumer' \in Consumer
  BY <1>0, <1>1, IdleTypes DEF NextConnection, Consumer
<1>2. ASSUME NEW topic \in Topics, StartReconcile(topic) PROVE TypeOK'
  <2>1. [IdleConsumer EXCEPT !.topic = topic, !.left = Subscribers(topic)] \in Consumer
    BY IdleTypes DEF Consumer, Subscribers
  <2> QED BY <1>2, <2>1 DEF StartReconcile
<1>3. ASSUME NEW tags \in SUBSET Tags, NEW failed \in BOOLEAN, ResolveReconciled(failed, tags)
      PROVE  TypeOK'
  <2>1. [consumer EXCEPT !.resolved = TRUE, !.failed = failed, !.tags = tags] \in Consumer
    BY <1>0 DEF Consumer
  <2> QED BY <1>3, <2>1 DEF ResolveReconciled
<1>4. ASSUME NEW c \in Connections, ReconcileGone(c) PROVE TypeOK'
  BY <1>1, <1>4 DEF ReconcileGone
<1>5. ASSUME NEW c \in Connections, ReconcileFailed(c) PROVE TypeOK'
  <2>1. consumer' \in Consumer /\ consumer.topic \in Topics
    BY <1>1, <1>5 DEF ReconcileFailed, StillSubscribed
  <2>2. Decrement(refs[c], grouped[c][consumer.topic]) \in [Tags -> Nat]
    BY CountTypes
  <2> QED BY <1>5, <2>1, <2>2 DEF ReconcileFailed
<1>6. ASSUME NEW c \in Connections, NEW kept \in SUBSET Tags, Reconcile(c, kept) PROVE TypeOK'
  <2>1. consumer' \in Consumer /\ consumer.topic \in Topics /\ consumer.tags \in SUBSET Tags
    BY <1>0, <1>1, <1>6 DEF Reconcile, StillSubscribed, Consumer
  <2>2. \A tags : Increment(Decrement(refs[c], tags), kept) \in [Tags -> Nat]
    BY CountTypes
  <2> QED BY <1>6, <2>1, <2>2 DEF Reconcile
<1>7. ASSUME NEW t \in Tags, UnsubscribeTagFromAll(t) PROVE TypeOK'
  <2>1. \A c \in Connections : Decrement(refs[c], {t}) \in [Tags -> Nat]
    BY CountTypes
  <2>2. direct' \in [Connections -> SUBSET Tags] /\ topics' \in [Connections -> SUBSET Topics]
    BY <1>7 DEF UnsubscribeTagFromAll
  <2>3. grouped' \in [Connections -> [Topics -> SUBSET Tags]]
    BY <1>7 DEF UnsubscribeTagFromAll
  <2>4. refs' \in [Connections -> [Tags -> Nat]]
    <3>1. refs' = [c \in Connections |-> Decrement(refs[c], {t})]
      BY <1>7 DEF UnsubscribeTagFromAll
    <3> QED BY <2>1, <3>1
  <2>5. deletions' \in 0..MaxDeletions /\ UNCHANGED <<open, reader, consumer>>
    BY <1>7, LimitAssumption DEF UnsubscribeTagFromAll
  <2>6. miscounted' \subseteq Connections \X Tags
    BY <1>7 DEF UnsubscribeTagFromAll
  <2> QED BY <2>2, <2>3, <2>4, <2>5, <2>6
<1>8. \/ \E topic \in Topics : StartReconcile(topic)
      \/ \E tags \in SUBSET Tags, failed \in BOOLEAN : ResolveReconciled(failed, tags)
      \/ \E c \in Connections : ReconcileGone(c)
      \/ \E c \in Connections : ReconcileFailed(c)
      \/ \E c \in Connections, kept \in SUBSET Tags : Reconcile(c, kept)
      \/ \E t \in Tags : UnsubscribeTagFromAll(t)
  BY ZenonT(30) DEF HandleConfigChanged
<1> HIDE DEF TypeOK
<1> QED BY <1>2, <1>4, <1>5, <1>6, <1>7, <1>8, <1>3

LEMMA StepType == TypeOK /\ [Next]_vars => TypeOK'
<1> SUFFICES ASSUME TypeOK, [Next]_vars PROVE TypeOK'
  OBVIOUS
<1>1. CASE UNCHANGED vars
  BY <1>1 DEF TypeOK
<1> QED BY <1>1, ReaderType, CloseType, ConsumerType DEF Next

\* What the hub keeps for a connection stays a set of tags, a set of topics, the
\* tags of each, and counts that no decrement takes below zero.
THEOREM TypeCorrect == Spec => []TypeOK
BY InitType, StepType, PTL DEF Spec

-----------------------------------------------------------------------------
(* Counts.  What a connection has recorded for a topic it does not hold must *)
(* be nothing, or the next decrement would take away a reason it never had.  *)

NothingUnheld ==
    \A c \in Connections, topic \in Topics : topic \notin topics[c] => grouped[c][topic] = {}

CountInv == TypeOK /\ NothingUnheld /\ RefsMatch

One(condition) == IF condition THEN 1 ELSE 0

\* The topics of held whose recorded tags contain t.
Reasons(held, record, t) == {topic \in held : t \in record[topic]}

LEMMA ReasonsFinite ==
    ASSUME NEW held \in SUBSET Topics, NEW record, NEW t
    PROVE  /\ IsFiniteSet(Reasons(held, record, t))
           /\ Cardinality(Reasons(held, record, t)) \in Nat
<1>1. Reasons(held, record, t) \in SUBSET Topics
  BY DEF Reasons
<1> QED BY <1>1, TagsAssumption, FS_Subset, FS_CardinalityType

\* Recording new tags for a topic changes the number of reasons for a tag by
\* whether the tag comes or goes.
LEMMA RecordTopic ==
    ASSUME NEW held \in SUBSET Topics, NEW record \in [Topics -> SUBSET Tags],
           NEW topic \in Topics, NEW tags \in SUBSET Tags, NEW t \in Tags,
           topic \notin held => record[topic] = {}
    PROVE  Cardinality(Reasons(held \cup {topic}, [record EXCEPT ![topic] = tags], t))
             = Cardinality(Reasons(held, record, t))
                 + One(t \in tags \ record[topic]) - One(t \in record[topic] \ tags)
<1> DEFINE old == Reasons(held, record, t)
           new == Reasons(held \cup {topic}, [record EXCEPT ![topic] = tags], t)
<1>0. IsFiniteSet(old) /\ Cardinality(old) \in Nat
  BY ReasonsFinite
<1>1. topic \in old <=> t \in record[topic]
  BY DEF Reasons
<1>2. CASE t \in tags
  <2>1. new = old \cup {topic}
    BY <1>2 DEF Reasons
  <2>2. Cardinality(new) = IF topic \in old THEN Cardinality(old) ELSE Cardinality(old) + 1
    <3> HIDE DEF old, new
    <3> QED BY <1>0, <2>1, FS_AddElement
  <2> HIDE DEF old, new
  <2> QED BY <1>0, <1>1, <1>2, <2>2 DEF One, old, new
<1>3. CASE t \notin tags
  <2>1. new = old \ {topic}
    BY <1>3 DEF Reasons
  <2>2. Cardinality(new) = IF topic \in old THEN Cardinality(old) - 1 ELSE Cardinality(old)
    <3> HIDE DEF old, new
    <3> QED BY <1>0, <2>1, FS_RemoveElement
  <2> HIDE DEF old, new
  <2> QED BY <1>0, <1>1, <1>3, <2>2 DEF One, old, new
<1> QED BY <1>2, <1>3

LEMMA DropTopic ==
    ASSUME NEW held \in SUBSET Topics, NEW record \in [Topics -> SUBSET Tags],
           NEW topic \in Topics, NEW t \in Tags,
           topic \notin held => record[topic] = {}
    PROVE  Cardinality(Reasons(held \ {topic}, [record EXCEPT ![topic] = {}], t))
             = Cardinality(Reasons(held, record, t)) - One(t \in record[topic])
<1> DEFINE old == Reasons(held, record, t)
           new == Reasons(held \ {topic}, [record EXCEPT ![topic] = {}], t)
<1>0. IsFiniteSet(old) /\ Cardinality(old) \in Nat
  BY ReasonsFinite
<1>1. topic \in old <=> t \in record[topic]
  BY DEF Reasons
<1>2. new = old \ {topic}
  BY DEF Reasons
<1>3. Cardinality(new) = IF topic \in old THEN Cardinality(old) - 1 ELSE Cardinality(old)
  <2> HIDE DEF old, new
  <2> QED BY <1>0, <1>2, FS_RemoveElement
<1> HIDE DEF old, new
<1> QED BY <1>0, <1>1, <1>3 DEF One, old, new

\* A tag with a reason has a count to take one from.
LEMMA CountPositive ==
    ASSUME TypeOK, NEW c \in Connections, NEW topic \in topics[c], NEW t \in grouped[c][topic]
    PROVE  Count(c, t) \in Nat /\ Count(c, t) >= 1
<1>1. topics[c] \in SUBSET Topics
  BY DEF TypeOK
<1>2. /\ IsFiniteSet(Holders(c, t))
      /\ Cardinality(Holders(c, t)) \in Nat
  BY <1>1, ReasonsFinite DEF Reasons, Holders
<1>3. Holders(c, t) # {}
  BY DEF Holders
<1>4. Cardinality(Holders(c, t)) # 0
  BY <1>2, <1>3, FS_EmptySet
<1> QED BY <1>2, <1>4 DEF Count

LEMMA CountNat ==
    ASSUME TypeOK, NEW c \in Connections, NEW t \in Tags
    PROVE  /\ Cardinality(Holders(c, t)) \in Nat
           /\ Count(c, t) = One(t \in direct[c]) + Cardinality(Holders(c, t))
           /\ Count(c, t) \in Nat
           /\ Holders(c, t) = Reasons(topics[c], grouped[c], t)
           /\ Holders(c, t)' = Reasons(topics'[c], grouped'[c], t)
           /\ Count(c, t)' = One(t \in direct'[c]) + Cardinality(Holders(c, t)')
<1>1. topics[c] \in SUBSET Topics
  BY DEF TypeOK
<1>2. Cardinality(Holders(c, t)) \in Nat
  BY <1>1, ReasonsFinite DEF Reasons, Holders
<1> QED BY <1>2 DEF Count, One, Holders, Reasons

LEMMA InitCount == Init => CountInv
<1> SUFFICES ASSUME Init PROVE NothingUnheld /\ RefsMatch
  BY InitType DEF CountInv
<1>1. NothingUnheld
  BY DEF Init, NothingUnheld
<1>2. ASSUME NEW c \in Connections, NEW t \in Tags PROVE refs[c][t] = Count(c, t)
  <2>1. Holders(c, t) = {}
    BY DEF Init, Holders
  <2> QED BY <2>1, FS_EmptySet DEF Init, Count
<1> QED BY <1>1, <1>2 DEF RefsMatch

\* What no step of the connections' topics touches.
LEMMA CountFrame ==
    ASSUME CountInv, UNCHANGED subscriptions
    PROVE  NothingUnheld' /\ RefsMatch'
BY DEF CountInv, NothingUnheld, RefsMatch, Count, Holders

\* It is enough to look at the connection a step is about.
LEMMA OneConnection ==
    ASSUME CountInv, TypeOK', NEW c \in Connections,
           \A d \in Connections \ {c} :
               /\ direct'[d] = direct[d] /\ topics'[d] = topics[d]
               /\ grouped'[d] = grouped[d] /\ refs'[d] = refs[d]
               /\ \A t \in Tags : <<d, t>> \in miscounted => <<d, t>> \in miscounted',
           \A topic \in Topics : topic \notin topics'[c] => grouped'[c][topic] = {},
           \A t \in Tags : <<c, t>> \notin miscounted' => refs'[c][t] = Count(c, t)'
    PROVE  NothingUnheld' /\ RefsMatch'
<1>1. NothingUnheld'
  BY DEF CountInv, NothingUnheld
<1>2. ASSUME NEW d \in Connections, d # c, NEW t \in Tags
      PROVE  Count(d, t)' = Count(d, t)
  BY <1>2 DEF Count, Holders
<1>3. RefsMatch'
  BY <1>2 DEF CountInv, RefsMatch
<1> QED BY <1>1, <1>3

LEMMA DirectCount ==
    ASSUME CountInv, TypeOK', NEW c \in Connections, NEW t \in Tags,
           SubscribeDirectTag(c, t) \/ UnsubscribeDirectTag(c, t)
    PROVE  NothingUnheld' /\ RefsMatch'
<1>0. /\ TypeOK /\ UNCHANGED <<topics, grouped, miscounted>>
      /\ direct \in [Connections -> SUBSET Tags] /\ refs \in [Connections -> [Tags -> Nat]]
  BY DEF CountInv, TypeOK, SubscribeDirectTag, UnsubscribeDirectTag
<1>1. ASSUME NEW x \in Tags, <<c, x>> \notin miscounted
      PROVE  refs'[c][x] = Count(c, x)'
  <2>1. refs[c][x] = One(x \in direct[c]) + Cardinality(Holders(c, x))
    BY <1>0, <1>1, CountNat DEF CountInv, RefsMatch
  <2>2. /\ Count(c, x)' = One(x \in direct'[c]) + Cardinality(Holders(c, x)')
        /\ Holders(c, x)' = Holders(c, x)
        /\ Cardinality(Holders(c, x)) \in Nat
    BY <1>0, CountNat
  <2>3. CASE UNCHANGED <<direct, refs>>
    BY <2>1, <2>2, <2>3
  <2>4. CASE /\ t \notin direct[c]
             /\ direct' = [direct EXCEPT ![c] = @ \cup {t}]
             /\ refs' = [refs EXCEPT ![c] = Increment(@, {t})]
    BY <1>0, <2>1, <2>2, <2>4 DEF Increment, One
  <2>5. CASE /\ t \in direct[c]
             /\ direct' = [direct EXCEPT ![c] = @ \ {t}]
             /\ refs' = [refs EXCEPT ![c] = Decrement(@, {t})]
    BY <1>0, <2>1, <2>2, <2>5 DEF Decrement, One
  <2>6. CASE /\ t \notin direct[c]
             /\ direct' = [direct EXCEPT ![c] = @ \ {t}]
             /\ refs' = refs
    BY <1>0, <2>1, <2>2, <2>6 DEF One
  <2> QED BY <2>3, <2>4, <2>5, <2>6 DEF SubscribeDirectTag, UnsubscribeDirectTag
<1>2. \A d \in Connections \ {c} : direct'[d] = direct[d] /\ refs'[d] = refs[d]
  BY <1>0 DEF SubscribeDirectTag, UnsubscribeDirectTag
<1>3. \A topic \in Topics : topic \notin topics'[c] => grouped'[c][topic] = {}
  BY <1>0 DEF CountInv, NothingUnheld
<1> QED BY <1>0, <1>1, <1>2, <1>3, OneConnection

\* What SubscribeGroupTopic and Reconcile do to the counts of a connection: the
\* added tags gain a reason, all but those that are miscounted from now on.
LEMMA RecordCount ==
    ASSUME CountInv, TypeOK', NEW c \in Connections, NEW topic \in Topics,
           NEW tags \in SUBSET Tags, NEW kept \in SUBSET (tags \ grouped[c][topic]),
           topics' = [topics EXCEPT ![c] = @ \cup {topic}],
           grouped' = [grouped EXCEPT ![c][topic] = tags],
           refs' = [refs EXCEPT ![c] = Increment(Decrement(@, grouped[c][topic] \ tags), kept)],
           miscounted' = miscounted \cup
                           {<<c, t>> : t \in (tags \ grouped[c][topic]) \ kept},
           UNCHANGED direct
    PROVE  NothingUnheld' /\ RefsMatch'
<1> DEFINE held   == topics[c]
           record == grouped[c]
           added   == tags \ record[topic]
           removed == record[topic] \ tags
<1>0. /\ TypeOK /\ held \in SUBSET Topics /\ record \in [Topics -> SUBSET Tags]
      /\ topics'[c] = held \cup {topic}
      /\ grouped'[c] = [record EXCEPT ![topic] = tags]
      /\ refs'[c] = Increment(Decrement(refs[c], removed), kept)
      /\ refs[c] \in [Tags -> Nat]
      /\ topic \notin held => record[topic] = {}
  BY DEF CountInv, TypeOK, NothingUnheld
<1>1. ASSUME NEW t \in Tags, <<c, t>> \notin miscounted'
      PROVE  refs'[c][t] = Count(c, t)'
  <2>1. refs[c][t] = One(t \in direct[c]) + Cardinality(Holders(c, t))
    BY <1>0, <1>1, CountNat DEF CountInv, RefsMatch
  <2>2. /\ Holders(c, t) = Reasons(held, record, t)
        /\ Holders(c, t)' = Reasons(topics'[c], grouped'[c], t)
        /\ Count(c, t)' = One(t \in direct[c]) + Cardinality(Holders(c, t)')
        /\ Cardinality(Holders(c, t)) \in Nat
    BY <1>0, CountNat
  <2>3. Cardinality(Holders(c, t)') = Cardinality(Holders(c, t))
                                        + One(t \in added) - One(t \in removed)
    BY <1>0, <2>2, RecordTopic
  <2>4. t \in added <=> t \in kept
    BY <1>1
  <2>5. t \in removed => refs[c][t] >= 1
    <3>1. SUFFICES ASSUME t \in removed PROVE refs[c][t] >= 1
      OBVIOUS
    <3>2. topic \in topics[c] /\ t \in grouped[c][topic]
      BY <1>0, <3>1
    <3>3. refs[c][t] = Count(c, t)
      BY <1>1 DEF CountInv, RefsMatch
    <3> QED BY <1>0, <3>2, <3>3, CountPositive
  <2>6. refs'[c][t] = refs[c][t] + One(t \in kept) - One(t \in removed)
    BY <1>0, <2>5 DEF Increment, Decrement, One
  <2> HIDE DEF added, removed, held, record
  <2> QED BY <2>1, <2>2, <2>3, <2>4, <2>6 DEF One
<1>2. \A d \in Connections \ {c} :
          /\ direct'[d] = direct[d] /\ topics'[d] = topics[d]
          /\ grouped'[d] = grouped[d] /\ refs'[d] = refs[d]
  BY DEF CountInv, TypeOK
<1>3. \A x \in Topics : x \notin topics'[c] => grouped'[c][x] = {}
  BY <1>0 DEF CountInv, NothingUnheld
<1> QED BY <1>1, <1>2, <1>3, OneConnection

\* What UnsubscribeGroupTopic and a failed reconciliation do.
LEMMA DropCount ==
    ASSUME CountInv, TypeOK', NEW c \in Connections, NEW topic \in Topics,
           topics' = [topics EXCEPT ![c] = @ \ {topic}],
           grouped' = [grouped EXCEPT ![c][topic] = {}],
           refs' = [refs EXCEPT ![c] = Decrement(@, grouped[c][topic])],
           UNCHANGED <<direct, miscounted>>
    PROVE  NothingUnheld' /\ RefsMatch'
<1> DEFINE held   == topics[c]
           record == grouped[c]
<1>0. /\ TypeOK /\ held \in SUBSET Topics /\ record \in [Topics -> SUBSET Tags]
      /\ topics'[c] = held \ {topic}
      /\ grouped'[c] = [record EXCEPT ![topic] = {}]
      /\ refs'[c] = Decrement(refs[c], record[topic])
      /\ refs[c] \in [Tags -> Nat]
      /\ topic \notin held => record[topic] = {}
  BY DEF CountInv, TypeOK, NothingUnheld
<1>1. ASSUME NEW t \in Tags, <<c, t>> \notin miscounted'
      PROVE  refs'[c][t] = Count(c, t)'
  <2>1. refs[c][t] = One(t \in direct[c]) + Cardinality(Holders(c, t))
    BY <1>0, <1>1, CountNat DEF CountInv, RefsMatch
  <2>2. /\ Holders(c, t) = Reasons(held, record, t)
        /\ Holders(c, t)' = Reasons(topics'[c], grouped'[c], t)
        /\ Count(c, t)' = One(t \in direct[c]) + Cardinality(Holders(c, t)')
        /\ Cardinality(Holders(c, t)) \in Nat
    BY <1>0, CountNat
  <2>3. Cardinality(Holders(c, t)') = Cardinality(Holders(c, t)) - One(t \in record[topic])
    BY <1>0, <2>2, DropTopic
  <2>4. t \in record[topic] => refs[c][t] >= 1
    <3>1. SUFFICES ASSUME t \in record[topic] PROVE refs[c][t] >= 1
      OBVIOUS
    <3>2. topic \in topics[c]
      BY <1>0, <3>1
    <3>3. refs[c][t] = Count(c, t)
      BY <1>1 DEF CountInv, RefsMatch
    <3> QED BY <1>0, <3>1, <3>2, <3>3, CountPositive
  <2>5. refs'[c][t] = refs[c][t] - One(t \in record[topic])
    BY <1>0, <2>4 DEF Decrement, One
  <2> HIDE DEF held, record
  <2> QED BY <2>1, <2>2, <2>3, <2>5 DEF One
<1>2. \A d \in Connections \ {c} :
          /\ direct'[d] = direct[d] /\ topics'[d] = topics[d]
          /\ grouped'[d] = grouped[d] /\ refs'[d] = refs[d]
  BY DEF CountInv, TypeOK
<1>3. \A x \in Topics : x \notin topics'[c] => grouped'[c][x] = {}
  BY <1>0 DEF CountInv, NothingUnheld
<1> QED BY <1>1, <1>2, <1>3, OneConnection

LEMMA CloseCount ==
    ASSUME CountInv, TypeOK', NEW c \in Connections, Close(c)
    PROVE  NothingUnheld' /\ RefsMatch'
<1>0. /\ TypeOK
      /\ direct' = [direct EXCEPT ![c] = {}] /\ topics' = [topics EXCEPT ![c] = {}]
      /\ grouped' = [grouped EXCEPT ![c] = [topic \in Topics |-> {}]]
      /\ refs' = [refs EXCEPT ![c] = [t \in Tags |-> 0]]
      /\ miscounted' = {pair \in miscounted : pair[1] # c}
  BY DEF CountInv, Close
<1>1. /\ direct'[c] = {} /\ topics'[c] = {}
      /\ \A topic \in Topics : grouped'[c][topic] = {}
      /\ \A t \in Tags : refs'[c][t] = 0
  BY <1>0 DEF TypeOK
<1>2. ASSUME NEW t \in Tags PROVE Count(c, t)' = 0
  <2>1. Holders(c, t)' = {}
    BY <1>1 DEF Holders
  <2> QED BY <1>1, <2>1, FS_EmptySet DEF Count
<1>3. \A d \in Connections \ {c} :
          /\ direct'[d] = direct[d] /\ topics'[d] = topics[d]
          /\ grouped'[d] = grouped[d] /\ refs'[d] = refs[d]
          /\ \A t \in Tags : <<d, t>> \in miscounted => <<d, t>> \in miscounted'
  BY <1>0 DEF TypeOK
<1> QED BY <1>1, <1>2, <1>3, OneConnection

LEMMA DeletionCount ==
    ASSUME CountInv, TypeOK', NEW t \in Tags, UnsubscribeTagFromAll(t)
    PROVE  NothingUnheld' /\ RefsMatch'
<1> DEFINE affected(c) == refs[c][t] > 0
           emptied(c) == {topic \in Holders(c, t) : grouped[c][topic] = {t}}
<1>0. TypeOK /\ NothingUnheld /\ RefsMatch
  BY DEF CountInv
<1>1. ASSUME NEW c \in Connections, affected(c)
      PROVE  /\ direct'[c] = direct[c] \ {t}
             /\ topics'[c] = topics[c] \ emptied(c)
             /\ \A topic \in Topics : grouped'[c][topic] = grouped[c][topic] \ {t}
             /\ Count(c, t) > 1 => <<c, t>> \in miscounted'
  BY <1>1 DEF UnsubscribeTagFromAll
<1>2. ASSUME NEW c \in Connections, ~affected(c)
      PROVE  direct'[c] = direct[c] /\ topics'[c] = topics[c] /\ grouped'[c] = grouped[c]
  BY <1>2 DEF UnsubscribeTagFromAll
<1>3. ASSUME NEW c \in Connections
      PROVE  /\ refs[c] \in [Tags -> Nat]
             /\ \A x \in Tags :
                  refs'[c][x] = IF x \in {t} /\ refs[c][x] > 0 THEN refs[c][x] - 1 ELSE refs[c][x]
             /\ topics[c] \in SUBSET Topics
             /\ \A x \in Tags : <<c, x>> \in miscounted => <<c, x>> \in miscounted'
  BY <1>0 DEF UnsubscribeTagFromAll, Decrement, TypeOK
<1>4. ASSUME NEW c \in Connections, NEW topic \in Topics, topic \notin topics'[c]
      PROVE  grouped'[c][topic] = {}
  <2>1. CASE affected(c)
    <3>1. topic \notin topics[c] \/ grouped[c][topic] = {t}
      BY <1>1, <1>4, <2>1
    <3>2. grouped[c][topic] \subseteq {t}
      BY <1>0, <3>1 DEF NothingUnheld
    <3>3. grouped'[c][topic] = grouped[c][topic] \ {t}
      BY <1>1, <2>1
    <3> QED BY <3>2, <3>3
  <2>2. CASE ~affected(c)
    BY <1>0, <1>2, <1>4, <2>2 DEF NothingUnheld
  <2> QED BY <2>1, <2>2
<1>5. ASSUME NEW c \in Connections, NEW x \in Tags, <<c, x>> \notin miscounted'
      PROVE  refs'[c][x] = Count(c, x)'
  <2>0. refs[c][x] = Count(c, x) /\ Count(c, x) \in Nat
    BY <1>0, <1>3, <1>5, CountNat DEF RefsMatch
  <2>1. CASE x # t \/ ~affected(c)
    <3>1. Holders(c, x)' = Holders(c, x)
      <4>1. CASE affected(c)
        <5>1. \A topic \in Topics :
                topic \in topics'[c] /\ x \in grouped'[c][topic]
                  <=> topic \in topics[c] /\ x \in grouped[c][topic]
          <6>1. SUFFICES ASSUME NEW topic \in Topics
                         PROVE  topic \in topics'[c] /\ x \in grouped'[c][topic]
                                  <=> topic \in topics[c] /\ x \in grouped[c][topic]
            OBVIOUS
          <6>2. /\ grouped'[c][topic] = grouped[c][topic] \ {t}
                /\ topics'[c] = topics[c] \ emptied(c) /\ x # t
            BY <1>1, <2>1, <4>1
          <6> QED BY <6>2
        <5>2. topics[c] \in SUBSET Topics /\ topics'[c] \in SUBSET Topics
          BY <1>0 DEF TypeOK
        <5> QED BY <5>1, <5>2 DEF Holders
      <4>2. CASE ~affected(c)
        BY <1>2, <4>2 DEF Holders
      <4> QED BY <4>1, <4>2
    <3>2. x \in direct'[c] <=> x \in direct[c]
      BY <1>1, <1>2, <2>1
    <3>3. Count(c, x)' = Count(c, x)
      BY <3>1, <3>2 DEF Count
    <3>4. refs'[c][x] = refs[c][x]
      <4>1. refs'[c][x] = IF x \in {t} /\ refs[c][x] > 0 THEN refs[c][x] - 1 ELSE refs[c][x]
        BY <1>3
      <4> QED BY <2>1, <4>1
    <3> QED BY <2>0, <3>3, <3>4
  <2>2. CASE x = t /\ affected(c)
    <3>1. Count(c, t) = 1
      <4>1. ~(Count(c, t) > 1)
        BY <1>1, <1>5, <2>2
      <4> QED BY <2>0, <2>2, <4>1
    <3>2. refs'[c][t] = 0
      <4>1. refs'[c][t] = IF t \in {t} /\ refs[c][t] > 0 THEN refs[c][t] - 1 ELSE refs[c][t]
        BY <1>3
      <4> QED BY <2>0, <2>2, <3>1, <4>1
    <3>3. Holders(c, t)' = {}
      <4>1. topics'[c] \in SUBSET Topics
        BY DEF TypeOK
      <4>2. \A topic \in topics'[c] : t \notin grouped'[c][topic]
        <5> SUFFICES ASSUME NEW topic \in Topics PROVE t \notin grouped'[c][topic]
          BY <4>1
        <5>1. grouped'[c][topic] = grouped[c][topic] \ {t}
          BY <1>1, <2>2
        <5> QED BY <5>1
      <4> QED BY <4>2 DEF Holders
    <3>4. t \notin direct'[c]
      BY <1>1, <2>2
    <3>5. Count(c, t)' = 0
      BY <3>3, <3>4, FS_EmptySet DEF Count
    <3> QED BY <2>2, <3>2, <3>5
  <2> QED BY <2>1, <2>2
<1> QED BY <1>4, <1>5 DEF NothingUnheld, RefsMatch

LEMMA StepCount == CountInv /\ [Next]_vars => CountInv'
<1> SUFFICES ASSUME CountInv, [Next]_vars PROVE NothingUnheld' /\ RefsMatch'
  BY StepType DEF CountInv
<1>0. TypeOK /\ TypeOK'
  BY StepType DEF CountInv
<1>1. CASE UNCHANGED subscriptions
  BY <1>1, CountFrame
<1>2. ASSUME NEW c \in Connections, SubscribeGroupTopic(c) PROVE NothingUnheld' /\ RefsMatch'
  <2> DEFINE topic == reader[c].topic
             tags  == reader[c].tags
  <2>1. topic \in Topics /\ tags \in SUBSET Tags
    BY <1>0, <1>2 DEF SubscribeGroupTopic, TypeOK, Reader
  <2>2. CASE UNCHANGED subscriptions
    BY <2>2, CountFrame
  <2>3. CASE ~UNCHANGED subscriptions
    <3>1. /\ topic \notin topics[c]
          /\ topics' = [topics EXCEPT ![c] = @ \cup {topic}]
          /\ grouped' = [grouped EXCEPT ![c][topic] = tags]
          /\ refs' = [refs EXCEPT ![c] = Increment(@, tags)]
          /\ UNCHANGED <<direct, miscounted>>
      BY <1>2, <2>3 DEF SubscribeGroupTopic
    <3>2. grouped[c][topic] = {}
      BY <2>1, <3>1 DEF CountInv, NothingUnheld
    <3>3. Decrement(refs[c], grouped[c][topic] \ tags) = refs[c]
      BY <1>0, <3>2 DEF Decrement, TypeOK
    <3>4. refs' = [refs EXCEPT ![c] =
                     Increment(Decrement(@, grouped[c][topic] \ tags), tags)]
      BY <3>1, <3>3
    <3>5. tags \in SUBSET (tags \ grouped[c][topic])
      BY <3>2
    <3>6. miscounted' = miscounted \cup {<<c, t>> : t \in (tags \ grouped[c][topic]) \ tags}
      BY <3>1
    <3> HIDE DEF topic, tags
    <3> QED BY <1>0, <2>1, <3>1, <3>4, <3>5, <3>6, RecordCount
  <2> QED BY <2>2, <2>3
<1>3. ASSUME NEW c \in Connections, NEW kept \in SUBSET Tags, Reconcile(c, kept)
      PROVE  NothingUnheld' /\ RefsMatch'
  <2> DEFINE topic == consumer.topic
             tags  == consumer.tags
  <2>1. topic \in Topics /\ tags \in SUBSET Tags /\ topic \in topics[c]
    BY <1>0, <1>3 DEF Reconcile, StillSubscribed, TypeOK, Consumer
  <2>2. kept \in SUBSET (tags \ grouped[c][topic])
    BY <1>3 DEF Reconcile, Admitted
  <2>3. topics' = [topics EXCEPT ![c] = @ \cup {topic}]
    BY <1>0, <1>3, <2>1 DEF Reconcile, TypeOK
  <2>4. /\ grouped' = [grouped EXCEPT ![c][topic] = tags]
        /\ refs' = [refs EXCEPT ![c] =
                      Increment(Decrement(@, grouped[c][topic] \ tags), kept)]
        /\ miscounted' = miscounted \cup {<<c, t>> : t \in (tags \ grouped[c][topic]) \ kept}
        /\ UNCHANGED direct
    BY <1>3 DEF Reconcile
  <2> HIDE DEF topic, tags
  <2> QED BY <1>0, <2>1, <2>2, <2>3, <2>4, RecordCount
<1>4. ASSUME NEW c \in Connections, NEW topic \in Topics, UnsubscribeGroupTopic(c, topic)
      PROVE  NothingUnheld' /\ RefsMatch'
  BY <1>0, <1>4, DropCount DEF UnsubscribeGroupTopic
<1>5. ASSUME NEW c \in Connections, ReconcileFailed(c) PROVE NothingUnheld' /\ RefsMatch'
  <2>1. consumer.topic \in Topics
    BY <1>0, <1>5 DEF ReconcileFailed, StillSubscribed, TypeOK
  <2> QED BY <1>0, <1>5, <2>1, DropCount DEF ReconcileFailed
<1>6. CASE \E c \in Connections :
             \/ \E op \in {"subscribe", "unsubscribe"}, names \in SUBSET (Tags \cup Topics) :
                  ReadFrame(c, op, names)
             \/ \E topic \in Topics : SkipTopic(c, topic)
             \/ \E topic \in Topics, tags \in SUBSET Tags : ResolveTopic(c, topic, tags)
             \/ ReconcileGone(c)
  BY <1>1, <1>6 DEF ReadFrame, SkipTopic, ResolveTopic, ReconcileGone
<1>7. CASE \/ \E topic \in Topics : StartReconcile(topic)
           \/ \E tags \in SUBSET Tags, failed \in BOOLEAN : ResolveReconciled(failed, tags)
  BY <1>1, <1>7 DEF StartReconcile, ResolveReconciled
<1> QED
  BY <1>0, <1>1, <1>2, <1>3, <1>4, <1>5, <1>6, <1>7, DirectCount, CloseCount, DeletionCount
  DEF Next, ReadLoop, HandleConfigChanged

\* Whatever the read loops, the reconciliations, the deletions and the closes do
\* to one another, a connection is counted a tag as many times as it has reasons
\* to receive it, except for tags one of the two shortcuts has touched.
THEOREM CountsCorrect == Spec => []RefsMatch
<1>1. CountInv => RefsMatch
  BY DEF CountInv
<1> QED BY InitCount, StepCount, <1>1, PTL DEF Spec

-----------------------------------------------------------------------------
(* The limit. *)

LimitInv == TypeOK /\ LimitRespected

\* A set of tags, with its cardinality.
LEMMA TagSets ==
    ASSUME NEW A \in SUBSET Tags, NEW B \in SUBSET Tags
    PROVE  /\ IsFiniteSet(A) /\ Cardinality(A) \in Nat
           /\ IsFiniteSet(A \cup B) /\ Cardinality(A \cup B) \in Nat
           /\ Cardinality(A \cup B) <= Cardinality(A) + Cardinality(B)
           /\ A \subseteq B => Cardinality(A) <= Cardinality(B)
<1>1. IsFiniteSet(A) /\ IsFiniteSet(B)
  BY TagsAssumption, FS_Subset
<1>2. Cardinality(A) \in Nat /\ Cardinality(B) \in Nat
  BY <1>1, FS_CardinalityType
<1>3. /\ IsFiniteSet(A \cup B)
      /\ Cardinality(A \cup B) = Cardinality(A) + Cardinality(B) - Cardinality(A \cap B)
  BY <1>1, FS_Union
<1>4. Cardinality(A \cap B) \in Nat
  <2>1. A \cap B \in SUBSET A
    OBVIOUS
  <2> QED BY <1>1, <2>1, FS_Subset, FS_CardinalityType
<1>5. Cardinality(A \cup B) \in Nat
  BY <1>3, FS_CardinalityType
<1>6. A \subseteq B => Cardinality(A) <= Cardinality(B)
  BY <1>1, FS_Subset
<1> QED BY <1>1, <1>2, <1>3, <1>4, <1>5, <1>6

\* It is enough that what a connection receives beyond what it received before
\* fits under the limit.
LEMMA Fits ==
    ASSUME LimitInv, TypeOK', NEW c \in Connections, NEW extra \in SUBSET Tags,
           Delivered(c)' \subseteq Delivered(c) \cup extra,
           \/ extra = {}
           \/ ~Exceeds(c, extra)
           \/ Cardinality(extra) = MaxSubscriptions - Cardinality(Delivered(c))
    PROVE  Cardinality(Delivered(c)') <= MaxSubscriptions
<1>0. /\ Cardinality(Delivered(c)) <= MaxSubscriptions
      /\ MaxSubscriptions \in Nat
      /\ Delivered(c) \in SUBSET Tags /\ Delivered(c)' \in SUBSET Tags
  BY LimitAssumption DEF LimitInv, LimitRespected, Delivered
<1> DEFINE old == Delivered(c)
           new == Delivered(c)'
<1>1. Cardinality(new) <= Cardinality(old \cup extra)
  <2>1. new \in SUBSET Tags /\ old \cup extra \in SUBSET Tags /\ new \subseteq old \cup extra
    BY <1>0
  <2> HIDE DEF new, old
  <2> QED BY <2>1, TagSets
<1>2. /\ Cardinality(old) \in Nat /\ Cardinality(extra) \in Nat /\ Cardinality(new) \in Nat
      /\ Cardinality(old \cup extra) \in Nat
      /\ Cardinality(old \cup extra) <= Cardinality(old) + Cardinality(extra)
  <2> HIDE DEF new, old
  <2> QED BY <1>0, TagSets DEF new, old
<1>3. CASE extra = {}
  <2>1. old \cup extra = old
    BY <1>3
  <2> QED BY <1>0, <1>1, <1>2, <2>1
<1>4. CASE ~Exceeds(c, extra)
  BY <1>0, <1>1, <1>2, <1>4 DEF Exceeds
<1>5. CASE Cardinality(extra) = MaxSubscriptions - Cardinality(Delivered(c))
  BY <1>0, <1>1, <1>2, <1>5
<1> QED BY <1>3, <1>4, <1>5

LEMMA OneFits ==
    ASSUME LimitInv, TypeOK', NEW c \in Connections, NEW extra \in SUBSET Tags,
           \A d \in Connections \ {c} : refs'[d] = refs[d],
           \A t \in Tags : refs'[c][t] > 0 => refs[c][t] > 0 \/ t \in extra,
           \/ extra = {}
           \/ ~Exceeds(c, extra)
           \/ Cardinality(extra) = MaxSubscriptions - Cardinality(Delivered(c))
    PROVE  LimitRespected'
<1>1. Cardinality(Delivered(c)') <= MaxSubscriptions
  <2>1. Delivered(c)' \subseteq Delivered(c) \cup extra
    BY DEF Delivered
  <2> QED BY <2>1, Fits
<1>2. ASSUME NEW d \in Connections \ {c}
      PROVE  Cardinality(Delivered(d)') <= MaxSubscriptions
  <2>1. Delivered(d)' = Delivered(d)
    BY DEF Delivered
  <2> QED BY <2>1 DEF LimitInv, LimitRespected
<1> QED BY <1>1, <1>2 DEF LimitRespected

LEMMA InitLimit == Init => LimitInv
<1> SUFFICES ASSUME Init PROVE LimitRespected
  BY InitType DEF LimitInv
<1>1. \A c \in Connections : Delivered(c) = {}
  BY DEF Init, Delivered
<1> QED BY <1>1, FS_EmptySet, LimitAssumption DEF LimitRespected

LEMMA StepLimit == LimitInv /\ [Next]_vars => LimitInv'
<1> SUFFICES ASSUME LimitInv, [Next]_vars PROVE LimitRespected'
  BY StepType DEF LimitInv
<1>0. /\ TypeOK /\ TypeOK'
      /\ refs \in [Connections -> [Tags -> Nat]]
  BY StepType DEF LimitInv, TypeOK
<1>1. CASE UNCHANGED refs
  BY <1>1 DEF LimitInv, LimitRespected, Delivered
\* No count grows.
<1>2. ASSUME \A c \in Connections, t \in Tags : refs'[c][t] > 0 => refs[c][t] > 0
      PROVE  LimitRespected'
  <2>1. ASSUME NEW c \in Connections PROVE Cardinality(Delivered(c)') <= MaxSubscriptions
    <3>1. Delivered(c)' \subseteq Delivered(c) \cup {}
      BY <1>2 DEF Delivered
    <3>2. \A extra \in SUBSET Tags :
            extra = {} /\ Delivered(c)' \subseteq Delivered(c) \cup extra
              => Cardinality(Delivered(c)') <= MaxSubscriptions
      BY <1>0, Fits
    <3>3. {} \in SUBSET Tags
      OBVIOUS
    <3> QED BY <3>1, <3>2, <3>3
  <2> QED BY <2>1 DEF LimitRespected
<1>3. ASSUME NEW c \in Connections, NEW t \in Tags, SubscribeDirectTag(c, t)
      PROVE  LimitRespected'
  <2>1. CASE ~UNCHANGED refs
    <3>1. refs' = [refs EXCEPT ![c] = Increment(@, {t})] /\ ~Exceeds(c, {t})
      BY <1>3, <2>1 DEF SubscribeDirectTag
    <3>2. \A x \in Tags : refs'[c][x] > 0 => refs[c][x] > 0 \/ x \in {t}
      BY <1>0, <3>1 DEF Increment
    <3>3. \A d \in Connections \ {c} : refs'[d] = refs[d]
      BY <1>0, <3>1
    <3>4. {t} \in SUBSET Tags
      OBVIOUS
    <3> QED BY <1>0, <3>1, <3>2, <3>3, <3>4, OneFits
  <2> QED BY <1>1, <2>1
<1>4. ASSUME NEW c \in Connections, SubscribeGroupTopic(c)
      PROVE  LimitRespected'
  <2>1. CASE ~UNCHANGED refs
    <3> DEFINE tags == reader[c].tags
    <3>1. /\ refs' = [refs EXCEPT ![c] = Increment(@, tags)] /\ ~Exceeds(c, tags)
      BY <1>4, <2>1 DEF SubscribeGroupTopic
    <3>2. tags \in SUBSET Tags
      BY <1>0 DEF TypeOK, Reader
    <3>3. \A x \in Tags : refs'[c][x] > 0 => refs[c][x] > 0 \/ x \in tags
      BY <1>0, <3>1 DEF Increment
    <3>4. \A d \in Connections \ {c} : refs'[d] = refs[d]
      BY <1>0, <3>1
    <3> HIDE DEF tags
    <3> QED BY <1>0, <3>1, <3>2, <3>3, <3>4, OneFits
  <2> QED BY <1>1, <2>1
<1>5. ASSUME NEW c \in Connections, NEW kept \in SUBSET Tags, Reconcile(c, kept)
      PROVE  LimitRespected'
  <2> DEFINE added   == consumer.tags \ grouped[c][consumer.topic]
             removed == grouped[c][consumer.topic] \ consumer.tags
  <2>1. /\ refs' = [refs EXCEPT ![c] = Increment(Decrement(@, removed), kept)]
        /\ kept \in Admitted(c, added)
    BY <1>5 DEF Reconcile
  <2> HIDE DEF added, removed
  <2>2. \/ ~Exceeds(c, kept)
        \/ Cardinality(kept) = MaxSubscriptions - Cardinality(Delivered(c))
    BY <2>1 DEF Admitted
  <2>3. \A x \in Tags : refs'[c][x] > 0 => refs[c][x] > 0 \/ x \in kept
    BY <1>0, <2>1 DEF Increment, Decrement
  <2>4. \A d \in Connections \ {c} : refs'[d] = refs[d]
    BY <1>0, <2>1
  <2> QED BY <1>0, <2>2, <2>3, <2>4, OneFits
<1>6. ASSUME NEW c \in Connections, NEW tags, refs' = [refs EXCEPT ![c] = Decrement(@, tags)]
      PROVE  LimitRespected'
  <2>1. ASSUME NEW d \in Connections, NEW t \in Tags, refs'[d][t] > 0 PROVE refs[d][t] > 0
    BY <1>0, <1>6, <2>1 DEF Decrement
  <2> QED BY <1>2, <2>1
<1>7. ASSUME NEW c \in Connections, ReadLoop(c) PROVE LimitRespected'
  BY <1>1, <1>3, <1>4, <1>6, <1>7
  DEF ReadLoop, ReadFrame, SkipTopic, ResolveTopic, UnsubscribeDirectTag, UnsubscribeGroupTopic
<1>8. ASSUME NEW c \in Connections, Close(c) PROVE LimitRespected'
  <2>1. refs' = [refs EXCEPT ![c] = [t \in Tags |-> 0]]
    BY <1>8 DEF Close
  <2>2. ASSUME NEW d \in Connections, NEW t \in Tags, refs'[d][t] > 0 PROVE refs[d][t] > 0
    BY <1>0, <2>1, <2>2
  <2> QED BY <1>2, <2>2
<1>9. ASSUME NEW t \in Tags, UnsubscribeTagFromAll(t) PROVE LimitRespected'
  <2>1. refs' = [c \in Connections |-> Decrement(refs[c], {t})]
    BY <1>9 DEF UnsubscribeTagFromAll
  <2>2. ASSUME NEW d \in Connections, NEW x \in Tags, refs'[d][x] > 0 PROVE refs[d][x] > 0
    BY <1>0, <2>1, <2>2 DEF Decrement
  <2> QED BY <1>2, <2>2
<1>10. ASSUME HandleConfigChanged PROVE LimitRespected'
  BY <1>1, <1>5, <1>6, <1>9, <1>10
  DEF HandleConfigChanged, StartReconcile, ResolveReconciled, ReconcileGone, ReconcileFailed
<1> QED BY <1>1, <1>7, <1>8, <1>10 DEF Next

\* No connection ever receives more distinct tags than the limit allows.
THEOREM LimitCorrect == Spec => []LimitRespected
<1>1. LimitInv => LimitRespected
  BY DEF LimitInv
<1> QED BY InitLimit, StepLimit, <1>1, PTL DEF Spec

HIDE DEF subscriptions, vars

-----------------------------------------------------------------------------
(* The composition implements the hub. *)

\* What the hub is given are tags, and what is dropped is a tag.
ResolverTyped ==
    /\ members \in [Topics -> (SUBSET Tags) \cup {Gone}]
    /\ cache \in [Topics -> (SUBSET Tags) \cup {Uncached}]
    /\ query \in [Resolvers -> {NoQuery} \cup [topic : Topics, tags : SUBSET Tags]]
    /\ \A event \in events : event.deleted => event.tag \in Tags
    /\ handling = [event |-> handling.event, pc |-> handling.pc, topics |-> handling.topics]
    /\ handling.pc = "drop" => handling.event.tag \in Tags

LEMMA TypedInit == MembershipInit => ResolverTyped
<1> SUFFICES ASSUME MembershipInit PROVE ResolverTyped
  OBVIOUS
<1>1. members \in [Topics -> (SUBSET Tags) \cup {Gone}]
  <2>1. SUBSET {t \in Tags : life[t] = "live"} \subseteq SUBSET Tags
    OBVIOUS
  <2> QED BY <2>1 DEF MembershipInit
<1>2. /\ handling = [event |-> handling.event, pc |-> handling.pc, topics |-> handling.topics]
      /\ handling.pc # "drop"
  BY DEF MembershipInit, NotHandling
<1> QED BY <1>1, <1>2 DEF MembershipInit, ResolverTyped

LEMMA AnnounceTyped ==
    ASSUME ResolverTyped, NEW event, Announce(event), event.deleted => event.tag \in Tags,
           members' \in [Topics -> (SUBSET Tags) \cup {Gone}]
    PROVE  ResolverTyped'
BY DEF ResolverTyped, Announce, resolver

LEMMA EditorTyped == ASSUME ResolverTyped, Editor PROVE ResolverTyped'
<1> USE DEF ResolverTyped
<1>1. ASSUME NEW changed PROVE ~MemberEvent(changed).deleted
  BY DEF MemberEvent, TopicEvent
<1>2. ASSUME NEW diagram \in Topics \ Objects, NEW tags \in SUBSET Tags, EditFigures(diagram, tags)
      PROVE  ResolverTyped'
  <2>1. members' \in [Topics -> (SUBSET Tags) \cup {Gone}]
    BY <1>2 DEF EditFigures
  <2> QED BY <1>1, <1>2, <2>1, AnnounceTyped DEF EditFigures
<1>3. ASSUME NEW object \in Objects, NEW tags \in SUBSET Tags, AssignDevices(object, tags)
      PROVE  ResolverTyped'
  <2>1. members' \in [Topics -> (SUBSET Tags) \cup {Gone}]
    BY <1>3, ObjectsAssumption DEF AssignDevices
  <2> QED BY <1>1, <1>3, <2>1, AnnounceTyped DEF AssignDevices
<1>4. ASSUME NEW object \in Objects, NEW tags \in SUBSET Tags, DeleteDevice(object, tags)
      PROVE  ResolverTyped'
  <2>1. members[object] \in SUBSET Tags
    BY <1>4, ObjectsAssumption DEF DeleteDevice
  <2>2. members[object] \ tags \in SUBSET Tags
    BY <2>1
  <2>3. members' \in [Topics -> (SUBSET Tags) \cup {Gone}]
    BY <1>4, <2>2, ObjectsAssumption DEF DeleteDevice
  <2> QED BY <1>1, <1>4, <2>3, AnnounceTyped DEF DeleteDevice
<1>5. ASSUME NEW t \in Tags, NEW object \in Objects, CreateTag(t, object)
      PROVE  ResolverTyped'
  <2>1. members[object] \in SUBSET Tags
    BY <1>5, ObjectsAssumption DEF CreateTag
  <2>2. members[object] \cup {t} \in SUBSET Tags
    BY <2>1
  <2>3. members' \in [Topics -> (SUBSET Tags) \cup {Gone}]
    BY <1>5, <2>2, ObjectsAssumption DEF CreateTag
  <2>4. ~TagEvent(t, FALSE, {object}).deleted
    BY DEF TagEvent
  <2> QED BY <1>5, <2>3, <2>4, AnnounceTyped DEF CreateTag
<1>6. ASSUME NEW t \in Tags, UpdateTag(t)
      PROVE  ResolverTyped'
  <2>1. ~TagEvent(t, FALSE, {}).deleted
    BY DEF TagEvent
  <2>2. members' \in [Topics -> (SUBSET Tags) \cup {Gone}]
    BY <1>6 DEF UpdateTag
  <2> QED BY <1>6, <2>1, <2>2, AnnounceTyped DEF UpdateTag
<1>7. ASSUME NEW t \in Tags, DeleteTag(t)
      PROVE  ResolverTyped'
  <2>1. ASSUME NEW topic \in Topics
        PROVE  (IF topic \in Objects \cap Having(t) THEN members[topic] \ {t} ELSE members[topic])
                 \in (SUBSET Tags) \cup {Gone}
    <3>1. CASE topic \in Objects \cap Having(t)
      <4>1. t \in MembersOf(topic)
        BY <3>1 DEF Having
      <4>2. members[topic] # Gone
        BY <4>1 DEF MembersOf
      <4>3. members[topic] \ {t} \in SUBSET Tags
        BY <4>2
      <4> QED BY <3>1, <4>3
    <3>2. CASE topic \notin Objects \cap Having(t)
      BY <3>2
    <3> QED BY <3>1, <3>2
  <2>2. members' \in [Topics -> (SUBSET Tags) \cup {Gone}]
    BY <1>7, <2>1 DEF DeleteTag
  <2>3. TagEvent(t, TRUE, Having(t)).tag = t
    BY DEF TagEvent
  <2> QED BY <1>7, <2>2, <2>3, AnnounceTyped DEF DeleteTag
<1>8. ASSUME NEW topic \in Topics, DeleteDiagram(topic)
      PROVE  ResolverTyped'
  <2>1. members' \in [Topics -> (SUBSET Tags) \cup {Gone}]
    BY <1>8 DEF DeleteDiagram
  <2>2. ~TopicEvent(topic, {topic}).deleted
    BY DEF TopicEvent
  <2> QED BY <1>8, <2>1, <2>2, AnnounceTyped DEF DeleteDiagram
<1>9. ASSUME NEW object \in Objects, NEW diagrams \in SUBSET (Topics \ Objects),
             DeleteObject(object, diagrams)
      PROVE  ResolverTyped'
  <2> DEFINE topicsGone == {object} \cup {d \in diagrams : members[d] # Gone}
  <2>1. members' = [topic \in Topics |-> IF topic \in topicsGone THEN Gone ELSE members[topic]]
    BY <1>9 DEF DeleteObject
  <2>2. Announce(TopicEvent(object, topicsGone))
    BY <1>9 DEF DeleteObject
  <2>3. ~TopicEvent(object, topicsGone).deleted
    BY DEF TopicEvent
  <2> HIDE DEF topicsGone
  <2>4. members' \in [Topics -> (SUBSET Tags) \cup {Gone}]
    BY <2>1
  <2> QED BY <2>2, <2>3, <2>4, AnnounceTyped
<1> HIDE DEF ResolverTyped
<1> QED BY <1>2, <1>3, <1>4, <1>5, <1>6, <1>7, <1>8, <1>9 DEF Editor

-----------------------------------------------------------------------------
(* The resolver.  A query keeps the types, and what it finds are tags. *)

LEMMA StartQueryTyped ==
    ASSUME ResolverTyped, NEW r \in Resolvers, NEW topic \in Topics, StartQuery(r, topic)
    PROVE  ResolverTyped' /\ UNCHANGED vars
<1>1. members[topic] \in SUBSET Tags
  BY DEF ResolverTyped, StartQuery
<1>2. [topic |-> topic, tags |-> members[topic]] \in [topic : Topics, tags : SUBSET Tags]
  BY <1>1
<1> QED BY <1>2 DEF ResolverTyped, StartQuery, hub, database

LEMMA EndQueryTyped ==
    ASSUME ResolverTyped, NEW r \in Resolvers, EndQuery(r)
    PROVE  ResolverTyped' /\ query[r].topic \in Topics /\ query[r].tags \in SUBSET Tags
<1>1. query[r] \in [topic : Topics, tags : SUBSET Tags]
  BY DEF ResolverTyped, EndQuery
<1> QED BY <1>1 DEF ResolverTyped, EndQuery, database

LEMMA CacheCleared ==
    ASSUME ResolverTyped, NEW topic, cache' = [cache EXCEPT ![topic] = Uncached],
           UNCHANGED <<database, events, query, handling>>
    PROVE  ResolverTyped'
BY DEF ResolverTyped, database

LEMMA NothingResolved ==
    ASSUME ResolverTyped, UNCHANGED <<database, events, resolver, handling>>
    PROVE  ResolverTyped'
BY DEF ResolverTyped, database, resolver

-----------------------------------------------------------------------------
(* Every step is one of the hub's or leaves it alone. *)

LEMMA ReadsImplement ==
    ASSUME ResolverTyped, NEW c \in Connections, Reads(c)
    PROVE  ResolverTyped' /\ [Next]_vars
<1>0. c \in Resolvers
  BY DEF Resolvers
<1>1. ASSUME NEW topic \in Topics, ResolveCached(c, topic) PROVE ResolverTyped' /\ Next
  <2>1. cache[topic] \in SUBSET Tags
    BY <1>1 DEF ResolverTyped, ResolveCached
  <2> QED BY <1>1, <2>1, NothingResolved DEF ResolveCached, ReadLoop, Next
<1>2. ASSUME NEW topic \in Topics, QueryMembers(c, topic)
      PROVE  ResolverTyped' /\ UNCHANGED vars
  BY <1>0, <1>2, StartQueryTyped DEF QueryMembers
<1>3. ASSUME NEW topic \in Topics, QueryFails(c, topic) PROVE ResolverTyped' /\ Next
  BY <1>3, CacheCleared DEF QueryFails, ReadLoop, Next
<1>4. ASSUME StoreMembers(c) PROVE ResolverTyped' /\ Next
  BY <1>0, <1>4, EndQueryTyped DEF StoreMembers, ReadLoop, Next
<1>5. ASSUME OtherWork(c) PROVE ResolverTyped' /\ Next
  <2>1. ReadLoop(c)
    BY <1>5 DEF OtherWork, ReadLoop
  <2> QED BY <1>5, <2>1, NothingResolved DEF OtherWork, Next
<1>6. ASSUME Close(c), UNCHANGED <<database, events, resolver, handling, missed>>
      PROVE  ResolverTyped' /\ Next
  BY <1>6, NothingResolved DEF Next
<1> QED BY <1>1, <1>2, <1>3, <1>4, <1>5, <1>6 DEF Reads

LEMMA HandlesImplement ==
    ASSUME ResolverTyped, TypeOK, Handles
    PROVE  ResolverTyped' /\ [Next]_vars
<1>0. /\ "consumer" \in Resolvers
      /\ consumer.topic \in Topics \cup {NoTopic}
  BY DEF Resolvers, TypeOK, Consumer
<1>1. ASSUME NEW event \in events, TakeEvent(event) PROVE ResolverTyped' /\ UNCHANGED vars
  BY <1>1 DEF TakeEvent, ResolverTyped, database, resolver, hub
<1>2. ASSUME DropTag PROVE ResolverTyped' /\ [Next]_vars
  <2>1. handling.event.tag \in Tags
    BY <1>2 DEF DropTag, ResolverTyped
  <2>2. handling'.pc # "drop"
    BY <1>2 DEF DropTag
  <2>3. ResolverTyped'
    BY <1>2, <2>2 DEF DropTag, ResolverTyped, database, resolver
  <2>4. [Next]_vars
    BY <1>2, <2>1 DEF DropTag, HandleConfigChanged, Next, hub
  <2> QED BY <2>3, <2>4
<1>3. ASSUME Invalidate PROVE ResolverTyped' /\ UNCHANGED vars
  <2>1. Forget(Affected(handling.event)) \in [Topics -> (SUBSET Tags) \cup {Uncached}]
    BY DEF Forget, ResolverTyped
  <2>2. /\ handling' = [event |-> handling'.event, pc |-> handling'.pc, topics |-> handling'.topics]
        /\ handling'.pc # "drop"
    <3>1. CASE handling' = NotHandling
      BY <3>1 DEF NotHandling
    <3>2. CASE handling' # NotHandling
      <4>1. handling' = [handling EXCEPT !.pc = "reconcile", !.topics = Affected(handling.event)]
        BY <1>3, <3>2 DEF Invalidate
      <4>2. handling = [event |-> handling.event, pc |-> handling.pc, topics |-> handling.topics]
        BY DEF ResolverTyped
      <4> QED BY <4>1, <4>2
    <3> QED BY <3>1, <3>2
  <2>3. cache' \in [Topics -> (SUBSET Tags) \cup {Uncached}]
    BY <1>3, <2>1 DEF Invalidate
  <2>4. UNCHANGED <<members, query, events, vars>>
    BY <1>3 DEF Invalidate, database, hub
  <2> QED BY <2>2, <2>3, <2>4 DEF ResolverTyped
<1>4. ASSUME NEW topic \in Topics, NextTopic(topic) PROVE ResolverTyped' /\ [Next]_vars
  <2>1. handling'.pc = "drop" => handling.pc = "drop" /\ handling'.event = handling.event
    BY <1>4 DEF NextTopic
  <2> QED BY <1>4, <2>1 DEF NextTopic, ResolverTyped, database, resolver, HandleConfigChanged,
                            Next, hub
<1>5. ASSUME ReconcileCached PROVE ResolverTyped' /\ Next
  <2>1. cache[consumer.topic] \in SUBSET Tags
    BY <1>0, <1>5 DEF ReconcileCached, ResolverTyped
  <2> QED BY <1>5, <2>1, NothingResolved DEF ReconcileCached, HandleConfigChanged, Next
<1>6. ASSUME ReconcileQuery PROVE ResolverTyped' /\ UNCHANGED vars
  BY <1>0, <1>6, StartQueryTyped DEF ReconcileQuery
<1>7. ASSUME ReconcileStore PROVE ResolverTyped' /\ Next
  BY <1>0, <1>7, EndQueryTyped DEF ReconcileStore, HandleConfigChanged, Next
<1>8. ASSUME ReconcileError PROVE ResolverTyped' /\ Next
  BY <1>8, CacheCleared DEF ReconcileError, HandleConfigChanged, Next
<1>9. ASSUME NEW c \in Connections, ReconcileConnection(c) PROVE ResolverTyped' /\ Next
  BY <1>9, NothingResolved DEF ReconcileConnection, HandleConfigChanged, Next
<1>10. ASSUME EventDone PROVE ResolverTyped' /\ UNCHANGED vars
  <2>1. /\ handling' = [event |-> handling'.event, pc |-> handling'.pc, topics |-> handling'.topics]
        /\ handling'.pc # "drop"
    BY <1>10 DEF EventDone, NotHandling
  <2>2. UNCHANGED <<members, cache, query, events, vars>>
    BY <1>10 DEF EventDone, database, resolver, hub
  <2> QED BY <2>1, <2>2 DEF ResolverTyped
<1> QED BY <1>1, <1>2, <1>3, <1>4, <1>5, <1>6, <1>7, <1>8, <1>9, <1>10 DEF Handles

LEMMA StepImplements ==
    ASSUME ResolverTyped, TypeOK, [MembershipNext]_allvars
    PROVE  ResolverTyped' /\ [Next]_vars
<1>1. ASSUME Editor PROVE ResolverTyped' /\ UNCHANGED vars
  BY <1>1, EditorTyped DEF Editor, EditFigures, AssignDevices, DeleteDevice, CreateTag,
     UpdateTag, DeleteTag, DeleteDiagram, DeleteObject, Announce, hub
<1>2. CASE UNCHANGED allvars
  BY <1>2 DEF allvars, ResolverTyped, database, resolver, hub
<1> QED BY <1>1, <1>2, ReadsImplement, HandlesImplement DEF MembershipNext

\* The composition implements the hub: whatever the resolver answers, from the
\* cache or from a query that edits have overtaken, and whatever events the consumer
\* is handling, the hub only takes the steps RealtimeHub allows it.
THEOREM MembershipImplementsHub == MembershipSpec => Spec
<1>1. MembershipInit => Init /\ ResolverTyped /\ TypeOK
  BY TypedInit, InitType DEF MembershipInit
<1>2. ResolverTyped /\ TypeOK /\ [MembershipNext]_allvars
        => [Next]_vars /\ ResolverTyped' /\ TypeOK'
  BY StepImplements, StepType
<1> QED BY <1>1, <1>2, PTL DEF MembershipSpec, Spec

\* The counts stay right and the limit is kept with the resolver, its cache and the
\* editor in the system.
THEOREM MembershipCounts == MembershipSpec => [](RefsMatch /\ LimitRespected)
BY MembershipImplementsHub, CountsCorrect, LimitCorrect, PTL

-----------------------------------------------------------------------------
(* What every subscription shows.  What a goroutine holds in its hands (the  *)
(* cache, a query, a resolved topic, the consumer's result) is what the      *)
(* editor's tables say, unless the topic is excused: an event about it is    *)
(* still to come, or a change of it was missed.                              *)

Excused(topic) == topic \in missed \/ Waiting(topic)

CacheFresh ==
    \A topic \in Topics : Excused(topic) \/ cache[topic] \in {Uncached, members[topic]}

QueriesFresh ==
    \A r \in Resolvers : LET topic == query[r].topic
                         IN  topic # NoTopic => Excused(topic) \/ query[r].tags = members[topic]

ReadersFresh ==
    \A c \in Connections : LET topic == reader[c].topic
                           IN  topic # NoTopic => Excused(topic) \/ reader[c].tags = members[topic]

ConsumerFresh ==
    LET topic == consumer.topic
    IN  topic # NoTopic /\ consumer.resolved /\ ~consumer.failed
          => Excused(topic) \/ consumer.tags = members[topic]

SubscriptionsFresh ==
    \A c \in Connections : \A topic \in topics[c] :
        \/ Excused(topic)
        \/ topic \in handling.topics
        \/ consumer.topic = topic /\ c \in consumer.left
        \/ grouped[c][topic] = members[topic]

\* The consumer reconciles only for an event whose topics are invalidated.
ConsumerOrder ==
    /\ handling.pc # "reconcile" => handling.topics = {} /\ consumer = IdleConsumer
    /\ handling.pc = "drop" => handling.event.deleted
    /\ query["consumer"] # NoQuery =>
         query["consumer"].topic = consumer.topic /\ ~consumer.resolved

FreshInv ==
    /\ CacheFresh /\ QueriesFresh /\ ReadersFresh
    /\ ConsumerFresh /\ SubscriptionsFresh /\ ConsumerOrder

LEMMA FreshInit == MembershipInit => FreshInv
<1> SUFFICES ASSUME MembershipInit PROVE FreshInv
  OBVIOUS
<1>1. /\ \A topic \in Topics : cache[topic] = Uncached
      /\ \A r \in Resolvers : query[r] = NoQuery
      /\ \A c \in Connections : reader[c] = IdleReader /\ topics[c] = {}
      /\ consumer = IdleConsumer
      /\ handling = NotHandling
  BY DEF MembershipInit, Init
<1>2. "consumer" \in Resolvers
  BY DEF Resolvers
<1>3. CacheFresh /\ QueriesFresh /\ ReadersFresh
  BY <1>1 DEF CacheFresh, QueriesFresh, ReadersFresh, NoQuery, IdleReader
<1>4. ConsumerFresh /\ SubscriptionsFresh
  BY <1>1 DEF ConsumerFresh, SubscriptionsFresh, IdleConsumer
<1>5. ConsumerOrder
  BY <1>1, <1>2 DEF ConsumerOrder, NotHandling
<1> QED BY <1>3, <1>4, <1>5 DEF FreshInv

-----------------------------------------------------------------------------
(* What is excused stays so, until the consumer invalidates. *)

LEMMA SameExcused ==
    ASSUME UNCHANGED <<members, events, missed>>,
           handling.pc \in {"drop", "invalidate"} <=> handling'.pc \in {"drop", "invalidate"},
           handling.pc \in {"drop", "invalidate"} => handling'.event = handling.event
    PROVE  \A topic : Excused(topic) <=> Excused(topic)'
BY DEF Excused, Waiting, Concerns, Having, MembersOf

LEMMA AnnounceExcuses ==
    ASSUME NEW event, Announce(event),
           \A topic \in Topics : members'[topic] # members[topic] => topic \in event.changed
    PROVE  \A topic \in Topics : /\ Excused(topic) => Excused(topic)'
                                 /\ members'[topic] # members[topic] => Excused(topic)'
<1> SUFFICES ASSUME NEW topic \in Topics
             PROVE  /\ Excused(topic) => Excused(topic)'
                    /\ members'[topic] # members[topic] => Excused(topic)'
  OBVIOUS
<1>1. /\ events \subseteq events' /\ missed \subseteq missed' /\ handling' = handling
      /\ event \in events' \/ event.changed \subseteq missed'
  BY DEF Announce
<1>2. topic \in event.changed => Excused(topic)'
  BY <1>1 DEF Excused, Waiting, Concerns
<1>3. CASE members'[topic] = members[topic]
  <2>1. \A e : topic \in Concerns(e) => topic \in Concerns(e)'
    BY <1>3 DEF Concerns, Having, MembersOf
  <2> QED BY <1>1, <1>3, <2>1 DEF Excused, Waiting
<1> QED BY <1>2, <1>3

\* An edit changes no topic its event does not say has changed.
LEMMA EditorExcuses ==
    ASSUME ResolverTyped, Editor
    PROVE  /\ \A topic \in Topics : /\ Excused(topic) => Excused(topic)'
                                    /\ members'[topic] # members[topic] => Excused(topic)'
           /\ UNCHANGED <<vars, cache, query, handling>>
<1>1. members \in [Topics -> (SUBSET Tags) \cup {Gone}]
  BY DEF ResolverTyped
<1>2. PICK event : /\ Announce(event)
                   /\ \A topic \in Topics : members'[topic] # members[topic]
                                              => topic \in event.changed
  <2>1. CASE \E diagram \in Topics \ Objects, tags \in SUBSET Tags : EditFigures(diagram, tags)
    BY <1>1, <2>1 DEF EditFigures, MemberEvent, TopicEvent
  <2>2. CASE \E object \in Objects, tags \in SUBSET Tags : AssignDevices(object, tags)
    BY <1>1, <2>2 DEF AssignDevices, MemberEvent, TopicEvent
  <2>3. CASE \E object \in Objects, tags \in SUBSET Tags : DeleteDevice(object, tags)
    BY <1>1, <2>3 DEF DeleteDevice, MemberEvent, TopicEvent
  <2>4. CASE \E t \in Tags, object \in Objects : CreateTag(t, object)
    BY <1>1, <2>4 DEF CreateTag, TagEvent
  <2>5. CASE \E t \in Tags : UpdateTag(t)
    BY <2>5 DEF UpdateTag
  <2>6. CASE \E t \in Tags : DeleteTag(t)
    <3>1. PICK t \in Tags : DeleteTag(t)
      BY <2>6
    <3>2. TagEvent(t, TRUE, Having(t)).changed = Having(t)
      BY DEF TagEvent
    <3> QED BY <3>1, <3>2 DEF DeleteTag
  <2>7. CASE \E topic \in Topics : DeleteDiagram(topic)
    BY <1>1, <2>7 DEF DeleteDiagram, TopicEvent
  <2>8. CASE \E object \in Objects, diagrams \in SUBSET (Topics \ Objects) :
               DeleteObject(object, diagrams)
    <3>1. PICK object \in Objects, diagrams \in SUBSET (Topics \ Objects) :
             DeleteObject(object, diagrams)
      BY <2>8
    <3> DEFINE topicsGone == {object} \cup {d \in diagrams : members[d] # Gone}
    <3>2. TopicEvent(object, topicsGone).changed = topicsGone
      BY DEF TopicEvent
    <3>3. /\ Announce(TopicEvent(object, topicsGone))
          /\ members' = [topic \in Topics |->
                           IF topic \in topicsGone THEN Gone ELSE members[topic]]
      BY <3>1 DEF DeleteObject
    <3> QED BY <3>2, <3>3
  <2> QED BY <2>1, <2>2, <2>3, <2>4, <2>5, <2>6, <2>7, <2>8 DEF Editor
<1>3. UNCHANGED <<vars, cache, query, handling>>
  BY <1>2 DEF Announce, hub, resolver
<1> QED BY <1>2, <1>3, AnnounceExcuses

LEMMA EditorFresh ==
    ASSUME ResolverTyped, TypeOK, FreshInv, Editor PROVE FreshInv'
<1>1. /\ \A topic \in Topics : /\ Excused(topic) => Excused(topic)'
                               /\ members'[topic] # members[topic] => Excused(topic)'
      /\ UNCHANGED <<cache, query, handling, reader, consumer, topics, grouped>>
  BY EditorExcuses DEF vars, subscriptions
<1>2. CacheFresh'
  BY <1>1 DEF FreshInv, CacheFresh
<1>3. QueriesFresh'
  <2>1. \A r \in Resolvers : query[r].topic # NoTopic => query[r].topic \in Topics
    BY DEF ResolverTyped, NoQuery
  <2> QED BY <1>1, <2>1 DEF FreshInv, QueriesFresh
<1>4. ReadersFresh'
  <2>1. \A c \in Connections : reader[c].topic # NoTopic => reader[c].topic \in Topics
    BY DEF TypeOK, Reader
  <2> QED BY <1>1, <2>1 DEF FreshInv, ReadersFresh
<1>5. ConsumerFresh'
  <2>1. consumer.topic # NoTopic => consumer.topic \in Topics
    BY DEF TypeOK, Consumer
  <2> QED BY <1>1, <2>1 DEF FreshInv, ConsumerFresh
<1>6. SubscriptionsFresh'
  <2>1. \A c \in Connections : topics[c] \subseteq Topics
    BY DEF TypeOK
  <2> QED BY <1>1, <2>1 DEF FreshInv, SubscriptionsFresh
<1>7. ConsumerOrder'
  BY <1>1 DEF FreshInv, ConsumerOrder
<1> QED BY <1>2, <1>3, <1>4, <1>5, <1>6, <1>7 DEF FreshInv

-----------------------------------------------------------------------------
(* The read loops. *)

LEMMA StartQueryFresh ==
    ASSUME ResolverTyped, CacheFresh, QueriesFresh,
           NEW r \in Resolvers, NEW topic \in Topics, StartQuery(r, topic)
    PROVE  CacheFresh' /\ QueriesFresh'
<1>1. \A g : Excused(g) <=> Excused(g)'
  BY SameExcused DEF StartQuery, database
<1>2. /\ cache' = [cache EXCEPT ![topic] = Uncached]
      /\ query' = [query EXCEPT ![r] = [topic |-> topic, tags |-> members[topic]]]
      /\ members' = members
  BY DEF StartQuery, database
<1>3. CacheFresh'
  BY <1>1, <1>2 DEF CacheFresh, ResolverTyped
<1>4. QueriesFresh'
  BY <1>1, <1>2 DEF QueriesFresh, ResolverTyped
<1> QED BY <1>3, <1>4

LEMMA EndQueryFresh ==
    ASSUME ResolverTyped, CacheFresh, QueriesFresh, NEW r \in Resolvers, EndQuery(r)
    PROVE  /\ CacheFresh' /\ QueriesFresh'
           /\ Excused(query[r].topic) \/ query[r].tags = members[query[r].topic]
<1>1. \A g : Excused(g) <=> Excused(g)'
  BY SameExcused DEF EndQuery, database
<1>2. /\ cache' = [cache EXCEPT ![query[r].topic] = query[r].tags]
      /\ query' = [query EXCEPT ![r] = NoQuery]
      /\ members' = members
  BY DEF EndQuery, database
<1>3. query[r].topic \in Topics /\ query[r].topic # NoTopic
  BY EndQueryTyped, NamesAssumption
<1>4. Excused(query[r].topic) \/ query[r].tags = members[query[r].topic]
  BY <1>3 DEF QueriesFresh
<1>5. CacheFresh'
  BY <1>1, <1>2, <1>4 DEF CacheFresh, ResolverTyped
<1>6. QueriesFresh'
  BY <1>1, <1>2 DEF QueriesFresh, ResolverTyped, NoQuery
<1> QED BY <1>4, <1>5, <1>6

LEMMA CacheClearedFresh ==
    ASSUME ResolverTyped, CacheFresh, QueriesFresh,
           NEW topic, cache' = [cache EXCEPT ![topic] = Uncached],
           UNCHANGED <<database, events, query, handling, missed>>
    PROVE  CacheFresh' /\ QueriesFresh'
<1>1. (\A g : Excused(g) <=> Excused(g)') /\ members' = members
  BY SameExcused DEF database
<1>2. CacheFresh'
  BY <1>1 DEF CacheFresh, ResolverTyped
<1>3. QueriesFresh'
  BY <1>1 DEF QueriesFresh
<1> QED BY <1>2, <1>3

\* A read loop that gives topics up, or takes one with the tags it has now.
LEMMA ReaderFresh ==
    ASSUME FreshInv, UNCHANGED <<database, events, handling, missed, consumer>>,
           query'["consumer"] = query["consumer"],
           CacheFresh', QueriesFresh',
           \A c \in Connections :
              \/ reader'[c] = reader[c]
              \/ reader'[c].topic = NoTopic
              \/ Excused(reader'[c].topic)
              \/ reader'[c].tags = members[reader'[c].topic],
           \A c \in Connections : \A topic \in topics'[c] :
              \/ topic \in topics[c] /\ grouped'[c][topic] = grouped[c][topic]
              \/ Excused(topic)
              \/ grouped'[c][topic] = members[topic]
    PROVE  FreshInv'
<1>1. (\A g : Excused(g) <=> Excused(g)') /\ members' = members
  BY SameExcused DEF database
<1>2. ReadersFresh'
  BY <1>1 DEF FreshInv, ReadersFresh
<1>3. ConsumerFresh'
  BY <1>1 DEF FreshInv, ConsumerFresh
<1>4. SubscriptionsFresh'
  BY <1>1 DEF FreshInv, SubscriptionsFresh
<1>5. ConsumerOrder'
  BY DEF FreshInv, ConsumerOrder
<1> QED BY <1>2, <1>3, <1>4, <1>5 DEF FreshInv

LEMMA ResolvedFresh ==
    ASSUME TypeOK, FreshInv, UNCHANGED <<database, events, handling, missed>>,
           query'["consumer"] = query["consumer"],
           CacheFresh', QueriesFresh',
           NEW c \in Connections, NEW topic, NEW tags, ResolveTopic(c, topic, tags),
           Excused(topic) \/ tags = members[topic]
    PROVE  FreshInv'
<1>1. \A d \in Connections :
        \/ reader'[d] = reader[d]
        \/ reader'[d].topic = topic /\ reader'[d].tags = tags
  BY DEF ResolveTopic, TypeOK, Reader
<1>2. UNCHANGED <<consumer, topics, grouped>>
  BY DEF ResolveTopic, subscriptions
<1> QED BY <1>1, <1>2, ReaderFresh

LEMMA ReadsFresh ==
    ASSUME ResolverTyped, TypeOK, FreshInv, NEW c \in Connections, Reads(c)
    PROVE  FreshInv'
<1>0. /\ c \in Resolvers /\ c # "consumer" /\ "consumer" \in Resolvers
      /\ query \in [Resolvers -> {NoQuery} \cup [topic : Topics, tags : SUBSET Tags]]
      /\ CacheFresh /\ QueriesFresh /\ ReadersFresh
  BY NothingAssumption DEF Resolvers, ResolverTyped, FreshInv
<1>1. ASSUME UNCHANGED <<members, events, cache, query, handling, missed>>
      PROVE  CacheFresh' /\ QueriesFresh'
  <2>1. \A g : Excused(g) <=> Excused(g)'
    BY <1>1, SameExcused
  <2> QED BY <1>0, <1>1, <2>1 DEF CacheFresh, QueriesFresh
<1>2. ASSUME NEW topic \in Topics, ResolveCached(c, topic) PROVE FreshInv'
  <2>1. /\ Excused(topic) \/ cache[topic] = members[topic]
        /\ ResolveTopic(c, topic, cache[topic])
        /\ UNCHANGED <<database, events, cache, query, handling, missed>>
    BY <1>0, <1>2 DEF ResolveCached, CacheFresh, resolver
  <2>2. CacheFresh' /\ QueriesFresh'
    BY <1>1, <2>1 DEF database
  <2> QED BY <2>1, <2>2, ResolvedFresh
<1>3. ASSUME NEW topic \in Topics, QueryMembers(c, topic) PROVE FreshInv'
  <2>1. StartQuery(c, topic)
    BY <1>3 DEF QueryMembers
  <2>2. CacheFresh' /\ QueriesFresh'
    BY <1>0, <2>1, StartQueryFresh
  <2>3. /\ query'["consumer"] = query["consumer"]
        /\ UNCHANGED <<database, events, handling, missed, consumer, reader, topics, grouped>>
    BY <1>0, <2>1 DEF StartQuery, hub, vars, subscriptions
  <2> QED BY <2>2, <2>3, ReaderFresh
<1>4. ASSUME NEW topic \in Topics, QueryFails(c, topic) PROVE FreshInv'
  <2>1. CacheFresh' /\ QueriesFresh'
    BY <1>0, <1>4, CacheClearedFresh DEF QueryFails
  <2>2. UNCHANGED <<database, events, query, handling, missed, consumer, topics, grouped>>
    BY <1>4 DEF QueryFails, SkipTopic, subscriptions
  <2>3. \A d \in Connections : reader'[d] = reader[d] \/ reader'[d].topic = NoTopic
    BY <1>4 DEF QueryFails, SkipTopic, After, IdleReader, TypeOK
  <2> QED BY <2>1, <2>2, <2>3, ReaderFresh
<1>5. ASSUME StoreMembers(c) PROVE FreshInv'
  <2>1. EndQuery(c) /\ ResolveTopic(c, query[c].topic, query[c].tags)
    BY <1>5 DEF StoreMembers
  <2>2. /\ CacheFresh' /\ QueriesFresh'
        /\ Excused(query[c].topic) \/ query[c].tags = members[query[c].topic]
    BY <1>0, <2>1, EndQueryFresh
  <2>3. /\ query'["consumer"] = query["consumer"]
        /\ UNCHANGED <<database, events, handling, missed>>
    BY <1>0, <2>1 DEF EndQuery
  <2> QED BY <2>1, <2>2, <2>3, ResolvedFresh
<1>6. ASSUME UNCHANGED <<database, events, resolver, handling, missed, consumer>>,
             \A d \in Connections : reader'[d] = reader[d] \/ reader'[d].topic = NoTopic,
             \A d \in Connections : \A topic \in topics'[d] :
                \/ topic \in topics[d] /\ grouped'[d][topic] = grouped[d][topic]
                \/ Excused(topic)
                \/ grouped'[d][topic] = members[topic]
      PROVE  FreshInv'
  <2>1. CacheFresh' /\ QueriesFresh'
    BY <1>1, <1>6 DEF database, resolver
  <2>2. UNCHANGED query
    BY <1>6 DEF resolver
  <2> QED BY <1>6, <2>1, <2>2, ReaderFresh
<1>7. ASSUME OtherWork(c) PROVE FreshInv'
  <2>0. UNCHANGED <<database, events, resolver, handling, missed>>
    BY <1>7 DEF OtherWork
  <2>1. ASSUME NEW op, NEW names, ReadFrame(c, op, names) PROVE FreshInv'
    <3>1. /\ UNCHANGED <<consumer, topics, grouped>>
          /\ \A d \in Connections : reader'[d] = reader[d] \/ reader'[d].topic = NoTopic
      BY <2>1 DEF ReadFrame, subscriptions, IdleReader, TypeOK
    <3> QED BY <1>6, <2>0, <3>1
  <2>2. ASSUME NEW t \in Tags, SubscribeDirectTag(c, t) \/ UnsubscribeDirectTag(c, t)
        PROVE  FreshInv'
    <3>1. /\ UNCHANGED <<consumer, topics, grouped>>
          /\ reader' = [reader EXCEPT ![c] = After(@, t)]
      BY <2>2 DEF SubscribeDirectTag, UnsubscribeDirectTag
    <3>2. \A d \in Connections : reader'[d] = reader[d] \/ reader'[d].topic = NoTopic
      BY <3>1 DEF After, IdleReader, TypeOK
    <3> QED BY <1>6, <2>0, <3>1, <3>2
  <2>3. ASSUME NEW topic \in Topics, UnsubscribeGroupTopic(c, topic) PROVE FreshInv'
    <3>1. /\ UNCHANGED consumer
          /\ \A d \in Connections : reader'[d] = reader[d] \/ reader'[d].topic = NoTopic
      BY <2>3 DEF UnsubscribeGroupTopic, After, IdleReader, TypeOK
    <3>2. \A d \in Connections : \A g \in topics'[d] :
            g \in topics[d] /\ grouped'[d][g] = grouped[d][g]
      <4> SUFFICES ASSUME NEW d \in Connections, NEW g \in topics'[d]
                   PROVE  g \in topics[d] /\ grouped'[d][g] = grouped[d][g]
        OBVIOUS
      <4>1. /\ topics' = [topics EXCEPT ![c] = @ \ {topic}]
            /\ grouped' = [grouped EXCEPT ![c][topic] = {}]
        BY <2>3 DEF UnsubscribeGroupTopic
      <4>2. CASE d = c
        <5>1. g \in topics[c] /\ g # topic
          BY <4>1, <4>2 DEF TypeOK
        <5> QED BY <4>1, <4>2, <5>1 DEF TypeOK
      <4>3. CASE d # c
        BY <4>1, <4>3 DEF TypeOK
      <4> QED BY <4>2, <4>3
    <3> QED BY <1>6, <2>0, <3>1, <3>2
  <2>4. ASSUME NEW topic \in Topics, SkipTopic(c, topic) PROVE FreshInv'
    <3>1. /\ UNCHANGED <<consumer, topics, grouped>>
          /\ \A d \in Connections : reader'[d] = reader[d] \/ reader'[d].topic = NoTopic
      BY <2>4 DEF SkipTopic, subscriptions, After, IdleReader, TypeOK
    <3> QED BY <1>6, <2>0, <3>1
  <2>5. ASSUME SubscribeGroupTopic(c) PROVE FreshInv'
    <3> DEFINE topic == reader[c].topic
               tags  == reader[c].tags
               new   == topic \notin topics[c] /\ ~Exceeds(c, tags)
    <3>1. /\ topic # NoTopic
          /\ topics' = IF new THEN [topics EXCEPT ![c] = @ \cup {topic}] ELSE topics
          /\ grouped' = IF new THEN [grouped EXCEPT ![c][topic] = tags] ELSE grouped
          /\ reader' = [reader EXCEPT ![c] = After(@, topic)]
          /\ UNCHANGED consumer
      BY <2>5 DEF SubscribeGroupTopic
    <3>2. topic \in Topics /\ (Excused(topic) \/ tags = members[topic])
      BY <1>0, <3>1 DEF ReadersFresh, TypeOK, Reader
    <3>3. \A d \in Connections : reader'[d] = reader[d] \/ reader'[d].topic = NoTopic
      BY <3>1 DEF After, IdleReader, TypeOK
    <3>4. ASSUME NEW d \in Connections, NEW g \in topics'[d]
          PROVE  \/ g \in topics[d] /\ grouped'[d][g] = grouped[d][g]
                 \/ Excused(g)
                 \/ grouped'[d][g] = members[g]
      <4> HIDE DEF topic, tags
      <4>1. CASE ~new
        BY <3>1, <4>1
      <4>2. CASE new /\ d # c
        BY <3>1, <4>2 DEF TypeOK
      <4>3. CASE new /\ d = c /\ g # topic
        BY <3>1, <3>2, <4>3 DEF TypeOK
      <4>4. CASE new /\ d = c /\ g = topic
        BY <3>1, <3>2, <4>4 DEF TypeOK
      <4> QED BY <4>1, <4>2, <4>3, <4>4
    <3> HIDE DEF topic, tags, new
    <3> QED BY <1>6, <2>0, <3>1, <3>3, <3>4
  <2> QED BY <1>7, <2>1, <2>2, <2>3, <2>4, <2>5 DEF OtherWork
<1>8. ASSUME Close(c), UNCHANGED <<database, events, resolver, handling, missed>> PROVE FreshInv'
  <2>1. /\ UNCHANGED <<consumer, reader>>
        /\ topics' = [topics EXCEPT ![c] = {}]
        /\ grouped' = [grouped EXCEPT ![c] = [topic \in Topics |-> {}]]
    BY <1>8 DEF Close
  <2>2. \A d \in Connections : \A g \in topics'[d] :
          g \in topics[d] /\ grouped'[d][g] = grouped[d][g]
    BY <2>1 DEF TypeOK
  <2> QED BY <1>6, <1>8, <2>1, <2>2
<1> QED BY <1>2, <1>3, <1>4, <1>5, <1>7, <1>8 DEF Reads

-----------------------------------------------------------------------------
(* The consumer. *)

LEMMA HandlesFresh ==
    ASSUME ResolverTyped, TypeOK, FreshInv, Handles
    PROVE  FreshInv'
<1>0. /\ "consumer" \in Resolvers
      /\ consumer \in Consumer
      /\ query \in [Resolvers -> {NoQuery} \cup [topic : Topics, tags : SUBSET Tags]]
      /\ CacheFresh /\ QueriesFresh /\ ReadersFresh
      /\ ConsumerFresh /\ SubscriptionsFresh /\ ConsumerOrder
  BY DEF Resolvers, TypeOK, ResolverTyped, FreshInv
<1>1. ASSUME (\A g : Excused(g) <=> Excused(g)'), UNCHANGED <<members, cache, query, reader>>
      PROVE  CacheFresh' /\ QueriesFresh' /\ ReadersFresh'
  BY <1>0, <1>1 DEF CacheFresh, QueriesFresh, ReadersFresh
<1>2. ASSUME NEW event \in events, TakeEvent(event) PROVE FreshInv'
  <2>1. /\ handling = NotHandling /\ handling.pc = "idle" /\ handling.topics = {}
        /\ events' = events \ {event}
        /\ handling'.event = event /\ handling'.topics = {}
        /\ handling'.pc = IF event.deleted THEN "drop" ELSE "invalidate"
        /\ UNCHANGED <<members, cache, query, missed, reader, consumer, topics, grouped>>
    BY <1>2 DEF TakeEvent, NotHandling, database, resolver, hub, vars, subscriptions
  <2>2. \A g : Excused(g) <=> Excused(g)'
    <3>1. \A e, g : g \in Concerns(e) <=> g \in Concerns(e)'
      BY <2>1 DEF Concerns, Having, MembersOf
    <3> QED BY <2>1, <3>1 DEF Excused, Waiting
  <2>3. ConsumerFresh' /\ SubscriptionsFresh' /\ ConsumerOrder'
    BY <1>0, <2>1, <2>2 DEF ConsumerFresh, SubscriptionsFresh, ConsumerOrder
  <2> QED BY <1>1, <2>1, <2>2, <2>3 DEF FreshInv
<1>3. ASSUME DropTag PROVE FreshInv'
  <2> DEFINE t == handling.event.tag
  <2>1. /\ handling.pc = "drop" /\ handling.event.deleted /\ t \in Tags
        /\ handling.topics = {} /\ consumer = IdleConsumer
        /\ handling'.event = handling.event /\ handling'.topics = {}
        /\ handling'.pc = "invalidate"
        /\ UNCHANGED <<members, events, cache, query, missed, reader, consumer>>
    <3>1. handling = [event |-> handling.event, pc |-> handling.pc, topics |-> handling.topics]
      BY DEF ResolverTyped
    <3> QED BY <1>0, <1>3, <3>1 DEF DropTag, ConsumerOrder, ResolverTyped, database, resolver,
                                    UnsubscribeTagFromAll, hub, vars
  <2>2. \A g : Excused(g) <=> Excused(g)'
    BY <2>1, SameExcused
  <2>3. ASSUME NEW c \in Connections, NEW g \in topics'[c], ~Excused(g)
        PROVE  grouped'[c][g] = members[g]
    <3>1. g \in topics[c] /\ grouped'[c][g] \in {grouped[c][g], grouped[c][g] \ {t}}
      <4>1. CASE UnsubscribeTagFromAll(t)
        <5>1. g \in topics[c]
          BY <4>1 DEF UnsubscribeTagFromAll, TypeOK
        <5>2. g \in Topics
          BY <5>1 DEF TypeOK
        <5> QED BY <4>1, <5>1, <5>2 DEF UnsubscribeTagFromAll, TypeOK
      <4>2. CASE UNCHANGED hub
        BY <4>2 DEF hub, vars, subscriptions
      <4> QED BY <1>3, <4>1, <4>2 DEF DropTag
    <3>2. g \in Topics /\ grouped[c][g] \in SUBSET Tags
      BY <3>1 DEF TypeOK
    <3>3. grouped[c][g] = members[g]
      BY <1>0, <2>1, <2>3, <3>1, <3>2, NamesAssumption DEF SubscriptionsFresh, IdleConsumer
    <3>4. members[g] # Gone
      BY <3>2, <3>3, NothingAssumption
    <3>5. t \notin members[g]
      <4>1. g \notin Concerns(handling.event)
        BY <2>1, <2>3 DEF Excused, Waiting
      <4> QED BY <2>1, <3>2, <3>4, <4>1 DEF Concerns, Having, MembersOf
    <3> QED BY <3>1, <3>3, <3>5
  <2>4. ConsumerFresh'
    BY <2>1 DEF ConsumerFresh, IdleConsumer
  <2>5. SubscriptionsFresh'
    BY <2>1, <2>2, <2>3 DEF SubscriptionsFresh
  <2>6. ConsumerOrder'
    BY <1>0, <2>1 DEF ConsumerOrder
  <2> QED BY <1>1, <2>1, <2>2, <2>4, <2>5, <2>6 DEF FreshInv
<1>4. ASSUME Invalidate PROVE FreshInv'
  <2> DEFINE event   == handling.event
             current == Evident(event) \ Resolving
  <2>1. /\ handling.pc = "invalidate" /\ handling.topics = {} /\ consumer = IdleConsumer
        /\ cache' = Forget(Affected(event))
        /\ missed' = (missed \cup Concerns(event)) \ current
        /\ UNCHANGED <<members, events, query, reader, consumer, topics, grouped>>
    BY <1>0, <1>4 DEF Invalidate, ConsumerOrder, database, hub, vars, subscriptions
  <2>2. /\ handling'.pc \in {"idle", "reconcile"}
        /\ Affected(event) \subseteq handling'.topics
        /\ handling'.pc = "idle" => handling'.topics = {}
    <3>1. CASE Affected(event) = {}
      BY <1>4, <3>1 DEF Invalidate, NotHandling
    <3>2. CASE Affected(event) # {}
      <4>1. handling' = [handling EXCEPT !.pc = "reconcile", !.topics = Affected(event)]
        BY <1>4, <3>2 DEF Invalidate
      <4>2. handling = [event |-> event, pc |-> handling.pc, topics |-> handling.topics]
        BY DEF ResolverTyped
      <4>3. handling'.pc = "reconcile" /\ handling'.topics = Affected(event)
        BY <4>1, <4>2
      <4> QED BY <4>3
    <3> QED BY <3>1, <3>2
  <2>3. current \subseteq Affected(event)
    BY DEF Evident, Affected
  <2>4. \A g : g \notin current => (Excused(g) => Excused(g)')
    <3>1. \A e, g : g \in Concerns(e) <=> g \in Concerns(e)'
      BY <2>1 DEF Concerns, Having, MembersOf
    <3> QED BY <2>1, <3>1 DEF Excused, Waiting
  <2>5. /\ \A c \in Connections : query[c].topic \notin current /\ reader[c].topic \notin current
        /\ query["consumer"] = NoQuery
    <3>1. query["consumer"] # NoQuery => query["consumer"].topic \in Topics
      BY <1>0
    <3> QED BY <1>0, <2>1, <3>1, NamesAssumption DEF Resolving, ConsumerOrder, IdleConsumer
  <2> HIDE DEF current
  <2>6. CacheFresh'
    BY <1>0, <2>1, <2>3, <2>4 DEF CacheFresh, Forget
  <2>7. QueriesFresh'
    BY <1>0, <2>1, <2>4, <2>5 DEF QueriesFresh, Resolvers, NoQuery
  <2>8. ReadersFresh'
    BY <1>0, <2>1, <2>4, <2>5 DEF ReadersFresh
  <2>9. ConsumerFresh'
    BY <2>1 DEF ConsumerFresh, IdleConsumer
  <2>10. SubscriptionsFresh'
    BY <1>0, <2>1, <2>2, <2>3, <2>4 DEF SubscriptionsFresh
  <2>11. ConsumerOrder'
    BY <1>0, <2>1, <2>2 DEF ConsumerOrder
  <2> QED BY <2>6, <2>7, <2>8, <2>9, <2>10, <2>11 DEF FreshInv
<1>5. ASSUME NEW topic \in Topics, NextTopic(topic) PROVE FreshInv'
  <2>1. /\ topic \in handling.topics /\ consumer = IdleConsumer
        /\ handling'.event = handling.event /\ handling'.pc = handling.pc
        /\ handling'.topics = handling.topics \ {topic}
        /\ UNCHANGED <<members, events, cache, query, missed, reader, topics, grouped>>
        /\ \/ consumer' = [IdleConsumer EXCEPT !.topic = topic, !.left = Subscribers(topic)]
           \/ Subscribers(topic) = {} /\ consumer' = consumer
    <3>1. handling = [event |-> handling.event, pc |-> handling.pc, topics |-> handling.topics]
      BY DEF ResolverTyped
    <3> QED BY <1>5, <3>1 DEF NextTopic, StartReconcile, database, resolver, hub, vars,
                              subscriptions
  <2>2. \A g : Excused(g) <=> Excused(g)'
    BY <2>1, SameExcused
  <2>3. query["consumer"] = NoQuery
    <3>1. query["consumer"] # NoQuery => query["consumer"].topic \in Topics
      BY <1>0
    <3> QED BY <1>0, <2>1, <3>1, NamesAssumption DEF ConsumerOrder, IdleConsumer
  <2>4. ConsumerFresh'
    <3>1. consumer'.resolved = FALSE
      <4>1. CASE consumer' = [IdleConsumer EXCEPT !.topic = topic, !.left = Subscribers(topic)]
        BY <4>1 DEF IdleConsumer
      <4>2. CASE consumer' = consumer
        BY <2>1, <4>2 DEF IdleConsumer
      <4> QED BY <2>1, <4>1, <4>2
    <3> QED BY <3>1 DEF ConsumerFresh
  <2>5. SubscriptionsFresh'
    <3> SUFFICES ASSUME NEW c \in Connections, NEW g \in topics[c], ~Excused(g),
                        g \notin handling.topics \ {topic}
                 PROVE  \/ consumer'.topic = g /\ c \in consumer'.left
                        \/ grouped[c][g] = members[g]
      BY <2>1, <2>2 DEF SubscriptionsFresh
    <3>1. CASE g = topic
      <4>1. c \in Subscribers(topic)
        BY <3>1 DEF Subscribers
      <4> QED BY <2>1, <3>1, <4>1 DEF IdleConsumer
    <3>2. CASE g # topic
      BY <1>0, <2>1, <3>2 DEF SubscriptionsFresh, IdleConsumer
    <3> QED BY <3>1, <3>2
  <2>6. ConsumerOrder'
    BY <1>0, <2>1, <2>3 DEF ConsumerOrder
  <2> QED BY <1>1, <2>1, <2>2, <2>4, <2>5, <2>6 DEF FreshInv
\* The consumer's result for its topic, from the cache, from a query, or an error.
<1>6. ASSUME NEW failed \in BOOLEAN, NEW tags, ResolveReconciled(failed, tags),
             UNCHANGED <<database, events, handling, missed>>, query'["consumer"] = NoQuery,
             CacheFresh', QueriesFresh',
             failed \/ Excused(consumer.topic) \/ tags = members[consumer.topic]
      PROVE  FreshInv'
  <2>1. /\ consumer.topic # NoTopic
        /\ consumer'.topic = consumer.topic /\ consumer'.left = consumer.left
        /\ consumer'.failed = failed /\ consumer'.tags = tags
        /\ UNCHANGED <<members, reader, topics, grouped>>
    BY <1>0, <1>6 DEF ResolveReconciled, Consumer, database, subscriptions
  <2>2. \A g : Excused(g) <=> Excused(g)'
    BY <1>6, SameExcused DEF database
  <2>3. ReadersFresh'
    BY <1>0, <2>1, <2>2 DEF ReadersFresh
  <2>4. ConsumerFresh'
    BY <1>6, <2>1, <2>2 DEF ConsumerFresh
  <2>5. SubscriptionsFresh'
    BY <1>0, <1>6, <2>1, <2>2 DEF SubscriptionsFresh
  <2>6. ConsumerOrder'
    BY <1>0, <1>6, <2>1 DEF ConsumerOrder, IdleConsumer
  <2> QED BY <1>6, <2>3, <2>4, <2>5, <2>6 DEF FreshInv
<1>7. ASSUME ReconcileCached PROVE FreshInv'
  <2>1. /\ ResolveReconciled(FALSE, cache[consumer.topic])
        /\ UNCHANGED <<database, events, cache, query, handling, missed>>
        /\ query["consumer"] = NoQuery
        /\ consumer.topic \in Topics /\ cache[consumer.topic] # Uncached
    BY <1>0, <1>7 DEF ReconcileCached, resolver, Consumer
  <2>2. Excused(consumer.topic) \/ cache[consumer.topic] = members[consumer.topic]
    BY <1>0, <2>1 DEF CacheFresh
  <2>3. CacheFresh' /\ QueriesFresh'
    <3>1. \A g : Excused(g) <=> Excused(g)'
      BY <2>1, SameExcused DEF database
    <3> QED BY <1>0, <2>1, <3>1 DEF CacheFresh, QueriesFresh, database
  <2> QED BY <1>6, <2>1, <2>2, <2>3
<1>8. ASSUME ReconcileQuery PROVE FreshInv'
  <2>1. /\ StartQuery("consumer", consumer.topic)
        /\ consumer.topic \in Topics /\ ~consumer.resolved
        /\ UNCHANGED <<members, events, handling, missed, consumer, reader, topics, grouped>>
        /\ query'["consumer"].topic = consumer.topic
    BY <1>0, <1>8 DEF ReconcileQuery, StartQuery, Consumer, database, hub, vars, subscriptions
  <2>2. CacheFresh' /\ QueriesFresh'
    BY <1>0, <2>1, StartQueryFresh
  <2>3. \A g : Excused(g) <=> Excused(g)'
    BY <2>1, SameExcused
  <2>4. ReadersFresh' /\ ConsumerFresh' /\ SubscriptionsFresh'
    BY <1>0, <2>1, <2>3 DEF ReadersFresh, ConsumerFresh, SubscriptionsFresh
  <2>5. ConsumerOrder'
    BY <1>0, <2>1 DEF ConsumerOrder
  <2> QED BY <2>2, <2>4, <2>5 DEF FreshInv
<1>9. ASSUME ReconcileStore PROVE FreshInv'
  <2>1. /\ EndQuery("consumer")
        /\ ResolveReconciled(FALSE, query["consumer"].tags)
        /\ query["consumer"].topic = consumer.topic
        /\ query'["consumer"] = NoQuery
        /\ UNCHANGED <<database, events, handling, missed>>
    BY <1>0, <1>9 DEF ReconcileStore, EndQuery, ConsumerOrder
  <2>2. /\ CacheFresh' /\ QueriesFresh'
        /\ Excused(consumer.topic) \/ query["consumer"].tags = members[consumer.topic]
    BY <1>0, <2>1, EndQueryFresh
  <2> QED BY <1>6, <2>1, <2>2
<1>10. ASSUME ReconcileError PROVE FreshInv'
  <2>1. /\ ResolveReconciled(TRUE, {})
        /\ query["consumer"] = NoQuery
        /\ cache' = [cache EXCEPT ![consumer.topic] = Uncached]
        /\ UNCHANGED <<database, events, query, handling, missed>>
    BY <1>10 DEF ReconcileError
  <2>2. CacheFresh' /\ QueriesFresh'
    BY <1>0, <2>1, CacheClearedFresh
  <2> QED BY <1>6, <2>1, <2>2
<1>11. ASSUME NEW c \in Connections, ReconcileConnection(c) PROVE FreshInv'
  <2> DEFINE topic == consumer.topic
  <2>1. /\ UNCHANGED <<members, events, cache, query, handling, missed, reader>>
        /\ consumer.resolved /\ c \in consumer.left /\ NextConnection(c)
    BY <1>11 DEF ReconcileConnection, ReconcileGone, ReconcileFailed, Reconcile, Turn,
                 database, resolver
  <2>2. topic # NoTopic => topic \in Topics
    BY <1>0 DEF Consumer
  <2>3. \A g : Excused(g) <=> Excused(g)'
    BY <2>1, SameExcused
  <2>4. \/ consumer' = IdleConsumer /\ consumer.left = {c}
        \/ /\ consumer'.topic = topic /\ consumer'.left = consumer.left \ {c}
           /\ consumer'.resolved = consumer.resolved
           /\ consumer'.failed = consumer.failed /\ consumer'.tags = consumer.tags
    BY <1>0, <2>1 DEF NextConnection, Consumer
  <2>5. ConsumerFresh'
    BY <1>0, <2>1, <2>3, <2>4 DEF ConsumerFresh, IdleConsumer
  <2>6. ASSUME NEW d \in Connections, NEW g \in topics'[d]
        PROVE  \/ g \in topics[d] /\ grouped'[d][g] = grouped[d][g]
                  /\ ~(d = c /\ g = topic)
               \/ g = topic /\ topic # NoTopic /\ grouped'[d][g] = consumer.tags /\ ~consumer.failed
    <3>1. CASE ReconcileGone(c)
      BY <3>1 DEF ReconcileGone, StillSubscribed, subscriptions
    <3>2. CASE ReconcileFailed(c)
      BY <3>2 DEF ReconcileFailed, TypeOK
    <3>3. CASE \E kept \in SUBSET Tags : Reconcile(c, kept)
      <4>1. /\ topic \in topics[c] /\ ~consumer.failed
            /\ grouped' = [grouped EXCEPT ![c][topic] = consumer.tags]
            /\ topics' = topics
        BY <3>3 DEF Reconcile, StillSubscribed
      <4>2. topic \in Topics /\ topic # NoTopic
        BY <4>1, NamesAssumption DEF TypeOK
      <4> QED BY <4>1, <4>2 DEF TypeOK
    <3> QED BY <1>11, <3>1, <3>2, <3>3 DEF ReconcileConnection
  <2>7. SubscriptionsFresh'
    <3> SUFFICES ASSUME NEW d \in Connections, NEW g \in topics'[d], ~Excused(g),
                        g \notin handling.topics,
                        ~(consumer'.topic = g /\ d \in consumer'.left)
                 PROVE  grouped'[d][g] = members[g]
      BY <2>1, <2>3 DEF SubscriptionsFresh
    <3>1. CASE g = topic /\ topic # NoTopic /\ grouped'[d][g] = consumer.tags /\ ~consumer.failed
      BY <1>0, <2>1, <3>1 DEF ConsumerFresh
    <3>2. CASE g \in topics[d] /\ grouped'[d][g] = grouped[d][g] /\ ~(d = c /\ g = topic)
      <4>1. ~(topic = g /\ d \in consumer.left)
        BY <2>4, <3>2
      <4> QED BY <1>0, <3>2, <4>1 DEF SubscriptionsFresh
    <3> QED BY <2>6, <3>1, <3>2
  <2>8. ConsumerOrder'
    <3>1. handling.pc = "reconcile"
      BY <1>0, <2>1 DEF ConsumerOrder, IdleConsumer
    <3>2. query["consumer"] = NoQuery
      BY <1>0, <2>1 DEF ConsumerOrder
    <3> QED BY <2>1, <3>1, <3>2 DEF ConsumerOrder
  <2> QED BY <1>1, <2>1, <2>3, <2>5, <2>7, <2>8 DEF FreshInv
<1>12. ASSUME EventDone PROVE FreshInv'
  <2>1. /\ handling.pc = "reconcile" /\ handling.topics = {} /\ consumer = IdleConsumer
        /\ handling'.pc = "idle" /\ handling'.topics = {}
        /\ UNCHANGED <<members, events, cache, query, missed, reader, consumer, topics, grouped>>
    BY <1>12 DEF EventDone, NotHandling, database, resolver, hub, vars, subscriptions
  <2>2. \A g : Excused(g) <=> Excused(g)'
    BY <2>1, SameExcused
  <2>3. ConsumerFresh' /\ SubscriptionsFresh' /\ ConsumerOrder'
    BY <1>0, <2>1, <2>2 DEF ConsumerFresh, SubscriptionsFresh, ConsumerOrder
  <2> QED BY <1>1, <2>1, <2>2, <2>3 DEF FreshInv
<1> QED BY <1>2, <1>3, <1>4, <1>5, <1>7, <1>8, <1>9, <1>10, <1>11, <1>12 DEF Handles

\* A connection that has subscribed to a diagram or an object has the tags the
\* editor's tables give it, but for the topics MembershipFollows excuses: however the
\* read loops, the consumer's reconciliations and the edits interleave, and however
\* many connections, topics and edits there are.
THEOREM SubscriptionsFollow == MembershipSpec => []MembershipFollows
<1>1. MembershipInit => ResolverTyped /\ TypeOK /\ FreshInv
  BY TypedInit, InitType, FreshInit DEF MembershipInit
<1>2. ResolverTyped /\ TypeOK /\ FreshInv /\ [MembershipNext]_allvars
        => ResolverTyped' /\ TypeOK' /\ FreshInv'
  <2> SUFFICES ASSUME ResolverTyped, TypeOK, FreshInv, [MembershipNext]_allvars
               PROVE  ResolverTyped' /\ TypeOK' /\ FreshInv'
    OBVIOUS
  <2>1. ResolverTyped' /\ TypeOK'
    BY StepImplements, StepType
  <2>2. CASE UNCHANGED allvars
    <3>1. UNCHANGED <<members, events, cache, query, handling, missed, reader, consumer,
                      topics, grouped>>
      BY <2>2 DEF allvars, hub, vars, subscriptions, database, resolver
    <3>2. \A g : Excused(g) <=> Excused(g)'
      BY <3>1, SameExcused
    <3> QED BY <2>1, <3>1, <3>2 DEF FreshInv, CacheFresh, QueriesFresh, ReadersFresh,
               ConsumerFresh, SubscriptionsFresh, ConsumerOrder
  <2>3. CASE MembershipNext
    BY <2>1, <2>3, EditorFresh, ReadsFresh, HandlesFresh DEF MembershipNext
  <2> QED BY <2>1, <2>2, <2>3
<1>3. FreshInv => MembershipFollows
  BY DEF FreshInv, SubscriptionsFresh, MembershipFollows, Excused, Pending
<1> QED BY <1>1, <1>2, <1>3, PTL DEF MembershipSpec

=============================================================================
