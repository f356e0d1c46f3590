------------------------------ MODULE Notifier ------------------------------
(***************************************************************************)
(* ms-viewer: the way of an alarm event from the alarms tables to Telegram. *)
(*   - A goroutine per event publishes it to alarms.events; what Kafka     *)
(*     refuses waits in the producer's memory for the next publication.    *)
(*   - AlarmsConsumer routes each message to the chats that want it and    *)
(*     sends it at once (RouteAndSend).                                    *)
(*   - Every replica runs a scheduler that sends again what is pending     *)
(*     (RetryPending) and escalates what nobody acknowledged               *)
(*     (ProcessEscalations), under an advisory lock of PostgreSQL.         *)
(* One partition: messages of other partitions meet only in the tables.  A *)
(* step is a statement on the database or a call of Kafka or Telegram.     *)
(* Time is one bit of a row: its backoff, or its delay, has passed.        *)
(* No alarm is ever acknowledged (AlarmEngine says why), so alarms.acks    *)
(* has no rows and IsTagAcknowledgedForState always answers no.            *)
(*                                                                         *)
(* Fields and variables marked "history" are not in the code: no guard     *)
(* reads them.                                                             *)
(***************************************************************************)
EXTENDS Integers, Sequences, FiniteSetsExt, SequencesExt

CONSTANTS Tags,
          Chats,        \* auth.telegram_chats
          Admins,       \* those whose role is admin
          Threshold,    \* severity_min of each
          Replicas,     \* processes that may run a scheduler
          Home,         \* the one that has the partitions: publishers and consumer
          None,         \* no value
          MaxAttempts,  \* options.MaxAttempts (5)
          Tries,        \* attempts of publishAndBroadcastEvent (3)
          BatchLimit,   \* options.BatchLimit (100)
          RouteSchema,  \* tags.tags has the column unit_id that GetAlarmRouteContext
                        \* selects (the migrations put it on tags.tag_params)
          Workloads,    \* bounds, one record of which a behaviour has: events, tags, those
                        \* that may be deleted, the states they take, chats, running
                        \* schedulers, and faults (failed calls and crashes)
          MaxDepth      \* bound: times a session holds the advisory lock

ASSUME NotifierAssumption ==
    /\ Admins \subseteq Chats
    /\ Threshold \in [Chats -> Nat]
    /\ Home \in Replicas
    /\ IsFiniteSet(Replicas) /\ "consumer" \notin Replicas
    /\ \A chats \in SUBSET Chats : chats # None
    /\ {MaxAttempts, Tries, MaxDepth, BatchLimit} \subseteq Nat \ {0}
    /\ RouteSchema \in BOOLEAN
    /\ \A w \in Workloads : /\ w.events \in Nat /\ w.faults \in Nat /\ w.tags \subseteq Tags
                           /\ w.replicas \subseteq Replicas /\ w.chats \subseteq Chats

VARIABLES alarm,     \* the state of each tag in alarms.states; None: not evaluated
          present,   \* tags that are not deleted
          enabled,   \* chats that are enabled
          events,    \* alarms.events
          pub,       \* the goroutine that publishes each event
          queue,     \* AlarmsProducer.retryQueue
          topic,     \* the alarms.events topic
          position,  \* messages fetched
          committed, \* messages committed
          rows,      \* alarms.notifications, by event and chat
          esc,       \* alarms.escalations, by event
          order,     \* the pending rows <<event, chat>> by updated_at, and the open
                     \* escalations <<event, None>> by fire_at, oldest first
          job,       \* what the consumer and each scheduler are doing
          lock,      \* the advisory lock: the session that holds it, how often
          dryRun,    \* options.DryRun
          workload,  \* the bounds of this behaviour
          faults,    \* faults so far
          heard,     \* history: messages each chat got of each event
          doubts,    \* history: reasons to send one more
          gone,      \* history: events lost before they reached the topic
          missed,    \* history: events whose routing returned an error
          routed     \* history: the chats each event was routed to

source == <<alarm, present, enabled, events>>
kafka == <<pub, queue, topic, position, committed>>
tables == <<rows, esc, order>>
bounds == <<dryRun, workload>>
sends == <<heard, doubts>>
fates == <<gone, missed, routed>>
vars == <<source, kafka, tables, job, lock, bounds, faults, sends, fates>>

(* domain.AlarmState, three of its nine codes; a greater code is not a     *)
(* greater severity.                                                       *)
Code == [ok |-> 0, hihi |-> 4, comm_loss |-> 7]
States == DOMAIN Code

(* mapSeverity and isEscalationState. *)
mapSeverity(e) ==
    IF e.type \in {"acked", "cleared"} \/ e.to = "ok" THEN 1
    ELSE IF e.to = "hihi" THEN 4 ELSE 3
Escalates(e) == e.type = "raised" /\ e.to = "hihi"

Consumer == "consumer"
Workers == {Consumer} \cup Replicas

(* One unit of work: a notification to deliver (ev, chat, attempt, the     *)
(* outcome of the call) and what is left to do.  "owed" is history.        *)
Idle == [pc |-> "idle", ev |-> 0, chat |-> None, attempt |-> 0, outcome |-> None,
         items |-> {}, due |-> {}, chats |-> {}, owed |-> {}, escalated |-> FALSE]

Sessions(r) == {<<r, i>> : i \in 1..2}
Free == [holder |-> None, depth |-> 0]

Init ==
    /\ workload \in Workloads
    /\ alarm = [t \in Tags |-> IF t \in workload.tags THEN "ok" ELSE None]
    /\ present = workload.tags
    /\ enabled \in {workload.chats, workload.chats \ Admins}
    /\ events = <<>> /\ pub = <<>> /\ queue = <<>>
    /\ topic = <<>> /\ position = 0 /\ committed = 0
    /\ rows = <<>> /\ esc = <<>> /\ order = <<>>
    /\ job = [w \in Workers |-> Idle]
    /\ lock = Free
    /\ dryRun \in BOOLEAN
    /\ faults = 0
    /\ heard = <<>> /\ doubts = <<>>
    /\ gone = {} /\ missed = {} /\ routed = <<>>

Fault == faults < workload.faults /\ faults' = faults + 1
NoFault == UNCHANGED faults

-----------------------------------------------------------------------------
(* The alarm engine and the editor, as far as they matter to events. *)

Publisher(tries) == [pc |-> "ready", tries |-> tries, payload |-> <<>>]
NoRow == [status |-> "none", attempt |-> 0, ripe |-> FALSE]
(* History: "owed", the chats the scheduler that closed it had listed, those *)
(* left out whose row could not be inserted; "loud", those that were sent  *)
(* the escalation; "reason", why it was skipped.                           *)
NoEscalation == [status |-> "none", owed |-> {}, loud |-> {}, reason |-> None]

(* The transaction that writes an event has committed, and                 *)
(* publishAndBroadcastEvent has started the goroutine.                     *)
Emit(e) ==
    /\ Len(events) < workload.events
    /\ events' = Append(events, e)
    /\ pub' = Append(pub, Publisher(Tries))
    /\ rows' = Append(rows, [c \in Chats |-> NoRow])
    /\ esc' = Append(esc, NoEscalation)
    /\ heard' = Append(heard, [c \in Chats |-> 0])
    /\ doubts' = Append(doubts, [c \in Chats |-> 0])
    /\ routed' = Append(routed, None)
    /\ UNCHANGED <<present, enabled, queue, topic, position, committed, order, job, lock, bounds,
                   faults, gone, missed>>

ApplyTransition(tag, s) ==
    /\ alarm[tag] # None
    /\ s \in workload.states \ {alarm[tag]}
    /\ alarm' = [alarm EXCEPT ![tag] = s]
    /\ Emit([tag |-> tag, type |-> IF s = "ok" THEN "cleared" ELSE "raised", to |-> s])

(* The editor deletes the tag. *)
DeleteTag(tag) ==
    /\ tag \in present \cap workload.doomed
    /\ present' = present \ {tag}
    /\ UNCHANGED <<alarm, enabled, events, kafka, tables, job, lock, bounds, faults, sends, fates>>

(* HandleTagConfigChanged: later, when the event comes, and if it comes.   *)
ForgetTag(tag) ==
    /\ tag \notin present
    /\ alarm[tag] # None
    /\ alarm' = [alarm EXCEPT ![tag] = None]
    /\ UNCHANGED <<present, enabled, events, kafka, tables, job, lock, bounds, faults, sends, fates>>

EnableChat(c) ==
    /\ c \in workload.chats \ enabled
    /\ enabled' = enabled \cup {c}
    /\ UNCHANGED <<alarm, present, events, kafka, tables, job, lock, bounds, faults, sends, fates>>

-----------------------------------------------------------------------------
(* publishAndBroadcastEvent and AlarmsProducer. *)

(* writeWithRetryQueue takes what is queued and puts the event after it. *)
TakeQueue(e) ==
    /\ pub[e].pc = "ready"
    /\ pub' = [pub EXCEPT ![e].pc = "writing", ![e].payload = Append(queue, e)]
    /\ queue' = <<>>
    /\ UNCHANGED <<source, topic, position, committed, tables, job, lock, bounds, faults, sends, fates>>

Finished == [pc |-> "done", tries |-> 0, payload |-> <<>>]
Published(e) == [pub EXCEPT ![e] = Finished]

WriteMessages(e) ==
    /\ pub[e].pc = "writing"
    /\ topic' = topic \o pub[e].payload
    /\ pub' = Published(e)
    /\ UNCHANGED <<source, queue, position, committed, tables, job, lock, bounds, faults, sends, fates>>

RequeueOthers(e) == queue \o Front(pub[e].payload)              (* mutant: its own event is left to the retry *)
Requeue(e) == queue \o pub[e].payload

(* Refused: the whole payload is queued, the event with it, so the next    *)
(* attempt of the goroutine writes the event twice.                        *)
WriteFails(e) ==
    /\ pub[e].pc = "writing"
    /\ Fault
    /\ queue' = Requeue(e)
    /\ pub' = IF pub[e].tries > 1
              THEN [pub EXCEPT ![e] = Publisher(@.tries - 1)] ELSE Published(e)
    /\ UNCHANGED <<source, topic, position, committed, tables, job, lock, bounds, sends, fates>>

(* The writer asks for no acknowledgement (RequiredAcks is not set): a     *)
(* message may be lost after WriteMessages has returned.                   *)
WriteLost(e) ==
    /\ pub[e].pc = "writing"
    /\ Fault
    /\ gone' = gone \cup Range(pub[e].payload)
    /\ pub' = Published(e)
    /\ UNCHANGED <<source, queue, topic, position, committed, tables, job, lock, bounds, sends,
                   missed, routed>>

-----------------------------------------------------------------------------
(* deliverNotification, for the consumer and for the schedulers. *)

Goes(w, pc) == [job EXCEPT ![w].pc = pc]
Delivering(w) == job[w].pc \in {"send", "mark"}
Holds(w, e, c) == Delivering(w) /\ job[w].ev = e /\ job[w].chat = c

(* After a delivery: the next item of RetryPending, or the next chat. *)
Return(w) == [job EXCEPT ![w] =
    IF w # Consumer /\ ~@.escalated THEN [Idle EXCEPT !.pc = "retry", !.items = job[w].items]
    ELSE [@ EXCEPT !.pc = "chats", !.chat = None, !.attempt = 0, !.outcome = None]]

(* What waits has its place in the order, the newest at the end. *)
Placed(x, waits) == IF waits THEN Append(Remove(order, x), x) ELSE Remove(order, x)

SetRow(w, row) ==
    /\ rows' = [rows EXCEPT ![job[w].ev][job[w].chat] = row]
    /\ order' = Placed(<<job[w].ev, job[w].chat>>, row.status = "pending")
RowOf(w) == rows[job[w].ev][job[w].chat]

MarkSkipped(w) ==
    /\ job[w].pc = "send"
    /\ dryRun
    /\ SetRow(w, [RowOf(w) EXCEPT !.status = "skipped", !.ripe = FALSE])
    /\ job' = Return(w)
    /\ UNCHANGED <<source, kafka, esc, lock, bounds, faults, sends, fates>>

(* SendMessage.  "ok" and "unheard" reach the chat, but the answer of the  *)
(* second is lost; a 429 and a 5xx are retried, other 4xx are not.         *)
Outcomes == {"ok", "unheard", "transient", "permanent"}

SendMessage(w, outcome) ==
    /\ job[w].pc = "send"
    /\ ~dryRun
    /\ IF outcome = "ok" THEN NoFault ELSE Fault
    /\ job' = [job EXCEPT ![w].pc = "mark", ![w].outcome = outcome]
    /\ heard' = [heard EXCEPT ![job[w].ev][job[w].chat] =
                     IF outcome \in {"ok", "unheard"} THEN @ + 1 ELSE @]
    /\ doubts' = [doubts EXCEPT ![job[w].ev][job[w].chat] =
                     IF outcome = "unheard" THEN @ + 1 ELSE @]
    /\ esc' = IF job[w].escalated
              THEN [esc EXCEPT ![job[w].ev].loud = @ \cup {job[w].chat}] ELSE esc
    /\ UNCHANGED <<source, kafka, rows, order, lock, bounds, fates>>

(* MarkNotificationSent, Failed or PendingRetry: an UPDATE by event and    *)
(* chat, whatever the row says by now.                                     *)
Marked(w) ==
    [status |-> IF job[w].outcome = "ok" THEN "sent"
                ELSE IF job[w].attempt + 1 >= MaxAttempts \/ job[w].outcome = "permanent"
                THEN "failed" ELSE "pending",
     attempt |-> RowOf(w).attempt + 1,
     ripe |-> FALSE]

Mark(w) ==
    /\ job[w].pc = "mark"
    /\ SetRow(w, Marked(w))
    /\ job' = Return(w)
    /\ UNCHANGED <<source, kafka, esc, lock, bounds, faults, sends, fates>>

Unmarked(w) == job[w].pc = "mark" /\ job[w].outcome = "ok"

MarkFails(w) ==
    /\ \/ job[w].pc = "mark"
       \/ job[w].pc = "send" /\ dryRun
    /\ Fault
    /\ doubts' = IF Unmarked(w) THEN [doubts EXCEPT ![job[w].ev][job[w].chat] = @ + 1] ELSE doubts
    /\ job' = Return(w)
    /\ UNCHANGED <<source, kafka, tables, lock, bounds, heard, fates>>

AlwaysCreated(e, c) == TRUE                                     (* mutant: no ON CONFLICT *)
Created(e, c) == rows[e][c].status = "none"

(* CreateNotification for the next chat: a row that exists is somebody     *)
(* else's.                                                                 *)
CreateNotification(w, c) ==
    /\ job[w].pc = "chats"
    /\ c \in job[w].chats
    /\ IF Created(job[w].ev, c)
       THEN /\ rows' = [rows EXCEPT ![job[w].ev][c] = [NoRow EXCEPT !.status = "pending"]]
            /\ order' = Placed(<<job[w].ev, c>>, TRUE)
            /\ job' = [job EXCEPT ![w] = [job[w] EXCEPT !.chats = @ \ {c}, !.pc = "send",
                                                        !.chat = c, !.attempt = 0]]
       ELSE /\ job' = [job EXCEPT ![w].chats = @ \ {c}]
            /\ UNCHANGED <<rows, order>>
    /\ UNCHANGED <<source, kafka, esc, lock, bounds, faults, sends, fates>>

-----------------------------------------------------------------------------
(* AlarmsConsumer.Run and RouteAndSend. *)

(* GetAlarmRouteContext finds the event's tag. *)
Resolves(e) == RouteSchema /\ events[e].tag \in present

Routing(e) == {c \in enabled : Threshold[c] <= mapSeverity(events[e])}

(* FetchMessage, GetAlarmRouteContext and ListChatsForRouting. *)
FetchMessage ==
    /\ job[Consumer] = Idle
    /\ position < Len(topic)
    /\ Resolves(topic[position + 1])
    /\ position' = position + 1
    /\ LET e == topic[position + 1] IN
        /\ job' = [job EXCEPT ![Consumer] = [Idle EXCEPT !.pc = "chats", !.ev = e,
                                                         !.chats = Routing(e)]]
        /\ routed' = [routed EXCEPT ![e] = Routing(e)]
    /\ UNCHANGED <<source, pub, queue, topic, committed, tables, lock, bounds, faults, sends,
                   gone, missed>>

(* RouteAndSend returns an error: the message is not committed, and the    *)
(* next one is fetched.                                                    *)
RouteContextFails ==
    /\ job[Consumer] = Idle
    /\ position < Len(topic)
    /\ IF Resolves(topic[position + 1]) THEN Fault ELSE NoFault
    /\ position' = position + 1
    /\ missed' = missed \cup {topic[position + 1]}
    /\ UNCHANGED <<source, pub, queue, topic, committed, tables, job, lock, bounds, sends,
                   gone, routed>>

CreateFails ==
    /\ job[Consumer].pc = "chats"
    /\ job[Consumer].chats # {}
    /\ Fault
    /\ job' = [job EXCEPT ![Consumer] = Idle]
    /\ missed' = missed \cup {job[Consumer].ev}
    /\ UNCHANGED <<source, kafka, tables, lock, bounds, sends, gone, routed>>

Inserted(e) ==
    IF Escalates(events[e]) /\ esc[e].status = "none"
    THEN [esc EXCEPT ![e].status = "waiting"] ELSE esc

CreateEscalation ==
    /\ job[Consumer].pc = "chats"
    /\ job[Consumer].chats = {}
    /\ esc' = Inserted(job[Consumer].ev)
    /\ order' = IF esc' = esc THEN order ELSE Placed(<<job[Consumer].ev, None>>, TRUE)
    /\ job' = Goes(Consumer, "commit")
    /\ UNCHANGED <<source, kafka, rows, lock, bounds, faults, sends, fates>>

(* A warning, and the message is committed all the same. *)
CreateEscalationFails ==
    /\ job[Consumer].pc = "chats"
    /\ job[Consumer].chats = {}
    /\ Escalates(events[job[Consumer].ev])
    /\ Fault
    /\ esc' = [esc EXCEPT ![job[Consumer].ev].reason =
                   IF esc[job[Consumer].ev].status = "none" THEN "not inserted" ELSE @]
    /\ job' = Goes(Consumer, "commit")
    /\ UNCHANGED <<source, kafka, rows, order, lock, bounds, sends, fates>>

(* The offset of the message, and with it those of all before it. *)
Offset == position

CommitMessages ==
    /\ job[Consumer].pc = "commit"
    /\ committed' = Offset
    /\ job' = [job EXCEPT ![Consumer] = Idle]
    /\ UNCHANGED <<source, pub, queue, topic, position, tables, lock, bounds, faults, sends, fates>>

-----------------------------------------------------------------------------
(* RunScheduler: WithSchedulerLock. *)

(* pg_try_advisory_lock on some connection of the pool, which goes back to *)
(* the pool.  A session that holds the lock gets it again.                 *)
TryLock(r, s) ==
    /\ r \in workload.replicas
    /\ job[r] = Idle
    /\ lock.holder \in {None, s}
    /\ lock.depth < MaxDepth
    /\ lock' = [holder |-> s, depth |-> lock.depth + 1]
    /\ job' = Goes(r, "list")
    /\ UNCHANGED <<source, kafka, tables, bounds, faults, sends, fates>>

(* pg_advisory_unlock on some connection: another than the holder has no   *)
(* effect but a warning, and the lock stays with the idle connection.      *)
Unlock(r, s) ==
    /\ job[r].pc = "unlock"
    /\ lock' = IF lock.holder # s THEN lock
               ELSE IF lock.depth = 1 THEN Free ELSE [lock EXCEPT !.depth = @ - 1]
    /\ job' = [job EXCEPT ![r] = Idle]
    /\ UNCHANGED <<source, kafka, tables, bounds, faults, sends, fates>>

(* The pool closes a connection that is idle or old; the lock goes with it. *)
CloseSession ==
    /\ lock.holder # None
    /\ lock' = Free
    /\ UNCHANGED <<source, kafka, tables, job, bounds, faults, sends, fates>>

(* A statement of the list queries fails: the tick is over. *)
TickFails(r) ==
    /\ job[r].pc \in {"list", "listDue"}
    /\ Fault
    /\ job' = Goes(r, "unlock")
    /\ UNCHANGED <<source, kafka, tables, lock, bounds, sends, fates>>

-----------------------------------------------------------------------------
(* RetryPending.  History: "busy", another delivery of the row was in      *)
(* progress, or due in another scheduler, when it was listed.              *)

(* ORDER BY and LIMIT: those before which fewer than BatchLimit others wait. *)
Older(x, y) == \E i, j \in DOMAIN order : i < j /\ order[i] = x /\ order[j] = y
Batch(waiting) ==
    {x \in waiting : Cardinality({y \in waiting : Older(y, x)}) < BatchLimit}

RetriedOnly(e, c) ==                                            (* mutant: first sends only *)
    /\ rows[e][c].status = "pending" /\ rows[e][c].ripe
    /\ rows[e][c].attempt \in 1..(MaxAttempts - 1)
Listed(e, c) ==
    /\ rows[e][c].status = "pending" /\ rows[e][c].ripe
    /\ rows[e][c].attempt < MaxAttempts

Busy(r, e, c) == \E w \in Workers \ {r} :
    Holds(w, e, c) \/ \E i \in job[w].items : i.ev = e /\ i.chat = c

ListPendingNotifications(r) ==
    /\ job[r].pc = "list"
    /\ LET Item(e, c) == [ev |-> e, chat |-> c, attempt |-> rows[e][c].attempt,
                          busy |-> Busy(r, e, c)]
           Waiting == {x \in (DOMAIN rows) \X Chats : Listed(x[1], x[2])} IN
        job' = [job EXCEPT ![r].pc = "retry",
                           ![r].items = {Item(x[1], x[2]) : x \in Batch(Waiting)}]
    /\ UNCHANGED <<source, kafka, tables, lock, bounds, faults, sends, fates>>

RetryNext(r, i) ==
    /\ job[r].pc = "retry"
    /\ i \in job[r].items
    /\ Resolves(i.ev)
    /\ job' = [job EXCEPT ![r] = [job[r] EXCEPT !.pc = "send", !.items = @ \ {i}, !.ev = i.ev,
                                                !.chat = i.chat, !.attempt = i.attempt]]
    /\ doubts' = IF i.busy THEN [doubts EXCEPT ![i.ev][i.chat] = @ + 1] ELSE doubts
    /\ UNCHANGED <<source, kafka, tables, lock, bounds, faults, heard, fates>>

(* The route context cannot be read, because of a fault or because the tag *)
(* is deleted: the row stays as it is, and in its place.                   *)
RetrySkips(r, i) ==
    /\ job[r].pc = "retry"
    /\ i \in job[r].items
    /\ IF Resolves(i.ev) THEN Fault ELSE NoFault
    /\ job' = [job EXCEPT ![r].items = @ \ {i}]
    /\ UNCHANGED <<source, kafka, tables, lock, bounds, sends, fates>>

RetryDone(r) ==
    /\ job[r].pc = "retry"
    /\ job[r].items = {}
    /\ job' = Goes(r, "listDue")
    /\ UNCHANGED <<source, kafka, tables, lock, bounds, faults, sends, fates>>

-----------------------------------------------------------------------------
(* ProcessEscalations. *)

ListDueEscalations(r) ==
    /\ job[r].pc = "listDue"
    /\ LET Waiting == {<<e, None>> : e \in {d \in DOMAIN esc : esc[d].status = "due"}} IN
        job' = [job EXCEPT ![r] = [Idle EXCEPT !.pc = "due", !.escalated = TRUE,
                   !.due = {e \in DOMAIN esc : <<e, None>> \in Batch(Waiting)}]]
    /\ UNCHANGED <<source, kafka, tables, lock, bounds, faults, sends, fates>>

Close(e, status, reason) ==
    /\ esc' = [esc EXCEPT ![e].status = status, ![e].reason = reason]
    /\ order' = Placed(<<e, None>>, FALSE)

(* GetAlarmEventByID fails: closed as skipped. *)
EscalationUnread(r, e) ==
    /\ job[r].pc = "due"
    /\ e \in job[r].due
    /\ Fault
    /\ Close(e, "skipped", "unread")
    /\ job' = [job EXCEPT ![r].due = @ \ {e}]
    /\ UNCHANGED <<source, kafka, rows, lock, bounds, sends, fates>>

(* Another read fails, or the tag is deleted: left for the next tick. *)
EscalationPostponed(r, e) ==
    /\ job[r].pc = "due"
    /\ e \in job[r].due
    /\ IF Resolves(e) THEN Fault ELSE NoFault
    /\ job' = [job EXCEPT ![r].due = @ \ {e}]
    /\ UNCHANGED <<source, kafka, tables, lock, bounds, sends, fates>>

EscalationTakenUp(r, e) ==
    /\ job[r].pc = "due"
    /\ e \in job[r].due
    /\ Resolves(e)
    /\ job' = [job EXCEPT ![r] = [job[r] EXCEPT !.pc = "chats", !.due = @ \ {e}, !.ev = e,
                                                !.chats = Admins \cap enabled,
                                                !.owed = Admins \cap enabled]]
    /\ UNCHANGED <<source, kafka, tables, lock, bounds, faults, sends, fates>>

EscalationCreateFails(r, c) ==
    /\ job[r].pc = "chats"
    /\ c \in job[r].chats
    /\ Fault
    /\ job' = [job EXCEPT ![r].chats = @ \ {c}, ![r].owed = @ \ {c}]
    /\ UNCHANGED <<source, kafka, tables, lock, bounds, sends, fates>>

ClosesEarly(r) == Cardinality(job[r].chats) <= 1                (* mutant: the last chat is left *)
AllTold(r) == job[r].chats = {}
Closed(r) == [job EXCEPT ![r] = [@ EXCEPT !.pc = "due", !.ev = 0, !.chats = {}, !.owed = {}]]

(* MarkEscalationProcessed. *)
EscalationProcessed(r) ==
    /\ job[r].pc = "chats"
    /\ AllTold(r)
    /\ esc' = [esc EXCEPT ![job[r].ev] = [@ EXCEPT !.status = "processed", !.owed = job[r].owed]]
    /\ order' = Placed(<<job[r].ev, None>>, FALSE)
    /\ job' = Closed(r)
    /\ UNCHANGED <<source, kafka, rows, lock, bounds, faults, sends, fates>>

EscalationMarkFails(r) ==
    /\ job[r].pc = "chats"
    /\ AllTold(r)
    /\ Fault
    /\ job' = Closed(r)
    /\ UNCHANGED <<source, kafka, tables, lock, bounds, sends, fates>>

EscalationsDone(r) ==
    /\ job[r].pc = "due"
    /\ job[r].due = {}
    /\ job' = [job EXCEPT ![r] = [Idle EXCEPT !.pc = "unlock"]]
    /\ UNCHANGED <<source, kafka, tables, lock, bounds, faults, sends, fates>>

-----------------------------------------------------------------------------
(* Time and crashes. *)

(* The backoff of a pending row is over.  A delivery in progress does not  *)
(* hold it back: no timeout covers the statement that marks the row.       *)
Ripen(e, c) ==
    /\ rows[e][c].status = "pending"
    /\ ~rows[e][c].ripe
    /\ rows' = [rows EXCEPT ![e][c].ripe = TRUE]
    /\ UNCHANGED <<source, kafka, esc, order, job, lock, bounds, faults, sends, fates>>

DelayPasses(e) ==
    /\ esc[e].status = "waiting"
    /\ esc' = [esc EXCEPT ![e].status = "due"]
    /\ UNCHANGED <<source, kafka, rows, order, job, lock, bounds, faults, sends, fates>>

InMemory == Range(queue) \cup {e \in DOMAIN pub : pub[e].pc # "done"}
            \cup UNION {Range(pub[e].payload) : e \in DOMAIN pub}

(* A replica dies, with its sessions; the one with the partitions takes    *)
(* the goroutines and the queue along, and fetches from the committed      *)
(* offset when it is back.                                                 *)
Crash(r) ==
    /\ r \in workload.replicas \cup {Home}
    /\ Fault
    /\ LET dead == {r} \cup (IF r = Home THEN {Consumer} ELSE {}) IN
        /\ job' = [w \in Workers |-> IF w \in dead THEN Idle ELSE job[w]]
        /\ doubts' = [e \in DOMAIN doubts |-> [c \in Chats |->
               doubts[e][c] + Cardinality({w \in dead : Unmarked(w) /\ Holds(w, e, c)})]]
    /\ lock' = IF lock.holder \in Sessions(r) THEN Free ELSE lock
    /\ IF r = Home
       THEN /\ gone' = gone \cup InMemory
            /\ pub' = [e \in DOMAIN pub |-> Finished]
            /\ queue' = <<>>
            /\ position' = committed
       ELSE UNCHANGED <<gone, pub, queue, position>>
    /\ UNCHANGED <<source, topic, committed, tables, bounds, heard, missed, routed>>

-----------------------------------------------------------------------------
Publish(e) == TakeQueue(e) \/ WriteMessages(e) \/ WriteFails(e) \/ WriteLost(e)

Deliver(w) ==
    \/ MarkSkipped(w) \/ Mark(w) \/ MarkFails(w)
    \/ \E outcome \in Outcomes : SendMessage(w, outcome)
    \/ \E c \in Chats : CreateNotification(w, c)

Consume ==
    \/ FetchMessage \/ RouteContextFails \/ CreateFails
    \/ CreateEscalation \/ CreateEscalationFails \/ CommitMessages
    \/ Deliver(Consumer)

Schedule(r) ==
    \/ TickFails(r)
    \/ ListPendingNotifications(r) \/ RetryDone(r)
    \/ \E i \in job[r].items : RetryNext(r, i) \/ RetrySkips(r, i)
    \/ ListDueEscalations(r) \/ EscalationsDone(r)
    \/ \E e \in job[r].due : \/ EscalationUnread(r, e) \/ EscalationPostponed(r, e)
                             \/ EscalationTakenUp(r, e)
    \/ \E c \in Chats : EscalationCreateFails(r, c)
    \/ EscalationProcessed(r) \/ EscalationMarkFails(r)
    \/ Deliver(r)
    \/ \E s \in Sessions(r) : TryLock(r, s) \/ Unlock(r, s)

Next ==
    \/ \E tag \in Tags : \/ \E s \in States : ApplyTransition(tag, s)
                        \/ DeleteTag(tag) \/ ForgetTag(tag)
    \/ \E c \in Chats : EnableChat(c)
    \/ \E e \in DOMAIN pub : Publish(e)
    \/ Consume
    \/ \E r \in Replicas : Schedule(r) \/ Crash(r)
    \/ CloseSession
    \/ \E e \in DOMAIN rows : DelayPasses(e) \/ \E c \in Chats : Ripen(e, c)

Spec == Init /\ [][Next]_vars

(* The schedulers tick and go on; time passes; pgxpool closes a connection *)
(* when its lifetime is over.                                              *)
Fairness ==
    /\ \A r \in Replicas : WF_vars(Schedule(r))
    /\ WF_vars(CloseSession)
    /\ WF_vars(\E e \in DOMAIN rows, c \in Chats : Ripen(e, c))

FairSpec == Spec /\ Fairness

-----------------------------------------------------------------------------
Statuses == {"none", "pending", "sent", "failed", "skipped"}

TypeOK ==
    /\ alarm \in [Tags -> States \cup {None}]
    /\ present \subseteq Tags /\ enabled \subseteq Chats
    /\ Len(events) <= workload.events
    /\ committed <= position /\ position <= Len(topic)
    /\ Range(topic) \cup Range(queue) \cup gone \cup missed \subseteq DOMAIN events
    /\ \A e \in DOMAIN rows, c \in Chats :
        /\ rows[e][c].status \in Statuses
        /\ rows[e][c].attempt \in 0..(MaxAttempts + Cardinality(Workers))
        /\ rows[e][c].ripe => rows[e][c].status = "pending"
    /\ Range(order) \subseteq (DOMAIN rows) \X (Chats \cup {None})
    /\ lock.depth \in 0..MaxDepth /\ (lock.depth = 0 <=> lock.holder = None)

(* Every committed alarm event is on its way, or has a notification for    *)
(* every chat it was routed to, or was lost in one of the two ways the     *)
(* code leaves open: in memory when the process died (or unacknowledged by *)
(* Kafka), or by a routing error that a later commit passed over           *)
(* (alarms_producer.go:113, alarms_consumer.go:98).                        *)
OnItsWay(e) == e \in InMemory \/ \E i \in DOMAIN topic : i > committed /\ topic[i] = e
Delivered(e) == routed[e] # None /\ \A c \in routed[e] : rows[e][c].status # "none"

NoEventDropped ==
    \A e \in DOMAIN events : OnItsWay(e) \/ Delivered(e) \/ e \in gone \cup missed

(* A chat hears of an event once, however often the event is published,    *)
(* delivered and retried by however many replicas: one more message needs  *)
(* a lost answer, a mark that was not written, or a retry that was listed  *)
(* while another delivery of the row was in progress                       *)
(* (notifier_usecase.go:486, specs/0035:212).                              *)
HeardOnce ==
    \A e \in DOMAIN heard, c \in Chats : heard[e][c] <= 1 + doubts[e][c]

(* An escalation is not forgotten: a critical event whose message was      *)
(* committed has its row unless the insert failed; the row is closed only  *)
(* after a failed read of the event, or when every admin chat it was meant *)
(* for has a notification or a failed insert, also if the scheduler dies   *)
(* in the middle (notifier_usecase.go:259).                                *)
EscalationKept ==
    \A e \in DOMAIN esc :
        /\ (\E i \in 1..committed : topic[i] = e) /\ Escalates(events[e])
           => esc[e].status # "none" \/ esc[e].reason = "not inserted" \/ e \in missed
        /\ esc[e].status = "skipped" => esc[e].reason = "unread"
        /\ esc[e].status = "processed" =>
             \A c \in esc[e].owed : rows[e][c].status # "none"

(* Once there are no more events, a pending row is sent, given up or       *)
(* skipped in the end, and a due escalation is closed, through crashes,    *)
(* failed statements and an advisory lock left with an idle session.  Left *)
(* out are the rows and escalations of a deleted tag, rows whose attempts  *)
(* two overlapping deliveries used up, and everything when the former fill *)
(* a batch: nothing ever changes them, so that they stay the oldest        *)
(* (notifier_usecase.go:197, notification_repository.go:223, 329).         *)
Retriable(e, c) == rows[e][c].status = "pending" /\ rows[e][c].attempt < MaxAttempts
Stuck == {x \in (DOMAIN rows) \X Chats : Retriable(x[1], x[2]) /\ ~Resolves(x[1])}
StuckEscalations == {e \in DOMAIN esc : esc[e].status = "due" /\ ~Resolves(e)}

RowsSettled == \A e \in DOMAIN rows, c \in Chats : Retriable(e, c) => ~Resolves(e)

Settles ==
    workload.replicas # {} =>
        <>[](/\ Cardinality(Stuck) < BatchLimit => RowsSettled
             /\ Cardinality(StuckEscalations) < BatchLimit =>
                  \A e \in DOMAIN esc : esc[e].status = "due" => ~Resolves(e))

(* specs/0035:229: after a 5xx the scanner sends again.  Rows of deleted    *)
(* tags that fill the batch keep it from every other row.                  *)
RetriesGoOut == workload.replicas # {} => <>[]RowsSettled

(* specs/0035:225-227: an event that is published is routed and leaves its *)
(* notifications, unless a statement fails or the tag is gone.             *)
EventsRouted == \A e \in missed : faults > 0 \/ events[e].tag \notin present

(* specs/0035:232: the escalation message goes to the admins unless the    *)
(* operator acknowledged.  The dedup by event and chat stops it for every     *)
(* admin chat that got the alarm itself (notifier_usecase.go:341).         *)
EscalationHeard ==
    \A e \in DOMAIN esc :
        esc[e].status = "processed" /\ ~dryRun => esc[e].owed \subseteq esc[e].loud

=============================================================================
