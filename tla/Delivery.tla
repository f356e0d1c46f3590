------------------------------ MODULE Delivery ------------------------------
(***************************************************************************)
(* ms-viewer: how a reading gets from the ingest to the screen of a client *)
(* that has subscribed to its tag.                                         *)
(*   - Hub.Publish keeps the last reading and hands it to the debouncer of *)
(*     every subscriber.                                                   *)
(*   - The debouncer sends it at once or, within the debounce interval,    *)
(*     by a timer; another timer repeats the latest reading (heartbeat).   *)
(*   - Subscribing starts a goroutine that sends the last reading as a     *)
(*     snapshot.                                                           *)
(*   - What is sent goes into the connection's outbox, which drops its     *)
(*     oldest message when it is full.                                     *)
(* Hub, debouncer and outbox are changed under locks of their own, so what *)
(* a goroutine took from one may be old when it reaches the next: a step   *)
(* is what happens under one lock.  One connection and one tag: others     *)
(* share only the hub's last reading and the outbox, as messages that are  *)
(* not about the tag.  Readings are numbered in the order of their time.   *)
(***************************************************************************)
EXTENDS Integers, Sequences, FiniteSets

CONSTANTS Loads,       \* bound: snapshot goroutines at once
          Timers,      \* bound: timer goroutines at once
          Gone,        \* the debouncer has no state for the tag
          Workloads    \* bounds, one record of which a behaviour has: the size of the outbox,
                       \* how many readings, frames and other messages there are, and whether
                       \* the connection is closed

(* Debouncer.debounceState; readings are numbered by their time, and 0 is  *)
(* none.                                                                   *)
TimerStates == {"none", "armed", "fired"}
State == [latest : Nat, pending : Nat, sent : BOOLEAN, flush : TimerStates, beat : TimerStates]

ASSUME DeliveryAssumption ==
    /\ \A w \in Workloads :
        /\ {w.capacity, w.readings, w.frames, w.others} \subseteq Nat
        /\ w.capacity > 0 /\ w.closes \in BOOLEAN
    /\ Loads \cap Timers = {}
    /\ (Loads \cup Timers) \cap {"ingest", "reader", "closer", "other"} = {}
    /\ Gone \notin State

VARIABLES workload,
          cache,      \* the last reading in Redis; 0 is none
          last,       \* Hub.lastByTag
          subscribed, \* Hub.subscriptions has the connection
          state,      \* Debouncer.states for the connection
          strays,     \* timers that are armed and that the state does not know
          outbox,     \* Connection.outbox
          status,     \* of the connection
          job,        \* what each goroutine is doing
          shown,      \* what the client shows of the tag
          frames, others,  \* how many so far
          published,  \* history: the last reading that went through Hub.Publish
          overtaken,  \* history: a snapshot was stored after a later reading
          revived     \* history: a state was made for a tag not subscribed, or a
                      \* subscription of a connection that was unregistered

hub == <<cache, last, subscribed>>
debouncer == <<state, strays>>
client == <<shown, frames, others>>
history == <<published, overtaken, revived>>
vars == <<workload, hub, debouncer, outbox, status, job, client, history>>

Goroutines == {"ingest", "reader", "closer", "other"} \cup Loads \cup Timers

(* then: where the goroutine goes on after it has sent its message *)
Idle == [pc |-> "idle", record |-> 0, then |-> "idle"]

Init ==
    /\ workload \in Workloads
    /\ cache \in {0, 1} /\ last = 0 /\ published = 0
    /\ subscribed = FALSE
    /\ state = Gone
    /\ strays = [flush |-> 0, beat |-> 0]
    /\ outbox = <<>>
    /\ status = "open"
    /\ job = [g \in Goroutines |-> Idle]
    /\ shown = 0 /\ frames = 0 /\ others = 0
    /\ overtaken = FALSE /\ revived = FALSE

\* The goroutine that is started: which of the free names it gets makes no difference.
Fresh(pool) == CHOOSE g \in pool : job[g] = Idle

Goes(g, pc) == job' = [job EXCEPT ![g].pc = pc]
Sends(g, record, then) ==
    job' = [job EXCEPT ![g] = [pc |-> "enqueue", record |-> record, then |-> then]]
Ends(g) == job' = [job EXCEPT ![g] = Idle]

Later(r, s) == IF r > s THEN r ELSE s

-----------------------------------------------------------------------------
(* The debouncer's state of a tag. *)

NewState == [latest |-> 0, pending |-> 0, sent |-> FALSE, flush |-> "none", beat |-> "none"]
Existing == IF state = Gone THEN NewState ELSE state

(* Touch, Publish and Ensure make the state when there is none. *)
Revives == revived' = (revived \/ (state = Gone /\ ~subscribed))

(* A timer that has fired is armed again; its goroutine runs all the same. *)
WithLatest(r) == [Existing EXCEPT !.latest = r, !.beat = "armed"]

-----------------------------------------------------------------------------
(* Hub.Publish: the ingest, one reading after the other. *)

UpdateCache ==
    /\ job["ingest"] = Idle
    /\ cache < workload.readings
    /\ cache' = cache + 1
    /\ job' = [job EXCEPT !["ingest"] = [Idle EXCEPT !.pc = "publish", !.record = cache + 1]]
    /\ UNCHANGED <<workload, last, subscribed, debouncer, outbox, status, client, history>>

FirstOnly(r) == IF last = 0 THEN r ELSE last                    (* mutant: kept once known *)
LastByTag(r) == Later(r, last)

HubPublish ==
    /\ job["ingest"].pc = "publish"
    /\ last' = LastByTag(job["ingest"].record)
    /\ published' = job["ingest"].record
    /\ IF subscribed THEN Goes("ingest", "debounce") ELSE Ends("ingest")
    /\ UNCHANGED <<workload, cache, subscribed, debouncer, outbox, status, client,
                   overtaken, revived>>

(* Debouncer.Publish.  The first reading, and one after the interval, is   *)
(* sent at once.                                                           *)
PublishNow ==
    /\ job["ingest"].pc = "debounce"
    /\ state' = [WithLatest(job["ingest"].record) EXCEPT !.pending = 0, !.sent = TRUE]
    /\ Sends("ingest", job["ingest"].record, "idle")
    /\ Revives
    /\ UNCHANGED <<workload, hub, strays, outbox, status, client, published, overtaken>>

PublishLater ==
    /\ job["ingest"].pc = "debounce"
    /\ Existing.sent
    /\ state' = [WithLatest(job["ingest"].record) EXCEPT !.pending = job["ingest"].record,
                                                         !.flush = "armed"]
    /\ Ends("ingest")
    /\ UNCHANGED <<workload, hub, strays, outbox, status, client, history>>

-----------------------------------------------------------------------------
(* The timers. *)

FireFlush(g) ==
    /\ job[g] = Idle /\ g = Fresh(Timers)
    /\ \/ /\ state # Gone /\ state.flush = "armed"
          /\ state' = [state EXCEPT !.flush = "fired"]
          /\ UNCHANGED strays
       \/ /\ strays.flush > 0
          /\ strays' = [strays EXCEPT !.flush = @ - 1]
          /\ UNCHANGED state
    /\ Goes(g, "flush")
    /\ UNCHANGED <<workload, hub, outbox, status, client, history>>

FireBeat(g) ==
    /\ job[g] = Idle /\ g = Fresh(Timers)
    /\ \/ /\ state # Gone /\ state.beat = "armed"
          /\ state' = [state EXCEPT !.beat = "fired"]
          /\ UNCHANGED strays
       \/ /\ strays.beat > 0
          /\ strays' = [strays EXCEPT !.beat = @ - 1]
          /\ UNCHANGED state
    /\ Goes(g, "beat")
    /\ UNCHANGED <<workload, hub, outbox, status, client, history>>

(* The pointer to the timer is cleared, also when the timer has been armed *)
(* again meanwhile.                                                        *)
Armed(timer) == IF timer = "armed" THEN 1 ELSE 0

flushPending(g) ==
    /\ job[g].pc = "flush"
    /\ IF state = Gone
       THEN Ends(g) /\ UNCHANGED debouncer
       ELSE /\ strays' = [strays EXCEPT !.flush = @ + Armed(state.flush)]
            /\ IF state.pending = 0
               THEN state' = [state EXCEPT !.flush = "none"] /\ Ends(g)
               ELSE /\ state' = [state EXCEPT !.flush = "none", !.pending = 0,
                                              !.sent = TRUE, !.beat = "armed"]
                    /\ Sends(g, state.pending, "idle")
    /\ UNCHANGED <<workload, hub, outbox, status, client, history>>

BeatsOnce == "none"                                             (* mutant: not armed again *)
NextBeat == "armed"

emitHeartbeat(g) ==
    /\ job[g].pc = "beat"
    /\ IF state = Gone
       THEN Ends(g) /\ UNCHANGED debouncer
       ELSE /\ strays' = [strays EXCEPT !.beat = @ + Armed(state.beat)]
            /\ IF state.latest = 0
               THEN state' = [state EXCEPT !.beat = "none"] /\ Ends(g)
               ELSE state' = [state EXCEPT !.beat = NextBeat] /\ Sends(g, state.latest, "idle")
    /\ UNCHANGED <<workload, hub, outbox, status, client, history>>

-----------------------------------------------------------------------------
(* The client's frames: handleSubscribe and handleUnsubscribe. *)

(* readLoop asks whether the connection is closed before it waits for a    *)
(* frame; what it has read it handles all the same.                        *)
ReadFrame ==
    /\ job["reader"] = Idle
    /\ status = "open"
    /\ frames < workload.frames
    /\ frames' = frames + 1
    /\ \E pc \in {"subscribe", "unsubscribe"} : Goes("reader", pc)
    /\ UNCHANGED <<workload, hub, debouncer, outbox, status, shown, others, history>>

Unregistered == status = "done" /\ job["closer"].pc # "unregister"

(* Hub.Subscribe makes the maps again of a connection it has forgotten.    *)
Subscribe ==
    /\ job["reader"].pc = "subscribe"
    /\ subscribed' = TRUE
    /\ IF subscribed THEN Sends("reader", 0, "idle") ELSE Goes("reader", "ensure")
    /\ revived' = (revived \/ (~subscribed /\ Unregistered))
    /\ UNCHANGED <<workload, cache, last, debouncer, outbox, status, client,
                   published, overtaken>>

Ensure ==
    /\ job["reader"].pc = "ensure"
    /\ state' = Existing
    /\ Revives
    /\ Sends("reader", 0, "spawn")
    /\ UNCHANGED <<workload, hub, strays, outbox, status, client, published, overtaken>>

(* enqueueSubscribeSnapshots *)
Spawn(l) ==
    /\ job["reader"].pc = "spawn"
    /\ job[l] = Idle /\ l = Fresh(Loads)
    /\ job' = [job EXCEPT !["reader"] = Idle, ![l].pc = "load"]
    /\ UNCHANGED <<workload, hub, debouncer, outbox, status, client, history>>

Unsubscribe ==
    /\ job["reader"].pc = "unsubscribe"
    /\ subscribed' = FALSE
    /\ IF subscribed THEN Goes("reader", "remove") ELSE Ends("reader")
    /\ UNCHANGED <<workload, cache, last, debouncer, outbox, status, client, history>>

Remove ==
    /\ job["reader"].pc = "remove"
    /\ state' = Gone
    /\ Sends("reader", 0, "idle")
    /\ UNCHANGED <<workload, hub, strays, outbox, status, client, history>>

(* LoadLatestRecords: the hub's last reading, or else that of Redis, which *)
(* may be missing or fail to be read.                                      *)
Load(l) ==
    /\ job[l].pc = "load"
    /\ job' = [job EXCEPT ![l].pc = IF last = 0 THEN "read" ELSE "touch", ![l].record = last]
    /\ UNCHANGED <<workload, hub, debouncer, outbox, status, client, history>>

GetLastValue(l) ==
    /\ job[l].pc = "read"
    /\ cache # 0
    /\ job' = [job EXCEPT ![l].pc = "store", ![l].record = cache]
    /\ UNCHANGED <<workload, hub, debouncer, outbox, status, client, history>>

GetLastValueFails(l) ==
    /\ job[l].pc = "read"
    /\ Ends(l)
    /\ UNCHANGED <<workload, hub, debouncer, outbox, status, client, history>>

StoreLast(l) ==
    /\ job[l].pc = "store"
    /\ last' = LastByTag(job[l].record)
    /\ Goes(l, "touch")
    /\ UNCHANGED <<workload, cache, subscribed, debouncer, outbox, status, client, history>>

(* Touch stores the snapshot as the latest, whatever was there. *)
Touch(l) ==
    /\ job[l].pc = "touch"
    /\ state' = WithLatest(job[l].record)
    /\ overtaken' = (overtaken \/ job[l].record < Existing.latest)
    /\ Revives
    /\ Sends(l, job[l].record, "idle")
    /\ UNCHANGED <<workload, hub, strays, outbox, status, client, published>>

-----------------------------------------------------------------------------
(* enqueuePayload and writeLoop. *)

Continue(g) == job' = [job EXCEPT ![g] = [Idle EXCEPT !.pc = job[g].then]]

Enqueue(g) ==
    /\ job[g].pc = "enqueue"
    /\ IF status # "open" \/ Len(outbox) < workload.capacity
       THEN /\ Continue(g)
            /\ outbox' = IF status = "open" THEN Append(outbox, job[g].record) ELSE outbox
       ELSE Goes(g, "drop") /\ UNCHANGED outbox
    /\ UNCHANGED <<workload, hub, debouncer, status, client, history>>

DropOldest(g) ==
    /\ job[g].pc = "drop"
    /\ outbox' = IF outbox = <<>> THEN outbox ELSE Tail(outbox)
    /\ Goes(g, "again")
    /\ UNCHANGED <<workload, hub, debouncer, status, client, history>>

EnqueueAgain(g) ==
    /\ job[g].pc = "again"
    /\ outbox' = IF Len(outbox) < workload.capacity THEN Append(outbox, job[g].record) ELSE outbox
    /\ Continue(g)
    /\ UNCHANGED <<workload, hub, debouncer, status, client, history>>

(* Alarms, config.changed, topics_changed and pongs. *)
EnqueueOther ==
    /\ job["other"] = Idle
    /\ others < workload.others
    /\ others' = others + 1
    /\ Sends("other", 0, "idle")
    /\ UNCHANGED <<workload, hub, debouncer, outbox, status, shown, frames, history>>

(* The client shows what came last; it does not compare times. *)
handleMessage(message) == IF message = 0 THEN shown ELSE message

WriteMessage ==
    /\ status = "open"
    /\ outbox # <<>>
    /\ shown' = handleMessage(Head(outbox))
    /\ outbox' = Tail(outbox)
    /\ UNCHANGED <<workload, hub, debouncer, status, job, frames, others, history>>

(* Close, by a failed write, a missing pong, the client, an eviction or a  *)
(* shutdown; then UnregisterConnection.                                    *)
Close ==
    /\ workload.closes
    /\ status = "open"
    /\ status' = "done"
    /\ Goes("closer", "unregister")
    /\ UNCHANGED <<workload, hub, debouncer, outbox, client, history>>

UnregisterConnection ==
    /\ job["closer"].pc = "unregister"
    /\ subscribed' = FALSE
    /\ Goes("closer", "stop")
    /\ UNCHANGED <<workload, cache, last, debouncer, outbox, status, client, history>>

KeepsBeating == state                                           (* mutant: only unsubscribing stops *)
Stopped == Gone

StopConnection ==
    /\ job["closer"].pc = "stop"
    /\ state' = Stopped
    /\ Ends("closer")
    /\ UNCHANGED <<workload, hub, strays, outbox, status, client, history>>

-----------------------------------------------------------------------------
Send(g) == Enqueue(g) \/ DropOldest(g) \/ EnqueueAgain(g)
Publish == HubPublish \/ PublishNow \/ PublishLater \/ Send("ingest")
Read ==
    \/ Subscribe \/ Ensure \/ (\E l \in Loads : Spawn(l))
    \/ Unsubscribe \/ Remove
    \/ Send("reader")
Snapshot(l) ==
    Load(l) \/ GetLastValue(l) \/ GetLastValueFails(l) \/ StoreLast(l) \/ Touch(l) \/ Send(l)
Fire(g) == flushPending(g) \/ emitHeartbeat(g) \/ Send(g)
Closing == UnregisterConnection \/ StopConnection

Next ==
    \/ UpdateCache \/ Publish
    \/ ReadFrame \/ Read
    \/ \E l \in Loads : Snapshot(l)
    \/ \E g \in Timers : FireFlush(g) \/ FireBeat(g) \/ Fire(g)
    \/ EnqueueOther \/ Send("other")
    \/ WriteMessage
    \/ Close \/ Closing

Spec == Init /\ [][Next]_vars

(* The goroutines run, timers fire, the client's socket takes messages. A  *)
(* writer that waits is handed the next message, so that droppers cannot   *)
(* starve it.                                                              *)
(* Nobody has to send frames or readings, or to close the connection.      *)
Fairness ==
    /\ WF_vars(Publish) /\ WF_vars(Read) /\ WF_vars(Send("other")) /\ WF_vars(Closing)
    /\ \A l \in Loads : WF_vars(Snapshot(l))
    /\ \A g \in Timers : WF_vars(Fire(g))
    /\ WF_vars(\E g \in Timers : FireFlush(g)) /\ WF_vars(\E g \in Timers : FireBeat(g))
    /\ SF_vars(WriteMessage)

FairSpec == Spec /\ Fairness

-----------------------------------------------------------------------------
Pcs == {"idle", "publish", "debounce", "flush", "beat", "subscribe", "ensure", "spawn",
        "unsubscribe", "remove", "load", "read", "store", "touch", "enqueue", "drop", "again",
        "unregister", "stop"}
Job == [pc : Pcs, record : Nat, then : {"idle", "spawn"}]

TypeOK ==
    /\ workload \in Workloads
    /\ cache \in Nat /\ last \in Nat /\ subscribed \in BOOLEAN
    /\ state \in State \cup {Gone}
    /\ strays \in [flush : Nat, beat : Nat]
    /\ outbox \in Seq(Nat) /\ Len(outbox) <= workload.capacity
    /\ status \in {"open", "done"}
    /\ job \in [Goroutines -> Job]
    /\ shown \in Nat /\ frames \in Nat /\ others \in Nat
    /\ published \in Nat /\ overtaken \in BOOLEAN /\ revived \in BOOLEAN

(* No reading falls between the snapshot and the stream: once the snapshot *)
(* goroutines are done and the reading in progress has been handed over,   *)
(* the debouncer of a subscriber knows the last published reading or a     *)
(* later one, as long as the connection is open, unless a snapshot that    *)
(* was loaded before it was stored after it (connection.go:285,            *)
(* hub.go:416).                                                            *)
Settled ==
    /\ job["ingest"].pc # "debounce"
    /\ job["reader"].pc \notin {"ensure", "spawn"} /\ job["reader"].then # "spawn"
    /\ \A l \in Loads : job[l].pc \notin {"load", "read", "store", "touch"}

SubscribedIsCurrent ==
    status = "open" /\ subscribed /\ state # Gone /\ Settled
    => state.latest >= published \/ overtaken

(* Nothing is left behind: with the connection closed or the tag           *)
(* unsubscribed the debouncer has no state for it, and so no timer that    *)
(* runs for ever, and a closed connection has no subscription, unless a    *)
(* publication, a snapshot or a frame that was still in progress made the  *)
(* one or the other again (hub.go:257, hub.go:173, debouncer.go:164).      *)
NothingLeftBehind ==
    /\ ~subscribed /\ job["reader"].pc # "remove" /\ job["closer"].pc # "stop"
       => state = Gone \/ revived
    /\ Unregistered => ~subscribed \/ revived

(* What the debouncer knows gets to the client in the end, although        *)
(* goroutines overtake each other on the way to the outbox and the outbox  *)
(* drops messages: the heartbeat repairs both (debouncer.go:248,           *)
(* connection.go:343).                                                     *)
Converges ==
    <>[](status = "open" /\ subscribed /\ state # Gone /\ state.latest # 0
         => shown = state.latest)

(* specs/0030:247: the last message is always the latest reading.          *)
AtRest ==
    /\ outbox = <<>>
    /\ \A g \in Goroutines : job[g] = Idle
    /\ state # Gone => state.pending = 0

LastIsFreshest ==
    status = "open" /\ subscribed /\ AtRest /\ published # 0 => shown = published

=============================================================================
