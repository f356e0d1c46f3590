-------------------------- MODULE DeliveryProofs --------------------------
(***************************************************************************)
(* Proofs about Delivery, for any number of readings, frames, messages and *)
(* goroutines, and an outbox of any size.                                  *)
(***************************************************************************)
EXTENDS Delivery, SequenceTheorems, TLAPS

USE DEF vars, hub, debouncer, client, history

-----------------------------------------------------------------------------
(* Types. *)

LEMMA IdleType == Idle \in Job
BY DEF Idle, Job, Pcs

(* A goroutine that goes on keeps its record, one that ends has none.      *)
LEMMA GoesType ==
    ASSUME TypeOK, NEW g \in Goroutines, NEW pc \in Pcs, Goes(g, pc)
    PROVE  job' \in [Goroutines -> Job]
<1>1. job[g] \in Job
  BY DEF TypeOK
<1>2. [job[g] EXCEPT !.pc = pc] \in Job
  BY <1>1 DEF Job
<1> QED BY <1>2 DEF Goes, TypeOK

LEMMA SendsType ==
    ASSUME TypeOK, NEW g \in Goroutines, NEW record \in Nat, NEW then \in {"idle", "spawn"},
           Sends(g, record, then)
    PROVE  job' \in [Goroutines -> Job]
<1>1. [pc |-> "enqueue", record |-> record, then |-> then] \in Job
  BY DEF Job, Pcs
<1> QED BY <1>1 DEF Sends, TypeOK

LEMMA EndsType ==
    ASSUME TypeOK, NEW g \in Goroutines, Ends(g)
    PROVE  job' \in [Goroutines -> Job]
BY IdleType DEF Ends, TypeOK

LEMMA ContinueType ==
    ASSUME TypeOK, NEW g \in Goroutines, Continue(g)
    PROVE  job' \in [Goroutines -> Job]
<1>1. job[g] \in Job
  BY DEF TypeOK
<1>2. [Idle EXCEPT !.pc = job[g].then] \in Job
  BY <1>1 DEF Job, Idle, Pcs
<1> QED BY <1>2 DEF Continue, TypeOK

(* The debouncer's state.                                                  *)
LEMMA ExistingType ==
    ASSUME TypeOK
    PROVE  /\ Existing \in State
           /\ \A r \in Nat : WithLatest(r) \in State
<1>1. NewState \in State
  BY DEF NewState, State, TimerStates
<1>2. Existing \in State
  BY <1>1 DEF Existing, TypeOK
<1>3. ASSUME NEW r \in Nat PROVE WithLatest(r) \in State
  <2> DEFINE e == Existing
  <2>1. e \in State
    BY <1>2
  <2> HIDE DEF e
  <2>2. [e EXCEPT !.latest = r, !.beat = "armed"] \in State
    BY <2>1 DEF State, TimerStates
  <2> QED BY <2>2 DEF WithLatest, e
<1> QED BY <1>2, <1>3

LEMMA RevivesType ==
    ASSUME TypeOK, Revives
    PROVE  revived' \in BOOLEAN
BY DEF Revives

LEMMA ArmedType == \A timer : Armed(timer) \in Nat
BY DEF Armed

LEMMA CapacityType ==
    ASSUME TypeOK
    PROVE  workload.capacity \in Nat /\ workload.capacity > 0
BY DeliveryAssumption DEF TypeOK

LEMMA GoroutineNames ==
    /\ {"ingest", "reader", "closer", "other"} \subseteq Goroutines
    /\ Loads \subseteq Goroutines /\ Timers \subseteq Goroutines
BY DEF Goroutines

LEMMA InitType == Init => TypeOK
<1> SUFFICES ASSUME Init PROVE TypeOK
  OBVIOUS
<1>1. job \in [Goroutines -> Job]
  BY IdleType DEF Init
<1>2. outbox \in Seq(Nat) /\ Len(outbox) = 0
  BY DEF Init
<1>3. workload.capacity \in Nat
  BY DeliveryAssumption DEF Init
<1>4. Len(outbox) <= workload.capacity
  BY <1>2, <1>3
<1>5. strays \in [flush : Nat, beat : Nat]
  BY DEF Init
<1>6. cache \in Nat /\ last \in Nat /\ published \in Nat
  BY DEF Init
<1>7. state \in State \cup {Gone} /\ status \in {"open", "done"}
  BY DEF Init
<1>8. shown \in Nat /\ frames \in Nat /\ others \in Nat
  BY DEF Init
<1>9. workload \in Workloads /\ {subscribed, overtaken, revived} \subseteq BOOLEAN
  BY DEF Init
<1> QED BY <1>1, <1>2, <1>4, <1>5, <1>6, <1>7, <1>8, <1>9 DEF TypeOK

(* What is sent, by whatever goroutine.                                    *)
LEMMA SendType ==
    ASSUME TypeOK, NEW g \in Goroutines, Send(g)
    PROVE  TypeOK'
<1>0. job[g] \in Job /\ job[g].record \in Nat
  BY DEF TypeOK, Job
<1>1. outbox \in Seq(Nat) /\ Len(outbox) <= workload.capacity /\ workload.capacity \in Nat
  BY CapacityType DEF TypeOK
<1>2. Append(outbox, job[g].record) \in Seq(Nat)
      /\ Len(Append(outbox, job[g].record)) = Len(outbox) + 1
  BY <1>0, <1>1
<1>3. Len(outbox) \in Nat
  BY <1>1
<1>4. CASE Enqueue(g)
  <2>1. job' \in [Goroutines -> Job]
    BY <1>4, GoesType, ContinueType DEF Enqueue, Pcs
  <2>2. \/ outbox' = outbox
        \/ outbox' = Append(outbox, job[g].record) /\ Len(outbox) < workload.capacity
    BY <1>4 DEF Enqueue, TypeOK
  <2>3. outbox' \in Seq(Nat) /\ Len(outbox') <= workload.capacity
    <3>1. CASE outbox' = outbox
      BY <1>1, <3>1
    <3>2. CASE outbox' = Append(outbox, job[g].record) /\ Len(outbox) < workload.capacity
      BY <1>1, <1>2, <1>3, <3>2
    <3> QED BY <2>2, <3>1, <3>2
  <2> QED BY <1>4, <2>1, <2>3 DEF Enqueue, TypeOK
<1>5. CASE DropOldest(g)
  <2>1. job' \in [Goroutines -> Job]
    BY <1>5, GoesType DEF DropOldest, Pcs
  <2>2. outbox # <<>> => Tail(outbox) \in Seq(Nat) /\ Len(Tail(outbox)) = Len(outbox) - 1
    BY <1>1, HeadTailProperties
  <2>3. outbox' \in Seq(Nat) /\ Len(outbox') <= workload.capacity
    BY <1>1, <1>3, <1>5, <2>2 DEF DropOldest
  <2> QED BY <1>5, <2>1, <2>3 DEF DropOldest, TypeOK
<1>6. CASE EnqueueAgain(g)
  <2>1. job' \in [Goroutines -> Job]
    BY <1>6, ContinueType DEF EnqueueAgain
  <2>2. outbox' \in Seq(Nat) /\ Len(outbox') <= workload.capacity
    BY <1>1, <1>2, <1>3, <1>6 DEF EnqueueAgain
  <2> QED BY <1>6, <2>1, <2>2 DEF EnqueueAgain, TypeOK
<1> QED BY <1>4, <1>5, <1>6 DEF Send

(* The ingest.                                                             *)
LEMMA IngestType ==
    ASSUME TypeOK, UpdateCache \/ HubPublish \/ PublishNow \/ PublishLater
    PROVE  TypeOK'
<1>0. "ingest" \in Goroutines /\ job["ingest"] \in Job /\ job["ingest"].record \in Nat
  BY GoroutineNames DEF TypeOK, Job
<1> DEFINE r == job["ingest"].record
<1> DEFINE w == WithLatest(r)
<1>1. CASE UpdateCache
  <2>1. cache + 1 \in Nat
    BY DEF TypeOK
  <2>2. [Idle EXCEPT !.pc = "publish", !.record = cache + 1] \in Job
    BY <2>1 DEF Idle, Job, Pcs
  <2>3. job' \in [Goroutines -> Job]
    BY <1>1, <2>2 DEF UpdateCache, TypeOK
  <2> QED BY <1>1, <2>1, <2>3 DEF UpdateCache, TypeOK
<1>2. CASE HubPublish
  <2>1. job' \in [Goroutines -> Job]
    BY <1>0, <1>2, GoesType, EndsType DEF HubPublish, Pcs
  <2>2. last' \in Nat
    BY <1>0, <1>2 DEF HubPublish, LastByTag, Later, TypeOK
  <2> QED BY <1>0, <1>2, <2>1, <2>2 DEF HubPublish, TypeOK
<1>3. w \in State
  BY <1>0, ExistingType
<1> HIDE DEF w
<1>4. CASE PublishNow
  <2>1. job' \in [Goroutines -> Job]
    BY <1>0, <1>4, SendsType DEF PublishNow
  <2>2. [w EXCEPT !.pending = 0, !.sent = TRUE] \in State
    BY <1>3 DEF State
  <2>3. state' \in State
    BY <1>4, <2>2 DEF PublishNow, w
  <2> QED BY <1>4, <2>1, <2>3, RevivesType DEF PublishNow, TypeOK
<1>5. CASE PublishLater
  <2>1. job' \in [Goroutines -> Job]
    BY <1>0, <1>5, EndsType DEF PublishLater
  <2>2. [w EXCEPT !.pending = r, !.flush = "armed"] \in State
    BY <1>0, <1>3 DEF State, TimerStates
  <2>3. state' \in State
    BY <1>5, <2>2 DEF PublishLater, w
  <2> QED BY <1>5, <2>1, <2>3 DEF PublishLater, TypeOK
<1> QED BY <1>1, <1>2, <1>4, <1>5

(* The timers.                                                             *)
LEMMA TimerType ==
    ASSUME TypeOK, NEW g \in Timers,
           FireFlush(g) \/ FireBeat(g) \/ flushPending(g) \/ emitHeartbeat(g)
    PROVE  TypeOK'
<1>0. g \in Goroutines
  BY GoroutineNames
<1>1. /\ strays \in [flush : Nat, beat : Nat]
      /\ strays.flush \in Nat /\ strays.beat \in Nat
  BY DEF TypeOK
<1>2. state # Gone => state \in State /\ state.pending \in Nat /\ state.latest \in Nat
  BY DEF TypeOK, State
<1>3. CASE FireFlush(g)
  <2>1. job' \in [Goroutines -> Job]
    BY <1>0, <1>3, GoesType DEF FireFlush, Pcs
  <2>2. CASE state # Gone /\ state' = [state EXCEPT !.flush = "fired"] /\ UNCHANGED strays
    <3>1. state' \in State
      BY <1>2, <2>2 DEF State, TimerStates
    <3> QED BY <1>3, <2>1, <2>2, <3>1 DEF FireFlush, TypeOK
  <2>3. CASE strays.flush > 0 /\ strays' = [strays EXCEPT !.flush = @ - 1] /\ UNCHANGED state
    <3>1. strays' \in [flush : Nat, beat : Nat]
      BY <1>1, <2>3
    <3> QED BY <1>3, <2>1, <2>3, <3>1 DEF FireFlush, TypeOK
  <2> QED BY <1>3, <2>2, <2>3 DEF FireFlush
<1>4. CASE FireBeat(g)
  <2>1. job' \in [Goroutines -> Job]
    BY <1>0, <1>4, GoesType DEF FireBeat, Pcs
  <2>2. CASE state # Gone /\ state' = [state EXCEPT !.beat = "fired"] /\ UNCHANGED strays
    <3>1. state' \in State
      BY <1>2, <2>2 DEF State, TimerStates
    <3> QED BY <1>4, <2>1, <2>2, <3>1 DEF FireBeat, TypeOK
  <2>3. CASE strays.beat > 0 /\ strays' = [strays EXCEPT !.beat = @ - 1] /\ UNCHANGED state
    <3>1. strays' \in [flush : Nat, beat : Nat]
      BY <1>1, <2>3
    <3> QED BY <1>4, <2>1, <2>3, <3>1 DEF FireBeat, TypeOK
  <2> QED BY <1>4, <2>2, <2>3 DEF FireBeat
<1>5. CASE flushPending(g)
  <2>1. job' \in [Goroutines -> Job]
    BY <1>0, <1>2, <1>5, EndsType, SendsType DEF flushPending
  <2>2. strays' \in [flush : Nat, beat : Nat]
    <3> DEFINE n == Armed(state.flush)
    <3>1. n \in Nat
      BY ArmedType
    <3> HIDE DEF n
    <3>2. [strays EXCEPT !.flush = @ + n] \in [flush : Nat, beat : Nat]
      BY <1>1, <3>1
    <3> QED BY <1>1, <1>5, <3>2 DEF flushPending, n
  <2>3. state' \in State \cup {Gone}
    <3>1. CASE state = Gone
      BY <1>5, <3>1 DEF flushPending
    <3>2. CASE state # Gone
      <4>1. /\ [state EXCEPT !.flush = "none"] \in State
            /\ [state EXCEPT !.flush = "none", !.pending = 0, !.sent = TRUE,
                             !.beat = "armed"] \in State
        BY <1>2, <3>2 DEF State, TimerStates
      <4> QED BY <1>5, <3>2, <4>1 DEF flushPending
    <3> QED BY <3>1, <3>2
  <2> QED BY <1>5, <2>1, <2>2, <2>3 DEF flushPending, TypeOK
<1>6. CASE emitHeartbeat(g)
  <2>1. job' \in [Goroutines -> Job]
    BY <1>0, <1>2, <1>6, EndsType, SendsType DEF emitHeartbeat
  <2>2. strays' \in [flush : Nat, beat : Nat]
    <3> DEFINE n == Armed(state.beat)
    <3>1. n \in Nat
      BY ArmedType
    <3> HIDE DEF n
    <3>2. [strays EXCEPT !.beat = @ + n] \in [flush : Nat, beat : Nat]
      BY <1>1, <3>1
    <3> QED BY <1>1, <1>6, <3>2 DEF emitHeartbeat, n
  <2>3. state' \in State \cup {Gone}
    <3>1. CASE state = Gone
      BY <1>6, <3>1 DEF emitHeartbeat
    <3>2. CASE state # Gone
      <4>1. /\ [state EXCEPT !.beat = "none"] \in State
            /\ [state EXCEPT !.beat = NextBeat] \in State
        BY <1>2, <3>2 DEF State, TimerStates, NextBeat
      <4> QED BY <1>6, <3>2, <4>1 DEF emitHeartbeat
    <3> QED BY <3>1, <3>2
  <2> QED BY <1>6, <2>1, <2>2, <2>3 DEF emitHeartbeat, TypeOK
<1> QED BY <1>3, <1>4, <1>5, <1>6

(* The client's frames.                                                    *)
LEMMA ReaderType ==
    ASSUME TypeOK,
           ReadFrame \/ Subscribe \/ Ensure \/ Unsubscribe \/ Remove \/ (\E l \in Loads : Spawn(l))
    PROVE  TypeOK'
<1>0. "reader" \in Goroutines
  BY GoroutineNames
<1>1. CASE Subscribe
  <2>1. job' \in [Goroutines -> Job]
    BY <1>0, <1>1, GoesType, SendsType DEF Subscribe, Pcs
  <2>2. subscribed' \in BOOLEAN /\ revived' \in BOOLEAN
    BY <1>1 DEF Subscribe
  <2> QED BY <1>1, <2>1, <2>2 DEF Subscribe, TypeOK
<1>2. CASE Ensure
  <2>1. job' \in [Goroutines -> Job]
    BY <1>0, <1>2, SendsType DEF Ensure
  <2>2. state' \in State
    BY <1>2, ExistingType DEF Ensure
  <2> QED BY <1>2, <2>1, <2>2, RevivesType DEF Ensure, TypeOK
<1>3. CASE Unsubscribe
  <2>1. job' \in [Goroutines -> Job]
    BY <1>0, <1>3, GoesType, EndsType DEF Unsubscribe, Pcs
  <2>2. subscribed' \in BOOLEAN
    BY <1>3, Zenon DEF Unsubscribe
  <2> QED BY <1>3, <2>1, <2>2 DEF Unsubscribe, TypeOK
<1>4. CASE Remove
  <2>1. job' \in [Goroutines -> Job]
    BY <1>0, <1>4, SendsType DEF Remove
  <2> QED BY <1>4, <2>1 DEF Remove, TypeOK
<1>5. ASSUME NEW l \in Loads, Spawn(l) PROVE TypeOK'
  <2>1. job[l] \in Job /\ Idle \in Job /\ l # "reader"
    BY GoroutineNames, IdleType, DeliveryAssumption DEF TypeOK
  <2>2. [job[l] EXCEPT !.pc = "load"] \in Job
    BY <2>1 DEF Job, Pcs
  <2>3. job' = [job EXCEPT !["reader"] = Idle, ![l] = [job[l] EXCEPT !.pc = "load"]]
    BY <1>0, <1>5, <2>1, GoroutineNames DEF Spawn, TypeOK
  <2>4. job' \in [Goroutines -> Job]
    BY <2>1, <2>2, <2>3 DEF TypeOK
  <2> QED BY <1>5, <2>4 DEF Spawn, TypeOK
<1>6. CASE ReadFrame
  <2>1. job' \in [Goroutines -> Job]
    BY <1>0, <1>6, GoesType DEF ReadFrame, Pcs
  <2>2. frames' \in Nat
    BY <1>6 DEF ReadFrame, TypeOK
  <2> QED BY <1>6, <2>1, <2>2 DEF ReadFrame, TypeOK
<1> QED BY <1>1, <1>2, <1>3, <1>4, <1>5, <1>6

LEMMA SnapshotType ==
    ASSUME TypeOK, NEW l \in Loads,
           Load(l) \/ GetLastValue(l) \/ GetLastValueFails(l) \/ StoreLast(l) \/ Touch(l)
    PROVE  TypeOK'
<1>0. l \in Goroutines /\ job[l] \in Job /\ job[l].record \in Nat
  BY GoroutineNames DEF TypeOK, Job
<1>1. CASE Load(l)
  <2>1. ASSUME NEW pc \in {"read", "touch"}
        PROVE  [job[l] EXCEPT !.pc = pc, !.record = last] \in Job
    BY <1>0 DEF Job, Pcs, TypeOK
  <2>2. job' = [job EXCEPT ![l] =
                    [job[l] EXCEPT !.pc = IF last = 0 THEN "read" ELSE "touch", !.record = last]]
    BY <1>0, <1>1 DEF Load, TypeOK
  <2>3. job' \in [Goroutines -> Job]
    BY <2>1, <2>2 DEF TypeOK
  <2> QED BY <1>1, <2>3 DEF Load, TypeOK
<1>2. CASE GetLastValue(l)
  <2>1. [job[l] EXCEPT !.pc = "store", !.record = cache] \in Job
    BY <1>0 DEF Job, Pcs, TypeOK
  <2>2. job' = [job EXCEPT ![l] = [job[l] EXCEPT !.pc = "store", !.record = cache]]
    BY <1>0, <1>2 DEF GetLastValue, TypeOK
  <2>3. job' \in [Goroutines -> Job]
    BY <2>1, <2>2 DEF TypeOK
  <2> QED BY <1>2, <2>3 DEF GetLastValue, TypeOK
<1>3. CASE GetLastValueFails(l)
  <2>1. job' \in [Goroutines -> Job]
    BY <1>0, <1>3, EndsType DEF GetLastValueFails
  <2> QED BY <1>3, <2>1 DEF GetLastValueFails, TypeOK
<1>4. CASE StoreLast(l)
  <2>1. job' \in [Goroutines -> Job]
    BY <1>0, <1>4, GoesType DEF StoreLast, Pcs
  <2>2. last' \in Nat
    BY <1>0, <1>4 DEF StoreLast, LastByTag, Later, TypeOK
  <2> QED BY <1>4, <2>1, <2>2 DEF StoreLast, TypeOK
<1>5. CASE Touch(l)
  <2>1. job' \in [Goroutines -> Job]
    BY <1>0, <1>5, SendsType DEF Touch
  <2>2. state' \in State
    BY <1>0, <1>5, ExistingType DEF Touch
  <2>3. overtaken' \in BOOLEAN
    BY <1>5 DEF Touch
  <2> QED BY <1>5, <2>1, <2>2, <2>3, RevivesType DEF Touch, TypeOK
<1> QED BY <1>1, <1>2, <1>3, <1>4, <1>5

(* The outbox and the end of the connection.                               *)
LEMMA ConnectionType ==
    ASSUME TypeOK, EnqueueOther \/ WriteMessage \/ Close \/ Closing
    PROVE  TypeOK'
<1>0. {"other", "closer"} \subseteq Goroutines
  BY GoroutineNames
<1>1. CASE EnqueueOther
  <2>1. job' \in [Goroutines -> Job]
    BY <1>0, <1>1, SendsType DEF EnqueueOther
  <2> QED BY <1>1, <2>1 DEF EnqueueOther, TypeOK
<1>2. CASE WriteMessage
  <2>1. outbox \in Seq(Nat) /\ outbox # <<>> /\ Len(outbox) <= workload.capacity
    BY <1>2 DEF WriteMessage, TypeOK
  <2>2. /\ Head(outbox) \in Nat
        /\ Tail(outbox) \in Seq(Nat) /\ Len(Tail(outbox)) = Len(outbox) - 1
    BY <2>1, HeadTailProperties
  <2>3. Len(outbox) \in Nat /\ workload.capacity \in Nat
    BY <2>1, CapacityType
  <2>4. Len(Tail(outbox)) <= workload.capacity
    BY <2>1, <2>2, <2>3
  <2>5. shown' \in Nat
    BY <1>2, <2>2 DEF WriteMessage, handleMessage, TypeOK
  <2> QED BY <1>2, <2>2, <2>4, <2>5 DEF WriteMessage, TypeOK
<1>3. CASE Close
  <2>1. job' \in [Goroutines -> Job]
    BY <1>0, <1>3, GoesType DEF Close, Pcs
  <2> QED BY <1>3, <2>1 DEF Close, TypeOK
<1>4. CASE UnregisterConnection
  <2>1. job' \in [Goroutines -> Job]
    BY <1>0, <1>4, GoesType DEF UnregisterConnection, Pcs
  <2> QED BY <1>4, <2>1 DEF UnregisterConnection, TypeOK
<1>5. CASE StopConnection
  <2>1. job' \in [Goroutines -> Job]
    BY <1>0, <1>5, EndsType DEF StopConnection
  <2> QED BY <1>5, <2>1 DEF StopConnection, Stopped, TypeOK
<1> QED BY <1>1, <1>2, <1>3, <1>4, <1>5 DEF Closing

LEMMA NextType == TypeOK /\ [Next]_vars => TypeOK'
<1> SUFFICES ASSUME TypeOK, [Next]_vars PROVE TypeOK'
  OBVIOUS
<1>1. CASE UpdateCache \/ HubPublish \/ PublishNow \/ PublishLater
  BY <1>1, IngestType
<1>2. CASE ReadFrame \/ Subscribe \/ Ensure \/ Unsubscribe \/ Remove \/ (\E l \in Loads : Spawn(l))
  BY <1>2, ReaderType
<1>3. ASSUME NEW l \in Loads,
             Load(l) \/ GetLastValue(l) \/ GetLastValueFails(l) \/ StoreLast(l) \/ Touch(l)
      PROVE  TypeOK'
  BY <1>3, SnapshotType
<1>4. ASSUME NEW g \in Timers,
             FireFlush(g) \/ FireBeat(g) \/ flushPending(g) \/ emitHeartbeat(g)
      PROVE  TypeOK'
  BY <1>4, TimerType
<1>5. ASSUME NEW g \in Goroutines, Send(g) PROVE TypeOK'
  BY <1>5, SendType
<1>6. CASE EnqueueOther \/ WriteMessage \/ Close \/ Closing
  BY <1>6, ConnectionType
<1>7. CASE UNCHANGED vars
  BY <1>7 DEF TypeOK
<1> QED BY <1>1, <1>2, <1>3, <1>4, <1>5, <1>6, <1>7, GoroutineNames
        DEF Next, Publish, Read, Snapshot, Fire

(* The variables keep their types, and the outbox its bound, although each *)
(* sender tests the length before it sends and another may have sent since *)
(* (connection.go:343).                                                    *)
THEOREM TypeCorrect == Spec => []TypeOK
<1>1. Init => TypeOK
  BY InitType
<1>2. TypeOK /\ [Next]_vars => TypeOK'
  BY NextType
<1> QED BY <1>1, <1>2, PTL DEF Spec

-----------------------------------------------------------------------------
(* The subscriber is told, and nothing is left behind. *)

(* What the goroutines know: a reading is handed to the debouncer while it *)
(* is still the last published one, and who is about to remove the state   *)
(* has removed the subscription.                                           *)
Roles ==
    /\ published <= last
    /\ job["ingest"].pc = "debounce" => job["ingest"].record = published
    /\ job["reader"].pc = "remove" => ~subscribed
    /\ job["closer"].pc \in {"unregister", "stop"} => status = "done"

Kept == status = "open" /\ subscribed /\ job["reader"].pc # "ensure" => state # Gone

(* Who will still bring the last published reading to the debouncer, or    *)
(* that it has been brought.                                               *)
ToSpawn ==
    \/ job["reader"].pc \in {"ensure", "spawn"}
    \/ job["reader"].pc \in {"enqueue", "drop", "again"} /\ job["reader"].then = "spawn"

Bringing(l) ==
    job[l].pc = "load" \/ (job[l].pc = "touch" /\ job[l].record >= published)

Brought == state # Gone /\ state.latest >= published

Informed ==
    status = "open" /\ subscribed =>
        \/ overtaken
        \/ job["ingest"].pc = "debounce"
        \/ ToSpawn
        \/ \E l \in Loads : Bringing(l)
        \/ Brought

IInv == TypeOK /\ Roles /\ Kept /\ Informed /\ NothingLeftBehind

LEMMA InvariantImplies == IInv => SubscribedIsCurrent
<1> SUFFICES ASSUME IInv, status = "open", subscribed, state # Gone, Settled
             PROVE  state.latest >= published \/ overtaken
  BY DEF SubscribedIsCurrent
<1>1. ~ToSpawn /\ job["ingest"].pc # "debounce"
  BY DEF Settled, ToSpawn
<1>2. ~ \E l \in Loads : Bringing(l)
  BY DEF Settled, Bringing
<1> QED BY <1>1, <1>2 DEF IInv, Informed, Brought

LEMMA InitInv == Init => IInv
<1> SUFFICES ASSUME Init PROVE IInv
  OBVIOUS
<1>1. TypeOK
  BY InitType
<1>2. /\ job["ingest"].pc = "idle"
      /\ job["reader"].pc = "idle"
      /\ job["closer"].pc = "idle"
  BY GoroutineNames DEF Init, Idle
<1>3. Roles
  BY <1>2 DEF Init, Roles
<1>4. Kept /\ Informed /\ NothingLeftBehind
  BY <1>2 DEF Init, Kept, Informed, NothingLeftBehind, Unregistered
<1> QED BY <1>1, <1>3, <1>4 DEF IInv

(* What a step makes of the job of its goroutine; the others' stay.        *)
LEMMA OneJob ==
    ASSUME TypeOK, NEW g \in Goroutines, NEW j, job' = [job EXCEPT ![g] = j]
    PROVE  job'[g] = j /\ \A h \in Goroutines \ {g} : job'[h] = job[h]
BY DEF TypeOK

LEMMA GoesJob ==
    ASSUME TypeOK, NEW g \in Goroutines, NEW pc, Goes(g, pc)
    PROVE  /\ job'[g].pc = pc /\ job'[g].record = job[g].record /\ job'[g].then = job[g].then
           /\ \A h \in Goroutines \ {g} : job'[h] = job[h]
<1>1. job[g] \in Job
  BY DEF TypeOK
<1>2. job' = [job EXCEPT ![g] = [job[g] EXCEPT !.pc = pc]]
  BY DEF Goes, TypeOK
<1>3. /\ job'[g] = [job[g] EXCEPT !.pc = pc]
      /\ \A h \in Goroutines \ {g} : job'[h] = job[h]
  BY <1>2, OneJob
<1> QED BY <1>1, <1>3 DEF Job

LEMMA SendsJob ==
    ASSUME TypeOK, NEW g \in Goroutines, NEW record, NEW then, Sends(g, record, then)
    PROVE  /\ job'[g].pc = "enqueue" /\ job'[g].record = record /\ job'[g].then = then
           /\ \A h \in Goroutines \ {g} : job'[h] = job[h]
<1> DEFINE j == [pc |-> "enqueue", record |-> record, then |-> then]
<1>1. j.pc = "enqueue" /\ j.record = record /\ j.then = then
  OBVIOUS
<1>2. job' = [job EXCEPT ![g] = j]
  BY DEF Sends
<1> HIDE DEF j
<1>3. job'[g] = j /\ \A h \in Goroutines \ {g} : job'[h] = job[h]
  BY <1>2, OneJob
<1> QED BY <1>1, <1>3

LEMMA EndsJob ==
    ASSUME TypeOK, NEW g \in Goroutines, Ends(g)
    PROVE  /\ job'[g].pc = "idle"
           /\ \A h \in Goroutines \ {g} : job'[h] = job[h]
<1>1. Idle.pc = "idle"
  BY DEF Idle
<1>2. job'[g] = Idle /\ \A h \in Goroutines \ {g} : job'[h] = job[h]
  BY OneJob DEF Ends
<1> QED BY <1>1, <1>2

LEMMA ContinueJob ==
    ASSUME TypeOK, NEW g \in Goroutines, Continue(g)
    PROVE  /\ job'[g].pc = job[g].then /\ job[g].then \in {"idle", "spawn"}
           /\ \A h \in Goroutines \ {g} : job'[h] = job[h]
<1>1. job[g] \in Job
  BY DEF TypeOK
<1>2. job'[g] = [Idle EXCEPT !.pc = job[g].then] /\ \A h \in Goroutines \ {g} : job'[h] = job[h]
  BY OneJob DEF Continue
<1> QED BY <1>1, <1>2 DEF Idle, Job

(* The goroutines are different ones.                                      *)
LEMMA Distinct ==
    /\ {"ingest", "reader", "closer", "other"} \subseteq Goroutines
    /\ \A g \in Loads \cup Timers :
           g \in Goroutines /\ g \notin {"ingest", "reader", "closer", "other"}
    /\ \A l \in Loads, g \in Timers : l # g
BY DeliveryAssumption DEF Goroutines

LEMMA SendInv ==
    ASSUME IInv, NEW g \in Goroutines, Send(g)
    PROVE  Roles' /\ Kept' /\ Informed' /\ NothingLeftBehind'
<1>0. TypeOK /\ Roles /\ Kept /\ Informed /\ NothingLeftBehind
  BY DEF IInv
<1>1. job[g].pc \in {"enqueue", "drop", "again"}
  BY DEF Send, Enqueue, DropOldest, EnqueueAgain
<1>2. UNCHANGED <<last, subscribed, state, status, published, overtaken, revived>>
  BY DEF Send, Enqueue, DropOldest, EnqueueAgain
<1>3. Goes(g, "drop") \/ Goes(g, "again") \/ Continue(g)
  BY DEF Send, Enqueue, DropOldest, EnqueueAgain
<1>4. /\ \/ job'[g].pc \in {"drop", "again"} /\ job'[g].then = job[g].then
         \/ job'[g].pc = job[g].then /\ job[g].then \in {"idle", "spawn"}
      /\ \A h \in Goroutines \ {g} : job'[h] = job[h]
  BY <1>0, <1>3, GoesJob, ContinueJob
<1>5. \A h \in Goroutines : job'[h] = job[h] \/ h = g
  BY <1>4
<1>6. \A h \in {"ingest", "reader", "closer"} :
          \/ job'[h] = job[h]
          \/ job[h].pc \in {"enqueue", "drop", "again"} /\ job'[h].pc \in {"drop", "again", "idle", "spawn"}
  BY <1>1, <1>4, <1>5, Distinct
<1>7. Roles'
  BY <1>0, <1>2, <1>6 DEF Roles
<1>8. Kept' /\ NothingLeftBehind'
  BY <1>0, <1>2, <1>6 DEF Kept, NothingLeftBehind, Unregistered
<1>9. Informed'
  <2>1. ToSpawn => ToSpawn'
    BY <1>1, <1>4, <1>5, Distinct DEF ToSpawn
  <2>2. \A l \in Loads : Bringing(l) => Bringing(l)'
    BY <1>1, <1>2, <1>5, Distinct DEF Bringing
  <2>3. job["ingest"].pc = "debounce" => job'["ingest"].pc = "debounce"
    BY <1>6
  <2> QED BY <1>0, <1>2, <2>1, <2>2, <2>3 DEF Informed, Brought
<1> QED BY <1>7, <1>8, <1>9

LEMMA TimerInv ==
    ASSUME IInv, NEW g \in Timers,
           FireFlush(g) \/ FireBeat(g) \/ flushPending(g) \/ emitHeartbeat(g)
    PROVE  Roles' /\ Kept' /\ Informed' /\ NothingLeftBehind'
<1>0. TypeOK /\ Roles /\ Kept /\ Informed /\ NothingLeftBehind
  BY DEF IInv
<1>1. g \in Goroutines
  BY Distinct
<1>2. UNCHANGED <<last, subscribed, status, published, overtaken, revived>>
  BY DEF FireFlush, FireBeat, flushPending, emitHeartbeat
<1>3. \A h \in Goroutines \ {g} : job'[h] = job[h]
  <2>1. CASE FireFlush(g) \/ FireBeat(g)
    BY <1>0, <1>1, <2>1, GoesJob DEF FireFlush, FireBeat
  <2>2. CASE flushPending(g)
    BY <1>0, <1>1, <2>2, EndsJob, SendsJob DEF flushPending
  <2>3. CASE emitHeartbeat(g)
    BY <1>0, <1>1, <2>3, EndsJob, SendsJob DEF emitHeartbeat
  <2> QED BY <2>1, <2>2, <2>3
<1>4. /\ job'["ingest"] = job["ingest"]
      /\ job'["reader"] = job["reader"]
      /\ job'["closer"] = job["closer"]
      /\ \A l \in Loads : job'[l] = job[l]
  BY <1>3, Distinct
<1>5. /\ state = Gone => state' = Gone
      /\ state # Gone => state' # Gone /\ state'.latest = state.latest
  <2>1. CASE state = Gone
    BY <2>1 DEF FireFlush, FireBeat, flushPending, emitHeartbeat
  <2>2. CASE state # Gone
    <3>1. state \in State
      BY <1>0, <2>2 DEF TypeOK
    <3>2. \/ state' = state
          \/ \E f \in TimerStates : state' = [state EXCEPT !.flush = f]
          \/ \E b \in TimerStates : state' = [state EXCEPT !.beat = b]
          \/ state' = [state EXCEPT !.flush = "none", !.pending = 0, !.sent = TRUE,
                                    !.beat = "armed"]
      <4>1. {"none", "armed", "fired", NextBeat} \subseteq TimerStates
        BY DEF TimerStates, NextBeat
      <4>2. CASE FireFlush(g) \/ FireBeat(g)
        BY <2>2, <4>1, <4>2 DEF FireFlush, FireBeat
      <4>3. CASE flushPending(g)
        BY <2>2, <4>1, <4>3 DEF flushPending
      <4>4. CASE emitHeartbeat(g)
        BY <2>2, <4>1, <4>4 DEF emitHeartbeat
      <4> QED BY <4>2, <4>3, <4>4
    <3>3. state' \in State /\ state'.latest = state.latest
      <4>1. ASSUME NEW t \in TimerStates
            PROVE  /\ [state EXCEPT !.flush = t] \in State
                   /\ [state EXCEPT !.flush = t].latest = state.latest
                   /\ [state EXCEPT !.beat = t] \in State
                   /\ [state EXCEPT !.beat = t].latest = state.latest
        BY <3>1 DEF State
      <4>2. LET x == [state EXCEPT !.flush = "none", !.pending = 0, !.sent = TRUE,
                                   !.beat = "armed"]
            IN  x \in State /\ x.latest = state.latest
        BY <3>1 DEF State, TimerStates
      <4> QED BY <3>1, <3>2, <4>1, <4>2
    <3> QED BY <2>2, <3>3, DeliveryAssumption
  <2> QED BY <2>1, <2>2
<1>6. Roles'
  BY <1>0, <1>2, <1>4 DEF Roles
<1>7. Kept' /\ NothingLeftBehind'
  BY <1>0, <1>2, <1>4, <1>5 DEF Kept, NothingLeftBehind, Unregistered
<1>8. Informed'
  BY <1>0, <1>2, <1>4, <1>5 DEF Informed, ToSpawn, Bringing, Brought
<1> QED BY <1>6, <1>7, <1>8

LEMMA IngestInv ==
    ASSUME IInv, UpdateCache \/ HubPublish \/ PublishNow \/ PublishLater
    PROVE  Roles' /\ Kept' /\ Informed' /\ NothingLeftBehind'
<1>0. TypeOK /\ Roles /\ Kept /\ Informed /\ NothingLeftBehind
  BY DEF IInv
<1>1. "ingest" \in Goroutines /\ job["ingest"] \in Job /\ job["ingest"].record \in Nat
  BY <1>0, Distinct DEF TypeOK, Job
<1>2. UNCHANGED <<subscribed, status, overtaken>>
  BY DEF UpdateCache, HubPublish, PublishNow, PublishLater
<1>3. \A h \in Goroutines \ {"ingest"} : job'[h] = job[h]
  <2>1. CASE UpdateCache
    BY <1>0, <1>1, <2>1, OneJob DEF UpdateCache
  <2>2. CASE HubPublish
    BY <1>0, <1>1, <2>2, GoesJob, EndsJob DEF HubPublish
  <2>3. CASE PublishNow
    BY <1>0, <1>1, <2>3, SendsJob DEF PublishNow
  <2>4. CASE PublishLater
    BY <1>0, <1>1, <2>4, EndsJob DEF PublishLater
  <2> QED BY <2>1, <2>2, <2>3, <2>4
<1>4. /\ job'["reader"] = job["reader"]
      /\ job'["closer"] = job["closer"]
      /\ \A l \in Loads : job'[l] = job[l]
  BY <1>3, Distinct
<1>5. CASE UpdateCache
  <2>1. job'["ingest"].pc = "publish" /\ job["ingest"].pc = "idle"
    <3>1. [Idle EXCEPT !.pc = "publish", !.record = cache + 1].pc = "publish"
      BY DEF Idle
    <3>2. Idle.pc = "idle"
      BY DEF Idle
    <3> QED BY <1>0, <1>1, <1>5, <3>1, <3>2, OneJob DEF UpdateCache
  <2>2. UNCHANGED <<last, state, published, revived>>
    BY <1>5 DEF UpdateCache
  <2>3. Roles'
    BY <1>0, <1>2, <1>4, <2>1, <2>2 DEF Roles
  <2>4. Kept' /\ NothingLeftBehind'
    BY <1>0, <1>2, <1>4, <2>2 DEF Kept, NothingLeftBehind, Unregistered
  <2>5. Informed'
    BY <1>0, <1>2, <1>4, <2>1, <2>2 DEF Informed, ToSpawn, Bringing, Brought
  <2> QED BY <2>3, <2>4, <2>5
<1>6. CASE HubPublish
  <2>1. UNCHANGED <<state, revived>> /\ published' = job["ingest"].record
    BY <1>6 DEF HubPublish
  <2>2. /\ subscribed => /\ job'["ingest"].pc = "debounce"
                         /\ job'["ingest"].record = job["ingest"].record
        /\ ~subscribed => job'["ingest"].pc = "idle"
    BY <1>0, <1>1, <1>6, GoesJob, EndsJob DEF HubPublish
  <2>3. published' <= last'
    BY <1>0, <1>1, <1>6 DEF HubPublish, LastByTag, Later, TypeOK
  <2>4. Roles'
    BY <1>0, <1>2, <1>4, <2>1, <2>2, <2>3 DEF Roles
  <2>5. Kept' /\ NothingLeftBehind'
    BY <1>0, <1>2, <1>4, <2>1 DEF Kept, NothingLeftBehind, Unregistered
  <2>6. Informed'
    BY <1>2, <2>2 DEF Informed
  <2> QED BY <2>4, <2>5, <2>6
<1>7. ASSUME PublishNow \/ PublishLater
      PROVE  /\ state' \in State /\ state'.latest = job["ingest"].record
             /\ state = Gone /\ ~subscribed => revived'
             /\ revived => revived'
  <2> DEFINE r == job["ingest"].record
  <2> DEFINE w == WithLatest(r)
  <2>1. w \in State /\ w.latest = r
    <3> DEFINE e == Existing
    <3>1. e \in State
      BY <1>0, ExistingType
    <3> HIDE DEF e
    <3>2. LET x == [e EXCEPT !.latest = r, !.beat = "armed"] IN x \in State /\ x.latest = r
      BY <1>1, <3>1 DEF State, TimerStates
    <3> QED BY <3>2 DEF WithLatest, e
  <2> HIDE DEF w
  <2>2. CASE PublishNow
    <3>1. LET x == [w EXCEPT !.pending = 0, !.sent = TRUE] IN x \in State /\ x.latest = r
      BY <2>1 DEF State
    <3>2. state' \in State /\ state'.latest = r
      BY <2>2, <3>1 DEF PublishNow, w
    <3>3. revived' = (revived \/ (state = Gone /\ ~subscribed))
      BY <2>2 DEF PublishNow, Revives
    <3> QED BY <3>2, <3>3
  <2>3. CASE PublishLater
    <3>1. LET x == [w EXCEPT !.pending = r, !.flush = "armed"] IN x \in State /\ x.latest = r
      BY <1>1, <2>1 DEF State, TimerStates
    <3>2. state' \in State /\ state'.latest = r
      BY <2>3, <3>1 DEF PublishLater, w
    <3>3. state # Gone
      BY <2>3 DEF PublishLater, Existing, NewState
    <3>4. UNCHANGED revived
      BY <2>3 DEF PublishLater
    <3> QED BY <3>2, <3>3, <3>4
  <2> QED BY <1>7, <2>2, <2>3
<1>8. CASE PublishNow \/ PublishLater
  <2>1. UNCHANGED <<last, published>> /\ job["ingest"].pc = "debounce"
    BY <1>8 DEF PublishNow, PublishLater
  <2>2. job'["ingest"].pc # "debounce"
    BY <1>0, <1>1, <1>8, EndsJob, SendsJob DEF PublishNow, PublishLater
  <2>3. Roles'
    BY <1>0, <1>2, <1>4, <2>1, <2>2 DEF Roles
  <2>4. state' # Gone
    BY <1>7, <1>8, DeliveryAssumption
  <2>5. Kept' /\ NothingLeftBehind'
    BY <1>0, <1>2, <1>4, <1>7, <1>8, <2>4 DEF Kept, NothingLeftBehind, Unregistered
  <2>6. state'.latest = published /\ published \in Nat
    BY <1>0, <1>7, <1>8, <2>1 DEF Roles, TypeOK
  <2>7. Informed'
    BY <2>1, <2>4, <2>6 DEF Informed, Brought
  <2> QED BY <2>3, <2>5, <2>7
<1> QED BY <1>5, <1>6, <1>8

LEMMA ReaderInv ==
    ASSUME IInv,
           ReadFrame \/ Subscribe \/ Ensure \/ Unsubscribe \/ Remove \/ (\E l \in Loads : Spawn(l))
    PROVE  Roles' /\ Kept' /\ Informed' /\ NothingLeftBehind'
<1>0. TypeOK /\ Roles /\ Kept /\ Informed /\ NothingLeftBehind
  BY DEF IInv
<1>1. {"ingest", "reader", "closer", "other"} \subseteq Goroutines
  BY Distinct
<1>2. UNCHANGED <<last, published, status, overtaken>>
  BY DEF ReadFrame, Subscribe, Ensure, Unsubscribe, Remove, Spawn
<1>8. CASE ReadFrame
  <2>1. /\ job["reader"].pc = "idle" /\ job'["reader"].pc \in {"subscribe", "unsubscribe"}
        /\ \A h \in Goroutines \ {"reader"} : job'[h] = job[h]
    BY <1>0, <1>1, <1>8, GoesJob DEF ReadFrame, Idle
  <2>2. /\ job'["ingest"] = job["ingest"] /\ job'["closer"] = job["closer"]
        /\ \A l \in Loads : job'[l] = job[l]
    BY <2>1, Distinct
  <2>3. UNCHANGED <<state, subscribed, revived>>
    BY <1>8 DEF ReadFrame
  <2>4. Roles'
    BY <1>0, <1>2, <2>1, <2>2, <2>3 DEF Roles
  <2>5. Kept' /\ NothingLeftBehind'
    BY <1>0, <1>2, <2>1, <2>2, <2>3 DEF Kept, NothingLeftBehind, Unregistered
  <2>6. Informed'
    BY <1>0, <1>2, <2>1, <2>2, <2>3 DEF Informed, ToSpawn, Bringing, Brought
  <2> QED BY <2>4, <2>5, <2>6
<1>3. CASE Subscribe
  <2>1. /\ \/ subscribed /\ job'["reader"].pc = "enqueue"
           \/ ~subscribed /\ job'["reader"].pc = "ensure"
        /\ \A h \in Goroutines \ {"reader"} : job'[h] = job[h]
    BY <1>0, <1>1, <1>3, GoesJob, SendsJob DEF Subscribe
  <2>6. /\ job'["ingest"] = job["ingest"] /\ job'["closer"] = job["closer"]
        /\ \A l \in Loads : job'[l] = job[l]
    BY <2>1, Distinct
  <2>2. /\ job["reader"].pc = "subscribe" /\ subscribed' /\ UNCHANGED state
        /\ revived' = (revived \/ (~subscribed /\ Unregistered))
    BY <1>3 DEF Subscribe
  <2>3. Roles'
    BY <1>0, <1>2, <2>1, <2>2, <2>6 DEF Roles
  <2>4. Kept' /\ NothingLeftBehind'
    BY <1>0, <1>2, <2>1, <2>2, <2>6 DEF Kept, NothingLeftBehind, Unregistered
  <2>5. Informed'
    <3>1. CASE ~subscribed
      BY <2>1, <3>1 DEF Informed, ToSpawn
    <3>2. CASE subscribed
      <4>1. ~ToSpawn
        BY <2>2 DEF ToSpawn
      <4>2. \A l \in Loads : Bringing(l) => Bringing(l)'
        BY <1>2, <2>6 DEF Bringing
      <4> QED BY <1>0, <1>2, <2>2, <2>6, <3>2, <4>1, <4>2 DEF Informed, Brought
    <3> QED BY <3>1, <3>2
  <2> QED BY <2>3, <2>4, <2>5
<1>4. CASE Ensure
  <2>1. /\ job["reader"].pc = "ensure"
        /\ job'["reader"].pc = "enqueue" /\ job'["reader"].then = "spawn"
        /\ job'["ingest"] = job["ingest"] /\ job'["closer"] = job["closer"]
    BY <1>0, <1>1, <1>4, SendsJob DEF Ensure
  <2>2. state' # Gone
    BY <1>0, <1>4, ExistingType, DeliveryAssumption DEF Ensure
  <2>3. UNCHANGED subscribed /\ revived' = (revived \/ (state = Gone /\ ~subscribed))
    BY <1>4 DEF Ensure, Revives
  <2>4. Roles'
    BY <1>0, <1>2, <2>1, <2>3 DEF Roles
  <2>5. Kept' /\ Informed'
    BY <2>1, <2>2 DEF Kept, Informed, ToSpawn
  <2>6. NothingLeftBehind'
    BY <1>0, <1>2, <2>1, <2>3 DEF NothingLeftBehind, Unregistered
  <2> QED BY <2>4, <2>5, <2>6
<1>5. CASE Unsubscribe
  <2>1. /\ \/ subscribed /\ job'["reader"].pc = "remove"
           \/ ~subscribed /\ job'["reader"].pc = "idle"
        /\ job'["ingest"] = job["ingest"] /\ job'["closer"] = job["closer"]
    BY <1>0, <1>1, <1>5, GoesJob, EndsJob DEF Unsubscribe
  <2>2. /\ job["reader"].pc = "unsubscribe" /\ ~subscribed'
        /\ UNCHANGED <<state, revived>>
    BY <1>5 DEF Unsubscribe
  <2>3. Roles'
    BY <1>0, <1>2, <2>1, <2>2 DEF Roles
  <2>4. Kept' /\ Informed'
    BY <2>2 DEF Kept, Informed
  <2>5. NothingLeftBehind'
    BY <1>0, <2>1, <2>2 DEF NothingLeftBehind, Unregistered
  <2> QED BY <2>3, <2>4, <2>5
<1>6. CASE Remove
  <2>1. /\ job["reader"].pc = "remove" /\ job'["reader"].pc = "enqueue"
        /\ job'["ingest"] = job["ingest"] /\ job'["closer"] = job["closer"]
    BY <1>0, <1>1, <1>6, SendsJob DEF Remove
  <2>2. state' = Gone /\ UNCHANGED subscribed
    BY <1>6 DEF Remove
  <2>3. ~subscribed
    BY <1>0, <2>1 DEF Roles
  <2>4. Roles'
    BY <1>0, <1>2, <2>1, <2>2 DEF Roles
  <2>5. Kept' /\ Informed' /\ NothingLeftBehind'
    BY <2>2, <2>3 DEF Kept, Informed, NothingLeftBehind, Unregistered
  <2> QED BY <2>4, <2>5
<1>7. ASSUME NEW l \in Loads, Spawn(l)
      PROVE  Roles' /\ Kept' /\ Informed' /\ NothingLeftBehind'
  <2>1. job["reader"].pc = "spawn" /\ UNCHANGED <<state, subscribed, revived>>
    BY <1>7 DEF Spawn
  <2>2. job'["reader"].pc = "idle"
    BY <1>0, <1>1, <1>7, Distinct DEF Spawn, TypeOK, Idle
  <2>3. job'["ingest"] = job["ingest"] /\ job'["closer"] = job["closer"]
    BY <1>0, <1>1, <1>7, Distinct DEF Spawn, TypeOK
  <2>4. job'[l].pc = "load"
    <3>1. l \in Goroutines /\ l # "reader" /\ job[l] \in Job
      BY <1>0, Distinct DEF TypeOK
    <3>2. job' = [job EXCEPT !["reader"] = Idle, ![l] = [job[l] EXCEPT !.pc = "load"]]
      BY <1>0, <1>1, <1>7, <3>1 DEF Spawn, TypeOK
    <3>3. job'[l] = [job[l] EXCEPT !.pc = "load"]
      BY <1>0, <3>1, <3>2 DEF TypeOK
    <3> QED BY <3>1, <3>3 DEF Job
  <2>5. Roles'
    BY <1>0, <1>2, <2>1, <2>2, <2>3 DEF Roles
  <2>6. Kept' /\ NothingLeftBehind'
    BY <1>0, <1>2, <2>1, <2>2, <2>3 DEF Kept, NothingLeftBehind, Unregistered
  <2>7. Bringing(l)'
    BY <2>4 DEF Bringing
  <2>8. Informed'
    BY <2>7 DEF Informed
  <2> QED BY <2>5, <2>6, <2>8
<1> QED BY <1>3, <1>4, <1>5, <1>6, <1>7, <1>8

LEMMA SnapshotInv ==
    ASSUME IInv, NEW l \in Loads,
           Load(l) \/ GetLastValue(l) \/ GetLastValueFails(l) \/ StoreLast(l) \/ Touch(l)
    PROVE  Roles' /\ Kept' /\ Informed' /\ NothingLeftBehind'
<1>0. TypeOK /\ Roles /\ Kept /\ Informed /\ NothingLeftBehind
  BY DEF IInv
<1>1. l \in Goroutines /\ job[l] \in Job /\ job[l].record \in Nat
  BY <1>0, Distinct DEF TypeOK, Job
<1>2. UNCHANGED <<subscribed, published, status>>
  BY DEF Load, GetLastValue, GetLastValueFails, StoreLast, Touch
<1>3. \A h \in Goroutines \ {l} : job'[h] = job[h]
  <2>1. CASE Load(l) \/ GetLastValue(l)
    BY <1>0, <1>1, <2>1 DEF Load, GetLastValue, TypeOK
  <2>2. CASE GetLastValueFails(l) \/ StoreLast(l)
    BY <1>0, <1>1, <2>2, EndsJob, GoesJob DEF GetLastValueFails, StoreLast
  <2>3. CASE Touch(l)
    BY <1>0, <1>1, <2>3, SendsJob DEF Touch
  <2> QED BY <2>1, <2>2, <2>3
<1>4. /\ job'["ingest"] = job["ingest"]
      /\ job'["reader"] = job["reader"]
      /\ job'["closer"] = job["closer"]
      /\ \A k \in Loads \ {l} : job'[k] = job[k]
  BY <1>3, Distinct
<1>5. ToSpawn' = ToSpawn /\ \A k \in Loads \ {l} : Bringing(k) => Bringing(k)'
  BY <1>2, <1>4 DEF ToSpawn, Bringing
<1>6. published' <= last'
  <2>1. last' = last \/ StoreLast(l)
    BY DEF Load, GetLastValue, GetLastValueFails, StoreLast, Touch
  <2>2. CASE StoreLast(l)
    BY <1>0, <1>1, <1>2, <2>2 DEF StoreLast, LastByTag, Later, Roles, TypeOK
  <2> QED BY <1>0, <1>2, <2>1, <2>2 DEF Roles
<1>7. Roles'
  BY <1>0, <1>2, <1>4, <1>6 DEF Roles
<1>8. CASE Load(l) \/ GetLastValue(l) \/ GetLastValueFails(l) \/ StoreLast(l)
  <2>1. UNCHANGED <<state, overtaken, revived>>
    BY <1>8 DEF Load, GetLastValue, GetLastValueFails, StoreLast
  <2>2. Kept' /\ NothingLeftBehind'
    BY <1>0, <1>2, <1>4, <2>1 DEF Kept, NothingLeftBehind, Unregistered
  <2>3. Bringing(l) /\ status = "open" /\ subscribed => Bringing(l)' \/ ToSpawn \/ Brought
    <3>1. CASE Load(l)
      <4>1. ASSUME NEW pc \in {"read", "touch"},
                   job' = [job EXCEPT ![l] = [job[l] EXCEPT !.pc = pc, !.record = last]]
            PROVE  job'[l].pc = pc /\ job'[l].record = last
        BY <1>0, <1>1, <4>1 DEF TypeOK, Job
      <4>2. CASE last # 0
        <5>1. job' = [job EXCEPT ![l] = [job[l] EXCEPT !.pc = "touch", !.record = last]]
          BY <1>0, <1>1, <3>1, <4>2 DEF Load, TypeOK
        <5>2. job'[l].pc = "touch" /\ job'[l].record = last
          BY <4>1, <5>1
        <5> QED BY <1>0, <1>2, <5>2 DEF Bringing, Roles
      <4>3. CASE last = 0
        <5>1. published = 0
          BY <1>0, <4>3 DEF Roles, TypeOK
        <5>2. state # Gone => state.latest >= published
          BY <1>0, <5>1 DEF TypeOK, State
        <5> QED BY <1>0, <5>2 DEF Kept, ToSpawn, Brought
      <4> QED BY <4>2, <4>3
    <3>2. CASE GetLastValue(l) \/ GetLastValueFails(l) \/ StoreLast(l)
      BY <3>2 DEF GetLastValue, GetLastValueFails, StoreLast, Bringing
    <3> QED BY <1>8, <3>1, <3>2
  <2>4. Brought' = Brought
    BY <1>2, <2>1 DEF Brought
  <2>5. Informed'
    BY <1>0, <1>2, <1>4, <1>5, <2>1, <2>3, <2>4 DEF Informed
  <2> QED BY <1>7, <2>2, <2>5
<1>9. CASE Touch(l)
  <2> DEFINE r == job[l].record
  <2>1. /\ overtaken' = (overtaken \/ r < Existing.latest)
        /\ revived' = (revived \/ (state = Gone /\ ~subscribed))
        /\ job[l].pc = "touch"
    BY <1>9 DEF Touch, Revives
  <2>2. state' \in State /\ state'.latest = r
    <3> DEFINE e == Existing
    <3>1. e \in State
      BY <1>0, ExistingType
    <3> HIDE DEF e
    <3>2. LET x == [e EXCEPT !.latest = r, !.beat = "armed"] IN x \in State /\ x.latest = r
      BY <1>1, <3>1 DEF State, TimerStates
    <3> QED BY <1>9, <3>2 DEF Touch, WithLatest, e
  <2>3. state' # Gone
    BY <2>2, DeliveryAssumption
  <2>4. Kept' /\ NothingLeftBehind'
    BY <1>0, <1>2, <1>4, <2>1, <2>3 DEF Kept, NothingLeftBehind, Unregistered
  <2>5. Brought => overtaken' \/ Brought'
    <3>1. Brought => Existing.latest = state.latest /\ state.latest \in Nat
      BY <1>0 DEF Brought, Existing, TypeOK, State
    <3> SUFFICES ASSUME Brought, ~overtaken' PROVE Brought'
      OBVIOUS
    <3>2. published \in Nat /\ state.latest \in Nat /\ state.latest >= published
      BY <1>0, <3>1 DEF Brought, TypeOK
    <3>3. ~(r < state.latest)
      BY <2>1, <3>1
    <3>4. r >= published
      BY <1>1, <3>2, <3>3
    <3> QED BY <1>2, <2>2, <2>3, <3>4 DEF Brought
  <2>6. Bringing(l) => Brought'
    BY <1>2, <2>1, <2>2, <2>3 DEF Bringing, Brought
  <2>7. Informed'
    BY <1>0, <1>2, <1>4, <1>5, <2>1, <2>5, <2>6 DEF Informed
  <2> QED BY <1>7, <2>4, <2>7
<1> QED BY <1>8, <1>9

LEMMA ConnectionInv ==
    ASSUME IInv, EnqueueOther \/ WriteMessage \/ Close \/ Closing
    PROVE  Roles' /\ Kept' /\ Informed' /\ NothingLeftBehind'
<1>0. TypeOK /\ Roles /\ Kept /\ Informed /\ NothingLeftBehind
  BY DEF IInv
<1>1. {"ingest", "reader", "closer", "other"} \subseteq Goroutines /\ "closer" \notin Loads
      /\ "other" \notin Loads /\ Loads \subseteq Goroutines
  BY Distinct
<1>2. UNCHANGED <<last, published, overtaken, revived>>
  BY DEF EnqueueOther, WriteMessage, Close, Closing, UnregisterConnection, StopConnection
<1>3. job'["ingest"] = job["ingest"] /\ job'["reader"] = job["reader"]
      /\ \A l \in Loads : job'[l] = job[l]
  <2>1. CASE EnqueueOther
    BY <1>0, <1>1, <2>1, SendsJob DEF EnqueueOther
  <2>2. CASE WriteMessage
    BY <2>2 DEF WriteMessage
  <2>3. CASE Close
    BY <1>0, <1>1, <2>3, GoesJob DEF Close
  <2>4. CASE UnregisterConnection
    BY <1>0, <1>1, <2>4, GoesJob DEF UnregisterConnection
  <2>5. CASE StopConnection
    BY <1>0, <1>1, <2>5, EndsJob DEF StopConnection
  <2> QED BY <2>1, <2>2, <2>3, <2>4, <2>5 DEF Closing
<1>4. CASE EnqueueOther \/ WriteMessage
  <2>1. job'["closer"] = job["closer"]
    BY <1>0, <1>1, <1>4, SendsJob DEF EnqueueOther, WriteMessage
  <2>2. UNCHANGED <<state, subscribed, status>>
    BY <1>4 DEF EnqueueOther, WriteMessage
  <2>3. Roles'
    BY <1>0, <1>2, <1>3, <2>1, <2>2 DEF Roles
  <2>4. Kept' /\ NothingLeftBehind'
    BY <1>0, <1>2, <1>3, <2>1, <2>2 DEF Kept, NothingLeftBehind, Unregistered
  <2>5. Informed'
    BY <1>0, <1>2, <1>3, <2>2 DEF Informed, ToSpawn, Bringing, Brought
  <2> QED BY <2>3, <2>4, <2>5
<1>5. CASE Close
  <2>1. job'["closer"].pc = "unregister" /\ status = "open" /\ status' = "done"
    BY <1>0, <1>1, <1>5, GoesJob DEF Close
  <2>2. UNCHANGED <<state, subscribed>> /\ job["closer"].pc # "stop"
    BY <1>0, <1>5, <2>1 DEF Close, Roles
  <2>3. Roles'
    BY <1>0, <1>2, <1>3, <2>1, <2>2 DEF Roles
  <2>4. Kept' /\ NothingLeftBehind'
    BY <1>0, <1>2, <1>3, <2>1, <2>2 DEF Kept, NothingLeftBehind, Unregistered
  <2>5. Informed'
    BY <2>1 DEF Informed
  <2> QED BY <2>3, <2>4, <2>5
<1>6. CASE UnregisterConnection
  <2>1. job["closer"].pc = "unregister" /\ job'["closer"].pc = "stop"
    BY <1>0, <1>1, <1>6, GoesJob DEF UnregisterConnection
  <2>2. ~subscribed' /\ UNCHANGED status
    BY <1>6 DEF UnregisterConnection
  <2>3. Roles'
    BY <1>0, <1>2, <1>3, <2>1, <2>2 DEF Roles
  <2>4. Kept' /\ Informed' /\ NothingLeftBehind'
    BY <2>1, <2>2 DEF Kept, Informed, NothingLeftBehind, Unregistered
  <2> QED BY <2>3, <2>4
<1>7. CASE StopConnection
  <2>1. job["closer"].pc = "stop" /\ job'["closer"].pc = "idle"
    BY <1>0, <1>1, <1>7, EndsJob DEF StopConnection
  <2>2. state' = Gone /\ UNCHANGED <<status, subscribed>>
    BY <1>7 DEF StopConnection, Stopped
  <2>3. status = "done"
    BY <1>0, <2>1 DEF Roles
  <2>4. Roles'
    BY <1>0, <1>2, <1>3, <2>1, <2>2 DEF Roles
  <2>5. Kept' /\ Informed'
    BY <2>2, <2>3 DEF Kept, Informed
  <2>6. NothingLeftBehind'
    BY <1>0, <1>2, <2>1, <2>2 DEF NothingLeftBehind, Unregistered
  <2> QED BY <2>4, <2>5, <2>6
<1> QED BY <1>4, <1>5, <1>6, <1>7 DEF Closing

LEMMA NextInv == IInv /\ [Next]_vars => IInv'
<1> SUFFICES ASSUME IInv, [Next]_vars PROVE IInv'
  OBVIOUS
<1>0. TypeOK'
  BY NextType DEF IInv
<1> DEFINE P == Roles' /\ Kept' /\ Informed' /\ NothingLeftBehind'
<1>1. UpdateCache \/ HubPublish \/ PublishNow \/ PublishLater => P
  BY IngestInv
<1>2. ReadFrame \/ Subscribe \/ Ensure \/ Unsubscribe \/ Remove \/ (\E l \in Loads : Spawn(l)) => P
  BY ReaderInv
<1>3. ASSUME NEW l \in Loads,
             Load(l) \/ GetLastValue(l) \/ GetLastValueFails(l) \/ StoreLast(l) \/ Touch(l)
      PROVE  P
  BY <1>3, SnapshotInv
<1>4. ASSUME NEW g \in Timers,
             FireFlush(g) \/ FireBeat(g) \/ flushPending(g) \/ emitHeartbeat(g)
      PROVE  P
  BY <1>4, TimerInv
<1>5. ASSUME NEW g \in Goroutines, Send(g) PROVE P
  BY <1>5, SendInv
<1>6. EnqueueOther \/ WriteMessage \/ Close \/ Closing => P
  BY ConnectionInv
<1>7. UNCHANGED vars => P
  BY DEF IInv, Roles, Kept, NothingLeftBehind, Unregistered, Informed, ToSpawn, Bringing, Brought
<1> HIDE DEF P
<1>8. P
  BY <1>1, <1>2, <1>3, <1>4, <1>5, <1>6, <1>7, GoroutineNames
     DEF Next, Publish, Read, Snapshot, Fire
<1> QED BY <1>0, <1>8 DEF P, IInv

LEMMA InvariantHolds == Spec => []IInv
<1>1. Init => IInv
  BY InitInv
<1>2. IInv /\ [Next]_vars => IInv'
  BY NextInv
<1> QED BY <1>1, <1>2, PTL DEF Spec

(* The debouncer of a subscriber is never left without the last published  *)
(* reading once every goroutine that could still bring it is done, unless  *)
(* an older snapshot was stored over it: whatever order the publication,   *)
(* the frames and the snapshot goroutines take (connection.go:285,         *)
(* hub.go:416).                                                            *)
THEOREM SubscriberIsCurrent == Spec => []SubscribedIsCurrent
BY InvariantHolds, InvariantImplies, PTL

(* A debouncer state of a tag that is not subscribed, with a heartbeat     *)
(* that runs for ever, and a subscription of a closed connection are only  *)
(* ever made by a publication, snapshot or frame that was in progress when *)
(* the subscription or the connection ended (hub.go:257, hub.go:173,       *)
(* debouncer.go:164).                                                      *)
THEOREM StateIsRemoved == Spec => []NothingLeftBehind
<1>1. IInv => NothingLeftBehind
  BY DEF IInv
<1> QED BY <1>1, InvariantHolds, PTL
=============================================================================
