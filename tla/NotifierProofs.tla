-------------------------- MODULE NotifierProofs --------------------------
(***************************************************************************)
(* Proofs about Notifier, for any chats, replicas, events and faults.      *)
(*   - NothingDropped: a committed alarm event is on its way, has a        *)
(*     notification for each of its chats, or was lost in one of the ways  *)
(*     the model names.                                                    *)
(*   - Kept: an escalation is not forgotten.                               *)
(*   - Once: a chat hears of an event once, but for the doubts.            *)
(* The invariant of the last is a budget: what a chat has heard of an      *)
(* event, the deliveries that may still send, and the one that may start   *)
(* when nobody holds the row, never exceed one plus the doubts.            *)
(***************************************************************************)
EXTENDS Notifier, FiniteSetTheorems, SequenceTheorems, TLAPS

USE DEF vars, source, kafka, tables, bounds, sends, fates

Ids == 1..Len(events)

EventRec == [tag : Tags, type : {"raised", "cleared"}, to : States]
PubRec == [pc : {"ready", "writing", "done"}, tries : Nat, payload : Seq(Nat)]
Row == [status : Statuses, attempt : Nat, ripe : BOOLEAN]
EscRec == [status : {"none", "waiting", "due", "skipped", "processed"},
           owed : SUBSET Chats, loud : SUBSET Chats,
           reason : {None, "not inserted", "unread"}]
ItemRec == [ev : Nat, chat : Chats, attempt : Nat, busy : BOOLEAN]
Pcs == {"idle", "chats", "send", "mark", "commit", "list", "retry", "listDue", "due", "unlock"}
JobRec == [pc : Pcs, ev : Nat, chat : Chats \cup {None}, attempt : Nat,
           outcome : Outcomes \cup {None}, items : SUBSET ItemRec, due : SUBSET Nat,
           chats : SUBSET Chats, owed : SUBSET Chats, escalated : BOOLEAN]

\* What holds of worker w doing j, when the events are ids.
JobOk(w, j, ids) ==
    /\ j \in JobRec
    /\ j.pc \in {"chats", "send", "mark", "commit"} => j.ev \in ids
    /\ j.pc \in {"send", "mark"} => j.chat \in Chats
    /\ \A i \in j.items : i.ev \in ids
    /\ j.due \subseteq ids
    /\ j.pc \notin {"retry", "send", "mark"} \/ j.escalated => j.items = {}
    /\ w = Consumer => /\ j.pc \in {"idle", "chats", "send", "mark", "commit"}
                       /\ ~j.escalated /\ j.items = {}
    /\ w # Consumer => /\ j.pc # "commit" /\ (j.pc \in {"chats", "due"} => j.escalated)
                       /\ (j.pc = "list" => ~j.escalated)
    /\ \A i, k \in j.items : i.ev = k.ev /\ i.chat = k.chat => i = k
    /\ j.pc \in {"send", "mark"} => \A i \in j.items : i.ev # j.ev \/ i.chat # j.chat

JobsTyped ==
    /\ job \in [Workers -> JobRec]
    /\ \A w \in Workers : JobOk(w, job[w], Ids)

KafkaTyped ==
    /\ pub \in [Ids -> PubRec]
    /\ \A e \in Ids : pub[e].payload \in Seq(Ids)
    /\ queue \in Seq(Ids) /\ topic \in Seq(Ids)
    /\ position \in Nat /\ committed \in Nat
    /\ committed <= position /\ position <= Len(topic)

TablesTyped ==
    /\ rows \in [Ids -> [Chats -> Row]]
    /\ esc \in [Ids -> EscRec]

SendsTyped ==
    /\ heard \in [Ids -> [Chats -> Nat]]
    /\ doubts \in [Ids -> [Chats -> Nat]]

Typed ==
    /\ events \in Seq(EventRec)
    /\ enabled \subseteq Chats
    /\ workload \in Workloads
    /\ KafkaTyped /\ TablesTyped /\ SendsTyped /\ JobsTyped
    /\ routed \in [Ids -> (SUBSET Chats) \cup {None}]
    /\ DOMAIN events = Ids

-----------------------------------------------------------------------------
(* The invariants. *)

HasRow(e, c) == rows[e][c].status # "none"

\* The consumer has an event in hand; the chats that are left have no row yet.
Busied == job[Consumer].pc # "idle"
InHand(e) == Busied /\ job[Consumer].ev = e

ConsumerInv ==
    Busied =>
        LET e == job[Consumer].ev IN
        /\ committed < position /\ topic[position] = e
        /\ routed[e] \in SUBSET Chats
        /\ \A c \in routed[e] : c \in job[Consumer].chats \/ HasRow(e, c)
        /\ job[Consumer].pc = "commit" => job[Consumer].chats = {}

OwnPayload ==
    \A e \in Ids : IF pub[e].pc = "writing" THEN e \in Range(pub[e].payload)
                   ELSE pub[e].payload = <<>>

FetchedInv ==
    \A i \in (committed + 1)..position :
        topic[i] \in missed \/ Delivered(topic[i]) \/ InHand(topic[i])

MessagesInv == ConsumerInv /\ OwnPayload /\ FetchedInv /\ NoEventDropped

\* The escalation of a fetched event.
Considered(e) == esc[e].status # "none" \/ esc[e].reason = "not inserted" \/ e \in missed

\* Only the one in hand may still lack it.
FetchedEscalations ==
    \A i \in 1..position :
        Escalates(events[topic[i]]) =>
            \/ Considered(topic[i])
            \/ i = position /\ Busied /\ job[Consumer].pc # "commit"

ClosedOk(e) ==
    /\ esc[e].status = "skipped" => esc[e].reason = "unread"
    /\ esc[e].status = "processed" => \A c \in esc[e].owed : HasRow(e, c)

\* A scheduler has told every admin chat it owes the escalation, or has it left.
OwedOk(r) ==
    job[r].pc \in {"chats", "send", "mark"} /\ job[r].escalated =>
        \A c \in job[r].owed : c \in job[r].chats \/ HasRow(job[r].ev, c)

EscalationInv ==
    /\ FetchedEscalations
    /\ \A e \in Ids : ClosedOk(e)
    /\ \A r \in Replicas : OwedOk(r)

\* Worker w has the row of e and c in hand, or will take it up without a doubt.
Queued(w, e, c) == \E i \in job[w].items : i.ev = e /\ i.chat = c /\ ~i.busy
Engaged(w, e, c) == Holds(w, e, c) \/ Queued(w, e, c)
\* It may still send, or give the row back.
Claims(w, e, c) == Engaged(w, e, c) /\ ~(Holds(w, e, c) /\ Unmarked(w))
Claimants(e, c) == {w \in Workers : Claims(w, e, c)}
\* A delivery may start that has no doubt.
Open(e, c) == /\ rows[e][c].status \in {"none", "pending"}
              /\ \A w \in Workers : ~Engaged(w, e, c)

Budget(e, c) ==
    heard[e][c] + Cardinality(Claimants(e, c)) + (IF Open(e, c) THEN 1 ELSE 0)
        <= 1 + doubts[e][c]

\* Before its row exists, nobody delivers a notification or means to.
Touches(w, e, c) == Holds(w, e, c) \/ \E i \in job[w].items : i.ev = e /\ i.chat = c
Unclaimed(e, c) == ~HasRow(e, c) => \A w \in Workers : ~Touches(w, e, c)

BudgetInv == \A e \in Ids, c \in Chats : Budget(e, c) /\ Unclaimed(e, c)

-----------------------------------------------------------------------------
(* Sequences and the workers' names.                                       *)

LEMMA AppendFun ==
    ASSUME NEW S, NEW n \in Nat, NEW f \in [1..n -> S], NEW x \in S
    PROVE  /\ Append(f, x) \in [1..(n + 1) -> S]
           /\ \A i \in 1..n : Append(f, x)[i] = f[i]
           /\ Append(f, x)[n + 1] = x
<1>1. f \in Seq(S)
  BY SeqDef
<1>2. Len(f) = n
  <2>1. Len(f) \in Nat /\ DOMAIN f = 1..Len(f) /\ DOMAIN f = 1..n
    BY <1>1, LenProperties
  <2>2. \A i \in Nat : i \in 1..Len(f) <=> i \in 1..n
    BY <2>1
  <2> HIDE <2>1
  <2>3. Len(f) \in Nat
    BY <2>1
  <2>4. CASE Len(f) > n
    BY <2>2, <2>3, <2>4
  <2>5. CASE Len(f) < n
    BY <2>2, <2>3, <2>5
  <2> QED BY <2>3, <2>4, <2>5
<1>3. /\ Append(f, x) \in Seq(S) /\ Len(Append(f, x)) = n + 1
      /\ \A i \in 1..n : Append(f, x)[i] = f[i]
      /\ Append(f, x)[n + 1] = x
  BY <1>1, <1>2, AppendProperties
<1>4. Append(f, x) \in [1..(n + 1) -> S]
  BY <1>3, LenProperties
<1> QED BY <1>3, <1>4

LEMMA RangeOfConcat ==
    ASSUME NEW S, NEW s \in Seq(S), NEW t \in Seq(S)
    PROVE  Range(s \o t) = Range(s) \cup Range(t)
<1>1. /\ s \o t \in Seq(S) /\ Len(s \o t) = Len(s) + Len(t)
      /\ \A i \in 1..(Len(s) + Len(t)) :
           (s \o t)[i] = IF i <= Len(s) THEN s[i] ELSE t[i - Len(s)]
  BY ConcatProperties
<1>2. /\ DOMAIN s = 1..Len(s) /\ DOMAIN t = 1..Len(t) /\ DOMAIN (s \o t) = 1..(Len(s) + Len(t))
      /\ Len(s) \in Nat /\ Len(t) \in Nat
  BY <1>1, LenProperties
<1>3. ASSUME NEW x \in Range(s \o t) PROVE x \in Range(s) \cup Range(t)
  <2>1. PICK i \in 1..(Len(s) + Len(t)) : x = (s \o t)[i]
    BY <1>2, <1>3 DEF Range
  <2>2. CASE i <= Len(s)
    <3>1. i \in DOMAIN s /\ x = s[i]
      BY <1>1, <1>2, <2>1, <2>2
    <3> QED BY <3>1 DEF Range
  <2>3. CASE ~(i <= Len(s))
    <3>1. i - Len(s) \in DOMAIN t /\ x = t[i - Len(s)]
      BY <1>1, <1>2, <2>1, <2>3
    <3> QED BY <3>1 DEF Range
  <2> QED BY <2>2, <2>3
<1>4. ASSUME NEW x \in Range(s) PROVE x \in Range(s \o t)
  <2>1. PICK i \in 1..Len(s) : x = s[i]
    BY <1>2, <1>4 DEF Range
  <2>2. i \in DOMAIN (s \o t) /\ (s \o t)[i] = x
    BY <1>1, <1>2, <2>1
  <2> QED BY <2>2 DEF Range
<1>5. ASSUME NEW x \in Range(t) PROVE x \in Range(s \o t)
  <2>1. PICK i \in 1..Len(t) : x = t[i]
    BY <1>2, <1>5 DEF Range
  <2>2. Len(s) + i \in DOMAIN (s \o t) /\ (s \o t)[Len(s) + i] = x
    BY <1>1, <1>2, <2>1
  <2> QED BY <2>2 DEF Range
<1> QED BY <1>3, <1>4, <1>5

LEMMA RangeOfAppend ==
    ASSUME NEW S, NEW s \in Seq(S), NEW x \in S
    PROVE  Range(Append(s, x)) = Range(s) \cup {x}
<1>1. Append(s, x) = s \o <<x>>
  BY AppendProperties, AppendIsConcat
<1>2. <<x>> \in Seq(S) /\ Len(<<x>>) = 1 /\ <<x>>[1] = x
  OBVIOUS
<1>3. DOMAIN <<x>> = 1..1
  BY <1>2, LenProperties
<1>4. Range(<<x>>) = {x}
  BY <1>2, <1>3 DEF Range
<1>5. Range(s \o <<x>>) = Range(s) \cup Range(<<x>>)
  BY <1>2, RangeOfConcat
<1> QED BY <1>1, <1>4, <1>5

LEMMA WorkerNames ==
    /\ Consumer \in Workers /\ Replicas \subseteq Workers /\ Home \in Replicas
    /\ \A r \in Replicas : r # Consumer
    /\ IsFiniteSet(Workers)
<1>1. IsFiniteSet({Consumer})
  BY FS_Singleton
<1> QED BY <1>1, FS_Union, NotifierAssumption DEF Workers, Consumer

-----------------------------------------------------------------------------
(* Types: what the workers do.                                             *)

LEMMA IdleOk == \A w, ids : Idle \in JobRec /\ JobOk(w, Idle, ids)
BY DEF Idle, JobRec, Pcs, JobOk

Others(w) == \A v \in Workers : v # w => job'[v] = job[v]

LEMMA JobStep ==
    ASSUME JobsTyped, NEW w \in Workers, NEW new, job' = [job EXCEPT ![w] = new],
           UNCHANGED events, JobOk(w, new, Ids)
    PROVE  /\ JobsTyped' /\ job'[w] = new
           /\ Others(w)
<1>1. new \in JobRec
  BY DEF JobOk
<1>2. /\ job' \in [Workers -> JobRec] /\ job'[w] = new
      /\ \A v \in Workers : v # w => job'[v] = job[v]
  BY <1>1 DEF JobsTyped
<1>3. Ids' = Ids
  BY DEF Ids
<1>4. \A v \in Workers : JobOk(v, job'[v], Ids)
  BY <1>2 DEF JobsTyped
<1>5. \A v \in Workers : JobOk(v, job'[v], Ids')
  BY <1>3, <1>4
<1> QED BY <1>2, <1>5 DEF JobsTyped, Others

LEMMA JobsOnly ==
    ASSUME Typed, JobsTyped',
           UNCHANGED <<alarm, enabled, events, kafka, tables, workload, sends, routed>>
    PROVE  Typed'
<1>1. Ids' = Ids
  BY DEF Ids
<1> QED BY <1>1 DEF Typed, KafkaTyped, TablesTyped, SendsTyped

\* A worker goes to another step of the same work.
LEMMA GoesOk ==
    ASSUME NEW w, NEW j, NEW ids, JobOk(w, j, ids), NEW pc \in Pcs,
           pc \notin {"send", "mark", "list"},
           pc \in {"chats", "due"} => j.escalated /\ j.ev \in ids,
           pc = "commit" => w = Consumer /\ j.ev \in ids,
           w = Consumer => pc = "commit",
           pc # "retry" => j.items = {}
    PROVE  JobOk(w, [j EXCEPT !.pc = pc], ids)
<1> DEFINE new == [j EXCEPT !.pc = pc]
<1>1. /\ new \in JobRec /\ new.pc = pc /\ new.ev = j.ev /\ new.chat = j.chat
      /\ new.items = j.items /\ new.due = j.due /\ new.escalated = j.escalated
  BY DEF JobOk, JobRec
<1> HIDE DEF new
<1>2. JobOk(w, new, ids)
  BY <1>1 DEF JobOk
<1> QED BY <1>2 DEF new

ToRetry(j) == [Idle EXCEPT !.pc = "retry", !.items = j.items]
ToChats(j) == [j EXCEPT !.pc = "chats", !.chat = None, !.attempt = 0, !.outcome = None]
ReturnTo(w) ==
    IF w # Consumer /\ ~job[w].escalated THEN ToRetry(job[w]) ELSE ToChats(job[w])

LEMMA ReturnShapes ==
    ASSUME NEW j \in JobRec
    PROVE  /\ ToRetry(j) \in JobRec /\ ToRetry(j).pc = "retry" /\ ToRetry(j).items = j.items
           /\ ToRetry(j).due = {} /\ ToRetry(j).escalated = FALSE
           /\ ToChats(j) \in JobRec /\ ToChats(j).pc = "chats" /\ ToChats(j).items = j.items
           /\ ToChats(j).ev = j.ev /\ ToChats(j).due = j.due
           /\ ToChats(j).escalated = j.escalated
           /\ ToChats(j).chats = j.chats /\ ToChats(j).owed = j.owed
BY DEF Idle, JobRec, Pcs, ToRetry, ToChats

\* Worker w is done with a notification.
Returned(w) ==
    /\ Delivering(w) /\ job[w].ev \in Ids /\ job[w].chat \in Chats
    /\ Others(w)
    /\ job'[w].pc \in {"retry", "chats"} /\ job'[w].items = job[w].items
    /\ job'[w].escalated = job[w].escalated
    /\ (w = Consumer \/ job[w].escalated) =>
         /\ job'[w].pc = "chats" /\ job'[w].ev = job[w].ev
         /\ job'[w].chats = job[w].chats /\ job'[w].owed = job[w].owed
    /\ (w # Consumer /\ ~job[w].escalated) => job'[w].pc = "retry"

LEMMA ReturnStep ==
    ASSUME JobsTyped, NEW w \in Workers, Delivering(w), job' = Return(w), UNCHANGED events
    PROVE  JobsTyped' /\ Returned(w)
<1>0. job[w].ev \in Ids /\ job[w].chat \in Chats
  BY DEF JobsTyped, JobOk, Delivering
<1>1. job' = [job EXCEPT ![w] = ReturnTo(w)]
  BY DEF Return, ReturnTo, ToRetry, ToChats
<1>2. JobOk(w, job[w], Ids) /\ job[w] \in JobRec /\ job[w].pc \in {"send", "mark"}
  BY DEF JobsTyped, JobOk, Delivering
<1>3. CASE w # Consumer /\ ~job[w].escalated
  <2>1. ReturnTo(w) = ToRetry(job[w])
    BY <1>3 DEF ReturnTo
  <2>2. /\ ToRetry(job[w]) \in JobRec /\ ToRetry(job[w]).pc = "retry"
        /\ ToRetry(job[w]).items = job[w].items
        /\ ToRetry(job[w]).due = {} /\ ToRetry(job[w]).escalated = FALSE
    BY <1>2, ReturnShapes
  <2>3. JobOk(w, ToRetry(job[w]), Ids)
    BY <1>2, <1>3, <2>2 DEF JobOk
  <2>4. /\ JobsTyped' /\ job'[w] = ReturnTo(w)
        /\ Others(w)
    BY <1>1, <2>1, <2>3, JobStep
  <2>5. job[w].escalated = FALSE
    BY <1>2, <1>3 DEF JobRec
  <2> QED BY <1>0, <1>3, <2>1, <2>2, <2>4, <2>5 DEF Returned, Others
<1>4. CASE ~(w # Consumer /\ ~job[w].escalated)
  <2>1. ReturnTo(w) = ToChats(job[w])
    BY <1>4 DEF ReturnTo
  <2>2. /\ ToChats(job[w]) \in JobRec /\ ToChats(job[w]).pc = "chats"
        /\ ToChats(job[w]).items = job[w].items
        /\ ToChats(job[w]).ev = job[w].ev /\ ToChats(job[w]).due = job[w].due
        /\ ToChats(job[w]).escalated = job[w].escalated
        /\ ToChats(job[w]).chats = job[w].chats /\ ToChats(job[w]).owed = job[w].owed
    BY <1>2, ReturnShapes
  <2>3. JobOk(w, ToChats(job[w]), Ids)
    BY <1>2, <1>4, <2>2 DEF JobOk
  <2>4. /\ JobsTyped' /\ job'[w] = ReturnTo(w)
        /\ Others(w)
    BY <1>1, <2>1, <2>3, JobStep
  <2> QED BY <1>0, <1>4, <2>1, <2>2, <2>4 DEF Returned, Others
<1> QED BY <1>3, <1>4

(* A row is written.                                                       *)
LEMMA SetRowStep ==
    ASSUME TablesTyped, NEW w, job[w].ev \in Ids, job[w].chat \in Chats,
           NEW row \in Row, SetRow(w, row)
    PROVE  /\ rows' \in [Ids -> [Chats -> Row]]
           /\ rows'[job[w].ev][job[w].chat] = row
           /\ \A e \in Ids, c \in Chats :
                e # job[w].ev \/ c # job[w].chat => rows'[e][c] = rows[e][c]
BY DEF TablesTyped, SetRow

LEMMA TablesOnly ==
    ASSUME Typed, JobsTyped', TablesTyped', SendsTyped',
           UNCHANGED <<alarm, enabled, events, kafka, workload, routed>>
    PROVE  Typed'
<1>1. Ids' = Ids
  BY DEF Ids
<1> QED BY <1>1 DEF Typed, KafkaTyped

-----------------------------------------------------------------------------
(* Types: deliverNotification.                                             *)

\* The row that worker w writes, and no other.
Writes(w, row) ==
    /\ rows'[job[w].ev][job[w].chat] = row
    /\ \A e \in Ids, c \in Chats :
         e # job[w].ev \/ c # job[w].chat => rows'[e][c] = rows[e][c]

LEMMA RowOfType ==
    ASSUME Typed, NEW w \in Workers, Delivering(w)
    PROVE  RowOf(w) \in Row /\ job[w].ev \in Ids /\ job[w].chat \in Chats
BY DEF Typed, TablesTyped, JobsTyped, JobOk, Delivering, RowOf

LEMMA MarkSkippedEffect ==
    ASSUME Typed, NEW w \in Workers, MarkSkipped(w)
    PROVE  /\ Typed' /\ Returned(w)
           /\ \E row \in Row : row.status = "skipped" /\ Writes(w, row)
<1>1. Delivering(w) /\ job' = Return(w) /\ UNCHANGED <<events, esc, kafka, sends>>
  BY DEF MarkSkipped, Delivering
<1>2. JobsTyped' /\ Returned(w)
  BY <1>1, ReturnStep DEF Typed
<1> DEFINE row == [RowOf(w) EXCEPT !.status = "skipped", !.ripe = FALSE]
<1>3. row \in Row /\ row.status = "skipped"
  BY <1>1, RowOfType DEF Row, Statuses
<1>4. SetRow(w, row)
  BY DEF MarkSkipped
<1> HIDE DEF row
<1>5. rows' \in [Ids -> [Chats -> Row]] /\ Writes(w, row)
  BY <1>1, <1>3, <1>4, RowOfType, SetRowStep DEF Typed, Writes
<1>6. Ids' = Ids
  BY <1>1 DEF Ids
<1>7. TablesTyped' /\ SendsTyped'
  BY <1>1, <1>5, <1>6 DEF Typed, TablesTyped, SendsTyped
<1>8. Typed'
  BY <1>1, <1>2, <1>7, TablesOnly DEF MarkSkipped
<1> QED BY <1>2, <1>3, <1>5, <1>8

LEMMA MarkEffect ==
    ASSUME Typed, NEW w \in Workers, Mark(w)
    PROVE  /\ Typed' /\ Returned(w)
           /\ \E row \in Row :
                /\ row.status \in {"sent", "failed", "pending"} /\ Writes(w, row)
                /\ job[w].outcome = "ok" => row.status = "sent"
<1>1. Delivering(w) /\ job' = Return(w) /\ UNCHANGED <<events, esc, kafka, sends>>
  BY DEF Mark, Delivering
<1>2. JobsTyped' /\ Returned(w)
  BY <1>1, ReturnStep DEF Typed
<1>3. /\ Marked(w) \in Row /\ Marked(w).status \in {"sent", "failed", "pending"}
      /\ job[w].outcome = "ok" => Marked(w).status = "sent"
  BY <1>1, RowOfType DEF Row, Statuses, Marked
<1>4. SetRow(w, Marked(w))
  BY DEF Mark
<1>5. rows' \in [Ids -> [Chats -> Row]] /\ Writes(w, Marked(w))
  BY <1>1, <1>3, <1>4, RowOfType, SetRowStep DEF Typed, Writes
<1>6. Ids' = Ids
  BY <1>1 DEF Ids
<1>7. TablesTyped' /\ SendsTyped'
  BY <1>1, <1>5, <1>6 DEF Typed, TablesTyped, SendsTyped
<1>8. Typed'
  BY <1>1, <1>2, <1>7, TablesOnly DEF Mark
<1> QED BY <1>2, <1>3, <1>5, <1>8

LEMMA SetCell ==
    ASSUME NEW old \in [Ids -> [Chats -> Nat]], NEW ev, NEW chat, NEW x \in Nat, NEW new,
           new = [old EXCEPT ![ev][chat] = x]
    PROVE  /\ new \in [Ids -> [Chats -> Nat]]
           /\ \A e \in Ids, c \in Chats :
                new[e][c] = IF e = ev /\ c = chat THEN x ELSE old[e][c]
<1>1. ASSUME NEW e \in Ids
      PROVE  /\ new[e] \in [Chats -> Nat]
             /\ \A c \in Chats : new[e][c] = IF e = ev /\ c = chat THEN x ELSE old[e][c]
  <2>1. old[e] \in [Chats -> Nat]
    OBVIOUS
  <2>2. CASE e # ev
    BY <2>1, <2>2
  <2>3. CASE e = ev
    <3> DEFINE row == old[e]
    <3>1. new[e] = [row EXCEPT ![chat] = x] /\ row \in [Chats -> Nat]
      BY <2>1, <2>3
    <3>2. row = old[e]
      OBVIOUS
    <3> HIDE DEF row
    <3>3. new[e] \in [Chats -> Nat]
      BY <3>1
    <3>4. \A c \in Chats : new[e][c] = IF c = chat THEN x ELSE row[c]
      BY <3>1
    <3> QED BY <2>3, <3>2, <3>3, <3>4
  <2> QED BY <2>2, <2>3
<1>2. new = [e \in Ids |-> new[e]]
  OBVIOUS
<1> QED BY <1>1, <1>2

LEMMA MarkFailsEffect ==
    ASSUME Typed, NEW w \in Workers, MarkFails(w)
    PROVE  /\ Typed' /\ Returned(w)
           /\ UNCHANGED <<rows, heard>>
           /\ \A e \in Ids, c \in Chats :
                doubts'[e][c] = IF Unmarked(w) /\ e = job[w].ev /\ c = job[w].chat
                                THEN doubts[e][c] + 1 ELSE doubts[e][c]
<1>1. Delivering(w) /\ job' = Return(w) /\ UNCHANGED <<events, tables, kafka, heard>>
  BY DEF MarkFails, Delivering
<1>2. JobsTyped' /\ Returned(w)
  BY <1>1, ReturnStep DEF Typed
<1>3. Ids' = Ids
  BY <1>1 DEF Ids
<1>4. /\ doubts' \in [Ids -> [Chats -> Nat]]
      /\ \A e \in Ids, c \in Chats :
           doubts'[e][c] = IF Unmarked(w) /\ e = job[w].ev /\ c = job[w].chat
                           THEN doubts[e][c] + 1 ELSE doubts[e][c]
  <2>1. CASE Unmarked(w)
    <3>1. doubts' = [doubts EXCEPT ![job[w].ev][job[w].chat] = @ + 1]
      BY <2>1 DEF MarkFails
    <3>2. doubts \in [Ids -> [Chats -> Nat]]
      BY DEF Typed, SendsTyped
    <3>3. job[w].ev \in Ids /\ job[w].chat \in Chats
      BY <2>1 DEF Typed, JobsTyped, JobOk, Unmarked
    <3> DEFINE x == doubts[job[w].ev][job[w].chat] + 1
    <3>4. x \in Nat /\ doubts' = [doubts EXCEPT ![job[w].ev][job[w].chat] = x]
      BY <3>1, <3>2, <3>3
    <3>5. x = doubts[job[w].ev][job[w].chat] + 1
      OBVIOUS
    <3> HIDE DEF x
    <3>6. \A e \in Ids, c \in Chats :
             doubts'[e][c] = IF e = job[w].ev /\ c = job[w].chat THEN x ELSE doubts[e][c]
      BY <3>2, <3>4, SetCell
    <3>7. doubts' \in [Ids -> [Chats -> Nat]]
      BY <3>2, <3>4, SetCell
    <3> QED BY <2>1, <3>5, <3>6, <3>7
  <2>2. CASE ~Unmarked(w)
    BY <2>2 DEF MarkFails, Typed, SendsTyped
  <2> QED BY <2>1, <2>2
<1>5. TablesTyped' /\ SendsTyped'
  BY <1>1, <1>3, <1>4 DEF Typed, TablesTyped, SendsTyped
<1>6. Typed'
  BY <1>1, <1>2, <1>5, TablesOnly DEF MarkFails
<1> QED BY <1>1, <1>2, <1>4, <1>6

\* What a call of Telegram adds for the chat it is about.
Sent(w, outcome) ==
    \A e \in Ids, c \in Chats :
        /\ heard'[e][c] = IF e = job[w].ev /\ c = job[w].chat /\ outcome \in {"ok", "unheard"}
                          THEN heard[e][c] + 1 ELSE heard[e][c]
        /\ doubts'[e][c] = IF e = job[w].ev /\ c = job[w].chat /\ outcome = "unheard"
                           THEN doubts[e][c] + 1 ELSE doubts[e][c]

LEMMA SendMessageEffect ==
    ASSUME Typed, NEW w \in Workers, NEW outcome \in Outcomes, SendMessage(w, outcome)
    PROVE  /\ Typed' /\ UNCHANGED rows /\ Others(w)
           /\ job[w].pc = "send" /\ job[w].ev \in Ids /\ job[w].chat \in Chats
           /\ job'[w] = [job[w] EXCEPT !.pc = "mark", !.outcome = outcome]
           /\ Sent(w, outcome)
           /\ \A e \in Ids : /\ esc'[e].status = esc[e].status /\ esc'[e].owed = esc[e].owed
                             /\ esc'[e].reason = esc[e].reason
<1> DEFINE new == [job[w] EXCEPT !.pc = "mark", !.outcome = outcome]
<1>1. /\ job[w].pc = "send" /\ job' = [job EXCEPT ![w] = new]
      /\ UNCHANGED <<alarm, enabled, events, kafka, rows, workload, routed>>
  BY DEF SendMessage
<1>2. job[w].ev \in Ids /\ job[w].chat \in Chats /\ JobOk(w, job[w], Ids)
  BY <1>1 DEF Typed, JobsTyped, JobOk
<1>3. /\ new \in JobRec /\ new.pc = "mark" /\ new.ev = job[w].ev /\ new.chat = job[w].chat
      /\ new.items = job[w].items /\ new.due = job[w].due /\ new.escalated = job[w].escalated
  BY <1>2 DEF JobOk, JobRec, Pcs
<1> HIDE DEF new
<1>4. JobOk(w, new, Ids)
  BY <1>1, <1>2, <1>3 DEF JobOk
<1>5. JobsTyped' /\ job'[w] = new /\ Others(w)
  BY <1>1, <1>4, JobStep DEF Typed
<1>6. Ids' = Ids
  BY <1>1 DEF Ids
<1>7. /\ heard' \in [Ids -> [Chats -> Nat]]
      /\ \A e \in Ids, c \in Chats :
           heard'[e][c] = IF e = job[w].ev /\ c = job[w].chat /\ outcome \in {"ok", "unheard"}
                          THEN heard[e][c] + 1 ELSE heard[e][c]
  <2> DEFINE x == IF outcome \in {"ok", "unheard"} THEN heard[job[w].ev][job[w].chat] + 1
                  ELSE heard[job[w].ev][job[w].chat]
  <2>1. heard \in [Ids -> [Chats -> Nat]]
    BY DEF Typed, SendsTyped
  <2>2. x \in Nat /\ heard' = [heard EXCEPT ![job[w].ev][job[w].chat] = x]
    BY <1>2, <2>1 DEF SendMessage
  <2>3. x = IF outcome \in {"ok", "unheard"} THEN heard[job[w].ev][job[w].chat] + 1
            ELSE heard[job[w].ev][job[w].chat]
    OBVIOUS
  <2> HIDE DEF x
  <2>4. \A e \in Ids, c \in Chats :
           heard'[e][c] = IF e = job[w].ev /\ c = job[w].chat THEN x ELSE heard[e][c]
    BY <2>1, <2>2, SetCell
  <2>5. heard' \in [Ids -> [Chats -> Nat]]
    BY <2>1, <2>2, SetCell
  <2> QED BY <2>3, <2>4, <2>5
<1>8. /\ doubts' \in [Ids -> [Chats -> Nat]]
      /\ \A e \in Ids, c \in Chats :
           doubts'[e][c] = IF e = job[w].ev /\ c = job[w].chat /\ outcome = "unheard"
                           THEN doubts[e][c] + 1 ELSE doubts[e][c]
  <2> DEFINE x == IF outcome = "unheard" THEN doubts[job[w].ev][job[w].chat] + 1
                  ELSE doubts[job[w].ev][job[w].chat]
  <2>1. doubts \in [Ids -> [Chats -> Nat]]
    BY DEF Typed, SendsTyped
  <2>2. x \in Nat /\ doubts' = [doubts EXCEPT ![job[w].ev][job[w].chat] = x]
    BY <1>2, <2>1 DEF SendMessage
  <2>3. x = IF outcome = "unheard" THEN doubts[job[w].ev][job[w].chat] + 1
            ELSE doubts[job[w].ev][job[w].chat]
    OBVIOUS
  <2> HIDE DEF x
  <2>4. \A e \in Ids, c \in Chats :
           doubts'[e][c] = IF e = job[w].ev /\ c = job[w].chat THEN x ELSE doubts[e][c]
    BY <2>1, <2>2, SetCell
  <2>5. doubts' \in [Ids -> [Chats -> Nat]]
    BY <2>1, <2>2, SetCell
  <2> QED BY <2>3, <2>4, <2>5
<1>9. /\ esc' \in [Ids -> EscRec]
      /\ \A e \in Ids : /\ esc'[e].status = esc[e].status /\ esc'[e].owed = esc[e].owed
                        /\ esc'[e].reason = esc[e].reason
  <2>1. CASE job[w].escalated
    <3>1. esc' = [esc EXCEPT ![job[w].ev].loud = @ \cup {job[w].chat}]
      BY <2>1 DEF SendMessage
    <3> DEFINE old == esc[job[w].ev]
               rec == [old EXCEPT !.loud = @ \cup {job[w].chat}]
    <3>2. esc' = [esc EXCEPT ![job[w].ev] = rec]
      BY <3>1
    <3>3. old \in EscRec
      BY <1>2 DEF Typed, TablesTyped
    <3> HIDE DEF old
    <3>4. /\ rec \in EscRec /\ rec.status = old.status /\ rec.owed = old.owed
          /\ rec.reason = old.reason
      BY <1>2, <3>3 DEF EscRec
    <3> HIDE DEF rec
    <3>5. /\ esc' \in [Ids -> EscRec] /\ esc'[job[w].ev] = rec
          /\ \A e \in Ids : e # job[w].ev => esc'[e] = esc[e]
      BY <1>2, <3>2, <3>4 DEF Typed, TablesTyped
    <3> QED BY <3>4, <3>5 DEF old
  <2>2. CASE ~job[w].escalated
    BY <2>2 DEF SendMessage, Typed, TablesTyped
  <2> QED BY <2>1, <2>2
<1>10. TablesTyped' /\ SendsTyped'
  BY <1>1, <1>6, <1>7, <1>8, <1>9 DEF Typed, TablesTyped, SendsTyped
<1>11. Typed'
  BY <1>1, <1>5, <1>10, TablesOnly
<1>12. job'[w] = [job[w] EXCEPT !.pc = "mark", !.outcome = outcome]
  BY <1>5 DEF new
<1>13. Sent(w, outcome)
  BY <1>7, <1>8 DEF Sent
<1> QED BY <1>1, <1>2, <1>5, <1>9, <1>11, <1>12, <1>13

LEMMA CreateNotificationEffect ==
    ASSUME Typed, NEW w \in Workers, NEW c \in Chats, CreateNotification(w, c)
    PROVE  /\ Typed' /\ Others(w) /\ UNCHANGED <<esc, sends>>
           /\ job[w].pc = "chats" /\ job[w].ev \in Ids /\ c \in job[w].chats
           /\ job[w].items = {}
           /\ job'[w].pc \in {"chats", "send"} /\ job'[w].ev = job[w].ev
           /\ job'[w].items = {} /\ job'[w].chats = job[w].chats \ {c}
           /\ job'[w].owed = job[w].owed /\ job'[w].escalated = job[w].escalated
           /\ \/ /\ HasRow(job[w].ev, c) /\ UNCHANGED rows /\ job'[w].pc = "chats"
              \/ /\ ~HasRow(job[w].ev, c) /\ job'[w].pc = "send" /\ job'[w].chat = c
                 /\ rows'[job[w].ev][c].status = "pending"
                 /\ \A e \in Ids, d \in Chats :
                      e # job[w].ev \/ d # c => rows'[e][d] = rows[e][d]
<1>1. /\ job[w].pc = "chats" /\ c \in job[w].chats /\ UNCHANGED <<esc, sends>>
      /\ UNCHANGED <<alarm, enabled, events, kafka, workload, routed>>
  BY DEF CreateNotification
<1>2. JobOk(w, job[w], Ids) /\ job[w].ev \in Ids /\ job[w].items = {}
  BY <1>1 DEF Typed, JobsTyped, JobOk
<1>3. Ids' = Ids
  BY <1>1 DEF Ids
<1>4. CASE Created(job[w].ev, c)
  <2> DEFINE new == [job[w] EXCEPT !.chats = @ \ {c}, !.pc = "send", !.chat = c, !.attempt = 0]
             row == [NoRow EXCEPT !.status = "pending"]
  <2>1. /\ job' = [job EXCEPT ![w] = new]
        /\ rows' = [rows EXCEPT ![job[w].ev][c] = row]
    BY <1>4 DEF CreateNotification
  <2>2. /\ new \in JobRec /\ new.pc = "send" /\ new.ev = job[w].ev /\ new.chat = c
        /\ new.items = {} /\ new.due = job[w].due /\ new.escalated = job[w].escalated
        /\ new.owed = job[w].owed /\ new.chats = job[w].chats \ {c}
    <3>1. job[w] \in JobRec
      BY <1>2 DEF JobOk
    <3>2. \A j \in JobRec : LET n == [j EXCEPT !.chats = @ \ {c}, !.pc = "send", !.chat = c,
                                               !.attempt = 0] IN
            /\ n \in JobRec /\ n.pc = "send" /\ n.ev = j.ev /\ n.chat = c
            /\ n.items = j.items /\ n.due = j.due /\ n.escalated = j.escalated
            /\ n.owed = j.owed /\ n.chats = j.chats \ {c}
      BY DEF JobRec, Pcs
    <3> QED BY <1>2, <3>1, <3>2
  <2>3. row \in Row /\ row.status = "pending"
    BY DEF NoRow, Row, Statuses
  <2> HIDE DEF new, row
  <2>4. JobOk(w, new, Ids)
    BY <1>1, <1>2, <2>2 DEF JobOk
  <2>5. JobsTyped' /\ job'[w] = new /\ Others(w)
    BY <1>1, <2>1, <2>4, JobStep DEF Typed
  <2>6. /\ rows' \in [Ids -> [Chats -> Row]] /\ rows'[job[w].ev][c].status = "pending"
        /\ \A e \in Ids, d \in Chats : e # job[w].ev \/ d # c => rows'[e][d] = rows[e][d]
    BY <1>2, <2>1, <2>3 DEF Typed, TablesTyped
  <2>7. TablesTyped' /\ SendsTyped'
    BY <1>1, <1>3, <2>6 DEF Typed, TablesTyped, SendsTyped
  <2>8. Typed'
    BY <1>1, <2>5, <2>7, TablesOnly
  <2>9. ~HasRow(job[w].ev, c)
    BY <1>4 DEF Created, HasRow
  <2> QED BY <1>1, <1>2, <2>2, <2>5, <2>6, <2>8, <2>9
<1>5. CASE ~Created(job[w].ev, c)
  <2> DEFINE new == [job[w] EXCEPT !.chats = @ \ {c}]
  <2>1. job' = [job EXCEPT ![w] = new] /\ rows' = rows
    BY <1>5 DEF CreateNotification
  <2>2. /\ new \in JobRec /\ new.pc = "chats" /\ new.ev = job[w].ev
        /\ new.items = {} /\ new.due = job[w].due /\ new.escalated = job[w].escalated
        /\ new.owed = job[w].owed /\ new.chats = job[w].chats \ {c}
    BY <1>1, <1>2 DEF JobOk, JobRec
  <2> HIDE DEF new
  <2>3. JobOk(w, new, Ids)
    BY <1>1, <1>2, <2>2 DEF JobOk
  <2>4. JobsTyped' /\ job'[w] = new /\ Others(w)
    BY <1>1, <2>1, <2>3, JobStep DEF Typed
  <2>5. TablesTyped' /\ SendsTyped'
    BY <1>1, <1>3, <2>1 DEF Typed, TablesTyped, SendsTyped
  <2>6. Typed'
    BY <1>1, <2>4, <2>5, TablesOnly
  <2>7. HasRow(job[w].ev, c)
    BY <1>5 DEF Created, HasRow
  <2> QED BY <1>1, <1>2, <2>1, <2>2, <2>4, <2>6, <2>7
<1> QED BY <1>4, <1>5

-----------------------------------------------------------------------------
(* Types: the consumer.                                                    *)

LEMMA KafkaOnly ==
    ASSUME Typed, KafkaTyped', JobsTyped',
           UNCHANGED <<alarm, enabled, events, tables, workload, sends>>,
           routed' \in [Ids -> (SUBSET Chats) \cup {None}]
    PROVE  Typed'
<1>1. Ids' = Ids
  BY DEF Ids
<1> QED BY <1>1 DEF Typed, TablesTyped, SendsTyped

LEMMA JobsSame ==
    ASSUME Typed, UNCHANGED <<job, events>>
    PROVE  JobsTyped' /\ Ids' = Ids
BY DEF Typed, JobsTyped, Ids

LEMMA FetchMessageEffect ==
    ASSUME Typed, FetchMessage
    PROVE  /\ Typed' /\ Others(Consumer)
           /\ position' = position + 1 /\ position + 1 \in 1..Len(topic)
           /\ topic[position + 1] \in Ids
           /\ job[Consumer] = Idle
           /\ job'[Consumer].pc = "chats" /\ job'[Consumer].ev = topic[position + 1]
           /\ job'[Consumer].chats = Routing(topic[position + 1])
           /\ job'[Consumer].items = {} /\ job'[Consumer].escalated = FALSE
           /\ routed'[topic[position + 1]] = Routing(topic[position + 1])
           /\ Routing(topic[position + 1]) \in SUBSET Chats
           /\ \A e \in Ids : e # topic[position + 1] => routed'[e] = routed[e]
<1> DEFINE e == topic[position + 1]
           new == [Idle EXCEPT !.pc = "chats", !.ev = e, !.chats = Routing(e)]
<1>1. /\ job[Consumer] = Idle /\ position < Len(topic) /\ position' = position + 1
      /\ job' = [job EXCEPT ![Consumer] = new] /\ routed' = [routed EXCEPT ![e] = Routing(e)]
      /\ UNCHANGED <<alarm, enabled, events, pub, queue, topic, committed, tables, workload, sends>>
  BY DEF FetchMessage
<1>2. /\ position \in Nat /\ Len(topic) \in Nat /\ topic \in Seq(Ids)
      /\ position + 1 \in 1..Len(topic)
  BY <1>1, LenProperties DEF Typed, KafkaTyped
<1>3. e \in Ids
  BY <1>2, ElementOfSeq
<1>4. Routing(e) \in SUBSET Chats
  BY DEF Routing, Typed
<1>5. e \in Nat
  BY <1>3 DEF Ids
<1> HIDE DEF e
<1>6. /\ new \in JobRec /\ new.pc = "chats" /\ new.ev = e /\ new.chats = Routing(e)
      /\ new.items = {} /\ new.due = {} /\ new.escalated = FALSE
  BY <1>4, <1>5 DEF Idle, JobRec, Pcs
<1> HIDE DEF new
<1>7. JobOk(Consumer, new, Ids)
  BY <1>3, <1>6 DEF JobOk
<1>8. JobsTyped' /\ job'[Consumer] = new /\ Others(Consumer)
  BY <1>1, <1>7, WorkerNames, JobStep DEF Typed
<1>9. /\ routed' \in [Ids -> (SUBSET Chats) \cup {None}] /\ routed'[e] = Routing(e)
      /\ \A f \in Ids : f # e => routed'[f] = routed[f]
  BY <1>1, <1>3, <1>4 DEF Typed
<1>10. Ids' = Ids
  BY <1>1 DEF Ids
<1>11. KafkaTyped'
  BY <1>1, <1>2, <1>10 DEF Typed, KafkaTyped
<1>12. Typed'
  BY <1>1, <1>8, <1>9, <1>11, KafkaOnly
<1> QED BY <1>1, <1>2, <1>3, <1>4, <1>6, <1>8, <1>9, <1>12 DEF e

LEMMA RouteContextFailsEffect ==
    ASSUME Typed, RouteContextFails
    PROVE  /\ Typed' /\ UNCHANGED job
           /\ position' = position + 1 /\ position + 1 \in 1..Len(topic)
           /\ missed' = missed \cup {topic[position + 1]}
<1>1. /\ position < Len(topic) /\ position' = position + 1 /\ routed' = routed
      /\ missed' = missed \cup {topic[position + 1]}
      /\ UNCHANGED <<alarm, enabled, events, pub, queue, topic, committed, tables, job, workload,
                     sends>>
  BY DEF RouteContextFails
<1>2. position \in Nat /\ Len(topic) \in Nat /\ position + 1 \in 1..Len(topic)
  BY <1>1, LenProperties DEF Typed, KafkaTyped
<1>3. JobsTyped' /\ Ids' = Ids
  BY <1>1, JobsSame
<1>4. KafkaTyped'
  BY <1>1, <1>2, <1>3 DEF Typed, KafkaTyped
<1>5. Typed'
  BY <1>1, <1>3, <1>4, KafkaOnly DEF Typed
<1> QED BY <1>1, <1>2, <1>5

LEMMA CreateFailsEffect ==
    ASSUME Typed, CreateFails
    PROVE  /\ Typed' /\ Others(Consumer) /\ job'[Consumer] = Idle
           /\ job[Consumer].pc = "chats" /\ missed' = missed \cup {job[Consumer].ev}
           /\ job[Consumer].ev \in Ids
<1>1. /\ job[Consumer].pc = "chats" /\ job' = [job EXCEPT ![Consumer] = Idle]
      /\ missed' = missed \cup {job[Consumer].ev}
      /\ UNCHANGED <<alarm, enabled, events, kafka, tables, workload, sends, routed>>
  BY DEF CreateFails
<1>2. JobsTyped' /\ job'[Consumer] = Idle /\ Others(Consumer)
  BY <1>1, IdleOk, WorkerNames, JobStep DEF Typed
<1>3. job[Consumer].ev \in Ids
  BY <1>1, WorkerNames DEF Typed, JobsTyped, JobOk
<1> QED BY <1>1, <1>2, <1>3, JobsOnly

\* The consumer goes on to the commit; the escalation is there, or is not needed.
Committing ==
    /\ Typed' /\ Others(Consumer)
    /\ job[Consumer].pc = "chats" /\ job[Consumer].chats = {} /\ job[Consumer].ev \in Ids
    /\ job[Consumer].items = {}
    /\ job'[Consumer] = [job[Consumer] EXCEPT !.pc = "commit"]
    /\ \A e \in Ids : e # job[Consumer].ev => esc'[e] = esc[e]
    /\ LET e == job[Consumer].ev IN
        /\ esc[e].status # "none" => esc'[e].status = esc[e].status
        /\ esc'[e].status \in {esc[e].status, "waiting"}
        /\ esc'[e].owed = esc[e].owed
        /\ esc'[e].status = "skipped" => esc'[e].reason = esc[e].reason
        /\ esc[e].reason = "not inserted" => esc'[e].reason = "not inserted"
        /\ Escalates(events[e]) =>
             esc'[e].status # "none" \/ esc'[e].reason = "not inserted"

LEMMA ToCommit ==
    ASSUME Typed, job[Consumer].pc = "chats", job[Consumer].chats = {},
           job' = Goes(Consumer, "commit"), UNCHANGED events
    PROVE  /\ JobsTyped' /\ Others(Consumer) /\ job[Consumer].ev \in Ids
           /\ job[Consumer].items = {}
           /\ job'[Consumer] = [job[Consumer] EXCEPT !.pc = "commit"]
<1>1. JobOk(Consumer, job[Consumer], Ids) /\ job[Consumer].ev \in Ids
      /\ job[Consumer].items = {}
  BY WorkerNames DEF Typed, JobsTyped, JobOk
<1> DEFINE new == [job[Consumer] EXCEPT !.pc = "commit"]
<1>2. job' = [job EXCEPT ![Consumer] = new]
  BY DEF Goes
<1>3. JobOk(Consumer, new, Ids)
  BY <1>1, GoesOk DEF Pcs
<1> HIDE DEF new
<1>4. JobsTyped' /\ Others(Consumer) /\ job'[Consumer] = new
  BY <1>2, <1>3, WorkerNames, JobStep DEF Typed
<1> QED BY <1>1, <1>4 DEF new

LEMMA CreateEscalationEffect ==
    ASSUME Typed, CreateEscalation
    PROVE  Committing /\ UNCHANGED <<rows, missed>>
<1>1. /\ job[Consumer].pc = "chats" /\ job[Consumer].chats = {}
      /\ esc' = Inserted(job[Consumer].ev) /\ job' = Goes(Consumer, "commit")
      /\ UNCHANGED <<alarm, enabled, events, kafka, rows, workload, sends, fates>>
  BY DEF CreateEscalation
<1>2. /\ JobsTyped' /\ Others(Consumer) /\ job[Consumer].ev \in Ids
      /\ job[Consumer].items = {}
      /\ job'[Consumer] = [job[Consumer] EXCEPT !.pc = "commit"]
  BY <1>1, ToCommit
<1> DEFINE e == job[Consumer].ev
<1>3. esc \in [Ids -> EscRec] /\ esc[e] \in EscRec
  BY <1>2 DEF Typed, TablesTyped
<1>4. /\ esc' \in [Ids -> EscRec]
      /\ \A f \in Ids : f # e => esc'[f] = esc[f]
      /\ esc[e].status # "none" => esc'[e] = esc[e]
      /\ esc'[e].status \in {esc[e].status, "waiting"}
      /\ esc'[e].owed = esc[e].owed
      /\ esc'[e].status # "waiting" => esc'[e] = esc[e]
      /\ esc'[e].reason = esc[e].reason
      /\ Escalates(events[e]) => esc'[e].status # "none"
  <2>1. CASE Escalates(events[e]) /\ esc[e].status = "none"
    <3> DEFINE rec == [esc[e] EXCEPT !.status = "waiting"]
    <3>1. esc' = [esc EXCEPT ![e] = rec]
      BY <1>1, <2>1 DEF Inserted
    <3>2. rec \in EscRec /\ rec.status = "waiting" /\ rec.owed = esc[e].owed
          /\ rec.reason = esc[e].reason
      BY <1>3 DEF EscRec
    <3> HIDE DEF rec
    <3>3. /\ esc' \in [Ids -> EscRec] /\ esc'[e] = rec
          /\ \A f \in Ids : f # e => esc'[f] = esc[f]
      BY <1>2, <1>3, <3>1, <3>2
    <3> QED BY <2>1, <3>2, <3>3
  <2>2. CASE ~(Escalates(events[e]) /\ esc[e].status = "none")
    <3>1. esc' = esc
      BY <1>1, <2>2 DEF Inserted
    <3> QED BY <1>3, <2>2, <3>1
  <2> QED BY <2>1, <2>2
<1>5. Ids' = Ids
  BY <1>1 DEF Ids
<1>6. TablesTyped' /\ SendsTyped'
  BY <1>1, <1>4, <1>5 DEF Typed, TablesTyped, SendsTyped
<1>7. Typed'
  BY <1>1, <1>2, <1>6, TablesOnly
<1> QED BY <1>1, <1>2, <1>4, <1>7 DEF Committing

LEMMA CreateEscalationFailsEffect ==
    ASSUME Typed, CreateEscalationFails
    PROVE  Committing /\ UNCHANGED <<rows, missed>>
<1>1. /\ job[Consumer].pc = "chats" /\ job[Consumer].chats = {}
      /\ esc' = [esc EXCEPT ![job[Consumer].ev].reason =
                     IF esc[job[Consumer].ev].status = "none" THEN "not inserted" ELSE @]
      /\ job' = Goes(Consumer, "commit")
      /\ UNCHANGED <<alarm, enabled, events, kafka, rows, workload, sends, fates>>
  BY DEF CreateEscalationFails
<1>2. /\ JobsTyped' /\ Others(Consumer) /\ job[Consumer].ev \in Ids
      /\ job[Consumer].items = {}
      /\ job'[Consumer] = [job[Consumer] EXCEPT !.pc = "commit"]
  BY <1>1, ToCommit
<1> DEFINE e == job[Consumer].ev
           rec == [esc[e] EXCEPT !.reason = IF esc[e].status = "none" THEN "not inserted" ELSE @]
<1>3. esc \in [Ids -> EscRec] /\ esc[e] \in EscRec
  BY <1>2 DEF Typed, TablesTyped
<1>4. /\ rec \in EscRec /\ rec.status = esc[e].status /\ rec.owed = esc[e].owed
      /\ rec.reason = IF esc[e].status = "none" THEN "not inserted" ELSE esc[e].reason
  BY <1>3 DEF EscRec
<1>5. esc' = [esc EXCEPT ![e] = rec]
  BY <1>1
<1> HIDE DEF rec
<1>6. /\ esc' \in [Ids -> EscRec] /\ esc'[e] = rec
      /\ \A f \in Ids : f # e => esc'[f] = esc[f]
  BY <1>2, <1>3, <1>4, <1>5
<1>7. Ids' = Ids
  BY <1>1 DEF Ids
<1>8. TablesTyped' /\ SendsTyped'
  BY <1>1, <1>6, <1>7 DEF Typed, TablesTyped, SendsTyped
<1>9. Typed'
  BY <1>1, <1>2, <1>8, TablesOnly
<1> QED BY <1>1, <1>2, <1>4, <1>6, <1>9 DEF Committing

LEMMA CommitMessagesEffect ==
    ASSUME Typed, CommitMessages
    PROVE  /\ Typed' /\ Others(Consumer) /\ job'[Consumer] = Idle
           /\ job[Consumer].pc = "commit" /\ committed' = position
<1>1. /\ job[Consumer].pc = "commit" /\ job' = [job EXCEPT ![Consumer] = Idle]
      /\ committed' = position
      /\ UNCHANGED <<alarm, enabled, events, pub, queue, topic, position, tables, workload,
                     sends, routed>>
  BY DEF CommitMessages, Offset
<1>2. JobsTyped' /\ job'[Consumer] = Idle /\ Others(Consumer)
  BY <1>1, IdleOk, WorkerNames, JobStep DEF Typed
<1>3. Ids' = Ids
  BY <1>1 DEF Ids
<1>4. KafkaTyped'
  BY <1>1, <1>3 DEF Typed, KafkaTyped
<1>5. Typed'
  BY <1>1, <1>2, <1>4, KafkaOnly DEF Typed
<1> QED BY <1>1, <1>2, <1>5

-----------------------------------------------------------------------------
(* Types: what makes events.                                               *)

\* An event is new: all that was there is kept.
Newest == Len(events) + 1
Emitted ==
    /\ Typed' /\ Newest \in Nat /\ Newest \notin Ids /\ Ids' = Ids \cup {Newest}
    /\ UNCHANGED <<queue, topic, position, committed, job, gone, missed>>
    /\ \A e \in Ids : /\ events'[e] = events[e] /\ pub'[e] = pub[e] /\ rows'[e] = rows[e]
                      /\ esc'[e] = esc[e] /\ heard'[e] = heard[e] /\ doubts'[e] = doubts[e]
                      /\ routed'[e] = routed[e]
    /\ pub'[Newest].pc = "ready" /\ pub'[Newest].payload = <<>>
    /\ esc'[Newest] = NoEscalation
    /\ \A c \in Chats : /\ rows'[Newest][c] = NoRow
                        /\ heard'[Newest][c] = 0 /\ doubts'[Newest][c] = 0

LEMMA EmitEffect ==
    ASSUME Typed, NEW e \in EventRec, Emit(e)
    PROVE  Emitted
<1> DEFINE n == Len(events)
<1>1. n \in Nat /\ events \in [1..n -> EventRec] /\ Ids = 1..n
  BY LenProperties DEF Typed, Ids
<1>2. /\ events' = Append(events, e) /\ pub' = Append(pub, Publisher(Tries))
      /\ rows' = Append(rows, [c \in Chats |-> NoRow]) /\ esc' = Append(esc, NoEscalation)
      /\ heard' = Append(heard, [c \in Chats |-> 0])
      /\ doubts' = Append(doubts, [c \in Chats |-> 0])
      /\ routed' = Append(routed, None)
      /\ UNCHANGED <<enabled, queue, topic, position, committed, job, workload, gone, missed>>
  BY DEF Emit
<1>3. events' \in Seq(EventRec) /\ Len(events') = n + 1
  BY <1>2, AppendProperties DEF Typed
<1>4. Ids' = 1..(n + 1) /\ n + 1 \notin Ids /\ Ids' = Ids \cup {n + 1} /\ Ids \subseteq Ids'
  BY <1>1, <1>3 DEF Ids
<1>5. /\ Publisher(Tries) \in PubRec /\ Publisher(Tries).pc = "ready"
      /\ Publisher(Tries).payload = <<>> /\ <<>> \in Seq(Ids')
  BY NotifierAssumption DEF Publisher, PubRec
<1>6. [c \in Chats |-> NoRow] \in [Chats -> Row] /\ [c \in Chats |-> 0] \in [Chats -> Nat]
  BY DEF NoRow, Row, Statuses
<1>7. NoEscalation \in EscRec
  BY DEF NoEscalation, EscRec
<1> HIDE DEF n
<1>8. /\ events' \in [1..(n + 1) -> EventRec]
      /\ \A i \in 1..n : events'[i] = events[i]
      /\ events'[n + 1] = e
  <2>1. events \in [1..n -> EventRec]
    BY <1>1 DEF Typed
  <2>2. events' = Append(events, e)
    BY <1>2
  <2>3. n \in Nat /\ e \in EventRec
    BY <1>1
  <2>4. events' \in [1..(n + 1) -> EventRec]
    BY <2>1, <2>2, <2>3, AppendFun
  <2>5. \A i \in 1..n : events'[i] = events[i]
    BY <2>1, <2>2, <2>3, AppendFun
  <2>6. events'[n + 1] = e
    BY <2>1, <2>2, <2>3, AppendFun
  <2> QED BY <2>4, <2>5, <2>6
<1>9. /\ pub' \in [1..(n + 1) -> PubRec]
      /\ \A i \in 1..n : pub'[i] = pub[i]
      /\ pub'[n + 1] = Publisher(Tries)
  <2>1. pub \in [1..n -> PubRec]
    BY <1>1 DEF Typed, KafkaTyped
  <2>2. pub' = Append(pub, Publisher(Tries))
    BY <1>2
  <2>3. n \in Nat /\ Publisher(Tries) \in PubRec
    BY <1>1, <1>5
  <2>4. pub' \in [1..(n + 1) -> PubRec]
    BY <2>1, <2>2, <2>3, AppendFun
  <2>5. \A i \in 1..n : pub'[i] = pub[i]
    BY <2>1, <2>2, <2>3, AppendFun
  <2>6. pub'[n + 1] = Publisher(Tries)
    BY <2>1, <2>2, <2>3, AppendFun
  <2> QED BY <2>4, <2>5, <2>6
<1>10. /\ rows' \in [1..(n + 1) -> [Chats -> Row]]
      /\ \A i \in 1..n : rows'[i] = rows[i]
      /\ rows'[n + 1] = [c \in Chats |-> NoRow]
  <2>1. rows \in [1..n -> [Chats -> Row]]
    BY <1>1 DEF Typed, TablesTyped
  <2>2. rows' = Append(rows, [c \in Chats |-> NoRow])
    BY <1>2
  <2>3. n \in Nat /\ [c \in Chats |-> NoRow] \in [Chats -> Row]
    BY <1>1, <1>6
  <2>4. rows' \in [1..(n + 1) -> [Chats -> Row]]
    BY <2>1, <2>2, <2>3, AppendFun
  <2>5. \A i \in 1..n : rows'[i] = rows[i]
    BY <2>1, <2>2, <2>3, AppendFun
  <2>6. rows'[n + 1] = [c \in Chats |-> NoRow]
    BY <2>1, <2>2, <2>3, AppendFun
  <2> QED BY <2>4, <2>5, <2>6
<1>11. /\ esc' \in [1..(n + 1) -> EscRec]
      /\ \A i \in 1..n : esc'[i] = esc[i]
      /\ esc'[n + 1] = NoEscalation
  <2>1. esc \in [1..n -> EscRec]
    BY <1>1 DEF Typed, TablesTyped
  <2>2. esc' = Append(esc, NoEscalation)
    BY <1>2
  <2>3. n \in Nat /\ NoEscalation \in EscRec
    BY <1>1, <1>7
  <2>4. esc' \in [1..(n + 1) -> EscRec]
    BY <2>1, <2>2, <2>3, AppendFun
  <2>5. \A i \in 1..n : esc'[i] = esc[i]
    BY <2>1, <2>2, <2>3, AppendFun
  <2>6. esc'[n + 1] = NoEscalation
    BY <2>1, <2>2, <2>3, AppendFun
  <2> QED BY <2>4, <2>5, <2>6
<1>12. /\ heard' \in [1..(n + 1) -> [Chats -> Nat]]
      /\ \A i \in 1..n : heard'[i] = heard[i]
      /\ heard'[n + 1] = [c \in Chats |-> 0]
  <2>1. heard \in [1..n -> [Chats -> Nat]]
    BY <1>1 DEF Typed, SendsTyped
  <2>2. heard' = Append(heard, [c \in Chats |-> 0])
    BY <1>2
  <2>3. n \in Nat /\ [c \in Chats |-> 0] \in [Chats -> Nat]
    BY <1>1, <1>6
  <2>4. heard' \in [1..(n + 1) -> [Chats -> Nat]]
    BY <2>1, <2>2, <2>3, AppendFun
  <2>5. \A i \in 1..n : heard'[i] = heard[i]
    BY <2>1, <2>2, <2>3, AppendFun
  <2>6. heard'[n + 1] = [c \in Chats |-> 0]
    BY <2>1, <2>2, <2>3, AppendFun
  <2> QED BY <2>4, <2>5, <2>6
<1>13. /\ doubts' \in [1..(n + 1) -> [Chats -> Nat]]
      /\ \A i \in 1..n : doubts'[i] = doubts[i]
      /\ doubts'[n + 1] = [c \in Chats |-> 0]
  <2>1. doubts \in [1..n -> [Chats -> Nat]]
    BY <1>1 DEF Typed, SendsTyped
  <2>2. doubts' = Append(doubts, [c \in Chats |-> 0])
    BY <1>2
  <2>3. n \in Nat /\ [c \in Chats |-> 0] \in [Chats -> Nat]
    BY <1>1, <1>6
  <2>4. doubts' \in [1..(n + 1) -> [Chats -> Nat]]
    BY <2>1, <2>2, <2>3, AppendFun
  <2>5. \A i \in 1..n : doubts'[i] = doubts[i]
    BY <2>1, <2>2, <2>3, AppendFun
  <2>6. doubts'[n + 1] = [c \in Chats |-> 0]
    BY <2>1, <2>2, <2>3, AppendFun
  <2> QED BY <2>4, <2>5, <2>6
<1>14. /\ routed' \in [1..(n + 1) -> (SUBSET Chats) \cup {None}]
      /\ \A i \in 1..n : routed'[i] = routed[i]
      /\ routed'[n + 1] = None
  <2>1. routed \in [1..n -> (SUBSET Chats) \cup {None}]
    BY <1>1 DEF Typed
  <2>2. routed' = Append(routed, None)
    BY <1>2
  <2>3. n \in Nat /\ None \in (SUBSET Chats) \cup {None}
    BY <1>1
  <2>4. routed' \in [1..(n + 1) -> (SUBSET Chats) \cup {None}]
    BY <2>1, <2>2, <2>3, AppendFun
  <2>5. \A i \in 1..n : routed'[i] = routed[i]
    BY <2>1, <2>2, <2>3, AppendFun
  <2>6. routed'[n + 1] = None
    BY <2>1, <2>2, <2>3, AppendFun
  <2> QED BY <2>4, <2>5, <2>6
<1>15. /\ queue' \in Seq(Ids') /\ topic' \in Seq(Ids')
       /\ \A i \in Ids' : pub'[i].payload \in Seq(Ids')
  <2>1. queue' \in Seq(Ids') /\ topic' \in Seq(Ids')
    BY <1>2, <1>4, SeqMonotonic DEF Typed, KafkaTyped
  <2>2. ASSUME NEW i \in Ids PROVE pub'[i].payload \in Seq(Ids')
    BY <1>1, <1>4, <1>9, SeqMonotonic DEF Typed, KafkaTyped
  <2>3. pub'[n + 1].payload \in Seq(Ids')
    BY <1>5, <1>9
  <2> QED BY <1>4, <2>1, <2>2, <2>3
<1>16. KafkaTyped'
  BY <1>2, <1>4, <1>9, <1>15 DEF Typed, KafkaTyped
<1>17. JobsTyped'
  <2>1. ASSUME NEW w \in Workers PROVE JobOk(w, job[w], Ids')
    <3>1. JobOk(w, job[w], Ids)
      BY DEF Typed, JobsTyped
    <3> QED BY <1>4, <3>1 DEF JobOk
  <2> QED BY <1>2, <2>1 DEF Typed, JobsTyped
<1>18. TablesTyped' /\ SendsTyped'
  BY <1>4, <1>10, <1>11, <1>12, <1>13 DEF TablesTyped, SendsTyped
<1>19. Typed'
  BY <1>2, <1>3, <1>4, <1>8, <1>14, <1>16, <1>17, <1>18 DEF Typed
<1>20. Newest = n + 1
  BY DEF Newest, n
<1> QED BY <1>1, <1>2, <1>4, <1>5, <1>8, <1>9, <1>10, <1>11, <1>12, <1>13, <1>14, <1>19, <1>20
        DEF Emitted

LEMMA ApplyTransitionEffect ==
    ASSUME Typed, NEW tag \in Tags, NEW s \in States, ApplyTransition(tag, s)
    PROVE  Emitted
<1> DEFINE e == [tag |-> tag, type |-> IF s = "ok" THEN "cleared" ELSE "raised", to |-> s]
<1>1. e \in EventRec
  BY DEF EventRec
<1>2. Emit(e)
  BY DEF ApplyTransition
<1> HIDE DEF e
<1> QED BY <1>1, <1>2, EmitEffect

\* A tag is deleted or forgotten, a chat is enabled, a session is closed.
Deletes == \E tag \in Tags : DeleteTag(tag) \/ ForgetTag(tag)

LEMMA ElsewhereEffect ==
    ASSUME Typed, Deletes \/ (\E c \in Chats : EnableChat(c)) \/ CloseSession
    PROVE  Typed' /\ UNCHANGED <<events, kafka, tables, job, sends, fates>>
<1>1. /\ UNCHANGED <<events, kafka, tables, job, workload, sends, fates>>
      /\ enabled' \subseteq Chats
  <2>1. CASE Deletes
    BY <2>1 DEF Deletes, DeleteTag, ForgetTag, Typed
  <2>2. ASSUME NEW c \in Chats, EnableChat(c)
        PROVE  /\ UNCHANGED <<events, kafka, tables, job, workload, sends, fates>>
               /\ enabled' \subseteq Chats
    BY <2>2 DEF EnableChat, Typed
  <2>3. CASE CloseSession
    BY <2>3 DEF CloseSession, Typed
  <2> QED BY <2>1, <2>2, <2>3
<1>2. JobsTyped' /\ Ids' = Ids
  BY <1>1, JobsSame
<1> QED BY <1>1, <1>2 DEF Typed, KafkaTyped, TablesTyped, SendsTyped

-----------------------------------------------------------------------------
(* Types: the producer.                                                    *)

LEMMA PublisherType ==
    /\ Finished \in PubRec /\ Finished.pc = "done" /\ Finished.payload = <<>>
    /\ \A tries \in Nat : /\ Publisher(tries) \in PubRec /\ Publisher(tries).pc = "ready"
                          /\ Publisher(tries).payload = <<>>
    /\ \A S : <<>> \in Seq(S) /\ Range(<<>>) = {}
<1>1. \A S : <<>> \in Seq(S)
  OBVIOUS
<1>2. DOMAIN <<>> = {}
  OBVIOUS
<1> QED BY <1>1, <1>2 DEF Finished, Publisher, PubRec, Range

\* The goroutine of an event is replaced.
LEMMA PubStep ==
    ASSUME Typed, NEW e \in Ids, NEW p \in PubRec, p.payload \in Seq(Ids),
           pub' = [pub EXCEPT ![e] = p], queue' \in Seq(Ids), topic' \in Seq(Ids),
           Len(topic) <= Len(topic'),
           UNCHANGED <<alarm, enabled, events, position, committed, tables, job, workload, sends,
                       routed>>
    PROVE  /\ Typed' /\ pub'[e] = p
           /\ \A f \in Ids : f # e => pub'[f] = pub[f]
<1>1. JobsTyped' /\ Ids' = Ids
  BY JobsSame
<1>2. /\ pub' \in [Ids -> PubRec] /\ pub'[e] = p
      /\ \A f \in Ids : f # e => pub'[f] = pub[f]
  BY DEF Typed, KafkaTyped
<1>3. \A f \in Ids : pub'[f].payload \in Seq(Ids)
  BY <1>2 DEF Typed, KafkaTyped
<1>4. Len(topic) \in Nat /\ Len(topic') \in Nat
  BY LenProperties DEF Typed, KafkaTyped
<1>5. position' <= Len(topic')
  BY <1>4 DEF Typed, KafkaTyped
<1>6. KafkaTyped'
  BY <1>1, <1>2, <1>3, <1>5 DEF Typed, KafkaTyped
<1>7. routed' \in [Ids -> (SUBSET Chats) \cup {None}]
  BY DEF Typed
<1>8. Typed'
  BY <1>1, <1>6, <1>7, KafkaOnly
<1> QED BY <1>2, <1>8

\* What a goroutine does keeps every event that is in memory or in the topic.
PubKeeps(e) ==
    /\ Typed' /\ UNCHANGED <<events, position, committed, tables, job, sends, missed, routed>>
    /\ \A f \in Ids : f # e => pub'[f] = pub[f]
    /\ gone \subseteq gone'

LEMMA TakeQueueEffect ==
    ASSUME Typed, NEW e \in Ids, TakeQueue(e)
    PROVE  /\ PubKeeps(e) /\ UNCHANGED <<topic, gone>>
           /\ pub'[e].pc = "writing" /\ Range(pub'[e].payload) = Range(queue) \cup {e}
           /\ pub[e].pc = "ready"
           /\ queue' = <<>>
<1> DEFINE p == [pub[e] EXCEPT !.pc = "writing", !.payload = Append(queue, e)]
<1>1. pub[e] \in PubRec /\ queue \in Seq(Ids)
  BY DEF Typed, KafkaTyped
<1>2. /\ Append(queue, e) \in Seq(Ids) /\ Range(Append(queue, e)) = Range(queue) \cup {e}
  BY <1>1, AppendProperties, RangeOfAppend
<1>3. Append(queue, e) \in Seq(Nat)
  BY <1>2, SeqMonotonic DEF Ids
<1>4. p \in PubRec /\ p.pc = "writing" /\ p.payload = Append(queue, e)
  BY <1>1, <1>3 DEF PubRec
<1>5. pub' = [pub EXCEPT ![e] = p]
  BY DEF TakeQueue
<1>6. /\ queue' = <<>> /\ pub[e].pc = "ready"
      /\ UNCHANGED <<alarm, enabled, events, topic, position, committed, tables, job, workload,
                     sends, fates>>
  BY DEF TakeQueue
<1>7. queue' \in Seq(Ids) /\ topic' \in Seq(Ids) /\ Len(topic) <= Len(topic')
  BY <1>6, PublisherType, LenProperties DEF Typed, KafkaTyped
<1> HIDE DEF p
<1>8. /\ Typed' /\ pub'[e] = p
      /\ \A f \in Ids : f # e => pub'[f] = pub[f]
  BY <1>2, <1>4, <1>5, <1>6, <1>7, PubStep
<1> QED BY <1>2, <1>4, <1>6, <1>8 DEF PubKeeps

LEMMA WriteMessagesEffect ==
    ASSUME Typed, NEW e \in Ids, WriteMessages(e)
    PROVE  /\ PubKeeps(e) /\ UNCHANGED <<queue, gone>>
           /\ pub[e].pc = "writing" /\ topic' = topic \o pub[e].payload
           /\ pub'[e] = Finished
<1>1. /\ pub[e].pc = "writing" /\ topic' = topic \o pub[e].payload
      /\ pub' = [pub EXCEPT ![e] = Finished]
      /\ UNCHANGED <<alarm, enabled, events, queue, position, committed, tables, job, workload,
                     sends, fates>>
  BY DEF WriteMessages, Published
<1>2. pub[e].payload \in Seq(Ids) /\ topic \in Seq(Ids) /\ queue \in Seq(Ids)
  BY DEF Typed, KafkaTyped
<1>3. topic' \in Seq(Ids) /\ Len(topic') = Len(topic) + Len(pub[e].payload)
  BY <1>1, <1>2, ConcatProperties
<1>4. Len(topic) \in Nat /\ Len(pub[e].payload) \in Nat
  BY <1>2, LenProperties
<1>5. Len(topic) <= Len(topic') /\ queue' \in Seq(Ids)
  BY <1>1, <1>2, <1>3, <1>4
<1>6. Finished.payload \in Seq(Ids)
  BY PublisherType
<1>7. /\ Typed' /\ pub'[e] = Finished
      /\ \A f \in Ids : f # e => pub'[f] = pub[f]
  BY <1>1, <1>3, <1>5, <1>6, PublisherType, PubStep
<1> QED BY <1>1, <1>7 DEF PubKeeps

LEMMA WriteFailsEffect ==
    ASSUME Typed, NEW e \in Ids, WriteFails(e)
    PROVE  /\ PubKeeps(e) /\ UNCHANGED <<topic, gone>>
           /\ pub[e].pc = "writing" /\ Range(queue') = Range(queue) \cup Range(pub[e].payload)
           /\ pub'[e].pc \in {"ready", "done"} /\ pub'[e].payload = <<>>
<1> DEFINE p == IF pub[e].tries > 1 THEN Publisher(pub[e].tries - 1) ELSE Finished
<1>1. /\ pub[e].pc = "writing" /\ queue' = queue \o pub[e].payload
      /\ UNCHANGED <<alarm, enabled, events, topic, position, committed, tables, job, workload,
                     sends, fates>>
  BY DEF WriteFails, Requeue
<1>2. pub' = [pub EXCEPT ![e] = p]
  BY DEF WriteFails, Published
<1>3. pub[e].payload \in Seq(Ids) /\ topic \in Seq(Ids) /\ queue \in Seq(Ids)
      /\ pub[e].tries \in Nat
  BY DEF Typed, KafkaTyped, PubRec
<1>4. p \in PubRec /\ p.pc \in {"ready", "done"} /\ p.payload = <<>>
  BY <1>3, PublisherType
<1>5. queue' \in Seq(Ids) /\ Range(queue') = Range(queue) \cup Range(pub[e].payload)
  BY <1>1, <1>3, ConcatProperties, RangeOfConcat
<1>6. Len(topic) \in Nat /\ topic' \in Seq(Ids) /\ Len(topic) <= Len(topic')
  BY <1>1, <1>3, LenProperties
<1> HIDE DEF p
<1>7. p.payload \in Seq(Ids)
  BY <1>4, PublisherType
<1>8. /\ Typed' /\ pub'[e] = p
      /\ \A f \in Ids : f # e => pub'[f] = pub[f]
  BY <1>1, <1>2, <1>4, <1>5, <1>6, <1>7, PubStep
<1> QED BY <1>1, <1>4, <1>5, <1>8 DEF PubKeeps

LEMMA WriteLostEffect ==
    ASSUME Typed, NEW e \in Ids, WriteLost(e)
    PROVE  /\ PubKeeps(e) /\ UNCHANGED <<topic, queue>>
           /\ pub[e].pc = "writing" /\ gone' = gone \cup Range(pub[e].payload)
           /\ pub'[e] = Finished
<1>1. /\ pub[e].pc = "writing" /\ gone' = gone \cup Range(pub[e].payload)
      /\ pub' = [pub EXCEPT ![e] = Finished]
      /\ UNCHANGED <<alarm, enabled, events, queue, topic, position, committed, tables, job,
                     workload, sends, missed, routed>>
  BY DEF WriteLost, Published
<1>2. topic \in Seq(Ids) /\ queue \in Seq(Ids)
  BY DEF Typed, KafkaTyped
<1>3. Len(topic) \in Nat /\ topic' \in Seq(Ids) /\ queue' \in Seq(Ids) /\ Len(topic) <= Len(topic')
  BY <1>1, <1>2, LenProperties
<1>4. Finished.payload \in Seq(Ids)
  BY PublisherType
<1>5. /\ Typed' /\ pub'[e] = Finished
      /\ \A f \in Ids : f # e => pub'[f] = pub[f]
  BY <1>1, <1>3, <1>4, PublisherType, PubStep
<1> QED BY <1>1, <1>5 DEF PubKeeps

-----------------------------------------------------------------------------
(* Types: the schedulers.                                                  *)

\* The step of scheduler r touches no notification; an escalation it goes on with
\* has, of each chat that is owed, the row or the chat still to do.
Quiet(r) ==
    /\ Others(r) /\ UNCHANGED <<events, kafka, rows, sends, fates>>
    /\ ~Delivering(r) /\ job'[r].pc \notin {"send", "mark"}
    /\ job[r].items = {} /\ job'[r].items = {}
    /\ job'[r].pc = "chats" =>
         \/ job'[r].owed \subseteq job'[r].chats
         \/ /\ job[r].pc = "chats" /\ job[r].escalated /\ job'[r].ev = job[r].ev
            /\ \A c \in job'[r].owed :
                 c \in job[r].owed /\ (c \in job[r].chats => c \in job'[r].chats)

LEMMA ReplicaJob ==
    ASSUME Typed, NEW r \in Replicas
    PROVE  /\ r \in Workers /\ r # Consumer /\ job[r] \in JobRec /\ JobOk(r, job[r], Ids)
           /\ job[r].pc \notin {"retry", "send", "mark"} => job[r].items = {}
           /\ job[r].pc \in {"chats", "due"} => job[r].escalated
           /\ job[r].pc = "list" => ~job[r].escalated
           /\ job[r].pc = "chats" => job[r].ev \in Ids
BY WorkerNames DEF Typed, JobsTyped, JobOk

LEMMA QuietStep ==
    ASSUME Typed, NEW r \in Replicas, NEW new, job' = [job EXCEPT ![r] = new],
           UNCHANGED <<alarm, enabled, events, kafka, tables, workload, sends, fates>>,
           new \in JobRec, new.due \subseteq Ids, new.items = {},
           job[r].pc \notin {"send", "mark"}, job[r].items = {},
           new.pc \notin {"send", "mark", "commit"},
           new.pc \in {"chats", "due"} => new.escalated,
           new.pc = "list" => ~new.escalated,
           new.pc = "chats" =>
             /\ new.ev \in Ids
             /\ \/ new.owed \subseteq new.chats
                \/ /\ job[r].pc = "chats" /\ new.ev = job[r].ev
                   /\ \A c \in new.owed :
                        c \in job[r].owed /\ (c \in job[r].chats => c \in new.chats)
    PROVE  Typed' /\ Quiet(r)
<1>1. JobOk(r, new, Ids)
  BY ReplicaJob DEF JobOk
<1>2. JobsTyped' /\ job'[r] = new /\ Others(r)
  BY <1>1, ReplicaJob, JobStep DEF Typed
<1>3. Typed'
  BY <1>2, JobsOnly
<1> QED BY <1>2, <1>3, ReplicaJob DEF Quiet, Delivering

\* The records of a scheduler that starts something else.
LEMMA FreshShapes ==
    /\ [Idle EXCEPT !.pc = "list"] \in JobRec
    /\ [Idle EXCEPT !.pc = "list"].pc = "list" /\ [Idle EXCEPT !.pc = "list"].items = {}
    /\ [Idle EXCEPT !.pc = "list"].due = {} /\ [Idle EXCEPT !.pc = "list"].escalated = FALSE
    /\ [Idle EXCEPT !.pc = "unlock"] \in JobRec
    /\ [Idle EXCEPT !.pc = "unlock"].pc = "unlock" /\ [Idle EXCEPT !.pc = "unlock"].items = {}
    /\ [Idle EXCEPT !.pc = "unlock"].due = {}
    /\ Idle \in JobRec /\ Idle.pc = "idle" /\ Idle.items = {} /\ Idle.due = {}
BY DEF Idle, JobRec, Pcs

LEMMA TryLockEffect ==
    ASSUME Typed, NEW r \in Replicas, NEW s, TryLock(r, s)
    PROVE  Typed' /\ Quiet(r) /\ UNCHANGED esc
<1>1. /\ job[r] = Idle /\ job' = [job EXCEPT ![r] = [Idle EXCEPT !.pc = "list"]]
      /\ UNCHANGED <<alarm, enabled, events, kafka, tables, workload, sends, fates>>
  BY DEF TryLock, Goes
<1> QED BY <1>1, FreshShapes, QuietStep

LEMMA UnlockEffect ==
    ASSUME Typed, NEW r \in Replicas, NEW s, Unlock(r, s)
    PROVE  Typed' /\ Quiet(r) /\ UNCHANGED esc
<1>1. /\ job[r].pc = "unlock" /\ job' = [job EXCEPT ![r] = Idle]
      /\ UNCHANGED <<alarm, enabled, events, kafka, tables, workload, sends, fates>>
  BY DEF Unlock
<1> QED BY <1>1, FreshShapes, ReplicaJob, QuietStep

LEMMA GoesQuiet ==
    ASSUME Typed, NEW r \in Replicas, NEW pc \in {"unlock", "listDue"}, job' = Goes(r, pc),
           UNCHANGED <<alarm, enabled, events, kafka, tables, workload, sends, fates>>,
           job[r].pc \notin {"send", "mark"}, job[r].items = {}
    PROVE  Typed' /\ Quiet(r)
<1> DEFINE new == [job[r] EXCEPT !.pc = pc]
<1>1. job' = [job EXCEPT ![r] = new]
  BY DEF Goes
<1>2. job[r] \in JobRec /\ job[r].due \subseteq Ids
  BY ReplicaJob DEF JobOk
<1>3. new \in JobRec /\ new.pc = pc /\ new.due = job[r].due /\ new.items = {}
  BY <1>2 DEF JobRec, Pcs
<1> HIDE DEF new
<1> QED BY <1>1, <1>2, <1>3, QuietStep

LEMMA TickFailsEffect ==
    ASSUME Typed, NEW r \in Replicas, TickFails(r)
    PROVE  Typed' /\ Quiet(r) /\ UNCHANGED esc
<1>1. /\ job[r].pc \in {"list", "listDue"} /\ job' = Goes(r, "unlock")
      /\ UNCHANGED <<alarm, enabled, events, kafka, tables, workload, sends, fates>>
  BY DEF TickFails
<1> QED BY <1>1, ReplicaJob, GoesQuiet

LEMMA RetryDoneEffect ==
    ASSUME Typed, NEW r \in Replicas, RetryDone(r)
    PROVE  Typed' /\ Quiet(r) /\ UNCHANGED esc
<1>1. /\ job[r].pc = "retry" /\ job[r].items = {} /\ job' = Goes(r, "listDue")
      /\ UNCHANGED <<alarm, enabled, events, kafka, tables, workload, sends, fates>>
  BY DEF RetryDone
<1> QED BY <1>1, GoesQuiet

LEMMA ListDueEscalationsEffect ==
    ASSUME Typed, NEW r \in Replicas, ListDueEscalations(r)
    PROVE  Typed' /\ Quiet(r) /\ UNCHANGED esc
<1> DEFINE due == {e \in DOMAIN esc : <<e, None>> \in
                       Batch({<<f, None>> : f \in {d \in DOMAIN esc : esc[d].status = "due"}})}
           new == [Idle EXCEPT !.pc = "due", !.escalated = TRUE, !.due = due]
<1>1. /\ job[r].pc = "listDue" /\ job' = [job EXCEPT ![r] = new]
      /\ UNCHANGED <<alarm, enabled, events, kafka, tables, workload, sends, fates>>
  BY DEF ListDueEscalations
<1>2. due \subseteq Ids /\ due \subseteq Nat
  BY DEF Typed, TablesTyped, Ids
<1> HIDE DEF due
<1>3. /\ new \in JobRec /\ new.pc = "due" /\ new.due = due /\ new.items = {}
      /\ new.escalated = TRUE
  BY <1>2 DEF Idle, JobRec, Pcs
<1> HIDE DEF new
<1> QED BY <1>1, <1>2, <1>3, ReplicaJob, QuietStep

LEMMA EscalationsDoneEffect ==
    ASSUME Typed, NEW r \in Replicas, EscalationsDone(r)
    PROVE  Typed' /\ Quiet(r) /\ UNCHANGED esc
<1>1. /\ job[r].pc = "due" /\ job' = [job EXCEPT ![r] = [Idle EXCEPT !.pc = "unlock"]]
      /\ UNCHANGED <<alarm, enabled, events, kafka, tables, workload, sends, fates>>
  BY DEF EscalationsDone
<1> QED BY <1>1, FreshShapes, ReplicaJob, QuietStep

LEMMA EscalationPostponedEffect ==
    ASSUME Typed, NEW r \in Replicas, NEW e, EscalationPostponed(r, e)
    PROVE  Typed' /\ Quiet(r) /\ UNCHANGED esc
<1> DEFINE new == [job[r] EXCEPT !.due = @ \ {e}]
<1>1. /\ job[r].pc = "due" /\ job' = [job EXCEPT ![r] = new]
      /\ UNCHANGED <<alarm, enabled, events, kafka, tables, workload, sends, fates>>
  BY DEF EscalationPostponed
<1>2. job[r] \in JobRec /\ job[r].due \subseteq Ids /\ job[r].items = {} /\ job[r].escalated
  BY <1>1, ReplicaJob DEF JobOk
<1>3. /\ new \in JobRec /\ new.pc = "due" /\ new.due = job[r].due \ {e} /\ new.items = {}
      /\ new.escalated = job[r].escalated
  BY <1>1, <1>2 DEF JobRec
<1> HIDE DEF new
<1> QED BY <1>1, <1>2, <1>3, QuietStep

LEMMA EscalationTakenUpEffect ==
    ASSUME Typed, NEW r \in Replicas, NEW e, EscalationTakenUp(r, e)
    PROVE  Typed' /\ Quiet(r) /\ UNCHANGED esc
<1> DEFINE told == Admins \cap enabled
           new == [job[r] EXCEPT !.pc = "chats", !.due = @ \ {e}, !.ev = e, !.chats = told,
                                 !.owed = told]
<1>1. /\ job[r].pc = "due" /\ e \in job[r].due /\ job' = [job EXCEPT ![r] = new]
      /\ UNCHANGED <<alarm, enabled, events, kafka, tables, workload, sends, fates>>
  BY DEF EscalationTakenUp
<1>2. /\ job[r] \in JobRec /\ job[r].due \subseteq Ids /\ job[r].items = {}
      /\ e \in Ids /\ e \in Nat /\ job[r].escalated
  BY <1>1, ReplicaJob DEF JobOk, JobRec
<1>3. told \in SUBSET Chats
  BY DEF Typed
<1> HIDE DEF told
<1>4. /\ new \in JobRec /\ new.pc = "chats" /\ new.due = job[r].due \ {e} /\ new.items = {}
      /\ new.ev = e /\ new.chats = told /\ new.owed = told /\ new.escalated = job[r].escalated
  BY <1>2, <1>3 DEF JobRec, Pcs
<1> HIDE DEF new
<1> QED BY <1>1, <1>2, <1>4, QuietStep

\* The same, when the step writes the escalation of an event too.
LEMMA EscalationStep ==
    ASSUME Typed, NEW r \in Replicas, NEW new, job' = [job EXCEPT ![r] = new],
           UNCHANGED <<alarm, enabled, events, kafka, rows, workload, sends, fates>>,
           new \in JobRec, new.due \subseteq Ids, new.items = {}, new.pc = "due", new.escalated,
           job[r].pc \in {"chats", "due"},
           esc' \in [Ids -> EscRec]
    PROVE  Typed' /\ Quiet(r)
<1>1. JobOk(r, new, Ids)
  BY ReplicaJob DEF JobOk
<1>2. JobsTyped' /\ job'[r] = new /\ Others(r)
  BY <1>1, ReplicaJob, JobStep DEF Typed
<1>4. Ids' = Ids
  BY DEF Ids
<1>5. TablesTyped' /\ SendsTyped'
  BY <1>4 DEF Typed, TablesTyped, SendsTyped
<1>6. Typed'
  BY <1>2, <1>5, TablesOnly
<1> QED BY <1>2, <1>6, ReplicaJob DEF Quiet, Delivering

\* Scheduler r closes the escalation of e without a message.
Skips(r, e) ==
    /\ Typed' /\ Quiet(r) /\ e \in Ids
    /\ esc'[e].status = "skipped" /\ esc'[e].reason = "unread"
    /\ esc'[e].owed = esc[e].owed
    /\ \A f \in Ids : f # e => esc'[f] = esc[f]

LEMMA CloseEffect ==
    ASSUME Typed, NEW r \in Replicas, NEW e \in job[r].due, job[r].pc = "due",
           Close(e, "skipped", "unread"),
           job' = [job EXCEPT ![r].due = @ \ {e}],
           UNCHANGED <<alarm, enabled, events, kafka, rows, workload, sends, fates>>
    PROVE  Skips(r, e)
<1> DEFINE new == [job[r] EXCEPT !.due = @ \ {e}]
           rec == [esc[e] EXCEPT !.status = "skipped", !.reason = "unread"]
<1>1. job' = [job EXCEPT ![r] = new]
  OBVIOUS
<1>2. job[r] \in JobRec /\ job[r].due \subseteq Ids /\ job[r].items = {} /\ job[r].escalated
  BY ReplicaJob DEF JobOk
<1>3. /\ new \in JobRec /\ new.pc = "due" /\ new.due = job[r].due \ {e} /\ new.items = {}
      /\ new.escalated = job[r].escalated
  BY <1>2 DEF JobRec
<1>4. e \in Ids /\ esc[e] \in EscRec
  BY <1>2 DEF Typed, TablesTyped
<1>5. /\ rec \in EscRec /\ rec.status = "skipped" /\ rec.reason = "unread" /\ rec.owed = esc[e].owed
  BY <1>4 DEF EscRec
<1>6. /\ esc' \in [Ids -> EscRec] /\ esc'[e] = rec
      /\ \A f \in Ids : f # e => esc'[f] = esc[f]
  <2>1. esc \in [Ids -> EscRec]
    BY DEF Typed, TablesTyped
  <2> DEFINE first == [esc EXCEPT ![e].status = "skipped"]
  <2>2. esc' = [first EXCEPT ![e].reason = "unread"]
    BY DEF Close
  <2>3. /\ first = [f \in Ids |-> IF f = e THEN [esc[e] EXCEPT !.status = "skipped"] ELSE esc[f]]
    BY <2>1
  <2> HIDE DEF first, rec
  <2>4. esc' = [f \in Ids |-> IF f = e THEN [first[e] EXCEPT !.reason = "unread"] ELSE first[f]]
    BY <1>4, <2>2, <2>3
  <2>5. [[esc[e] EXCEPT !.status = "skipped"] EXCEPT !.reason = "unread"] = rec
    BY <1>4 DEF rec, EscRec
  <2> QED BY <1>4, <1>5, <2>1, <2>3, <2>4, <2>5
<1> HIDE DEF new, rec
<1>7. Typed' /\ Quiet(r)
  BY <1>1, <1>2, <1>3, <1>6, EscalationStep
<1> QED BY <1>4, <1>5, <1>6, <1>7 DEF Skips

LEMMA EscalationUnreadEffect ==
    ASSUME Typed, NEW r \in Replicas, NEW e, EscalationUnread(r, e)
    PROVE  Skips(r, e)
<1>1. /\ job[r].pc = "due" /\ e \in job[r].due /\ Close(e, "skipped", "unread")
      /\ job' = [job EXCEPT ![r].due = @ \ {e}]
      /\ UNCHANGED <<alarm, enabled, events, kafka, rows, workload, sends, fates>>
  BY DEF EscalationUnread
<1> QED BY <1>1, CloseEffect

LEMMA EscalationCreateFailsEffect ==
    ASSUME Typed, NEW r \in Replicas, NEW c, EscalationCreateFails(r, c)
    PROVE  Typed' /\ Quiet(r) /\ UNCHANGED esc
<1> DEFINE new == [job[r] EXCEPT !.chats = @ \ {c}, !.owed = @ \ {c}]
<1>1. /\ job[r].pc = "chats" /\ job' = [job EXCEPT ![r] = new]
      /\ UNCHANGED <<alarm, enabled, events, kafka, tables, workload, sends, fates>>
  BY DEF EscalationCreateFails
<1>2. /\ job[r] \in JobRec /\ job[r].due \subseteq Ids /\ job[r].items = {} /\ job[r].escalated
      /\ job[r].ev \in Ids
  BY <1>1, ReplicaJob DEF JobOk
<1>3. /\ new \in JobRec /\ new.pc = "chats" /\ new.due = job[r].due /\ new.items = {}
      /\ new.escalated = job[r].escalated /\ new.ev = job[r].ev
      /\ new.chats = job[r].chats \ {c} /\ new.owed = job[r].owed \ {c}
  BY <1>1, <1>2 DEF JobRec
<1> HIDE DEF new
<1> QED BY <1>1, <1>2, <1>3, QuietStep

\* The record of a scheduler that is done with an escalation.
ClosedJob(r) == [job[r] EXCEPT !.pc = "due", !.ev = 0, !.chats = {}, !.owed = {}]

LEMMA ClosedShape ==
    ASSUME Typed, NEW r \in Replicas, job[r].pc = "chats"
    PROVE  /\ ClosedJob(r) \in JobRec /\ ClosedJob(r).pc = "due" /\ ClosedJob(r).items = {}
           /\ ClosedJob(r).due \subseteq Ids /\ ClosedJob(r).escalated
           /\ job[r].ev \in Ids /\ job[r].items = {} /\ job[r].owed \in SUBSET Chats
<1>1. /\ job[r] \in JobRec /\ job[r].due \subseteq Ids /\ job[r].items = {} /\ job[r].escalated
      /\ job[r].ev \in Ids
  BY ReplicaJob DEF JobOk
<1> QED BY <1>1 DEF ClosedJob, JobRec, Pcs

LEMMA EscalationMarkFailsEffect ==
    ASSUME Typed, NEW r \in Replicas, EscalationMarkFails(r)
    PROVE  Typed' /\ Quiet(r) /\ UNCHANGED esc
<1>1. /\ job[r].pc = "chats" /\ job' = [job EXCEPT ![r] = ClosedJob(r)]
      /\ UNCHANGED <<alarm, enabled, events, kafka, tables, workload, sends, fates>>
  BY DEF EscalationMarkFails, Closed, ClosedJob
<1> QED BY <1>1, ClosedShape, QuietStep

LEMMA EscalationProcessedEffect ==
    ASSUME Typed, NEW r \in Replicas, EscalationProcessed(r)
    PROVE  /\ Typed' /\ Quiet(r) /\ job[r].pc = "chats" /\ job[r].chats = {} /\ job[r].escalated
           /\ job[r].ev \in Ids
           /\ esc'[job[r].ev].status = "processed" /\ esc'[job[r].ev].owed = job[r].owed
           /\ \A f \in Ids : f # job[r].ev => esc'[f] = esc[f]
<1> DEFINE e == job[r].ev
           rec == [esc[e] EXCEPT !.status = "processed", !.owed = job[r].owed]
<1>1. /\ job[r].pc = "chats" /\ job[r].chats = {} /\ job' = [job EXCEPT ![r] = ClosedJob(r)]
      /\ esc' = [esc EXCEPT ![e] = rec]
      /\ UNCHANGED <<alarm, enabled, events, kafka, rows, workload, sends, fates>>
  BY DEF EscalationProcessed, AllTold, Closed, ClosedJob
<1>2. e \in Ids /\ esc[e] \in EscRec /\ job[r].owed \in SUBSET Chats
  BY <1>1, ClosedShape DEF Typed, TablesTyped
<1>3. rec \in EscRec /\ rec.status = "processed" /\ rec.owed = job[r].owed
  BY <1>2 DEF EscRec
<1> HIDE DEF rec
<1>4. /\ esc' \in [Ids -> EscRec] /\ esc'[e] = rec
      /\ \A f \in Ids : f # e => esc'[f] = esc[f]
  BY <1>1, <1>2, <1>3 DEF Typed, TablesTyped
<1>5. Typed' /\ Quiet(r)
  BY <1>1, <1>4, ClosedShape, EscalationStep
<1> QED BY <1>1, <1>2, <1>3, <1>4, <1>5, ReplicaJob

\* The other tables and the topic are left alone; worker r retries.
Retries(r) == /\ Typed' /\ Others(r) /\ UNCHANGED <<events, kafka, tables, heard, fates>>
              /\ ~Delivering(r) /\ ~job'[r].escalated

LEMMA ListPendingNotificationsEffect ==
    ASSUME Typed, NEW r \in Replicas, ListPendingNotifications(r)
    PROVE  /\ Retries(r) /\ UNCHANGED doubts
           /\ job[r].items = {} /\ job'[r].pc = "retry"
           /\ \A i \in job'[r].items :
                /\ i.ev \in Ids /\ i.chat \in Chats
                /\ rows[i.ev][i.chat].status = "pending"
                /\ i.busy = Busy(r, i.ev, i.chat)
<1> DEFINE Item(e, c) == [ev |-> e, chat |-> c, attempt |-> rows[e][c].attempt,
                          busy |-> Busy(r, e, c)]
           items == {Item(x[1], x[2]) :
                       x \in Batch({y \in (DOMAIN rows) \X Chats : Listed(y[1], y[2])})}
           new == [job[r] EXCEPT !.pc = "retry", !.items = items]
<1>1. /\ job[r].pc = "list"
      /\ job' = [job EXCEPT ![r].pc = "retry", ![r].items = items]
      /\ UNCHANGED <<alarm, enabled, events, kafka, tables, workload, sends, fates>>
  BY DEF ListPendingNotifications
<1>2. job[r] \in JobRec /\ job[r].due \subseteq Ids /\ job[r].items = {} /\ JobOk(r, job[r], Ids)
  BY <1>1, ReplicaJob DEF JobOk
<1>3. ASSUME NEW i \in items
      PROVE  \E e \in Ids, c \in Chats :
               /\ i = Item(e, c) /\ Listed(e, c)
               /\ i \in ItemRec /\ i.ev = e /\ i.chat = c /\ i.busy = Busy(r, e, c)
               /\ rows[e][c].status = "pending"
  <2>1. PICK x \in (DOMAIN rows) \X Chats : Listed(x[1], x[2]) /\ i = Item(x[1], x[2])
    BY <1>3 DEF Batch
  <2> PICK e \in DOMAIN rows, c \in Chats : x = <<e, c>>
    OBVIOUS
  <2>2. Listed(e, c) /\ i = Item(e, c)
    BY <2>1
  <2>3. e \in Ids /\ rows[e][c] \in Row /\ e \in Nat
    BY DEF Typed, TablesTyped, Ids
  <2>4. rows[e][c].attempt \in Nat /\ rows[e][c].status = "pending"
    BY <2>2, <2>3 DEF Row, Listed
  <2>5. Busy(r, e, c) \in BOOLEAN
    BY DEF Busy
  <2>6. i \in ItemRec /\ i.ev = e /\ i.chat = c /\ i.busy = Busy(r, e, c)
    BY <2>2, <2>3, <2>4, <2>5 DEF ItemRec
  <2> QED BY <2>2, <2>3, <2>4, <2>6
<1>4. items \subseteq ItemRec
  BY <1>3
<1>5. \A i, k \in items : i.ev = k.ev /\ i.chat = k.chat => i = k
  BY <1>3
<1> HIDE DEF items, Item
<1>6. job' = [job EXCEPT ![r] = new]
  <2> DEFINE first == [job EXCEPT ![r].pc = "retry"]
  <2>1. job' = [first EXCEPT ![r].items = items]
    BY <1>1
  <2>2. job \in [Workers -> JobRec] /\ r \in Workers
    BY ReplicaJob DEF Typed, JobsTyped
  <2>3. first = [w \in Workers |-> IF w = r THEN [job[r] EXCEPT !.pc = "retry"] ELSE job[w]]
    BY <2>2
  <2> HIDE DEF first
  <2>4. job' = [w \in Workers |-> IF w = r THEN [first[r] EXCEPT !.items = items] ELSE first[w]]
    BY <2>1, <2>2, <2>3
  <2>5. [[job[r] EXCEPT !.pc = "retry"] EXCEPT !.items = items] = new
    BY <1>2 DEF JobRec
  <2> HIDE DEF new
  <2>6. job' = [w \in Workers |-> IF w = r THEN new ELSE job[w]]
    BY <2>2, <2>3, <2>4, <2>5
  <2> QED BY <2>2, <2>6
<1>7. /\ new \in JobRec /\ new.pc = "retry" /\ new.items = items /\ new.due = job[r].due
      /\ new.escalated = job[r].escalated
  BY <1>2, <1>4 DEF JobRec, Pcs
<1> HIDE DEF new
<1>8. JobOk(r, new, Ids)
  <2>1. \A i \in items : i.ev \in Ids
    BY <1>3
  <2>2. r # Consumer /\ ~job[r].escalated
    BY <1>1, ReplicaJob
  <2> QED BY <1>2, <1>5, <1>7, <2>1, <2>2 DEF JobOk
<1>9. JobsTyped' /\ job'[r] = new /\ Others(r)
  <2>1. r \in Workers /\ JobsTyped /\ UNCHANGED events
    BY <1>1, ReplicaJob DEF Typed
  <2> QED BY <1>6, <1>8, <2>1, JobStep
<1>10. Typed'
  BY <1>1, <1>9, JobsOnly
<1>11. \A i \in job'[r].items :
                /\ i.ev \in Ids /\ i.chat \in Chats
                /\ rows[i.ev][i.chat].status = "pending"
                /\ i.busy = Busy(r, i.ev, i.chat)
  BY <1>3, <1>7, <1>9
<1> QED BY <1>1, <1>2, <1>7, <1>9, <1>10, <1>11, ReplicaJob DEF Retries, Delivering

LEMMA RetryNextEffect ==
    ASSUME Typed, NEW r \in Replicas, NEW i \in job[r].items, RetryNext(r, i)
    PROVE  /\ Retries(r) /\ i.ev \in Ids /\ i.chat \in Chats
           /\ job'[r].pc = "send" /\ job'[r].ev = i.ev /\ job'[r].chat = i.chat
           /\ job'[r].items = job[r].items \ {i}
           /\ \A k \in job[r].items : k # i => k.ev # i.ev \/ k.chat # i.chat
           /\ \A e \in Ids, c \in Chats :
                doubts'[e][c] = IF i.busy /\ e = i.ev /\ c = i.chat
                                THEN doubts[e][c] + 1 ELSE doubts[e][c]
<1> DEFINE new == [job[r] EXCEPT !.pc = "send", !.items = @ \ {i}, !.ev = i.ev,
                                 !.chat = i.chat, !.attempt = i.attempt]
<1>1. /\ job[r].pc = "retry" /\ job' = [job EXCEPT ![r] = new]
      /\ doubts' = IF i.busy THEN [doubts EXCEPT ![i.ev][i.chat] = @ + 1] ELSE doubts
      /\ UNCHANGED <<alarm, enabled, events, kafka, tables, workload, heard, fates>>
  BY DEF RetryNext
<1>2. /\ job[r] \in JobRec /\ JobOk(r, job[r], Ids) /\ i \in ItemRec /\ i.ev \in Ids
      /\ ~job[r].escalated
      /\ \A k \in job[r].items : k # i => k.ev # i.ev \/ k.chat # i.chat
  BY ReplicaJob DEF JobOk, JobRec
<1>3. i.ev \in Nat /\ i.chat \in Chats /\ i.attempt \in Nat /\ i.busy \in BOOLEAN
  BY <1>2 DEF ItemRec
<1>4. /\ new \in JobRec /\ new.pc = "send" /\ new.items = job[r].items \ {i}
      /\ new.ev = i.ev /\ new.chat = i.chat /\ new.due = job[r].due
      /\ new.escalated = job[r].escalated
  BY <1>2, <1>3 DEF JobRec, Pcs
<1> HIDE DEF new
<1>5. JobOk(r, new, Ids)
  BY <1>2, <1>3, <1>4, ReplicaJob DEF JobOk
<1>6. JobsTyped' /\ job'[r] = new /\ Others(r)
  BY <1>1, <1>5, ReplicaJob, JobStep DEF Typed
<1>7. /\ doubts' \in [Ids -> [Chats -> Nat]]
      /\ \A e \in Ids, c \in Chats :
           doubts'[e][c] = IF i.busy /\ e = i.ev /\ c = i.chat
                           THEN doubts[e][c] + 1 ELSE doubts[e][c]
  <2>1. CASE i.busy
    <3>1. doubts' = [doubts EXCEPT ![i.ev][i.chat] = @ + 1]
      BY <1>1, <2>1
    <3>2. doubts \in [Ids -> [Chats -> Nat]]
      BY DEF Typed, SendsTyped
    <3>3. doubts[i.ev][i.chat] + 1 \in Nat
      BY <1>2, <1>3, <3>2
    <3>4. doubts' \in [Ids -> [Chats -> Nat]]
      BY <1>2, <1>3, <3>1, <3>2, <3>3
    <3>5. ASSUME NEW e \in Ids, NEW c \in Chats
          PROVE  doubts'[e][c] = IF e = i.ev /\ c = i.chat THEN doubts[e][c] + 1 ELSE doubts[e][c]
      BY <1>2, <1>3, <3>1, <3>2
    <3> QED BY <2>1, <3>4, <3>5
  <2>2. CASE ~i.busy
    BY <1>1, <2>2 DEF Typed, SendsTyped
  <2> QED BY <2>1, <2>2
<1>8. Ids' = Ids
  BY <1>1 DEF Ids
<1>9. TablesTyped' /\ SendsTyped'
  BY <1>1, <1>7, <1>8 DEF Typed, TablesTyped, SendsTyped
<1>10. Typed'
  BY <1>1, <1>6, <1>9, TablesOnly
<1> QED BY <1>1, <1>2, <1>3, <1>4, <1>6, <1>7, <1>10 DEF Retries, Delivering

LEMMA RetrySkipsEffect ==
    ASSUME Typed, NEW r \in Replicas, NEW i \in job[r].items, RetrySkips(r, i)
    PROVE  /\ Retries(r) /\ UNCHANGED doubts /\ job'[r].pc = "retry"
           /\ job'[r].items = job[r].items \ {i}
<1> DEFINE new == [job[r] EXCEPT !.items = @ \ {i}]
<1>1. /\ job[r].pc = "retry" /\ job' = [job EXCEPT ![r] = new]
      /\ UNCHANGED <<alarm, enabled, events, kafka, tables, workload, sends, fates>>
  BY DEF RetrySkips
<1>2. job[r] \in JobRec /\ JobOk(r, job[r], Ids) /\ ~job[r].escalated
  BY ReplicaJob DEF JobOk
<1>3. /\ new \in JobRec /\ new.pc = "retry" /\ new.items = job[r].items \ {i}
      /\ new.due = job[r].due /\ new.escalated = job[r].escalated
  BY <1>1, <1>2 DEF JobRec
<1> HIDE DEF new
<1>4. JobOk(r, new, Ids)
  BY <1>2, <1>3, ReplicaJob DEF JobOk
<1>5. JobsTyped' /\ job'[r] = new /\ Others(r)
  BY <1>1, <1>4, ReplicaJob, JobStep DEF Typed
<1>6. Typed'
  BY <1>1, <1>5, JobsOnly
<1> QED BY <1>1, <1>2, <1>3, <1>5, <1>6 DEF Retries, Delivering

-----------------------------------------------------------------------------
(* Types: time and crashes.                                                *)

LEMMA RipenEffect ==
    ASSUME Typed, NEW e \in Ids, NEW c \in Chats, Ripen(e, c)
    PROVE  /\ Typed' /\ UNCHANGED <<events, kafka, esc, job, sends, fates>>
           /\ \A f \in Ids, d \in Chats : rows'[f][d].status = rows[f][d].status
<1> DEFINE row == [rows[e][c] EXCEPT !.ripe = TRUE]
<1>1. /\ rows' = [rows EXCEPT ![e][c] = row]
      /\ UNCHANGED <<alarm, enabled, events, kafka, esc, job, workload, sends, fates>>
  BY DEF Ripen, Typed, TablesTyped, Row
<1>2. rows[e][c] \in Row
  BY DEF Typed, TablesTyped
<1>3. row \in Row /\ row.status = rows[e][c].status
  BY <1>2 DEF Row
<1> HIDE DEF row
<1>4. /\ rows' \in [Ids -> [Chats -> Row]]
      /\ \A f \in Ids, d \in Chats : rows'[f][d].status = rows[f][d].status
  BY <1>1, <1>3 DEF Typed, TablesTyped
<1>5. JobsTyped' /\ Ids' = Ids
  BY <1>1, JobsSame
<1>6. TablesTyped' /\ SendsTyped'
  BY <1>1, <1>4, <1>5 DEF Typed, TablesTyped, SendsTyped
<1> QED BY <1>1, <1>4, <1>5, <1>6, TablesOnly

LEMMA DelayPassesEffect ==
    ASSUME Typed, NEW e \in Ids, DelayPasses(e)
    PROVE  /\ Typed' /\ UNCHANGED <<events, kafka, rows, job, sends, fates>>
           /\ esc[e].status = "waiting" /\ esc'[e].status = "due"
           /\ esc'[e].owed = esc[e].owed /\ esc'[e].reason = esc[e].reason
           /\ \A f \in Ids : f # e => esc'[f] = esc[f]
<1> DEFINE rec == [esc[e] EXCEPT !.status = "due"]
<1>1. /\ esc[e].status = "waiting" /\ esc' = [esc EXCEPT ![e] = rec]
      /\ UNCHANGED <<alarm, enabled, events, kafka, rows, job, workload, sends, fates>>
  BY DEF DelayPasses
<1>2. esc[e] \in EscRec
  BY DEF Typed, TablesTyped
<1>3. /\ rec \in EscRec /\ rec.status = "due" /\ rec.owed = esc[e].owed
      /\ rec.reason = esc[e].reason
  BY <1>2 DEF EscRec
<1> HIDE DEF rec
<1>4. /\ esc' \in [Ids -> EscRec] /\ esc'[e] = rec
      /\ \A f \in Ids : f # e => esc'[f] = esc[f]
  BY <1>1, <1>3 DEF Typed, TablesTyped
<1>5. JobsTyped' /\ Ids' = Ids
  BY <1>1, JobsSame
<1>6. TablesTyped' /\ SendsTyped'
  BY <1>1, <1>4, <1>5 DEF Typed, TablesTyped, SendsTyped
<1> QED BY <1>1, <1>3, <1>4, <1>5, <1>6, TablesOnly

\* The workers of a process.
Dead(r) == {r} \cup (IF r = Home THEN {Consumer} ELSE {})
Interrupted(r, e, c) == {w \in Dead(r) : Unmarked(w) /\ Holds(w, e, c)}

LEMMA InterruptedFinite ==
    ASSUME NEW r, NEW e, NEW c
    PROVE  IsFiniteSet(Interrupted(r, e, c)) /\ Cardinality(Interrupted(r, e, c)) \in Nat
<1>1. IsFiniteSet({r}) /\ IsFiniteSet({Consumer}) /\ IsFiniteSet({})
  BY FS_Singleton, FS_EmptySet
<1>2. IsFiniteSet(Dead(r))
  BY <1>1, FS_Union DEF Dead
<1>3. Interrupted(r, e, c) \in SUBSET Dead(r)
  BY DEF Interrupted
<1> QED BY <1>2, <1>3, FS_Subset, FS_CardinalityType

LEMMA CrashEffect ==
    ASSUME Typed, NEW r \in Replicas, Crash(r)
    PROVE  /\ Typed' /\ UNCHANGED <<events, topic, committed, tables, heard, missed, routed>>
           /\ \A w \in Workers : job'[w] = IF w \in Dead(r) THEN Idle ELSE job[w]
           /\ \A e \in Ids, c \in Chats :
                doubts'[e][c] = doubts[e][c] + Cardinality(Interrupted(r, e, c))
           /\ \/ /\ r = Home /\ gone' = gone \cup InMemory /\ position' = committed
                 /\ queue' = <<>> /\ \A e \in Ids : pub'[e] = Finished
              \/ r # Home /\ UNCHANGED <<gone, pub, queue, position>>
<1>1. /\ job' = [w \in Workers |-> IF w \in Dead(r) THEN Idle ELSE job[w]]
      /\ doubts' = [e \in DOMAIN doubts |-> [c \in Chats |->
             doubts[e][c] + Cardinality(Interrupted(r, e, c))]]
      /\ UNCHANGED <<alarm, enabled, events, topic, committed, tables, workload, heard, missed,
                     routed>>
  BY DEF Crash, Dead, Interrupted
<1>2. Ids' = Ids
  BY <1>1 DEF Ids
<1>3. JobsTyped'
  <2>1. \A w \in Workers : job'[w] \in JobRec /\ JobOk(w, job'[w], Ids)
    BY <1>1, IdleOk DEF Typed, JobsTyped
  <2> QED BY <1>1, <1>2, <2>1 DEF JobsTyped
<1>4. /\ doubts' \in [Ids -> [Chats -> Nat]]
      /\ \A e \in Ids, c \in Chats :
                doubts'[e][c] = doubts[e][c] + Cardinality(Interrupted(r, e, c))
  <2>1. /\ doubts \in [Ids -> [Chats -> Nat]]
        /\ \A e \in Ids, c \in Chats : Cardinality(Interrupted(r, e, c)) \in Nat
    BY InterruptedFinite DEF Typed, SendsTyped
  <2> QED BY <1>1, <2>1
<1>5. /\ KafkaTyped'
      /\ \/ /\ r = Home /\ gone' = gone \cup InMemory /\ position' = committed
            /\ queue' = <<>> /\ \A e \in Ids : pub'[e] = Finished
         \/ r # Home /\ UNCHANGED <<gone, pub, queue, position>>
  <2>1. CASE r = Home
    <3>1. /\ gone' = gone \cup InMemory /\ position' = committed
          /\ queue' = <<>> /\ pub' = [e \in DOMAIN pub |-> Finished]
      BY <2>1 DEF Crash
    <3>2. /\ pub' = [e \in Ids |-> Finished]
      BY <3>1 DEF Typed, KafkaTyped
    <3>3. topic \in Seq(Ids) /\ Len(topic) \in Nat /\ committed \in Nat /\ committed <= Len(topic)
      BY LenProperties DEF Typed, KafkaTyped
    <3>4. pub' \in [Ids -> PubRec] /\ \A e \in Ids : pub'[e] = Finished
      BY <3>2, PublisherType
    <3>5. Finished.payload \in Seq(Ids) /\ queue' \in Seq(Ids)
      BY <3>1, PublisherType
    <3>6. KafkaTyped'
      BY <1>1, <1>2, <3>1, <3>3, <3>4, <3>5 DEF KafkaTyped
    <3> QED BY <2>1, <3>1, <3>4, <3>6
  <2>2. CASE r # Home
    <3>1. UNCHANGED <<gone, pub, queue, position>>
      BY <2>2 DEF Crash
    <3> QED BY <1>1, <1>2, <2>2, <3>1 DEF Typed, KafkaTyped
  <2> QED BY <2>1, <2>2
<1>6. TablesTyped' /\ SendsTyped'
  BY <1>1, <1>2, <1>4 DEF Typed, TablesTyped, SendsTyped
<1>7. Typed'
  BY <1>1, <1>2, <1>3, <1>5, <1>6 DEF Typed
<1> QED BY <1>1, <1>4, <1>5, <1>7

LEMMA InitTyped == Init => Typed
<1> SUFFICES ASSUME Init
             PROVE  Typed
  OBVIOUS
<1>1. /\ events = <<>> /\ pub = <<>> /\ queue = <<>> /\ topic = <<>> /\ position = 0
      /\ committed = 0 /\ rows = <<>> /\ esc = <<>> /\ heard = <<>> /\ doubts = <<>>
      /\ routed = <<>> /\ job = [w \in Workers |-> Idle]
      /\ workload \in Workloads /\ enabled \in {workload.chats, workload.chats \ Admins}
  BY DEF Init
<1>2. Ids = {}
  BY <1>1 DEF Ids
<1>3. \A S : <<>> \in [{} -> S] /\ <<>> \in Seq(S) /\ DOMAIN <<>> = {}
  OBVIOUS
<1>4. KafkaTyped /\ TablesTyped /\ SendsTyped
  BY <1>1, <1>2, <1>3 DEF KafkaTyped, TablesTyped, SendsTyped
<1>5. JobsTyped
  BY <1>1, IdleOk DEF JobsTyped
<1>6. enabled \subseteq Chats
  BY <1>1, NotifierAssumption
<1> QED BY <1>1, <1>2, <1>3, <1>4, <1>5, <1>6 DEF Typed, States, Code

-----------------------------------------------------------------------------
(* No event is dropped.                                                    *)

HasRowNext(e, c) == rows'[e][c].status # "none"
DeliveredNext(e) == routed'[e] # None /\ \A c \in routed'[e] : HasRowNext(e, c)
InHandNext(e) == job'[Consumer].pc # "idle" /\ job'[Consumer].ev = e
RowsKept == \A e \in Ids, c \in Chats : HasRow(e, c) => HasRowNext(e, c)

\* The consumer goes on with the event in hand, and every chat it drops has a row.
GoesOn ==
    /\ Busied /\ job'[Consumer].pc # "idle" /\ job'[Consumer].ev = job[Consumer].ev
    /\ \A c \in Chats : c \in job[Consumer].chats =>
         c \in job'[Consumer].chats \/ HasRowNext(job[Consumer].ev, c)
    /\ job'[Consumer].pc = "commit" => job'[Consumer].chats = {}

LEMMA TopicType ==
    ASSUME Typed
    PROVE  /\ topic \in Seq(Ids) /\ DOMAIN topic = 1..Len(topic) /\ Len(topic) \in Nat
           /\ position \in Nat /\ committed \in Nat /\ committed <= position
           /\ position <= Len(topic)
           /\ \A i \in 1..Len(topic) : topic[i] \in Ids
           /\ \A i \in 1..position : i \in 1..Len(topic)
<1>1. topic \in Seq(Ids) /\ position \in Nat /\ committed \in Nat /\ committed <= position
      /\ position <= Len(topic)
  BY DEF Typed, KafkaTyped
<1>2. DOMAIN topic = 1..Len(topic) /\ Len(topic) \in Nat
  BY <1>1, LenProperties
<1>3. \A i \in 1..Len(topic) : topic[i] \in Ids
  BY <1>1, ElementOfSeq
<1>4. \A i \in 1..position : i \in 1..Len(topic)
  BY <1>1, <1>2
<1> QED BY <1>1, <1>2, <1>3, <1>4

LEMMA DeliveredKept ==
    ASSUME Typed, NEW e \in Ids, Delivered(e), RowsKept, routed'[e] = routed[e]
    PROVE  Delivered(e)'
<1>1. routed[e] \in SUBSET Chats
  BY DEF Typed, Delivered
<1> QED BY <1>1 DEF Delivered, RowsKept, HasRow, HasRowNext

LEMMA MessagesFrame ==
    ASSUME Typed, MessagesInv, RowsKept,
           UNCHANGED <<events, pub, queue, topic, position, committed, routed, gone>>,
           missed \subseteq missed', job'[Consumer] = job[Consumer] \/ GoesOn
    PROVE  MessagesInv'
<1>1. Ids' = Ids /\ InMemory' = InMemory
  BY DEF Ids, InMemory
<1>2. ConsumerInv'
  <2> DEFINE e == job[Consumer].ev
  <2> SUFFICES ASSUME Busied' PROVE ConsumerInv'
    BY DEF ConsumerInv
  <2>1. Busied /\ job'[Consumer].ev = e
    BY DEF Busied, GoesOn
  <2>2. /\ committed < position /\ topic[position] = e /\ routed[e] \in SUBSET Chats
        /\ \A c \in routed[e] : c \in job[Consumer].chats \/ HasRow(e, c)
        /\ job[Consumer].pc = "commit" => job[Consumer].chats = {}
    BY <2>1 DEF MessagesInv, ConsumerInv
  <2>3. e \in Ids
    BY <2>2, TopicType
  <2>4. ASSUME NEW c \in routed[e] PROVE c \in job'[Consumer].chats \/ HasRowNext(e, c)
    <3>1. c \in Chats
      BY <2>2
    <3>2. CASE HasRow(e, c)
      BY <2>3, <3>1, <3>2 DEF RowsKept
    <3>3. CASE c \in job[Consumer].chats
      BY <3>1, <3>3 DEF GoesOn
    <3> QED BY <2>2, <3>2, <3>3
  <2>5. job'[Consumer].pc = "commit" => job'[Consumer].chats = {}
    BY <2>2 DEF GoesOn
  <2>6. \A c \in routed'[e] : c \in job'[Consumer].chats \/ rows'[e][c].status # "none"
    BY <2>4 DEF HasRowNext
  <2> QED BY <2>1, <2>2, <2>5, <2>6 DEF ConsumerInv, HasRow
<1>3. OwnPayload'
  BY <1>1 DEF MessagesInv, OwnPayload
<1>4. ASSUME NEW e, InHand(e) PROVE InHand(e)'
  BY <1>4 DEF InHand, Busied, GoesOn
<1>5. FetchedInv'
  <2>1. ASSUME NEW i \in (committed + 1)..position
        PROVE  topic[i] \in missed' \/ Delivered(topic[i])' \/ InHand(topic[i])'
    <3>1. topic[i] \in missed \/ Delivered(topic[i]) \/ InHand(topic[i])
      BY <2>1 DEF MessagesInv, FetchedInv
    <3>2. topic[i] \in Ids
      BY <2>1, TopicType
    <3>3. CASE Delivered(topic[i])
      BY <3>2, <3>3, DeliveredKept
    <3> QED BY <1>4, <3>1, <3>3
  <2> QED BY <2>1 DEF FetchedInv, Delivered, InHand, Busied
<1>6. NoEventDropped'
  <2>1. ASSUME NEW e \in Ids PROVE OnItsWay(e)' \/ Delivered(e)' \/ e \in gone' \cup missed'
    <3>1. OnItsWay(e) \/ Delivered(e) \/ e \in gone \cup missed
      BY DEF MessagesInv, NoEventDropped, Typed
    <3>2. OnItsWay(e) => OnItsWay(e)'
      BY <1>1 DEF OnItsWay
    <3>3. CASE Delivered(e)
      BY <3>3, DeliveredKept
    <3> QED BY <3>1, <3>2, <3>3
  <2>2. DOMAIN events' = Ids
    BY DEF Typed
  <2> QED BY <2>1, <2>2 DEF NoEventDropped
<1> QED BY <1>2, <1>3, <1>5, <1>6 DEF MessagesInv

LEMMA InMemoryIs ==
    ASSUME Typed
    PROVE  InMemory = Range(queue) \cup {e \in Ids : pub[e].pc # "done"}
                      \cup UNION {Range(pub[e].payload) : e \in Ids}
BY DEF InMemory, Typed, KafkaTyped

LEMMA EmittedMessages ==
    ASSUME Typed, MessagesInv, Emitted
    PROVE  MessagesInv'
<1>1. /\ Typed' /\ Newest \notin Ids /\ Ids' = Ids \cup {Newest}
      /\ UNCHANGED <<queue, topic, position, committed, job, gone, missed>>
      /\ \A e \in Ids : pub'[e] = pub[e] /\ rows'[e] = rows[e] /\ routed'[e] = routed[e]
      /\ pub'[Newest].pc = "ready" /\ pub'[Newest].payload = <<>>
  BY DEF Emitted
<1>2. RowsKept
  BY <1>1 DEF RowsKept, HasRow, HasRowNext
<1>3. \A e \in Ids : Delivered(e) => Delivered(e)'
  BY <1>1, <1>2, DeliveredKept
<1>4. ConsumerInv'
  <2>1. CASE ~Busied
    BY <1>1, <2>1 DEF ConsumerInv, Busied
  <2>2. CASE Busied
    <3>1. /\ committed < position /\ topic[position] = job[Consumer].ev
          /\ routed[job[Consumer].ev] \in SUBSET Chats
          /\ \A c \in routed[job[Consumer].ev] :
               c \in job[Consumer].chats \/ HasRow(job[Consumer].ev, c)
          /\ job[Consumer].pc = "commit" => job[Consumer].chats = {}
      BY <2>2 DEF MessagesInv, ConsumerInv
    <3>2. job[Consumer].ev \in Ids
      BY <3>1, TopicType
    <3> QED BY <1>1, <3>1, <3>2 DEF ConsumerInv, HasRow
  <2> QED BY <2>1, <2>2
<1>5. OwnPayload'
  BY <1>1 DEF MessagesInv, OwnPayload
<1>6. FetchedInv'
  <2>1. ASSUME NEW i \in (committed + 1)..position
        PROVE  topic[i] \in missed' \/ Delivered(topic[i])' \/ InHand(topic[i])'
    <3>1. topic[i] \in missed \/ Delivered(topic[i]) \/ InHand(topic[i])
      BY DEF MessagesInv, FetchedInv
    <3>2. topic[i] \in Ids
      BY TopicType
    <3>3. Delivered(topic[i]) => Delivered(topic[i])'
      BY <1>1, <1>2, <3>2, DeliveredKept
    <3> QED BY <1>1, <3>1, <3>3 DEF InHand, Busied
  <2> QED BY <1>1, <2>1 DEF FetchedInv, Delivered, InHand, Busied
<1>7. NoEventDropped'
  <2>1. InMemory' = Range(queue') \cup {e \in Ids' : pub'[e].pc # "done"}
                      \cup UNION {Range(pub'[e].payload) : e \in Ids'}
    BY <1>1 DEF InMemory, Typed, KafkaTyped
  <2>2. ASSUME NEW e \in Ids PROVE OnItsWay(e)' \/ Delivered(e)' \/ e \in gone' \cup missed'
    <3>1. OnItsWay(e) \/ Delivered(e) \/ e \in gone \cup missed
      BY DEF MessagesInv, NoEventDropped, Typed
    <3>2. e \in InMemory => e \in InMemory'
      BY <1>1, <2>1, InMemoryIs
    <3>3. OnItsWay(e) => OnItsWay(e)'
      BY <1>1, <3>2 DEF OnItsWay
    <3> QED BY <1>1, <1>3, <3>1, <3>3
  <2>3. Newest \in InMemory'
    BY <1>1, <2>1
  <2>4. ASSUME NEW e \in Ids', e \notin Ids PROVE OnItsWay(e)'
    BY <1>1, <2>3, <2>4 DEF OnItsWay
  <2>5. DOMAIN events' = Ids'
    BY <1>1 DEF Typed
  <2> QED BY <2>2, <2>4, <2>5 DEF NoEventDropped
<1> QED BY <1>4, <1>5, <1>6, <1>7 DEF MessagesInv

\* A message is put in memory or in the topic, or goes.
LEMMA PublishedMessages ==
    ASSUME Typed, MessagesInv, NEW e \in Ids, PubKeeps(e),
           IF pub'[e].pc = "writing" THEN e \in Range(pub'[e].payload)
           ELSE pub'[e].payload = <<>>,
           NEW end \in Seq(Ids), topic' = topic \o end,
           \A f \in InMemory : f \in InMemory' \/ f \in Range(end) \/ f \in gone'
    PROVE  MessagesInv'
<1>1. /\ Typed' /\ UNCHANGED <<events, position, committed, tables, job, sends, missed, routed>>
      /\ \A f \in Ids : f # e => pub'[f] = pub[f]
      /\ gone \subseteq gone' /\ Ids' = Ids
  BY DEF PubKeeps, Ids
<1>2. /\ Len(topic') = Len(topic) + Len(end) /\ Len(end) \in Nat
      /\ \A i \in 1..Len(topic) : topic'[i] = topic[i]
      /\ \A i \in 1..Len(end) : topic'[Len(topic) + i] = end[i]
      /\ DOMAIN topic' = 1..(Len(topic) + Len(end))
      /\ DOMAIN end = 1..Len(end)
  <2>1. /\ topic' \in Seq(Ids) /\ Len(topic') = Len(topic) + Len(end) /\ Len(end) \in Nat
        /\ \A i \in 1..(Len(topic) + Len(end)) :
             topic'[i] = IF i <= Len(topic) THEN topic[i] ELSE end[i - Len(topic)]
    BY TopicType, ConcatProperties, LenProperties
  <2> QED BY <2>1, TopicType, LenProperties
<1>3. RowsKept
  BY <1>1 DEF RowsKept, HasRow, HasRowNext
<1>4. \A f \in Ids : Delivered(f) => Delivered(f)'
  BY <1>1 DEF Delivered
<1>5. ConsumerInv'
  <2>1. CASE ~Busied
    BY <1>1, <2>1 DEF ConsumerInv, Busied
  <2>2. CASE Busied
    <3>1. /\ committed < position /\ topic[position] = job[Consumer].ev
          /\ routed[job[Consumer].ev] \in SUBSET Chats
          /\ \A c \in routed[job[Consumer].ev] :
               c \in job[Consumer].chats \/ HasRow(job[Consumer].ev, c)
          /\ job[Consumer].pc = "commit" => job[Consumer].chats = {}
      BY <2>2 DEF MessagesInv, ConsumerInv
    <3>2. topic'[position] = topic[position]
      BY <1>2, <3>1, TopicType
    <3> QED BY <1>1, <3>1, <3>2 DEF ConsumerInv, HasRow
  <2> QED BY <2>1, <2>2
<1>6. OwnPayload'
  BY <1>1 DEF MessagesInv, OwnPayload
<1>7. FetchedInv'
  <2>1. ASSUME NEW i \in (committed + 1)..position
        PROVE  topic'[i] \in missed' \/ DeliveredNext(topic'[i]) \/ InHandNext(topic'[i])
    <3>1. topic[i] \in missed \/ Delivered(topic[i]) \/ InHand(topic[i])
      BY DEF MessagesInv, FetchedInv
    <3>2. topic'[i] = topic[i]
      BY <1>2, TopicType
    <3> QED BY <1>1, <3>1, <3>2 DEF InHand, Busied, Delivered, DeliveredNext, InHandNext, HasRowNext
  <2> QED BY <1>1, <2>1
       DEF FetchedInv, Delivered, InHand, Busied, DeliveredNext, InHandNext, HasRowNext
<1>8. NoEventDropped'
  <2>1. ASSUME NEW f \in Ids PROVE OnItsWay(f)' \/ Delivered(f)' \/ f \in gone' \cup missed'
    <3>1. OnItsWay(f) \/ Delivered(f) \/ f \in gone \cup missed
      BY DEF MessagesInv, NoEventDropped, Typed
    <3>2. CASE f \in InMemory
      <4>1. CASE f \in Range(end)
        <5>1. PICK i \in 1..Len(end) : end[i] = f
          BY <1>2, <4>1 DEF Range
        <5>2. /\ Len(topic) + i \in DOMAIN topic' /\ topic'[Len(topic) + i] = f
              /\ Len(topic) + i > committed
          BY <1>2, <5>1, TopicType
        <5> QED BY <1>1, <5>2 DEF OnItsWay
      <4>2. f \in InMemory' => OnItsWay(f)'
        BY DEF OnItsWay
      <4> QED BY <3>2, <4>1, <4>2
    <3>3. ASSUME NEW i \in DOMAIN topic, i > committed, topic[i] = f
          PROVE  OnItsWay(f)'
      <4>1. i \in DOMAIN topic' /\ topic'[i] = f
        BY <1>2, <3>3, TopicType
      <4> QED BY <1>1, <3>3, <4>1 DEF OnItsWay
    <3>4. CASE Delivered(f)
      BY <1>4, <3>4
    <3>5. CASE f \in gone \cup missed
      BY <1>1, <3>5
    <3> QED BY <3>1, <3>2, <3>3, <3>4, <3>5 DEF OnItsWay
  <2>2. DOMAIN events' = Ids
    BY <1>1 DEF Typed
  <2> QED BY <2>1, <2>2 DEF NoEventDropped
<1> QED BY <1>5, <1>6, <1>7, <1>8 DEF MessagesInv

LEMMA EmptyEnd ==
    ASSUME Typed
    PROVE  /\ <<>> \in Seq(Ids) /\ topic \o <<>> = topic /\ Range(<<>>) = {}
           /\ \A e \in Ids : pub[e].payload \in Seq(Ids)
BY TopicType, ConcatEmptySeq, PublisherType DEF Typed, KafkaTyped

\* What the goroutine of e, the queue and the rest of the memory hold.
LEMMA MemoryOf ==
    ASSUME Typed, NEW e \in Ids, PubKeeps(e)
    PROVE  \A f : /\ f \in InMemory => \/ f \in Range(queue) \/ f \in Range(pub[e].payload)
                                       \/ f = e /\ pub[e].pc # "done"
                                       \/ f \in InMemory'
                  /\ f \in Range(queue') => f \in InMemory'
                  /\ f \in Range(pub'[e].payload) => f \in InMemory'
                  /\ f = e /\ pub'[e].pc # "done" => f \in InMemory'
<1>1. Typed' /\ Ids' = Ids /\ \A f \in Ids : f # e => pub'[f] = pub[f]
  BY DEF PubKeeps, Ids
<1>2. InMemory' = Range(queue') \cup {f \in Ids : pub'[f].pc # "done"}
                  \cup UNION {Range(pub'[f].payload) : f \in Ids}
  BY <1>1 DEF InMemory, Typed, KafkaTyped
<1> QED BY <1>1, <1>2, InMemoryIs

LEMMA PublishMessages ==
    ASSUME Typed, MessagesInv, NEW e \in Ids, Publish(e)
    PROVE  MessagesInv'
<1>0. /\ pub[e].pc # "writing" => pub[e].payload = <<>>
      /\ pub[e].pc = "writing" => e \in Range(pub[e].payload)
  BY DEF MessagesInv, OwnPayload
<1>1. CASE TakeQueue(e)
  <2>1. /\ PubKeeps(e) /\ topic' = topic \o <<>> /\ queue' = <<>> /\ pub[e].pc = "ready"
        /\ pub'[e].pc = "writing" /\ Range(pub'[e].payload) = Range(queue) \cup {e}
    BY <1>1, TakeQueueEffect, EmptyEnd
  <2>2. Range(pub[e].payload) = {}
    BY <1>0, <2>1, EmptyEnd
  <2>3. \A f \in InMemory : f \in InMemory'
    BY <2>1, <2>2, MemoryOf
  <2> QED BY <2>1, <2>3, EmptyEnd, PublishedMessages
<1>2. CASE WriteMessages(e)
  <2>1. /\ PubKeeps(e) /\ UNCHANGED queue /\ pub[e].pc = "writing" /\ pub'[e] = Finished
        /\ topic' = topic \o pub[e].payload
    BY <1>2, WriteMessagesEffect
  <2>2. \A f \in InMemory : f \in InMemory' \/ f \in Range(pub[e].payload)
    BY <1>0, <2>1, MemoryOf
  <2> QED BY <2>1, <2>2, EmptyEnd, PublisherType, PublishedMessages
<1>3. CASE WriteFails(e)
  <2>1. /\ PubKeeps(e) /\ topic' = topic \o <<>> /\ pub[e].pc = "writing"
        /\ pub'[e].pc \in {"ready", "done"} /\ pub'[e].payload = <<>>
        /\ Range(queue') = Range(queue) \cup Range(pub[e].payload)
    BY <1>3, WriteFailsEffect, EmptyEnd
  <2>2. \A f \in InMemory : f \in InMemory'
    BY <1>0, <2>1, MemoryOf
  <2> QED BY <2>1, <2>2, EmptyEnd, PublishedMessages
<1>4. CASE WriteLost(e)
  <2>1. /\ PubKeeps(e) /\ topic' = topic \o <<>> /\ pub[e].pc = "writing" /\ UNCHANGED queue
        /\ pub'[e] = Finished /\ gone' = gone \cup Range(pub[e].payload)
    BY <1>4, WriteLostEffect, EmptyEnd
  <2>2. \A f \in InMemory : f \in InMemory' \/ f \in gone'
    BY <1>0, <2>1, MemoryOf
  <2> QED BY <2>1, <2>2, EmptyEnd, PublisherType, PublishedMessages
<1> QED BY <1>1, <1>2, <1>3, <1>4 DEF Publish

LEMMA IdleIs == Idle.pc = "idle" /\ Idle.items = {} /\ Idle.escalated = FALSE
BY DEF Idle

LEMMA FetchMessages ==
    ASSUME Typed, MessagesInv, FetchMessage
    PROVE  MessagesInv'
<1> DEFINE e == topic[position + 1]
<1>1. /\ Typed' /\ position' = position + 1 /\ position + 1 \in 1..Len(topic) /\ e \in Ids
      /\ job[Consumer] = Idle /\ job'[Consumer].pc = "chats" /\ job'[Consumer].ev = e
      /\ job'[Consumer].chats = routed'[e] /\ routed'[e] \in SUBSET Chats
      /\ \A f \in Ids : f # e => routed'[f] = routed[f]
  BY FetchMessageEffect
<1>2. UNCHANGED <<events, pub, queue, topic, committed, rows, gone, missed>>
  BY DEF FetchMessage
<1>3. Ids' = Ids /\ InMemory' = InMemory
  BY <1>2 DEF Ids, InMemory
<1>4. ConsumerInv'
  BY <1>1, <1>2, TopicType DEF ConsumerInv
<1>5. OwnPayload'
  BY <1>2, <1>3 DEF MessagesInv, OwnPayload
<1>6. ASSUME NEW f \in Ids, f # e, Delivered(f) PROVE Delivered(f)'
  BY <1>1, <1>2, <1>6 DEF Delivered
<1>7. FetchedInv'
  <2>1. ASSUME NEW i \in (committed + 1)..(position + 1)
        PROVE  topic[i] \in missed \/ DeliveredNext(topic[i]) \/ InHandNext(topic[i])
    <3>1. CASE topic[i] = e
      BY <1>1, <3>1 DEF InHandNext
    <3>2. CASE topic[i] # e
      <4>1. i \in (committed + 1)..position
        BY <3>2, TopicType
      <4>2. topic[i] \in missed \/ Delivered(topic[i]) \/ InHand(topic[i])
        BY <4>1 DEF MessagesInv, FetchedInv
      <4>3. topic[i] \in Ids /\ ~InHand(topic[i])
        BY <1>1, <4>1, TopicType, IdleIs DEF InHand, Busied
      <4> QED BY <1>1, <1>2, <3>2, <4>2, <4>3 DEF Delivered, DeliveredNext, HasRowNext
    <3> QED BY <3>1, <3>2
  <2> QED BY <1>1, <1>2, <2>1
       DEF FetchedInv, Delivered, InHand, Busied, DeliveredNext, InHandNext, HasRowNext
<1>8. NoEventDropped'
  <2>1. ASSUME NEW f \in Ids PROVE OnItsWay(f)' \/ Delivered(f)' \/ f \in gone \cup missed
    <3>1. OnItsWay(f) \/ Delivered(f) \/ f \in gone \cup missed
      BY DEF MessagesInv, NoEventDropped, Typed
    <3>2. OnItsWay(f) => OnItsWay(f)'
      BY <1>2, <1>3 DEF OnItsWay
    <3>3. CASE f = e
      <4>1. position + 1 \in DOMAIN topic /\ position + 1 > committed /\ topic[position + 1] = f
        BY <1>1, <3>3, TopicType
      <4> QED BY <1>2, <4>1 DEF OnItsWay
    <3> QED BY <1>6, <3>1, <3>2, <3>3
  <2>2. DOMAIN events' = Ids
    BY <1>2 DEF Typed
  <2> QED BY <1>2, <2>1, <2>2 DEF NoEventDropped
<1> QED BY <1>4, <1>5, <1>7, <1>8 DEF MessagesInv

\* The consumer is idle after a routing error.
LEMMA MissedMessages ==
    ASSUME Typed, Typed', MessagesInv, job'[Consumer] = Idle,
           UNCHANGED <<events, pub, queue, topic, committed, rows, gone, routed>>,
           missed \subseteq missed', position \in Nat, position' \in {position, position + 1},
           \A i \in (committed + 1)..position' :
             i > position \/ InHand(topic[i]) => topic[i] \in missed'
    PROVE  MessagesInv'
<1>1. Ids' = Ids /\ InMemory' = InMemory
  BY DEF Ids, InMemory
<1>2. ConsumerInv' /\ ~Busied'
  BY IdleIs DEF ConsumerInv, Busied
<1>3. OwnPayload'
  BY <1>1 DEF MessagesInv, OwnPayload
<1>4. \A f : Delivered(f) => Delivered(f)'
  BY DEF Delivered
<1>5. FetchedInv'
  <2>1. ASSUME NEW i \in (committed + 1)..position'
        PROVE  topic[i] \in missed' \/ Delivered(topic[i])
    <3>1. CASE i \in (committed + 1)..position
      BY <3>1 DEF MessagesInv, FetchedInv
    <3>2. CASE i \notin (committed + 1)..position
      <4>1. i > position
        BY <3>2, TopicType
      <4> QED BY <4>1
    <3> QED BY <3>1, <3>2
  <2> QED BY <2>1 DEF FetchedInv, Delivered
<1>6. NoEventDropped'
  BY <1>1 DEF MessagesInv, NoEventDropped, OnItsWay, Delivered
<1> QED BY <1>2, <1>3, <1>5, <1>6 DEF MessagesInv

LEMMA FailedMessages ==
    ASSUME Typed, MessagesInv, RouteContextFails \/ CreateFails
    PROVE  MessagesInv'
<1>1. CASE RouteContextFails
  <2>1. /\ Typed' /\ UNCHANGED job /\ position' = position + 1
        /\ missed' = missed \cup {topic[position + 1]} /\ job[Consumer] = Idle
    BY <1>1, RouteContextFailsEffect DEF RouteContextFails
  <2>2. UNCHANGED <<events, pub, queue, topic, committed, rows, gone, routed>>
    BY <1>1 DEF RouteContextFails
  <2>3. ASSUME NEW i \in (committed + 1)..position', i > position \/ InHand(topic[i])
        PROVE  topic[i] \in missed'
    <3>1. i = position + 1
      BY <2>1, <2>3, TopicType, IdleIs DEF InHand, Busied
    <3> QED BY <2>1, <3>1
  <2>4. job'[Consumer] = Idle /\ missed \subseteq missed'
    BY <2>1
  <2> QED BY <2>1, <2>2, <2>3, <2>4, TopicType, MissedMessages
<1>2. CASE CreateFails
  <2>1. /\ Typed' /\ job'[Consumer] = Idle /\ missed' = missed \cup {job[Consumer].ev}
    BY <1>2, CreateFailsEffect
  <2>2. UNCHANGED <<events, pub, queue, topic, position, committed, rows, gone, routed>>
    BY <1>2 DEF CreateFails
  <2>3. \A i \in (committed + 1)..position' :
           i > position \/ InHand(topic[i]) => topic[i] \in missed'
    BY <2>1, <2>2, TopicType DEF InHand
  <2> QED BY <2>1, <2>2, <2>3, TopicType, MissedMessages
<1> QED BY <1>1, <1>2

LEMMA CommittedMessages ==
    ASSUME Typed, MessagesInv, CommitMessages
    PROVE  MessagesInv'
<1>1. /\ Typed' /\ job'[Consumer] = Idle /\ job[Consumer].pc = "commit"
      /\ committed' = position
      /\ UNCHANGED <<events, pub, queue, topic, position, rows, gone, missed, routed>>
  BY CommitMessagesEffect DEF CommitMessages
<1>2. Ids' = Ids /\ InMemory' = InMemory
  BY <1>1 DEF Ids, InMemory
<1>3. ConsumerInv'
  BY <1>1, IdleIs DEF ConsumerInv, Busied
<1>4. OwnPayload'
  BY <1>1, <1>2 DEF MessagesInv, OwnPayload
<1>5. FetchedInv'
  BY <1>1, TopicType DEF FetchedInv
<1>6. NoEventDropped'
  <2>1. ASSUME NEW f \in Ids PROVE OnItsWay(f)' \/ Delivered(f) \/ f \in gone \cup missed
    <3>1. OnItsWay(f) \/ Delivered(f) \/ f \in gone \cup missed
      BY DEF MessagesInv, NoEventDropped, Typed
    <3>2. ASSUME NEW i \in DOMAIN topic, i > committed, topic[i] = f
          PROVE  OnItsWay(f)' \/ Delivered(f) \/ f \in missed
      <4>1. CASE i > position
        BY <1>1, <1>2, <3>2, <4>1 DEF OnItsWay
      <4>2. CASE ~(i > position)
        <5>1. i \in (committed + 1)..position
          BY <3>2, <4>2, TopicType
        <5>2. f \in missed \/ Delivered(f) \/ InHand(f)
          BY <3>2, <5>1 DEF MessagesInv, FetchedInv
        <5>3. CASE InHand(f)
          <6>1. /\ routed[f] \in SUBSET Chats
                /\ \A c \in routed[f] : c \in job[Consumer].chats \/ HasRow(f, c)
                /\ job[Consumer].chats = {}
            BY <1>1, <5>3 DEF MessagesInv, ConsumerInv, InHand
          <6> QED BY <6>1, NotifierAssumption DEF Delivered, HasRow
        <5> QED BY <5>2, <5>3
      <4> QED BY <4>1, <4>2
    <3> QED BY <1>2, <3>1, <3>2 DEF OnItsWay
  <2>2. DOMAIN events' = Ids
    BY <1>1 DEF Typed
  <2> QED BY <1>1, <2>1, <2>2 DEF NoEventDropped, Delivered
<1> QED BY <1>3, <1>4, <1>5, <1>6 DEF MessagesInv

LEMMA CrashedMessages ==
    ASSUME Typed, MessagesInv, NEW r \in Replicas, Crash(r)
    PROVE  MessagesInv'
<1>1. /\ Typed' /\ UNCHANGED <<events, topic, committed, rows, missed, routed>>
      /\ \A w \in Workers : job'[w] = IF w \in Dead(r) THEN Idle ELSE job[w]
      /\ \/ /\ r = Home /\ gone' = gone \cup InMemory /\ position' = committed
            /\ queue' = <<>> /\ \A e \in Ids : pub'[e] = Finished
         \/ r # Home /\ UNCHANGED <<gone, pub, queue, position>>
  BY CrashEffect
<1>2. Ids' = Ids
  BY <1>1 DEF Ids
<1>3. CASE r # Home
  <2>1. job'[Consumer] = job[Consumer]
    BY <1>1, <1>3, WorkerNames DEF Dead
  <2>2. RowsKept
    BY <1>1 DEF RowsKept, HasRow, HasRowNext
  <2> QED BY <1>1, <1>3, <2>1, <2>2, MessagesFrame
<1>4. CASE r = Home
  <2>1. ConsumerInv'
    BY <1>1, <1>4, WorkerNames, IdleIs DEF ConsumerInv, Busied, Dead
  <2>2. OwnPayload'
    BY <1>1, <1>2, <1>4, PublisherType DEF OwnPayload
  <2>3. FetchedInv'
    BY <1>1, <1>4, TopicType DEF FetchedInv
  <2>4. NoEventDropped'
    BY <1>1, <1>4 DEF MessagesInv, NoEventDropped, OnItsWay, Delivered
  <2> QED BY <2>1, <2>2, <2>3, <2>4 DEF MessagesInv
<1> QED BY <1>3, <1>4

\* Worker w goes on with the same chats, but for those that have a row.
Carries(w) ==
    /\ job'[w].ev = job[w].ev /\ job'[w].owed = job[w].owed
    /\ job'[w].pc \in {"chats", "send", "mark"}
    /\ \A c \in Chats : c \in job[w].chats =>
         c \in job'[w].chats \/ HasRowNext(job[w].ev, c)
Delivers(w) ==
    /\ Typed' /\ Others(w) /\ RowsKept /\ UNCHANGED <<events, kafka, fates>>
    /\ job[w].pc \in {"chats", "send", "mark"}
    /\ job'[w].escalated = job[w].escalated
    /\ w = Consumer \/ job[w].escalated => Carries(w)
    /\ \A e \in Ids : /\ esc'[e].status = esc[e].status /\ esc'[e].owed = esc[e].owed
                      /\ esc'[e].reason = esc[e].reason

LEMMA ReturnedCarries ==
    ASSUME NEW w, Returned(w), w = Consumer \/ job[w].escalated
    PROVE  Carries(w)
BY DEF Returned, Carries

LEMMA WritesKeep ==
    ASSUME NEW w, NEW row, row.status # "none", Writes(w, row)
    PROVE  RowsKept
BY DEF Writes, RowsKept, HasRow, HasRowNext

LEMMA DeliverEffect ==
    ASSUME Typed, NEW w \in Workers, Deliver(w)
    PROVE  Delivers(w)
<1>0. job[w] \in JobRec
  BY DEF Typed, JobsTyped
<1>1. CASE MarkSkipped(w) \/ Mark(w)
  <2>1. /\ Typed' /\ Returned(w)
        /\ \E row \in Row : row.status # "none" /\ Writes(w, row)
    BY <1>1, MarkSkippedEffect, MarkEffect
  <2>2. UNCHANGED <<events, kafka, fates, esc>>
    BY <1>1 DEF MarkSkipped, Mark
  <2>3. RowsKept
    BY <2>1, WritesKeep
  <2>4. job[w].pc \in {"send", "mark"} /\ Others(w) /\ job'[w].escalated = job[w].escalated
    BY <2>1 DEF Returned, Delivering
  <2> QED BY <2>1, <2>2, <2>3, <2>4, ReturnedCarries DEF Delivers
<1>2. CASE MarkFails(w)
  <2>1. Typed' /\ Returned(w) /\ UNCHANGED rows
    BY <1>2, MarkFailsEffect
  <2>2. UNCHANGED <<events, kafka, fates, esc>>
    BY <1>2 DEF MarkFails
  <2>3. RowsKept
    BY <2>1 DEF RowsKept, HasRow, HasRowNext
  <2>4. job[w].pc \in {"send", "mark"} /\ Others(w) /\ job'[w].escalated = job[w].escalated
    BY <2>1 DEF Returned, Delivering
  <2> QED BY <2>1, <2>2, <2>3, <2>4, ReturnedCarries DEF Delivers
<1>3. ASSUME NEW outcome \in Outcomes, SendMessage(w, outcome) PROVE Delivers(w)
  <2>1. /\ Typed' /\ UNCHANGED rows /\ Others(w) /\ job[w].pc = "send"
        /\ job'[w] = [job[w] EXCEPT !.pc = "mark", !.outcome = outcome]
        /\ \A e \in Ids : /\ esc'[e].status = esc[e].status /\ esc'[e].owed = esc[e].owed
                          /\ esc'[e].reason = esc[e].reason
    BY <1>3, SendMessageEffect
  <2>2. UNCHANGED <<events, kafka, fates>>
    BY <1>3 DEF SendMessage
  <2>3. RowsKept
    BY <2>1 DEF RowsKept, HasRow, HasRowNext
  <2>4. /\ job'[w].pc = "mark" /\ job'[w].escalated = job[w].escalated
        /\ job'[w].ev = job[w].ev /\ job'[w].owed = job[w].owed
        /\ job'[w].chats = job[w].chats
    BY <1>0, <2>1 DEF JobRec
  <2>5. Carries(w)
    BY <2>4 DEF Carries
  <2> QED BY <2>1, <2>2, <2>3, <2>4, <2>5 DEF Delivers
<1>4. ASSUME NEW c \in Chats, CreateNotification(w, c) PROVE Delivers(w)
  <2>1. /\ Typed' /\ Others(w) /\ UNCHANGED esc
        /\ job[w].pc = "chats" /\ job[w].ev \in Ids
        /\ job'[w].pc \in {"chats", "send"} /\ job'[w].ev = job[w].ev
        /\ job'[w].chats = job[w].chats \ {c}
        /\ job'[w].owed = job[w].owed /\ job'[w].escalated = job[w].escalated
        /\ \/ HasRow(job[w].ev, c) /\ UNCHANGED rows
           \/ /\ ~HasRow(job[w].ev, c) /\ rows'[job[w].ev][c].status = "pending"
              /\ \A e \in Ids, d \in Chats :
                   e # job[w].ev \/ d # c => rows'[e][d] = rows[e][d]
    BY <1>4, CreateNotificationEffect
  <2>2. UNCHANGED <<events, kafka, fates>>
    BY <1>4 DEF CreateNotification
  <2>3. RowsKept /\ HasRowNext(job[w].ev, c)
    BY <2>1 DEF RowsKept, HasRow, HasRowNext
  <2>4. Carries(w)
    BY <2>1, <2>3 DEF Carries
  <2> QED BY <2>1, <2>2, <2>3, <2>4 DEF Delivers
<1> QED BY <1>1, <1>2, <1>3, <1>4 DEF Deliver

Elsewhere == Typed' /\ UNCHANGED <<events, kafka, tables, job, sends, fates>>
Inserts == Committing /\ UNCHANGED <<events, kafka, rows, sends, fates>>
Lists(r) ==
    \/ ListPendingNotifications(r)
    \/ \E i \in job[r].items : RetryNext(r, i) \/ RetrySkips(r, i)
Times ==
    \E e \in Ids : DelayPasses(e) \/ \E c \in Chats : Ripen(e, c)
Schedules(r) ==
    \/ Typed' /\ Quiet(r) /\ UNCHANGED esc
    \/ \E e \in Ids : Skips(r, e)
    \/ EscalationProcessed(r)
    \/ Lists(r)

LEMMA ScheduleKinds ==
    ASSUME Typed, NEW r \in Replicas, Schedule(r), ~Deliver(r)
    PROVE  Schedules(r)
<1>1. CASE TickFails(r) \/ RetryDone(r) \/ ListDueEscalations(r) \/ EscalationsDone(r)
           \/ EscalationMarkFails(r)
  BY <1>1, TickFailsEffect, RetryDoneEffect, ListDueEscalationsEffect, EscalationsDoneEffect,
     EscalationMarkFailsEffect DEF Schedules
<1>2. CASE \E s \in Sessions(r) : TryLock(r, s) \/ Unlock(r, s)
  BY <1>2, TryLockEffect, UnlockEffect DEF Schedules
<1>3. ASSUME NEW e \in job[r].due, EscalationUnread(r, e)
      PROVE  Schedules(r)
  <2>1. Skips(r, e)
    BY <1>3, EscalationUnreadEffect
  <2> QED BY <2>1 DEF Skips, Schedules
<1>4. ASSUME NEW e \in job[r].due, EscalationPostponed(r, e) \/ EscalationTakenUp(r, e)
      PROVE  Schedules(r)
  BY <1>4, EscalationPostponedEffect, EscalationTakenUpEffect DEF Schedules
<1>5. ASSUME NEW c \in Chats, EscalationCreateFails(r, c) PROVE Schedules(r)
  BY <1>5, EscalationCreateFailsEffect DEF Schedules
<1>6. CASE EscalationProcessed(r) \/ Lists(r)
  BY <1>6 DEF Schedules
<1> QED BY <1>1, <1>2, <1>3, <1>4, <1>5, <1>6 DEF Schedule, Lists

LEMMA NextKinds ==
    ASSUME Typed, [Next]_vars
    PROVE  \/ UNCHANGED vars
           \/ Emitted \/ Elsewhere \/ Inserts \/ Times
           \/ \E e \in Ids : Publish(e)
           \/ FetchMessage \/ RouteContextFails \/ CreateFails \/ CommitMessages
           \/ \E w \in Workers : Deliver(w)
           \/ \E r \in Replicas : Schedules(r) \/ Crash(r)
<1>0. DOMAIN pub = Ids /\ DOMAIN rows = Ids
  BY DEF Typed, KafkaTyped, TablesTyped
<1>1. CASE \E tag \in Tags, s \in States : ApplyTransition(tag, s)
  BY <1>1, ApplyTransitionEffect
<1>2. CASE Deletes \/ (\E c \in Chats : EnableChat(c)) \/ CloseSession
  BY <1>2, ElsewhereEffect DEF Elsewhere
<1>3. CASE Consume
  <2>1. CASE CreateEscalation \/ CreateEscalationFails
    <3>1. Committing
      BY <2>1, CreateEscalationEffect, CreateEscalationFailsEffect
    <3>2. UNCHANGED <<events, kafka, rows, sends, fates>>
      BY <2>1 DEF CreateEscalation, CreateEscalationFails
    <3> QED BY <3>1, <3>2 DEF Inserts
  <2> QED BY <1>3, <2>1, WorkerNames DEF Consume
<1>4. ASSUME NEW r \in Replicas, Schedule(r)
      PROVE  Schedules(r) \/ Deliver(r)
  BY <1>4, ScheduleKinds
<1>5. CASE \E e \in DOMAIN rows : DelayPasses(e) \/ \E c \in Chats : Ripen(e, c)
  BY <1>0, <1>5 DEF Times
<1>6. CASE UNCHANGED vars
  BY <1>6
<1>7. CASE \E e \in DOMAIN pub : Publish(e)
  BY <1>0, <1>7
<1>8. Next \/ UNCHANGED vars
  OBVIOUS
<1>9. CASE \E r \in Replicas : Schedule(r) \/ Crash(r)
  BY <1>4, <1>9, WorkerNames
<1> HIDE DEF vars, source, kafka, tables, bounds, sends, fates
<1> QED BY <1>1, <1>2, <1>3, <1>5, <1>6, <1>7, <1>8, <1>9 DEF Next, Deletes

LEMMA ListsEffect ==
    ASSUME Typed, NEW r \in Replicas, Lists(r)
    PROVE  Retries(r)
BY ListPendingNotificationsEffect, RetryNextEffect, RetrySkipsEffect DEF Lists

LEMMA SchedulesEffect ==
    ASSUME Typed, NEW r \in Replicas, Schedules(r)
    PROVE  Typed' /\ Others(r) /\ UNCHANGED <<events, kafka, rows, fates>>
BY ListsEffect, EscalationProcessedEffect DEF Schedules, Skips, Quiet, Retries

LEMMA TimesEffect ==
    ASSUME Typed, Times
    PROVE  /\ Typed' /\ UNCHANGED <<events, kafka, job, sends, fates>>
           /\ \A e \in Ids, c \in Chats : rows'[e][c].status = rows[e][c].status
<1>1. ASSUME NEW e \in Ids, DelayPasses(e)
      PROVE  /\ Typed' /\ UNCHANGED <<events, kafka, job, sends, fates>>
             /\ \A f \in Ids, d \in Chats : rows'[f][d].status = rows[f][d].status
  BY <1>1, DelayPassesEffect
<1>2. ASSUME NEW e \in Ids, NEW c \in Chats, Ripen(e, c)
      PROVE  /\ Typed' /\ UNCHANGED <<events, kafka, job, sends, fates>>
             /\ \A f \in Ids, d \in Chats : rows'[f][d].status = rows[f][d].status
  BY <1>2, RipenEffect
<1> QED BY <1>1, <1>2 DEF Times

LEMMA PublishTyped ==
    ASSUME Typed, NEW e \in Ids, Publish(e)
    PROVE  PubKeeps(e)
BY TakeQueueEffect, WriteMessagesEffect, WriteFailsEffect, WriteLostEffect DEF Publish

LEMMA StutterTyped ==
    ASSUME Typed, UNCHANGED vars
    PROVE  Typed'
BY JobsSame, JobsOnly

LEMMA TypedStep ==
    ASSUME Typed, [Next]_vars
    PROVE  Typed'
<1>1. CASE Emitted \/ Elsewhere \/ Inserts \/ Times
  BY <1>1, TimesEffect DEF Emitted, Elsewhere, Inserts, Committing
<1>2. CASE FetchMessage \/ RouteContextFails \/ CreateFails \/ CommitMessages
  BY <1>2, FetchMessageEffect, RouteContextFailsEffect, CreateFailsEffect, CommitMessagesEffect
<1>3. ASSUME NEW e \in Ids, Publish(e) PROVE Typed'
  BY <1>3, PublishTyped DEF PubKeeps
<1>4. ASSUME NEW w \in Workers, Deliver(w) PROVE Typed'
  BY <1>4, DeliverEffect DEF Delivers
<1>5. ASSUME NEW r \in Replicas, Schedules(r) \/ Crash(r) PROVE Typed'
  BY <1>5, SchedulesEffect, CrashEffect
<1>6. CASE UNCHANGED vars
  BY <1>6, StutterTyped
<1> HIDE DEF vars, source, kafka, tables, bounds, sends, fates
<1> QED BY <1>1, <1>2, <1>3, <1>4, <1>5, <1>6, NextKinds

LEMMA MessagesStep ==
    ASSUME Typed, MessagesInv, [Next]_vars
    PROVE  MessagesInv'
<1> DEFINE Same == UNCHANGED <<events, pub, queue, topic, position, committed, routed, gone,
                               missed>>
<1>1. ASSUME \A e \in Ids, c \in Chats : rows'[e][c].status = rows[e][c].status PROVE RowsKept
  BY <1>1 DEF RowsKept, HasRow, HasRowNext
<1>2. CASE Emitted
  BY <1>2, EmittedMessages
<1>3. CASE Elsewhere \/ Times \/ UNCHANGED vars
  <2>1. Same /\ UNCHANGED job /\ \A e \in Ids, c \in Chats : rows'[e][c].status = rows[e][c].status
    BY <1>3, TimesEffect DEF Elsewhere
  <2> QED BY <1>1, <2>1, MessagesFrame
<1>4. CASE Inserts
  <2>1. /\ Same /\ UNCHANGED rows /\ job[Consumer].pc = "chats" /\ job[Consumer].chats = {}
        /\ job'[Consumer] = [job[Consumer] EXCEPT !.pc = "commit"] /\ job[Consumer] \in JobRec
    BY <1>4, WorkerNames DEF Inserts, Committing, Typed, JobsTyped
  <2>2. /\ job'[Consumer].pc = "commit" /\ job'[Consumer].ev = job[Consumer].ev
        /\ job'[Consumer].chats = {}
    BY <2>1 DEF JobRec
  <2>3. GoesOn
    BY <2>1, <2>2 DEF GoesOn, Busied
  <2> QED BY <1>1, <2>1, <2>3, MessagesFrame
<1>5. ASSUME NEW e \in Ids, Publish(e) PROVE MessagesInv'
  BY <1>5, PublishMessages
<1>6. CASE FetchMessage \/ RouteContextFails \/ CreateFails \/ CommitMessages
  BY <1>6, FetchMessages, FailedMessages, CommittedMessages
<1>7. ASSUME NEW w \in Workers, Deliver(w) PROVE MessagesInv'
  <2>1. Delivers(w)
    BY <1>7, DeliverEffect
  <2>2. Same /\ RowsKept
    BY <2>1 DEF Delivers
  <2>3. job'[Consumer] = job[Consumer] \/ GoesOn
    BY <2>1, WorkerNames DEF Delivers, Others, Carries, GoesOn, Busied
  <2> QED BY <2>2, <2>3, MessagesFrame
<1>8. ASSUME NEW r \in Replicas, Schedules(r) PROVE MessagesInv'
  <2>1. Others(r) /\ Same /\ UNCHANGED rows
    BY <1>8, SchedulesEffect
  <2>2. job'[Consumer] = job[Consumer]
    BY <2>1, WorkerNames DEF Others
  <2> QED BY <1>1, <2>1, <2>2, MessagesFrame
<1>9. ASSUME NEW r \in Replicas, Crash(r) PROVE MessagesInv'
  BY <1>9, CrashedMessages
<1> HIDE DEF vars, source, kafka, tables, bounds, sends, fates
<1> QED BY <1>2, <1>3, <1>4, <1>5, <1>6, <1>7, <1>8, <1>9, NextKinds

LEMMA MessagesInit == Init => MessagesInv
<1> SUFFICES ASSUME Init
             PROVE  MessagesInv
  OBVIOUS
<1>1. /\ events = <<>> /\ position = 0 /\ committed = 0 /\ job = [w \in Workers |-> Idle]
  BY DEF Init
<1>2. Ids = {} /\ DOMAIN events = {} /\ ~Busied
  BY <1>1, WorkerNames, IdleIs DEF Ids, Busied
<1> QED BY <1>1, <1>2 DEF MessagesInv, ConsumerInv, OwnPayload, FetchedInv, NoEventDropped

\* Every committed alarm event is on its way to the notifier, has a notification for every chat it was routed to,
\* or was lost in a way the model names (alarms_producer.go:113,
\* alarms_consumer.go:98).
THEOREM NothingDropped == Spec => []NoEventDropped
<1>1. Init => Typed /\ MessagesInv
  BY InitTyped, MessagesInit
<1>2. Typed /\ MessagesInv /\ [Next]_vars => (Typed /\ MessagesInv)'
  BY TypedStep, MessagesStep
<1>3. Typed /\ MessagesInv => NoEventDropped
  BY DEF MessagesInv
<1> HIDE DEF vars, source, kafka, tables, bounds, sends, fates
<1> QED BY <1>1, <1>2, <1>3, PTL DEF Spec

-----------------------------------------------------------------------------
(* Escalations are kept.                                                   *)

ConsideredNext(e) == esc'[e].status # "none" \/ esc'[e].reason = "not inserted" \/ e \in missed'
ClosedOkNext(e) ==
    /\ esc'[e].status = "skipped" => esc'[e].reason = "unread"
    /\ esc'[e].status = "processed" => \A c \in esc'[e].owed : HasRowNext(e, c)
OwedOkNext(r) ==
    job'[r].pc \in {"chats", "send", "mark"} /\ job'[r].escalated =>
        \A c \in job'[r].owed : c \in job'[r].chats \/ HasRowNext(job'[r].ev, c)

LEMMA EscalationNext ==
    ASSUME FetchedEscalations', \A e \in Ids' : ClosedOkNext(e),
           \A r \in Replicas : OwedOkNext(r)
    PROVE  EscalationInv'
<1>1. \A e \in Ids' : ClosedOk(e)'
  BY DEF ClosedOk, ClosedOkNext, HasRow, HasRowNext
<1>2. \A r \in Replicas : OwedOk(r)'
  BY DEF OwedOk, OwedOkNext, HasRow, HasRowNext
<1> QED BY <1>1, <1>2 DEF EscalationInv

\* A step of the consumer, or of somebody else, on the fetched messages.
LEMMA FetchedStep ==
    ASSUME Typed, FetchedEscalations, position' \in Nat,
           \A i \in 1..position' :
              \/ /\ i \in 1..position /\ topic'[i] = topic[i]
                 /\ events'[topic[i]] = events[topic[i]]
              \/ i = position' /\ job'[Consumer].pc \notin {"idle", "commit"}
              \/ topic'[i] \in missed',
           \A e \in Ids : Considered(e) => ConsideredNext(e),
           Busied /\ job[Consumer].pc # "commit" /\ Escalates(events[topic[position]]) =>
              \/ ConsideredNext(topic[position])
              \/ position \notin 1..position'
              \/ position' = position /\ job'[Consumer].pc \notin {"idle", "commit"}
    PROVE  FetchedEscalations'
<1>1. ASSUME NEW i \in 1..position', Escalates(events'[topic'[i]])
      PROVE  \/ ConsideredNext(topic'[i])
             \/ i = position' /\ job'[Consumer].pc \notin {"idle", "commit"}
  <2>1. CASE topic'[i] \in missed'
    BY <2>1 DEF ConsideredNext
  <2>2. CASE /\ i \in 1..position /\ topic'[i] = topic[i]
             /\ events'[topic[i]] = events[topic[i]]
    <3>1. Escalates(events[topic[i]]) /\ topic[i] \in Ids
      BY <1>1, <2>2, TopicType
    <3>2. CASE Considered(topic[i])
      BY <2>2, <3>1, <3>2
    <3>3. CASE i = position /\ Busied /\ job[Consumer].pc # "commit"
      BY <1>1, <2>2, <3>1, <3>3
    <3> QED BY <2>2, <3>1, <3>2, <3>3 DEF FetchedEscalations
  <2> QED BY <1>1, <2>1, <2>2
<1> QED BY <1>1 DEF FetchedEscalations, Considered, ConsideredNext, Busied, Escalates

LEMMA ClosedKept ==
    ASSUME Typed, RowsKept, NEW e \in Ids, ClosedOk(e), esc'[e].owed = esc[e].owed,
           esc'[e].status = "skipped" =>
              \/ esc'[e].reason = "unread"
              \/ esc[e].status = "skipped" /\ esc'[e].reason = esc[e].reason,
           esc'[e].status = "processed" => esc[e].status = "processed"
    PROVE  ClosedOkNext(e)
<1>1. esc[e].owed \in SUBSET Chats
  BY DEF Typed, TablesTyped, EscRec
<1> QED BY <1>1 DEF ClosedOk, ClosedOkNext, RowsKept, HasRow, HasRowNext

LEMMA OwedKept ==
    ASSUME Typed, RowsKept, NEW r \in Replicas, OwedOk(r), job'[r] = job[r]
    PROVE  OwedOkNext(r)
<1>1. job[r].owed \in SUBSET Chats
  BY WorkerNames DEF Typed, JobsTyped, JobRec
<1>2. job[r].pc \in {"chats", "send", "mark"} => job[r].ev \in Ids
  BY WorkerNames DEF Typed, JobsTyped, JobOk
<1> QED BY <1>1, <1>2 DEF OwedOk, OwedOkNext, RowsKept

LEMMA OwedCarried ==
    ASSUME Typed, RowsKept, NEW r \in Replicas, OwedOk(r), Delivers(r)
    PROVE  OwedOkNext(r)
<1>1. SUFFICES ASSUME job'[r].escalated PROVE OwedOkNext(r)
  BY DEF OwedOkNext
<1>2. job[r].owed \in SUBSET Chats
  BY WorkerNames DEF Typed, JobsTyped, JobRec
<1>3. /\ job[r].pc \in {"chats", "send", "mark"} /\ job[r].escalated /\ Carries(r)
  BY <1>1 DEF Delivers
<1>4. job[r].ev \in Ids
  BY <1>3, WorkerNames DEF Typed, JobsTyped, JobOk
<1> QED BY <1>2, <1>3, <1>4 DEF OwedOk, OwedOkNext, RowsKept, Carries

LEMMA OwedQuiet ==
    ASSUME Typed, RowsKept, NEW r \in Replicas, OwedOk(r), Quiet(r)
    PROVE  OwedOkNext(r)
<1>1. job[r].owed \in SUBSET Chats
  BY WorkerNames DEF Typed, JobsTyped, JobRec
<1>2. SUFFICES ASSUME job'[r].pc = "chats" PROVE OwedOkNext(r)
  BY DEF OwedOkNext, Quiet
<1>3. CASE job'[r].owed \subseteq job'[r].chats
  BY <1>3 DEF OwedOkNext
<1>4. CASE /\ job[r].pc = "chats" /\ job[r].escalated /\ job'[r].ev = job[r].ev
           /\ \A c \in job'[r].owed :
                 c \in job[r].owed /\ (c \in job[r].chats => c \in job'[r].chats)
  <2>1. job[r].ev \in Ids
    BY <1>4, WorkerNames DEF Typed, JobsTyped, JobOk
  <2> QED BY <1>1, <1>4, <2>1 DEF OwedOk, OwedOkNext, RowsKept
<1> QED BY <1>2, <1>3, <1>4 DEF Quiet

\* Of the workers only w does something, and no message is fetched.
LEMMA EscalationFrame ==
    ASSUME Typed, EscalationInv, RowsKept, NEW w, Others(w),
           UNCHANGED <<events, topic, position>>, missed \subseteq missed',
           w \in Replicas => OwedOkNext(w),
           \A e \in Ids : ClosedOkNext(e),
           \A e \in Ids : Considered(e) => ConsideredNext(e),
           Busied /\ job[Consumer].pc # "commit" /\ Escalates(events[topic[position]]) =>
              \/ ConsideredNext(topic[position])
              \/ job'[Consumer].pc \notin {"idle", "commit"}
    PROVE  EscalationInv'
<1>1. FetchedEscalations'
  BY TopicType, FetchedStep DEF EscalationInv
<1>2. \A r \in Replicas : OwedOkNext(r)
  BY OwedKept, WorkerNames DEF Others, EscalationInv
<1>3. Ids' = Ids
  BY DEF Ids
<1> QED BY <1>1, <1>2, <1>3, EscalationNext

SameClosing ==
    \A e \in Ids : /\ esc'[e].status = esc[e].status /\ esc'[e].owed = esc[e].owed
                   /\ esc'[e].reason = esc[e].reason

LEMMA SameClosingKept ==
    ASSUME Typed, EscalationInv, RowsKept, SameClosing, missed \subseteq missed'
    PROVE  /\ \A e \in Ids : ClosedOkNext(e)
           /\ \A e \in Ids : Considered(e) => ConsideredNext(e)
<1>1. ASSUME NEW e \in Ids PROVE ClosedOkNext(e)
  BY ClosedKept DEF EscalationInv, SameClosing
<1> QED BY <1>1 DEF Considered, ConsideredNext, SameClosing

LEMMA NobodyElse ==
    ASSUME UNCHANGED job
    PROVE  Others(Consumer) /\ Others(None)
BY DEF Others

LEMMA ConsumerNoReplica == Consumer \notin Replicas
BY WorkerNames

LEMMA EscalationQuiet ==
    ASSUME Typed, EscalationInv, RowsKept, SameClosing, UNCHANGED <<events, job, missed>>,
           UNCHANGED <<topic, position>>
    PROVE  EscalationInv'
BY SameClosingKept, NobodyElse, ConsumerNoReplica, EscalationFrame DEF Busied

LEMMA EmittedEscalations ==
    ASSUME Typed, EscalationInv, Emitted
    PROVE  EscalationInv'
<1>1. /\ Newest \notin Ids /\ Ids' = Ids \cup {Newest}
      /\ UNCHANGED <<topic, position, job, missed>>
      /\ \A e \in Ids : events'[e] = events[e] /\ rows'[e] = rows[e] /\ esc'[e] = esc[e]
      /\ esc'[Newest] = NoEscalation
  BY DEF Emitted
<1>2. RowsKept /\ SameClosing
  BY <1>1 DEF RowsKept, HasRow, HasRowNext, SameClosing
<1>3. ClosedOkNext(Newest)
  BY <1>1 DEF ClosedOkNext, NoEscalation
<1>4. \A e \in Ids' : ClosedOkNext(e)
  BY <1>1, <1>2, <1>3, SameClosingKept
<1>5. \A r \in Replicas : OwedOkNext(r)
  BY <1>1, <1>2, OwedKept DEF EscalationInv
<1>6. FetchedEscalations'
  <2>1. \A i \in 1..position : topic[i] \in Ids /\ events'[topic[i]] = events[topic[i]]
    BY <1>1, TopicType
  <2>2. \A e \in Ids : Considered(e) => ConsideredNext(e)
    BY <1>1 DEF Considered, ConsideredNext
  <2> QED BY <1>1, <2>1, <2>2, TopicType, FetchedStep DEF Busied, EscalationInv
<1> QED BY <1>4, <1>5, <1>6, EscalationNext

LEMMA PublishEscalations ==
    ASSUME Typed, EscalationInv, NEW e \in Ids, Publish(e)
    PROVE  EscalationInv'
<1>1. UNCHANGED <<events, position, rows, esc, job, missed>>
  BY PublishTyped DEF PubKeeps
<1>2. \A i \in 1..position : topic'[i] = topic[i]
  <2>1. CASE WriteMessages(e)
    <3>1. topic' = topic \o pub[e].payload /\ pub[e].payload \in Seq(Ids)
      BY <2>1, WriteMessagesEffect, EmptyEnd
    <3> QED BY <3>1, TopicType, ConcatProperties, LenProperties
  <2>2. CASE ~WriteMessages(e)
    BY <2>2, TakeQueueEffect, WriteFailsEffect, WriteLostEffect DEF Publish
  <2> QED BY <2>1, <2>2
<1>3. RowsKept /\ SameClosing
  BY <1>1 DEF RowsKept, HasRow, HasRowNext, SameClosing
<1>4. FetchedEscalations'
  BY <1>1, <1>2, <1>3, SameClosingKept, TopicType, FetchedStep DEF Busied, EscalationInv
<1>5. \A r \in Replicas : OwedOkNext(r)
  BY <1>1, <1>3, OwedKept DEF EscalationInv
<1>6. Ids' = Ids
  BY <1>1 DEF Ids
<1> QED BY <1>1, <1>3, <1>4, <1>5, <1>6, SameClosingKept, EscalationNext

LEMMA ConsumerEscalations ==
    ASSUME Typed, MessagesInv, EscalationInv,
           FetchMessage \/ RouteContextFails \/ CreateFails \/ CommitMessages
    PROVE  EscalationInv'
<1>1. UNCHANGED <<events, topic, rows, esc>> /\ missed \subseteq missed'
  BY DEF FetchMessage, RouteContextFails, CreateFails, CommitMessages
<1>2. RowsKept /\ SameClosing /\ Ids' = Ids
  BY <1>1 DEF RowsKept, HasRow, HasRowNext, SameClosing, Ids
<1>3. Others(Consumer)
  BY FetchMessageEffect, RouteContextFailsEffect, NobodyElse, CreateFailsEffect,
     CommitMessagesEffect
<1>4. \A r \in Replicas : OwedOkNext(r)
  BY <1>2, <1>3, OwedKept, WorkerNames DEF Others, EscalationInv
<1>5. FetchedEscalations'
  <2>0. \A e \in Ids : Considered(e) => ConsideredNext(e)
    BY <1>1, <1>2, SameClosingKept
  <2>1. CASE FetchMessage \/ RouteContextFails
    <3>1. /\ position' = position + 1 /\ job[Consumer] = Idle
          /\ \/ job'[Consumer].pc = "chats"
             \/ missed' = missed \cup {topic[position + 1]}
      BY <2>1, FetchMessageEffect, RouteContextFailsEffect DEF RouteContextFails
    <3>2. ~Busied
      BY <3>1, IdleIs DEF Busied
    <3>3. ASSUME NEW i \in 1..position', i \notin 1..position PROVE i = position + 1
      BY <3>1, <3>3, TopicType
    <3> QED BY <1>1, <2>0, <3>1, <3>2, <3>3, TopicType, FetchedStep DEF EscalationInv
  <2>2. CASE CreateFails
    <3>1. /\ position' = position /\ missed' = missed \cup {job[Consumer].ev}
          /\ job[Consumer].pc = "chats"
      BY <2>2, CreateFailsEffect DEF CreateFails
    <3>2. topic[position] = job[Consumer].ev
      BY <3>1 DEF MessagesInv, ConsumerInv, Busied
    <3>3. ConsideredNext(topic[position])
      BY <3>1, <3>2 DEF ConsideredNext
    <3> QED BY <1>1, <2>0, <3>1, <3>3, TopicType, FetchedStep DEF EscalationInv
  <2>3. CASE CommitMessages
    <3>1. position' = position /\ job[Consumer].pc = "commit"
      BY <2>3 DEF CommitMessages
    <3> QED BY <1>1, <2>0, <3>1, TopicType, FetchedStep DEF EscalationInv
  <2> QED BY <2>1, <2>2, <2>3
<1> QED BY <1>1, <1>2, <1>4, <1>5, SameClosingKept, EscalationNext

LEMMA InsertsEscalations ==
    ASSUME Typed, MessagesInv, EscalationInv, Inserts
    PROVE  EscalationInv'
<1> DEFINE e == job[Consumer].ev
<1>1. /\ Others(Consumer) /\ UNCHANGED <<events, topic, position, rows, missed>>
      /\ job[Consumer].pc = "chats" /\ e \in Ids
      /\ \A f \in Ids : f # e => esc'[f] = esc[f]
      /\ esc[e].status # "none" => esc'[e].status = esc[e].status
      /\ esc'[e].status \in {esc[e].status, "waiting"}
      /\ esc'[e].owed = esc[e].owed
      /\ esc'[e].status = "skipped" => esc'[e].reason = esc[e].reason
      /\ esc[e].reason = "not inserted" => esc'[e].reason = "not inserted"
      /\ Escalates(events[e]) => esc'[e].status # "none" \/ esc'[e].reason = "not inserted"
  BY DEF Inserts, Committing
<1>2. RowsKept
  BY <1>1 DEF RowsKept, HasRow, HasRowNext
<1>3. ASSUME NEW f \in Ids PROVE ClosedOkNext(f)
  BY <1>1, <1>2, ClosedKept DEF EscalationInv
<1>4. \A f \in Ids : Considered(f) => ConsideredNext(f)
  BY <1>1 DEF Considered, ConsideredNext
<1>5. topic[position] = e
  BY <1>1 DEF MessagesInv, ConsumerInv, Busied
<1>6. Escalates(events[topic[position]]) => ConsideredNext(topic[position])
  BY <1>1, <1>5 DEF ConsideredNext
<1> QED BY <1>1, <1>2, <1>3, <1>4, <1>6, ConsumerNoReplica, EscalationFrame

LEMMA DeliverEscalations ==
    ASSUME Typed, EscalationInv, NEW w \in Workers, Deliver(w)
    PROVE  EscalationInv'
<1>1. Delivers(w)
  BY DeliverEffect
<1>2. /\ RowsKept /\ Others(w) /\ SameClosing
      /\ UNCHANGED <<events, topic, position, missed>>
      /\ w = Consumer => job'[Consumer].pc \in {"chats", "send", "mark"}
  BY <1>1 DEF Delivers, SameClosing, Carries
<1>3. w # Consumer => job'[Consumer] = job[Consumer]
  BY <1>2, WorkerNames DEF Others
<1>4. w \in Replicas => OwedOkNext(w)
  BY <1>1, <1>2, OwedCarried DEF EscalationInv
<1> QED BY <1>2, <1>3, <1>4, SameClosingKept, EscalationFrame DEF Busied

LEMMA ScheduleEscalations ==
    ASSUME Typed, EscalationInv, NEW r \in Replicas, Schedules(r)
    PROVE  EscalationInv'
<1>1. Others(r) /\ UNCHANGED <<events, topic, position, rows, missed>>
  BY SchedulesEffect
<1>2. job'[Consumer] = job[Consumer] /\ RowsKept
  BY <1>1, WorkerNames DEF Others, RowsKept, HasRow, HasRowNext
<1>3. OwedOkNext(r)
  <2>1. CASE Quiet(r)
    BY <1>2, <2>1, OwedQuiet DEF EscalationInv
  <2>2. CASE Lists(r)
    BY <2>2, ListsEffect DEF Retries, OwedOkNext
  <2> QED BY <2>1, <2>2, EscalationProcessedEffect DEF Schedules, Skips
<1>4. \A e \in Ids : ClosedOkNext(e) /\ (Considered(e) => ConsideredNext(e))
  <2>1. CASE UNCHANGED esc
    BY <1>1, <1>2, <2>1, SameClosingKept DEF SameClosing
  <2>2. CASE Lists(r)
    BY <2>1, <2>2, ListsEffect DEF Retries
  <2>3. ASSUME NEW f \in Ids, Skips(r, f)
        PROVE  \A e \in Ids : ClosedOkNext(e) /\ (Considered(e) => ConsideredNext(e))
    <3>1. /\ esc'[f].status = "skipped" /\ esc'[f].reason = "unread"
          /\ \A e \in Ids : e # f => esc'[e] = esc[e]
      BY <2>3 DEF Skips
    <3>2. ClosedOkNext(f) /\ ConsideredNext(f)
      BY <3>1 DEF ClosedOkNext, ConsideredNext
    <3>3. ASSUME NEW e \in Ids, e # f
          PROVE ClosedOkNext(e) /\ (Considered(e) => ConsideredNext(e))
      BY <1>1, <1>2, <3>1, <3>3, ClosedKept DEF EscalationInv, Considered, ConsideredNext
    <3> QED BY <3>2, <3>3
  <2>4. CASE EscalationProcessed(r)
    <3> DEFINE f == job[r].ev
    <3>1. /\ job[r].pc = "chats" /\ job[r].chats = {} /\ job[r].escalated /\ f \in Ids
          /\ esc'[f].status = "processed" /\ esc'[f].owed = job[r].owed
          /\ \A e \in Ids : e # f => esc'[e] = esc[e]
      BY <2>4, EscalationProcessedEffect
    <3>2. job[r].owed \in SUBSET Chats
      BY WorkerNames DEF Typed, JobsTyped, JobRec
    <3>3. \A c \in job[r].owed : HasRowNext(f, c)
      BY <1>2, <3>1, <3>2 DEF EscalationInv, OwedOk, RowsKept
    <3>4. ClosedOkNext(f) /\ ConsideredNext(f)
      BY <3>1, <3>3 DEF ClosedOkNext, ConsideredNext
    <3>5. ASSUME NEW e \in Ids, e # f
          PROVE ClosedOkNext(e) /\ (Considered(e) => ConsideredNext(e))
      BY <1>1, <1>2, <3>1, <3>5, ClosedKept DEF EscalationInv, Considered, ConsideredNext
    <3> QED BY <3>4, <3>5
  <2> QED BY <2>1, <2>2, <2>3, <2>4 DEF Schedules
<1> QED BY <1>1, <1>2, <1>3, <1>4, EscalationFrame DEF Busied

LEMMA TimesEscalations ==
    ASSUME Typed, EscalationInv, Times
    PROVE  EscalationInv'
<1>1. /\ UNCHANGED <<events, topic, position, job, missed>>
      /\ \A e \in Ids, c \in Chats : rows'[e][c].status = rows[e][c].status
  BY TimesEffect
<1>2. RowsKept
  BY <1>1 DEF RowsKept, HasRow, HasRowNext
<1>3. \A e \in Ids : ClosedOkNext(e) /\ (Considered(e) => ConsideredNext(e))
  <2>1. ASSUME NEW f \in Ids, DelayPasses(f), NEW e \in Ids
        PROVE  ClosedOkNext(e) /\ (Considered(e) => ConsideredNext(e))
    <3>1. /\ esc[f].status = "waiting" /\ esc'[f].status = "due" /\ esc'[f].owed = esc[f].owed
          /\ esc'[f].reason = esc[f].reason
          /\ e # f => esc'[e] = esc[e]
      BY <2>1, DelayPassesEffect
    <3>2. CASE e = f
      BY <1>1, <1>2, <3>1, <3>2, ClosedKept DEF EscalationInv, Considered, ConsideredNext
    <3>3. CASE e # f
      BY <1>1, <1>2, <3>1, <3>3, ClosedKept DEF EscalationInv, Considered, ConsideredNext
    <3> QED BY <3>2, <3>3
  <2>2. ASSUME NEW f \in Ids, NEW c \in Chats, Ripen(f, c)
        PROVE  \A e \in Ids : ClosedOkNext(e) /\ (Considered(e) => ConsideredNext(e))
    <3>1. SameClosing
      BY <2>2, RipenEffect DEF SameClosing
    <3> QED BY <1>1, <1>2, <3>1, SameClosingKept
  <2> QED BY <2>1, <2>2 DEF Times
<1> QED BY <1>1, <1>2, <1>3, NobodyElse, ConsumerNoReplica, EscalationFrame DEF Busied

LEMMA CrashedEscalations ==
    ASSUME Typed, MessagesInv, EscalationInv, NEW r \in Replicas, Crash(r)
    PROVE  EscalationInv'
<1>1. /\ UNCHANGED <<events, topic, committed, tables, missed>>
      /\ \A w \in Workers : job'[w] = IF w \in Dead(r) THEN Idle ELSE job[w]
      /\ \/ r = Home /\ position' = committed
         \/ r # Home /\ UNCHANGED position
  BY CrashEffect
<1>2. RowsKept /\ SameClosing /\ Ids' = Ids
  BY <1>1 DEF RowsKept, HasRow, HasRowNext, SameClosing, Ids
<1>3. ASSUME NEW v \in Replicas PROVE OwedOkNext(v)
  <2>1. job'[v] = Idle \/ job'[v] = job[v]
    BY <1>1, WorkerNames
  <2> QED BY <1>2, <2>1, OwedKept, IdleIs DEF EscalationInv, OwedOkNext
<1>4. FetchedEscalations'
  <2>1. \A e \in Ids : Considered(e) => ConsideredNext(e)
    BY <1>1, <1>2, SameClosingKept
  <2>2. CASE r = Home
    <3>1. /\ position' = committed
          /\ Busied => position \notin 1..committed
      BY <1>1, <2>2, TopicType DEF MessagesInv, ConsumerInv
    <3>2. \A i \in 1..committed : i \in 1..position
      BY TopicType
    <3> QED BY <1>1, <2>1, <3>1, <3>2, TopicType, FetchedStep DEF EscalationInv
  <2>3. CASE r # Home
    <3>1. UNCHANGED position /\ job'[Consumer] = job[Consumer]
      BY <1>1, <2>3, WorkerNames DEF Dead
    <3> QED BY <1>1, <2>1, <3>1, TopicType, FetchedStep DEF EscalationInv, Busied
  <2> QED BY <2>2, <2>3
<1> QED BY <1>1, <1>2, <1>3, <1>4, SameClosingKept, EscalationNext

LEMMA EscalationInvStep ==
    ASSUME Typed, MessagesInv, EscalationInv, [Next]_vars
    PROVE  EscalationInv'
<1>1. CASE Emitted \/ Inserts \/ Times
  BY <1>1, EmittedEscalations, InsertsEscalations, TimesEscalations
<1>2. CASE Elsewhere \/ UNCHANGED vars
  <2>1. UNCHANGED <<events, rows, esc, job, missed, topic, position>>
    BY <1>2 DEF Elsewhere
  <2>2. RowsKept /\ SameClosing
    BY <2>1 DEF RowsKept, HasRow, HasRowNext, SameClosing
  <2> QED BY <2>1, <2>2, EscalationQuiet
<1>3. CASE FetchMessage \/ RouteContextFails \/ CreateFails \/ CommitMessages
  BY <1>3, ConsumerEscalations
<1>4. ASSUME NEW e \in Ids, Publish(e) PROVE EscalationInv'
  BY <1>4, PublishEscalations
<1>5. ASSUME NEW w \in Workers, Deliver(w) PROVE EscalationInv'
  BY <1>5, DeliverEscalations
<1>6. ASSUME NEW r \in Replicas, Schedules(r) \/ Crash(r) PROVE EscalationInv'
  BY <1>6, ScheduleEscalations, CrashedEscalations
<1> HIDE DEF vars, source, kafka, tables, bounds, sends, fates
<1> QED BY <1>1, <1>2, <1>3, <1>4, <1>5, <1>6, NextKinds

LEMMA EscalationInit == Init => EscalationInv
<1> SUFFICES ASSUME Init
             PROVE  EscalationInv
  OBVIOUS
<1>1. events = <<>> /\ position = 0 /\ job = [w \in Workers |-> Idle]
  BY DEF Init
<1>2. Ids = {} /\ \A r \in Replicas : job[r].pc = "idle"
  BY <1>1, WorkerNames, IdleIs DEF Ids
<1> QED BY <1>1, <1>2 DEF EscalationInv, FetchedEscalations, OwedOk

\* A critical event whose message was committed has its escalation row unless the
\* insert failed, and the row is closed only after an acknowledgement, a failed
\* read of the event, or when every admin chat it was meant for has its
\* notification or its failed insert, whatever dies in the middle
\* (notifier_usecase.go:259).
THEOREM Kept == Spec => []EscalationKept
<1>1. Init => Typed /\ MessagesInv /\ EscalationInv
  BY InitTyped, MessagesInit, EscalationInit
<1>2. Typed /\ MessagesInv /\ EscalationInv /\ [Next]_vars
      => (Typed /\ MessagesInv /\ EscalationInv)'
  BY TypedStep, MessagesStep, EscalationInvStep
<1>3. Typed /\ MessagesInv /\ EscalationInv => EscalationKept
  <2> SUFFICES ASSUME Typed, MessagesInv, EscalationInv
               PROVE  EscalationKept
    OBVIOUS
  <2>1. DOMAIN esc = Ids
    BY DEF Typed, TablesTyped
  <2>2. ASSUME NEW e \in Ids, NEW i \in 1..committed, topic[i] = e, Escalates(events[e])
        PROVE  Considered(e)
    <3>1. i \in 1..position /\ i <= committed
      BY TopicType
    <3>2. ~(i = position /\ Busied)
      BY <3>1, TopicType DEF MessagesInv, ConsumerInv
    <3> QED BY <2>2, <3>1, <3>2 DEF EscalationInv, FetchedEscalations
  <2> QED BY <2>1, <2>2 DEF EscalationInv, ClosedOk, HasRow, EscalationKept, Considered
<1> HIDE DEF vars, source, kafka, tables, bounds, sends, fates
<1> QED BY <1>1, <1>2, <1>3, PTL DEF Spec

-----------------------------------------------------------------------------
(* A chat hears of an event once.                                          *)

Claim(w, e, c) == IF Claims(w, e, c) THEN 1 ELSE 0
Opening(e, c) == IF Open(e, c) THEN 1 ELSE 0
Live(e, c) == rows[e][c].status \in {"none", "pending"}

\* A step of w: what was heard, what w claims and what is open grow by no more than
\* the doubts.
Afford(w, e, c) ==
    heard'[e][c] + Claim(w, e, c)' + Opening(e, c)' + doubts[e][c]
        <= heard[e][c] + Claim(w, e, c) + Opening(e, c) + doubts'[e][c]

LEMMA ClaimantsFinite ==
    ASSUME NEW e, NEW c
    PROVE  /\ IsFiniteSet(Claimants(e, c)) /\ Cardinality(Claimants(e, c)) \in Nat
           /\ IsFiniteSet(Claimants(e, c)') /\ Cardinality(Claimants(e, c)') \in Nat
<1>1. Claimants(e, c) \in SUBSET Workers /\ Claimants(e, c)' \in SUBSET Workers
  BY DEF Claimants
<1>2. IsFiniteSet(Claimants(e, c)) /\ IsFiniteSet(Claimants(e, c)')
  BY <1>1, WorkerNames, FS_Subset
<1> QED BY <1>2, FS_CardinalityType

LEMMA OthersTheSame ==
    ASSUME NEW w, Others(w), NEW v \in Workers, v # w, NEW e, NEW c
    PROVE  /\ Claims(v, e, c)' <=> Claims(v, e, c)
           /\ Engaged(v, e, c)' <=> Engaged(v, e, c)
           /\ Touches(v, e, c)' <=> Touches(v, e, c)
<1>1. job'[v] = job[v]
  BY DEF Others
<1> QED BY <1>1 DEF Claims, Engaged, Touches, Holds, Delivering, Queued, Unmarked

LEMMA ClaimantsStep ==
    ASSUME NEW w \in Workers, Others(w), NEW e, NEW c
    PROVE  Cardinality(Claimants(e, c)') + Claim(w, e, c)
               = Cardinality(Claimants(e, c)) + Claim(w, e, c)'
<1> DEFINE S == Claimants(e, c)
           T == Claimants(e, c)'
<1>1. /\ IsFiniteSet(S) /\ Cardinality(S) \in Nat /\ IsFiniteSet(T) /\ Cardinality(T) \in Nat
  BY ClaimantsFinite
<1>2. w \in S <=> Claims(w, e, c)
  BY DEF Claimants
<1>3. w \in T <=> Claims(w, e, c)'
  BY DEF Claimants
<1>4. S \ {w} = T \ {w}
  BY OthersTheSame DEF Claimants
<1> HIDE DEF S, T
<1>5. Cardinality(S \ {w}) = IF w \in S THEN Cardinality(S) - 1 ELSE Cardinality(S)
  BY <1>1, FS_RemoveElement
<1>6. Cardinality(T \ {w}) = IF w \in T THEN Cardinality(T) - 1 ELSE Cardinality(T)
  BY <1>1, FS_RemoveElement
<1>7. Cardinality(T) + Claim(w, e, c) = Cardinality(S) + Claim(w, e, c)'
  BY <1>1, <1>2, <1>3, <1>4, <1>5, <1>6 DEF Claim
<1> QED BY <1>7 DEF S, T

LEMMA BudgetStep ==
    ASSUME Typed, Typed', Ids' = Ids, BudgetInv, RowsKept, NEW w \in Workers, Others(w),
           \A e \in Ids, c \in Chats :
             /\ Afford(w, e, c)
             /\ Touches(w, e, c)' => Touches(w, e, c) \/ HasRowNext(e, c)
    PROVE  BudgetInv'
<1>1. ASSUME NEW e \in Ids, NEW c \in Chats
      PROVE  Budget(e, c)' /\ Unclaimed(e, c)'
  <2>1. /\ heard[e][c] \in Nat /\ doubts[e][c] \in Nat
        /\ heard'[e][c] \in Nat /\ doubts'[e][c] \in Nat
    BY DEF Typed, SendsTyped
  <2>2. /\ Claim(w, e, c) \in {0, 1} /\ Claim(w, e, c)' \in {0, 1}
        /\ Opening(e, c) \in {0, 1} /\ Opening(e, c)' \in {0, 1}
    BY DEF Claim, Opening
  <2>3. heard[e][c] + Cardinality(Claimants(e, c)) + Opening(e, c) <= 1 + doubts[e][c]
    BY DEF BudgetInv, Budget, Opening
  <2>4. heard'[e][c] + Cardinality(Claimants(e, c)') + Opening(e, c)' <= 1 + doubts'[e][c]
    BY <2>1, <2>2, <2>3, ClaimantsFinite, ClaimantsStep DEF Afford
  <2>5. Budget(e, c)'
    BY <2>4 DEF Budget, Opening
  <2>6. Unclaimed(e, c)'
    <3> SUFFICES ASSUME ~HasRow(e, c)', NEW v \in Workers PROVE ~Touches(v, e, c)'
      BY DEF Unclaimed
    <3>1. ~HasRow(e, c) /\ ~HasRowNext(e, c)
      BY DEF RowsKept, HasRow, HasRowNext
    <3>2. ~Touches(v, e, c) /\ ~Touches(w, e, c)
      BY <3>1 DEF BudgetInv, Unclaimed
    <3> QED BY <3>1, <3>2, OthersTheSame
  <2> QED BY <2>5, <2>6
<1> QED BY <1>1 DEF BudgetInv

\* What is open after a step of w.
LEMMA OpenStep ==
    ASSUME NEW w \in Workers, Others(w), NEW e, NEW c
    PROVE  /\ Open(e, c)' => Live(e, c)' /\ ~Engaged(w, e, c)'
           /\ Open(e, c)' /\ Live(e, c) /\ ~Engaged(w, e, c) => Open(e, c)
           /\ Open(e, c) => Live(e, c) /\ ~Engaged(w, e, c)
BY OthersTheSame DEF Open, Live

\* A notification that w has nothing to do with, before or after.
LEMMA Aside ==
    ASSUME Typed, NEW w \in Workers, Others(w), NEW e \in Ids, NEW c \in Chats,
           Engaged(w, e, c)' <=> Engaged(w, e, c), Claims(w, e, c)' <=> Claims(w, e, c),
           Live(e, c)' => Live(e, c), heard'[e][c] = heard[e][c], doubts'[e][c] = doubts[e][c]
    PROVE  Afford(w, e, c)
<1>1. Open(e, c)' => Open(e, c)
  BY OpenStep
<1>2. heard[e][c] \in Nat /\ doubts[e][c] \in Nat
  BY DEF Typed, SendsTyped
<1>3. Claim(w, e, c)' = Claim(w, e, c)
  BY DEF Claim
<1> QED BY <1>1, <1>2, <1>3 DEF Afford, Opening, Claim

\* A worker that neither delivers nor lists.
LEMMA Disengaged ==
    ASSUME NEW w, ~Delivering(w), job[w].items = {}, NEW e, NEW c
    PROVE  ~Engaged(w, e, c) /\ ~Claims(w, e, c) /\ ~Touches(w, e, c)
BY DEF Engaged, Claims, Touches, Holds, Queued

LEMMA DisengagedNext ==
    ASSUME NEW w, job'[w].pc \notin {"send", "mark"}, job'[w].items = {}, NEW e, NEW c
    PROVE  ~Engaged(w, e, c)' /\ ~Claims(w, e, c)' /\ ~Touches(w, e, c)'
BY DEF Engaged, Claims, Touches, Holds, Queued, Delivering

LEMMA LivesKept ==
    ASSUME \A e \in Ids, c \in Chats : rows'[e][c].status = rows[e][c].status
    PROVE  /\ \A e \in Ids, c \in Chats : Live(e, c)' <=> Live(e, c)
           /\ RowsKept
BY DEF Live, RowsKept, HasRow, HasRowNext

\* A step of a worker that is on its way between two deliveries, or of none.
LEMMA BudgetFrame ==
    ASSUME Typed, Typed', Ids' = Ids, BudgetInv, NEW w \in Workers, Others(w),
           \A e \in Ids, c \in Chats : rows'[e][c].status = rows[e][c].status,
           UNCHANGED sends,
           \/ job'[w] = job[w]
           \/ /\ ~Delivering(w) /\ job[w].items = {}
              /\ job'[w].pc \notin {"send", "mark"} /\ job'[w].items = {}
    PROVE  BudgetInv'
<1>1. ASSUME NEW e \in Ids, NEW c \in Chats
      PROVE  /\ Afford(w, e, c)
             /\ Touches(w, e, c)' => Touches(w, e, c) \/ HasRowNext(e, c)
  <2>1. /\ Engaged(w, e, c)' <=> Engaged(w, e, c)
        /\ Claims(w, e, c)' <=> Claims(w, e, c)
        /\ Touches(w, e, c)' <=> Touches(w, e, c)
    <3>1. CASE job'[w] = job[w]
      BY <3>1 DEF Claims, Engaged, Touches, Holds, Delivering, Queued, Unmarked
    <3>2. CASE job'[w] # job[w]
      BY <3>2, Disengaged, DisengagedNext
    <3> QED BY <3>1, <3>2
  <2> QED BY <2>1, LivesKept, Aside
<1> QED BY <1>1, LivesKept, BudgetStep

LEMMA HoldsIs ==
    ASSUME Typed, NEW w \in Workers, Delivering(w), NEW e, NEW c, Holds(w, e, c)
    PROVE  /\ e = job[w].ev /\ c = job[w].chat /\ e \in Ids /\ c \in Chats
           /\ \A i \in job[w].items : i.ev # e \/ i.chat # c
           /\ Engaged(w, e, c) /\ (Claims(w, e, c) <=> ~Unmarked(w)) /\ Touches(w, e, c)
<1>1. e = job[w].ev /\ c = job[w].chat /\ job[w].pc \in {"send", "mark"}
  BY DEF Holds, Delivering
<1>2. JobOk(w, job[w], Ids)
  BY DEF Typed, JobsTyped
<1>3. e \in Ids /\ c \in Chats /\ \A i \in job[w].items : i.ev # e \/ i.chat # c
  BY <1>1, <1>2 DEF JobOk
<1> QED BY <1>1, <1>3 DEF Engaged, Claims, Touches

LEMMA ReturnedEngaged ==
    ASSUME Typed, NEW w \in Workers, Returned(w), NEW e, NEW c
    PROVE  IF Holds(w, e, c)
           THEN ~Engaged(w, e, c)' /\ ~Claims(w, e, c)' /\ ~Touches(w, e, c)'
           ELSE /\ Engaged(w, e, c)' <=> Engaged(w, e, c)
                /\ Claims(w, e, c)' <=> Claims(w, e, c)
                /\ Touches(w, e, c)' <=> Touches(w, e, c)
<1>1. /\ Delivering(w) /\ job'[w].items = job[w].items
      /\ job'[w].pc \in {"retry", "chats"}
  BY DEF Returned
<1>2. ~Holds(w, e, c)' /\ ~Unmarked(w)'
  BY <1>1 DEF Holds, Delivering, Unmarked
<1>3. CASE Holds(w, e, c)
  <2>1. \A i \in job[w].items : i.ev # e \/ i.chat # c
    BY <1>1, <1>3, HoldsIs
  <2> QED BY <1>1, <1>2, <1>3, <2>1 DEF Engaged, Claims, Touches, Queued
<1>4. CASE ~Holds(w, e, c)
  BY <1>1, <1>2, <1>4 DEF Engaged, Claims, Touches, Queued
<1> QED BY <1>3, <1>4

LEMMA MarkedBudget ==
    ASSUME Typed, BudgetInv, NEW w \in Workers, MarkSkipped(w) \/ Mark(w)
    PROVE  BudgetInv'
<1>1. PICK row \in Row : /\ Typed' /\ Returned(w) /\ Writes(w, row) /\ row.status # "none"
                         /\ row.status = "skipped" \/ (Unmarked(w) => row.status = "sent")
  BY MarkSkippedEffect, MarkEffect DEF Unmarked
<1>2. /\ UNCHANGED sends /\ Delivering(w) /\ Others(w) /\ Ids' = Ids
      /\ Unmarked(w) \/ ~Unmarked(w)
      /\ MarkSkipped(w) => job[w].pc = "send"
  BY <1>1 DEF MarkSkipped, Mark, Returned, Ids
<1>3. ASSUME NEW e \in Ids, NEW c \in Chats
      PROVE  /\ Afford(w, e, c)
             /\ Touches(w, e, c)' => Touches(w, e, c) \/ HasRowNext(e, c)
  <2>1. CASE Holds(w, e, c)
    <3>1. /\ e = job[w].ev /\ c = job[w].chat /\ Engaged(w, e, c)
          /\ Claims(w, e, c) <=> ~Unmarked(w)
      BY <1>2, <2>1, HoldsIs
    <3>2. ~Engaged(w, e, c)' /\ ~Claims(w, e, c)' /\ ~Touches(w, e, c)'
      BY <1>1, <2>1, ReturnedEngaged
    <3>3. rows'[e][c] = row
      BY <1>1, <3>1 DEF Writes
    <3>4. Unmarked(w) => ~Live(e, c)'
      BY <1>1, <3>3 DEF Live
    <3>5. Unmarked(w) => ~Open(e, c)'
      BY <1>2, <3>4, OpenStep
    <3>6. heard[e][c] \in Nat /\ doubts[e][c] \in Nat
      BY DEF Typed, SendsTyped
    <3>7. ~Open(e, c)
      BY <1>2, <3>1, OpenStep
    <3> QED BY <1>2, <3>1, <3>2, <3>5, <3>6, <3>7 DEF Afford, Claim, Opening
  <2>2. CASE ~Holds(w, e, c)
    <3>1. e # job[w].ev \/ c # job[w].chat
      BY <1>2, <2>2 DEF Holds
    <3>2. rows'[e][c] = rows[e][c]
      BY <1>1, <3>1 DEF Writes
    <3> QED BY <1>1, <1>2, <2>2, <3>2, ReturnedEngaged, Aside DEF Live
  <2> QED BY <2>1, <2>2
<1>4. RowsKept
  BY <1>1, WritesKeep
<1> QED BY <1>1, <1>2, <1>3, <1>4, BudgetStep

LEMMA MarkFailsBudget ==
    ASSUME Typed, BudgetInv, NEW w \in Workers, MarkFails(w)
    PROVE  BudgetInv'
<1>1. /\ Typed' /\ Returned(w) /\ UNCHANGED <<rows, heard>>
      /\ \A e \in Ids, c \in Chats :
           doubts'[e][c] = IF Unmarked(w) /\ e = job[w].ev /\ c = job[w].chat
                           THEN doubts[e][c] + 1 ELSE doubts[e][c]
  BY MarkFailsEffect
<1>2. Delivering(w) /\ Others(w) /\ Ids' = Ids
  BY <1>1 DEF MarkFails, Returned, Ids
<1>3. ASSUME NEW e \in Ids, NEW c \in Chats
      PROVE  /\ Afford(w, e, c)
             /\ Touches(w, e, c)' => Touches(w, e, c) \/ HasRowNext(e, c)
  <2>0. heard[e][c] \in Nat /\ doubts[e][c] \in Nat
    BY DEF Typed, SendsTyped
  <2>1. CASE Holds(w, e, c)
    <3>1. /\ e = job[w].ev /\ c = job[w].chat /\ Engaged(w, e, c)
          /\ Claims(w, e, c) <=> ~Unmarked(w)
      BY <1>2, <2>1, HoldsIs
    <3>2. ~Engaged(w, e, c)' /\ ~Claims(w, e, c)' /\ ~Touches(w, e, c)'
      BY <1>1, <2>1, ReturnedEngaged
    <3>3. ~Open(e, c)
      BY <1>2, <3>1, OpenStep
    <3>4. doubts'[e][c] = IF Unmarked(w) THEN doubts[e][c] + 1 ELSE doubts[e][c]
      BY <1>1, <3>1
    <3> QED BY <1>1, <2>0, <3>1, <3>2, <3>3, <3>4 DEF Afford, Claim, Opening
  <2>2. CASE ~Holds(w, e, c)
    <3>1. e # job[w].ev \/ c # job[w].chat
      BY <1>2, <2>2 DEF Holds
    <3>2. doubts'[e][c] = doubts[e][c]
      BY <1>1, <3>1
    <3> QED BY <1>1, <1>2, <2>2, <3>2, ReturnedEngaged, Aside DEF Live
  <2> QED BY <2>1, <2>2
<1>4. RowsKept
  BY <1>1 DEF RowsKept, HasRow, HasRowNext
<1> QED BY <1>1, <1>2, <1>3, <1>4, BudgetStep

LEMMA SendMessageBudget ==
    ASSUME Typed, BudgetInv, NEW w \in Workers, NEW outcome \in Outcomes,
           SendMessage(w, outcome)
    PROVE  BudgetInv'
<1>0. Sent(w, outcome)
  BY SendMessageEffect
<1>1. /\ Typed' /\ UNCHANGED rows /\ Others(w) /\ job[w].pc = "send"
      /\ job'[w] = [job[w] EXCEPT !.pc = "mark", !.outcome = outcome]
  BY SendMessageEffect
<1>2. Ids' = Ids /\ Delivering(w) /\ ~Unmarked(w)
  BY <1>1 DEF SendMessage, Ids, Delivering, Unmarked
<1>3. job[w] \in JobRec
  BY DEF Typed, JobsTyped
<1>4. /\ job'[w].pc = "mark" /\ job'[w].outcome = outcome /\ job'[w].ev = job[w].ev
      /\ job'[w].chat = job[w].chat /\ job'[w].items = job[w].items
  BY <1>1, <1>3 DEF JobRec
<1>5. ASSUME NEW e \in Ids, NEW c \in Chats
      PROVE  /\ Afford(w, e, c)
             /\ Touches(w, e, c)' => Touches(w, e, c) \/ HasRowNext(e, c)
  <2>0. heard[e][c] \in Nat /\ doubts[e][c] \in Nat
    BY DEF Typed, SendsTyped
  <2>1. /\ Holds(w, e, c)' <=> Holds(w, e, c)
        /\ Queued(w, e, c)' <=> Queued(w, e, c)
        /\ Touches(w, e, c)' <=> Touches(w, e, c)
        /\ Unmarked(w)' <=> outcome = "ok"
    BY <1>2, <1>4 DEF Holds, Queued, Touches, Delivering, Unmarked
  <2>2. Engaged(w, e, c)' <=> Engaged(w, e, c)
    BY <2>1 DEF Engaged
  <2>3. CASE Holds(w, e, c)
    <3>1. /\ e = job[w].ev /\ c = job[w].chat /\ Engaged(w, e, c) /\ Claims(w, e, c)
      BY <1>2, <2>3, HoldsIs
    <3>2. Claims(w, e, c)' <=> outcome # "ok"
      BY <2>1, <2>2, <2>3, <3>1 DEF Claims
    <3>3. ~Open(e, c) /\ ~Open(e, c)'
      BY <1>1, <2>2, <3>1, OpenStep
    <3>4. /\ heard'[e][c] = IF outcome \in {"ok", "unheard"}
                            THEN heard[e][c] + 1 ELSE heard[e][c]
          /\ doubts'[e][c] = IF outcome = "unheard" THEN doubts[e][c] + 1 ELSE doubts[e][c]
      BY <1>0, <3>1 DEF Sent
    <3> QED BY <2>0, <2>1, <3>1, <3>2, <3>3, <3>4 DEF Afford, Claim, Opening
  <2>4. CASE ~Holds(w, e, c)
    <3>1. e # job[w].ev \/ c # job[w].chat
      BY <1>2, <2>4 DEF Holds
    <3>2. doubts'[e][c] = doubts[e][c] /\ heard'[e][c] = heard[e][c]
      BY <1>0, <3>1 DEF Sent
    <3>3. Claims(w, e, c)' <=> Claims(w, e, c)
      BY <2>1, <2>2, <2>4 DEF Claims
    <3>4. Live(e, c)' <=> Live(e, c)
      BY <1>1 DEF Live
    <3> QED BY <1>1, <2>1, <2>2, <3>2, <3>3, <3>4, Aside
  <2> QED BY <2>3, <2>4
<1>6. RowsKept
  BY <1>1 DEF RowsKept, HasRow, HasRowNext
<1> QED BY <1>1, <1>2, <1>5, <1>6, BudgetStep

LEMMA CreateNotificationBudget ==
    ASSUME Typed, BudgetInv, NEW w \in Workers, NEW d \in Chats, CreateNotification(w, d)
    PROVE  BudgetInv'
<1>1. /\ Typed' /\ Others(w) /\ UNCHANGED sends
      /\ job[w].pc = "chats" /\ job[w].ev \in Ids /\ job[w].items = {}
      /\ job'[w].pc \in {"chats", "send"} /\ job'[w].ev = job[w].ev /\ job'[w].items = {}
      /\ \/ HasRow(job[w].ev, d) /\ UNCHANGED rows /\ job'[w].pc = "chats"
         \/ /\ ~HasRow(job[w].ev, d) /\ job'[w].pc = "send" /\ job'[w].chat = d
            /\ rows'[job[w].ev][d].status = "pending"
            /\ \A e \in Ids, c \in Chats :
                 e # job[w].ev \/ c # d => rows'[e][c] = rows[e][c]
  BY CreateNotificationEffect
<1>2. Ids' = Ids /\ ~Delivering(w)
  BY <1>1 DEF CreateNotification, Ids, Delivering
<1>3. CASE HasRow(job[w].ev, d) /\ UNCHANGED rows /\ job'[w].pc = "chats"
  <2>1. \A e \in Ids, c \in Chats : rows'[e][c].status = rows[e][c].status
    BY <1>3
  <2> QED BY <1>1, <1>2, <1>3, <2>1, BudgetFrame
<1>4. CASE /\ ~HasRow(job[w].ev, d) /\ job'[w].pc = "send" /\ job'[w].chat = d
           /\ rows'[job[w].ev][d].status = "pending"
           /\ \A e \in Ids, c \in Chats : e # job[w].ev \/ c # d => rows'[e][c] = rows[e][c]
  <2>1. ASSUME NEW e \in Ids, NEW c \in Chats
        PROVE  /\ Afford(w, e, c)
               /\ Touches(w, e, c)' => Touches(w, e, c) \/ HasRowNext(e, c)
    <3>0. ~Engaged(w, e, c) /\ ~Claims(w, e, c) /\ ~Touches(w, e, c)
      BY <1>1, <1>2, Disengaged
    <3>1. CASE e = job[w].ev /\ c = d
      <4>1. \A v \in Workers : ~Touches(v, e, c)
        BY <1>4, <3>1 DEF BudgetInv, Unclaimed
      <4>2. \A v \in Workers : ~Engaged(v, e, c)
        BY <4>1 DEF Touches, Engaged, Queued
      <4>3. Open(e, c)
        BY <1>4, <3>1, <4>2 DEF Open, HasRow
      <4>4. Engaged(w, e, c)' /\ Claims(w, e, c)'
        BY <1>1, <1>4, <3>1 DEF Engaged, Claims, Holds, Delivering, Unmarked
      <4>5. ~Open(e, c)'
        BY <1>1, <4>4, OpenStep
      <4>6. heard[e][c] \in Nat /\ doubts[e][c] \in Nat
        BY DEF Typed, SendsTyped
      <4>7. HasRowNext(e, c)
        BY <1>4, <3>1 DEF HasRowNext
      <4> QED BY <1>1, <3>0, <4>3, <4>4, <4>5, <4>6, <4>7 DEF Afford, Claim, Opening
    <3>2. CASE ~(e = job[w].ev /\ c = d)
      <4>1. ~Engaged(w, e, c)' /\ ~Claims(w, e, c)' /\ ~Touches(w, e, c)'
        BY <1>1, <1>4, <3>2 DEF Engaged, Claims, Touches, Holds, Queued, Delivering
      <4>2. Live(e, c)' <=> Live(e, c)
        BY <1>4, <3>2 DEF Live
      <4> QED BY <1>1, <3>0, <4>1, <4>2, Aside
    <3> QED BY <3>1, <3>2
  <2>2. RowsKept
    BY <1>4 DEF RowsKept, HasRow, HasRowNext
  <2> QED BY <1>1, <1>2, <2>1, <2>2, BudgetStep
<1> QED BY <1>1, <1>3, <1>4

LEMMA DeliverBudget ==
    ASSUME Typed, BudgetInv, NEW w \in Workers, Deliver(w)
    PROVE  BudgetInv'
BY MarkedBudget, MarkFailsBudget, SendMessageBudget, CreateNotificationBudget DEF Deliver

\* Engaged by an item: busy ones count for nothing.
LEMMA ListingBudget ==
    ASSUME Typed, BudgetInv, NEW r \in Replicas, ListPendingNotifications(r)
    PROVE  BudgetInv'
<1>1. /\ Typed' /\ Others(r) /\ UNCHANGED <<events, rows, esc, heard, doubts>> /\ ~Delivering(r)
      /\ job[r].items = {} /\ job'[r].pc = "retry"
      /\ \A i \in job'[r].items :
           /\ i.ev \in Ids /\ i.chat \in Chats
           /\ rows[i.ev][i.chat].status = "pending"
           /\ i.busy = Busy(r, i.ev, i.chat)
  BY ListPendingNotificationsEffect DEF Retries
<1>2. Ids' = Ids /\ r \in Workers
  BY <1>1, WorkerNames DEF Ids
<1>3. RowsKept
  BY <1>1 DEF RowsKept, HasRow, HasRowNext
<1>4. ASSUME NEW e \in Ids, NEW c \in Chats
      PROVE  /\ Afford(r, e, c)
             /\ Touches(r, e, c)' => Touches(r, e, c) \/ HasRowNext(e, c)
  <2>0. ~Engaged(r, e, c) /\ ~Claims(r, e, c) /\ ~Touches(r, e, c)
    BY <1>1, Disengaged
  <2>1. /\ ~Holds(r, e, c)'
        /\ Touches(r, e, c)' => rows[e][c].status = "pending"
        /\ Engaged(r, e, c)' => Queued(r, e, c)'
        /\ Claims(r, e, c)' <=> Engaged(r, e, c)'
    BY <1>1 DEF Holds, Delivering, Touches, Engaged, Claims
  <2>2. Touches(r, e, c)' => HasRowNext(e, c)
    BY <1>1, <2>1 DEF HasRowNext
  <2>3. CASE ~Queued(r, e, c)'
    <3>1. ~Engaged(r, e, c)' /\ ~Claims(r, e, c)'
      BY <2>1, <2>3
    <3>2. Live(e, c)' <=> Live(e, c)
      BY <1>1 DEF Live
    <3> QED BY <1>1, <1>2, <2>0, <2>2, <3>1, <3>2, Aside
  <2>4. CASE Queued(r, e, c)'
    <3>1. PICK i \in job'[r].items : i.ev = e /\ i.chat = c /\ ~i.busy
      BY <2>4 DEF Queued
    <3>2. rows[e][c].status = "pending" /\ ~Busy(r, e, c)
      BY <1>1, <3>1
    <3>3. \A w \in Workers : w # r => ~Engaged(w, e, c)
      BY <3>2 DEF Busy, Engaged, Queued
    <3>4. Open(e, c)
      BY <2>0, <3>2, <3>3 DEF Open
    <3>5. ~Open(e, c)' /\ Claims(r, e, c)'
      BY <1>1, <1>2, <2>1, <2>4, OpenStep DEF Engaged
    <3>6. heard[e][c] \in Nat /\ doubts[e][c] \in Nat
      BY DEF Typed, SendsTyped
    <3> QED BY <1>1, <2>0, <2>2, <3>4, <3>5, <3>6 DEF Afford, Claim, Opening
  <2> QED BY <2>3, <2>4
<1> QED BY <1>1, <1>2, <1>3, <1>4, BudgetStep

LEMMA RetryNextBudget ==
    ASSUME Typed, BudgetInv, NEW r \in Replicas, NEW i \in job[r].items, RetryNext(r, i)
    PROVE  BudgetInv'
<1>1. /\ Typed' /\ Others(r) /\ UNCHANGED <<events, rows, heard>> /\ ~Delivering(r)
      /\ i.ev \in Ids /\ i.chat \in Chats
      /\ job'[r].pc = "send" /\ job'[r].ev = i.ev /\ job'[r].chat = i.chat
      /\ job'[r].items = job[r].items \ {i}
      /\ \A k \in job[r].items : k # i => k.ev # i.ev \/ k.chat # i.chat
      /\ \A e \in Ids, c \in Chats :
           doubts'[e][c] = IF i.busy /\ e = i.ev /\ c = i.chat
                           THEN doubts[e][c] + 1 ELSE doubts[e][c]
  BY RetryNextEffect DEF Retries
<1>2. Ids' = Ids /\ r \in Workers
  BY <1>1, WorkerNames DEF Ids
<1>3. RowsKept
  BY <1>1 DEF RowsKept, HasRow, HasRowNext
<1>4. ASSUME NEW e \in Ids, NEW c \in Chats
      PROVE  /\ Afford(r, e, c)
             /\ Touches(r, e, c)' => Touches(r, e, c) \/ HasRowNext(e, c)
  <2>0. ~Holds(r, e, c) /\ ~Unmarked(r)'
    BY <1>1 DEF Holds, Unmarked
  <2>1. CASE e = i.ev /\ c = i.chat
    <3>1. Engaged(r, e, c)' /\ Claims(r, e, c)' /\ Touches(r, e, c)
      BY <1>1, <2>0, <2>1 DEF Engaged, Claims, Touches, Holds, Delivering
    <3>2. ~i.busy => Claims(r, e, c) /\ Engaged(r, e, c)
      BY <2>0, <2>1 DEF Claims, Engaged, Queued
    <3>3. ~Open(e, c)'
      BY <1>1, <1>2, <3>1, OpenStep
    <3>4. heard[e][c] \in Nat /\ doubts[e][c] \in Nat
      BY DEF Typed, SendsTyped
    <3>5. i.busy \/ ~i.busy
      OBVIOUS
    <3> QED BY <1>1, <2>1, <3>1, <3>2, <3>3, <3>4, <3>5 DEF Afford, Claim, Opening
  <2>2. CASE ~(e = i.ev /\ c = i.chat)
    <3>1. ~Holds(r, e, c)'
      BY <1>1, <2>2 DEF Holds
    <3>2. /\ Queued(r, e, c)' <=> Queued(r, e, c)
          /\ Touches(r, e, c)' <=> Touches(r, e, c)
      BY <1>1, <2>0, <2>2, <3>1 DEF Queued, Touches
    <3>3. /\ Engaged(r, e, c)' <=> Engaged(r, e, c)
          /\ Claims(r, e, c)' <=> Claims(r, e, c)
      BY <2>0, <3>1, <3>2 DEF Engaged, Claims
    <3>4. Live(e, c)' <=> Live(e, c)
      BY <1>1 DEF Live
    <3>5. doubts'[e][c] = doubts[e][c]
      BY <1>1, <2>2
    <3> QED BY <1>1, <1>2, <3>2, <3>3, <3>4, <3>5, Aside
  <2> QED BY <2>1, <2>2
<1> QED BY <1>1, <1>2, <1>3, <1>4, BudgetStep

LEMMA RetrySkipsBudget ==
    ASSUME Typed, BudgetInv, NEW r \in Replicas, NEW i \in job[r].items, RetrySkips(r, i)
    PROVE  BudgetInv'
<1>1. /\ Typed' /\ Others(r) /\ UNCHANGED <<events, rows, heard, doubts>> /\ ~Delivering(r)
      /\ job'[r].pc = "retry" /\ job'[r].items = job[r].items \ {i}
  BY RetrySkipsEffect DEF Retries
<1>2. Ids' = Ids /\ r \in Workers
  BY <1>1, WorkerNames DEF Ids
<1>3. RowsKept
  BY <1>1 DEF RowsKept, HasRow, HasRowNext
<1>4. ASSUME NEW e \in Ids, NEW c \in Chats
      PROVE  /\ Afford(r, e, c)
             /\ Touches(r, e, c)' => Touches(r, e, c) \/ HasRowNext(e, c)
  <2>1. ~Holds(r, e, c) /\ ~Holds(r, e, c)'
    BY <1>1 DEF Holds, Delivering
  <2>2. /\ Claims(r, e, c) <=> Queued(r, e, c)
        /\ Engaged(r, e, c) <=> Queued(r, e, c)
        /\ Claims(r, e, c)' <=> Queued(r, e, c)'
        /\ Engaged(r, e, c)' <=> Queued(r, e, c)'
    BY <2>1 DEF Claims, Engaged
  <2>3. /\ Queued(r, e, c)' => Queued(r, e, c)
        /\ Touches(r, e, c)' => Touches(r, e, c)
    BY <1>1, <2>1 DEF Queued, Touches
  <2>4. Live(e, c)' <=> Live(e, c)
    BY <1>1 DEF Live
  <2>5. CASE Queued(r, e, c)' <=> Queued(r, e, c)
    BY <1>1, <1>2, <2>2, <2>3, <2>4, <2>5, Aside
  <2>6. CASE Queued(r, e, c) /\ ~Queued(r, e, c)'
    <3>1. heard[e][c] \in Nat /\ doubts[e][c] \in Nat
      BY DEF Typed, SendsTyped
    <3>2. ~Open(e, c) /\ Claims(r, e, c) /\ ~Claims(r, e, c)'
      BY <1>1, <1>2, <2>2, <2>6, OpenStep
    <3> QED BY <1>1, <2>3, <3>1, <3>2 DEF Afford, Claim, Opening
  <2> QED BY <2>3, <2>5, <2>6
<1> QED BY <1>1, <1>2, <1>3, <1>4, BudgetStep

LEMMA ScheduleBudget ==
    ASSUME Typed, BudgetInv, NEW r \in Replicas, Schedules(r)
    PROVE  BudgetInv'
<1>1. CASE Lists(r)
  BY <1>1, ListingBudget, RetryNextBudget, RetrySkipsBudget DEF Lists
<1>2. CASE ~Lists(r)
  <2>1. Typed' /\ Quiet(r)
    BY <1>2, EscalationProcessedEffect DEF Schedules, Skips
  <2>2. /\ Others(r) /\ UNCHANGED <<events, rows, heard, doubts>>
        /\ ~Delivering(r) /\ job[r].items = {}
        /\ job'[r].pc \notin {"send", "mark"} /\ job'[r].items = {}
    BY <2>1 DEF Quiet
  <2>3. Ids' = Ids /\ r \in Workers
    BY <2>2, WorkerNames DEF Ids
  <2> QED BY <2>1, <2>2, <2>3, BudgetFrame
<1> QED BY <1>1, <1>2

LEMMA ConsumerBudget ==
    ASSUME Typed, BudgetInv,
           FetchMessage \/ RouteContextFails \/ CreateFails \/ CommitMessages \/ Inserts
    PROVE  BudgetInv'
<1>0. job[Consumer] \in JobRec /\ JobOk(Consumer, job[Consumer], Ids) /\ Consumer \in Workers
  BY WorkerNames DEF Typed, JobsTyped
<1>1. Typed' /\ UNCHANGED <<events, rows, heard, doubts>>
  BY FetchMessageEffect, RouteContextFailsEffect, CreateFailsEffect, CommitMessagesEffect
     DEF FetchMessage, RouteContextFails, CreateFails, CommitMessages, Inserts, Committing
<1>2. job[Consumer].items = {}
  BY <1>0 DEF JobOk
<1>3. /\ Others(Consumer)
      /\ \/ job'[Consumer] = job[Consumer]
         \/ /\ ~Delivering(Consumer) /\ job'[Consumer].pc \notin {"send", "mark"}
            /\ job'[Consumer].items = {}
  <2>1. CASE FetchMessage
    BY <2>1, FetchMessageEffect, IdleIs DEF Delivering
  <2>2. CASE RouteContextFails
    BY <2>2, RouteContextFailsEffect, NobodyElse
  <2>3. CASE CreateFails
    BY <2>3, CreateFailsEffect, IdleIs DEF Delivering
  <2>4. CASE CommitMessages
    BY <2>4, CommitMessagesEffect, IdleIs DEF Delivering
  <2>5. CASE Inserts
    <3>1. /\ Others(Consumer) /\ job[Consumer].pc = "chats"
          /\ job'[Consumer] = [job[Consumer] EXCEPT !.pc = "commit"]
      BY <2>5 DEF Inserts, Committing
    <3>2. job'[Consumer].pc = "commit" /\ job'[Consumer].items = job[Consumer].items
      BY <1>0, <3>1 DEF JobRec
    <3> QED BY <1>2, <3>1, <3>2 DEF Delivering
  <2> QED BY <2>1, <2>2, <2>3, <2>4, <2>5
<1>4. Ids' = Ids
  BY <1>1 DEF Ids
<1> QED BY <1>0, <1>1, <1>2, <1>3, <1>4, BudgetFrame

LEMMA IdleBudget ==
    ASSUME Typed, Typed', BudgetInv, UNCHANGED <<events, job, heard, doubts>>,
           \A e \in Ids, c \in Chats : rows'[e][c].status = rows[e][c].status
    PROVE  BudgetInv'
<1>1. Others(Consumer) /\ Ids' = Ids
  BY NobodyElse DEF Ids
<1> QED BY <1>1, WorkerNames, BudgetFrame

LEMMA EmittedBudget ==
    ASSUME Typed, BudgetInv, Emitted
    PROVE  BudgetInv'
<1>1. /\ Typed' /\ Newest \notin Ids /\ Ids' = Ids \cup {Newest} /\ UNCHANGED job
      /\ \A e \in Ids : /\ rows'[e] = rows[e] /\ heard'[e] = heard[e]
                        /\ doubts'[e] = doubts[e]
      /\ \A c \in Chats : /\ rows'[Newest][c] = NoRow
                          /\ heard'[Newest][c] = 0 /\ doubts'[Newest][c] = 0
  BY DEF Emitted
<1>2. \A e, c, w : /\ Claims(w, e, c)' <=> Claims(w, e, c)
                   /\ Engaged(w, e, c)' <=> Engaged(w, e, c)
                   /\ Touches(w, e, c)' <=> Touches(w, e, c)
  BY <1>1 DEF Claims, Engaged, Touches, Holds, Delivering, Queued, Unmarked
<1>3. ASSUME NEW e \in Ids, NEW c \in Chats PROVE Budget(e, c)' /\ Unclaimed(e, c)'
  <2>1. Claimants(e, c)' = Claimants(e, c)
    BY <1>2 DEF Claimants
  <2>2. Open(e, c)' <=> Open(e, c)
    BY <1>1, <1>2 DEF Open
  <2>3. Budget(e, c) /\ Unclaimed(e, c)
    BY DEF BudgetInv
  <2> QED BY <1>1, <1>2, <2>1, <2>2, <2>3 DEF Budget, Unclaimed, HasRow
<1>4. ASSUME NEW e \in Ids', e \notin Ids, NEW c \in Chats
      PROVE  Budget(e, c)' /\ Unclaimed(e, c)'
  <2>0. /\ rows'[e][c] = NoRow /\ heard'[e][c] = 0 /\ doubts'[e][c] = 0
    BY <1>1, <1>4
  <2>1. ASSUME NEW w \in Workers PROVE ~Touches(w, e, c)
    <3>1. JobOk(w, job[w], Ids)
      BY DEF Typed, JobsTyped
    <3> QED BY <1>4, <3>1 DEF JobOk, Touches, Holds, Delivering
  <2>2. \A w \in Workers : ~Claims(w, e, c) /\ ~Touches(w, e, c)
    BY <2>1 DEF Touches, Claims, Engaged, Queued
  <2>3. Claimants(e, c)' = {}
    BY <1>2, <2>2 DEF Claimants
  <2>4. Cardinality(Claimants(e, c)') = 0
    BY <2>3, FS_EmptySet
  <2>5. Budget(e, c)'
    BY <2>0, <2>4 DEF Budget
  <2> QED BY <1>2, <2>2, <2>5 DEF Unclaimed
<1> QED BY <1>3, <1>4 DEF BudgetInv

LEMMA CrashedBudget ==
    ASSUME Typed, BudgetInv, NEW r \in Replicas, Crash(r)
    PROVE  BudgetInv'
<1>1. /\ Typed' /\ UNCHANGED <<events, rows, heard>>
      /\ \A w \in Workers : job'[w] = IF w \in Dead(r) THEN Idle ELSE job[w]
      /\ \A e \in Ids, c \in Chats :
           doubts'[e][c] = doubts[e][c] + Cardinality(Interrupted(r, e, c))
  BY CrashEffect
<1>2. Ids' = Ids
  BY <1>1 DEF Ids
<1>3. ASSUME NEW w \in Workers, NEW e, NEW c
      PROVE  IF w \in Dead(r)
             THEN ~Claims(w, e, c)' /\ ~Engaged(w, e, c)' /\ ~Touches(w, e, c)'
             ELSE /\ Claims(w, e, c)' <=> Claims(w, e, c)
                  /\ Engaged(w, e, c)' <=> Engaged(w, e, c)
                  /\ Touches(w, e, c)' <=> Touches(w, e, c)
  <2>1. CASE w \in Dead(r)
    BY <1>1, <2>1, IdleIs, DisengagedNext
  <2>2. CASE w \notin Dead(r)
    <3>1. job'[w] = job[w]
      BY <1>1, <2>2
    <3> QED BY <2>2, <3>1 DEF Claims, Engaged, Touches, Holds, Delivering, Queued, Unmarked
  <2> QED BY <2>1, <2>2
<1>4. ASSUME NEW e \in Ids, NEW c \in Chats PROVE Budget(e, c)'
  <2> DEFINE S == Claimants(e, c)
             T == Claimants(e, c)'
             N == Interrupted(r, e, c)
  <2>1. /\ IsFiniteSet(S) /\ Cardinality(S) \in Nat
        /\ IsFiniteSet(N) /\ Cardinality(N) \in Nat
        /\ Cardinality(T) \in Nat
    BY ClaimantsFinite, InterruptedFinite
  <2>2. heard[e][c] \in Nat /\ doubts[e][c] \in Nat
    BY DEF Typed, SendsTyped
  <2>3. T \subseteq S
    BY <1>3 DEF Claimants
  <2>4. heard[e][c] + Cardinality(S) + Opening(e, c) <= 1 + doubts[e][c]
    BY DEF BudgetInv, Budget, Opening
  <2>5. doubts'[e][c] = doubts[e][c] + Cardinality(N) /\ heard'[e][c] = heard[e][c]
    BY <1>1
  <2> HIDE DEF N
  <2>6. Cardinality(T) <= Cardinality(S)
    BY <2>1, <2>3, FS_Subset
  <2>7. CASE Open(e, c)' /\ ~Open(e, c)
    <3>1. PICK w \in Workers : Engaged(w, e, c)
      BY <1>1, <2>7 DEF Open
    <3>2. w \in Dead(r)
      BY <1>3, <2>7, <3>1 DEF Open
    <3>3. CASE Claims(w, e, c)
      <4>1. w \in S /\ w \notin T
        BY <1>3, <3>2, <3>3 DEF Claimants
      <4>2. T \subseteq S \ {w}
        BY <2>3, <4>1
      <4> HIDE DEF S, T
      <4>3. IsFiniteSet(S \ {w}) /\ Cardinality(S \ {w}) = Cardinality(S) - 1
        BY <2>1, <4>1, FS_RemoveElement
      <4>4. Cardinality(T) <= Cardinality(S) - 1
        BY <4>2, <4>3, FS_Subset
      <4>5. heard'[e][c] + Cardinality(T) + 1 <= 1 + doubts'[e][c]
        BY <2>1, <2>2, <2>4, <2>5, <2>7, <4>4 DEF Opening
      <4> QED BY <2>7, <4>5 DEF Budget, T
    <3>4. CASE ~Claims(w, e, c)
      <4>1. w \in N
        BY <3>1, <3>2, <3>4 DEF Claims, Interrupted, N
      <4>2. Cardinality(N) >= 1
        BY <2>1, <4>1, FS_EmptySet
      <4> HIDE DEF S, T
      <4>3. heard'[e][c] + Cardinality(T) + 1 <= 1 + doubts'[e][c]
        BY <2>1, <2>2, <2>4, <2>5, <2>6, <2>7, <4>2 DEF Opening
      <4> QED BY <2>7, <4>3 DEF Budget, T
    <3> QED BY <3>3, <3>4
  <2>8. CASE ~(Open(e, c)' /\ ~Open(e, c))
    <3> HIDE DEF S, T
    <3>1. heard'[e][c] + Cardinality(T) + (IF Open(e, c)' THEN 1 ELSE 0) <= 1 + doubts'[e][c]
      BY <2>1, <2>2, <2>4, <2>5, <2>6, <2>8 DEF Opening
    <3> QED BY <3>1 DEF Budget, T
  <2> QED BY <2>7, <2>8
<1>5. ASSUME NEW e \in Ids, NEW c \in Chats PROVE Unclaimed(e, c)'
  <2>1. Unclaimed(e, c)
    BY DEF BudgetInv
  <2> QED BY <1>1, <1>3, <2>1 DEF Unclaimed, HasRow
<1> QED BY <1>2, <1>4, <1>5 DEF BudgetInv

LEMMA BudgetInvStep ==
    ASSUME Typed, BudgetInv, [Next]_vars
    PROVE  BudgetInv'
<1>1. CASE Emitted
  BY <1>1, EmittedBudget
<1>2. CASE Elsewhere \/ Times \/ UNCHANGED vars
  BY <1>2, TimesEffect, StutterTyped, IdleBudget DEF Elsewhere
<1>3. CASE FetchMessage \/ RouteContextFails \/ CreateFails \/ CommitMessages \/ Inserts
  BY <1>3, ConsumerBudget
<1>4. ASSUME NEW e \in Ids, Publish(e) PROVE BudgetInv'
  BY <1>4, PublishTyped, IdleBudget DEF PubKeeps
<1>5. ASSUME NEW w \in Workers, Deliver(w) PROVE BudgetInv'
  BY <1>5, DeliverBudget
<1>6. ASSUME NEW r \in Replicas, Schedules(r) \/ Crash(r) PROVE BudgetInv'
  BY <1>6, ScheduleBudget, CrashedBudget
<1> HIDE DEF vars, source, kafka, tables, bounds, sends, fates
<1> QED BY <1>1, <1>2, <1>3, <1>4, <1>5, <1>6, NextKinds

\* However often an event is published, delivered and retried, by however many
\* replicas, a chat hears of it once, and once more for every doubt: a lost answer,
\* a mark that was not written, a retry listed during another delivery
\* (notifier_usecase.go:486, specs/0035:212).
THEOREM Once == Spec => []HeardOnce
<1>1. Init => Typed /\ BudgetInv
  <2>1. Init => Ids = {}
    BY DEF Init, Ids
  <2> QED BY <2>1, InitTyped DEF BudgetInv
<1>2. Typed /\ BudgetInv /\ [Next]_vars => (Typed /\ BudgetInv)'
  BY TypedStep, BudgetInvStep
<1>3. Typed /\ BudgetInv => HeardOnce
  <2> SUFFICES ASSUME Typed, BudgetInv
               PROVE  HeardOnce
    OBVIOUS
  <2>1. ASSUME NEW e \in Ids, NEW c \in Chats PROVE heard[e][c] <= 1 + doubts[e][c]
    <3>1. heard[e][c] \in Nat /\ doubts[e][c] \in Nat
      BY DEF Typed, SendsTyped
    <3>2. heard[e][c] + Cardinality(Claimants(e, c)) + Opening(e, c) <= 1 + doubts[e][c]
      BY DEF BudgetInv, Budget, Opening
    <3>3. Opening(e, c) \in {0, 1}
      BY DEF Opening
    <3> QED BY <3>1, <3>2, <3>3, ClaimantsFinite
  <2>2. DOMAIN heard = Ids
    BY DEF Typed, SendsTyped
  <2> QED BY <2>1, <2>2 DEF HeardOnce
<1> HIDE DEF vars, source, kafka, tables, bounds, sends, fates
<1> QED BY <1>1, <1>2, <1>3, PTL DEF Spec

=============================================================================
