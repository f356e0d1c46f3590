----------------------------- MODULE MCNotifier -----------------------------
(* Notifier with a duty chat and an admin chat.                            *)
EXTENDS Notifier
CONSTANTS duty, chief, r1, r2, t1, t2
MCChats == {duty, chief}
MCThreshold == [c \in MCChats |-> IF c = duty THEN 1 ELSE 3]
Work(n, tags, doomed, states, chats, replicas, most) ==
    [events |-> n, tags |-> tags, doomed |-> doomed, states |-> states, chats |-> chats,
     replicas |-> replicas, faults |-> most]
MCWorkloads ==
    {Work(2, {t1}, {t1}, States, Chats, {}, 1),
     Work(1, {t1}, {}, {"hihi"}, {chief}, {r1}, 2),
     Work(1, {t1}, {t1}, {"hihi"}, {chief}, {r1}, 1),
     Work(1, {t1}, {}, {"hihi"}, {chief}, {r1, r2}, 0),
     Work(2, {t1, t2}, {t1}, {"hihi"}, {chief}, {r2}, 0)}
(* Two tags whose first sends fail, and one scheduler.                     *)
MCTwoTags == {Work(2, {t1, t2}, {t1}, {"comm_loss"}, {duty}, {r1}, 2)}
=============================================================================
