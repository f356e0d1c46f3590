-------------------------- MODULE DurableConsumer --------------------------
(***************************************************************************)
(* What a consumer of a partition promises when some of its messages       *)
(* cannot be read: messages are stored in some order, and nothing stored   *)
(* is lost; acknowledging a message it has stored says that everything     *)
(* before it is stored, back to the last message that cannot be read.      *)
(* Such a message is skipped: acknowledging it lets go of what was         *)
(* still to be stored before it.  Where every message can be read, nothing *)
(* is let go of, and in the end everything is stored.                      *)
(***************************************************************************)
EXTENDS Integers

CONSTANTS
    Last,       \* the last offset of the partition
    Unreadable  \* the offsets of the messages that cannot be read
VARIABLES stored, acknowledged

vars == <<stored, acknowledged>>

Init == stored = {} /\ acknowledged = 0

\* The messages up to o that no unreadable one follows.
SinceSkip(o) == {p \in 1..o : \A q \in p..o : q \notin Unreadable}

Store ==
    /\ stored' \in SUBSET ((1..Last) \ Unreadable)
    /\ stored \subseteq stored'
    /\ stored' # stored
    /\ UNCHANGED acknowledged

Acknowledge ==
    /\ acknowledged' \in stored
    /\ SinceSkip(acknowledged') \subseteq stored
    /\ UNCHANGED stored

Skip ==
    /\ acknowledged' \in Unreadable
    /\ UNCHANGED stored

Next == Store \/ Acknowledge \/ Skip

Spec     == Init /\ [][Next]_vars
FairSpec == Spec /\ WF_vars(Store)

=============================================================================
