----------------------------- MODULE MCDelivery -----------------------------
(* Delivery with two snapshot goroutines and two timer goroutines.         *)
EXTENDS Delivery
CONSTANTS l1, l2, g1, g2

Work(o, r, f, m, c) ==
    [capacity |-> o, readings |-> r, frames |-> f, others |-> m, closes |-> c]

(* A stream of readings; a tag subscribed and unsubscribed; a connection   *)
(* that is closed; an outbox shared with other messages.                   *)
MCWorkloads ==
    {Work(1, 2, 1, 0, FALSE), Work(1, 1, 2, 0, FALSE), Work(1, 1, 1, 0, TRUE),
     Work(2, 1, 1, 1, FALSE)}
=============================================================================
