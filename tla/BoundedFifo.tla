----------------------------- MODULE BoundedFifo ------------------------------
(***************************************************************************)
(* What a ring between one producer and one reader promises: entries come  *)
(* out whole, once, in the order they went in, and at most Capacity wait.  *)
(***************************************************************************)
EXTENDS Naturals, Sequences

CONSTANTS Packet, Capacity

VARIABLES queue,   \* the entries put in and not taken yet, oldest first
          taken    \* the entry taken last

Init == queue = <<>> /\ taken = {}

Put == /\ Len(queue) < Capacity
       /\ \E p \in Packet : queue' = Append(queue, {p})
       /\ UNCHANGED taken

Take == /\ queue # <<>>
        /\ queue' = Tail(queue) /\ taken' = Head(queue)

Spec == Init /\ [][Put \/ Take]_<<queue, taken>>
=============================================================================
