----------------------------- MODULE LossyChannel -----------------------------
(***************************************************************************)
(* What the event pipeline promises each CPU, without batches, flushes or  *)
(* a ring: events enter in the order of their timestamps, an event on its  *)
(* way may be lost, and the consumer is given the oldest of those that are *)
(* still on their way, once.                                               *)
(***************************************************************************)
EXTENDS Integers

CONSTANT CPU

VARIABLES sent,     \* CPU -> the timestamp of the last event that entered
          transit,  \* CPU -> the timestamps of the events on their way
          last      \* CPU -> the timestamp of the last event delivered

vars == <<sent, transit, last>>

Init ==
  /\ sent = [c \in CPU |-> 0]
  /\ transit = [c \in CPU |-> {}]
  /\ last = [c \in CPU |-> 0]

Send(c) ==
  /\ sent' = [sent EXCEPT ![c] = @ + 1]
  /\ transit' = [transit EXCEPT ![c] = @ \cup {sent[c] + 1}]
  /\ UNCHANGED last

Lose(c) == \E t \in transit[c] :
  /\ transit' = [transit EXCEPT ![c] = @ \ {t}]
  /\ UNCHANGED <<sent, last>>

Deliver(c) == \E t \in transit[c] :
  /\ \A u \in transit[c] : t <= u
  /\ transit' = [transit EXCEPT ![c] = @ \ {t}]
  /\ last' = [last EXCEPT ![c] = t]
  /\ UNCHANGED sent

Next == \E c \in CPU : Send(c) \/ Lose(c) \/ Deliver(c)

Spec == Init /\ [][Next]_vars
=============================================================================
