------------------------------ MODULE SharedRing ------------------------------
(***************************************************************************)
(* The ring in shared memory that fast_packet_processor fills              *)
(* (performance_optimized.bpf.c) and a reader in user space empties.  The  *)
(* program runs on every CPU that receives packets, one packet at a time   *)
(* on each; its loads and stores interleave with those of the others and   *)
(* of the reader.  Frames that are not IPv4 leave by an early return that  *)
(* changes nothing.                                                        *)
(*                                                                         *)
(* A fast_event is 12 bytes, so a slot is written in two stores; a slot is *)
(* the pair of what the two wrote last.                                    *)
(***************************************************************************)
EXTENDS Naturals, Sequences

CONSTANTS
  Cpu,     \* the CPUs that run the program
  Packet,  \* what an event can say
  Size,    \* ring_mask + 1; a power of two in the code, where h & ring_mask is
           \* h % Size.  Nothing in src/ sets ring_mask: the reader must
  Width    \* heads and counters wrap here, 2^64 in the code

ASSUME SizeAssumption  == Size \in Nat \ {0}
ASSUME WidthAssumption == Width \in Nat \ {0} /\ Width % Size = 0

None == "none"
ASSUME PacketAssumption == None \notin Packet

VARIABLES
  producer_head, consumer_head,
  events,        \* slot -> what its two stores left
  pc,            \* CPU -> where its program stands
  head,          \* CPU -> the local variable head
  fast_evt,      \* CPU -> the event it made
  total,         \* CPU -> its total_events
  reading,       \* the reader holds the slot at consumer_head
  got            \* the entry the reader copied last

ring == <<producer_head, consumer_head, events>>
local == <<pc, head, fast_evt>>
reader == <<reading, got>>
vars == <<ring, local, total, reader>>

Slot == 0 .. Size - 1
Position == 0 .. Width - 1

Init ==
  /\ producer_head = 0 /\ consumer_head = 0
  /\ events = [s \in Slot |-> <<None, None>>]
  /\ pc = [c \in Cpu |-> "idle"]
  /\ head = [c \in Cpu |-> 0]
  /\ fast_evt = [c \in Cpu |-> None]
  /\ total = [c \in Cpu |-> 0]
  /\ reading = FALSE /\ got = <<None, None>>

SuccMutant(h) == h + 1
Succ(h) == (h + 1) % Width
Masked(h) == h % Size

-----------------------------------------------------------------------------
(* fast_packet_processor.                                                  *)

Goto(c, from, to) == pc[c] = from /\ pc' = [pc EXCEPT ![c] = to]

\* The order of the stores after the check: the slot, the barrier, the head.
AfterMutant == [first |-> "publish", publish |-> "rest", rest |-> "count"]
After == [first |-> "rest", rest |-> "publish", publish |-> "count"]

\* head = shared->producer_head
ReadHead(c) == \E p \in Packet :
  /\ Goto(c, "idle", "check")
  /\ head' = [head EXCEPT ![c] = producer_head]
  /\ fast_evt' = [fast_evt EXCEPT ![c] = p]
  /\ UNCHANGED <<ring, total, reader>>

HasRoomMutant(h) == Masked(h) # Masked(consumer_head)
HasRoomMutant2(h) == TRUE
HasRoom(h) == Masked(Succ(h)) # Masked(consumer_head)

Accept(c) ==
  /\ HasRoom(head[c]) /\ Goto(c, "check", "first")
  /\ UNCHANGED <<ring, head, fast_evt, total, reader>>

Refuse(c) ==
  /\ ~HasRoom(head[c]) /\ Goto(c, "check", "count")
  /\ UNCHANGED <<ring, head, fast_evt, total, reader>>

\* shared->events[head & ring_mask] = fast_evt
WriteSlot(c) ==
  /\ \/ Goto(c, "first", After.first)
        /\ events' = [events EXCEPT ![Masked(head[c])][1] = fast_evt[c]]
     \/ Goto(c, "rest", After.rest)
        /\ events' = [events EXCEPT ![Masked(head[c])][2] = fast_evt[c]]
  /\ UNCHANGED <<producer_head, consumer_head, head, fast_evt, total, reader>>

\* shared->producer_head = next_head
Publish(c) ==
  /\ Goto(c, "publish", After.publish)
  /\ producer_head' = Succ(head[c])
  /\ UNCHANGED <<consumer_head, events, head, fast_evt, total, reader>>

\* atomic_add_stats(0, 1), for accepted and refused packets alike.
Count(c) ==
  /\ Goto(c, "count", "idle")
  /\ total' = [total EXCEPT ![c] = (@ + 1) % Width]
  /\ UNCHANGED <<ring, head, fast_evt, reader>>

fast_packet_processor(c) ==
  \/ ReadHead(c) \/ Accept(c) \/ Refuse(c) \/ WriteSlot(c) \/ Publish(c)
  \/ Count(c)

-----------------------------------------------------------------------------
(* The reader: it copies the slot at consumer_head and then gives it back. *)

Copy ==
  /\ ~reading /\ consumer_head # producer_head
  /\ got' = events[Masked(consumer_head)]
  /\ reading' = TRUE
  /\ UNCHANGED <<ring, local, total>>

Release ==
  /\ reading /\ reading' = FALSE
  /\ consumer_head' = Succ(consumer_head)
  /\ UNCHANGED <<producer_head, events, local, total, got>>

Next == Copy \/ Release \/ \E c \in Cpu : fast_packet_processor(c)

Spec == Init /\ [][Next]_vars

-----------------------------------------------------------------------------
(* Properties.                                                             *)

\* Type correctness of the whole state.
TypeOK ==
  /\ producer_head \in Position /\ consumer_head \in Position
  /\ events \in [Slot -> (Packet \cup {None}) \X (Packet \cup {None})]
  /\ pc \in [Cpu -> {"idle", "check", "first", "rest", "publish", "count"}]
  /\ head \in [Cpu -> Position]
  /\ fast_evt \in [Cpu -> Packet \cup {None}]
  /\ total \in [Cpu -> Position]
  /\ reading \in BOOLEAN
  /\ got \in (Packet \cup {None}) \X (Packet \cup {None})

\* How many entries the heads say are waiting, the one being read included.
Waiting == (producer_head + Width - consumer_head) % Width

\* The slots from consumer_head to producer_head: what the reader will see.
\* A slot is the set of what its two stores wrote.
Contents(slot) == {slot[1], slot[2]} \ {None}
Unread == [i \in 1 .. Waiting |->
             Contents(events[Masked(consumer_head + i - 1)])]

\* A packet is refused only when the ring is full to its capacity, one less
\* than its slots: the check never turns a packet away that had a place.
RefusesOnlyFull ==
  [][\A c \in Cpu : Refuse(c) => Waiting = Size - 1]_vars

\* The reader gets every accepted packet whole, once and in order, and no
\* more than Size - 1 wait, however its steps fall between the program's and
\* wherever the heads wrap.
Fifo == INSTANCE BoundedFifo WITH
          Capacity <- Size - 1,
          queue <- IF reading THEN Tail(Unread) ELSE Unread,
          taken <- Contents(got)
ImplementsFifo == Fifo!Spec

\* An entry, once it can be seen, stays as it is until it is taken: a slot the
\* reader has not given back is written by nobody, and the head never goes
\* back over one ("lockless data structures").
PublishedStays ==
  [][\A i \in 1 .. Waiting :
       consumer_head' = consumer_head =>
         Waiting' >= i /\ Unread'[i] = Unread[i]]_vars
=============================================================================
