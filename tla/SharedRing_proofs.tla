-------------------------- MODULE SharedRing_proofs --------------------------
(***************************************************************************)
(* Proofs about SharedRing: its types on any CPUs, and, when no two CPUs   *)
(* are inside the program at once, that it is a bounded FIFO, for every    *)
(* size of the ring and every width of the heads that the size divides.    *)
(***************************************************************************)
EXTENDS SharedRing, Integers, SequenceTheorems, TLAPS

-----------------------------------------------------------------------------
(* Arithmetic of positions and slots.                                      *)

USE SizeAssumption, WidthAssumption

\* Division with remainder.
LEMMA DivMod ==
  ASSUME NEW n \in Nat \ {0}, NEW a \in Nat
  PROVE  a % n \in 0 .. n - 1 /\ a \div n \in Nat /\ a = n * (a \div n) + (a % n)
OBVIOUS

LEMMA ModOfSum ==
  ASSUME NEW n \in Nat \ {0}, NEW q \in Int, NEW r \in 0 .. n - 1
  PROVE  (n * q + r) % n = r
OBVIOUS

\* Numbers less than n apart leave different remainders.
LEMMA DifferentRemainders ==
  ASSUME NEW n \in Nat \ {0}, NEW a \in Nat, NEW b \in Nat, a < b, b < a + n
  PROVE  a % n # b % n
<1> DEFINE q == a \div n
           k == b \div n
<1> SUFFICES ASSUME a % n = b % n PROVE FALSE
  OBVIOUS
<1>1. a = n * q + (a % n) /\ b = n * k + (a % n) /\ q \in Int /\ k \in Int
      /\ a % n \in Nat
  BY DivMod
<1> HIDE DEF q, k
<1>2. n * k - n * q = n * (k - q) BY <1>1
<1>3. n * (k - q) > 0 /\ n * (k - q) < n BY <1>1, <1>2
<1>4. k - q >= 1 BY <1>1, <1>3
<1>5. n * (k - q) >= n BY <1>1, <1>4
<1> QED BY <1>1, <1>3, <1>5

\* The width is a multiple of the size, so a whole turn of the heads comes
\* back to the same slot.
LEMMA WholeTurn ==
  /\ Size <= Width
  /\ \A a \in Nat : (Width + a) % Size = a % Size
<1> DEFINE k == Width \div Size
<1>1. Width = Size * k /\ k \in Nat BY DivMod
<1> HIDE DEF k
<1>2. k >= 1 BY <1>1
<1>3. Size <= Width BY <1>1, <1>2
<1>4. ASSUME NEW a \in Nat PROVE (Width + a) % Size = a % Size
  <2> DEFINE q == a \div Size
             r == a % Size
  <2>1. a = Size * q + r /\ q \in Nat /\ r \in 0 .. Size - 1 BY DivMod
  <2> HIDE DEF q, r
  <2>2. Width + a = Size * (k + q) + r BY <1>1, <2>1
  <2>3. (Size * (k + q) + r) % Size = r BY <1>1, <2>1, ModOfSum
  <2> QED BY <2>2, <2>3 DEF r
<1> QED BY <1>3, <1>4

LEMMA SuccIs ==
  ASSUME NEW h \in Position
  PROVE  /\ Succ(h) = IF h + 1 = Width THEN 0 ELSE h + 1
         /\ Succ(h) \in Position
BY DEF Succ, Position

\* How many entries wait between two positions.
LEMMA WaitingIs ==
  ASSUME producer_head \in Position, consumer_head \in Position
  PROVE  /\ Waiting = IF consumer_head <= producer_head
                        THEN producer_head - consumer_head
                        ELSE producer_head + Width - consumer_head
         /\ Waiting \in Position
BY DEF Waiting, Position

\* The producer's slot is Waiting slots after the reader's.
LEMMA ProducerSlot ==
  ASSUME producer_head \in Position, consumer_head \in Position, NEW n \in Nat
  PROVE  Masked(producer_head + n) = Masked(consumer_head + Waiting + n)
<1>1. \/ producer_head = consumer_head + Waiting
      \/ consumer_head + Waiting = Width + producer_head
  BY WaitingIs DEF Position
<1>2. producer_head + n \in Nat BY DEF Position
<1>3. (Width + (producer_head + n)) % Size = (producer_head + n) % Size
  BY <1>2, WholeTurn
<1>4. consumer_head + Waiting = Width + producer_head =>
        consumer_head + Waiting + n = Width + (producer_head + n)
  BY WaitingIs DEF Position
<1>5. producer_head = consumer_head + Waiting =>
        producer_head + n = consumer_head + Waiting + n
  BY WaitingIs DEF Position
<1> QED BY <1>1, <1>3, <1>4, <1>5 DEF Masked

LEMMA SuccSlot ==
  ASSUME NEW h \in Position, NEW n \in Nat
  PROVE  Masked(Succ(h) + n) = Masked(h + 1 + n)
<1>1. \/ Succ(h) = h + 1
      \/ h + 1 = Width /\ Succ(h) = 0
  BY SuccIs
<1>2. (Width + n) % Size = n % Size BY WholeTurn
<1>3. Succ(h) = 0 => Succ(h) + n = n OBVIOUS
<1>4. h + 1 = Width => h + 1 + n = Width + n OBVIOUS
<1> QED BY <1>1, <1>2, <1>3, <1>4 DEF Masked

-----------------------------------------------------------------------------
(* Type correctness, on any CPUs.                                          *)

Entry == (Packet \cup {None}) \X (Packet \cup {None})
Place == {"idle", "check", "first", "rest", "publish", "count"}

LEMMA MaskedType == \A h \in Nat : Masked(h) \in Slot
BY DEF Masked, Slot

LEMMA Places ==
  /\ After.first = "rest" /\ After.rest = "publish" /\ After.publish = "count"
BY DEF After

LEMMA InitType == ASSUME Init PROVE TypeOK
<1>1. 0 \in Position BY DEF Position
<1>2. reading \in BOOLEAN BY DEF Init
<1>3. events \in [Slot -> Entry] /\ got \in Entry BY DEF Init, Entry
<1> QED BY <1>1, <1>2, <1>3 DEF Init, TypeOK, Entry

LEMMA NextType == ASSUME TypeOK, [Next]_vars PROVE TypeOK'
<1> USE DEF TypeOK, Goto, ring, local, reader
<1>1. ASSUME NEW c \in Cpu, ReadHead(c) PROVE TypeOK'
  BY <1>1 DEF ReadHead
<1>2. ASSUME NEW c \in Cpu, Accept(c) \/ Refuse(c) PROVE TypeOK'
  BY <1>2 DEF Accept, Refuse
<1>3. ASSUME NEW c \in Cpu, WriteSlot(c) PROVE TypeOK'
  <2>1. Masked(head[c]) \in Slot /\ fast_evt[c] \in Packet \cup {None}
    BY MaskedType DEF Position
  <2>2. events' \in [Slot -> Entry]
    <3> DEFINE s == Masked(head[c])
               p == fast_evt[c]
    <3>1. PICK k \in {1, 2} : events' = [events EXCEPT ![s][k] = p]
      BY <1>3 DEF WriteSlot
    <3>2. events \in [Slot -> Entry] BY DEF Entry
    <3> HIDE DEF s, p
    <3>3. [events[s] EXCEPT ![k] = p] \in Entry
      BY <2>1, <3>2 DEF Entry, s, p
    <3> QED BY <2>1, <3>1, <3>2, <3>3 DEF s
  <2> QED BY <1>3, <2>2, Places DEF WriteSlot, Entry
<1>4. ASSUME NEW c \in Cpu, Publish(c) PROVE TypeOK'
  BY <1>4, SuccIs, Places DEF Publish
<1>5. ASSUME NEW c \in Cpu, Count(c) PROVE TypeOK'
  <2>1. (total[c] + 1) % Width \in Position BY SuccIs DEF Succ
  <2> QED BY <1>5, <2>1 DEF Count
<1>6. ASSUME Copy PROVE TypeOK'
  <2>1. Masked(consumer_head) \in Slot BY MaskedType DEF Position
  <2> QED BY <1>6, <2>1 DEF Copy
<1>7. ASSUME Release PROVE TypeOK'
  BY <1>7, SuccIs DEF Release
<1>8. ASSUME UNCHANGED vars PROVE TypeOK'
  BY <1>8 DEF vars
<1> QED BY <1>1, <1>2, <1>3, <1>4, <1>5, <1>6, <1>7, <1>8
        DEF Next, fast_packet_processor

\* The ring's state is well typed on any CPUs, heads and counters wrapped.
THEOREM TypeCorrect == Spec => []TypeOK
<1>1. Init => TypeOK BY InitType
<1>2. TypeOK /\ [Next]_vars => TypeOK' BY NextType
<1> QED BY <1>1, <1>2, PTL DEF Spec

-----------------------------------------------------------------------------
(* What the heads say is unread.                                           *)

Heads == producer_head \in Position /\ consumer_head \in Position

\* The check of the program, when head is the producer's head: there is room
\* unless all slots but one wait.
LEMMA RoomMeans ==
  ASSUME Heads, Waiting < Size
  PROVE  HasRoom(producer_head) <=> Waiting + 1 < Size
<1> USE DEF Heads
<1>1. Waiting \in Nat /\ consumer_head \in Nat /\ producer_head \in Nat
  BY WaitingIs DEF Position
<1>2. Masked(Succ(producer_head)) = Masked(producer_head + 1)
  <2>1. Masked(Succ(producer_head) + 0) = Masked(producer_head + 1 + 0)
    BY SuccSlot
  <2> QED BY <2>1, <1>1, SuccIs DEF Position
<1>3. Masked(producer_head + 1) = Masked(consumer_head + Waiting + 1)
  BY ProducerSlot
<1>4. CASE Waiting + 1 < Size
  <2>1. Masked(consumer_head) # Masked(consumer_head + Waiting + 1)
    <3> DEFINE a == consumer_head
               b == consumer_head + Waiting + 1
    <3>1. a \in Nat /\ b \in Nat /\ a < b /\ b < a + Size BY <1>1, <1>4
    <3> HIDE DEF a, b
    <3>2. a % Size # b % Size BY <3>1, DifferentRemainders
    <3> QED BY <3>2 DEF Masked, a, b
  <2> QED BY <1>2, <1>3, <1>4, <2>1 DEF HasRoom
<1>5. CASE Waiting + 1 = Size
  <2> DEFINE q == consumer_head \div Size
             r == consumer_head % Size
  <2>1. consumer_head = Size * q + r /\ q \in Nat /\ r \in 0 .. Size - 1
    BY <1>1, DivMod
  <2> HIDE DEF q, r
  <2>2. consumer_head + Waiting + 1 = Size * (q + 1) + r
    BY <1>1, <1>5, <2>1
  <2>3. (Size * (q + 1) + r) % Size = r
    <3> DEFINE k == q + 1
    <3>1. k \in Int BY <2>1
    <3> HIDE DEF k
    <3>2. (Size * k + r) % Size = r BY <2>1, <3>1, ModOfSum
    <3> QED BY <3>2 DEF k
  <2>4. Masked(consumer_head + Waiting + 1) = Masked(consumer_head)
    BY <2>2, <2>3 DEF Masked, r
  <2> QED BY <1>2, <1>3, <1>5, <2>4 DEF HasRoom
<1> QED BY <1>1, <1>4, <1>5

LEMMA PublishedWaiting ==
  ASSUME Heads, Waiting + 1 < Size, consumer_head' = consumer_head,
         producer_head' = Succ(producer_head)
  PROVE  Waiting' = Waiting + 1 /\ Heads'
<1>1. Heads' BY SuccIs DEF Heads
<1>2. Waiting' = IF consumer_head' <= producer_head'
                   THEN producer_head' - consumer_head'
                   ELSE producer_head' + Width - consumer_head'
  BY <1>1, WaitingIs DEF Heads, Waiting, Position
<1>3. Size <= Width BY WholeTurn
<1> QED BY <1>1, <1>2, <1>3, WaitingIs, SuccIs DEF Heads, Position

LEMMA ReleasedWaiting ==
  ASSUME Heads, Waiting > 0, producer_head' = producer_head,
         consumer_head' = Succ(consumer_head)
  PROVE  Waiting' = Waiting - 1 /\ Heads'
<1>1. Heads' BY SuccIs DEF Heads
<1>2. Waiting' = IF consumer_head' <= producer_head'
                   THEN producer_head' - consumer_head'
                   ELSE producer_head' + Width - consumer_head'
  BY <1>1, WaitingIs DEF Heads, Waiting, Position
<1> QED BY <1>1, <1>2, WaitingIs, SuccIs DEF Heads, Position

Written == SUBSET Packet

LEMMA UnreadIs ==
  ASSUME Heads, events \in [Slot -> Entry]
  PROVE  /\ Unread \in Seq(Written)
         /\ Len(Unread) = Waiting
         /\ \A i \in 1 .. Waiting :
              Unread[i] = Contents(events[Masked(consumer_head + i - 1)])
<1>1. Waiting \in Nat /\ consumer_head \in Nat
  BY WaitingIs DEF Heads, Position
<1>2. \A e \in Entry : Contents(e) \in Written
  BY DEF Entry, Contents, Written
<1>3. ASSUME NEW i \in 1 .. Waiting
      PROVE  Contents(events[Masked(consumer_head + i - 1)]) \in Written
  BY <1>1, <1>2, MaskedType
<1> QED BY <1>1, <1>3 DEF Unread

\* A store to the producer's slot is not seen while that slot is free.
LEMMA FreeSlotUnseen ==
  ASSUME Heads, events \in [Slot -> Entry], events' \in [Slot -> Entry],
         Waiting < Size, UNCHANGED <<producer_head, consumer_head>>,
         \A r \in Slot : r # Masked(producer_head) => events'[r] = events[r]
  PROVE  Unread' = Unread /\ Waiting' = Waiting
<1>1. Waiting \in Nat /\ consumer_head \in Nat /\ producer_head \in Nat
  BY WaitingIs DEF Heads, Position
<1>2. Waiting' = Waiting /\ Heads' BY DEF Waiting, Heads
<1>3. ASSUME NEW i \in 1 .. Waiting
      PROVE  Masked(consumer_head + i - 1) # Masked(producer_head)
  <2> DEFINE a == consumer_head + i - 1
             b == consumer_head + Waiting
  <2>1. a \in Nat /\ b \in Nat /\ a < b /\ b < a + Size BY <1>1, <1>3
  <2>2. b + 0 = b /\ producer_head + 0 = producer_head BY <1>1
  <2>3. Masked(producer_head + 0) = Masked(b + 0) BY ProducerSlot DEF Heads
  <2> HIDE DEF a, b
  <2>4. a % Size # b % Size BY <2>1, DifferentRemainders
  <2> QED BY <2>2, <2>3, <2>4 DEF Masked, a
<1>4. ASSUME NEW i \in 1 .. Waiting
      PROVE  events'[Masked(consumer_head + i - 1)]
               = events[Masked(consumer_head + i - 1)]
  <2>1. Masked(consumer_head + i - 1) \in Slot BY <1>1, MaskedType
  <2> QED BY <2>1, <1>3
<1> QED BY <1>2, <1>4 DEF Unread

\* Moving the head adds the producer's slot at the end of what is unread.
LEMMA PublishAppends ==
  ASSUME Heads, events \in [Slot -> Entry], Waiting + 1 < Size,
         UNCHANGED <<consumer_head, events>>,
         producer_head' = Succ(producer_head)
  PROVE  Unread' = Append(Unread, Contents(events[Masked(producer_head)]))
<1> DEFINE e == Contents(events[Masked(producer_head)])
<1>1. Waiting \in Nat /\ consumer_head \in Nat /\ producer_head \in Nat
  BY WaitingIs DEF Heads, Position
<1>2. Waiting' = Waiting + 1 /\ Heads' BY PublishedWaiting
<1>3. e \in Written
  BY <1>1, MaskedType DEF Entry, Contents, Written
<1>4. /\ Unread \in Seq(Written) /\ Len(Unread) = Waiting
      /\ \A i \in 1 .. Waiting :
           Unread[i] = Contents(events[Masked(consumer_head + i - 1)])
  BY UnreadIs
<1>5. Unread' = [i \in 1 .. Waiting + 1 |->
                   Contents(events[Masked(consumer_head + i - 1)])]
  BY <1>2 DEF Unread
<1>6. Contents(events[Masked(consumer_head + (Waiting + 1) - 1)]) = e
  <2>1. Masked(producer_head + 0) = Masked(consumer_head + Waiting + 0)
    BY ProducerSlot DEF Heads
  <2>2. /\ producer_head + 0 = producer_head
        /\ consumer_head + Waiting + 0 = consumer_head + (Waiting + 1) - 1
    BY <1>1
  <2> QED BY <2>1, <2>2
<1> HIDE DEF e
<1>7. ASSUME NEW i \in 1 .. Waiting + 1
      PROVE  Unread'[i] = IF i = Waiting + 1 THEN e ELSE Unread[i]
  BY <1>1, <1>4, <1>5, <1>6
<1>8. /\ Append(Unread, e) \in Seq(Written)
      /\ Len(Append(Unread, e)) = Waiting + 1
      /\ \A i \in 1 .. Waiting : Append(Unread, e)[i] = Unread[i]
      /\ Append(Unread, e)[Waiting + 1] = e
  BY <1>3, <1>4, AppendProperties
<1>9. Unread' \in Seq(Written) /\ Len(Unread') = Waiting + 1
  <2>1. \A i \in 1 .. Waiting + 1 : Unread'[i] \in Written
    BY <1>1, <1>3, <1>4, <1>7, ElementOfSeq
  <2> QED BY <1>1, <1>5, <2>1
<1>10. \A i \in 1 .. Waiting + 1 : Unread'[i] = Append(Unread, e)[i]
  BY <1>1, <1>7, <1>8
<1>11. Unread' = Append(Unread, e) BY <1>8, <1>9, <1>10, SeqEqual
<1> QED BY <1>11 DEF e

\* Moving the reader's head drops the first of what is unread.
LEMMA ReleaseDrops ==
  ASSUME Heads, events \in [Slot -> Entry], Waiting > 0,
         UNCHANGED <<producer_head, events>>,
         consumer_head' = Succ(consumer_head)
  PROVE  Unread # <<>> /\ Unread' = Tail(Unread)
<1>1. Waiting \in Nat /\ consumer_head \in Nat
  BY WaitingIs DEF Heads, Position
<1>2. Waiting' = Waiting - 1 /\ Heads' BY ReleasedWaiting
<1>3. /\ Unread \in Seq(Written) /\ Len(Unread) = Waiting
      /\ \A i \in 1 .. Waiting :
           Unread[i] = Contents(events[Masked(consumer_head + i - 1)])
  BY UnreadIs
<1>4. Unread # <<>> BY <1>3
<1>5. Unread' = [i \in 1 .. Waiting - 1 |->
                   Contents(events[Masked(Succ(consumer_head) + i - 1)])]
  BY <1>2 DEF Unread
<1>6. ASSUME NEW i \in 1 .. Waiting - 1 PROVE Unread'[i] = Unread[i + 1]
  <2> DEFINE n == i - 1
  <2>1. n \in Nat /\ Succ(consumer_head) + i - 1 = Succ(consumer_head) + n
        /\ consumer_head + (i + 1) - 1 = consumer_head + 1 + n
    BY <1>1, SuccIs DEF Heads, Position
  <2>2. Masked(Succ(consumer_head) + n) = Masked(consumer_head + 1 + n)
    BY <2>1, SuccSlot DEF Heads
  <2>3. i + 1 \in 1 .. Waiting BY <1>1
  <2> QED BY <1>3, <1>5, <2>1, <2>2, <2>3
<1>7. /\ Tail(Unread) \in Seq(Written) /\ Len(Tail(Unread)) = Waiting - 1
      /\ \A i \in 1 .. Waiting - 1 : Tail(Unread)[i] = Unread[i + 1]
  BY <1>3, <1>4, HeadTailProperties
<1>8. Unread' \in Seq(Written) /\ Len(Unread') = Waiting - 1
  <2>1. \A i \in 1 .. Waiting - 1 : i + 1 \in 1 .. Waiting BY <1>1
  <2>2. \A i \in 1 .. Waiting - 1 : Unread'[i] \in Written
    BY <1>3, <1>6, <2>1, ElementOfSeq
  <2> QED BY <1>1, <1>5, <2>2
<1>9. Unread' = Tail(Unread) BY <1>6, <1>7, <1>8, SeqEqual
<1> QED BY <1>4, <1>9

-----------------------------------------------------------------------------
(* One CPU at a time: the head it read is the head there is.               *)

Working(c) == pc[c] \in {"check", "first", "rest", "publish"}
Placing(c) == pc[c] \in {"first", "rest", "publish"}

\* What one CPU, or a lock around the program, would ensure: no CPU has read the
\* head while another is between reading it and moving it.
Alone == \A c, d \in Cpu : Working(c) /\ Working(d) => c = d

Producer(c) ==
  /\ Working(c) => head[c] = producer_head /\ fast_evt[c] \in Packet
  /\ Placing(c) => Waiting + 1 < Size
  /\ pc[c] \in {"rest", "publish"} =>
       events[Masked(producer_head)][1] = fast_evt[c]
  /\ pc[c] = "publish" => events[Masked(producer_head)][2] = fast_evt[c]

\* The inductive invariant.  The reader can only make room, so what the check
\* found stays true until the head moves.
IInv ==
  /\ TypeOK
  /\ Waiting < Size
  /\ reading => Waiting > 0
  /\ \A c \in Cpu : Producer(c)

LEMMA TypeFacts ==
  ASSUME TypeOK
  PROVE  Heads /\ events \in [Slot -> Entry] /\ Waiting \in Nat
         /\ Masked(producer_head) \in Slot /\ Masked(consumer_head) \in Slot
<1>1. Heads /\ events \in [Slot -> Entry] BY DEF TypeOK, Heads, Entry
<1>2. Waiting \in Nat BY <1>1, WaitingIs DEF Heads, Position
<1>3. producer_head \in Nat /\ consumer_head \in Nat
  BY <1>1 DEF Heads, Position
<1> QED BY <1>1, <1>2, <1>3, MaskedType

LEMMA InitInv == ASSUME Init PROVE IInv
<1>1. TypeOK BY InitType
<1>2. Waiting = 0 BY <1>1, WaitingIs DEF Init, TypeOK
<1> QED BY <1>1, <1>2 DEF Init, IInv, Producer, Working, Placing

\* Steps of the program that leave the heads and the slots alone.
LEMMA QuietInv ==
  ASSUME IInv, NEW c \in Cpu,
         ReadHead(c) \/ Accept(c) \/ Refuse(c) \/ Count(c)
  PROVE  IInv'
<1>1. TypeOK' BY NextType DEF IInv, Next, fast_packet_processor
<1>2. UNCHANGED <<ring, reader>> /\ Waiting' = Waiting
  BY DEF ReadHead, Accept, Refuse, Count, ring, reader, Waiting
<1>3. ASSUME NEW d \in Cpu PROVE Producer(d)'
  <2> USE <1>2 DEF IInv, TypeOK, Producer, Working, Placing, Goto, ring, reader
  <2>1. CASE ReadHead(c) BY <2>1 DEF ReadHead
  <2>2. CASE Accept(c)
    <3>1. HasRoom(producer_head) <=> Waiting + 1 < Size
      BY TypeFacts, RoomMeans
    <3> QED BY <2>2, <3>1 DEF Accept
  <2>3. CASE Refuse(c) BY <2>3 DEF Refuse
  <2>4. CASE Count(c) BY <2>4 DEF Count
  <2> QED BY <2>1, <2>2, <2>3, <2>4
<1> QED BY <1>1, <1>2, <1>3 DEF IInv, reader

\* A store into the slot, by the one CPU that works.
LEMMA WriteSlotInv ==
  ASSUME IInv, Alone, NEW c \in Cpu, WriteSlot(c)
  PROVE  IInv' /\ Unread' = Unread /\ Waiting' = Waiting
<1>1. TypeOK' BY NextType DEF IInv, Next, fast_packet_processor
<1>2. PICK k \in {1, 2} :
        /\ events' = [events EXCEPT ![Masked(producer_head)][k] = fast_evt[c]]
        /\ k = 1 => pc[c] = "first" /\ pc' = [pc EXCEPT ![c] = "rest"]
        /\ k = 2 => pc[c] = "rest" /\ pc' = [pc EXCEPT ![c] = "publish"]
  BY Places DEF WriteSlot, Goto, IInv, Producer, Working
<1>3. /\ events' \in [Slot -> Entry]
      /\ \A r \in Slot : r # Masked(producer_head) => events'[r] = events[r]
      /\ events'[Masked(producer_head)][k] = fast_evt[c]
      /\ \A j \in {1, 2} : j # k =>
           events'[Masked(producer_head)][j] = events[Masked(producer_head)][j]
  <2>1. fast_evt[c] \in Packet \cup {None} BY DEF IInv, TypeOK
  <2>2. events \in [Slot -> Entry] /\ Masked(producer_head) \in Slot
    BY TypeFacts DEF IInv
  <2> DEFINE s == Masked(producer_head)
             e == fast_evt[c]
  <2>3. s \in Slot /\ e \in Packet \cup {None}
        /\ events' = [events EXCEPT ![s][k] = e]
    BY <1>2, <2>1, <2>2
  <2> HIDE DEF s, e
  <2>4. /\ events' \in [Slot -> Entry]
        /\ \A r \in Slot : r # s => events'[r] = events[r]
        /\ events'[s][k] = e
        /\ \A j \in {1, 2} : j # k => events'[s][j] = events[s][j]
    <3>1. events[s] \in Entry /\ events'[s] = [events[s] EXCEPT ![k] = e]
          /\ \A r \in Slot : r # s => events'[r] = events[r]
      BY <2>2, <2>3
    <3>2. /\ [events[s] EXCEPT ![k] = e] \in Entry
          /\ [events[s] EXCEPT ![k] = e][k] = e
          /\ \A j \in {1, 2} : j # k =>
               [events[s] EXCEPT ![k] = e][j] = events[s][j]
      BY <2>3, <3>1 DEF Entry
    <3>3. events' \in [Slot -> Entry]
      BY <1>1 DEF TypeOK, Entry
    <3> QED BY <3>1, <3>2, <3>3
  <2> QED BY <2>4 DEF s, e
<1>4. UNCHANGED <<producer_head, consumer_head, head, fast_evt, reading>>
  BY DEF WriteSlot, reader
<1>5. Unread' = Unread /\ Waiting' = Waiting
  BY <1>3, <1>4, TypeFacts, FreeSlotUnseen DEF IInv
<1>6. ASSUME NEW d \in Cpu PROVE Producer(d)'
  <2>1. Masked(producer_head)' = Masked(producer_head) BY <1>4 DEF Masked
  <2>2. CASE d = c
    BY <1>2, <1>3, <1>4, <1>5, <2>1, <2>2
       DEF IInv, TypeOK, Producer, Working, Placing
  <2>3. CASE d # c
    <3>1. ~Working(d) BY <1>2, <2>3 DEF Alone, Working
    <3>2. pc'[d] = pc[d] BY <1>2, <2>3 DEF IInv, TypeOK
    <3> QED BY <3>1, <3>2 DEF Producer, Working, Placing
  <2> QED BY <2>2, <2>3
<1> QED BY <1>1, <1>4, <1>5, <1>6 DEF IInv

LEMMA PublishInv ==
  ASSUME IInv, Alone, NEW c \in Cpu, Publish(c)
  PROVE  /\ IInv' /\ Waiting' = Waiting + 1 /\ Waiting + 1 < Size
         /\ fast_evt[c] \in Packet
         /\ Unread' = Append(Unread, {fast_evt[c]})
<1>1. TypeOK' BY NextType DEF IInv, Next, fast_packet_processor
<1>2. /\ pc[c] = "publish" /\ pc' = [pc EXCEPT ![c] = "count"]
      /\ producer_head' = Succ(producer_head) /\ Waiting + 1 < Size
      /\ fast_evt[c] \in Packet
      /\ UNCHANGED <<consumer_head, events, reading>>
  BY Places DEF Publish, Goto, IInv, Producer, Working, Placing, reader
<1>3. Waiting' = Waiting + 1 BY <1>2, TypeFacts, PublishedWaiting DEF IInv
<1>4. Contents(events[Masked(producer_head)]) = {fast_evt[c]}
  BY <1>2, PacketAssumption DEF IInv, Producer, Contents
<1>5. Unread' = Append(Unread, {fast_evt[c]})
  BY <1>2, <1>4, TypeFacts, PublishAppends DEF IInv
<1>6. ASSUME NEW d \in Cpu PROVE Producer(d)'
  <2>1. CASE d = c
    <3>1. pc'[d] = "count" BY <1>2, <2>1 DEF IInv, TypeOK
    <3> QED BY <3>1 DEF Producer, Working, Placing
  <2>2. CASE d # c
    <3>1. ~Working(d) BY <1>2, <2>2 DEF Alone, Working
    <3>2. pc'[d] = pc[d] BY <1>2, <2>2
    <3> QED BY <3>1, <3>2 DEF Producer, Working, Placing
  <2> QED BY <2>1, <2>2
<1>7. Waiting \in Nat BY TypeFacts DEF IInv
<1> QED BY <1>1, <1>2, <1>3, <1>5, <1>6, <1>7 DEF IInv

LEMMA CopyInv ==
  ASSUME IInv, Copy
  PROVE  /\ IInv' /\ Unread' = Unread /\ Waiting' = Waiting /\ Unread # <<>>
         /\ Contents(got') = Head(Unread)
<1>1. TypeOK' BY NextType DEF IInv, Next
<1>2. UNCHANGED <<ring, local>> /\ Waiting' = Waiting /\ Unread' = Unread
  BY DEF Copy, ring, Waiting, Unread
<1>3. Waiting > 0 BY TypeFacts, WaitingIs DEF Copy, IInv, Heads, Position
<1>4. /\ Unread \in Seq(Written) /\ Len(Unread) = Waiting
      /\ Unread[1] = Contents(events[Masked(consumer_head + 1 - 1)])
  BY <1>3, TypeFacts, UnreadIs DEF IInv
<1>5. consumer_head + 1 - 1 = consumer_head
  BY TypeFacts DEF IInv, Heads, Position
<1>6. Contents(got') = Head(Unread) BY <1>4, <1>5, <1>3 DEF Copy
<1>7. \A d \in Cpu : Producer(d)'
  BY <1>2 DEF IInv, Producer, Working, Placing, ring, local
<1> QED BY <1>1, <1>2, <1>3, <1>4, <1>6, <1>7 DEF IInv

LEMMA ReleaseInv ==
  ASSUME IInv, Release
  PROVE  /\ IInv' /\ Waiting' = Waiting - 1 /\ Waiting > 0
         /\ Unread # <<>> /\ Unread' = Tail(Unread)
<1>1. TypeOK' BY NextType DEF IInv, Next
<1>2. /\ Waiting > 0 /\ ~reading' /\ UNCHANGED <<producer_head, events, local>>
      /\ consumer_head' = Succ(consumer_head)
  BY DEF IInv, Release
<1>3. Waiting' = Waiting - 1 /\ Waiting \in Nat
  BY <1>2, TypeFacts, ReleasedWaiting DEF IInv
<1>4. Unread # <<>> /\ Unread' = Tail(Unread)
  BY <1>2, TypeFacts, ReleaseDrops DEF IInv
<1>5. \A d \in Cpu : Producer(d)'
  BY <1>2, <1>3 DEF IInv, Producer, Working, Placing, local
<1> QED BY <1>1, <1>2, <1>3, <1>4, <1>5 DEF IInv

LEMMA StutterInv ==
  ASSUME IInv, UNCHANGED vars
  PROVE  IInv'
BY DEF IInv, TypeOK, Waiting, Producer, Working, Placing, vars, ring, local, reader

LEMMA Inductive == ASSUME Alone, IInv, [Next]_vars PROVE IInv'
<1>1. ASSUME NEW c \in Cpu, fast_packet_processor(c) PROVE IInv'
  BY <1>1, QuietInv, WriteSlotInv, PublishInv DEF fast_packet_processor
<1> QED BY <1>1, CopyInv, ReleaseInv, StutterInv DEF Next

LEMMA Invariance == Spec /\ []Alone => []IInv
<1>1. Init => IInv BY InitInv
<1>2. Alone /\ IInv /\ [Next]_vars => IInv' BY Inductive
<1> QED BY <1>1, <1>2, PTL DEF Spec

-----------------------------------------------------------------------------
(* The ring of one CPU at a time is a bounded FIFO.                        *)

Queue == IF reading THEN Tail(Unread) ELSE Unread

\* An appended entry goes behind those that stay when the first is taken off.
LEMMA TailOfAppend ==
  ASSUME NEW S, NEW q \in Seq(S), NEW e \in S, q # <<>>
  PROVE  Tail(Append(q, e)) = Append(Tail(q), e)
<1>1. /\ Append(q, e) \in Seq(S) /\ Append(q, e) # <<>>
      /\ Len(Append(q, e)) = Len(q) + 1
      /\ \A i \in 1 .. Len(q) : Append(q, e)[i] = q[i]
      /\ Append(q, e)[Len(q) + 1] = e
  BY AppendProperties
<1>2. /\ Tail(Append(q, e)) \in Seq(S) /\ Len(Tail(Append(q, e))) = Len(q)
      /\ \A i \in 1 .. Len(q) : Tail(Append(q, e))[i] = Append(q, e)[i + 1]
  BY <1>1, HeadTailProperties
<1>3. /\ Tail(q) \in Seq(S) /\ Len(Tail(q)) = Len(q) - 1
      /\ \A i \in 1 .. Len(q) - 1 : Tail(q)[i] = q[i + 1]
      /\ Len(q) \in Nat /\ Len(q) > 0
  BY HeadTailProperties
<1>4. /\ Append(Tail(q), e) \in Seq(S) /\ Len(Append(Tail(q), e)) = Len(q)
      /\ \A i \in 1 .. Len(q) - 1 : Append(Tail(q), e)[i] = Tail(q)[i]
      /\ Append(Tail(q), e)[Len(q)] = e
  BY <1>3, AppendProperties
<1>5. ASSUME NEW i \in 1 .. Len(q)
      PROVE  Tail(Append(q, e))[i] = Append(Tail(q), e)[i]
  <2>1. CASE i = Len(q) BY <1>1, <1>2, <1>4, <2>1
  <2>2. CASE i # Len(q)
    <3>1. Len(q) \in Nat BY <1>3
    <3>2. i \in 1 .. Len(q) - 1 /\ i + 1 \in 1 .. Len(q) BY <2>2, <3>1
    <3> QED BY <3>2, <1>1, <1>2, <1>3, <1>4
  <2> QED BY <2>1, <2>2
<1> QED BY <1>2, <1>4, <1>5, SeqEqual

LEMMA QueueFacts ==
  ASSUME IInv
  PROVE  /\ Unread \in Seq(Written) /\ Len(Unread) = Waiting /\ Waiting \in Nat
         /\ reading => Unread # <<>>
         /\ Queue \in Seq(Written)
         /\ Len(Queue) = Waiting - (IF reading THEN 1 ELSE 0)
<1>1. Unread \in Seq(Written) /\ Len(Unread) = Waiting /\ Waiting \in Nat
  BY TypeFacts, UnreadIs DEF IInv
<1>2. reading => Unread # <<>> BY <1>1 DEF IInv
<1>3. reading => Tail(Unread) \in Seq(Written) /\ Len(Tail(Unread)) = Waiting - 1
  BY <1>1, <1>2, HeadTailProperties
<1> QED BY <1>1, <1>2, <1>3 DEF Queue

LEMMA InitRefines == ASSUME Init PROVE Fifo!Init
<1>1. IInv BY InitInv
<1>2. Waiting = 0 BY <1>1, WaitingIs DEF Init, IInv, TypeOK
<1>3. Unread = <<>> BY <1>1, <1>2, QueueFacts
<1>4. ~reading /\ Contents(got) = {} BY DEF Init, Contents
<1> QED BY <1>3, <1>4 DEF Fifo!Init

LEMMA PublishPuts ==
  ASSUME Alone, IInv, NEW c \in Cpu, Publish(c)
  PROVE  Fifo!Put
<1>1. /\ Waiting + 1 < Size /\ fast_evt[c] \in Packet
      /\ Unread' = Append(Unread, {fast_evt[c]})
  BY PublishInv
<1>2. reading' = reading /\ got' = got BY DEF Publish, reader
<1>3. {fast_evt[c]} \in Written BY <1>1 DEF Written
<1>4. Queue' = Append(Queue, {fast_evt[c]})
  BY <1>1, <1>2, <1>3, QueueFacts, TailOfAppend DEF Queue
<1>5. Len(Queue) < Size - 1 BY <1>1, QueueFacts
<1> QED BY <1>1, <1>2, <1>4, <1>5 DEF Fifo!Put, Queue, Contents

LEMMA CopyTakes == ASSUME IInv, Copy PROVE Fifo!Take
<1>1. /\ Unread' = Unread /\ Unread # <<>> /\ Contents(got') = Head(Unread)
  BY CopyInv
<1>2. ~reading /\ reading' BY DEF Copy
<1> QED BY <1>1, <1>2 DEF Fifo!Take, Contents

LEMMA ReleaseStutters ==
  ASSUME IInv, Release
  PROVE  Queue' = Queue /\ Contents(got)' = Contents(got)
<1>1. Unread' = Tail(Unread) BY ReleaseInv
<1>2. reading /\ ~reading' /\ got' = got BY DEF Release
<1> QED BY <1>1, <1>2 DEF Queue, Contents

LEMMA QuietStutters ==
  ASSUME UNCHANGED vars \/ \E c \in Cpu :
           ReadHead(c) \/ Accept(c) \/ Refuse(c) \/ Count(c)
  PROVE  Queue' = Queue /\ Contents(got)' = Contents(got)
<1>1. UNCHANGED <<ring, reader>>
  BY DEF ReadHead, Accept, Refuse, Count, vars
<1> QED BY <1>1 DEF Queue, Unread, Waiting, Contents, ring, reader

LEMMA WriteSlotStutters ==
  ASSUME Alone, IInv, NEW c \in Cpu, WriteSlot(c)
  PROVE  Queue' = Queue /\ Contents(got)' = Contents(got)
<1>1. Unread' = Unread BY WriteSlotInv
<1>2. UNCHANGED reader BY DEF WriteSlot
<1> QED BY <1>1, <1>2 DEF Queue, Contents, reader

LEMMA NextRefines ==
  ASSUME Alone, IInv, [Next]_vars
  PROVE  [Fifo!Put \/ Fifo!Take]_<<Queue, Contents(got)>>
<1>1. ASSUME NEW c \in Cpu, fast_packet_processor(c)
      PROVE  [Fifo!Put \/ Fifo!Take]_<<Queue, Contents(got)>>
  BY <1>1, QuietStutters, WriteSlotStutters, PublishPuts
     DEF fast_packet_processor
<1> QED BY <1>1, CopyTakes, ReleaseStutters, QuietStutters DEF Next

\* "Lockless" holds between the reader and the CPUs that run the program one
\* at a time: without an atomic operation they make a FIFO of whole entries of
\* any size and width, for any number of CPUs.  What the program lacks is only
\* what keeps a second CPU out.
THEOREM RingIsFifo == Spec /\ []Alone => ImplementsFifo
<1>1. Init => Fifo!Init BY InitRefines
<1>2. Alone /\ IInv /\ [Next]_vars => [Fifo!Put \/ Fifo!Take]_<<Queue, Contents(got)>>
  BY NextRefines
<1>3. Spec /\ []Alone => []IInv BY Invariance
<1>4. ImplementsFifo <=>
        Fifo!Init /\ [][Fifo!Put \/ Fifo!Take]_<<Queue, Contents(got)>>
  BY DEF ImplementsFifo, Fifo!Spec, Queue
<1> QED BY <1>1, <1>2, <1>3, <1>4, PTL DEF Spec

\* The check turns a packet away only when every place is taken, whatever the
\* reader has done since the head was read.
THEOREM RefusesOnlyWhenFull == Spec /\ []Alone => RefusesOnlyFull
<1>1. ASSUME IInv, NEW c \in Cpu, Refuse(c) PROVE Waiting = Size - 1
  <2>1. head[c] = producer_head BY <1>1 DEF Refuse, Goto, IInv, Producer, Working
  <2>2. ~(Waiting + 1 < Size)
    BY <1>1, <2>1, TypeFacts, RoomMeans DEF Refuse, IInv
  <2> QED BY <1>1, <2>2, TypeFacts DEF IInv
<1>2. IInv => [\A c \in Cpu : Refuse(c) => Waiting = Size - 1]_vars
  BY <1>1
<1>3. Spec /\ []Alone => []IInv BY Invariance
<1> QED BY <1>2, <1>3, PTL DEF RefusesOnlyFull

\* What the reader can see stays as it is until the reader gives it back.
THEOREM PublishedIsStable == Spec /\ []Alone => PublishedStays
<1> DEFINE Stays == \A i \in 1 .. Waiting :
                      consumer_head' = consumer_head =>
                        Waiting' >= i /\ Unread'[i] = Unread[i]
<1>1. ASSUME IInv, Waiting' = Waiting, Unread' = Unread PROVE Stays
  BY <1>1, QueueFacts
<1>2. ASSUME Alone, IInv, NEW c \in Cpu, Publish(c) PROVE Stays
  <2>1. /\ Waiting' = Waiting + 1 /\ fast_evt[c] \in Packet
        /\ Unread' = Append(Unread, {fast_evt[c]})
    BY <1>2, PublishInv
  <2>2. Unread \in Seq(Written) /\ Len(Unread) = Waiting /\ Waiting \in Nat
    BY <1>2, QueueFacts
  <2>3. {fast_evt[c]} \in Written BY <2>1 DEF Written
  <2>4. \A i \in 1 .. Waiting : Unread'[i] = Unread[i]
    BY <2>1, <2>2, <2>3, AppendProperties
  <2> QED BY <2>1, <2>2, <2>4
<1>3. ASSUME IInv, Release PROVE Stays
  <2>1. consumer_head' # consumer_head
    <3>1. Waiting' = Waiting - 1 /\ Waiting \in Nat /\ producer_head' = producer_head
      BY <1>3, ReleaseInv, TypeFacts DEF Release, IInv
    <3> QED BY <3>1 DEF Waiting
  <2> QED BY <2>1
<1>4. ASSUME IInv, UNCHANGED ring PROVE Stays
  <2>1. Waiting' = Waiting /\ Unread' = Unread
    BY <1>4 DEF ring, Waiting, Unread
  <2> QED BY <1>1, <1>4, <2>1
<1>5. ASSUME Alone, IInv, NEW c \in Cpu, fast_packet_processor(c) PROVE Stays
  <2>1. CASE WriteSlot(c) BY <1>1, <1>5, <2>1, WriteSlotInv
  <2>2. CASE Publish(c) BY <1>2, <1>5, <2>2
  <2>3. CASE ReadHead(c) \/ Accept(c) \/ Refuse(c) \/ Count(c)
    <3>1. UNCHANGED ring BY <2>3 DEF ReadHead, Accept, Refuse, Count
    <3> QED BY <1>4, <1>5, <3>1
  <2> QED BY <1>5, <2>1, <2>2, <2>3 DEF fast_packet_processor
<1>6. ASSUME IInv, Copy PROVE Stays
  BY <1>1, <1>6, CopyInv
<1>7. Alone /\ IInv /\ [Next]_vars => [Stays]_vars
  BY <1>3, <1>5, <1>6 DEF Next
<1>8. Spec /\ []Alone => []IInv BY Invariance
<1> QED BY <1>7, <1>8, PTL DEF PublishedStays, Spec

\* One CPU receives the packets.
OneCpu == \A c, d \in Cpu : c = d

\* There nothing has to keep a second CPU out of the program: the ring keeps
\* all three promises as it stands.
THEOREM OneCpuSuffices ==
  ASSUME OneCpu PROVE Spec => ImplementsFifo /\ RefusesOnlyFull /\ PublishedStays
<1>1. Alone BY DEF OneCpu, Alone
<1>2. Spec /\ []Alone => ImplementsFifo BY RingIsFifo
<1>3. Spec /\ []Alone => RefusesOnlyFull BY RefusesOnlyWhenFull
<1>4. Spec /\ []Alone => PublishedStays BY PublishedIsStable
<1> QED BY <1>1, <1>2, <1>3, <1>4, PTL
=============================================================================
