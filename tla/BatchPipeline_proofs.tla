------------------------- MODULE BatchPipeline_proofs -------------------------
(***************************************************************************)
(* BatchPipeline for any set of CPUs, any batch and ring size, any set of  *)
(* attached programs.                                                      *)
(***************************************************************************)
EXTENDS BatchPipeline, SequenceTheorems, FiniteSetTheorems, TLAPS

USE DEF BatchId, IsFull, IsWorthFlushing, AfterFailure, Published, AfterFlush

-----------------------------------------------------------------------------
(* Type correctness.                                                       *)

\* The counters stay functions to the naturals whatever is added.
LEMMA AddStatsType ==
  ASSUME TypeOK, NEW c \in CPU, NEW S, AddStats(c, S)
  PROVE  /\ stats' \in [CPU -> [StatIndex -> Nat]]
         /\ reported' \in [CPU -> [StatIndex -> Nat]]
<1> DEFINE F(f, T) == [f EXCEPT ![c] =
                         [i \in StatIndex |-> IF i \in T THEN @[i] + 1 ELSE @[i]]]
<1>1. ASSUME NEW f \in [CPU -> [StatIndex -> Nat]], NEW T
      PROVE  F(f, T) \in [CPU -> [StatIndex -> Nat]]
  OBVIOUS
<1>2. stats' = F(stats, S \cap CountedIndex) /\ reported' = F(reported, S)
  BY DEF AddStats
<1>3. stats \in [CPU -> [StatIndex -> Nat]] /\ reported \in [CPU -> [StatIndex -> Nat]]
  BY DEF TypeOK
<1> HIDE DEF F
<1> QED BY <1>1, <1>2, <1>3

\* A counter nobody adds to keeps its value, on every CPU.
LEMMA AddStatsKeeps ==
  ASSUME TypeOK, NEW c \in CPU, NEW S, AddStats(c, S), 2 \notin S
  PROVE  /\ \A d \in CPU : stats'[d][2] = stats[d][2]
         /\ \A d \in CPU \ {c} : stats'[d] = stats[d]
<1>1. stats \in [CPU -> [StatIndex -> Nat]] BY DEF TypeOK
<1> DEFINE row == [i \in StatIndex |-> IF i \in S \cap CountedIndex
                                         THEN stats[c][i] + 1 ELSE stats[c][i]]
<1>2. stats' = [stats EXCEPT ![c] = row] BY DEF AddStats
<1>3. row[2] = stats[c][2] BY DEF StatIndex
<1> HIDE DEF row
<1> QED BY <1>1, <1>2, <1>3

\* A packet touches the counters and nothing else the handlers use.
LEMMA PacketAside ==
  ASSUME NEW c \in CPU, fast_packet_processor(c)
  PROVE  /\ UNCHANGED <<batch, dropped, cache, flushed, clock, pc, handler, event, idx>>
         /\ UNCHANGED <<ring, lost, got, seen>>
         /\ AddStats(c, {0}) /\ packets' = [packets EXCEPT ![c] = @ + 1]
BY DEF fast_packet_processor, local

\* An update of process_cache keeps to the processes there are.
LEMMA UpdatedType ==
  ASSUME NEW C \in SUBSET Pid, NEW pid \in Pid
  PROVE  Updated(C, pid) \subseteq SUBSET Pid
BY DEF Updated

LEMMA InitType == ASSUME Init PROVE TypeOK
BY DEF Init, TypeOK, NoEvent, Event, StatIndex

LEMMA TakeType ==
  ASSUME TypeOK, NEW c \in CPU, NEW h \in Adder, Take(c, h)
  PROVE  /\ UNCHANGED <<batch, dropped, flushed, ring, history>>
         /\ clock' \in [CPU -> Nat]
         /\ event' \in [CPU -> Event]
         /\ handler' \in [CPU -> Handler \cup {"none"}]
         /\ idx' \in [CPU -> Nat \ {0}]
         /\ pc' \in [CPU -> {"idle", "reserve", "submit", "store", "stamp"}]
<1>1. Len(batch[c]) \in Nat /\ clock[c] \in Nat BY DEF TypeOK
<1>2. [ts |-> clock[c] + 1, batch_id |-> Len(batch[c])] \in Event
  BY <1>1 DEF Event
<1> QED BY <1>1, <1>2 DEF TypeOK, Take, Handler

LEMMA EnterType ==
  ASSUME TypeOK, NEW c \in CPU, Enter(c)
  PROVE  TypeOK'
<1>1. CASE fast_syscall_enter(c)
  <2>1. PICK pid \in Pid :
          /\ Take(c, "syscall_enter")
          /\ IF pid \in cache[c]
               THEN AddStats(c, {5}) /\ UNCHANGED cache
               ELSE /\ \E C \in Updated(cache[c], pid) :
                         cache' = [cache EXCEPT ![c] = C]
                    /\ AddStats(c, {6})
    BY <1>1 DEF fast_syscall_enter
  <2>2. PICK C \in SUBSET Pid : cache' = [cache EXCEPT ![c] = C]
    <3>1. cache[c] \in SUBSET Pid /\ cache = [cache EXCEPT ![c] = cache[c]]
      BY DEF TypeOK
    <3>2. CASE pid \in cache[c] BY <2>1, <3>1, <3>2
    <3>3. CASE pid \notin cache[c] BY <2>1, <3>1, <3>3, UpdatedType
    <3> QED BY <3>2, <3>3
  <2>3. /\ stats' \in [CPU -> [StatIndex -> Nat]]
        /\ reported' \in [CPU -> [StatIndex -> Nat]]
    BY <2>1, AddStatsType
  <2>4. cache' \in [CPU -> SUBSET Pid] BY <2>2 DEF TypeOK
  <2> QED BY <2>1, <2>3, <2>4, TakeType DEF TypeOK, Adder, history
<1>2. CASE fast_process_wake(c)
  <2>1. PICK pid \in Pid :
          /\ Take(c, "process_wake")
          /\ \E C \in Updated(cache[c], pid) : cache' = [cache EXCEPT ![c] = C]
          /\ UNCHANGED <<stats, reported>>
    BY <1>2 DEF fast_process_wake
  <2>2. PICK C \in SUBSET Pid : cache' = [cache EXCEPT ![c] = C]
    <3>1. cache[c] \in SUBSET Pid BY DEF TypeOK
    <3> QED BY <2>1, <3>1, UpdatedType
  <2>3. cache' \in [CPU -> SUBSET Pid] BY <2>2 DEF TypeOK
  <2> QED BY <2>1, <2>3, TakeType DEF TypeOK, Adder, history
<1>3. CASE fast_kmem_alloc(c)
  <2>1. Take(c, "kmem_alloc") /\ UNCHANGED <<cache, stats, reported>>
    BY <1>3 DEF fast_kmem_alloc
  <2> QED BY <2>1, TakeType DEF TypeOK, Adder, history
<1>4. CASE trace_cpu_migration(c)
  <2>1. Take(c, "cpu_migration") /\ AddStats(c, {4}) /\ UNCHANGED cache
    BY <1>4 DEF trace_cpu_migration
  <2> QED BY <2>1, TakeType, AddStatsType DEF TypeOK, Adder, history
<1>5. CASE fast_context_switch(c)
  <2>1. PICK prev, next \in Pid :
          /\ Take(c, "context_switch")
          /\ \E C \in Updated(cache[c], prev) :
               \E D \in Updated(C, next) : cache' = [cache EXCEPT ![c] = D]
          /\ UNCHANGED <<stats, reported>>
    BY <1>5 DEF fast_context_switch
  <2>2. PICK C \in SUBSET Pid : cache' = [cache EXCEPT ![c] = C]
    <3>1. cache[c] \in SUBSET Pid BY DEF TypeOK
    <3> QED BY <2>1, <3>1, UpdatedType
  <2>3. cache' \in [CPU -> SUBSET Pid] BY <2>2 DEF TypeOK
  <2> QED BY <2>1, <2>3, TakeType DEF TypeOK, Adder, history
<1> QED BY <1>1, <1>2, <1>3, <1>4, <1>5 DEF Enter

LEMMA StepType ==
  ASSUME TypeOK, NEW c \in CPU, Step(c)
  PROVE  TypeOK'
<1>1. CASE Reserve(c)
  <2>1. batch[c][idx[c]] \in Event
    BY <1>1 DEF Reserve, TypeOK
  <2>2. ring' \in Seq(Record)
    <3>1. [cpu |-> c, ev |-> batch[c][idx[c]], busy |-> TRUE] \in Record
      BY <2>1 DEF Record
    <3> QED BY <1>1, <3>1, AppendProperties DEF Reserve, TypeOK
  <2> QED BY <1>1, <2>2 DEF Reserve, TypeOK, history
<1>2. CASE ReserveFails(c)
  <2>1. lost' \in [CPU -> Nat] /\ idx' \in [CPU -> Nat \ {0}]
    BY <1>2, SMTT(30) DEF ReserveFails, TypeOK
  <2> QED BY <1>2, <2>1 DEF ReserveFails, TypeOK
<1>3. CASE Submit(c)
  <2>1. ring' \in Seq(Record)
    <3>1. DOMAIN ring = 1 .. Len(ring) /\ Len(ring) \in Nat BY DEF TypeOK
    <3>2. \A n \in 1 .. Len(ring) : ring'[n] \in Record
      <4> TAKE n \in 1 .. Len(ring)
      <4>1. ring[n] \in Record
        BY ElementOfSeq DEF TypeOK
      <4>2. ring'[n] = IF ring[n].cpu = c THEN [ring[n] EXCEPT !.busy = FALSE]
                                          ELSE ring[n]
        BY <1>3, <3>1 DEF Submit
      <4> QED BY <4>1, <4>2 DEF Record
    <3> QED BY <1>3, <3>1, <3>2 DEF Submit
  <2>2. idx' \in [CPU -> Nat \ {0}] BY <1>3 DEF Submit, TypeOK
  <2> QED BY <1>3, <2>1, <2>2 DEF Submit, TypeOK, history
<1>4. CASE FlushDone(c)
  <2>1. /\ stats' \in [CPU -> [StatIndex -> Nat]]
        /\ reported' \in [CPU -> [StatIndex -> Nat]]
    BY <1>4, AddStatsType DEF FlushDone
  <2>2. batch' \in [CPU -> Seq(Event)] /\ idx' \in [CPU -> Nat \ {0}]
    BY <1>4 DEF FlushDone, TypeOK
  <2> QED BY <1>4, <2>1, <2>2 DEF FlushDone, TypeOK, history
<1>5. CASE Store(c)
  <2>1. /\ stats' \in [CPU -> [StatIndex -> Nat]]
        /\ reported' \in [CPU -> [StatIndex -> Nat]]
    BY <1>5, AddStatsType DEF Store
  <2>2. NoEvent \in Event BY DEF NoEvent, Event
  <2>3. batch' \in [CPU -> Seq(Event)] /\ dropped' \in [CPU -> Nat]
    <3>1. CASE Len(batch[c]) < MaxBatch
      <4>1. batch[c] \in Seq(Event) /\ event[c] \in Event BY DEF TypeOK
      <4>2. Append(batch[c], event[c]) \in Seq(Event) BY <4>1
      <4>3. UNCHANGED dropped /\ dropped \in [CPU -> Nat]
        BY <1>5, <3>1 DEF Store, TypeOK
      <4>4. /\ batch \in [CPU -> Seq(Event)]
            /\ batch' = [batch EXCEPT ![c] = Append(batch[c], event[c])]
        BY <1>5, <3>1 DEF Store, TypeOK
      <4> QED BY <4>2, <4>3, <4>4
    <3>2. CASE ~(Len(batch[c]) < MaxBatch)
      <4>1. dropped[c] + 1 \in Nat BY DEF TypeOK
      <4>2. batch' = batch /\ dropped' = [dropped EXCEPT ![c] = @ + 1]
        BY <1>5, <3>2 DEF Store
      <4> QED BY <4>1, <4>2 DEF TypeOK
    <3> QED BY <3>1, <3>2
  <2> QED BY <1>5, <2>1, <2>2, <2>3 DEF Store, Return, TypeOK, history
<1>6. CASE Stamp(c)
  <2>1. NoEvent \in Event BY DEF NoEvent, Event
  <2> QED BY <1>6, <2>1 DEF Stamp, Return, TypeOK, history
<1> QED BY <1>1, <1>2, <1>3, <1>4, <1>5, <1>6 DEF Step

LEMMA ConsumeType == ASSUME TypeOK, Consume PROVE TypeOK'
<1>1. ring # <<>> /\ ring' = Tail(ring) BY DEF Consume
<1>2. ring \in Seq(Record) /\ Head(ring) \in Record
  BY <1>1, HeadTailProperties DEF TypeOK
<1>3. ring' \in Seq(Record) BY <1>1, <1>2, HeadTailProperties
<1>4. got' \in [CPU -> Nat] /\ seen' \in [CPU -> Nat]
  <2>1. Head(ring).cpu \in CPU /\ Head(ring).ev.ts \in Nat
    BY <1>2 DEF Record, Event
  <2>2. got' = [got EXCEPT ![Head(ring).cpu] = got[Head(ring).cpu] + 1]
    BY DEF Consume
  <2>3. seen' = [seen EXCEPT ![Head(ring).cpu] = Head(ring).ev.ts]
    BY DEF Consume
  <2>4. got \in [CPU -> Nat] /\ seen \in [CPU -> Nat] BY DEF TypeOK
  <2> QED BY <2>1, <2>2, <2>3, <2>4
<1> QED BY <1>3, <1>4 DEF Consume, TypeOK, local

LEMMA NextType == ASSUME TypeOK, [Next]_vars PROVE TypeOK'
<1>1. CASE UNCHANGED vars BY <1>1 DEF vars, local, history, TypeOK
<1>2. ASSUME NEW c \in CPU, periodic_flush(c) PROVE TypeOK'
  <2>1. /\ handler' \in [CPU -> Handler \cup {"none"}]
        /\ idx' \in [CPU -> Nat \ {0}]
    BY <1>2 DEF periodic_flush, TypeOK, Handler
  <2>2. pc' \in [CPU -> {"idle", "reserve", "submit", "store", "stamp"}]
    BY <1>2 DEF periodic_flush, TypeOK
  <2>3. UNCHANGED <<batch, dropped, cache, stats, flushed, clock, event, ring,
                    reported, history>>
    BY <1>2 DEF periodic_flush
  <2> QED BY <2>1, <2>2, <2>3 DEF TypeOK, history
<1>3. ASSUME NEW c \in CPU, fast_packet_processor(c) PROVE TypeOK'
  <2>1. packets' \in [CPU -> Nat]
    <3>1. packets \in [CPU -> Nat] BY DEF TypeOK
    <3>2. packets' = [packets EXCEPT ![c] = packets[c] + 1] BY <1>3, PacketAside
    <3> QED BY <3>1, <3>2
  <2>2. stats' \in [CPU -> [StatIndex -> Nat]] /\ reported' \in [CPU -> [StatIndex -> Nat]]
    BY <1>3, PacketAside, AddStatsType
  <2> QED BY <1>3, <2>1, <2>2, PacketAside DEF TypeOK
<1> QED BY <1>1, <1>2, <1>3, EnterType, StepType, ConsumeType DEF Next

\* Every reachable state is well typed.
THEOREM TypeCorrect == Spec => []TypeOK
<1>1. Init => TypeOK BY InitType
<1>2. TypeOK /\ [Next]_vars => TypeOK' BY NextType
<1> QED BY <1>1, <1>2, PTL DEF Spec

-----------------------------------------------------------------------------
(* The order of the events.                                                *)

\* Where a handler stands and what it works on go together.
Control(c) ==
  /\ pc[c] = "idle" <=> handler[c] = "none"
  /\ pc[c] = "store" => handler[c] \in Adder /\ Len(batch[c]) < MaxBatch
  /\ pc[c] = "stamp" => handler[c] = "periodic_flush"
  /\ pc[c] = "submit" => idx[c] <= Len(batch[c])
  /\ Len(batch[c]) <= MaxBatch

Order(c) == /\ RingInOrder(c)
            /\ RingBeforeBatch(c)
            /\ BatchInOrder(c)
            /\ HandIsNewest(c)

\* The inductive invariant: the order of the events needs to know where each
\* handler stands, for that says which events of the batch are in the ring.
IInv == /\ \A c \in CPU : Control(c)
        /\ \A c \in CPU : Order(c)
        /\ NeverDrops

\* The ring is a function on 1 .. Len(ring) to records.
LEMMA RingFacts ==
  ASSUME TypeOK
  PROVE  /\ Len(ring) \in Nat /\ DOMAIN ring = 1 .. Len(ring)
         /\ \A n \in DOMAIN ring : /\ ring[n] \in Record
                                  /\ ring[n].cpu \in CPU
                                  /\ ring[n].ev.ts \in Nat
<1>1. ring \in Seq(Record) BY DEF TypeOK
<1>2. Len(ring) \in Nat /\ DOMAIN ring = 1 .. Len(ring)
  BY <1>1, LenProperties
<1>3. \A n \in DOMAIN ring : ring[n] \in Record BY <1>1, <1>2, ElementOfSeq
<1> QED BY <1>2, <1>3 DEF Record, Event

\* The batches and the counters of a CPU.
LEMMA CpuFacts ==
  ASSUME TypeOK, NEW c \in CPU
  PROVE  /\ batch[c] \in Seq(Event) /\ Len(batch[c]) \in Nat
         /\ DOMAIN batch[c] = 1 .. Len(batch[c])
         /\ \A i \in 1 .. Len(batch[c]) : batch[c][i] \in Event /\ batch[c][i].ts \in Nat
         /\ idx[c] \in Nat /\ idx[c] >= 1
         /\ clock[c] \in Nat /\ seen[c] \in Nat
         /\ event[c] \in Event /\ event[c].ts \in Nat
         /\ pc[c] \in {"idle", "reserve", "submit", "store", "stamp"}
         /\ Unsent(c) \subseteq 1 .. Len(batch[c])
<1>1. batch[c] \in Seq(Event) /\ event[c] \in Event BY DEF TypeOK
<1>2. Len(batch[c]) \in Nat /\ DOMAIN batch[c] = 1 .. Len(batch[c])
  BY <1>1, LenProperties
<1>3. \A i \in 1 .. Len(batch[c]) : batch[c][i] \in Event
  BY <1>1, ElementOfSeq
<1>4. idx[c] \in Nat \ {0} /\ clock[c] \in Nat /\ seen[c] \in Nat
      /\ pc[c] \in {"idle", "reserve", "submit", "store", "stamp"}
  BY DEF TypeOK
<1>5. From(c) \in Nat /\ From(c) >= 1 BY <1>4 DEF From
<1>6. Unsent(c) \subseteq 1 .. Len(batch[c]) BY <1>2, <1>5 DEF Unsent
<1>7. /\ \A i \in 1 .. Len(batch[c]) : batch[c][i].ts \in Nat
      /\ event[c].ts \in Nat
  BY <1>1, <1>3 DEF Event
<1> QED BY <1>1, <1>2, <1>3, <1>4, <1>6, <1>7

LEMMA InitInv == ASSUME Init PROVE IInv
<1> DOMAIN ring = {} BY DEF Init
<1>1. \A c \in CPU : Len(batch[c]) = 0 BY DEF Init
<1>2. \A c \in CPU : pc[c] = "idle" /\ handler[c] = "none" BY DEF Init
<1>3. \A c \in CPU : Unsent(c) = {}
  BY <1>1, <1>2 DEF Unsent, From
<1>4. \A c \in CPU : Control(c)
  BY <1>1, <1>2, MaxBatchAssumption DEF Control
<1>5. \A c \in CPU : ~InHand(c) BY <1>2 DEF InHand, Adder
<1>6. \A c \in CPU : Order(c)
  BY <1>3, <1>5 DEF Init, Order, RingInOrder, RingBeforeBatch, BatchInOrder,
                    HandIsNewest
<1>7. NeverDrops BY <1>2 DEF Init, NeverDrops, StatIndex
<1> QED BY <1>4, <1>6, <1>7 DEF IInv

\* A step that leaves the ring and CPU d alone keeps the order of d.
LEMMA OtherOrder ==
  ASSUME NEW d \in CPU, Order(d), UNCHANGED ring, batch'[d] = batch[d],
         pc'[d] = pc[d], idx'[d] = idx[d], handler'[d] = handler[d],
         event'[d] = event[d], clock'[d] = clock[d], seen'[d] = seen[d]
  PROVE  Order(d)'
BY DEF Order, RingInOrder, RingBeforeBatch, BatchInOrder, HandIsNewest, Unsent,
       From, InHand

LEMMA TakeInv ==
  ASSUME TypeOK, IInv, NEW c \in CPU, NEW h \in Adder, Take(c, h),
         stats'[c][2] = stats[c][2],
         \A d \in CPU \ {c} : stats'[d] = stats[d]
  PROVE  IInv'
<1> USE DEF Take, history
<1>1. /\ pc[c] = "idle" /\ handler[c] = "none" /\ Control(c) /\ Order(c)
      /\ batch' = batch /\ ring' = ring /\ seen' = seen
  BY DEF IInv, Control
<1>2. /\ handler'[c] = h /\ idx'[c] = 1 /\ clock'[c] = clock[c] + 1
      /\ event'[c].ts = clock[c] + 1
      /\ pc'[c] = IF Len(batch[c]) >= MaxBatch THEN "reserve" ELSE "store"
  BY DEF TypeOK
<1>3. \A d \in CPU \ {c} :
        /\ pc'[d] = pc[d] /\ idx'[d] = idx[d] /\ handler'[d] = handler[d]
        /\ event'[d] = event[d] /\ clock'[d] = clock[d]
  BY DEF TypeOK
<1>4. ASSUME NEW d \in CPU PROVE Control(d)'
  <2>1. CASE d = c
    BY <1>1, <1>2, <2>1, CpuFacts, MaxBatchAssumption DEF Control, Adder
  <2>2. CASE d # c BY <1>1, <1>3, <2>2 DEF IInv, Control
  <2> QED BY <2>1, <2>2
<1>5. Order(c)'
  <2>1. Unsent(c)' = Unsent(c) BY <1>1, <1>2 DEF Unsent, From
  <2>2. InHand(c)' BY <1>2 DEF InHand
  <2>3. RingInOrder(c)' BY <1>1 DEF Order, RingInOrder
  <2>4. RingBeforeBatch(c)'
    BY <1>1, <1>2, <2>1, CpuFacts, RingFacts DEF Order, RingBeforeBatch
  <2>5. BatchInOrder(c)'
    BY <1>1, <1>2, <2>1, CpuFacts DEF Order, BatchInOrder
  <2>6. HandIsNewest(c)'
    BY <1>1, <1>2, CpuFacts DEF Order, HandIsNewest
  <2> QED BY <2>3, <2>4, <2>5, <2>6 DEF Order
<1>6. \A d \in CPU \ {c} : Order(d)' BY <1>1, <1>3, OtherOrder DEF IInv
<1>7. NeverDrops'
  BY <1>1, <1>2, <1>3, CpuFacts, MaxBatchAssumption DEF IInv, NeverDrops
<1> QED BY <1>4, <1>5, <1>6, <1>7 DEF IInv

LEMMA PeriodicInv ==
  ASSUME TypeOK, IInv, NEW c \in CPU, periodic_flush(c)
  PROVE  IInv'
<1> USE DEF periodic_flush, history
<1>1. /\ pc[c] = "idle" /\ handler[c] = "none" /\ Control(c) /\ Order(c)
      /\ UNCHANGED <<batch, ring, seen, clock, event, stats, dropped>>
  BY DEF IInv, Control
<1>2. /\ handler'[c] = "periodic_flush" /\ idx'[c] = 1
      /\ pc'[c] = IF Len(batch[c]) > 0 THEN "reserve" ELSE "stamp"
  BY DEF TypeOK
<1>3. \A d \in CPU \ {c} :
        pc'[d] = pc[d] /\ idx'[d] = idx[d] /\ handler'[d] = handler[d]
  BY DEF TypeOK
<1>4. ASSUME NEW d \in CPU PROVE Control(d)'
  <2>1. CASE d = c BY <1>1, <1>2, <2>1 DEF Control, Adder
  <2>2. CASE d # c BY <1>1, <1>3, <2>2 DEF IInv, Control
  <2> QED BY <2>1, <2>2
<1>5. Order(c)'
  <2>1. Unsent(c)' = Unsent(c) BY <1>1, <1>2 DEF Unsent, From
  <2>2. ~InHand(c)' BY <1>2 DEF InHand, Adder
  <2> QED BY <1>1, <2>1, <2>2
       DEF Order, RingInOrder, RingBeforeBatch, BatchInOrder, HandIsNewest
<1>6. \A d \in CPU \ {c} : Order(d)' BY <1>1, <1>3, OtherOrder DEF IInv
<1>7. NeverDrops' BY <1>1, <1>2, <1>3 DEF IInv, NeverDrops
<1> QED BY <1>4, <1>5, <1>6, <1>7 DEF IInv

\* The event that enters the ring is the oldest the batch had left.
LEMMA ReserveInv ==
  ASSUME TypeOK, IInv, NEW c \in CPU, Reserve(c)
  PROVE  IInv'
<1> USE DEF Reserve, history
<1> DEFINE rec == [cpu |-> c, ev |-> batch[c][idx[c]], busy |-> TRUE]
<1>1. /\ pc[c] = "reserve" /\ idx[c] <= Len(batch[c]) /\ Control(c) /\ Order(c)
      /\ UNCHANGED <<batch, seen, clock, event, stats, dropped, handler, idx>>
  BY DEF IInv
<1>2. pc'[c] = "submit" /\ \A d \in CPU \ {c} : pc'[d] = pc[d]
  BY DEF TypeOK
<1>3. /\ DOMAIN ring' = 1 .. Len(ring) + 1
      /\ \A n \in DOMAIN ring : ring'[n] = ring[n]
      /\ ring'[Len(ring) + 1] = rec
  <2>1. ring \in Seq(Record) BY DEF TypeOK
  <2>2. rec \in Record BY CpuFacts, <1>1 DEF Record
  <2> QED BY <2>1, <2>2, AppendProperties, LenProperties
<1>4. rec.cpu = c /\ rec.ev.ts = batch[c][idx[c]].ts OBVIOUS
<1> HIDE DEF rec
<1>5. \A d \in CPU : Control(d)'
  BY <1>1, <1>2 DEF IInv, Control
<1>6. Unsent(c) = idx[c] .. Len(batch[c])
      /\ Unsent(c)' = idx[c] + 1 .. Len(batch[c])
  BY <1>1, <1>2 DEF Unsent, From
<1>7. InHand(c)' = InHand(c) BY <1>1 DEF InHand
<1>8. idx[c] \in Unsent(c) /\ \A i \in Unsent(c)' : i \in Unsent(c) /\ idx[c] < i
  BY <1>1, <1>6, CpuFacts
<1>9. Order(c)'
  <2>1. RingInOrder(c)'
    <3> SUFFICES ASSUME NEW m \in DOMAIN ring', NEW n \in DOMAIN ring', m < n,
                        ring'[m].cpu = c, ring'[n].cpu = c
                 PROVE  ring'[m].ev.ts < ring'[n].ev.ts
      BY DEF RingInOrder
    <3>1. m \in DOMAIN ring BY <1>3, RingFacts
    <3>2. CASE n \in DOMAIN ring
      BY <1>1, <1>3, <3>1, <3>2 DEF Order, RingInOrder
    <3>3. CASE n = Len(ring) + 1
      BY <1>1, <1>3, <1>4, <1>8, <3>1, <3>3 DEF Order, RingBeforeBatch
    <3> QED BY <1>3, <3>2, <3>3, RingFacts
  <2>2. RingBeforeBatch(c)'
    BY <1>1, <1>3, <1>4, <1>7, <1>8, RingFacts
       DEF Order, RingBeforeBatch, BatchInOrder
  <2>3. BatchInOrder(c)' BY <1>1, <1>7, <1>8 DEF Order, BatchInOrder
  <2>4. HandIsNewest(c)' BY <1>1, <1>7 DEF Order, HandIsNewest
  <2> QED BY <2>1, <2>2, <2>3, <2>4 DEF Order
<1>10. ASSUME NEW d \in CPU \ {c} PROVE Order(d)'
  <2>1. Order(d) /\ Unsent(d)' = Unsent(d) /\ InHand(d)' = InHand(d)
    BY <1>1, <1>2 DEF IInv, Unsent, From, InHand
  <2>2. \A n \in DOMAIN ring' : ring'[n].cpu = d =>
          n \in DOMAIN ring /\ ring'[n] = ring[n]
    BY <1>3, <1>4, RingFacts
  <2> QED BY <1>1, <2>1, <2>2
       DEF Order, RingInOrder, RingBeforeBatch, BatchInOrder, HandIsNewest
<1>11. NeverDrops' BY <1>1, <1>2 DEF IInv, NeverDrops
<1> QED BY <1>5, <1>9, <1>10, <1>11 DEF IInv

LEMMA ReserveFailsInv ==
  ASSUME TypeOK, IInv, NEW c \in CPU, ReserveFails(c)
  PROVE  IInv'
<1> USE DEF ReserveFails
<1>1. /\ pc[c] = "reserve" /\ idx[c] <= Len(batch[c]) /\ Control(c) /\ Order(c)
      /\ UNCHANGED <<batch, seen, clock, event, stats, dropped, handler, pc, ring>>
  BY DEF IInv
<1>2. idx'[c] = idx[c] + 1 /\ \A d \in CPU \ {c} : idx'[d] = idx[d]
  BY DEF TypeOK
<1>3. \A d \in CPU : Control(d)' BY <1>1, <1>2 DEF IInv, Control
<1>4. Unsent(c)' \subseteq Unsent(c) /\ InHand(c)' = InHand(c)
  BY <1>1, <1>2, CpuFacts DEF Unsent, From, InHand
<1>5. Order(c)'
  BY <1>1, <1>4
     DEF Order, RingInOrder, RingBeforeBatch, BatchInOrder, HandIsNewest
<1>6. \A d \in CPU \ {c} : Order(d)' BY <1>1, <1>2, OtherOrder DEF IInv
<1>7. NeverDrops' BY <1>1 DEF IInv, NeverDrops
<1> QED BY <1>3, <1>5, <1>6, <1>7 DEF IInv

LEMMA SubmitInv ==
  ASSUME TypeOK, IInv, NEW c \in CPU, Submit(c)
  PROVE  IInv'
<1> USE DEF Submit, history
<1>1. /\ pc[c] = "submit" /\ Control(c) /\ Order(c)
      /\ UNCHANGED <<batch, seen, clock, event, stats, dropped, handler>>
  BY DEF IInv
<1>2. /\ pc'[c] = "reserve" /\ idx'[c] = idx[c] + 1
      /\ \A d \in CPU \ {c} : pc'[d] = pc[d] /\ idx'[d] = idx[d]
  BY DEF TypeOK
<1>3. /\ DOMAIN ring' = DOMAIN ring
      /\ \A n \in DOMAIN ring : ring'[n].cpu = ring[n].cpu /\ ring'[n].ev = ring[n].ev
  <2>1. \A n \in DOMAIN ring : ring[n] \in Record BY RingFacts
  <2> QED BY <2>1 DEF Record
<1>4. \A d \in CPU : Control(d)' BY <1>1, <1>2 DEF IInv, Control
<1>5. \A d \in CPU : Unsent(d)' = Unsent(d) /\ InHand(d)' = InHand(d)
  BY <1>1, <1>2 DEF Unsent, From, InHand
<1>6. \A d \in CPU : Order(d)'
  BY <1>1, <1>3, <1>5
     DEF IInv, Order, RingInOrder, RingBeforeBatch, BatchInOrder, HandIsNewest
<1>7. NeverDrops' BY <1>1, <1>2 DEF IInv, NeverDrops
<1> QED BY <1>4, <1>6, <1>7 DEF IInv

\* The reset leaves room for the event in hand.
LEMMA FlushDoneInv ==
  ASSUME TypeOK, IInv, NEW c \in CPU, FlushDone(c)
  PROVE  IInv'
<1> USE DEF FlushDone, history
<1>1. /\ pc[c] = "reserve" /\ Control(c) /\ Order(c)
      /\ UNCHANGED <<seen, clock, event, dropped, handler, ring>>
  BY DEF IInv
<1>2. /\ batch'[c] = <<>> /\ Len(batch'[c]) = 0
      /\ pc'[c] = IF handler[c] = "periodic_flush" THEN "stamp" ELSE "store"
      /\ \A d \in CPU \ {c} :
           pc'[d] = pc[d] /\ idx'[d] = idx[d] /\ batch'[d] = batch[d]
  BY DEF TypeOK
<1>3. \A d \in CPU : stats'[d][2] = stats[d][2]
  BY DEF AddStats, TypeOK, StatIndex
<1>4. ASSUME NEW d \in CPU PROVE Control(d)'
  <2>1. CASE d = c
    <3>1. handler[c] \in Handler BY <1>1 DEF Control, TypeOK
    <3> QED BY <1>1, <1>2, <2>1, <3>1, MaxBatchAssumption
         DEF Control, Handler, Adder
  <2>2. CASE d # c BY <1>1, <1>2, <2>2 DEF IInv, Control
  <2> QED BY <2>1, <2>2
<1>5. Order(c)'
  <2>1. Unsent(c)' = {} BY <1>2 DEF Unsent, From
  <2>2. InHand(c)' = InHand(c) BY <1>1 DEF InHand
  <2> QED BY <1>1, <2>1, <2>2
       DEF Order, RingInOrder, RingBeforeBatch, BatchInOrder, HandIsNewest
<1>6. \A d \in CPU \ {c} : Order(d)' BY <1>1, <1>2, OtherOrder DEF IInv
<1>7. NeverDrops' BY <1>1, <1>2, <1>3, MaxBatchAssumption DEF IInv, NeverDrops
<1> QED BY <1>4, <1>5, <1>6, <1>7 DEF IInv

\* There is room, so the event in hand, the newest, ends the batch.
LEMMA StoreInv ==
  ASSUME TypeOK, IInv, NEW c \in CPU, Store(c)
  PROVE  IInv'
<1> USE DEF Store, Return, history
<1>1. /\ pc[c] = "store" /\ Control(c) /\ Order(c) /\ InHand(c)
      /\ Len(batch[c]) < MaxBatch
      /\ UNCHANGED <<seen, clock, ring, idx, dropped>>
  BY DEF IInv, Control, InHand
<1>2. /\ pc'[c] = "idle" /\ handler'[c] = "none"
      /\ batch'[c] = Append(batch[c], event[c])
      /\ \A d \in CPU \ {c} : /\ pc'[d] = pc[d] /\ handler'[d] = handler[d]
                               /\ event'[d] = event[d] /\ batch'[d] = batch[d]
  BY <1>1 DEF TypeOK
<1>3. /\ Len(batch'[c]) = Len(batch[c]) + 1
      /\ \A i \in 1 .. Len(batch[c]) : batch'[c][i] = batch[c][i]
      /\ batch'[c][Len(batch[c]) + 1] = event[c]
  BY <1>2, CpuFacts, AppendProperties
<1>4. \A d \in CPU : stats'[d][2] = stats[d][2]
  <2>1. PICK S : AddStats(c, S) /\ 2 \notin S BY <1>1
  <2> QED BY <2>1, AddStatsKeeps
<1>5. ASSUME NEW d \in CPU PROVE Control(d)'
  <2>1. CASE d = c
    BY <1>1, <1>2, <1>3, <2>1, CpuFacts, MaxBatchAssumption DEF Control
  <2>2. CASE d # c BY <1>1, <1>2, <2>2 DEF IInv, Control
  <2> QED BY <2>1, <2>2
<1>6. Order(c)'
  <2>1. Unsent(c) = 1 .. Len(batch[c]) /\ Unsent(c)' = 1 .. Len(batch[c]) + 1
    BY <1>1, <1>2, <1>3 DEF Unsent, From
  <2>2. ~InHand(c)' BY <1>2 DEF InHand, Adder
  <2>3. \A i \in Unsent(c)' : i \in Unsent(c) \/ i = Len(batch[c]) + 1
    BY <2>1, CpuFacts
  <2>4. RingInOrder(c)' BY <1>1 DEF Order, RingInOrder
  <2>5. RingBeforeBatch(c)'
    BY <1>1, <1>3, <2>1, <2>2, <2>3 DEF Order, RingBeforeBatch
  <2>6. BatchInOrder(c)'
    <3>1. \A i \in Unsent(c) : /\ batch'[c][i] = batch[c][i]
                               /\ batch[c][i].ts < event[c].ts
      BY <1>1, <1>3, <2>1 DEF Order, BatchInOrder
    <3>2. seen[c] < event[c].ts /\ event[c].ts = clock[c]
      BY <1>1 DEF Order, HandIsNewest
    <3>3. ASSUME NEW i \in Unsent(c)'
          PROVE  seen[c] < batch'[c][i].ts /\ batch'[c][i].ts <= clock[c]
      <4>1. CASE i \in Unsent(c)
        BY <1>1, <1>3, <3>1, <4>1 DEF Order, BatchInOrder
      <4>2. CASE i = Len(batch[c]) + 1
        <5>1. batch'[c][i] = event[c] BY <1>1, <1>3, <4>2
        <5>2. event[c].ts \in Nat /\ clock[c] \in Nat BY CpuFacts DEF Event, TypeOK
        <5> QED BY <3>2, <5>1, <5>2
      <4> QED BY <2>3, <3>3, <4>1, <4>2
    <3>4. ASSUME NEW i \in Unsent(c)', NEW j \in Unsent(c)', i < j
          PROVE  batch'[c][i].ts < batch'[c][j].ts
      <4>1. i \in Unsent(c) BY <2>1, <2>3, <3>4, CpuFacts
      <4> QED BY <1>1, <1>3, <2>3, <3>1, <3>4, <4>1 DEF Order, BatchInOrder
    <3> QED BY <1>1, <2>2, <3>3, <3>4 DEF BatchInOrder
  <2>7. HandIsNewest(c)' BY <1>1, <2>2 DEF Order, HandIsNewest
  <2> QED BY <2>4, <2>5, <2>6, <2>7 DEF Order
<1>7. \A d \in CPU \ {c} : Order(d)' BY <1>1, <1>2, OtherOrder DEF IInv
<1>8. NeverDrops' BY <1>1, <1>2, <1>4 DEF IInv, NeverDrops
<1> QED BY <1>5, <1>6, <1>7, <1>8 DEF IInv

LEMMA StampInv ==
  ASSUME TypeOK, IInv, NEW c \in CPU, Stamp(c)
  PROVE  IInv'
<1> USE DEF Stamp, Return, history
<1>1. /\ pc[c] = "stamp" /\ Control(c) /\ Order(c) /\ ~InHand(c)
      /\ UNCHANGED <<batch, seen, clock, ring, idx, dropped, stats>>
  BY DEF IInv, Control, InHand, Adder
<1>2. /\ pc'[c] = "idle" /\ handler'[c] = "none"
      /\ \A d \in CPU \ {c} : /\ pc'[d] = pc[d] /\ handler'[d] = handler[d]
                               /\ event'[d] = event[d]
  BY DEF TypeOK
<1>3. \A d \in CPU : Control(d)' BY <1>1, <1>2 DEF IInv, Control
<1>4. Unsent(c)' = Unsent(c) /\ ~InHand(c)'
  BY <1>1, <1>2 DEF Unsent, From, InHand, Adder
<1>5. Order(c)'
  BY <1>1, <1>4
     DEF Order, RingInOrder, RingBeforeBatch, BatchInOrder, HandIsNewest
<1>6. \A d \in CPU \ {c} : Order(d)' BY <1>1, <1>2, OtherOrder DEF IInv
<1>7. NeverDrops' BY <1>1, <1>2 DEF IInv, NeverDrops
<1> QED BY <1>3, <1>5, <1>6, <1>7 DEF IInv

\* The oldest record leaves, and what is left is newer.
LEMMA ConsumeInv ==
  ASSUME TypeOK, IInv, Consume
  PROVE  IInv'
<1> USE DEF Consume, local
<1>1. ring # <<>> /\ ring \in Seq(Record) BY DEF TypeOK
<1>2. /\ 1 \in DOMAIN ring /\ Head(ring) = ring[1] /\ ring[1].cpu \in CPU
  <2>1. Len(ring) \in Nat \ {0} BY <1>1, EmptySeq
  <2>2. Head(ring) = ring[1] BY <1>1
  <2> QED BY <2>1, <2>2, RingFacts
<1> PICK k \in CPU : k = Head(ring).cpu BY <1>2
<1>3. /\ DOMAIN ring' = 1 .. Len(ring) - 1
      /\ \A n \in DOMAIN ring' : /\ ring'[n] = ring[n + 1]
                                /\ n + 1 \in DOMAIN ring
                                /\ 1 < n + 1
  <2>1. /\ Tail(ring) \in Seq(Record) /\ Len(Tail(ring)) = Len(ring) - 1
        /\ \A n \in 1 .. Len(Tail(ring)) : Tail(ring)[n] = ring[n + 1]
    BY <1>1, HeadTailProperties
  <2> QED BY <2>1, RingFacts, LenProperties
<1>4. seen'[k] = ring[1].ev.ts /\ \A d \in CPU \ {k} : seen'[d] = seen[d]
  BY <1>2 DEF TypeOK
<1>5. \A d \in CPU : /\ Control(d)'
                     /\ Unsent(d)' = Unsent(d) /\ InHand(d)' = InHand(d)
  BY DEF IInv, Control, Unsent, From, InHand
<1>6. ASSUME NEW d \in CPU PROVE RingInOrder(d)'
  <2> SUFFICES ASSUME NEW m \in DOMAIN ring', NEW n \in DOMAIN ring', m < n,
                      ring'[m].cpu = d, ring'[n].cpu = d
               PROVE  ring'[m].ev.ts < ring'[n].ev.ts
    BY DEF RingInOrder
  <2>1. m + 1 < n + 1 BY <1>3, RingFacts
  <2> QED BY <1>3, <2>1 DEF IInv, Order, RingInOrder
<1>7. Order(k)
  BY <1>2 DEF IInv
<1>8. /\ \A n \in DOMAIN ring' : ring'[n].cpu = k => seen'[k] < ring'[n].ev.ts
      /\ seen'[k] <= clock[k]
      /\ \A i \in Unsent(k) : seen'[k] < batch[k][i].ts
      /\ InHand(k) => seen'[k] < event[k].ts
  BY <1>2, <1>3, <1>4, <1>7 DEF Order, RingInOrder, RingBeforeBatch
<1>9. Order(k)'
  <2>1. RingBeforeBatch(k)'
    BY <1>2, <1>3, <1>5, <1>7, <1>8 DEF Order, RingBeforeBatch
  <2>2. BatchInOrder(k)' BY <1>2, <1>5, <1>7, <1>8 DEF Order, BatchInOrder
  <2>3. HandIsNewest(k)' BY <1>2, <1>5, <1>7, <1>8 DEF Order, HandIsNewest
  <2> QED BY <1>2, <1>6, <2>1, <2>2, <2>3 DEF Order
<1>10. ASSUME NEW d \in CPU \ {k} PROVE Order(d)'
  <2>1. Order(d) BY DEF IInv
  <2>2. RingBeforeBatch(d)'
    BY <1>3, <1>4, <1>5, <2>1 DEF Order, RingBeforeBatch
  <2>3. BatchInOrder(d)' /\ HandIsNewest(d)'
    BY <1>4, <1>5, <2>1 DEF Order, BatchInOrder, HandIsNewest
  <2> QED BY <1>6, <2>2, <2>3 DEF Order
<1>11. NeverDrops' BY DEF IInv, NeverDrops
<1> QED BY <1>5, <1>9, <1>10, <1>11 DEF IInv

\* A handler that enters adds to the counters of its CPU, never to index 2.
LEMMA EnterInv ==
  ASSUME TypeOK, IInv, NEW c \in CPU, Enter(c)
  PROVE  IInv'
<1>1. PICK h \in Adder : Take(c, h)
  BY DEF Enter, Adder, fast_syscall_enter, fast_process_wake, fast_kmem_alloc,
         trace_cpu_migration, fast_context_switch
<1>2. \/ UNCHANGED stats
      \/ \E i \in {4, 5, 6} : AddStats(c, {i})
  BY DEF Enter, fast_syscall_enter, fast_process_wake, fast_kmem_alloc,
         trace_cpu_migration, fast_context_switch
<1>3. stats'[c][2] = stats[c][2] /\ \A d \in CPU \ {c} : stats'[d] = stats[d]
  <2>1. CASE UNCHANGED stats BY <2>1
  <2>2. ASSUME NEW i \in {4, 5, 6}, AddStats(c, {i})
        PROVE  stats'[c][2] = stats[c][2] /\ \A d \in CPU \ {c} : stats'[d] = stats[d]
    <3>1. 2 \notin {i} OBVIOUS
    <3> QED BY <2>2, <3>1, AddStatsKeeps
  <2> QED BY <1>2, <2>1, <2>2
<1> QED BY <1>1, <1>3, TakeInv

LEMMA NextInv ==
  ASSUME TypeOK, IInv, [Next]_vars
  PROVE  IInv'
<1>1. CASE UNCHANGED vars
  BY <1>1 DEF vars, local, history, IInv, Control, Order, RingInOrder,
     RingBeforeBatch, BatchInOrder, HandIsNewest, Unsent, From, InHand, NeverDrops
<1>2. ASSUME NEW c \in CPU, Step(c) PROVE IInv'
  BY <1>2, ReserveInv, ReserveFailsInv, SubmitInv, FlushDoneInv, StoreInv,
     StampInv DEF Step
<1>3. ASSUME NEW c \in CPU, fast_packet_processor(c) PROVE IInv'
  <2>1. \A d \in CPU : stats'[d][2] = stats[d][2]
    BY <1>3, PacketAside, AddStatsKeeps
  <2>2. NeverDrops'
    BY <1>3, <2>1, PacketAside DEF IInv, NeverDrops
  <2>3. \A d \in CPU : Control(d)' /\ Order(d)'
    BY <1>3, PacketAside DEF IInv, Control, Order, RingInOrder, RingBeforeBatch,
       BatchInOrder, HandIsNewest, Unsent, From, InHand
  <2> QED BY <2>2, <2>3 DEF IInv
<1> QED BY <1>1, <1>2, <1>3, EnterInv, PeriodicInv, ConsumeInv DEF Next

LEMMA Invariance == Spec => []IInv
<1>1. Init => IInv BY InitInv
<1>2. TypeOK /\ IInv /\ [Next]_vars => IInv' BY NextInv
<1> QED BY <1>1, <1>2, TypeCorrect, PTL DEF Spec

\* No event overtakes an older one of its CPU, and none appears twice, for any
\* number of CPUs, batch size and ring size.
THEOREM EventsInOrder == Spec => []InOrder
<1>1. IInv => InOrder BY DEF IInv, Order, InOrder
<1> QED BY <1>1, Invariance, PTL

\* The drop branch of add_to_batch is dead.
THEOREM DropBranchDead == Spec => []NeverDrops
<1>1. IInv => NeverDrops BY DEF IInv
<1> QED BY <1>1, Invariance, PTL

-----------------------------------------------------------------------------
(* The refinement of LossyChannel.                                         *)

\* The three places an event is in on its way, as membership.
LEMMA TransitMember ==
  ASSUME NEW c \in CPU
  PROVE  \A t : t \in Transit(c) <=>
           \/ \E n \in DOMAIN ring : ring[n].cpu = c /\ ring[n].ev.ts = t
           \/ \E i \in Unsent(c) : batch[c][i].ts = t
           \/ InHand(c) /\ event[c].ts = t
BY DEF Transit

LEMMA TransitMemberNext ==
  ASSUME NEW c \in CPU
  PROVE  \A t : t \in Transit(c)' <=>
           \/ \E n \in DOMAIN ring' : ring'[n].cpu = c /\ ring'[n].ev.ts = t
           \/ \E i \in Unsent(c)' : batch'[c][i].ts = t
           \/ InHand(c)' /\ event'[c].ts = t
BY DEF Transit

\* What a step does not touch of a CPU keeps what is on its way.
LEMMA OtherTransit ==
  ASSUME NEW d \in CPU, UNCHANGED ring, batch'[d] = batch[d], pc'[d] = pc[d],
         idx'[d] = idx[d], handler'[d] = handler[d], event'[d] = event[d]
  PROVE  Transit(d)' = Transit(d)
BY DEF Transit, Unsent, From, InHand

LEMMA InitTransit == ASSUME Init PROVE Channel!Init
<1>1. ASSUME NEW c \in CPU PROVE Transit(c) = {}
  <2>1. Unsent(c) = {} /\ ~InHand(c) /\ DOMAIN ring = {}
    BY DEF Init, Unsent, From, InHand, Adder
  <2> QED BY <2>1 DEF Transit
<1> QED BY <1>1 DEF Init, Channel!Init

\* Taking an event sends it.
LEMMA TakeSends ==
  ASSUME TypeOK, IInv, NEW c \in CPU, NEW h \in Adder, Take(c, h)
  PROVE  Channel!Send(c)
<1> USE DEF Take, history
<1>1. /\ pc[c] = "idle" /\ ~InHand(c)
      /\ batch' = batch /\ ring' = ring /\ seen' = seen
      /\ clock' = [clock EXCEPT ![c] = @ + 1]
  BY DEF IInv, Control, InHand, Adder
<1>2. /\ handler'[c] = h /\ idx'[c] = 1 /\ event'[c].ts = clock[c] + 1
      /\ pc'[c] = IF Len(batch[c]) >= MaxBatch THEN "reserve" ELSE "store"
  BY DEF TypeOK
<1>3. Unsent(c)' = Unsent(c) /\ InHand(c)'
  BY <1>1, <1>2 DEF Unsent, From, InHand
<1>4. Transit(c)' = Transit(c) \cup {clock[c] + 1}
  BY <1>1, <1>2, <1>3 DEF Transit
<1>5. ASSUME NEW d \in CPU \ {c} PROVE Transit(d)' = Transit(d)
  <2>1. /\ pc'[d] = pc[d] /\ idx'[d] = idx[d] /\ handler'[d] = handler[d]
        /\ event'[d] = event[d]
    BY DEF TypeOK
  <2> QED BY <1>1, <2>1, OtherTransit
<1> QED BY <1>1, <1>4, <1>5 DEF Channel!Send

\* A step whose CPU keeps its events on their way is no step of the channel.
LEMMA Stutter ==
  ASSUME UNCHANGED <<clock, seen>>, \A d \in CPU : Transit(d)' = Transit(d)
  PROVE  UNCHANGED Channel!vars
BY DEF Channel!vars

LEMMA PeriodicStutters ==
  ASSUME TypeOK, IInv, NEW c \in CPU, periodic_flush(c)
  PROVE  UNCHANGED Channel!vars
<1> USE DEF periodic_flush, history
<1>1. /\ pc[c] = "idle" /\ ~InHand(c) /\ UNCHANGED <<batch, ring, event, clock, seen>>
  BY DEF IInv, Control, InHand, Adder
<1>2. /\ idx'[c] = 1 /\ handler'[c] = "periodic_flush"
      /\ pc'[c] = IF Len(batch[c]) > 0 THEN "reserve" ELSE "stamp"
  BY DEF TypeOK
<1>3. Unsent(c)' = Unsent(c) /\ ~InHand(c)'
  BY <1>1, <1>2 DEF Unsent, From, InHand, Adder
<1>4. Transit(c)' = Transit(c) BY <1>1, <1>3 DEF Transit
<1>5. ASSUME NEW d \in CPU \ {c} PROVE Transit(d)' = Transit(d)
  <2>1. pc'[d] = pc[d] /\ idx'[d] = idx[d] /\ handler'[d] = handler[d]
    BY DEF TypeOK
  <2> QED BY <1>1, <2>1, OtherTransit
<1> QED BY <1>1, <1>4, <1>5, Stutter

\* A reserve moves the event from the batch to the ring.
LEMMA ReserveStutters ==
  ASSUME TypeOK, IInv, NEW c \in CPU, Reserve(c)
  PROVE  UNCHANGED Channel!vars
<1> USE DEF Reserve, history
<1> DEFINE rec == [cpu |-> c, ev |-> batch[c][idx[c]], busy |-> TRUE]
<1>1. /\ pc[c] = "reserve" /\ idx[c] <= Len(batch[c])
      /\ UNCHANGED <<batch, seen, clock, event, handler, idx>>
  OBVIOUS
<1>2. pc'[c] = "submit" /\ \A d \in CPU \ {c} : pc'[d] = pc[d]
  BY DEF TypeOK
<1>3. /\ DOMAIN ring' = DOMAIN ring \cup {Len(ring) + 1}
      /\ \A n \in DOMAIN ring : ring'[n] = ring[n]
      /\ ring'[Len(ring) + 1] = rec
  <2>1. ring \in Seq(Record) BY DEF TypeOK
  <2>2. rec \in Record BY CpuFacts, <1>1 DEF Record
  <2> QED BY <2>1, <2>2, AppendProperties, LenProperties
<1>4. rec.cpu = c /\ rec.ev.ts = batch[c][idx[c]].ts OBVIOUS
<1> HIDE DEF rec
<1>5. Unsent(c) = Unsent(c)' \cup {idx[c]}
  BY <1>1, <1>2, CpuFacts DEF Unsent, From
<1>6. \A d \in CPU : InHand(d)' = InHand(d) BY <1>1 DEF InHand
<1>7. \A d \in CPU \ {c} : Unsent(d)' = Unsent(d)
  BY <1>1, <1>2 DEF Unsent, From
<1>8. ASSUME NEW d \in CPU PROVE Transit(d)' = Transit(d)
  <2> SUFFICES ASSUME NEW t PROVE t \in Transit(d)' <=> t \in Transit(d)
    OBVIOUS
  <2>1. CASE d = c
    BY <1>1, <1>3, <1>4, <1>5, <1>6, <2>1, TransitMember, TransitMemberNext
  <2>2. CASE d # c
    BY <1>1, <1>3, <1>4, <1>6, <1>7, <2>2, TransitMember, TransitMemberNext
  <2> QED BY <2>1, <2>2
<1> QED BY <1>1, <1>8, Stutter

\* A failed reserve loses exactly the event the loop stands at.
LEMMA ReserveFailsLoses ==
  ASSUME TypeOK, IInv, NEW c \in CPU, ReserveFails(c)
  PROVE  Channel!Lose(c)
<1> USE DEF ReserveFails
<1> DEFINE t == batch[c][idx[c]].ts
<1>1. /\ pc[c] = "reserve" /\ idx[c] <= Len(batch[c]) /\ Order(c)
      /\ UNCHANGED <<batch, seen, clock, event, handler, pc, ring>>
  BY DEF IInv
<1>2. idx'[c] = idx[c] + 1 /\ \A d \in CPU \ {c} : idx'[d] = idx[d]
  BY DEF TypeOK
<1>3. /\ idx[c] \in Unsent(c) /\ InHand(c)' = InHand(c)
      /\ \A i : i \in Unsent(c)' <=> i \in Unsent(c) /\ idx[c] < i
  BY <1>1, <1>2, CpuFacts DEF Unsent, From, InHand
<1>4. t \in Transit(c) BY <1>3, TransitMember
<1>5. ASSUME NEW u PROVE u \in Transit(c)' <=> u \in Transit(c) /\ u # t
  <2>1. \A n \in DOMAIN ring : ring[n].cpu = c => ring[n].ev.ts < t
    BY <1>1, <1>3 DEF Order, RingBeforeBatch
  <2>2. \A i \in Unsent(c) : idx[c] < i => t < batch[c][i].ts
    BY <1>1, <1>3 DEF Order, BatchInOrder
  <2>3. InHand(c) => t < event[c].ts
    BY <1>1, <1>3 DEF Order, BatchInOrder
  <2>4. \A i \in Unsent(c) : i = idx[c] \/ idx[c] < i
    BY <1>1, CpuFacts DEF Unsent, From
  <2>5. /\ t \in Nat /\ \A n \in DOMAIN ring : ring[n].ev.ts \in Nat
        /\ \A i \in Unsent(c) : batch[c][i].ts \in Nat
        /\ event[c].ts \in Nat
    BY <1>3, CpuFacts, RingFacts
  <2> HIDE DEF t
  <2>6. ASSUME u \in Transit(c)' PROVE u \in Transit(c) /\ u # t
    BY <1>1, <1>3, <2>1, <2>2, <2>3, <2>5, <2>6, TransitMember, TransitMemberNext
  <2>7. ASSUME u \in Transit(c), u # t PROVE u \in Transit(c)'
    BY <1>1, <1>3, <2>4, <2>7, TransitMember, TransitMemberNext DEF t
  <2> QED BY <2>6, <2>7
<1>6. Transit(c)' = Transit(c) \ {t} BY <1>5
<1>7. \A d \in CPU \ {c} : Transit(d)' = Transit(d) BY <1>1, <1>2, OtherTransit
<1> HIDE DEF t
<1> QED BY <1>1, <1>4, <1>6, <1>7 DEF Channel!Lose

LEMMA SubmitStutters ==
  ASSUME TypeOK, NEW c \in CPU, Submit(c)
  PROVE  UNCHANGED Channel!vars
<1> USE DEF Submit, history
<1>1. /\ pc[c] = "submit" /\ UNCHANGED <<batch, seen, clock, event, handler>>
  OBVIOUS
<1>2. /\ pc'[c] = "reserve" /\ idx'[c] = idx[c] + 1
      /\ \A d \in CPU \ {c} : pc'[d] = pc[d] /\ idx'[d] = idx[d]
  BY DEF TypeOK
<1>3. /\ DOMAIN ring' = DOMAIN ring
      /\ \A n \in DOMAIN ring : ring'[n].cpu = ring[n].cpu /\ ring'[n].ev = ring[n].ev
  <2>1. \A n \in DOMAIN ring : ring[n] \in Record BY RingFacts
  <2> QED BY <2>1 DEF Record
<1>4. \A d \in CPU : Unsent(d)' = Unsent(d) /\ InHand(d)' = InHand(d)
  BY <1>1, <1>2 DEF Unsent, From, InHand
<1>5. ASSUME NEW d \in CPU PROVE Transit(d)' = Transit(d)
  <2> SUFFICES ASSUME NEW t PROVE t \in Transit(d)' <=> t \in Transit(d)
    OBVIOUS
  <2> QED BY <1>1, <1>3, <1>4, TransitMember, TransitMemberNext
<1> QED BY <1>1, <1>5, Stutter

\* The reset forgets nothing: the loop has passed every event.
LEMMA FlushDoneStutters ==
  ASSUME TypeOK, IInv, NEW c \in CPU, FlushDone(c)
  PROVE  UNCHANGED Channel!vars
<1> USE DEF FlushDone, history
<1>1. /\ pc[c] = "reserve" /\ idx[c] > Len(batch[c])
      /\ UNCHANGED <<seen, clock, event, handler, ring>>
  OBVIOUS
<1>2. /\ Len(batch'[c]) = 0 /\ pc'[c] \in {"stamp", "store"}
      /\ \A d \in CPU \ {c} :
           pc'[d] = pc[d] /\ idx'[d] = idx[d] /\ batch'[d] = batch[d]
  BY DEF TypeOK
<1>3. Unsent(c) = {} /\ Unsent(c)' = {} /\ InHand(c)' = InHand(c)
  BY <1>1, <1>2, CpuFacts DEF Unsent, From, InHand
<1>4. Transit(c)' = Transit(c) BY <1>1, <1>3 DEF Transit
<1>5. \A d \in CPU \ {c} : Transit(d)' = Transit(d) BY <1>1, <1>2, OtherTransit
<1> QED BY <1>1, <1>4, <1>5, Stutter

\* A store moves the event from the hand to the batch.
LEMMA StoreStutters ==
  ASSUME TypeOK, IInv, NEW c \in CPU, Store(c)
  PROVE  UNCHANGED Channel!vars
<1> USE DEF Store, Return, history
<1>1. /\ pc[c] = "store" /\ InHand(c) /\ Len(batch[c]) < MaxBatch
      /\ UNCHANGED <<seen, clock, ring, idx>>
  BY DEF IInv, Control, InHand
<1>2. /\ pc'[c] = "idle" /\ handler'[c] = "none"
      /\ batch'[c] = Append(batch[c], event[c])
      /\ \A d \in CPU \ {c} : /\ pc'[d] = pc[d] /\ handler'[d] = handler[d]
                               /\ event'[d] = event[d] /\ batch'[d] = batch[d]
  BY <1>1 DEF TypeOK
<1>3. /\ Len(batch'[c]) = Len(batch[c]) + 1
      /\ \A i \in 1 .. Len(batch[c]) : batch'[c][i] = batch[c][i]
      /\ batch'[c][Len(batch[c]) + 1] = event[c]
  BY <1>2, CpuFacts, AppendProperties
<1>4. /\ Unsent(c) = 1 .. Len(batch[c]) /\ ~InHand(c)'
      /\ Unsent(c)' = Unsent(c) \cup {Len(batch[c]) + 1}
  BY <1>1, <1>2, <1>3, CpuFacts DEF Unsent, From, InHand, Adder
<1>5. Transit(c)' = Transit(c)
  <2>1. Len(batch[c]) + 1 \in Unsent(c)' BY <1>4
  <2>2. \A i \in Unsent(c) : i \in Unsent(c)' /\ batch'[c][i] = batch[c][i]
    BY <1>3, <1>4
  <2>3. ASSUME NEW t \in Transit(c)' PROVE t \in Transit(c)
    <3>1. CASE \E n \in DOMAIN ring' : ring'[n].cpu = c /\ ring'[n].ev.ts = t
      BY <1>1, <3>1, TransitMember
    <3>2. CASE \E i \in Unsent(c)' : batch'[c][i].ts = t
      BY <1>1, <1>3, <1>4, <2>2, <3>2, TransitMember
    <3> QED BY <1>4, <3>1, <3>2, TransitMemberNext
  <2>4. ASSUME NEW t \in Transit(c) PROVE t \in Transit(c)'
    <3>1. CASE \E n \in DOMAIN ring : ring[n].cpu = c /\ ring[n].ev.ts = t
      BY <1>1, <3>1, TransitMemberNext
    <3>2. CASE \E i \in Unsent(c) : batch[c][i].ts = t
      BY <2>2, <3>2, TransitMemberNext
    <3>3. CASE event[c].ts = t
      BY <1>3, <2>1, <3>3, TransitMemberNext
    <3> QED BY <3>1, <3>2, <3>3, TransitMember
  <2> QED BY <2>3, <2>4
<1>6. \A d \in CPU \ {c} : Transit(d)' = Transit(d) BY <1>1, <1>2, OtherTransit
<1> QED BY <1>1, <1>5, <1>6, Stutter

LEMMA StampStutters ==
  ASSUME TypeOK, IInv, NEW c \in CPU, Stamp(c)
  PROVE  UNCHANGED Channel!vars
<1> USE DEF Stamp, Return, history
<1>1. /\ pc[c] = "stamp" /\ ~InHand(c)
      /\ UNCHANGED <<batch, seen, clock, ring, idx>>
  BY DEF IInv, Control, InHand, Adder
<1>2. /\ pc'[c] = "idle" /\ handler'[c] = "none"
      /\ \A d \in CPU \ {c} : /\ pc'[d] = pc[d] /\ handler'[d] = handler[d]
                               /\ event'[d] = event[d]
  BY DEF TypeOK
<1>3. Unsent(c)' = Unsent(c) /\ ~InHand(c)'
  BY <1>1, <1>2 DEF Unsent, From, InHand, Adder
<1>4. Transit(c)' = Transit(c) BY <1>1, <1>3 DEF Transit
<1>5. \A d \in CPU \ {c} : Transit(d)' = Transit(d) BY <1>1, <1>2, OtherTransit
<1> QED BY <1>1, <1>4, <1>5, Stutter

\* The consumer is given the oldest event on its way.
LEMMA ConsumeDelivers ==
  ASSUME TypeOK, IInv, Consume
  PROVE  \E c \in CPU : Channel!Deliver(c)
<1> USE DEF Consume, local
<1>1. ring # <<>> /\ ring \in Seq(Record) BY DEF TypeOK
<1>2. /\ 1 \in DOMAIN ring /\ Head(ring) = ring[1] /\ ring[1].cpu \in CPU
  <2>1. Len(ring) \in Nat \ {0} BY <1>1, EmptySeq
  <2>2. Head(ring) = ring[1] BY <1>1
  <2> QED BY <2>1, <2>2, RingFacts
<1> PICK c \in CPU : c = Head(ring).cpu BY <1>2
<1> PICK t : t = ring[1].ev.ts OBVIOUS
<1>3. /\ DOMAIN ring' = 1 .. Len(ring) - 1
      /\ \A n \in DOMAIN ring' : ring'[n] = ring[n + 1] /\ n + 1 \in DOMAIN ring
      /\ \A n \in DOMAIN ring : n # 1 => n - 1 \in DOMAIN ring' /\ ring[n] = ring'[n - 1]
  <2>1. /\ Tail(ring) \in Seq(Record) /\ Len(Tail(ring)) = Len(ring) - 1
        /\ \A n \in 1 .. Len(Tail(ring)) : Tail(ring)[n] = ring[n + 1]
    BY <1>1, HeadTailProperties
  <2>2. DOMAIN ring = 1 .. Len(ring) /\ Len(ring) \in Nat BY RingFacts
  <2>3. DOMAIN ring' = 1 .. Len(ring) - 1 BY <2>1, LenProperties
  <2>4. ASSUME NEW n \in DOMAIN ring, n # 1
        PROVE  n - 1 \in DOMAIN ring' /\ ring[n] = ring'[n - 1]
    BY <2>1, <2>2, <2>3, <2>4
  <2> QED BY <2>1, <2>2, <2>3, <2>4
<1>4. seen' = [seen EXCEPT ![c] = t] /\ clock' = clock
  BY <1>2
<1>5. \A d \in CPU : Unsent(d)' = Unsent(d) /\ InHand(d)' = InHand(d)
  BY DEF Unsent, From, InHand
<1>6. Order(c) BY DEF IInv
<1>7. /\ \A n \in DOMAIN ring : ring[n].cpu = c /\ n # 1 => t < ring[n].ev.ts
      /\ \A i \in Unsent(c) : t < batch[c][i].ts
      /\ InHand(c) => t < event[c].ts
  BY <1>2, <1>3, <1>6, RingFacts DEF Order, RingInOrder, RingBeforeBatch
<1>8. /\ t \in Nat /\ \A n \in DOMAIN ring : ring[n].ev.ts \in Nat
      /\ \A i \in Unsent(c) : batch[c][i].ts \in Nat
      /\ event[c].ts \in Nat
  BY <1>2, CpuFacts, RingFacts
<1>9. t \in Transit(c) BY <1>2, TransitMember
<1>10. ASSUME NEW u \in Transit(c) PROVE t <= u
  <2>1. CASE \E n \in DOMAIN ring : ring[n].cpu = c /\ ring[n].ev.ts = u
    <3>1. PICK n \in DOMAIN ring : ring[n].cpu = c /\ ring[n].ev.ts = u BY <2>1
    <3>2. CASE n = 1 BY <1>8, <3>1, <3>2
    <3>3. CASE n # 1 BY <1>7, <1>8, <3>1, <3>3
    <3> QED BY <3>2, <3>3
  <2>2. CASE (\E i \in Unsent(c) : batch[c][i].ts = u) \/ (InHand(c) /\ event[c].ts = u)
    BY <1>7, <1>8, <2>2
  <2> QED BY <2>1, <2>2, TransitMember
<1>11. ASSUME NEW u PROVE u \in Transit(c)' <=> u \in Transit(c) /\ u # t
  <2>1. ASSUME u \in Transit(c)' PROVE u \in Transit(c) /\ u # t
    <3>1. CASE \E n \in DOMAIN ring' : ring'[n].cpu = c /\ ring'[n].ev.ts = u
      <4>1. PICK n \in DOMAIN ring' : ring'[n].cpu = c /\ ring'[n].ev.ts = u BY <3>1
      <4>2. n + 1 \in DOMAIN ring /\ n + 1 # 1 /\ ring[n + 1].cpu = c /\ ring[n + 1].ev.ts = u
        BY <1>3, <4>1, RingFacts
      <4> QED BY <1>7, <1>8, <4>2, TransitMember
    <3>2. CASE (\E i \in Unsent(c) : batch[c][i].ts = u) \/ (InHand(c) /\ event[c].ts = u)
      BY <1>7, <1>8, <3>2, TransitMember
    <3> QED BY <1>5, <2>1, <3>1, <3>2, TransitMemberNext
  <2>2. ASSUME u \in Transit(c), u # t PROVE u \in Transit(c)'
    <3>1. CASE \E n \in DOMAIN ring : ring[n].cpu = c /\ ring[n].ev.ts = u
      <4>1. PICK n \in DOMAIN ring : ring[n].cpu = c /\ ring[n].ev.ts = u
        BY <3>1
      <4>2. n # 1 BY <2>2, <4>1
      <4>3. /\ n - 1 \in DOMAIN ring' /\ ring'[n - 1].cpu = c
            /\ ring'[n - 1].ev.ts = u
        BY <1>3, <4>1, <4>2
      <4> QED BY <4>3, TransitMemberNext
    <3>2. CASE (\E i \in Unsent(c) : batch[c][i].ts = u) \/ (InHand(c) /\ event[c].ts = u)
      BY <1>5, <3>2, TransitMemberNext
    <3> QED BY <2>2, <3>1, <3>2, TransitMember
  <2> QED BY <2>1, <2>2
<1>12. ASSUME NEW d \in CPU \ {c} PROVE Transit(d)' = Transit(d)
  <2> SUFFICES ASSUME NEW u PROVE u \in Transit(d)' <=> u \in Transit(d)
    OBVIOUS
  <2>1. \A n \in DOMAIN ring : ring[n].cpu = d => n # 1 BY <1>2
  <2>2. (\E n \in DOMAIN ring' : ring'[n].cpu = d /\ ring'[n].ev.ts = u)
          <=> (\E n \in DOMAIN ring : ring[n].cpu = d /\ ring[n].ev.ts = u)
    <3>1. ASSUME NEW n \in DOMAIN ring', ring'[n].cpu = d, ring'[n].ev.ts = u
          PROVE  n + 1 \in DOMAIN ring /\ ring[n + 1].cpu = d
                   /\ ring[n + 1].ev.ts = u
      BY <1>3, <3>1
    <3>2. ASSUME NEW n \in DOMAIN ring, ring[n].cpu = d, ring[n].ev.ts = u
          PROVE  n - 1 \in DOMAIN ring' /\ ring'[n - 1].cpu = d
                   /\ ring'[n - 1].ev.ts = u
      BY <1>3, <2>1, <3>2
    <3> QED BY <3>1, <3>2
  <2>3. UNCHANGED <<batch, event>> OBVIOUS
  <2> QED BY <1>5, <2>2, <2>3, TransitMember, TransitMemberNext
<1>13. Transit(c)' = Transit(c) \ {t} BY <1>11
<1>14. [d \in CPU |-> Transit(d)]' =
         [[d \in CPU |-> Transit(d)] EXCEPT ![c] = Transit(c) \ {t}]
  BY <1>12, <1>13
<1>15. Channel!Deliver(c)
  BY <1>4, <1>9, <1>10, <1>14 DEF Channel!Deliver
<1> QED BY <1>15

\* Each step of the pipeline is a step of the channel or leaves it alone.
LEMMA StepRefines ==
  ASSUME TypeOK, IInv, [Next]_vars
  PROVE  [Channel!Next]_Channel!vars
<1>1. CASE UNCHANGED vars
  BY <1>1, Stutter DEF vars, local, history, Transit, Unsent, From, InHand
<1>2. ASSUME NEW c \in CPU, Enter(c) PROVE Channel!Send(c)
  <2>1. PICK h \in Adder : Take(c, h)
    BY <1>2 DEF Enter, Adder, fast_syscall_enter, fast_process_wake,
       fast_kmem_alloc, trace_cpu_migration, fast_context_switch
  <2> QED BY <2>1, TakeSends
<1>3. ASSUME NEW c \in CPU, Step(c)
      PROVE  Channel!Lose(c) \/ UNCHANGED Channel!vars
  BY <1>3, ReserveStutters, ReserveFailsLoses, SubmitStutters,
     FlushDoneStutters, StoreStutters, StampStutters DEF Step
<1>4. ASSUME NEW c \in CPU, fast_packet_processor(c) PROVE UNCHANGED Channel!vars
  BY <1>4, PacketAside, Stutter DEF Transit, Unsent, From, InHand
<1> QED BY <1>1, <1>2, <1>3, <1>4, PeriodicStutters, ConsumeDelivers
     DEF Next, Channel!Next

\* The batches, the flushes and the shared ring implement a lossy channel for
\* each CPU: in order, nothing twice, nothing made up.
THEOREM PipelineImplementsChannel == Spec => ImplementsChannel
<1>1. Init => Channel!Init BY InitTransit
<1>2. TypeOK /\ IInv /\ [Next]_vars => [Channel!Next]_Channel!vars
  BY StepRefines
<1> QED BY <1>1, <1>2, TypeCorrect, Invariance, PTL
        DEF Spec, ImplementsChannel, Channel!Spec

-----------------------------------------------------------------------------
(* last_flush_time.                                                        *)

\* When the flush time is about to move, the batch is empty.
Age(c) ==
  /\ flushed[c] <= clock[c]
  /\ pc[c] = "stamp" => batch[c] = <<>>
  /\ InHand(c) => flushed[c] < event[c].ts
  /\ \A i \in Unsent(c) : flushed[c] < batch[c][i].ts

LEMMA OtherAge ==
  ASSUME NEW d \in CPU, Age(d), batch'[d] = batch[d], pc'[d] = pc[d],
         idx'[d] = idx[d], handler'[d] = handler[d], event'[d] = event[d],
         clock'[d] = clock[d], flushed'[d] = flushed[d]
  PROVE  Age(d)'
BY DEF Age, Unsent, From, InHand

LEMMA EnterAge ==
  ASSUME TypeOK, IInv, NEW c \in CPU, Age(c), Enter(c) \/ periodic_flush(c)
  PROVE  Age(c)'
<1>1. pc[c] = "idle" /\ UNCHANGED <<batch, flushed>>
  BY DEF Enter, Take, periodic_flush, fast_syscall_enter, fast_process_wake,
         fast_kmem_alloc, trace_cpu_migration, fast_context_switch
<1>2. /\ idx'[c] = 1 /\ pc'[c] \in {"reserve", "store", "stamp"}
      /\ pc'[c] = "stamp" => Len(batch[c]) = 0
  <2>1. CASE Enter(c)
    BY <2>1 DEF Enter, Take, fast_syscall_enter, fast_process_wake,
         fast_kmem_alloc, trace_cpu_migration, fast_context_switch, TypeOK
  <2>2. CASE periodic_flush(c)
    BY <2>2, CpuFacts DEF periodic_flush, TypeOK
  <2> QED BY <2>1, <2>2
<1>3. clock[c] <= clock'[c] /\ (InHand(c)' => event'[c].ts = clock[c] + 1)
  <2>1. CASE Enter(c)
    <3>1. clock'[c] = clock[c] + 1 /\ event'[c].ts = clock[c] + 1
      BY <2>1 DEF Enter, Take, fast_syscall_enter, fast_process_wake,
         fast_kmem_alloc, trace_cpu_migration, fast_context_switch, TypeOK
    <3> QED BY <3>1, CpuFacts
  <2>2. CASE periodic_flush(c)
    <3>1. clock' = clock /\ handler'[c] = "periodic_flush"
      BY <2>2 DEF periodic_flush, TypeOK
    <3> QED BY <3>1, CpuFacts DEF InHand, Adder
  <2> QED BY <2>1, <2>2
<1>4. Unsent(c)' = Unsent(c) BY <1>1, <1>2 DEF Unsent, From
<1>5. batch[c] \in Seq(Event) /\ flushed[c] \in Nat /\ clock[c] \in Nat
      /\ clock'[c] \in Nat
  BY NextType DEF TypeOK, Next
<1>6. Len(batch[c]) = 0 => batch[c] = <<>> BY <1>5, EmptySeq
<1> QED BY <1>1, <1>2, <1>3, <1>4, <1>5, <1>6 DEF Age

LEMMA StepAge ==
  ASSUME TypeOK, IInv, NEW c \in CPU, Age(c), Step(c)
  PROVE  Age(c)'
<1> USE DEF Return, history
<1>1. flushed[c] \in Nat /\ clock[c] \in Nat BY DEF TypeOK
<1>2. CASE Reserve(c)
  <2>1. /\ pc[c] = "reserve" /\ pc'[c] = "submit"
        /\ UNCHANGED <<batch, flushed, clock, handler, event, idx>>
    BY <1>2 DEF Reserve, TypeOK
  <2>2. \A i \in Unsent(c)' : i \in Unsent(c)
    BY <2>1, CpuFacts DEF Unsent, From
  <2> QED BY <2>1, <2>2 DEF Age, InHand
<1>3. CASE ReserveFails(c)
  <2>1. /\ pc[c] = "reserve" /\ idx'[c] = idx[c] + 1
        /\ UNCHANGED <<batch, flushed, clock, handler, event, pc>>
    BY <1>3 DEF ReserveFails, TypeOK
  <2>2. \A i \in Unsent(c)' : i \in Unsent(c)
    BY <2>1, CpuFacts DEF Unsent, From
  <2> QED BY <2>1, <2>2 DEF Age, InHand
<1>4. CASE Submit(c)
  <2>1. /\ pc[c] = "submit" /\ pc'[c] = "reserve" /\ idx'[c] = idx[c] + 1
        /\ UNCHANGED <<batch, flushed, clock, handler, event>>
    BY <1>4 DEF Submit, TypeOK
  <2>2. Unsent(c)' = Unsent(c) BY <2>1 DEF Unsent, From
  <2> QED BY <2>1, <2>2 DEF Age, InHand
<1>5. CASE FlushDone(c)
  <2>1. /\ batch'[c] = <<>> /\ UNCHANGED <<flushed, clock, handler, event>>
    BY <1>5 DEF FlushDone, TypeOK
  <2>2. Unsent(c)' = {}
    <3>1. Len(batch'[c]) = 0 /\ pc'[c] \in {"stamp", "store"}
      BY <1>5, <2>1 DEF FlushDone, TypeOK
    <3> QED BY <3>1 DEF Unsent, From
  <2> QED BY <2>1, <2>2 DEF Age, InHand
<1>6. CASE Store(c)
  <2>1. /\ pc[c] = "store" /\ pc'[c] = "idle" /\ InHand(c) /\ ~InHand(c)'
        /\ batch'[c] = Append(batch[c], event[c])
        /\ UNCHANGED <<flushed, clock>>
    BY <1>6 DEF Store, IInv, Control, InHand, Adder, TypeOK
  <2>2. /\ Len(batch'[c]) = Len(batch[c]) + 1
        /\ \A i \in 1 .. Len(batch[c]) : batch'[c][i] = batch[c][i]
        /\ batch'[c][Len(batch[c]) + 1] = event[c]
    BY <2>1, CpuFacts, AppendProperties
  <2>3. Unsent(c) = 1 .. Len(batch[c]) /\ Unsent(c)' = 1 .. Len(batch[c]) + 1
    BY <2>1, <2>2 DEF Unsent, From
  <2>4. ASSUME NEW i \in Unsent(c)' PROVE flushed[c] < batch'[c][i].ts
    <3>1. CASE i = Len(batch[c]) + 1 BY <2>1, <2>2, <3>1 DEF Age
    <3>2. CASE i # Len(batch[c]) + 1
      <4>1. i \in Unsent(c) BY <2>3, <3>2, CpuFacts
      <4> QED BY <2>2, <2>3, <4>1 DEF Age
    <3> QED BY <3>1, <3>2
  <2> QED BY <2>1, <2>4 DEF Age
<1>7. CASE Stamp(c)
  <2>1. /\ pc[c] = "stamp" /\ flushed'[c] = clock[c] /\ UNCHANGED <<batch, clock>>
        /\ pc'[c] = "idle" /\ ~InHand(c)'
    BY <1>7 DEF Stamp, InHand, Adder, TypeOK
  <2>2. Unsent(c)' = {}
    <3>1. Len(batch[c]) = 0 BY <2>1 DEF Age
    <3> QED BY <2>1, <3>1 DEF Unsent, From
  <2> QED BY <1>1, <2>1, <2>2 DEF Age
<1> QED BY <1>2, <1>3, <1>4, <1>5, <1>6, <1>7 DEF Step

LEMMA NextAge ==
  ASSUME TypeOK, IInv, NEW d \in CPU, Age(d), [Next]_vars
  PROVE  Age(d)'
<1>1. CASE UNCHANGED vars
  BY <1>1, OtherAge DEF vars, local
<1>2. CASE Consume
  BY <1>2, OtherAge DEF Consume, local
<1>3. ASSUME NEW c \in CPU, Enter(c) \/ periodic_flush(c) \/ Step(c), c # d
      PROVE  Age(d)'
  <2>1. /\ batch'[d] = batch[d] /\ pc'[d] = pc[d] /\ idx'[d] = idx[d]
        /\ handler'[d] = handler[d] /\ event'[d] = event[d]
        /\ clock'[d] = clock[d] /\ flushed'[d] = flushed[d]
    <3>1. CASE Enter(c)
      <4>1. PICK h \in Adder : Take(c, h)
        BY <3>1 DEF Enter, Adder, fast_syscall_enter, fast_process_wake,
           fast_kmem_alloc, trace_cpu_migration, fast_context_switch
      <4> QED BY <1>3, <4>1 DEF Take, TypeOK
    <3>2. CASE periodic_flush(c) BY <1>3, <3>2 DEF periodic_flush, TypeOK
    <3>3. CASE Step(c)
      <4>1. CASE Reserve(c) BY <1>3, <4>1 DEF Reserve, TypeOK
      <4>2. CASE ReserveFails(c) BY <1>3, <4>2 DEF ReserveFails, TypeOK
      <4>3. CASE Submit(c) BY <1>3, <4>3 DEF Submit, TypeOK
      <4>4. CASE FlushDone(c) BY <1>3, <4>4 DEF FlushDone, TypeOK
      <4>5. CASE Store(c) BY <1>3, <4>5 DEF Store, Return, TypeOK
      <4>6. CASE Stamp(c) BY <1>3, <4>6 DEF Stamp, Return, TypeOK
      <4> QED BY <3>3, <4>1, <4>2, <4>3, <4>4, <4>5, <4>6 DEF Step
    <3> QED BY <1>3, <3>1, <3>2, <3>3
  <2> QED BY <2>1, OtherAge
<1>4. ASSUME NEW c \in CPU, fast_packet_processor(c) PROVE Age(d)'
  BY <1>4, PacketAside, OtherAge
<1> QED BY <1>1, <1>2, <1>3, <1>4, EnterAge, StepAge DEF Next

\* Whatever a batch holds was taken after last_flush_time, though a flush by
\* add_to_batch does not set it and an empty flush does.
THEOREM FlushTimeIsSafe == Spec => []FlushTimeBoundsAge
<1> DEFINE Ages == \A c \in CPU : Age(c)
<1>1. Init => Ages
  <2> SUFFICES ASSUME Init, NEW c \in CPU PROVE Age(c)
    OBVIOUS
  <2>1. Unsent(c) = {} /\ ~InHand(c)
    <3>1. Len(batch[c]) = 0 /\ pc[c] = "idle" /\ handler[c] = "none" BY DEF Init
    <3> QED BY <3>1 DEF Unsent, From, InHand, Adder
  <2> QED BY <2>1 DEF Init, Age
<1>2. TypeOK /\ IInv /\ Ages /\ [Next]_vars => Ages'
  BY NextAge
<1>3. Ages => FlushTimeBoundsAge BY DEF Age, FlushTimeBoundsAge
<1> QED BY <1>1, <1>2, <1>3, TypeCorrect, Invariance, PTL DEF Spec

-----------------------------------------------------------------------------
(* Reserved records.                                                       *)

LEMMA ReserveOpens ==
  ASSUME TypeOK, OneOpenRecord, NEW c \in CPU, Reserve(c)
  PROVE  OneOpenRecord'
<1>1. /\ pc[c] = "reserve" /\ pc'[c] = "submit"
      /\ \A d \in CPU \ {c} : pc'[d] = pc[d]
  BY DEF Reserve, TypeOK
<1>2. /\ DOMAIN ring' = 1 .. Len(ring) + 1
      /\ \A n \in DOMAIN ring : ring'[n] = ring[n]
      /\ ring'[Len(ring) + 1].cpu = c
  <2> DEFINE rec == [cpu |-> c, ev |-> batch[c][idx[c]], busy |-> TRUE]
  <2>1. ring \in Seq(Record) /\ rec \in Record
    <3>1. idx[c] \in 1 .. Len(batch[c]) BY CpuFacts DEF Reserve
    <3>2. batch[c][idx[c]] \in Event BY <3>1, CpuFacts
    <3> QED BY <3>2 DEF TypeOK, Record
  <2>2. rec.cpu = c /\ ring' = Append(ring, rec) BY DEF Reserve
  <2> HIDE DEF rec
  <2> QED BY <2>1, <2>2, AppendProperties, LenProperties
<1>3. ASSUME NEW m \in DOMAIN ring', ring'[m].busy
      PROVE  /\ pc'[ring'[m].cpu] = "submit"
             /\ \A n \in DOMAIN ring' : ring'[n].cpu = ring'[m].cpu => n <= m
  <2>1. CASE m = Len(ring) + 1 BY <1>1, <1>2, <2>1, RingFacts
  <2>2. CASE m # Len(ring) + 1
    <3>1. m \in DOMAIN ring /\ ring[m].busy /\ ring'[m] = ring[m]
      BY <1>2, <1>3, <2>2, RingFacts
    <3>2. ring[m].cpu \in CPU \ {c} /\ pc[ring[m].cpu] = "submit"
      BY <1>1, <3>1, RingFacts DEF OneOpenRecord
    <3> QED BY <1>1, <1>2, <3>1, <3>2, RingFacts DEF OneOpenRecord
  <2> QED BY <2>1, <2>2
<1> QED BY <1>3 DEF OneOpenRecord

LEMMA SubmitCloses ==
  ASSUME TypeOK, OneOpenRecord, NEW c \in CPU, Submit(c)
  PROVE  OneOpenRecord'
<1>1. \A d \in CPU \ {c} : pc'[d] = pc[d] BY DEF Submit, TypeOK
<1>2. /\ DOMAIN ring' = DOMAIN ring
      /\ \A n \in DOMAIN ring :
           /\ ring'[n].cpu = ring[n].cpu
           /\ ring'[n].busy => ring[n].cpu # c /\ ring[n].busy
  <2>1. \A n \in DOMAIN ring : ring[n] \in Record BY RingFacts
  <2> QED BY <2>1 DEF Submit, Record
<1> QED BY <1>1, <1>2, RingFacts DEF OneOpenRecord

LEMMA ConsumeKeepsOpen ==
  ASSUME TypeOK, OneOpenRecord, Consume
  PROVE  OneOpenRecord'
<1>1. ring # <<>> /\ ring \in Seq(Record) BY DEF TypeOK, Consume
<1>2. /\ DOMAIN ring' = 1 .. Len(ring) - 1 /\ pc' = pc
      /\ \A n \in DOMAIN ring' : ring'[n] = ring[n + 1] /\ n + 1 \in DOMAIN ring
  <2>1. /\ Tail(ring) \in Seq(Record) /\ Len(Tail(ring)) = Len(ring) - 1
        /\ \A n \in 1 .. Len(Tail(ring)) : Tail(ring)[n] = ring[n + 1]
    BY <1>1, HeadTailProperties
  <2> QED BY <2>1, RingFacts, LenProperties DEF Consume, local
<1>3. ASSUME NEW m \in DOMAIN ring', ring'[m].busy
      PROVE  /\ pc'[ring'[m].cpu] = "submit"
             /\ \A n \in DOMAIN ring' : ring'[n].cpu = ring'[m].cpu => n <= m
  <2>1. /\ m + 1 \in DOMAIN ring /\ ring[m + 1].busy
        /\ ring'[m] = ring[m + 1]
    BY <1>2, <1>3
  <2>2. \A n \in DOMAIN ring' : ring[n + 1].cpu = ring[m + 1].cpu =>
          n + 1 <= m + 1
    BY <1>2, <2>1 DEF OneOpenRecord
  <2>3. \A n \in DOMAIN ring' : n + 1 <= m + 1 => n <= m
    BY <1>2, <1>3, RingFacts
  <2> QED BY <1>2, <2>1, <2>2, <2>3 DEF OneOpenRecord
<1> QED BY <1>3 DEF OneOpenRecord

LEMMA NextOpen ==
  ASSUME TypeOK, OneOpenRecord, [Next]_vars
  PROVE  OneOpenRecord'
<1>1. CASE UNCHANGED vars BY <1>1 DEF vars, local, OneOpenRecord
<1>2. ASSUME NEW c \in CPU, UNCHANGED ring, pc[c] # "submit",
             \A d \in CPU \ {c} : pc'[d] = pc[d]
      PROVE  OneOpenRecord'
  BY <1>2, RingFacts DEF OneOpenRecord
<1>3. ASSUME NEW c \in CPU, Enter(c) PROVE OneOpenRecord'
  <2>1. PICK h \in Adder : Take(c, h)
    BY <1>3 DEF Enter, Adder, fast_syscall_enter, fast_process_wake,
       fast_kmem_alloc, trace_cpu_migration, fast_context_switch
  <2>2. /\ UNCHANGED ring /\ pc[c] # "submit"
        /\ \A d \in CPU \ {c} : pc'[d] = pc[d]
    BY <2>1 DEF Take, TypeOK
  <2> QED BY <1>2, <2>2
<1>4. ASSUME NEW c \in CPU,
             \/ periodic_flush(c) \/ ReserveFails(c) \/ FlushDone(c)
             \/ Store(c) \/ Stamp(c)
      PROVE  OneOpenRecord'
  <2>1. /\ UNCHANGED ring /\ pc[c] # "submit"
        /\ \A d \in CPU \ {c} : pc'[d] = pc[d]
    BY <1>4 DEF periodic_flush, ReserveFails, FlushDone, Store, Stamp, Return,
                TypeOK
  <2> QED BY <1>2, <2>1
<1>5. ASSUME NEW c \in CPU, fast_packet_processor(c) PROVE OneOpenRecord'
  BY <1>5, PacketAside DEF OneOpenRecord
<1> QED BY <1>1, <1>3, <1>4, <1>5, ReserveOpens, SubmitCloses, ConsumeKeepsOpen
        DEF Next, Step

\* A record the consumer may not pass belongs to a CPU between its reserve and
\* its submit, and is the newest of that CPU.
THEOREM OpenRecordIsNewest == Spec => []OneOpenRecord
<1>1. Init => OneOpenRecord BY DEF Init, OneOpenRecord
<1>2. TypeOK /\ OneOpenRecord /\ [Next]_vars => OneOpenRecord' BY NextOpen
<1> QED BY <1>1, <1>2, TypeCorrect, PTL DEF Spec

-----------------------------------------------------------------------------
(* Where every event is.                                                   *)

InRing(c) == {n \in DOMAIN ring : ring[n].cpu = c}
Left(c) == IF From(c) > Len(batch[c]) THEN 0 ELSE Len(batch[c]) - From(c) + 1
Hand(c) == IF InHand(c) THEN 1 ELSE 0

\* The books of CPU c, with numbers in place of sets.
Balanced(c) == clock[c] = got[c] + lost[c] + dropped[c]
                          + Cardinality(InRing(c)) + Left(c) + Hand(c)

LEMMA Places ==
  ASSUME TypeOK, NEW c \in CPU
  PROVE  /\ IsFiniteSet(InRing(c)) /\ Cardinality(InRing(c)) \in Nat
         /\ Cardinality(Unsent(c)) = Left(c) /\ Left(c) \in Nat
         /\ Hand(c) \in Nat /\ From(c) \in Nat /\ From(c) >= 1
         /\ got[c] \in Nat /\ lost[c] \in Nat /\ dropped[c] \in Nat
<1>1. IsFiniteSet(DOMAIN ring)
  BY RingFacts, FS_Interval
<1>2. IsFiniteSet(InRing(c)) BY <1>1, FS_Subset DEF InRing
<1>3. Cardinality(InRing(c)) \in Nat BY <1>2, FS_CardinalityType
<1>4. From(c) \in Nat /\ From(c) >= 1 /\ Len(batch[c]) \in Nat
  BY CpuFacts DEF From
<1>5. Cardinality(Unsent(c)) = Left(c)
  <2>1. \A a, b \in Int : Cardinality(a .. b) = IF a > b THEN 0 ELSE b - a + 1
    BY FS_Interval
  <2>2. From(c) \in Int /\ Len(batch[c]) \in Int BY <1>4
  <2> QED BY <2>1, <2>2 DEF Unsent, Left
<1>6. Left(c) \in Nat BY <1>4 DEF Left
<1>7. got[c] \in Nat /\ lost[c] \in Nat /\ dropped[c] \in Nat BY DEF TypeOK
<1> QED BY <1>2, <1>3, <1>4, <1>5, <1>6, <1>7 DEF Hand

\* The sizes are numbers, so that what one place loses another may gain.
PlacesIn(c) ==
  /\ got[c] \in Nat /\ lost[c] \in Nat /\ dropped[c] \in Nat
  /\ Cardinality(InRing(c)) \in Nat /\ Left(c) \in Nat /\ Hand(c) \in Nat

LEMMA OtherBalance ==
  ASSUME NEW d \in CPU, Balanced(d), batch'[d] = batch[d], pc'[d] = pc[d],
         idx'[d] = idx[d], handler'[d] = handler[d], clock'[d] = clock[d],
         got'[d] = got[d], lost'[d] = lost[d], dropped'[d] = dropped[d],
         Cardinality(InRing(d)') = Cardinality(InRing(d))
  PROVE  Balanced(d)'
BY DEF Balanced, Left, Hand, From, InHand

LEMMA EnterBalance ==
  ASSUME TypeOK, IInv, NEW c \in CPU, Balanced(c), Enter(c)
  PROVE  Balanced(c)'
<1>1. PICK h \in Adder : Take(c, h)
  BY DEF Enter, Adder, fast_syscall_enter, fast_process_wake, fast_kmem_alloc,
         trace_cpu_migration, fast_context_switch
<1>2. /\ pc[c] = "idle" /\ pc'[c] \in {"reserve", "store"} /\ idx'[c] = 1
      /\ handler[c] = "none" /\ handler'[c] = h /\ clock'[c] = clock[c] + 1
      /\ UNCHANGED <<batch, dropped, ring, lost, got>>
  BY <1>1 DEF Take, history, TypeOK, IInv, Control
<1>3. Left(c)' = Left(c) BY <1>2 DEF Left, From
<1>4. Hand(c) = 0 /\ Hand(c)' = 1 BY <1>1, <1>2 DEF Hand, InHand, Adder
<1>5. InRing(c)' = InRing(c) BY <1>2 DEF InRing
<1> QED BY <1>2, <1>3, <1>4, <1>5, Places, CpuFacts DEF Balanced

LEMMA PeriodicBalance ==
  ASSUME TypeOK, IInv, NEW c \in CPU, Balanced(c), periodic_flush(c)
  PROVE  Balanced(c)'
<1>1. /\ pc[c] = "idle" /\ pc'[c] \in {"reserve", "stamp"} /\ idx'[c] = 1
      /\ handler[c] = "none" /\ handler'[c] = "periodic_flush"
      /\ UNCHANGED <<batch, dropped, ring, lost, got, clock>>
  BY DEF periodic_flush, history, TypeOK, IInv, Control
<1>2. Left(c)' = Left(c) BY <1>1 DEF Left, From
<1>3. Hand(c)' = Hand(c) BY <1>1 DEF Hand, InHand, Adder
<1>4. InRing(c)' = InRing(c) BY <1>1 DEF InRing
<1> QED BY <1>1, <1>2, <1>3, <1>4 DEF Balanced

\* A reserve moves an event from the batch to the ring.
LEMMA ReserveBalance ==
  ASSUME TypeOK, IInv, NEW c \in CPU, Reserve(c), \A d \in CPU : Balanced(d)
  PROVE  \A d \in CPU : Balanced(d)'
<1> DEFINE rec == [cpu |-> c, ev |-> batch[c][idx[c]], busy |-> TRUE]
<1>1. /\ pc[c] = "reserve" /\ pc'[c] = "submit" /\ idx[c] <= Len(batch[c])
      /\ \A d \in CPU \ {c} : pc'[d] = pc[d]
      /\ UNCHANGED <<batch, dropped, lost, got, clock, handler, idx>>
  BY DEF Reserve, history, TypeOK
<1>2. /\ DOMAIN ring' = 1 .. Len(ring) + 1
      /\ \A n \in DOMAIN ring : ring'[n] = ring[n]
      /\ ring'[Len(ring) + 1].cpu = c
  <2>1. ring \in Seq(Record) /\ rec \in Record
    <3>1. idx[c] \in 1 .. Len(batch[c]) BY CpuFacts DEF Reserve
    <3>2. batch[c][idx[c]] \in Event BY <3>1, CpuFacts
    <3> QED BY <3>2 DEF TypeOK, Record
  <2>2. rec.cpu = c /\ ring' = Append(ring, rec) BY DEF Reserve
  <2> HIDE DEF rec
  <2> QED BY <2>1, <2>2, AppendProperties, LenProperties
<1>3. InRing(c)' = InRing(c) \cup {Len(ring) + 1} /\ Len(ring) + 1 \notin InRing(c)
  BY <1>2, RingFacts DEF InRing
<1>4. Cardinality(InRing(c)') = Cardinality(InRing(c)) + 1
  BY <1>3, Places, FS_AddElement
<1>5. Left(c)' = Left(c) - 1 BY <1>1, CpuFacts DEF Left, From
<1>6. Hand(c)' = Hand(c) BY <1>1 DEF Hand, InHand
<1>7. Balanced(c)'
  <2>1. Balanced(c) OBVIOUS
  <2>2. clock[c] = got[c] + lost[c] + dropped[c]
                   + (Cardinality(InRing(c)) + 1) + (Left(c) - 1) + Hand(c)
    <3>1. PlacesIn(c) BY Places DEF PlacesIn
    <3> QED BY <2>1, <3>1 DEF Balanced, PlacesIn
  <2> QED BY <1>1, <1>4, <1>5, <1>6, <2>2 DEF Balanced
<1>8. ASSUME NEW d \in CPU \ {c} PROVE Balanced(d)'
  <2>1. InRing(d)' = InRing(d) BY <1>2, RingFacts DEF InRing
  <2> QED BY <1>1, <2>1, OtherBalance
<1> QED BY <1>7, <1>8

LEMMA ReserveFailsBalance ==
  ASSUME TypeOK, NEW c \in CPU, Balanced(c), ReserveFails(c)
  PROVE  Balanced(c)'
<1>1. /\ pc[c] = "reserve" /\ idx[c] <= Len(batch[c]) /\ idx'[c] = idx[c] + 1
      /\ lost'[c] = lost[c] + 1
      /\ UNCHANGED <<batch, dropped, got, clock, handler, pc, ring>>
  BY DEF ReserveFails, TypeOK
<1>2. Left(c)' = Left(c) - 1 BY <1>1, CpuFacts DEF Left, From
<1>3. Hand(c)' = Hand(c) BY <1>1 DEF Hand, InHand
<1>4. InRing(c)' = InRing(c) BY <1>1 DEF InRing
<1>5. clock[c] = got[c] + (lost[c] + 1) + dropped[c]
                 + Cardinality(InRing(c)) + (Left(c) - 1) + Hand(c)
  <2>1. PlacesIn(c) BY Places DEF PlacesIn
  <2> QED BY <2>1 DEF Balanced, PlacesIn
<1> QED BY <1>1, <1>2, <1>3, <1>4, <1>5 DEF Balanced

LEMMA SubmitBalance ==
  ASSUME TypeOK, NEW c \in CPU, Submit(c), \A d \in CPU : Balanced(d)
  PROVE  \A d \in CPU : Balanced(d)'
<1>1. /\ pc[c] = "submit" /\ pc'[c] = "reserve" /\ idx'[c] = idx[c] + 1
      /\ \A d \in CPU \ {c} : pc'[d] = pc[d] /\ idx'[d] = idx[d]
      /\ UNCHANGED <<batch, dropped, lost, got, clock, handler>>
  BY DEF Submit, history, TypeOK
<1>2. \A n \in DOMAIN ring : ring[n] \in Record BY RingFacts
<1>3. /\ DOMAIN ring' = DOMAIN ring
      /\ \A n \in DOMAIN ring : ring'[n].cpu = ring[n].cpu
  BY <1>2 DEF Submit, Record
<1>4. \A d \in CPU : InRing(d)' = InRing(d) BY <1>3 DEF InRing
<1>5. Left(c)' = Left(c) /\ Hand(c)' = Hand(c)
  BY <1>1 DEF Left, From, Hand, InHand
<1>6. Balanced(c)' BY <1>1, <1>4, <1>5 DEF Balanced
<1> QED BY <1>1, <1>4, <1>6, OtherBalance

LEMMA FlushDoneBalance ==
  ASSUME TypeOK, NEW c \in CPU, Balanced(c), FlushDone(c)
  PROVE  Balanced(c)'
<1>1. /\ pc[c] = "reserve" /\ idx[c] > Len(batch[c]) /\ batch'[c] = <<>>
      /\ pc'[c] \in {"stamp", "store"}
      /\ UNCHANGED <<dropped, lost, got, clock, handler, ring>>
  BY DEF FlushDone, history, TypeOK
<1>2. Left(c) = 0 BY <1>1 DEF Left, From
<1>3. Left(c)' = 0
  <2>1. Len(batch'[c]) = 0 BY <1>1
  <2> QED BY <1>1, <2>1 DEF Left, From
<1>4. Hand(c)' = Hand(c) BY <1>1 DEF Hand, InHand
<1>5. InRing(c)' = InRing(c) BY <1>1 DEF InRing
<1> QED BY <1>1, <1>2, <1>3, <1>4, <1>5 DEF Balanced

LEMMA StoreBalance ==
  ASSUME TypeOK, IInv, NEW c \in CPU, Balanced(c), Store(c)
  PROVE  Balanced(c)'
<1>1. /\ pc[c] = "store" /\ pc'[c] = "idle" /\ InHand(c)
      /\ handler'[c] = "none" /\ batch'[c] = Append(batch[c], event[c])
      /\ UNCHANGED <<dropped, lost, got, clock, ring>>
  BY DEF Store, Return, history, IInv, Control, InHand, TypeOK
<1>2. Len(batch'[c]) = Len(batch[c]) + 1
  BY <1>1, CpuFacts, AppendProperties
<1>3. Left(c) = Len(batch[c]) /\ Left(c)' = Len(batch[c]) + 1
  BY <1>1, <1>2, CpuFacts DEF Left, From
<1>4. Hand(c) = 1 /\ Hand(c)' = 0 BY <1>1 DEF Hand, InHand, Adder
<1>5. InRing(c)' = InRing(c) BY <1>1 DEF InRing
<1>6. clock[c] = got[c] + lost[c] + dropped[c] + Cardinality(InRing(c))
                 + (Left(c) + 1) + (Hand(c) - 1)
  <2>1. PlacesIn(c) BY Places DEF PlacesIn
  <2> QED BY <2>1 DEF Balanced, PlacesIn
<1> QED BY <1>1, <1>3, <1>4, <1>5, <1>6 DEF Balanced

LEMMA StampBalance ==
  ASSUME TypeOK, IInv, NEW c \in CPU, Balanced(c), Stamp(c)
  PROVE  Balanced(c)'
<1>1. /\ pc[c] = "stamp" /\ pc'[c] = "idle"
      /\ handler[c] = "periodic_flush" /\ handler'[c] = "none"
      /\ UNCHANGED <<batch, dropped, lost, got, clock, ring, idx>>
  BY DEF Stamp, Return, history, IInv, Control, TypeOK
<1>2. Left(c)' = Left(c) /\ Hand(c)' = Hand(c)
  BY <1>1 DEF Left, From, Hand, InHand, Adder
<1>3. InRing(c)' = InRing(c) BY <1>1 DEF InRing
<1> QED BY <1>1, <1>2, <1>3 DEF Balanced

\* The records that stay when the first leaves are as many as those behind it.
LEMMA TailCounts ==
  ASSUME TypeOK, NEW d \in CPU, Consume
  PROVE  Cardinality(InRing(d)') = Cardinality(InRing(d) \ {1})
<1> DEFINE S == InRing(d) \ {1}
           T == InRing(d)'
           f == [n \in S |-> n - 1]
<1>1. ring # <<>> /\ ring \in Seq(Record) BY DEF TypeOK, Consume
<1>2. /\ DOMAIN ring' = 1 .. Len(ring) - 1
      /\ \A n \in DOMAIN ring' : ring'[n] = ring[n + 1]
  <2>1. /\ Tail(ring) \in Seq(Record) /\ Len(Tail(ring)) = Len(ring) - 1
        /\ \A n \in 1 .. Len(Tail(ring)) : Tail(ring)[n] = ring[n + 1]
    BY <1>1, HeadTailProperties
  <2> QED BY <2>1, LenProperties DEF Consume
<1>3. \A n \in S : n - 1 \in T BY <1>2, RingFacts DEF InRing
<1>4. \A n \in T : n + 1 \in S /\ (n + 1) - 1 = n BY <1>2, RingFacts DEF InRing
<1>5. S \subseteq Nat BY RingFacts DEF InRing
<1> HIDE DEF S, T
<1>6. f \in [S -> T] BY <1>3
<1>7. \A m, n \in S : f[m] = f[n] => m = n BY <1>5
<1>8. \A t \in T : \E n \in S : f[n] = t BY <1>4
<1>9. f \in Bijection(S, T)
  <2> HIDE DEF f
  <2>1. DOMAIN f = S BY <1>6
  <2>2. IsInjective(f) BY <2>1, <1>7 DEF IsInjective
  <2> QED BY <1>6, <2>2, <1>8 DEF Bijection, Injection, Surjection
<1>10. IsFiniteSet(S) BY Places, FS_RemoveElement DEF S
<1>11. Cardinality(T) = Cardinality(S)
  BY <1>9, <1>10, FS_Bijection DEF ExistsBijection
<1> QED BY <1>11 DEF S, T

LEMMA ConsumeBalance ==
  ASSUME TypeOK, Consume, \A d \in CPU : Balanced(d)
  PROVE  \A d \in CPU : Balanced(d)'
<1>1. 1 \in DOMAIN ring /\ Head(ring) = ring[1] /\ ring[1].cpu \in CPU
  <2>1. ring # <<>> /\ ring \in Seq(Record) BY DEF TypeOK, Consume
  <2>2. Len(ring) \in Nat \ {0} BY <2>1, EmptySeq
  <2>3. Head(ring) = ring[1] BY <2>1
  <2> QED BY <2>2, <2>3, RingFacts
<1> PICK k \in CPU : k = ring[1].cpu BY <1>1
<1>2. /\ got'[k] = got[k] + 1 /\ \A d \in CPU \ {k} : got'[d] = got[d]
      /\ UNCHANGED <<batch, dropped, lost, clock, pc, idx, handler>>
  BY <1>1 DEF Consume, local, TypeOK
<1>3. 1 \in InRing(k) /\ \A d \in CPU \ {k} : 1 \notin InRing(d)
  BY <1>1 DEF InRing
<1>4. /\ Cardinality(InRing(k)') = Cardinality(InRing(k)) - 1
      /\ \A d \in CPU \ {k} : Cardinality(InRing(d)') = Cardinality(InRing(d))
  BY <1>3, Places, TailCounts, FS_RemoveElement
<1>5. Left(k)' = Left(k) /\ Hand(k)' = Hand(k)
  BY <1>2 DEF Left, From, Hand, InHand
<1>6. Balanced(k)'
  <2>1. PlacesIn(k) BY Places DEF PlacesIn
  <2>2. clock[k] = (got[k] + 1) + lost[k] + dropped[k]
                   + (Cardinality(InRing(k)) - 1) + Left(k) + Hand(k)
    BY <2>1 DEF Balanced, PlacesIn
  <2> QED BY <1>2, <1>4, <1>5, <2>2 DEF Balanced
<1> QED BY <1>2, <1>4, <1>6, OtherBalance

LEMMA NextBalance ==
  ASSUME TypeOK, IInv, \A d \in CPU : Balanced(d), [Next]_vars
  PROVE  \A d \in CPU : Balanced(d)'
<1>1. CASE UNCHANGED vars
  BY <1>1 DEF vars, local, history, Balanced, InRing, Left, From, Hand, InHand
<1>2. ASSUME NEW c \in CPU, Balanced(c)', UNCHANGED ring,
             \A d \in CPU \ {c} :
               /\ batch'[d] = batch[d] /\ pc'[d] = pc[d] /\ idx'[d] = idx[d]
               /\ handler'[d] = handler[d] /\ clock'[d] = clock[d]
               /\ got'[d] = got[d] /\ lost'[d] = lost[d]
               /\ dropped'[d] = dropped[d]
      PROVE  \A d \in CPU : Balanced(d)'
  <2>1. \A d \in CPU : InRing(d)' = InRing(d) BY <1>2 DEF InRing
  <2> QED BY <1>2, <2>1, OtherBalance
<1>3. ASSUME NEW c \in CPU, Enter(c) PROVE \A d \in CPU : Balanced(d)'
  <2>1. PICK h \in Adder : Take(c, h)
    BY <1>3 DEF Enter, Adder, fast_syscall_enter, fast_process_wake,
       fast_kmem_alloc, trace_cpu_migration, fast_context_switch
  <2>2. Balanced(c)' BY <1>3, EnterBalance
  <2> QED BY <1>2, <2>1, <2>2 DEF Take, history, TypeOK
<1>4. ASSUME NEW c \in CPU, periodic_flush(c)
      PROVE  \A d \in CPU : Balanced(d)'
  <2>1. Balanced(c)' BY <1>4, PeriodicBalance
  <2> QED BY <1>2, <1>4, <2>1 DEF periodic_flush, history, TypeOK
<1>5. ASSUME NEW c \in CPU, ReserveFails(c) PROVE \A d \in CPU : Balanced(d)'
  <2>1. Balanced(c)' BY <1>5, ReserveFailsBalance
  <2> QED BY <1>2, <1>5, <2>1 DEF ReserveFails, TypeOK
<1>6. ASSUME NEW c \in CPU, FlushDone(c) PROVE \A d \in CPU : Balanced(d)'
  <2>1. Balanced(c)' BY <1>6, FlushDoneBalance
  <2> QED BY <1>2, <1>6, <2>1 DEF FlushDone, history, TypeOK
<1>7. ASSUME NEW c \in CPU, Store(c) PROVE \A d \in CPU : Balanced(d)'
  <2>1. Balanced(c)' BY <1>7, StoreBalance
  <2>2. UNCHANGED dropped BY <1>7 DEF Store, IInv, Control
  <2> QED BY <1>2, <1>7, <2>1, <2>2 DEF Store, Return, history, TypeOK
<1>8. ASSUME NEW c \in CPU, Stamp(c) PROVE \A d \in CPU : Balanced(d)'
  <2>1. Balanced(c)' BY <1>8, StampBalance
  <2> QED BY <1>2, <1>8, <2>1 DEF Stamp, Return, history, TypeOK
<1>9. ASSUME NEW c \in CPU, fast_packet_processor(c) PROVE \A d \in CPU : Balanced(d)'
  BY <1>9, PacketAside DEF Balanced, InRing, Left, From, Hand, InHand
<1> QED BY <1>1, <1>3, <1>4, <1>5, <1>6, <1>7, <1>8, <1>9, ReserveBalance,
           SubmitBalance, ConsumeBalance DEF Next, Step

\* Every event taken is with the consumer, in the ring, in the batch, in the
\* handler's hand, or lost to a failed reserve, and in one of them only.
THEOREM EventsConserved == Spec => []Conserved
<1> DEFINE AllBalanced == \A d \in CPU : Balanced(d)
<1>1. Init => AllBalanced
  <2> SUFFICES ASSUME Init, NEW d \in CPU PROVE Balanced(d)
    OBVIOUS
  <2>1. InRing(d) = {} BY DEF Init, InRing
  <2>2. Left(d) = 0 /\ Hand(d) = 0
    BY DEF Init, Left, From, Hand, InHand, Adder
  <2> QED BY <2>1, <2>2, FS_EmptySet DEF Balanced, Init
<1>2. AllBalanced /\ TypeOK /\ IInv /\ [Next]_vars => AllBalanced'
  BY NextBalance
<1>3. TypeOK /\ AllBalanced => Conserved
  BY Places DEF Conserved, Balanced, InRing, Hand
<1> HIDE DEF AllBalanced
<1> QED BY <1>1, <1>2, <1>3, TypeCorrect, Invariance, PTL DEF Spec

-----------------------------------------------------------------------------
(* The numbers of the events, and total_events.                            *)

\* What atomic_add_stats does to each counter of its CPU, and to the others.
LEMMA AddStatsAt ==
  ASSUME TypeOK, NEW c \in CPU, NEW S, AddStats(c, S)
  PROVE  /\ \A k \in StatIndex :
              /\ stats'[c][k] = stats[c][k] + (IF k \in S \cap CountedIndex THEN 1 ELSE 0)
              /\ reported'[c][k] = reported[c][k] + (IF k \in S THEN 1 ELSE 0)
         /\ \A d \in CPU \ {c} : stats'[d] = stats[d] /\ reported'[d] = reported[d]
<1>1. stats \in [CPU -> [StatIndex -> Nat]] /\ reported \in [CPU -> [StatIndex -> Nat]]
  BY DEF TypeOK
<1> DEFINE row == [i \in StatIndex |-> IF i \in S \cap CountedIndex
                                         THEN stats[c][i] + 1 ELSE stats[c][i]]
           told == [i \in StatIndex |-> IF i \in S THEN reported[c][i] + 1 ELSE reported[c][i]]
<1>2. stats' = [stats EXCEPT ![c] = row] /\ reported' = [reported EXCEPT ![c] = told]
  BY DEF AddStats
<1>3. \A k \in StatIndex :
        /\ row[k] = stats[c][k] + (IF k \in S \cap CountedIndex THEN 1 ELSE 0)
        /\ told[k] = reported[c][k] + (IF k \in S THEN 1 ELSE 0)
  BY <1>1
<1> HIDE DEF row, told
<1> QED BY <1>1, <1>2, <1>3

\* A handler leaves everything of the other CPUs alone.
LEMMA OtherCpu ==
  ASSUME TypeOK, NEW c \in CPU, Enter(c) \/ periodic_flush(c) \/ Step(c),
         NEW d \in CPU, d # c
  PROVE  /\ batch'[d] = batch[d] /\ pc'[d] = pc[d] /\ handler'[d] = handler[d]
         /\ event'[d] = event[d] /\ clock'[d] = clock[d]
         /\ stats'[d] = stats[d] /\ reported'[d] = reported[d]
         /\ packets'[d] = packets[d]
<1> USE DEF history
<1>1. CASE Enter(c)
  <2>1. PICK h \in Adder : Take(c, h)
    BY <1>1 DEF Enter, Adder, fast_syscall_enter, fast_process_wake,
       fast_kmem_alloc, trace_cpu_migration, fast_context_switch
  <2>2. UNCHANGED <<stats, reported>> \/ \E S : AddStats(c, S)
    BY <1>1 DEF Enter, fast_syscall_enter, fast_process_wake,
       fast_kmem_alloc, trace_cpu_migration, fast_context_switch
  <2>3. stats'[d] = stats[d] /\ reported'[d] = reported[d]
    BY <2>2, AddStatsAt
  <2> QED BY <2>1, <2>3 DEF Take, TypeOK
<1>2. CASE periodic_flush(c) BY <1>2 DEF periodic_flush, TypeOK
<1>3. CASE Step(c)
  <2>1. CASE Reserve(c) BY <2>1 DEF Reserve, TypeOK
  <2>2. CASE ReserveFails(c) BY <2>2 DEF ReserveFails, TypeOK
  <2>3. CASE Submit(c) BY <2>3 DEF Submit, TypeOK
  <2>4. CASE FlushDone(c)
    <3>1. stats'[d] = stats[d] /\ reported'[d] = reported[d]
      BY <2>4, AddStatsAt DEF FlushDone
    <3> QED BY <2>4, <3>1 DEF FlushDone, TypeOK
  <2>5. CASE Store(c)
    <3>1. \E S : AddStats(c, S) BY <2>5 DEF Store
    <3>2. stats'[d] = stats[d] /\ reported'[d] = reported[d] BY <3>1, AddStatsAt
    <3> QED BY <2>5, <3>2 DEF Store, Return, TypeOK
  <2>6. CASE Stamp(c) BY <2>6 DEF Stamp, Return, TypeOK
  <2> QED BY <1>3, <2>1, <2>2, <2>3, <2>4, <2>5, <2>6 DEF Step
<1> QED BY <1>1, <1>2, <1>3

\* The event in hand carries the count of a batch that is full and under
\* flush, or of the batch it is about to enter, or of the one just flushed.
Numbered(c) ==
  /\ \A i \in 1 .. Len(batch[c]) :
       batch[c][i].batch_id = i - 1 \/ (i = 1 /\ batch[c][i].batch_id = MaxBatch)
  /\ InHand(c) /\ pc[c] \in {"reserve", "submit"} => event[c].batch_id = MaxBatch
  /\ pc[c] = "store" => \/ event[c].batch_id = Len(batch[c])
                        \/ Len(batch[c]) = 0 /\ event[c].batch_id = MaxBatch

LEMMA NextNumbered ==
  ASSUME TypeOK, IInv, NEW c \in CPU, Numbered(c), [Next]_vars
  PROVE  Numbered(c)'
<1> USE DEF Return, history
<1>0. batch[c] \in Seq(Event) /\ Len(batch[c]) \in Nat /\ Control(c)
  BY CpuFacts DEF IInv
<1>1. ASSUME UNCHANGED <<batch, handler, event>>, pc'[c] \in {"reserve", "submit"},
             pc[c] \in {"reserve", "submit"}
      PROVE  Numbered(c)'
  BY <1>1 DEF Numbered, InHand
<1>2. CASE UNCHANGED vars \/ Consume
  BY <1>2 DEF vars, local, Consume, Numbered, InHand
<1>3. ASSUME NEW d \in CPU, Enter(d) \/ periodic_flush(d) \/ Step(d), d # c
      PROVE  Numbered(c)'
  <2>1. /\ batch'[c] = batch[c] /\ pc'[c] = pc[c] /\ handler'[c] = handler[c]
        /\ event'[c] = event[c]
    BY <1>3, OtherCpu
  <2> QED BY <2>1 DEF Numbered, InHand
<1>4. CASE Enter(c)
  <2>1. PICK h \in Adder : Take(c, h)
    BY <1>4 DEF Enter, Adder, fast_syscall_enter, fast_process_wake,
       fast_kmem_alloc, trace_cpu_migration, fast_context_switch
  <2>2. /\ batch'[c] = batch[c] /\ event'[c].batch_id = Len(batch[c])
        /\ pc'[c] = IF Len(batch[c]) >= MaxBatch THEN "reserve" ELSE "store"
    BY <2>1 DEF Take, TypeOK, BatchId, IsFull
  <2>3. Len(batch[c]) >= MaxBatch => Len(batch[c]) = MaxBatch
    BY <1>0, MaxBatchAssumption DEF Control
  <2> QED BY <2>2, <2>3 DEF Numbered
<1>5. CASE periodic_flush(c)
  <2>1. batch' = batch /\ pc'[c] \in {"reserve", "stamp"} /\ ~InHand(c)'
    BY <1>5 DEF periodic_flush, InHand, Adder, TypeOK
  <2> QED BY <2>1 DEF Numbered
<1>6. CASE Reserve(c) BY <1>1, <1>6 DEF Reserve, TypeOK
<1>7. CASE ReserveFails(c) BY <1>1, <1>7 DEF ReserveFails
<1>8. CASE Submit(c) BY <1>1, <1>8 DEF Submit, TypeOK
<1>9. CASE FlushDone(c)
  <2>1. /\ batch'[c] = <<>> /\ UNCHANGED <<handler, event>> /\ pc[c] = "reserve"
        /\ pc'[c] = IF handler[c] = "periodic_flush" THEN "stamp" ELSE "store"
    BY <1>9 DEF FlushDone, AfterFlush, TypeOK
  <2>2. Len(batch'[c]) = 0 BY <2>1
  <2>3. pc'[c] = "store" => InHand(c)
    BY <1>0, <2>1 DEF Control, InHand, TypeOK, Handler
  <2> QED BY <2>1, <2>2, <2>3 DEF Numbered
<1>10. CASE Store(c)
  <2>1. /\ pc[c] = "store" /\ pc'[c] = "idle"
        /\ batch'[c] = Append(batch[c], event[c])
    BY <1>0, <1>10 DEF Store, Control, TypeOK
  <2>2. /\ Len(batch'[c]) = Len(batch[c]) + 1
        /\ \A i \in 1 .. Len(batch[c]) : batch'[c][i] = batch[c][i]
        /\ batch'[c][Len(batch[c]) + 1] = event[c]
    BY <2>1, CpuFacts, AppendProperties
  <2>3. ASSUME NEW i \in 1 .. Len(batch'[c])
        PROVE  \/ batch'[c][i].batch_id = i - 1
               \/ i = 1 /\ batch'[c][i].batch_id = MaxBatch
    <3>1. CASE i = Len(batch[c]) + 1 BY <1>0, <2>1, <2>2, <3>1 DEF Numbered
    <3>2. CASE i # Len(batch[c]) + 1
      <4>1. i \in 1 .. Len(batch[c]) BY <1>0, <2>2, <3>2
      <4> QED BY <2>2, <4>1 DEF Numbered
    <3> QED BY <3>1, <3>2
  <2> QED BY <2>1, <2>3 DEF Numbered
<1>11. CASE Stamp(c) BY <1>11 DEF Stamp, Numbered, TypeOK
<1>12. ASSUME NEW d \in CPU, fast_packet_processor(d) PROVE Numbered(c)'
  BY <1>12, PacketAside DEF Numbered, InHand
<1> QED BY <1>2, <1>3, <1>4, <1>5, <1>6, <1>7, <1>8, <1>9, <1>10, <1>11, <1>12 DEF Next, Step

\* The batch_id of an event is its place, or for the first event after an
\* overflow the size of the batch flushed before, for any sizes.
THEOREM NumbersArePlaces == Spec => []BatchIdIsPlace
<1> DEFINE Numbers == \A c \in CPU : Numbered(c)
<1>1. Init => Numbers
  BY DEF Init, Numbered
<1>2. TypeOK /\ IInv /\ Numbers /\ [Next]_vars => Numbers'
  BY NextNumbered
<1>3. TypeOK /\ Numbers => BatchIdIsPlace
  <2> SUFFICES ASSUME TypeOK, Numbers, NEW c \in CPU, NEW i \in DOMAIN batch[c]
               PROVE  \/ batch[c][i].batch_id = i - 1
                      \/ i = 1 /\ batch[c][i].batch_id = MaxBatch
    BY DEF BatchIdIsPlace
  <2>1. i \in 1 .. Len(batch[c])
    BY CpuFacts
  <2> QED BY <2>1 DEF Numbered
<1> QED BY <1>1, <1>2, <1>3, TypeCorrect, Invariance, PTL DEF Spec

\* 1 while the running handler has taken an event it will count.
Owed(c) == IF InHand(c) /\ handler[c] # "cpu_migration" THEN 1 ELSE 0
Totalled(c) == clock[c] + packets[c] = stats[c][0] + reported[c][4] + Owed(c)

LEMMA NextTotalled ==
  ASSUME TypeOK, IInv, NEW c \in CPU, Totalled(c), [Next]_vars
  PROVE  Totalled(c)'
<1> USE DEF Return, history
<1>0. /\ clock[c] \in Nat /\ stats[c][0] \in Nat /\ reported[c][4] \in Nat /\ Control(c)
      /\ packets[c] \in Nat
      /\ 0 \in StatIndex /\ 4 \in StatIndex
  <2>1. 0 \in StatIndex /\ 4 \in StatIndex BY DEF StatIndex
  <2>2. stats[c] \in [StatIndex -> Nat] /\ reported[c] \in [StatIndex -> Nat]
    BY DEF TypeOK
  <2>3. clock[c] \in Nat /\ packets[c] \in Nat BY DEF TypeOK
  <2>4. Control(c) BY DEF IInv
  <2> QED BY <2>1, <2>2, <2>3, <2>4
<1>1. ASSUME UNCHANGED <<clock, packets, stats, reported, handler>> PROVE Totalled(c)'
  BY <1>1 DEF Totalled, Owed, InHand
<1>2. CASE UNCHANGED vars \/ Consume
  BY <1>1, <1>2 DEF vars, local, Consume
<1>3. ASSUME NEW d \in CPU, Enter(d) \/ periodic_flush(d) \/ Step(d), d # c
      PROVE  Totalled(c)'
  <2>1. /\ handler'[c] = handler[c] /\ clock'[c] = clock[c]
        /\ stats'[c] = stats[c] /\ reported'[c] = reported[c] /\ packets'[c] = packets[c]
    BY <1>3, OtherCpu
  <2> QED BY <2>1 DEF Totalled, Owed, InHand
<1>4. CASE Enter(c)
  <2>1. PICK h \in Adder :
          /\ Take(c, h)
          /\ \/ h # "cpu_migration" /\ UNCHANGED <<stats, reported>>
             \/ h # "cpu_migration" /\ (AddStats(c, {5}) \/ AddStats(c, {6}))
             \/ h = "cpu_migration" /\ AddStats(c, {4})
    BY <1>4 DEF Enter, Adder, fast_syscall_enter, fast_process_wake,
       fast_kmem_alloc, trace_cpu_migration, fast_context_switch
  <2>2. /\ clock'[c] = clock[c] + 1 /\ handler'[c] = h /\ pc[c] = "idle"
        /\ packets' = packets
    BY <2>1 DEF Take, TypeOK
  <2>3. Owed(c) = 0 BY <1>0, <2>2 DEF Control, Owed, InHand, Adder
  <2>4. Owed(c)' = IF h = "cpu_migration" THEN 0 ELSE 1
    BY <2>2 DEF Owed, InHand
  <2>5. /\ stats'[c][0] = stats[c][0]
        /\ reported'[c][4] = reported[c][4] + (IF h = "cpu_migration" THEN 1 ELSE 0)
    <3>1. CASE h # "cpu_migration" /\ UNCHANGED <<stats, reported>> BY <1>0, <3>1
    <3>2. CASE h # "cpu_migration" /\ (AddStats(c, {5}) \/ AddStats(c, {6}))
      BY <1>0, <3>2, AddStatsAt
    <3>3. CASE h = "cpu_migration" /\ AddStats(c, {4})
      BY <1>0, <3>3, AddStatsAt DEF CountedIndex
    <3> QED BY <2>1, <3>1, <3>2, <3>3
  <2> QED BY <1>0, <2>2, <2>3, <2>4, <2>5 DEF Totalled
<1>5. CASE periodic_flush(c)
  <2>1. /\ UNCHANGED <<clock, packets, stats, reported>> /\ handler'[c] = "periodic_flush"
        /\ pc[c] = "idle"
    BY <1>5 DEF periodic_flush, TypeOK
  <2>2. Owed(c) = 0 /\ Owed(c)' = 0
    BY <1>0, <2>1 DEF Control, Owed, InHand, Adder
  <2> QED BY <2>1, <2>2 DEF Totalled
<1>6. CASE Reserve(c) BY <1>1, <1>6 DEF Reserve
<1>7. CASE ReserveFails(c) BY <1>1, <1>7 DEF ReserveFails
<1>8. CASE Submit(c) BY <1>1, <1>8 DEF Submit
<1>9. CASE FlushDone(c)
  <2>1. UNCHANGED <<clock, packets, handler>> /\ AddStats(c, {3}) BY <1>9 DEF FlushDone
  <2>2. stats'[c][0] = stats[c][0] /\ reported'[c][4] = reported[c][4]
    BY <1>0, <2>1, AddStatsAt
  <2> QED BY <2>1, <2>2 DEF Totalled, Owed, InHand
<1>10. CASE Store(c)
  <2>1. /\ pc[c] = "store" /\ UNCHANGED <<clock, packets>> /\ handler'[c] = "none"
        /\ AddStats(c, IF handler[c] = "cpu_migration" THEN {} ELSE {0})
    <3>1. pc[c] = "store" /\ Len(batch[c]) < MaxBatch
      BY <1>0, <1>10 DEF Store, Control
    <3>2. AddStats(c, {} \cup (IF handler[c] = "cpu_migration" THEN {} ELSE {0}))
      BY <1>10, <3>1 DEF Store
    <3>3. {} \cup (IF handler[c] = "cpu_migration" THEN {} ELSE {0})
          = IF handler[c] = "cpu_migration" THEN {} ELSE {0}
      OBVIOUS
    <3> QED BY <1>10, <3>1, <3>2, <3>3 DEF Store, TypeOK
  <2>2. Owed(c) = (IF handler[c] = "cpu_migration" THEN 0 ELSE 1) /\ Owed(c)' = 0
    BY <1>0, <2>1 DEF Control, Owed, InHand, Adder
  <2>3. /\ stats'[c][0] = stats[c][0] + (IF handler[c] = "cpu_migration" THEN 0 ELSE 1)
        /\ reported'[c][4] = reported[c][4]
    <3>1. CASE handler[c] = "cpu_migration"
      <4>1. AddStats(c, {}) BY <2>1, <3>1
      <4> QED BY <1>0, <3>1, <4>1, AddStatsAt
    <3>2. CASE handler[c] # "cpu_migration"
      <4>1. AddStats(c, {0}) BY <2>1, <3>2
      <4> QED BY <1>0, <3>2, <4>1, AddStatsAt DEF CountedIndex
    <3> QED BY <3>1, <3>2
  <2> QED BY <1>0, <2>1, <2>2, <2>3 DEF Totalled
<1>11. CASE Stamp(c)
  <2>1. /\ UNCHANGED <<clock, packets, stats, reported>> /\ handler'[c] = "none"
        /\ handler[c] = "periodic_flush"
    BY <1>0, <1>11 DEF Stamp, Control, TypeOK
  <2>2. Owed(c) = 0 /\ Owed(c)' = 0 BY <2>1 DEF Owed, InHand, Adder
  <2> QED BY <2>1, <2>2 DEF Totalled
<1>12. ASSUME NEW d \in CPU, fast_packet_processor(d) PROVE Totalled(c)'
  <2>1. UNCHANGED <<clock, handler>> /\ Owed(c)' = Owed(c)
    BY <1>12, PacketAside DEF Owed, InHand
  <2>2. CASE d = c
    <3>1. stats'[c][0] = stats[c][0] + 1 /\ reported'[c][4] = reported[c][4]
      BY <1>0, <1>12, <2>2, PacketAside, AddStatsAt DEF CountedIndex
    <3>2. packets'[c] = packets[c] + 1
      BY <1>12, <2>2, PacketAside DEF TypeOK
    <3>3. Owed(c) \in Nat BY DEF Owed
    <3> QED BY <1>0, <2>1, <3>1, <3>2, <3>3 DEF Totalled
  <2>3. CASE d # c
    <3>1. stats'[c] = stats[c] /\ reported'[c] = reported[c]
      BY <1>12, <2>3, PacketAside, AddStatsAt
    <3>2. packets'[c] = packets[c]
      BY <1>12, <2>3, PacketAside DEF TypeOK
    <3> QED BY <2>1, <3>1, <3>2 DEF Totalled
  <2> QED BY <2>2, <2>3
<1> QED BY <1>2, <1>3, <1>4, <1>5, <1>6, <1>7, <1>8, <1>9, <1>10, <1>11, <1>12 DEF Next, Step

\* total_events counts every packet and every event but the migrations, which
\* are counted under an index that has no counter, whatever handler a packet
\* interrupts.
THEOREM TotalsAddUp == Spec => []TotalCounts
<1> DEFINE Totals == \A c \in CPU : Totalled(c)
<1>1. Init => Totals
  BY DEF Init, Totalled, Owed, InHand, Adder, StatIndex
<1>2. TypeOK /\ IInv /\ Totals /\ [Next]_vars => Totals'
  BY NextTotalled
<1>3. Totals => TotalCounts
  BY DEF Totalled, Owed, TotalCounts
<1> QED BY <1>1, <1>2, <1>3, TypeCorrect, Invariance, PTL DEF Spec
=============================================================================
