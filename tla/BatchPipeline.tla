---------------------------- MODULE BatchPipeline ----------------------------
(***************************************************************************)
(* The event path of performance_optimized.bpf.c.  The programs attached   *)
(* to a CPU put events into that CPU's batch (per_cpu_batches); a full     *)
(* batch, or the perf_event program periodic_flush, copies the batch       *)
(* record by record into the ring buffer fast_events that all CPUs share.  *)
(*                                                                         *)
(* The kernel runs one of these programs at a time on a CPU, so a handler  *)
(* interleaves with the handlers of other CPUs and with the consumer of    *)
(* the ring, never with another handler of its own CPU.  Only the XDP      *)
(* program fast_packet_processor may interrupt one: it shares nothing with *)
(* them but the counter total_events (its own ring is in SharedRing).  A   *)
(* handler is cut where another CPU, a packet or the consumer can tell: at *)
(* every reserve and every submit.  A timestamp is the CPU's own count of  *)
(* events taken; the data of an event is left out.                         *)
(***************************************************************************)
EXTENDS Integers, Sequences, FiniteSets

CONSTANTS
  CPU,        \* the processors
  Pid,        \* process identifiers, a set of naturals
  MaxBatch,   \* MAX_BATCH_SIZE
  RingCap,    \* records fast_events holds before a reserve fails
  CacheCap,   \* entries process_cache keeps on each CPU
  Attached,   \* the programs the loader has attached
  Rate,       \* perf_config[0], the sampling rate; 0 when not configured
  MaxClock,   \* bound of the model: events taken on each CPU
  MaxPackets  \* bound of the model: IPv4 packets that reach each CPU

ASSUME PidAssumption      == Pid \subseteq Nat
ASSUME MaxBatchAssumption == MaxBatch \in Nat \ {0}
ASSUME RingCapAssumption  == RingCap \in Nat
ASSUME CacheAssumption    == CacheCap \in Nat \ {0}
ASSUME RateAssumption     == Rate \in Nat
ASSUME ClockAssumption    == MaxClock \in Nat /\ MaxPackets \in Nat

\* The programs that add to a batch, and the one that only flushes it.
Adder == {"syscall_enter", "process_wake", "kmem_alloc", "cpu_migration",
          "context_switch"}
Handler == Adder \cup {"periodic_flush"}
Program == Handler \cup {"packet_processor"}

ASSUME AttachedAssumption == Attached \subseteq Program

\* The indices handlers pass to atomic_add_stats, named as the fields of
\* struct atomic_stats: 0 total_events, 1 processed_events, 2 dropped_events,
\* 3 batch_flushes, 4 cpu_migrations, 5 cache_hits, 6 cache_misses.
StatIndex == 0 .. 6

Event == [ts : Nat, batch_id : Nat]

\* A record of the ring: the CPU that reserved it, its event, and whether it is
\* reserved and not submitted yet.
Record == [cpu : CPU, ev : Event, busy : BOOLEAN]

VARIABLES
  batch,     \* CPU -> the events 0 .. count-1 of the CPU's batch_buffer
  dropped,   \* CPU -> batch->dropped
  cache,     \* CPU -> the pids in the CPU's share of process_cache
  stats,     \* CPU -> the counters of atomic_stats
  flushed,   \* CPU -> last_flush_time
  clock,     \* CPU -> the last timestamp given out
  pc,        \* CPU -> where the running handler stands
  handler,   \* CPU -> the running handler, "none" between handlers
  event,     \* CPU -> the event the running handler built
  idx,       \* CPU -> i of the loop in flush_batch_buffer, counted from 1
  ring,      \* the records of fast_events, in the order of their reserves
  \* History, read by properties only.
  reported,  \* CPU -> the calls atomic_add_stats got for each index
  packets,   \* CPU -> the IPv4 packets the XDP program has seen
  lost,      \* CPU -> the records whose reserve failed
  got,       \* CPU -> the records the consumer has taken
  seen       \* CPU -> the timestamp of the last record the consumer took

local == <<pc, handler, event, idx>>
history == <<packets, lost, got, seen>>
vars == <<batch, dropped, cache, stats, flushed, clock, local, ring, reported,
          history>>

NoEvent == [ts |-> 0, batch_id |-> 0]

Init ==
  /\ batch = [c \in CPU |-> <<>>]
  /\ dropped = [c \in CPU |-> 0]
  /\ cache = [c \in CPU |-> {}]
  /\ stats = [c \in CPU |-> [i \in StatIndex |-> 0]]
  /\ flushed = [c \in CPU |-> 0]
  /\ clock = [c \in CPU |-> 0]
  /\ pc = [c \in CPU |-> "idle"]
  /\ handler = [c \in CPU |-> "none"]
  /\ event = [c \in CPU |-> NoEvent]
  /\ idx = [c \in CPU |-> 1]
  /\ ring = <<>>
  /\ reported = [c \in CPU |-> [i \in StatIndex |-> 0]]
  /\ packets = [c \in CPU |-> 0]
  /\ lost = [c \in CPU |-> 0]
  /\ got = [c \in CPU |-> 0]
  /\ seen = [c \in CPU |-> 0]

-----------------------------------------------------------------------------
(* The helpers of the programs.                                            *)

\* The indices the switch of atomic_add_stats has a case for.
CountedIndexMutant == 1 .. 3    \* one case forgotten
CountedIndex == 0 .. 3

\* atomic_add_stats(i, 1) on CPU c for every i in S: the call is made, and the
\* counter moves when the switch handles the index.
AddStats(c, S) ==
  /\ reported' = [reported EXCEPT ![c] =
                    [i \in StatIndex |-> IF i \in S THEN @[i] + 1 ELSE @[i]]]
  /\ stats' = [stats EXCEPT ![c] =
                    [i \in StatIndex |-> IF i \in S \cap CountedIndex
                                           THEN @[i] + 1 ELSE @[i]]]

\* pid & (rate - 1) = 0, by the bits of the two numbers.
Bit(n, k) == (n \div 2^k) % 2
Sampled(pid) ==
  \/ Rate = 0
  \/ \A k \in 0 .. pid : Bit(pid, k) = 0 \/ Bit(Rate - 1, k) = 0

\* What bpf_map_update_elem may leave of an LRU hash: the pid is there, and a
\* full map gave up one of the others.
Updated(C, pid) ==
  IF pid \in C THEN {C}
  ELSE IF Cardinality(C) < CacheCap THEN {C \cup {pid}}
  ELSE {(C \ {q}) \cup {pid} : q \in C}

\* The number an event carries, read from the count of its CPU's batch.
BatchIdMutant(b) == Len(b) - 1  \* the number of the event before it
BatchIdMutant2(b) == Len(b) + 1 \* the count after the store
BatchId(b) == Len(b)

\* add_to_batch flushes a full batch first.
IsFullMutant(b) == Len(b) > MaxBatch
IsFull(b) == Len(b) >= MaxBatch

\* periodic_flush leaves an empty batch alone.
IsWorthFlushingMutant(b) == Len(b) > 1
IsWorthFlushing(b) == Len(b) > 0

\* Where the loop of flush_batch_buffer goes on after a failed reserve.
AfterFailureMutant(b, i) == Len(b) + 1  \* gives up the rest of the batch
AfterFailure(b, i) == i + 1

\* What bpf_ringbuf_submit makes of a record.
PublishedMutant(r) == r                 \* the submit forgotten
Published(r) == [r EXCEPT !.busy = FALSE]

\* What a flush leaves of the batch.
AfterFlushMutant(b) == b                \* count not reset
AfterFlush(b) == <<>>

\* The event is built, numbered by the count the batch has now, and handed to
\* add_to_batch, which first flushes a full batch.
Take(c, h) ==
  /\ h \in Attached
  /\ pc[c] = "idle"
  /\ clock[c] < MaxClock
  /\ clock' = [clock EXCEPT ![c] = @ + 1]
  /\ event' = [event EXCEPT ![c] = [ts |-> clock[c] + 1,
                                    batch_id |-> BatchId(batch[c])]]
  /\ handler' = [handler EXCEPT ![c] = h]
  /\ idx' = [idx EXCEPT ![c] = 1]
  /\ pc' = [pc EXCEPT ![c] = IF IsFull(batch[c])
                               THEN "reserve" ELSE "store"]
  /\ UNCHANGED <<batch, dropped, flushed, ring, history>>

-----------------------------------------------------------------------------
(* The programs, up to their call of add_to_batch or flush_batch_buffer.   *)
(* One that does not sample its pid returns without a trace.               *)

fast_syscall_enter(c) == \E pid \in Pid :
  /\ Sampled(pid)
  /\ Take(c, "syscall_enter")
  /\ IF pid \in cache[c]
       THEN AddStats(c, {5}) /\ UNCHANGED cache
       ELSE /\ \E C \in Updated(cache[c], pid) :
                 cache' = [cache EXCEPT ![c] = C]
            /\ AddStats(c, {6})

fast_process_wake(c) == \E pid \in Pid :
  /\ Sampled(pid)
  /\ Take(c, "process_wake")
  /\ \E C \in Updated(cache[c], pid) : cache' = [cache EXCEPT ![c] = C]
  /\ UNCHANGED <<stats, reported>>

fast_kmem_alloc(c) == \E pid \in Pid, size \in {4095, 4096} :
  /\ size >= 4096
  /\ Sampled(pid)
  /\ Take(c, "kmem_alloc")
  /\ UNCHANGED <<cache, stats, reported>>

trace_cpu_migration(c) == \E pid \in Pid :
  /\ Sampled(pid)
  /\ Take(c, "cpu_migration")
  /\ AddStats(c, {4})
  /\ UNCHANGED cache

\* One sampled process of the two is enough, and both enter the cache.
fast_context_switch(c) == \E prev, next \in Pid :
  /\ Sampled(prev) \/ Sampled(next)
  /\ Take(c, "context_switch")
  /\ \E C \in Updated(cache[c], prev) :
       \E D \in Updated(C, next) : cache' = [cache EXCEPT ![c] = D]
  /\ UNCHANGED <<stats, reported>>

\* An empty batch is not flushed, but the flush time moves all the same.
periodic_flush(c) ==
  /\ "periodic_flush" \in Attached
  /\ pc[c] = "idle"
  /\ handler' = [handler EXCEPT ![c] = "periodic_flush"]
  /\ idx' = [idx EXCEPT ![c] = 1]
  /\ pc' = [pc EXCEPT ![c] = IF IsWorthFlushing(batch[c])
                               THEN "reserve" ELSE "stamp"]
  /\ UNCHANGED <<batch, dropped, cache, stats, flushed, clock, event, ring,
                 reported, history>>

Enter(c) == \/ fast_syscall_enter(c) \/ fast_process_wake(c)
            \/ fast_kmem_alloc(c)    \/ trace_cpu_migration(c)
            \/ fast_context_switch(c)

-----------------------------------------------------------------------------
(* flush_batch_buffer, one reserve and one submit at a time.               *)

\* A record is reserved and filled; the consumer cannot pass it yet.
Reserve(c) ==
  /\ pc[c] = "reserve"
  /\ idx[c] <= Len(batch[c])
  /\ Len(ring) < RingCap
  /\ ring' = Append(ring, [cpu |-> c, ev |-> batch[c][idx[c]], busy |-> TRUE])
  /\ pc' = [pc EXCEPT ![c] = "submit"]
  /\ UNCHANGED <<batch, dropped, cache, stats, flushed, clock, handler, event,
                 idx, reported, history>>

\* No room: the event is passed over and the loop goes on.
ReserveFails(c) ==
  /\ pc[c] = "reserve"
  /\ idx[c] <= Len(batch[c])
  /\ Len(ring) >= RingCap
  /\ lost' = [lost EXCEPT ![c] = @ + 1]
  /\ idx' = [idx EXCEPT ![c] = AfterFailure(batch[c], @)]
  /\ UNCHANGED <<batch, dropped, cache, stats, flushed, clock, pc, handler,
                 event, ring, reported, packets, got, seen>>

Submit(c) ==
  /\ pc[c] = "submit"
  /\ ring' = [n \in DOMAIN ring |->
                IF ring[n].cpu = c THEN Published(ring[n]) ELSE ring[n]]
  /\ idx' = [idx EXCEPT ![c] = @ + 1]
  /\ pc' = [pc EXCEPT ![c] = "reserve"]
  /\ UNCHANGED <<batch, dropped, cache, stats, flushed, clock, handler, event,
                 reported, history>>

\* The loop is over: the batch is reset and the flush counted.
FlushDone(c) ==
  /\ pc[c] = "reserve"
  /\ idx[c] > Len(batch[c])
  /\ batch' = [batch EXCEPT ![c] = AfterFlush(@)]
  /\ AddStats(c, {3})
  /\ idx' = [idx EXCEPT ![c] = 1]
  /\ pc' = [pc EXCEPT ![c] = IF handler[c] = "periodic_flush"
                               THEN "stamp" ELSE "store"]
  /\ UNCHANGED <<dropped, cache, flushed, clock, handler, event, ring, history>>

Return(c) ==
  /\ pc' = [pc EXCEPT ![c] = "idle"]
  /\ handler' = [handler EXCEPT ![c] = "none"]
  /\ event' = [event EXCEPT ![c] = NoEvent]

\* The end of add_to_batch and of its caller: the event is stored, or dropped
\* when there is no room, and counted unless the handler is trace_cpu_migration.
Store(c) ==
  /\ pc[c] = "store"
  /\ IF Len(batch[c]) < MaxBatch
       THEN /\ batch' = [batch EXCEPT ![c] = Append(@, event[c])]
            /\ UNCHANGED dropped
       ELSE /\ dropped' = [dropped EXCEPT ![c] = @ + 1]
            /\ UNCHANGED batch
  /\ AddStats(c, (IF Len(batch[c]) < MaxBatch THEN {} ELSE {2})
                  \cup (IF handler[c] = "cpu_migration" THEN {} ELSE {0}))
  /\ Return(c)
  /\ UNCHANGED <<cache, flushed, clock, idx, ring, history>>

\* The end of periodic_flush.
Stamp(c) ==
  /\ pc[c] = "stamp"
  /\ flushed' = [flushed EXCEPT ![c] = clock[c]]
  /\ Return(c)
  /\ UNCHANGED <<batch, dropped, cache, stats, clock, idx, ring, reported,
                 history>>

\* The reader of fast_events takes the oldest record once it is submitted.
Consume ==
  /\ ring # <<>>
  /\ ~Head(ring).busy
  /\ ring' = Tail(ring)
  /\ got' = [got EXCEPT ![Head(ring).cpu] = @ + 1]
  /\ seen' = [seen EXCEPT ![Head(ring).cpu] = Head(ring).ev.ts]
  /\ UNCHANGED <<batch, dropped, cache, stats, flushed, clock, local, reported,
                 packets, lost>>

\* A packet is counted wherever the handler it interrupts stands; one that is
\* too short or not IPv4 passes without a trace.
fast_packet_processor(c) ==
  /\ "packet_processor" \in Attached
  /\ packets[c] < MaxPackets
  /\ packets' = [packets EXCEPT ![c] = @ + 1]
  /\ AddStats(c, {0})
  /\ UNCHANGED <<batch, dropped, cache, flushed, clock, local, ring, lost, got, seen>>

Step(c) == \/ Reserve(c) \/ ReserveFails(c) \/ Submit(c) \/ FlushDone(c)
           \/ Store(c) \/ Stamp(c)

Next == \/ \E c \in CPU : \/ Enter(c) \/ periodic_flush(c) \/ Step(c)
                          \/ fast_packet_processor(c)
        \/ Consume

Spec == Init /\ [][Next]_vars

\* A handler that was entered runs to its end, and the perf event that calls
\* periodic_flush keeps firing.  Nothing is assumed of the other programs or
\* of the consumer.
Fairness == \A c \in CPU : WF_vars(Step(c)) /\ WF_vars(periodic_flush(c))
FairSpec == Spec /\ Fairness

-----------------------------------------------------------------------------
(* Properties.                                                             *)

\* Type correctness of the whole state.
TypeOK ==
  /\ batch \in [CPU -> Seq(Event)]
  /\ dropped \in [CPU -> Nat]
  /\ cache \in [CPU -> SUBSET Pid]
  /\ stats \in [CPU -> [StatIndex -> Nat]]
  /\ flushed \in [CPU -> Nat]
  /\ clock \in [CPU -> Nat]
  /\ pc \in [CPU -> {"idle", "reserve", "submit", "store", "stamp"}]
  /\ handler \in [CPU -> Handler \cup {"none"}]
  /\ event \in [CPU -> Event]
  /\ idx \in [CPU -> Nat \ {0}]
  /\ ring \in Seq(Record)
  /\ reported \in [CPU -> [StatIndex -> Nat]]
  /\ packets \in [CPU -> Nat]
  /\ lost \in [CPU -> Nat]
  /\ got \in [CPU -> Nat]
  /\ seen \in [CPU -> Nat]

\* The events of CPU c that a flush under way has not passed yet, or all of
\* the batch when none is.
From(c) == CASE pc[c] = "reserve" -> idx[c]
             [] pc[c] = "submit"  -> idx[c] + 1
             [] OTHER             -> 1
Unsent(c) == From(c) .. Len(batch[c])

InHand(c) == handler[c] \in Adder

\* The records of CPU c lie in the ring in the order of their timestamps.
RingInOrder(c) == \A m, n \in DOMAIN ring :
  m < n /\ ring[m].cpu = c /\ ring[n].cpu = c
    => ring[m].ev.ts < ring[n].ev.ts

\* They are newer than all the consumer took and older than all that follows.
RingBeforeBatch(c) == \A n \in DOMAIN ring : ring[n].cpu = c =>
  /\ seen[c] < ring[n].ev.ts
  /\ ring[n].ev.ts <= clock[c]
  /\ \A i \in Unsent(c) : ring[n].ev.ts < batch[c][i].ts
  /\ InHand(c) => ring[n].ev.ts < event[c].ts

BatchInOrder(c) == \A i \in Unsent(c) :
  /\ seen[c] < batch[c][i].ts
  /\ batch[c][i].ts <= clock[c]
  /\ \A j \in Unsent(c) : i < j => batch[c][i].ts < batch[c][j].ts
  /\ InHand(c) => batch[c][i].ts < event[c].ts

HandIsNewest(c) ==
  /\ seen[c] <= clock[c]
  /\ InHand(c) => seen[c] < event[c].ts /\ event[c].ts = clock[c]

\* On its way to the consumer an event never overtakes an older one of its
\* CPU and never appears twice: what the consumer took, what is in the ring,
\* what the batch still holds and what the handler has in hand follow one
\* another in time, whatever the CPUs and the consumer interleave.
InOrder == \A c \in CPU :
  RingInOrder(c) /\ RingBeforeBatch(c) /\ BatchInOrder(c) /\ HandIsNewest(c)

\* Every event taken is in exactly one place: with the consumer, in the ring,
\* in the batch, in the handler's hand, or lost to a failed reserve.  Nothing
\* disappears in add_to_batch or when the batch is reset.
Conserved == \A c \in CPU :
  clock[c] = got[c] + lost[c] + dropped[c]
             + Cardinality({n \in DOMAIN ring : ring[n].cpu = c})
             + Cardinality(Unsent(c))
             + (IF InHand(c) THEN 1 ELSE 0)

\* add_to_batch has room when it comes to store: the flush before it emptied a
\* full batch, so its drop branch is dead and dropped_events stays 0.
NeverDrops == \A c \in CPU :
  /\ pc[c] = "store" => Len(batch[c]) < MaxBatch
  /\ dropped[c] = 0 /\ stats[c][2] = 0

\* The batch_id an event carries is its place in the batch, except that the
\* first event after an overflow carries the size of the batch just flushed:
\* the handler read the count before add_to_batch reset it.
BatchIdIsPlace == \A c \in CPU : \A i \in DOMAIN batch[c] :
  batch[c][i].batch_id = i - 1 \/ (i = 1 /\ batch[c][i].batch_id = MaxBatch)

\* last_flush_time is a bound on the age of the batch: whatever a batch holds
\* was taken after it, though flushes by add_to_batch never set it.
FlushTimeBoundsAge == \A c \in CPU :
  /\ flushed[c] <= clock[c]
  /\ \A i \in Unsent(c) : flushed[c] < batch[c][i].ts

\* total_events counts every packet and every event taken except the migrations
\* and the one in hand, the lost ones included, whatever a packet interrupts.
TotalCounts == \A c \in CPU :
  clock[c] + packets[c] = stats[c][0] + reported[c][4]
             + (IF InHand(c) /\ handler[c] # "cpu_migration" THEN 1 ELSE 0)

\* While a record is reserved and not submitted the consumer cannot pass it,
\* and a CPU has at most one such record, its newest.
OneOpenRecord == \A m \in DOMAIN ring : ring[m].busy =>
  /\ pc[ring[m].cpu] = "submit"
  /\ \A n \in DOMAIN ring : ring[n].cpu = ring[m].cpu => n <= m

\* The periodic flush does what its comment says it is for: no batch keeps an
\* event forever, though the consumer may have stopped.
BatchEmpties == \A c \in CPU : Len(batch[c]) > 0 ~> Len(batch[c]) = 0

\* The pipeline implements a lossy channel per CPU that keeps the order and
\* duplicates nothing: an event is on its way from the moment its handler
\* takes it until it is consumed or passed over by a failed reserve.
Transit(c) ==
  {ring[n].ev.ts : n \in {m \in DOMAIN ring : ring[m].cpu = c}}
    \cup {batch[c][i].ts : i \in Unsent(c)}
    \cup (IF InHand(c) THEN {event[c].ts} ELSE {})
Channel == INSTANCE LossyChannel WITH
             sent <- clock, last <- seen, transit <- [c \in CPU |-> Transit(c)]
ImplementsChannel == Channel!Spec
=============================================================================
