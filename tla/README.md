# Verification of deep-system-demos

TLA+ models of the programs of this repository, model-checked with TLC and,
where a statement should hold for every size, proved with TLAPS.

The repository is a collection of small programs that each sit directly on the
hardware or the kernel, so most of what can go wrong in them is about order:
who reads what between two steps of somebody else. That is what is modelled.

## 1. The system

| Part | Source | State it keeps | Operations | Hard behaviour |
|---|---|---|---|---|
| Event batching | `4_ebpf_security/kernel-agent/src/performance_optimized.bpf.c` | per-CPU batches, counters, process cache, flush time | one program per kernel hook, `periodic_flush` | CPUs flush into one ring, the ring is full, counters that lag or never move, a packet interrupts a handler |
| Shared packet ring | same file, the XDP program | `producer_head`, `consumer_head`, slots in shared memory | `fast_packet_processor` on every CPU; a reader in user space | read-check-write-publish without a lock |
| Memory analyzer | `memory_analyzer.bpf.c`, `memory_analyzer_loader.rs` | profile per process, region per address | malloc/return/free/mmap/exit/fault programs | threads between lookup and update; address reuse; estimates taken for facts |
| Process sentinel | `sentinel*.bpf.c`, `sentinel*_loader.rs` | ring buffer, attached links, running flag | exec/connect/open programs, poll loop, Ctrl+C | records told apart by size only; a signal in the middle of a poll |
| Syscall observer | `syscall_modifier.bpf.c`, its loader | nothing but its ring; it writes the caller's memory | openat/execve/unlink/chmod programs | the kernel reads a path again after the hook; observes where its comments say it blocks |
| Protected-mode scheduler | `1_bootloader/pm_demo/bootloader_stage2.asm` | control blocks, stacks, current task, PIC | IRQ0, `init_scheduler`, `scheduler_switch`, exception stubs | first tick, save/restore by hand, end of interrupt |
| Boot sequence | `bootloader_stage1.asm`, `bootloader_stage2.asm` | loaded sectors, descriptor tables, mode bits | load, relocate, switch mode | order of set-up steps |
| SentinelDOS | `1_bootloader/SentinelDOS/*` | password buffer, attempts, interrupt vectors, key buffer, files | boot check, TSRs, encryption tool | resident handlers share memory with the foreground |
| Store-load test | `3_microarch_demos/x86_vs_arm_memory_order/classic_reorder_test.c` | X, Y, r1, r2, semaphores | two racing threads, one judge | store buffers; a fence as a build option |
| Ping-pong tests | `false_sharing_perf_demo/*.c` | counters, turn and done flags | producer and consumer spinning on each other | a finish flag read between two steps |
| Contention | `cache_tlb_latency/contention_test.c` | one counter | two threads that increment it | the lost update |
| Timing demos, language comparison, scripts | `cache_tlb_latency/*.c`, `5_rust_vs_c/*`, `2_kernel_debug/*` | an array or nothing | timing loops | none |

How the parts interact. The eBPF programs of one object share maps: per-CPU
maps between programs of the same CPU, hash maps and ring buffers between all
CPUs. The loaders read the ring buffers through a callback called from a poll
loop, and stop on a signal. The boot loader's stages pass control and memory to
each other once; after that only the timer interrupt interleaves with the
tasks. SentinelDOS's resident programs interleave with the foreground program
through interrupts. The micro-architecture tests are POSIX threads that share
variables.

What makes each part correct, in a sentence:

- Event batching: an event is taken, and then delivered, still on its way, or
  lost to a full ring, never two of these, and events of a CPU keep their order.
- Shared packet ring: a packet that was accepted comes out whole, once and in
  order; one is refused only when the ring is full.
- Memory analyzer: the regions are the blocks that programs hold, the counters
  agree with them, a profile is touched by its own process only, and what is
  reported is true.
- Process sentinel: what is shown is what happened, and Ctrl+C ends the loader
  in the ordinary way.
- Syscall observer: an event says what the program did.
- Scheduler: preemption is invisible to the tasks, and each gets its turn.
- Boot sequence and exception stubs: each step finds what the one before it
  left, on the stack too.
- SentinelDOS: the line editor keeps its buffer and count together, a resident
  handler leaves the foreground as it found it.
- Store-load test: with the fence nothing is counted, and the judge looks at a
  complete round.
- Ping-pong tests: turns alternate and both threads end.

## 2. Modules

| Module | What it is | Theorems in |
|---|---|---|
| `BatchPipeline` | batches, flushes and the ring of `performance_optimized.bpf.c` | `BatchPipeline_proofs` |
| `LossyChannel` | abstract: a FIFO per CPU that may lose but neither reorders nor duplicates | |
| `MCBatchPipeline` | the instance of `BatchPipeline` for TLC | |
| `PmScheduler` | the timer-driven task switch of `bootloader_stage2.asm` | `PmScheduler_proofs` |
| `TaskMachines` | abstract: each task with a processor of its own | |
| `SharedRing` | the XDP program's ring in shared memory and its reader | `SharedRing_proofs` |
| `BoundedFifo` | abstract: a bounded queue of whole entries | |
| `MemoryAnalyzer` | the probes of `memory_analyzer.bpf.c`, the programs they watch, the reader | `MemoryAnalyzer_proofs` |
| `MCMemoryAnalyzer` | the instance of `MemoryAnalyzer` for TLC | |
| `StoreLoadTest` | `classic_reorder_test.c` over store buffers | `StoreLoadTest_proofs` |
| `CacheTests` | `cache_pingpong_perf.c`, `extreme_cache_test.c`, `contention_test.c` over store buffers | `CacheTests_proofs` |
| `TurnGame` | abstract: two players that move in turn | |
| `AgentRecords` | the records of the agents' rings, byte layouts, and how a loader tells them apart | `AgentRecords_proofs` |
| `SyscallModifier` | what the programs of `syscall_modifier.bpf.c` decide and log | |
| `AgentLoader` | the four agents' loaders, composed with the two modules above and the kernel programs as senders | `AgentLoader_proofs` |

To check a run: `tlc -config <cfg> <module>`; to check the proofs:
`tlapm <module>_proofs.tla`. `PROJECT.json` lists the runs, for every definition
the lines it models, for every property a mutant of the code that breaks it,
and the hazards.

### 2.1 BatchPipeline

State and code. `batch[c]` is events `0 .. count-1` of the CPU's
`batch_buffer`; `dropped`, `cache`, `stats` and `flushed` are the per-CPU maps;
`ring` is `fast_events`, oldest first, each record marked while it is reserved
and not submitted. `pc`, `handler`, `event` and `idx` are the running program:
which one it is, where it stands, the event on its stack, and `i` of the flush
loop.

Actions. Each of the five programs that add an event is one action
(`fast_syscall_enter`, `fast_process_wake`, `fast_kmem_alloc`,
`trace_cpu_migration`, `fast_context_switch`): sampling by pid, its own use of
the cache and the counters, then `Take`. `periodic_flush` is the sixth.
`fast_packet_processor` is here for the counter it shares with them: it runs in
the receive interrupt, so it may come between any two steps of a handler on the
same CPU (`packets` counts them); its ring is `SharedRing`.
`Reserve`, `ReserveFails`, `Submit` and `FlushDone` are `flush_batch_buffer`;
`Store` is the end of `add_to_batch` and of its caller; `Stamp` is the end of
`periodic_flush`. A handler is cut only at reserves and submits, because the
kernel runs one of these programs at a time on a CPU and everything else it
touches is per-CPU; that is also what a per-CPU map is chosen for in the code.
`Consume` is the reader of the ring.

Left out: what an event says. A timestamp is the number of events the CPU has
taken, which orders them as the clock does. `Updated` is all that an LRU map
promises: the new key is there and at most one other is gone.

`got`, `lost`, `seen`, `packets` and `reported` are history: they let properties
speak of what has left the state. No action reads them, but for `packets`, which
`MaxPackets` bounds.

### 2.2 PmScheduler

State and code. `cpu` is the context an interrupt would save, `stack[o]` the
contexts saved on the stack of `o` (a task, or the boot code), `pcb[t]` the ESP
in the task's control block, as a stack and a depth in it; `current` and
`started` are `current_task` and `scheduler_started`; `pending` and `serving`
are the request and in-service bits of the interrupt controller for IRQ0.

Actions. `init_scheduler` lays out one frame per task; `Halt` is the boot
code's `sti`; `Inc`, `Load`, `Show`, `Sti` are a task's loop, which the timer
may interrupt anywhere; `Tick` is the timer chip; `isr_irq0`,
`scheduler_switch`, `EndOfInterrupt` and `Return` are the handler. The order
switch, end of interrupt, `popad`/`iretd` is the code's, and a tick may come
between any two of them.

`RamZeroed` says whether low memory was zero when the loader started.
`scheduler_started` is read through a segment based at 0, while its initial
value lies in the image at 0x60000, so nothing in the program gives it a value.

### 2.3 SharedRing

State and code. The heads and the slots are `struct shared_memory`; `pc`,
`head` and `fast_evt` are the locals of `fast_packet_processor` on each CPU. A
slot is written by two stores, as a 12-byte structure is, so a slot is a pair.
Heads wrap at `Width` (2^64), slots at `Size` (`ring_mask + 1`).

Actions. `ReadHead`, `Accept`/`Refuse`, `WriteSlot`, `Publish`, `Count` follow
the statements; `Copy` and `Release` are the reader, which is not in the
repository and is modelled as the only way the heads let one read.

### 2.4 MemoryAnalyzer

State and code. `memory_profiles` maps a process to the element that holds its
profile and `profile` holds the elements: a BPF program keeps a pointer to an
element after its lookup, and the element may be given to another key
meanwhile. `memory_regions` maps an address to the process that its region
names. `held` is what the programs themselves have got from `malloc`.

Actions. `Call*` is a program entering a probed function. `Lookup`, `Create`,
`Load`, `Store` are the part `trace_malloc`, `trace_free` and `trace_mmap`
share: look the profile up, make one if there is none, and increment its fields
without atomics, which the model does as one load and one store of the whole
profile, so that updates of two threads can be lost. `TallyMalloc`,
`TallyMmap`, `trace_malloc_ret`, `MallocFailed`, `FindRegion`, `DoubleFree`,
`Forget` are the rest; `ReportLeak`, `NoLeak`, `Cleanup` are
`trace_process_exit`; `Malloc`, `Free`, `Restart`, `Read` are the environment.

The environment behaves: a program frees only what it holds, once; an allocator
gives a process only addresses free in that process. A report of a double free
is then false.

`past` is history: what has been so, at this moment or before, that keeps a
promise from being kept. "exit": a thread has begun to exit. "shared": a thread
was given an address that another process uses. "taken": a thread held a pointer
to a profile while another thread of the process was about to remove it, or to
put a new one in its place. `OwnProfileOnly`, `RegionsTrackBlocks` and
`BooksBalance` say what holds until the sign they name has come; they are stated
for any number of threads. What the code does after the sign is in the model: a
thread that goes on with a pointer to a removed profile writes the element, which
another process may have by then. Only `ActiveCoversHeld` is about programs of one
thread (`OneThreadEach`): with two, updates of `active_regions` are lost, and no
bound survives.

### 2.5 StoreLoadTest

State and code. `mem` holds X, Y, r1 and r2, `buffer` the store each processor
has under way to each of them; the semaphores and loop counters are the
program's. A store leaves its buffer by `Drain` at any time, in any order among
the variables: weaker than x86 and as weak as ARM where the test can tell.

Actions. A thread's round is `WaitBegin`, `StoreFlag`, `Fence`, `LoadOther`,
`PostEnd`; the main thread's is `Reset`, two `PostBegin`, two `WaitEnd`,
`Judge`; `Setup`, `Cancel` and `Join` are the start and end of a test. A
semaphore operation and a real memory barrier wait for the buffer to drain; the
compiler barrier does not.

### 2.6 CacheTests

State and code. `program` is the program that runs and `n` the test of it that
`run_test` (or `main`) is at; `mem` holds the fields of the shared structures,
zero at the start of each test, and `buffer` the stores under way, as in
`StoreLoadTest`. `i` and `j` are the loop counters, `reg` what an increment has
loaded and not stored yet.

Actions. The twelve thread functions differ in a few things only: which
variables a round increments (`Cells`), whether a greeting opens the test
(`Greets`), whose turn it is (`Turn`: the parity of the counter, or the flag),
whether a barrier closes a round, and which flag is set when. So they are one
loop: `AwaitGreeting`/`Greet`, `Wait`, `Check` (`if (s->done) break`), `Load`,
`Store`, `Barrier`, `Signal`, `Leave`. `Create` and `Join` are `run_test`.

Loads happen in program order, as on x86; on ARM the consumer's load of the
counter could pass its load of the flag, and the tests make no statement about
that. `extreme_cache_test.c` announces "4 threads" (line 167) and starts two, so
two it is.

### 2.7 AgentRecords, SyscallModifier, AgentLoader

`AgentRecords` writes each structure down twice, as the C program declares it
and as the loader does, computes lengths and offsets by the rule C and
`repr(C)` share, and from these what each callback takes a record for
(`Takes`). Nothing is assumed about lengths: that a file event is as long as
an execution event is a result.

`SyscallModifier` is the decisions of four programs: which calls are logged,
with what action, flag and score. A path is told by what it begins with.

`AgentLoader` chooses one of the four agents. `pc` is where the loader's main
thread stands: `Load`, `Attach`/`Report` once per program, `SetHandler`,
`OpenRing` (in the order of that loader), then `Test`, `Poll`, `Show`,
`Return`; `Fail` is the question mark after any of them. `Report` is a step of
its own because the value that `attach` returns lives to the end of its
statement: `memory_analyzer_loader.rs` binds it to no variable, so the program
is detached there (`KeepsLink`). `CtrlC` is the signal: before the handler is
set it kills the process; afterwards it wakes the handler's thread
(`RunHandler`), and it may interrupt the wait in `Poll`, which then returns an
error. `Program` and `Submit` are the kernel programs on each CPU, attached or
not, with the ring between them and the loader. The ring itself is the kernel's
and libbpf's, so no property is about its order.

An unlink takes several steps, because the path stays in the caller's memory.
`UnlinkRead` is the hook's read of it, which may fail and then leaves an empty
name; `UnlinkWrite` tests the name that was read and overwrites the path, which
may fail too; `UnlinkLog` asks for the record; `KernelReads` is the system call's
own read, after the hook, of what it acts on. `Rewrite` is another thread of the
caller writing the path at any moment between. `call.mishap` is history: whether
the hook's read or its write failed or another thread wrote since the last of
them that counts. One unlink is under way at a time (the bound `call`), next to
whatever the other programs do.

## 3. Runs

| Run | Instance | Checks | Shows |
|---|---|---|---|
| `batch` | batches of 2, ring of 2, and two kinds of behaviour: 2 CPUs with 3 events each and one adding program; 1 CPU with 5 events, all six programs and a packet, sampled and unsampled processes | `TypeOK` `InOrder` `Conserved` `OneOpenRecord` `FlushTimeBoundsAge` `NeverDrops` `BatchIdIsPlace` `TotalCounts`, `BatchEmpties`, `ImplementsChannel` | flushes that overlap, with reserves that fail in the middle, keep every CPU's order, lose nothing silently inside the batch, and leave a FIFO; through two overflows the drop branch is dead, and what `batch_id` and `total_events` mean |
| `sched_three` | 3 tasks, counters modulo 2 | `TypeOK` `OwnFrames` `CurrentRuns` `TasksUndisturbed` `EveryTaskAdvances` | ticks anywhere: contexts stay whole, preemption is invisible, nobody starves |
| `sched_ram` | the same, low memory not zeroed | `FirstRoundStartsA` is violated | see 6 |
| `ring_one` | 1 CPU, 4 slots, heads modulo 8, two different packets | `TypeOK` `RefusesOnlyFull` `ImplementsFifo` `PublishedStays` | with one producer the ring is a FIFO of whole entries |
| `ring_cpus` | 2 CPUs | `PublishedStays` is violated | see 6 |
| `mem_programs` | 2 processes of 2 threads, 2 addresses, 4 calls, in four kinds of behaviour (below) | `TypeOK` `RegionsTrackBlocks` `BooksBalance` `ActiveCoversHeld` `OwnProfileOnly` | until an address is shared or a program ends, regions and atomic counters follow the programs; profiles stay apart until one is taken from a thread; `active_regions` of a program of one thread never wraps |
| `mem_addresses` | 2 processes, 4 calls | `NoFalseDoubleFree` is violated | see 6 |
| `reorder_both` | a test without the fence and one with it, 3 rounds each | `TypeOK` `FencePreventsReordering` `RoundsAreComplete` `NobodyCancelled`, `Terminates` | the fence works, the judge sees whole rounds, the program ends |
| `cache_tests` | three programs, seven tests, 3 rounds | `TypeOK` `FinalCounts`, `ImplementsTurns`, `Terminates` | turns are kept, nothing is lost where nothing should be, nobody waits for ever, whatever the order in which stores reach memory |
| `agents` | four agents, 2 CPUs, a ring of 2, a sensitive path and one that scores, root | `TypeOK` `KeptLinksLive` `FieldsAgree` `Protects`, `EndsUnlessFlooded`, `RecordsShown` | from load to exit, with a failure or Ctrl+C at every step: what is attached, what a record is taken for, when an unlink reaches a sensitive path, that a loader ends and shows what it has |
| `agent_shown` | the sentinel | `ShownAsSent` is violated | see 6 |
| `agent_links` | the memory analyzer's loader | `AttachedAsReported` is violated | see 6 |

Why the bounds are enough.

- Batches of 2 have an empty, a partly filled and a full state, and a flush of
  one in which the first, the second or both reserves fail. A ring of 2 shared
  by two CPUs is smaller than what both can have in their batches, so it fills
  up under one flush and under two. With three events (`MaxClock`) a CPU
  overflows once and then stores into the emptied batch; with five, twice. One
  packet comes at any point of the first of these, in the middle of a flush too;
  at most two of the five events are syscalls or migrations. The two kinds of
  behaviour are told apart by the state (`Shared`, `Solo` in `MCBatchPipeline`),
  and the restriction holds up neither a program that has been entered nor
  `periodic_flush`, so the fairness assumed is not narrowed.
- Three tasks are the code's number. The counters wrap at 2 rather than 2^32:
  nothing compares them, so a smaller modulus only makes the states meet again.
- Four slots hold three entries; heads that wrap at 8 make positions meet twice
  per revolution. No bound is needed on the number of packets.
- In `MemoryAnalyzer` sizes are in the units of 1024 bytes that the code
  assumes: 1 is a small block, 3 is above both the leak limit and the size
  called large. `MaxCalls` bounds a behaviour: four calls are two blocks
  allocated and freed, or two threads with two calls each, or an exit, a new
  process under the same pid and what it does. `RingSize = 1` makes events fail
  to be sent. `Width = 8` is far above two blocks and wraps at once below zero.
  `MCMemoryAnalyzer` has four kinds of behaviour: one thread of one program with
  every call, size and fault (three calls); two threads of one program that
  allocate and free; two programs of one thread each that do everything; and two
  threads of one program beside another program, which map and exit, or allocate,
  free and exit. In the last kind one thread exits while the other holds the
  pointer, the element goes to the other program, and `OwnProfileOnly` would fail
  but for its condition.
- Three rounds are a first, a middle and a last one; two tests show that what a
  test leaves behind does not matter to the next.
- In `AgentLoader` two CPUs are enough for two open records, in either order of
  their submits, and a ring of two for one that is full, half full and empty.
  One path is sensitive and one is not, so a path may turn from either into the
  other under the hook; with a name that could not be read the scores go from 20
  to 90.

`CHECK_DEADLOCK FALSE` stands where the system may stop: `reorder_both` and
`cache_tests`, whose programs end, `agents`, `agent_shown` and `agent_links`, whose
loaders end, and the two of `MemoryAnalyzer`, whose programs stop calling when
`MaxCalls` is reached.

## 4. Fairness

- `BatchPipeline!FairSpec`: a program that has been entered runs to its end (a
  BPF program cannot be stopped half way), and the perf event that calls
  `periodic_flush` keeps firing. Nothing is assumed of the other programs, nor
  of the consumer: `BatchEmpties` holds with a reader that has stopped, since a
  failed reserve is passed over.
- `PmScheduler!FairSpec`: the processor goes on, and the timer ticks. Strong
  fairness for a task's steps and for the interrupt stands for the fact that a
  tick is 20 ms and a loop body a few instructions: a task whose turn comes
  again and again does make progress in it, and the interrupt flag is not
  cleared at every moment a request is there.
- `StoreLoadTest!FairSpec` and `CacheTests!FairSpec`: each POSIX thread runs on
  when it can, and no store stays in a buffer for ever.
- `AgentLoader!FairSpec`: the scheduler runs both threads of the loader, and a
  kernel program that reserved a record submits it. Nothing is assumed of
  failures, of Ctrl+C, or of how often programs run; that is why
  `EndsUnlessFlooded` and `RecordsShown` except a loader that is shown records
  for ever, which `poll` does not leave.

`SharedRing` and `MemoryAnalyzer` have safety properties only: the code
promises no progress there (the reader may stop, packets and calls may not
come).

## 5. Proofs

All proofs are for every value of the constants that satisfies the named
assumptions of the module (sizes and bounds are natural numbers, those of
batches, counters and tasks not zero).

`BatchPipeline_proofs`. `TypeCorrect` by one lemma per action.
`EventsInOrder` and `DropBranchDead` from `IInv`, which is the order of events
together with `Control`: where a handler stands says which events of its batch
are already in the ring (`idx`) and that a batch about to be stored into has
room. Without `Control` the order is not inductive: nothing would rule out that
the event in hand is older than one in the batch, or that a flush sends a
record twice. `PipelineImplementsChannel` maps an event in the ring, in the
unsent part of the batch or in hand to an event in transit; taking an event is
`Send`, a failed reserve `Lose`, a consumed record `Deliver`, and all else
stutters. That `Deliver` takes the oldest in transit is where `InOrder` is
used. `FlushTimeIsSafe` needs that nothing but a flush of the whole batch
precedes `Stamp`; `OpenRecordIsNewest` follows the one record a CPU has open
from its reserve to its submit while the consumer shortens the ring under it.
`EventsConserved` is bookkeeping by numbers: `Balanced` replaces the sets of
`Conserved` by their sizes, each action moves one from a place to another, and
a ring that loses its head keeps the count of what stays (`TailCounts`, by a
bijection). `NumbersArePlaces` needs that the number an event in hand carries
was the batch's count before the flush; `TotalsAddUp` that the counter is behind
by the one event between its taking and the end of its program, and ahead by the
packets, each of which adds at once wherever the handler stands.

`PmScheduler_proofs` has an invariant for each value that the word read as
`scheduler_started` can have had at power-on. When it was zero (`~started`, which
is what `RamZeroed` gives), `IInv` adds to `OwnFrames` and `CurrentRuns` which
stack is in use at each point of the handler (`Running`) and what a saved context
can be (`Frames`). From it follow `ContextsSafe`, `CurrentTaskRuns` and
`PreemptionInvisible`, the refinement of `TaskMachines`: the context of a task,
wherever it is kept, changes only by the task's own steps. When it was not zero
none of the three holds. The first call of `scheduler_switch` is then not taken
for the first round, so it saves the boot code's ESP in Task A's control block;
`AInv` says that from there the boot code has Task A's place (`Home`, `Parked`),
and `TaskALost` that Task A never runs, which is more than the trace of
`sched_ram` tells. `TypeCorrect` holds either way.

`SharedRing_proofs`. Types on any CPUs; the rest for any number of CPUs as long as
they are inside the program one at a time (`[]Alone`), as a lock around it would
have them. `ring_cpus` shows that something of the kind is needed, and it has to
begin at the read of the head: keeping the writers apart is not enough, since a
second CPU may have read the head before the first one moves it. On one CPU the
condition holds by itself (`OneCpuSuffices`). The arithmetic comes first: two
positions less than `Size` apart have different slots, and a wrap of the heads
comes back to the same slot because `Size` divides `Width`. The head is `Waiting`
places after the reader's. `IInv` then says that the head the program read is
still the head, that what its check found still holds (the reader can only make
room), and what its stores have left in the slot so far. `RingIsFifo` maps
`Publish` to `Put` and `Copy` to `Take`; `RefusesOnlyWhenFull` and
`PublishedIsStable` follow from the same lemmas.

`StoreLoadTest_proofs`. `IInv` says how far each thread is in the main thread's
round from the semaphores alone (`Control`), which stores are where (`Buffers`,
`Stores`), and, with the fence, that of two threads that have both loaded one
saw the other's store (`Fenced`). The last is the classical argument: whoever
loads second finds the first one's flag in memory, because the first passed the
fence before it loaded. `JudgeSeesWholeRound`, `FenceWorks` and `NothingCancelled`
are consequences, and so is `NobodyStuck`: until the program has ended, the main
thread, a thread or a buffer can go on. What each of them waits for is written
out there (`MainCanGo`, `ThreadCanGo`, `BufferCanGo`), since the provers do not
reason about `ENABLED`. That somebody can go on is the half of `Terminates` that
needs no fairness.

`MemoryAnalyzer_proofs`. `TypeCorrect` for any constants: lost updates, full maps
and reused elements included. The rest is about what survives these, for any
number of processes and threads where nothing else is said. The conditions are
signs in `past`, so each theorem says what holds up to the moment its sign comes;
that a sign is noted when it comes is `Noted`.

- `ProfilesApart`: two processes have different elements (`Distinct`), and until
  "taken" each thread that holds a pointer holds its own process's (`Mine`): the
  only steps that move the process's element are those of a thread at "create" or
  "cleanup", which put "taken" in `past` if another thread holds the pointer.
- `NeverBelowHeld` (one thread per process, an element for each, fewer than
  `Width` calls): `Covered` adds to the blocks held those counted before malloc
  answered (`Coming`) and those given back and not yet subtracted (`Leaving`),
  and bounds `active_regions` from above by the calls made, so that the addition
  does not wrap either.
- `CorrectFreesFind`: the regions are keyed by address, and an address means one
  block only as long as no two processes use it at once, which `mem_addresses`
  shows is not so. Until "shared", and if the map has room for every address
  (`Roomy`), a correct free finds its region, whatever exits and starts again. The
  invariant, `Clear`: no address is in use in two processes (`OneOwner`), no two
  threads and no held block are at work on one address (`Apart`), each address
  that is held or about to be freed has a region (`Tracks`), and each thread is
  where its call takes it (`Role`). Without `Roomy` an update that fails makes a
  correct free a double free.
- `OneProgramFreesFind`: with one process nothing can be shared, so no condition
  is left but `Roomy`.
- `RegionsExact` and `CountersExact` hold until "shared" or "exit": a process that
  ends leaves its regions behind. Until then there is no other region (`Lasting`),
  and the counters differ by what each step adds to the finite sets on the
  right-hand side (`Books`).

That the conditions are not empty the run shows: `mem_programs` reaches states of
each kind, with and without each sign, and the mutants break the properties before
a sign has come.

`CacheTests_proofs`. `TypeCorrect`, then `CounterIsGame`: `Turns` says, of each
thread, where its counts of own and other moves stand (`Counts`), what it may
have in its buffer while it has the turn (`Pings`, `Hands`), and that whoever
increments has it (`Mine`). A move is the moment the increment reaches memory,
which is a `Drain`; a `NewGame` is `Create` or `Join`; all else stutters.
`CountsRight` needs one part per kind of test (`Counting`): a variable that
nobody writes is zero (`Untouched`); nobody leaves before its rounds are made,
except the ping-pong's thread that is told the other is through (`Through`); what
a thread reads of a variable of its own is what it has added (`Sole`); what the
flags say (`Said`); and, without turns, that the counter is no more than what
both have added, and at least 2 once both have made two rounds (`Contended`): a
late store from a stale load takes the counter back, but not below what the
thread itself had seen when it loaded. For the tests with turns it also needs the
score and the moves of `TurnGame` itself (`Played`). `NobodyStuck` follows from the same
invariants: no thread waits for a turn, a flag, a greeting or an empty buffer
that only a waiting thread could bring.

`AgentRecords_proofs`. Where a field ends is a recursive function over the fields
(`End`). Its equation is proved first, by induction in the form that a nonempty
set of natural numbers has a least element, and then the lengths (296, 48, 296
for the sentinel's exec, network and file records), the offsets on both sides,
and what each loader takes each record for (`Taken`).

`AgentLoader_proofs`. `AttachedWhileRunning` from the set attached at each place
of the loader (`Links`), `TypeCorrect` of all records and of an unlink under way.
`BlockingProtects` from `Spared`: between the hook's read and its test, either
something went wrong or the name that was read is what stands in memory; after the
test, either something went wrong or what stands in memory is not sensitive. The
second follows from the first where nothing is overwritten, and from the write
where something is, whatever stood there before it.
`FieldsRight` joins the two modules: what is in the ring was sent by the agent's
own programs, and what a loader takes such a record for has its fields where the
program wrote them. `NoFileLine` is what `agent_shown` finds, for every number of
CPUs and ring size: a file event is never shown as one.

Only model-checked: what needs fairness (`BatchEmpties`, `EveryTaskAdvances`, the
two `Terminates`, `EndsUnlessFlooded`, `RecordsShown`), which is out of the
prover's reach. Every other property that a passing run checks is stated by a
theorem, under the conditions named above.

## 6. Where code and comments disagree

Each of these is a run that finds the disagreement, with its trace.

- `sched_ram`: "First round: direct jump to Task A" holds only if low memory
  was zero at power-on. Otherwise Task A does not run later either (`TaskALost`).
- `ring_cpus`: the ring of the "lockless data structures" takes one producer.
  On two CPUs that receive packets an entry already published is overwritten
  and the head can go back. `RingIsFifo` says what would mend it.
- `mem_addresses`: regions are keyed by address alone; two processes with the
  same address take each other's regions away, and a correct free is reported
  as a double free. In a map with room it is only then (`CorrectFreesFind`).
- `agent_shown`: the sentinel has a line for file events and never prints it. A
  record of a file event has the length of one of an execution, and the test of
  that length comes first. No line is ever that of a file event (`NoFileLine`).
- `agent_links`: `memory_analyzer_loader.rs` prints "[OK] attached ..." for each of
  its eight programs (lines 47 to 80) and then "memory analyzer running" (127), but
  keeps none of the links, so each program is detached again when its message is
  printed and nothing is attached when the loop polls. The three loaders that keep
  their links are right (`KeptLinksLive`, `AttachedWhileRunning`).

Contradicted by a comment or a message, seen in the models, without a run of its
own:

- `memory_analyzer_loader.rs:117`, `sentinel_loader.rs:81` and
  `syscall_modifier_loader.rs:109` say of Ctrl+C that it exits gracefully
  ("优雅退出"). A Ctrl+C that interrupts `poll` may make it return an error, with
  which `main` ends by the question mark and without its closing line (`CtrlC`, its last disjunct). Such an end is an end for
  `EndsUnlessFlooded`.
- `syscall_modifier.bpf.c:190` says "Block if threat score > 50" of `tp_execve`. A
  root exec of a sensitive path scores 70 and is logged as let through (action 3,
  not blocked), as the comment at line 193 then says: `tp_execve` has no branch.
- `syscall_modifier.bpf.c:207` logs every unlink of a sensitive path as action 1,
  which the loader prints as "DENY", blocked. The results of the hook's read and
  of `bpf_probe_write_user` are ignored, and another thread may write the path
  after the hook, so a blocked unlink may take place; `Protects` says that these
  are the only ways.
- `memory_analyzer.bpf.c:427` says "Update process profile" and line 80 "Process
  memory profiles": when one thread of a process exits while another is between
  lookup and store, the other updates an element that is no longer its process's
  and may be another's. `OwnProfileOnly` says that this, and a profile made twice,
  are the only ways. With several threads the profile's counters also lose updates.
- `memory_analyzer.bpf.c:547` says "Clean up process data": the profile of the
  process is removed and its regions stay.

Observed while reading, in the models, and contradicted by no statement found in
the repository:

- `performance_optimized.bpf.c`: counter indices 4, 5 and 6 have no case in
  `atomic_add_stats`, so migrations, cache hits and cache misses are never
  counted (`CountedIndex`; `TotalCounts` holds in spite of it); `total_events`
  includes events later lost; `dropped_events` stays 0 whatever is lost, since a
  failed reserve (line 148) does not count and the branch that does (line 175) is
  dead (`DropBranchDead`); a batch flushed by overflow does not move
  `last_flush_time`; `ring_mask` is set by nothing in the repository, and with 0
  the ring refuses every packet.
- `memory_analyzer.bpf.c`: a leak may be reported of a process that holds
  nothing (line 521), because requests are counted before malloc answers and a
  free subtracts 1024 bytes whatever the block had; page-fault events are sent
  with fields not written (line 189).
- `memory_analyzer_loader.rs`: `attach_uprobe` is given offset 0 for each of the
  three functions.
- `syscall_modifier.bpf.c`: 32 bytes of a path are copied into a field of 256, the
  rest of which is whatever the ring held.

## 7. Not modelled

- The exception stubs and the boot sequence of the protected-mode demo. The boot
  sequence runs once, in one order, with interrupts off; what it leaves is
  `PmScheduler`'s initial state. The demo's own code raises no exception once the
  scheduler runs, so no step of it reaches a stub.
- SentinelDOS. The boot check and the encryption tool are sequential programs
  with the BIOS or DOS as their only partner: nothing in them interleaves, is
  retried or recovers, and running them on an input tells what a model would.
  The resident programs do interleave, but what goes wrong there is decided in
  DOS, which the repository holds as a disk image.
- Timing loops (`cache_random_demo.c`, `tlb_miss_demo.c`, the benchmark of
  `classic_reorder_test.c`), the language comparison of `5_rust_vs_c`, and
  scripts. They keep no state that could be wrong.
- `vmlinux.h`: 150 797 of the repository's 153 034 lines of code are types
  generated from a kernel. Any share of the lines that counts them says little;
  of the other 2 237 the models stand for well over half.
- Inside modelled parts: scores, names, times and text of events; drawing on
  the screen other than the tasks' counters; bit patterns of flags.

## 8. Plan

Done, in the order of importance: the event pipeline (most code, most
concurrency), the scheduler, the shared ring, the memory analyzer, the store-load
test; then the ping-pong, false-sharing and contention tests, and the four
agents' programs, records and loaders.

The theorems came in the same order: types and the main invariant of each
module, then the refinements, then the counts and totals, and last the theorems
with conditions on the environment (`Alone`, the signs in `past`, the flag at
power-on) in place of one CPU, one process or a zeroed memory.

What could follow:

1. `NeverBelowHeld` for several threads in a process, which needs a condition on
   lost updates: no two threads of a process between load and store at once.
2. `AgentLoader` with `MemoryAnalyzer` as the sender instead of `Trace`, once the
   loader keeps its links; as it stands no record ever comes.
3. The encryption tool as operators with an inverse, if it is to be maintained.
