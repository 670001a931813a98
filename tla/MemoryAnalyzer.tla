---------------------------- MODULE MemoryAnalyzer ----------------------------
(***************************************************************************)
(* memory_analyzer.bpf.c: probes on malloc, its return, free, do_mmap,     *)
(* do_exit, the stack check and page faults keep a profile per process and *)
(* a region per address, and send events to user space.                    *)
(*                                                                         *)
(* The probed programs, their allocators and the reader of the events are  *)
(* the environment: a program frees only what it holds, and an allocator   *)
(* gives each process addresses of its own address space.  A probe runs in *)
(* the thread that hit it and interleaves with the others between a map    *)
(* lookup and what it does with the answer; the counters it increments are *)
(* fetched together and stored together.                                   *)
(*                                                                         *)
(* Sizes are in units of the 1024 bytes trace_malloc_ret assumes.  Fields  *)
(* nothing reads (times, names, scores, flags) are left out.               *)
(***************************************************************************)
EXTENDS Integers, FiniteSets, Sequences

CONSTANTS
  Process, NThreads,  \* each process has the threads 1 .. NThreads
  Addr,               \* the addresses allocators hand out
  Sizes,              \* the sizes asked for
  Calls,              \* the calls programs make: "malloc", "mmap", "exit", "fault"
  LeakLimit,          \* 1 MB
  Large,              \* 100 MB
  MaxRegions, MaxProfiles,  \* max_entries of the two hash maps
  Width,              \* active_regions wraps here, 2^32
  RingSize,           \* events the ring holds
  MaxCalls            \* bound: probed calls in a behaviour

ASSUME SizesAssumption == Sizes \subseteq Nat \ {0} /\ LeakLimit \in Nat /\ Large \in Nat
ASSUME MapsAssumption == MaxRegions \in Nat /\ MaxProfiles \in Nat \ {0}
ASSUME NamesAssumption == "none" \notin Process /\ "NULL" \notin Addr
ASSUME BoundsAssumption == /\ Width \in Nat \ {0, 1} /\ RingSize \in Nat
                           /\ MaxCalls \in Nat /\ NThreads \in Nat \ {0}

Thread == Process \X (1 .. NThreads)
Pid(t) == t[1]
None == "none"
NULL == "NULL"
NoSlot == -1   \* a lookup that found nothing

\* The elements the kernel preallocates for memory_profiles, one of them to
\* replace another in.  A pointer to an element outlives its removal.
Slot == 0 .. MaxProfiles

VARIABLES
  memory_profiles,  \* process -> the slot of its profile, or NoSlot
  profile,          \* slot -> the profile in it
  memory_regions,   \* address -> the process of its region, or None
  memory_events,    \* the events not read yet
  stats,            \* index -> count
  pc, call,         \* thread -> where its probe stands, and for what call
  found, copy,      \* thread -> the slot it looked up, what it loaded from it
  held,             \* process -> the blocks it got from malloc, with their sizes
  calls, past       \* history: how many calls were made, and what has been so

maps == <<memory_profiles, profile, memory_regions>>
outs == <<memory_events, stats>>
locals == <<call, found, copy>>
vars == <<maps, outs, pc, locals, held, calls, past>>

EmptyProfile == [pid |-> None, allocated |-> 0, freed |-> 0, active |-> 0,
                 mallocs |-> 0, frees |-> 0, mmaps |-> 0, peak |-> 0]
NoCall == [op |-> None, size |-> 0, addr |-> NULL]

Init ==
  /\ memory_profiles = [p \in Process |-> NoSlot]
  /\ profile = [s \in Slot |-> EmptyProfile]
  /\ memory_regions = [a \in Addr |-> None]
  /\ memory_events = <<>>
  /\ stats = [i \in 2 .. 10 |-> 0]
  /\ pc = [t \in Thread |-> "idle"]
  /\ call = [t \in Thread |-> NoCall]
  /\ found = [t \in Thread |-> NoSlot]
  /\ copy = [t \in Thread |-> EmptyProfile]
  /\ held = [p \in Process |-> {}]
  /\ calls = 0 /\ past = {}

-----------------------------------------------------------------------------
(* Maps, events and counters.                                              *)

Goto(t, from, to) == pc[t] = from /\ pc' = [pc EXCEPT ![t] = to]

Tracked == {a \in Addr : memory_regions[a] # None}
Profiled == {p \in Process : memory_profiles[p] # NoSlot}

\* bpf_map_update_elem(..., BPF_ANY) on memory_profiles: a free element takes
\* the value and the place of the old one; no new key when the map is full.
PutProfile(p, value) ==
  IF memory_profiles[p] = NoSlot /\ Cardinality(Profiled) = MaxProfiles
    THEN UNCHANGED <<memory_profiles, profile>>
    ELSE \E s \in Slot \ {memory_profiles[q] : q \in Process} :
           /\ memory_profiles' = [memory_profiles EXCEPT ![p] = s]
           /\ profile' = [profile EXCEPT ![s] = value]

\* The same on memory_regions.
WithRegionMutant(a, p) == memory_regions
WithRegion(a, p) ==
  IF memory_regions[a] = None /\ Cardinality(Tracked) = MaxRegions
    THEN memory_regions ELSE [memory_regions EXCEPT ![a] = p]

WithoutRegionMutant(a) == memory_regions
WithoutRegion(a) == [memory_regions EXCEPT ![a] = None]

\* Reserve, fill and submit: nothing when the ring is full.
Event(kind, t, a) == [kind |-> kind, pid |-> Pid(t), addr |-> a]
Send(e) == memory_events' =
             IF Len(memory_events) < RingSize THEN Append(memory_events, e)
                                              ELSE memory_events

\* update_stats, an atomic add, for each index in the set.
Counted(indices) == [i \in DOMAIN stats |->
                       IF i \in indices THEN stats[i] + 1 ELSE stats[i]]

-----------------------------------------------------------------------------
(* The programs call.                                                      *)

Start(t, op, size, a, where) ==
  /\ calls < MaxCalls /\ calls' = calls + 1
  /\ Goto(t, "idle", where)
  /\ call' = [call EXCEPT ![t] = [op |-> op, size |-> size, addr |-> a]]
  /\ UNCHANGED <<maps, outs, found, copy>>

CallMalloc(t) ==
  /\ "malloc" \in Calls
  /\ \E n \in Sizes : Start(t, "malloc", n, NULL, "lookup")
  /\ UNCHANGED held

CallMmap(t) ==
  /\ "mmap" \in Calls
  /\ \E n \in Sizes : Start(t, "mmap", n, NULL, "lookup")
  /\ UNCHANGED held

\* The thread takes the block: no other thread frees it too.
CallFree(t) == \E b \in held[Pid(t)] :
  /\ Start(t, "free", b.size, b.addr, "find")
  /\ held' = [held EXCEPT ![Pid(t)] = @ \ {b}]

CallExit(t) ==
  /\ "exit" \in Calls
  /\ Start(t, "exit", 0, NULL, "lookup")
  /\ UNCHANGED held

-----------------------------------------------------------------------------
(* trace_malloc, trace_free and trace_mmap update the profile.             *)

\* The profile each looks up is that of the running process.
KeyMutant(t) == IF call[t].op = "free" THEN memory_regions[call[t].addr] ELSE Pid(t)
Key(t) == Pid(t)

AfterLookup(op, slot) ==
  IF slot # NoSlot THEN (IF op = "exit" THEN "judge" ELSE "load")
  ELSE [malloc |-> "create", mmap |-> "create", free |-> "forget", exit |-> "dead"][op]

Lookup(t) ==
  /\ Goto(t, "lookup", AfterLookup(call[t].op, memory_profiles[Key(t)]))
  /\ found' = [found EXCEPT ![t] = memory_profiles[Key(t)]]
  /\ UNCHANGED <<maps, outs, call, copy, held, calls>>

One(c, op) == IF c.op = op THEN 1 ELSE 0

FirstActiveMutant == 0
FirstActive == 1

\* No profile yet: one that counts this call.
NewProfile(t) ==
  [EmptyProfile EXCEPT !.pid = Pid(t), !.allocated = call[t].size,
     !.active = FirstActive,
     !.mallocs = One(call[t], "malloc"), !.mmaps = One(call[t], "mmap")]

Create(t) ==
  /\ Goto(t, "create", "tally")
  /\ PutProfile(Pid(t), NewProfile(t))
  /\ UNCHANGED <<memory_regions, outs, locals, held, calls>>

Load(t) ==
  /\ Goto(t, "load", "store")
  /\ copy' = [copy EXCEPT ![t] = profile[found[t]]]
  /\ UNCHANGED <<maps, outs, call, found, held, calls>>

Larger(m, n) == IF m > n THEN m ELSE n

\* active_regions--, unsigned.
OneLessMutant(n) == n - 1
OneLess(n) == (n + Width - 1) % Width

\* The profile after the call; a freed block counts 1 whatever its size.
Updated(old, c) ==
  LET total == old.allocated + c.size IN
  IF c.op = "free"
    THEN [old EXCEPT !.frees = @ + 1, !.freed = @ + 1, !.active = OneLess(@)]
    ELSE [old EXCEPT !.mallocs = @ + One(c, "malloc"), !.mmaps = @ + One(c, "mmap"),
                     !.allocated = total, !.active = (@ + 1) % Width,
                     !.peak = IF c.op = "malloc" THEN Larger(@, total) ELSE @]

Store(t) ==
  /\ Goto(t, "store", IF call[t].op = "free" THEN "forget" ELSE "tally")
  /\ profile' = [profile EXCEPT ![found[t]] = Updated(copy[t], call[t])]
  /\ copy' = [copy EXCEPT ![t] = EmptyProfile]
  /\ found' = [found EXCEPT ![t] = NoSlot]
  /\ UNCHANGED <<memory_profiles, memory_regions, outs, call, held, calls>>

-----------------------------------------------------------------------------
(* The rest of trace_malloc and trace_mmap, and trace_malloc_ret.          *)

TallyMalloc(t) ==
  /\ call[t].op = "malloc" /\ Goto(t, "tally", "malloc")
  /\ IF call[t].size > Large
       THEN Send(Event("LARGE_ALLOC", t, NULL)) /\ stats' = Counted({2, 3})
       ELSE stats' = Counted({2}) /\ UNCHANGED memory_events
  /\ UNCHANGED <<maps, locals, held, calls>>

\* Protection bits other than RWX alone never pass the threshold of 40; an
\* executable mapping that is large does.
Suspicious(prot, size) == prot = "RWX" \/ (prot = "X" /\ size > Large)

TallyMmap(t) == \E prot \in {"RW", "X", "RWX"} :
  /\ call[t].op = "mmap" /\ Goto(t, "tally", "idle")
  /\ IF Suspicious(prot, call[t].size)
       THEN Send(Event("MMAP", t, NULL)) /\ stats' = Counted({7, 8})
       ELSE stats' = Counted({8}) /\ UNCHANGED memory_events
  /\ UNCHANGED <<maps, locals, held, calls>>

\* The addresses not free in a process: held, or on the way in or out.
InUse(p) == {b.addr : b \in held[p]} \cup
            {call[t].addr : t \in {u \in Thread : Pid(u) = p /\ pc[u] # "idle"}}

\* malloc itself: an address, or NULL.
Malloc(t) ==
  /\ Goto(t, "malloc", "ret")
  /\ \E a \in (Addr \ InUse(Pid(t))) \cup {NULL} :
       call' = [call EXCEPT ![t].addr = a]
  /\ UNCHANGED <<maps, outs, found, copy, held, calls>>

FailureStatMutant == 3
FailureStat == 4

MallocFailed(t) ==
  /\ call[t].addr = NULL /\ Goto(t, "ret", "idle")
  /\ stats' = Counted({FailureStat})
  /\ UNCHANGED <<maps, memory_events, locals, held, calls>>

trace_malloc_ret(t) ==
  /\ call[t].addr # NULL /\ Goto(t, "ret", "idle")
  /\ memory_regions' = WithRegion(call[t].addr, Pid(t))
  /\ held' = [held EXCEPT ![Pid(t)] =
                @ \cup {[addr |-> call[t].addr, size |-> call[t].size]}]
  /\ UNCHANGED <<memory_profiles, profile, outs, locals, calls>>

-----------------------------------------------------------------------------
(* The rest of trace_free; then free itself gives the block back.          *)

FindRegion(t) ==
  /\ Goto(t, "find", "lookup")
  /\ memory_regions[call[t].addr] # None
  /\ UNCHANGED <<maps, outs, locals, held, calls>>

DoubleFree(t) ==
  /\ Goto(t, "find", "free")
  /\ memory_regions[call[t].addr] = None
  /\ Send(Event("DOUBLE_FREE", t, call[t].addr))
  /\ stats' = Counted({5})
  /\ UNCHANGED <<maps, locals, held, calls>>

Forget(t) ==
  /\ Goto(t, "forget", "free")
  /\ memory_regions' = WithoutRegion(call[t].addr)
  /\ stats' = Counted({6})
  /\ UNCHANGED <<memory_profiles, profile, memory_events, locals, held, calls>>

Free(t) ==
  /\ Goto(t, "free", "idle")
  /\ UNCHANGED <<maps, outs, locals, held, calls>>

-----------------------------------------------------------------------------
(* trace_process_exit, which do_exit reaches once for each thread.         *)

Leaking(s) == profile[s].active > 0 /\
              profile[s].allocated > profile[s].freed + LeakLimit

ReportLeak(t) ==
  /\ Goto(t, "judge", "cleanup") /\ Leaking(found[t])
  /\ Send(Event("MEMORY_LEAK", t, NULL))
  /\ stats' = Counted({9})
  /\ UNCHANGED <<maps, locals, held, calls>>

NoLeak(t) ==
  /\ Goto(t, "judge", "cleanup") /\ ~Leaking(found[t])
  /\ UNCHANGED <<maps, outs, locals, held, calls>>

Cleanup(t) ==
  /\ Goto(t, "cleanup", "dead")
  /\ memory_profiles' = [memory_profiles EXCEPT ![Pid(t)] = NoSlot]
  /\ UNCHANGED <<profile, memory_regions, outs, locals, held, calls>>

Dead(p) == \A t \in Thread : Pid(t) = p => pc[t] = "dead"

\* The kernel takes the memory back, and gives the pid to a new process.
Restart(p) ==
  /\ Dead(p)
  /\ pc' = [t \in Thread |-> IF Pid(t) = p THEN "idle" ELSE pc[t]]
  /\ held' = [held EXCEPT ![p] = {}]
  /\ UNCHANGED <<maps, outs, locals, calls>>

-----------------------------------------------------------------------------
(* Probes that only report, and the reader.                                *)

\* A page fault in user or kernel mode.
trace_page_fault(t) ==
  /\ "fault" \in Calls /\ pc[t] = "idle"
  /\ Send(Event("PAGE_FAULT", t, NULL))
  /\ UNCHANGED <<maps, stats, pc, locals, held, calls>>

trace_stack_overflow(t) ==
  /\ "fault" \in Calls /\ pc[t] = "idle"
  /\ calls < MaxCalls /\ calls' = calls + 1
  /\ Send(Event("STACK_OVERFLOW", t, NULL))
  /\ stats' = Counted({10})
  /\ UNCHANGED <<maps, pc, locals, held>>

Read ==
  /\ memory_events # <<>> /\ memory_events' = Tail(memory_events)
  /\ UNCHANGED <<maps, stats, pc, locals, held, calls>>

Step(t) ==
  \/ CallMalloc(t) \/ CallMmap(t) \/ CallFree(t) \/ CallExit(t)
  \/ Lookup(t) \/ Create(t) \/ Load(t) \/ Store(t)
  \/ TallyMalloc(t) \/ TallyMmap(t) \/ Malloc(t) \/ MallocFailed(t)
  \/ trace_malloc_ret(t)
  \/ FindRegion(t) \/ DoubleFree(t) \/ Forget(t) \/ Free(t)
  \/ ReportLeak(t) \/ NoLeak(t) \/ Cleanup(t)
  \/ trace_page_fault(t) \/ trace_stack_overflow(t)

-----------------------------------------------------------------------------
(* History, read by properties only: what keeps a promise from being kept. *)

Exiting == \E t \in Thread : call[t].op = "exit"

\* A thread is given an address that another process uses, so that the address
\* alone, the key of memory_regions, no longer tells whose block it is.
Shared == \E t \in Thread :
  pc[t] = "ret" /\ \E q \in Process \ {Pid(t)} : call[t].addr \in InUse(q) \ {NULL}

\* A thread holds a pointer to the profile while another thread of the process
\* is about to remove it, or to put a new one in its place.
Taken == \E t \in Thread :
  /\ pc[t] \in {"load", "store", "judge"}
  /\ \E u \in Thread \ {t} : Pid(u) = Pid(t) /\ pc[u] \in {"create", "cleanup"}

Sign == {"exit", "shared", "taken"}
Signs == {s \in Sign : \/ s = "exit" /\ Exiting
                       \/ s = "shared" /\ Shared
                       \/ s = "taken" /\ Taken}

Move == Read \/ (\E t \in Thread : Step(t)) \/ (\E p \in Process : Restart(p))

Next == Move /\ past' = past \cup Signs'

Spec == Init /\ [][Next]_vars

-----------------------------------------------------------------------------
(* Properties.                                                             *)

Place == {"idle", "lookup", "create", "load", "store", "tally", "malloc", "ret",
          "find", "forget", "free", "judge", "cleanup", "dead"}
Op == {None, "malloc", "mmap", "free", "exit"}
Call == [op : Op, size : Nat, addr : Addr \cup {NULL}]
Block == [addr : Addr, size : Nat]
Profile == [pid : Process \cup {None}, allocated : Nat, freed : Nat,
            active : 0 .. Width - 1, mallocs : Nat, frees : Nat, mmaps : Nat,
            peak : Nat]
Kind == {"LARGE_ALLOC", "MMAP", "DOUBLE_FREE", "MEMORY_LEAK", "PAGE_FAULT",
         "STACK_OVERFLOW"}
Report == [kind : Kind, pid : Process, addr : Addr \cup {NULL}]

\* A probe that reads or writes an element found one, and runs for a call.
Ready == \A t \in Thread :
  /\ pc[t] \in {"load", "store", "judge"} => found[t] # NoSlot
  /\ pc[t] # "idle" => call[t].op # None

Typed ==
  /\ memory_profiles \in [Process -> Slot \cup {NoSlot}]
  /\ profile \in [Slot -> Profile]
  /\ memory_regions \in [Addr -> Process \cup {None}]
  /\ memory_events \in Seq(Report) /\ Len(memory_events) <= RingSize
  /\ stats \in [2 .. 10 -> Nat]
  /\ pc \in [Thread -> Place]
  /\ call \in [Thread -> Call]
  /\ found \in [Thread -> Slot \cup {NoSlot}]
  /\ copy \in [Thread -> Profile]
  /\ Ready
  /\ held \in [Process -> SUBSET Block]
  /\ calls \in 0 .. MaxCalls

\* Type correctness of the whole state.
TypeOK == Typed /\ past \subseteq Sign

\* Threads about to drop the region of the block they free.
Freeing == {t \in Thread : call[t].op = "free" /\
              pc[t] \in {"find", "lookup", "load", "store", "forget"}}
\* Threads whose malloc is counted and whose block is not tracked yet.
Allocating == {t \in Thread : call[t].op = "malloc" /\ pc[t] \in {"malloc", "ret"}}

Holds(p) == {b.addr : b \in held[p]} \cup {call[t].addr : t \in {u \in Freeing : Pid(u) = p}}

\* The regions are the blocks the programs hold, neither more nor fewer, while
\* threads allocate and free, reuse addresses and fail: until a process ends or
\* an address comes into use in two of them.
RegionsTrackBlocks ==
  past \cap {"shared", "exit"} = {} => Tracked = UNION {Holds(p) : p \in Process}

\* Until then the atomic counters agree with the tracked blocks at every
\* moment: mallocs less failures less frees are the blocks held and those on
\* their way.
BooksBalance ==
  past \cap {"shared", "exit"} = {} =>
    stats[2] - stats[4] - stats[6] =
      Cardinality(Tracked) + Cardinality(Allocating)

\* "Double free or free of untracked memory": a program that frees what malloc
\* gave it, once, is not reported.
NoFalseDoubleFree == stats[5] = 0

\* No process has made calls in two of its threads.
OneThreadEach == \A t, u \in Thread :
  Pid(t) = Pid(u) /\ call[t] # NoCall /\ call[u] # NoCall => t = u

\* While the programs are of one thread each, active_regions of one never falls
\* below the blocks it holds, so it never wraps below zero: whatever the other
\* processes do, across failures, exits and a profile made anew.
ActiveCoversHeld == OneThreadEach => \A p \in Process :
  memory_profiles[p] # NoSlot /\ (\A t \in Thread : Pid(t) = p => pc[t] \in {"idle", "dead"})
    => profile[memory_profiles[p]].active >= Cardinality(held[p])

\* A probe works on the profile of its own process and of no other, through
\* exits, restarts and profiles made anew in elements used again, with any
\* number of threads: until one of them removes or replaces the profile while
\* another holds a pointer to it.
OwnProfileOnly ==
  "taken" \notin past =>
    \A t \in Thread : pc[t] \in {"load", "store", "judge"} =>
      /\ found[t] = memory_profiles[Pid(t)]
      /\ \A q \in Process \ {Pid(t)} : memory_profiles[q] # found[t]
=============================================================================
