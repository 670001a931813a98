------------------------- MODULE MemoryAnalyzer_proofs -------------------------
(***************************************************************************)
(* Proofs about MemoryAnalyzer: its types for every value of the           *)
(* constants; whose profile a probe works on, until one is taken away; and *)
(* of what the regions and counters tell, until two processes share an     *)
(* address or one ends.                                                    *)
(***************************************************************************)
EXTENDS MemoryAnalyzer, FiniteSetTheorems, TLAPS

-----------------------------------------------------------------------------
(* Types.                                                                  *)

LEMMA PidTyped == \A t \in Thread : Pid(t) \in Process
  BY DEF Thread, Pid

LEMMA OneTyped ==
  ASSUME NEW c, NEW op
  PROVE  One(c, op) \in Nat
  BY DEF One

LEMMA EmptyTyped == EmptyProfile \in Profile
  BY BoundsAssumption DEF EmptyProfile, Profile

LEMMA WrapTyped ==
  ASSUME NEW n \in 0 .. Width - 1
  PROVE  OneLess(n) \in 0 .. Width - 1 /\ (n + 1) % Width \in 0 .. Width - 1
  BY BoundsAssumption DEF OneLess

LEMMA NewTyped ==
  ASSUME Typed, NEW t \in Thread
  PROVE  NewProfile(t) \in Profile
  <1>1. /\ Pid(t) \in Process /\ call[t] \in Call
        /\ One(call[t], "malloc") \in Nat /\ One(call[t], "mmap") \in Nat
    BY PidTyped, OneTyped DEF Typed
  <1>2. FirstActive \in 0 .. Width - 1
    BY BoundsAssumption DEF FirstActive
  <1> QED BY <1>1, <1>2, EmptyTyped DEF NewProfile, Call, Profile

LEMMA UpdatedTyped ==
  ASSUME NEW old \in Profile, NEW c \in Call
  PROVE  Updated(old, c) \in Profile
  <1>1. /\ old.active \in 0 .. Width - 1 /\ old.allocated \in Nat /\ old.peak \in Nat
        /\ old.mallocs \in Nat /\ old.mmaps \in Nat /\ old.frees \in Nat
        /\ old.freed \in Nat /\ c.size \in Nat
    BY DEF Profile, Call
  <1>2. OneLess(old.active) \in 0 .. Width - 1
    BY <1>1, WrapTyped
  <1>3. (old.active + 1) % Width \in 0 .. Width - 1
    BY <1>1, WrapTyped
  <1>4. One(c, "malloc") \in Nat /\ One(c, "mmap") \in Nat
    BY OneTyped
  <1>5. CASE c.op = "free"
    <2>1. old.frees + 1 \in Nat /\ old.freed + 1 \in Nat
      BY <1>1
    <2>2. Updated(old, c) = [old EXCEPT !.frees = @ + 1, !.freed = @ + 1,
                                        !.active = OneLess(@)]
      BY <1>5 DEF Updated
    <2> QED BY <1>2, <2>1, <2>2 DEF Profile
  <1>6. CASE c.op # "free"
    <2> DEFINE total == old.allocated + c.size
               peak == IF c.op = "malloc" THEN Larger(old.peak, total) ELSE old.peak
    <2>1. total \in Nat /\ peak \in Nat
      BY <1>1 DEF Larger
    <2>2. /\ old.mallocs + One(c, "malloc") \in Nat
          /\ old.mmaps + One(c, "mmap") \in Nat
      BY <1>1, <1>4
    <2>3. Updated(old, c) =
            [old EXCEPT !.mallocs = @ + One(c, "malloc"),
                        !.mmaps = @ + One(c, "mmap"), !.allocated = total,
                        !.active = (@ + 1) % Width, !.peak = peak]
      BY <1>6 DEF Updated, Profile
    <2> HIDE DEF total, peak
    <2> QED BY <1>3, <2>1, <2>2, <2>3 DEF Profile
  <1> QED BY <1>5, <1>6

LEMMA CountedTyped ==
  ASSUME stats \in [2 .. 10 -> Nat], NEW indices
  PROVE  Counted(indices) \in [2 .. 10 -> Nat]
  BY DEF Counted

LEMMA EventTyped ==
  ASSUME NEW k \in Kind, NEW t \in Thread, NEW a \in Addr \cup {NULL}
  PROVE  Event(k, t, a) \in Report
  BY PidTyped DEF Event, Report

LEMMA SendTyped ==
  ASSUME memory_events \in Seq(Report), Len(memory_events) <= RingSize,
         NEW e \in Report, Send(e)
  PROVE  memory_events' \in Seq(Report) /\ Len(memory_events') <= RingSize
  BY BoundsAssumption DEF Send

\* The place a probe reaches from the lookup.
LEMMA AfterLookupCases ==
  ASSUME NEW slot
  PROVE  /\ slot # NoSlot => /\ AfterLookup("exit", slot) = "judge"
                             /\ \A op : op # "exit" => AfterLookup(op, slot) = "load"
         /\ slot = NoSlot => /\ AfterLookup("malloc", slot) = "create"
                             /\ AfterLookup("mmap", slot) = "create"
                             /\ AfterLookup("free", slot) = "forget"
                             /\ AfterLookup("exit", slot) = "dead"
  BY DEF AfterLookup

LEMMA AfterLookupNever ==
  ASSUME NEW op \in Op \ {None}, NEW slot
  PROVE  AfterLookup(op, slot) \in {"create", "load", "forget", "judge", "dead"}
  <1>1. CASE op = "malloc" BY <1>1, AfterLookupCases
  <1>2. CASE op = "mmap" BY <1>2, AfterLookupCases
  <1>3. CASE op = "free" BY <1>3, AfterLookupCases
  <1>4. CASE op = "exit" BY <1>4, AfterLookupCases
  <1> QED BY <1>1, <1>2, <1>3, <1>4 DEF Op, None

\* The two moves of a probe: to the start of a call, or from place to place.
LEMMA GotoTyped ==
  ASSUME Typed, NEW t \in Thread, NEW from \in Place, NEW to \in Place,
         Goto(t, from, to)
  PROVE  /\ pc[t] = from /\ pc'[t] = to /\ pc' \in [Thread -> Place]
         /\ \A u \in Thread \ {t} : pc'[u] = pc[u]
  BY DEF Goto, Typed

LEMMA StartTyped ==
  ASSUME Typed, NEW t \in Thread, NEW op \in Op \ {None}, NEW size \in Nat,
         NEW a \in Addr \cup {NULL}, NEW where \in {"lookup", "find"},
         Start(t, op, size, a, where), held' \in [Process -> SUBSET Block]
  PROVE  Typed'
  <1>0. Ready
    BY DEF Typed
  <1>1. /\ pc' \in [Thread -> Place] /\ pc'[t] = where
        /\ \A u \in Thread \ {t} : pc'[u] = pc[u]
    BY GotoTyped, SMTT(30) DEF Start, Place
  <1>2. [op |-> op, size |-> size, addr |-> a] \in Call
    BY DEF Call
  <1>3. /\ call' \in [Thread -> Call] /\ call'[t].op = op
        /\ \A u \in Thread \ {t} : call'[u] = call[u]
    BY <1>2 DEF Start, Typed
  <1>4. Ready'
    BY <1>0, <1>1, <1>3 DEF Ready, Start
  <1>5. calls' \in 0 .. MaxCalls
    BY BoundsAssumption DEF Start, Typed
  <1> QED BY <1>1, <1>3, <1>4, <1>5 DEF Start, Typed, maps, outs

LEMMA CallTyped ==
  ASSUME Typed, NEW t \in Thread,
         CallMalloc(t) \/ CallMmap(t) \/ CallFree(t) \/ CallExit(t)
  PROVE  Typed'
  <1> USE DEF Op, None
  <1>0. held \in [Process -> SUBSET Block]
    BY DEF Typed
  <1>1. CASE CallMalloc(t)
    BY <1>0, <1>1, StartTyped, SizesAssumption DEF CallMalloc
  <1>2. CASE CallMmap(t)
    BY <1>0, <1>2, StartTyped, SizesAssumption DEF CallMmap
  <1>3. CASE CallFree(t)
    <2>1. PICK b \in held[Pid(t)] :
            /\ Start(t, "free", b.size, b.addr, "find")
            /\ held' = [held EXCEPT ![Pid(t)] = @ \ {b}]
      BY <1>3 DEF CallFree
    <2>2. b.size \in Nat /\ b.addr \in Addr
      BY <1>0, <2>1, PidTyped DEF Block
    <2>3. held' \in [Process -> SUBSET Block]
      BY <1>0, <2>1, PidTyped
    <2> QED BY <2>1, <2>2, <2>3, StartTyped
  <1>4. CASE CallExit(t)
    BY <1>0, <1>4, StartTyped DEF CallExit
  <1> QED BY <1>1, <1>2, <1>3, <1>4

\* A probe that goes on changes no call, slot or copy.
LEMMA GoesOnTyped ==
  ASSUME Typed, NEW t \in Thread,
         NEW from \in Place \ {"idle"}, NEW to \in Place \ {"load", "store", "judge"},
         Goto(t, from, to), UNCHANGED <<found, copy, calls>>,
         call' \in [Thread -> Call], \A u \in Thread : call'[u].op = call[u].op,
         memory_profiles' \in [Process -> Slot \cup {NoSlot}],
         profile' \in [Slot -> Profile],
         memory_regions' \in [Addr -> Process \cup {None}],
         memory_events' \in Seq(Report), Len(memory_events') <= RingSize,
         stats' \in [2 .. 10 -> Nat],
         held' \in [Process -> SUBSET Block]
  PROVE  Typed'
  <1>0. Ready
    BY DEF Typed
  <1>1. /\ pc[t] = from /\ pc'[t] = to /\ pc' \in [Thread -> Place]
        /\ \A u \in Thread \ {t} : pc'[u] = pc[u]
    BY GotoTyped
  <1>2. Ready'
    BY <1>0, <1>1 DEF Ready
  <1> QED BY <1>1, <1>2 DEF Typed

LEMMA PutTyped ==
  ASSUME Typed, NEW p \in Process, NEW v \in Profile, PutProfile(p, v)
  PROVE  /\ memory_profiles' \in [Process -> Slot \cup {NoSlot}]
         /\ profile' \in [Slot -> Profile]
  BY DEF PutProfile, Typed

LEMMA RegionsTyped ==
  ASSUME Typed, NEW a \in Addr, NEW p \in Process
  PROVE  /\ WithRegion(a, p) \in [Addr -> Process \cup {None}]
         /\ WithoutRegion(a) \in [Addr -> Process \cup {None}]
  BY DEF WithRegion, WithoutRegion, Typed

\* The probes that look up, load and store.
LEMMA ProfileTyped ==
  ASSUME Typed, NEW t \in Thread, Lookup(t) \/ Create(t) \/ Load(t) \/ Store(t)
  PROVE  Typed'
  <1>0. /\ Pid(t) \in Process /\ call[t] \in Call /\ pc \in [Thread -> Place]
        /\ found \in [Thread -> Slot \cup {NoSlot}] /\ copy \in [Thread -> Profile]
        /\ memory_profiles \in [Process -> Slot \cup {NoSlot}]
        /\ profile \in [Slot -> Profile] /\ Ready
    BY PidTyped DEF Typed
  <1>1. CASE Lookup(t)
    <2> DEFINE slot == memory_profiles[Pid(t)]
               to == AfterLookup(call[t].op, slot)
    <2>1. slot \in Slot \cup {NoSlot}
      BY <1>0
    <2>2. call[t].op \in Op \ {None}
      BY <1>0, <1>1 DEF Lookup, Goto, Ready, Call
    <2>3. to \in Place /\ (to \in {"load", "store", "judge"} => slot # NoSlot)
          /\ to # "idle"
      <3> HIDE DEF slot
      <3>1. CASE call[t].op = "malloc" BY <3>1, AfterLookupCases DEF Place
      <3>2. CASE call[t].op = "mmap" BY <3>2, AfterLookupCases DEF Place
      <3>3. CASE call[t].op = "free" BY <3>3, AfterLookupCases DEF Place
      <3>4. CASE call[t].op = "exit" BY <3>4, AfterLookupCases DEF Place
      <3> QED BY <2>2, <3>1, <3>2, <3>3, <3>4 DEF Op, None
    <2>4. Goto(t, "lookup", to) /\ found' = [found EXCEPT ![t] = slot]
      BY <1>1 DEF Lookup, Key
    <2> HIDE DEF to, slot
    <2>5. /\ pc' \in [Thread -> Place] /\ pc[t] = "lookup" /\ pc'[t] = to
          /\ \A u \in Thread \ {t} : pc'[u] = pc[u]
      BY <2>3, <2>4, GotoTyped DEF Place
    <2>6. found' \in [Thread -> Slot \cup {NoSlot}]
      BY <1>0, <2>1, <2>4
    <2>7. Ready'
      BY <1>0, <1>1, <2>2, <2>3, <2>4, <2>5 DEF Ready, Lookup
    <2> QED BY <1>1, <2>5, <2>6, <2>7 DEF Lookup, Typed, maps, outs
  <1>2. CASE Create(t)
    <2>1. NewProfile(t) \in Profile
      BY NewTyped
    <2>2. /\ memory_profiles' \in [Process -> Slot \cup {NoSlot}]
          /\ profile' \in [Slot -> Profile]
      BY <1>0, <1>2, <2>1, PutTyped DEF Create
    <2>3. Goto(t, "create", "tally")
      BY <1>2 DEF Create
    <2> QED BY <1>2, <2>2, <2>3, GoesOnTyped DEF Create, Place, Typed, outs, locals
  <1>3. CASE Load(t)
    <2>1. /\ pc' \in [Thread -> Place] /\ pc[t] = "load" /\ pc'[t] = "store"
          /\ \A u \in Thread \ {t} : pc'[u] = pc[u]
      BY <1>3, GotoTyped DEF Load, Place
    <2>2. found[t] \in Slot
      BY <1>0, <2>1 DEF Ready
    <2>3. copy' \in [Thread -> Profile]
      BY <1>0, <1>3, <2>2 DEF Load
    <2>4. Ready'
      BY <1>0, <1>3, <2>1 DEF Ready, Load
    <2> QED BY <1>3, <2>1, <2>3, <2>4 DEF Load, Typed, maps, outs
  <1>4. CASE Store(t)
    <2> DEFINE to == IF call[t].op = "free" THEN "forget" ELSE "tally"
    <2>0. to \in Place /\ "store" \in Place /\ Goto(t, "store", to)
      BY <1>4 DEF Store, Place
    <2> HIDE DEF to
    <2>1. /\ pc' \in [Thread -> Place] /\ pc[t] = "store" /\ pc'[t] = to
          /\ \A u \in Thread \ {t} : pc'[u] = pc[u]
      BY <2>0, GotoTyped
    <2> USE DEF to
    <2>2. found[t] \in Slot
      BY <1>0, <2>1 DEF Ready
    <2>3. Updated(copy[t], call[t]) \in Profile
      BY <1>0, UpdatedTyped
    <2>4. profile' \in [Slot -> Profile]
      BY <1>0, <1>4, <2>2, <2>3 DEF Store
    <2>5. copy' \in [Thread -> Profile] /\ found' \in [Thread -> Slot \cup {NoSlot}]
      BY <1>0, <1>4, EmptyTyped DEF Store
    <2>6. Ready'
      BY <1>0, <1>4, <2>1 DEF Store, Ready
    <2> QED BY <1>4, <2>1, <2>4, <2>5, <2>6 DEF Store, Typed, outs
  <1> QED BY <1>1, <1>2, <1>3, <1>4

LEMMA Untouched ==
  ASSUME Typed, UNCHANGED maps
  PROVE  /\ memory_profiles' \in [Process -> Slot \cup {NoSlot}]
         /\ profile' \in [Slot -> Profile]
         /\ memory_regions' \in [Addr -> Process \cup {None}]
  BY DEF Typed, maps

\* The probes that report and count.
LEMMA ReportTyped ==
  ASSUME Typed, NEW t \in Thread, NEW kind \in Kind, NEW a \in Addr \cup {NULL},
         NEW from \in Place \ {"idle"}, NEW to \in Place \ {"load", "store", "judge"},
         Goto(t, from, to), UNCHANGED <<maps, locals, held, calls>>,
         Send(Event(kind, t, a)) \/ UNCHANGED memory_events,
         UNCHANGED stats \/ \E indices : stats' = Counted(indices)
  PROVE  Typed'
  <1>1. /\ memory_profiles' \in [Process -> Slot \cup {NoSlot}]
        /\ profile' \in [Slot -> Profile]
        /\ memory_regions' \in [Addr -> Process \cup {None}]
    BY Untouched DEF maps
  <1>2. Event(kind, t, a) \in Report
    BY EventTyped
  <1>3. memory_events' \in Seq(Report) /\ Len(memory_events') <= RingSize
    BY <1>2, SendTyped DEF Typed
  <1>4. stats' \in [2 .. 10 -> Nat]
    <2>1. stats \in [2 .. 10 -> Nat]
      BY DEF Typed
    <2> QED BY <2>1, CountedTyped
  <1>5. /\ call' \in [Thread -> Call] /\ \A u \in Thread : call'[u].op = call[u].op
        /\ held' \in [Process -> SUBSET Block] /\ UNCHANGED <<found, copy, calls>>
    BY DEF Typed, locals
  <1> QED BY <1>1, <1>3, <1>4, <1>5, GoesOnTyped

LEMMA TallyTyped ==
  ASSUME Typed, NEW t \in Thread,
         \/ TallyMalloc(t) \/ TallyMmap(t) \/ MallocFailed(t) \/ FindRegion(t)
         \/ DoubleFree(t) \/ Free(t) \/ ReportLeak(t) \/ NoLeak(t)
  PROVE  Typed'
  <1> USE DEF Place, Kind
  <1>1. CASE TallyMalloc(t)
    BY <1>1, ReportTyped DEF TallyMalloc
  <1>2. CASE TallyMmap(t)
    BY <1>2, ReportTyped DEF TallyMmap
  <1>3. CASE MallocFailed(t)
    BY <1>3, ReportTyped DEF MallocFailed
  <1>4. CASE FindRegion(t)
    BY <1>4, ReportTyped DEF FindRegion, outs
  <1>5. CASE DoubleFree(t)
    <2>1. call[t].addr \in Addr \cup {NULL}
      BY DEF Typed, Call
    <2> QED BY <1>5, <2>1, ReportTyped DEF DoubleFree
  <1>6. CASE Free(t)
    BY <1>6, ReportTyped DEF Free, outs
  <1>7. CASE ReportLeak(t)
    BY <1>7, ReportTyped DEF ReportLeak
  <1>8. CASE NoLeak(t)
    BY <1>8, ReportTyped DEF NoLeak, outs
  <1> QED BY <1>1, <1>2, <1>3, <1>4, <1>5, <1>6, <1>7, <1>8

\* malloc, the probe on its return, and the end of trace_free.
LEMMA BlockTyped ==
  ASSUME Typed, NEW t \in Thread, Malloc(t) \/ trace_malloc_ret(t) \/ Forget(t)
  PROVE  Typed'
  <1> USE DEF Place
  <1>0. /\ Pid(t) \in Process /\ call \in [Thread -> Call] /\ call[t].size \in Nat
        /\ held \in [Process -> SUBSET Block]
        /\ stats \in [2 .. 10 -> Nat] /\ stats' \in [2 .. 10 -> Nat]
        /\ memory_events' \in Seq(Report) /\ Len(memory_events') <= RingSize
    <2>1. Pid(t) \in Process /\ call \in [Thread -> Call]
      BY PidTyped DEF Typed
    <2>2. call[t].size \in Nat
      BY <2>1 DEF Call
    <2>3. UNCHANGED memory_events
      BY DEF Malloc, trace_malloc_ret, Forget, outs
    <2>4. UNCHANGED stats \/ stats' = Counted({6})
      BY DEF Malloc, trace_malloc_ret, Forget, outs
    <2>5. stats \in [2 .. 10 -> Nat]
      BY DEF Typed
    <2> QED BY <2>1, <2>2, <2>3, <2>4, <2>5, CountedTyped DEF Typed
  <1>1. CASE Malloc(t)
    <2>1. PICK a \in Addr \cup {NULL} : call' = [call EXCEPT ![t].addr = a]
      BY <1>1 DEF Malloc
    <2>2. /\ call' \in [Thread -> Call]
          /\ \A u \in Thread : call'[u].op = call[u].op
      BY <1>0, <2>1 DEF Call
    <2>3. /\ memory_profiles' \in [Process -> Slot \cup {NoSlot}]
          /\ profile' \in [Slot -> Profile]
          /\ memory_regions' \in [Addr -> Process \cup {None}]
      BY <1>1, Untouched DEF Malloc
    <2>4. /\ Goto(t, "malloc", "ret") /\ held' \in [Process -> SUBSET Block]
          /\ UNCHANGED <<found, copy, calls>>
      BY <1>0, <1>1 DEF Malloc
    <2> QED BY <1>0, <2>2, <2>3, <2>4, GoesOnTyped
  <1>2. CASE trace_malloc_ret(t)
    <2> DEFINE b == [addr |-> call[t].addr, size |-> call[t].size]
    <2>1. call[t].addr \in Addr
      BY <1>0, <1>2 DEF trace_malloc_ret, Call
    <2>2. b \in Block
      BY <1>0, <2>1 DEF Block
    <2>3. held' = [held EXCEPT ![Pid(t)] = @ \cup {b}]
      BY <1>2 DEF trace_malloc_ret
    <2> HIDE DEF b
    <2>4. held' \in [Process -> SUBSET Block]
      BY <1>0, <2>2, <2>3
    <2>5. memory_regions' \in [Addr -> Process \cup {None}]
      BY <1>0, <1>2, <2>1, RegionsTyped DEF trace_malloc_ret
    <2>6. /\ memory_profiles' \in [Process -> Slot \cup {NoSlot}]
          /\ profile' \in [Slot -> Profile]
          /\ call' \in [Thread -> Call]
          /\ \A u \in Thread : call'[u].op = call[u].op
          /\ Goto(t, "ret", "idle") /\ UNCHANGED <<found, copy, calls>>
      BY <1>0, <1>2 DEF trace_malloc_ret, locals, Typed
    <2> QED BY <1>0, <2>4, <2>5, <2>6, GoesOnTyped
  <1>3. CASE Forget(t)
    <2>1. call[t].addr \in Addr => memory_regions' \in [Addr -> Process \cup {None}]
      BY <1>0, <1>3, RegionsTyped DEF Forget
    <2>2. call[t].addr \notin Addr => memory_regions' = memory_regions
      BY <1>3 DEF Forget, WithoutRegion, Typed
    <2>3. memory_regions' \in [Addr -> Process \cup {None}]
      BY <2>1, <2>2 DEF Typed
    <2>4. /\ memory_profiles' \in [Process -> Slot \cup {NoSlot}]
          /\ profile' \in [Slot -> Profile]
          /\ call' \in [Thread -> Call] /\ held' \in [Process -> SUBSET Block]
          /\ \A u \in Thread : call'[u].op = call[u].op
          /\ Goto(t, "forget", "free") /\ UNCHANGED <<found, copy, calls>>
      BY <1>0, <1>3 DEF Forget, locals, Typed
    <2> QED BY <1>0, <2>3, <2>4, GoesOnTyped
  <1> QED BY <1>1, <1>2, <1>3

LEMMA CleanupTyped ==
  ASSUME Typed, NEW t \in Thread, Cleanup(t)
  PROVE  Typed'
  <1>1. memory_profiles' \in [Process -> Slot \cup {NoSlot}]
    BY PidTyped DEF Cleanup, Typed
  <1>2. /\ profile' \in [Slot -> Profile]
        /\ memory_regions' \in [Addr -> Process \cup {None}]
        /\ memory_events' \in Seq(Report) /\ Len(memory_events') <= RingSize
        /\ stats' \in [2 .. 10 -> Nat]
        /\ call' \in [Thread -> Call] /\ held' \in [Process -> SUBSET Block]
        /\ \A u \in Thread : call'[u].op = call[u].op
        /\ Goto(t, "cleanup", "dead") /\ UNCHANGED <<found, copy, calls>>
    BY DEF Cleanup, locals, outs, Typed
  <1> QED BY <1>1, <1>2, GoesOnTyped DEF Place

\* What leaves every probe where it stands.
LEMMA AsideTyped ==
  ASSUME Typed, UNCHANGED <<maps, pc, locals, held>>,
         memory_events' \in Seq(Report), Len(memory_events') <= RingSize,
         stats' \in [2 .. 10 -> Nat], calls' \in 0 .. MaxCalls
  PROVE  Typed'
  <1>1. /\ UNCHANGED <<memory_profiles, profile, memory_regions>>
        /\ UNCHANGED <<pc, call, found, copy, held>>
    BY DEF maps, locals
  <1>2. Ready'
    BY <1>1 DEF Ready, Typed
  <1> QED BY <1>1, <1>2 DEF Typed

LEMMA OtherTyped ==
  ASSUME Typed,
         \/ \E t \in Thread : trace_page_fault(t) \/ trace_stack_overflow(t)
         \/ \E p \in Process : Restart(p)
         \/ Read \/ UNCHANGED vars
  PROVE  Typed'
  <1>0. /\ memory_events \in Seq(Report) /\ Len(memory_events) <= RingSize
        /\ stats \in [2 .. 10 -> Nat] /\ calls \in 0 .. MaxCalls
    BY DEF Typed
  <1>1. ASSUME NEW t \in Thread, trace_page_fault(t) PROVE Typed'
    <2>1. Event("PAGE_FAULT", t, NULL) \in Report
      BY EventTyped DEF Kind
    <2>2. memory_events' \in Seq(Report) /\ Len(memory_events') <= RingSize
      BY <1>0, <1>1, <2>1, SendTyped DEF trace_page_fault
    <2> QED BY <1>0, <1>1, <2>2, AsideTyped DEF trace_page_fault
  <1>2. ASSUME NEW t \in Thread, trace_stack_overflow(t) PROVE Typed'
    <2>1. Event("STACK_OVERFLOW", t, NULL) \in Report
      BY EventTyped DEF Kind
    <2>2. memory_events' \in Seq(Report) /\ Len(memory_events') <= RingSize
      BY <1>0, <1>2, <2>1, SendTyped DEF trace_stack_overflow
    <2>3. stats' \in [2 .. 10 -> Nat]
      BY <1>0, <1>2, CountedTyped DEF trace_stack_overflow
    <2>4. calls' \in 0 .. MaxCalls
      BY <1>0, <1>2, BoundsAssumption DEF trace_stack_overflow
    <2> QED BY <1>2, <2>2, <2>3, <2>4, AsideTyped DEF trace_stack_overflow
  <1>3. ASSUME NEW p \in Process, Restart(p) PROVE Typed'
    <2>1. pc' \in [Thread -> Place] /\ \A u \in Thread : pc'[u] \in {"idle", pc[u]}
      BY <1>3 DEF Restart, Typed, Place
    <2>2. held' \in [Process -> SUBSET Block]
      BY <1>3 DEF Restart, Typed
    <2>3. /\ UNCHANGED <<memory_profiles, profile, memory_regions, memory_events, stats>>
          /\ UNCHANGED <<call, found, copy, calls>>
      BY <1>3 DEF Restart, maps, outs, locals
    <2>4. Ready'
      BY <2>1, <2>3 DEF Ready, Typed
    <2> QED BY <2>1, <2>2, <2>3, <2>4 DEF Typed
  <1>4. CASE Read
    <2>1. memory_events' \in Seq(Report) /\ Len(memory_events') <= RingSize
      BY <1>0, <1>4, BoundsAssumption DEF Read
    <2> QED BY <1>0, <1>4, <2>1, AsideTyped DEF Read
  <1>5. CASE UNCHANGED vars
    BY <1>0, <1>5, AsideTyped DEF vars, outs
  <1> QED BY <1>1, <1>2, <1>3, <1>4, <1>5

LEMMA InitTyped == Init => Typed
  <1> SUFFICES ASSUME Init PROVE Typed
    OBVIOUS
  <1>1. NoCall \in Call /\ EmptyProfile \in Profile
    BY EmptyTyped DEF NoCall, Call, Op
  <1>2. Ready
    BY DEF Init, Ready
  <1>3. memory_events \in Seq(Report) /\ Len(memory_events) <= RingSize
    BY BoundsAssumption DEF Init
  <1>4. calls \in 0 .. MaxCalls
    BY BoundsAssumption DEF Init
  <1>5. pc \in [Thread -> Place]
    BY DEF Init, Place
  <1>6. memory_regions \in [Addr -> Process \cup {None}]
    BY DEF Init
  <1>7. call \in [Thread -> Call] /\ copy \in [Thread -> Profile] /\ profile \in [Slot -> Profile]
    BY <1>1 DEF Init
  <1>8. /\ memory_profiles \in [Process -> Slot \cup {NoSlot}]
        /\ found \in [Thread -> Slot \cup {NoSlot}]
        /\ held \in [Process -> SUBSET Block] /\ stats \in [2 .. 10 -> Nat]
    BY DEF Init
  <1> QED BY <1>2, <1>3, <1>4, <1>5, <1>6, <1>7, <1>8 DEF Typed

LEMMA NextTyped == Typed /\ [Next]_vars => Typed'
  <1> SUFFICES ASSUME Typed, [Next]_vars PROVE Typed'
    OBVIOUS
  <1>1. ASSUME NEW t \in Thread, Step(t) PROVE Typed'
    BY <1>1, CallTyped, ProfileTyped, TallyTyped, BlockTyped, CleanupTyped, OtherTyped
       DEF Step
  <1> QED BY <1>1, OtherTyped DEF Next, Move

\* Type correctness: for any processes, threads, addresses and sizes, full
\* maps and rings included, active_regions stays an unsigned value of its
\* width and a probe only ever reads or writes an element it found.
THEOREM TypeCorrect == Spec => []TypeOK
<1>1. Init => past \subseteq Sign
  BY DEF Init
<1>2. past \subseteq Sign /\ [Next]_vars => (past \subseteq Sign)'
  BY DEF Next, Signs, vars
<1>3. Typed /\ past \subseteq Sign => TypeOK
  BY DEF TypeOK
<1> QED BY <1>1, <1>2, <1>3, InitTyped, NextTyped, PTL DEF Spec

LEMMA AlwaysTyped == Spec => []Typed
  BY InitTyped, NextTyped, PTL DEF Spec

\* What was so is never forgotten.
Noted == Signs \subseteq past

LEMMA InitNoted == Init => Noted
  BY DEF Init, Noted, Signs, Exiting, Shared, Taken, NoCall, None

LEMMA NotedNext == Noted /\ [Next]_vars => Noted' /\ past \subseteq past'
  <1>1. CASE UNCHANGED vars
    <2>1. UNCHANGED <<call, pc, held, past>>
      BY <1>1 DEF vars, locals
    <2> QED BY <2>1 DEF Noted, Signs, Exiting, Shared, InUse, Taken
  <1> QED BY <1>1 DEF Next, Noted

-----------------------------------------------------------------------------
(* The profiles.                                                           *)

Only(p) == <<p, 1>>

LEMMA OnlyThread ==
  ASSUME NThreads = 1
  PROVE  /\ \A p \in Process : Only(p) \in Thread /\ Pid(Only(p)) = p
         /\ \A t \in Thread : t = Only(Pid(t))
  BY DEF Only, Thread, Pid

\* No two processes share an element, and until a profile is taken away the
\* element a probe works on is the profile of its process.
Distinct == \A p, q \in Process :
  p # q /\ memory_profiles[p] # NoSlot => memory_profiles[p] # memory_profiles[q]
Mine(t) == pc[t] \in {"load", "store", "judge"} => found[t] = memory_profiles[Pid(t)]
Owned == Distinct /\ ("taken" \notin past => \A t \in Thread : Mine(t))

\* The same of processes of one thread.
Found(p) == pc[Only(p)] \in {"load", "store", "judge"} =>
              found[Only(p)] = memory_profiles[p]
Own == Distinct /\ \A p \in Process : Found(p)

\* What a step may change of process p.
Same(p) ==
  /\ memory_profiles'[p] = memory_profiles[p] /\ held'[p] = held[p]
  /\ memory_profiles[p] # NoSlot =>
       profile'[memory_profiles[p]] = profile[memory_profiles[p]]
  /\ pc'[Only(p)] = pc[Only(p)] /\ call'[Only(p)] = call[Only(p)]
  /\ found'[Only(p)] = found[Only(p)] /\ copy'[Only(p)] = copy[Only(p)]

\* The steps that change the profiles.
LEMMA ElementsKept ==
  ASSUME NEW t \in Thread, Step(t)
  PROVE  \/ Create(t) \/ Store(t) \/ Cleanup(t)
         \/ UNCHANGED <<memory_profiles, profile>>
  <1>1. CASE CallMalloc(t) \/ CallMmap(t) \/ CallFree(t) \/ CallExit(t)
    BY <1>1 DEF CallMalloc, CallMmap, CallFree, CallExit, Start, maps
  <1>2. CASE \/ Lookup(t) \/ Load(t) \/ TallyMalloc(t) \/ TallyMmap(t) \/ Malloc(t)
             \/ MallocFailed(t) \/ trace_malloc_ret(t)
    BY <1>2 DEF Lookup, Load, TallyMalloc, TallyMmap, Malloc, MallocFailed,
       trace_malloc_ret, maps
  <1>3. CASE \/ FindRegion(t) \/ DoubleFree(t) \/ Forget(t) \/ Free(t)
             \/ ReportLeak(t) \/ NoLeak(t)
    BY <1>3 DEF FindRegion, DoubleFree, Forget, Free, ReportLeak, NoLeak, maps
  <1>4. CASE trace_page_fault(t) \/ trace_stack_overflow(t)
    BY <1>4 DEF trace_page_fault, trace_stack_overflow, maps
  <1> QED BY <1>1, <1>2, <1>3, <1>4 DEF Step

\* A probe changes only its own thread's place, call, slot and copy, and what
\* its own process holds.
LEMMA ThreadsKept ==
  ASSUME Typed, NEW t \in Thread, Step(t), NEW u \in Thread \ {t}
  PROVE  /\ pc'[u] = pc[u] /\ call'[u] = call[u] /\ found'[u] = found[u]
         /\ copy'[u] = copy[u]
         /\ \A p \in Process \ {Pid(t)} : held'[p] = held[p]
         /\ calls' \in {calls, calls + 1}
  <1>0. /\ pc \in [Thread -> Place] /\ call \in [Thread -> Call]
        /\ found \in [Thread -> Slot \cup {NoSlot}] /\ copy \in [Thread -> Profile]
        /\ held \in [Process -> SUBSET Block]
    BY DEF Typed
  <1> USE DEF Goto
  <1>1. CASE CallMalloc(t) \/ CallMmap(t) \/ CallFree(t) \/ CallExit(t)
    BY <1>0, <1>1 DEF CallMalloc, CallMmap, CallFree, CallExit, Start
  <1>2. CASE Lookup(t) \/ Create(t) \/ Load(t) \/ Store(t)
    BY <1>0, <1>2 DEF Lookup, Create, Load, Store, locals
  <1>3. CASE \/ TallyMalloc(t) \/ TallyMmap(t) \/ Malloc(t)
             \/ MallocFailed(t) \/ trace_malloc_ret(t)
    BY <1>0, <1>3 DEF TallyMalloc, TallyMmap, Malloc, MallocFailed,
       trace_malloc_ret, locals
  <1>4. CASE FindRegion(t) \/ DoubleFree(t) \/ Forget(t) \/ Free(t)
    BY <1>0, <1>4 DEF FindRegion, DoubleFree, Forget, Free, locals
  <1>5. CASE ReportLeak(t) \/ NoLeak(t) \/ Cleanup(t)
    BY <1>0, <1>5 DEF ReportLeak, NoLeak, Cleanup, locals
  <1>6. CASE trace_page_fault(t) \/ trace_stack_overflow(t)
    BY <1>6 DEF trace_page_fault, trace_stack_overflow, locals
  <1> QED BY <1>1, <1>2, <1>3, <1>4, <1>5, <1>6 DEF Step

\* What Create does: nothing, or a free element for the process.
LEMMA Creates ==
  ASSUME Typed, NEW t \in Thread, Create(t)
  PROVE  \/ UNCHANGED <<memory_profiles, profile>>
         \/ \E s \in Slot :
              /\ \A q \in Process : memory_profiles[q] # s
              /\ memory_profiles' = [memory_profiles EXCEPT ![Pid(t)] = s]
              /\ profile' = [profile EXCEPT ![s] = NewProfile(t)]
  BY DEF Create, PutProfile

LEMMA OtherKept ==
  ASSUME Typed, Own, NThreads = 1, NEW t \in Thread, Step(t),
         NEW p \in Process \ {Pid(t)}
  PROVE  Same(p)
  <1>0. /\ memory_profiles \in [Process -> Slot \cup {NoSlot}]
        /\ profile \in [Slot -> Profile] /\ Pid(t) \in Process
    BY PidTyped DEF Typed
  <1>1. Only(p) \in Thread \ {t}
    BY OnlyThread
  <1>2. /\ memory_profiles'[p] = memory_profiles[p]
        /\ memory_profiles[p] # NoSlot =>
             profile'[memory_profiles[p]] = profile[memory_profiles[p]]
    <2>1. CASE Create(t)
      <3>1. CASE UNCHANGED <<memory_profiles, profile>>
        BY <3>1
      <3>2. ASSUME NEW s \in Slot, \A q \in Process : memory_profiles[q] # s,
                   memory_profiles' = [memory_profiles EXCEPT ![Pid(t)] = s],
                   profile' = [profile EXCEPT ![s] = NewProfile(t)]
            PROVE  <1>2!1 /\ <1>2!2
        BY <1>0, <3>2
      <3> QED BY <2>1, <3>1, <3>2, Creates
    <2>2. CASE Store(t)
      <3>1. found[t] = memory_profiles[Pid(t)] /\ found[t] # NoSlot
        BY <2>2, OnlyThread, <1>0 DEF Store, Goto, Own, Found, Typed, Ready
      <3>2. memory_profiles[Pid(t)] # memory_profiles[p]
        BY <1>0, <3>1 DEF Own, Distinct
      <3> QED BY <1>0, <2>2, <3>1, <3>2 DEF Store
    <2>3. CASE Cleanup(t)
      BY <1>0, <2>3 DEF Cleanup
    <2>4. CASE UNCHANGED <<memory_profiles, profile>>
      BY <2>4
    <2> QED BY <2>1, <2>2, <2>3, <2>4, ElementsKept
  <1> QED BY <1>1, <1>2, ThreadsKept DEF Same

\* What is no probe changes no element.
LEMMA AsideKept ==
  ASSUME Read \/ (\E p \in Process : Restart(p)) \/ UNCHANGED vars
  PROVE  UNCHANGED <<memory_profiles, profile, call, found, copy, calls>>
  BY DEF Read, Restart, vars, maps, locals

LEMMA InitOwned == Init => Owned
  BY BoundsAssumption DEF Init, Owned, Distinct, Mine

LEMMA DistinctNext ==
  ASSUME Typed, Distinct, NEW t \in Thread, Step(t)
  PROVE  Distinct'
  <1>0. memory_profiles \in [Process -> Slot \cup {NoSlot}] /\ Pid(t) \in Process
    BY PidTyped DEF Typed
  <1>1. CASE UNCHANGED memory_profiles
    BY <1>1 DEF Distinct
  <1>2. ASSUME NEW s \in Slot, \A q \in Process : memory_profiles[q] # s,
               memory_profiles' = [memory_profiles EXCEPT ![Pid(t)] = s]
        PROVE  Distinct'
    BY <1>0, <1>2 DEF Distinct
  <1>3. CASE Cleanup(t)
    BY <1>0, <1>3 DEF Distinct, Cleanup
  <1>4. CASE Create(t)
    BY <1>1, <1>2, <1>4, Creates
  <1>5. CASE Store(t)
    BY <1>1, <1>5 DEF Store
  <1> QED BY <1>1, <1>3, <1>4, <1>5, ElementsKept

\* The probe that moves.
LEMMA MineMoves ==
  ASSUME Typed, NEW t \in Thread, Mine(t), Step(t)
  PROVE  Mine(t)'
  <1>0. pc \in [Thread -> Place] /\ found \in [Thread -> Slot \cup {NoSlot}]
    BY DEF Typed
  <1>1. CASE Lookup(t)
    BY <1>0, <1>1 DEF Lookup, Key, Mine, maps
  <1>2. CASE Load(t)
    <2>1. pc[t] = "load" /\ UNCHANGED <<memory_profiles, found>>
      BY <1>2 DEF Load, Goto, maps
    <2> QED BY <2>1 DEF Mine
  <1>3. CASE ~(Lookup(t) \/ Load(t))
    <2>1. pc'[t] \notin {"load", "store", "judge"}
      <3> USE <1>0 DEF Goto
      <3>1. CASE CallMalloc(t) \/ CallMmap(t) \/ CallFree(t) \/ CallExit(t)
        BY <3>1 DEF CallMalloc, CallMmap, CallFree, CallExit, Start
      <3>2. CASE Create(t) \/ Store(t)
        BY <3>2 DEF Create, Store
      <3>3. CASE \/ TallyMalloc(t) \/ TallyMmap(t) \/ Malloc(t)
                 \/ MallocFailed(t) \/ trace_malloc_ret(t)
        BY <3>3 DEF TallyMalloc, TallyMmap, Malloc, MallocFailed, trace_malloc_ret
      <3>4. CASE FindRegion(t) \/ DoubleFree(t) \/ Forget(t) \/ Free(t)
        BY <3>4 DEF FindRegion, DoubleFree, Forget, Free
      <3>5. CASE ReportLeak(t) \/ NoLeak(t) \/ Cleanup(t)
        BY <3>5 DEF ReportLeak, NoLeak, Cleanup
      <3>6. CASE trace_page_fault(t) \/ trace_stack_overflow(t)
        BY <3>6 DEF trace_page_fault, trace_stack_overflow
      <3> QED BY <1>3, <3>1, <3>2, <3>3, <3>4, <3>5, <3>6 DEF Step
    <2> QED BY <2>1 DEF Mine
  <1> QED BY <1>1, <1>2, <1>3

\* A probe that does not move keeps its profile, unless it is taken away.
LEMMA MineStays ==
  ASSUME Typed, ~Taken, NEW t \in Thread, Step(t), NEW u \in Thread \ {t}, Mine(u)
  PROVE  Mine(u)'
  <1>0. /\ memory_profiles \in [Process -> Slot \cup {NoSlot}]
        /\ Pid(t) \in Process /\ Pid(u) \in Process
    BY PidTyped DEF Typed
  <1>1. pc'[u] = pc[u] /\ found'[u] = found[u]
    BY ThreadsKept
  <1>2. ASSUME pc[u] \in {"load", "store", "judge"}
        PROVE  memory_profiles'[Pid(u)] = memory_profiles[Pid(u)]
    <2>1. CASE Create(t)
      <3>1. Pid(t) # Pid(u)
        BY <1>2, <2>1 DEF Taken, Create, Goto
      <3> QED BY <1>0, <2>1, <3>1, Creates
    <2>2. CASE Cleanup(t)
      <3>1. Pid(t) # Pid(u)
        BY <1>2, <2>2 DEF Taken, Cleanup, Goto
      <3> QED BY <1>0, <2>2, <3>1 DEF Cleanup
    <2>3. CASE Store(t)
      BY <2>3 DEF Store
    <2> QED BY <2>1, <2>2, <2>3, ElementsKept
  <1> QED BY <1>1, <1>2 DEF Mine

LEMMA OwnedNext == Typed /\ Noted /\ Owned /\ [Next]_vars => Owned'
  <1> SUFFICES ASSUME Typed, Noted, Owned, [Next]_vars PROVE Owned'
    OBVIOUS
  <1>0. "taken" \notin past' => "taken" \notin past /\ ~Taken
    BY NotedNext DEF Noted, Signs, Sign
  <1>1. ASSUME NEW t \in Thread, Step(t) PROVE Owned'
    BY <1>0, <1>1, DistinctNext, MineMoves, MineStays DEF Owned
  <1>2. CASE Read \/ (\E p \in Process : Restart(p)) \/ UNCHANGED vars
    <2>1. UNCHANGED <<memory_profiles, found>>
      BY <1>2, AsideKept
    <2>2. \A t \in Thread : pc'[t] \in {"idle", pc[t]}
      BY <1>2 DEF Read, Restart, vars, Typed
    <2>3. Distinct'
      BY <2>1 DEF Owned, Distinct
    <2>4. \A t \in Thread : Mine(t) => Mine(t)'
      BY <2>1, <2>2 DEF Mine
    <2> QED BY <1>0, <2>3, <2>4 DEF Owned
  <1> QED BY <1>1, <1>2 DEF Next, Move

LEMMA AlwaysOwned == Spec => [](Noted /\ Owned)
<1>1. Noted /\ [Next]_vars => Noted'
  BY NotedNext
<1> QED BY <1>1, InitNoted, InitOwned, OwnedNext, AlwaysTyped, PTL DEF Spec

\* A probe works on the profile of its own process, which no other process
\* has, for any numbers of processes, threads, addresses and entries: until a
\* thread exits, or creates the profile again, while another thread of its
\* process holds the pointer.
THEOREM ProfilesApart == Spec => []OwnProfileOnly
<1>1. Typed /\ Owned => OwnProfileOnly
  <2> SUFFICES ASSUME Typed, Owned, "taken" \notin past,
                      NEW t \in Thread, pc[t] \in {"load", "store", "judge"}
               PROVE  /\ found[t] = memory_profiles[Pid(t)]
                      /\ \A q \in Process \ {Pid(t)} : memory_profiles[q] # found[t]
    BY DEF OwnProfileOnly
  <2>1. found[t] = memory_profiles[Pid(t)] /\ found[t] # NoSlot
    BY DEF Owned, Mine, Typed, Ready
  <2> QED BY <2>1, PidTyped DEF Owned, Distinct
<1> QED BY <1>1, AlwaysOwned, AlwaysTyped, PTL

-----------------------------------------------------------------------------
(* Processes of one thread: what active_regions counts.                    *)

\* With one thread nobody takes a profile away.
LEMMA AlwaysOwn == NThreads = 1 => (Spec => []Own)
<1> SUFFICES ASSUME NThreads = 1 PROVE Spec => []Own
  OBVIOUS
<1>1. ~Taken /\ ~Taken'
  BY OnlyThread DEF Taken
<1>2. Init => "taken" \notin past
  BY DEF Init
<1>3. "taken" \notin past /\ [Next]_vars => ("taken" \notin past)'
  BY <1>1 DEF Next, Signs, vars
<1>4. Owned /\ "taken" \notin past => Own
  BY OnlyThread DEF Owned, Mine, Own, Found
<1> QED BY <1>2, <1>3, <1>4, AlwaysOwned, PTL DEF Spec

\* active_regions of a process, 0 when it has no profile.
Active(p) == IF memory_profiles[p] = NoSlot THEN 0
             ELSE profile[memory_profiles[p]].active

\* 1 for a call that is made and has not reached the profile,
Pending(t) == IF \/ pc[t] = "create"
                 \/ pc[t] \in {"lookup", "load", "store"} /\ call[t].op # "free"
                THEN 1 ELSE 0
\* for a block that is counted before it is held,
Coming(t) == IF \/ pc[t] \in {"malloc", "ret"}
                \/ pc[t] = "tally" /\ call[t].op = "malloc" THEN 1 ELSE 0
\* and for one that is counted after it is held.
Leaving(t) == IF \/ pc[t] = "find"
                 \/ pc[t] \in {"lookup", "load", "store"} /\ call[t].op = "free"
                THEN 1 ELSE 0

\* active_regions is at least the blocks and at most the calls.
Covered(p) ==
  /\ IsFiniteSet(held[p])
  /\ pc[Only(p)] # "dead" =>
       Cardinality(held[p]) + Coming(Only(p)) + Leaving(Only(p)) <= Active(p)
  /\ Active(p) + Pending(Only(p)) <= calls
  /\ pc[Only(p)] = "store" => copy[Only(p)] = profile[memory_profiles[p]]
  /\ pc[Only(p)] \in {"create", "dead"} => memory_profiles[p] = NoSlot
  /\ pc[Only(p)] = "find" => call[Only(p)].op = "free"

LEMMA CoveredTypes ==
  ASSUME Typed, NEW p \in Process, IsFiniteSet(held[p])
  PROVE  /\ Cardinality(held[p]) \in Nat /\ Active(p) \in Nat /\ calls \in Nat
         /\ \A t : Pending(t) \in {0, 1} /\ Coming(t) \in {0, 1} /\ Leaving(t) \in {0, 1}
  <1>1. Cardinality(held[p]) \in Nat
    BY FS_CardinalityType
  <1>2. \A t : Pending(t) \in {0, 1} /\ Coming(t) \in {0, 1} /\ Leaving(t) \in {0, 1}
    BY DEF Pending, Coming, Leaving
  <1>3. calls \in Nat
    BY BoundsAssumption DEF Typed
  <1>4. Active(p) \in Nat
    <2>1. CASE memory_profiles[p] = NoSlot
      BY <2>1 DEF Active
    <2>2. CASE memory_profiles[p] # NoSlot
      <3>1. profile[memory_profiles[p]] \in Profile
        BY <2>2 DEF Typed
      <3>2. profile[memory_profiles[p]].active \in Nat
        BY <3>1, BoundsAssumption DEF Profile
      <3> QED BY <2>2, <3>2 DEF Active
    <2> QED BY <2>1, <2>2
  <1> QED BY <1>1, <1>2, <1>3, <1>4

\* A probe that leaves the profile and the blocks and comes nearer its end.
LEMMA Lighter ==
  ASSUME Typed, Typed', NEW p \in Process, Covered(p),
         UNCHANGED <<memory_profiles, profile>>, held'[p] = held[p],
         calls' \in {calls, calls + 1}, pc[Only(p)] # "dead",
         Coming(Only(p))' + Leaving(Only(p))' <= Coming(Only(p)) + Leaving(Only(p)),
         \/ Pending(Only(p))' <= Pending(Only(p))
         \/ calls' = calls + 1 /\ Pending(Only(p)) = 0,
         pc'[Only(p)] \notin {"store", "create", "dead", "find"}
  PROVE  Covered(p)'
  <1> DEFINE t == Only(p)
             n == Cardinality(held[p])
             n1 == Cardinality(held'[p])
  <1>1. IsFiniteSet(held[p]) /\ IsFiniteSet(held'[p]) /\ n1 = n
    BY DEF Covered
  <1>2. /\ n \in Nat /\ Active(p) \in Nat /\ calls \in Nat /\ Active(p)' = Active(p)
        /\ Pending(t) \in {0, 1} /\ Coming(t) \in {0, 1} /\ Leaving(t) \in {0, 1}
        /\ Pending(t)' \in {0, 1} /\ Coming(t)' \in {0, 1} /\ Leaving(t)' \in {0, 1}
    <2>1. Active(p)' = Active(p)
      BY DEF Active
    <2>2. Pending(t)' \in {0, 1} /\ Coming(t)' \in {0, 1} /\ Leaving(t)' \in {0, 1}
      BY DEF Pending, Coming, Leaving
    <2> QED BY <1>1, <2>1, <2>2, CoveredTypes
  <1>3. n + Coming(t) + Leaving(t) <= Active(p) /\ Active(p) + Pending(t) <= calls
    BY DEF Covered
  <1> HIDE DEF n, n1
  <1>4. n1 + Coming(t)' + Leaving(t)' <= Active(p)'
    BY <1>1, <1>2, <1>3
  <1>5. Active(p)' + Pending(t)' <= calls'
    BY <1>2, <1>3
  <1> QED BY <1>1, <1>4, <1>5 DEF n1, Covered

LEMMA UpdatedActive ==
  ASSUME NEW old \in Profile, NEW c \in Call
  PROVE  /\ c.op = "free" /\ 1 <= old.active =>
               Updated(old, c).active = old.active - 1
         /\ c.op # "free" /\ old.active + 1 < Width =>
               Updated(old, c).active = old.active + 1
  <1>1. old.active \in 0 .. Width - 1 /\ Width \in Nat
    BY BoundsAssumption DEF Profile
  <1>2. CASE c.op = "free"
    <2>1. Updated(old, c).active = OneLess(old.active)
      BY <1>2 DEF Updated, Profile
    <2>2. 1 <= old.active => OneLess(old.active) = old.active - 1
      BY <1>1 DEF OneLess
    <2> QED BY <1>2, <2>1, <2>2
  <1>3. CASE c.op # "free"
    <2>1. Updated(old, c).active = (old.active + 1) % Width
      BY <1>3 DEF Updated, Profile
    <2>2. old.active + 1 < Width => (old.active + 1) % Width = old.active + 1
      BY <1>1
    <2> QED BY <1>3, <2>1, <2>2
  <1> QED BY <1>2, <1>3

\* The places of a probe that Lighter describes.
LEMMA Quiet ==
  ASSUME Typed, Typed', NEW p \in Process, NEW t \in Thread, t = Only(p), Pid(t) = p,
         Covered(p),
         \/ CallMalloc(t) \/ CallMmap(t) \/ CallExit(t)
         \/ TallyMalloc(t) \/ TallyMmap(t) \/ Malloc(t) \/ MallocFailed(t)
         \/ FindRegion(t) \/ DoubleFree(t) \/ Forget(t) \/ Free(t)
         \/ ReportLeak(t) \/ NoLeak(t)
         \/ trace_page_fault(t) \/ trace_stack_overflow(t)
  PROVE  Covered(p)'
  <1>0. /\ pc \in [Thread -> Place] /\ call \in [Thread -> Call]
    BY DEF Typed
  <1> USE <1>0 DEF Goto, Pending, Coming, Leaving
  <1>1. ASSUME NEW op \in {"malloc", "mmap", "exit"}, NEW size, NEW a,
               Start(t, op, size, a, "lookup"), UNCHANGED held
        PROVE  Covered(p)'
    <2>1. /\ pc[t] = "idle" /\ pc'[t] = "lookup" /\ call'[t].op = op
          /\ calls' = calls + 1 /\ UNCHANGED <<memory_profiles, profile>>
      BY <1>1 DEF Start, maps
    <2>2. Coming(t)' + Leaving(t)' <= Coming(t) + Leaving(t) /\ Pending(t) = 0
      BY <2>1
    <2> QED BY <1>1, <2>1, <2>2, Lighter
  <1>2. CASE CallMalloc(t) \/ CallMmap(t) \/ CallExit(t)
    BY <1>1, <1>2 DEF CallMalloc, CallMmap, CallExit
  <1>3. ASSUME NEW from \in {"tally", "malloc", "ret", "find", "forget", "free", "judge"},
               NEW to \in {"idle", "malloc", "ret", "lookup", "free", "cleanup"},
               Goto(t, from, to), call'[t].op = call[t].op,
               to = "malloc" => from = "tally" /\ call[t].op = "malloc",
               to = "ret" => from = "malloc", to = "lookup" => from = "find",
               to = "lookup" => call[t].op = "free",
               UNCHANGED <<memory_profiles, profile, held, calls>>
        PROVE  Covered(p)'
    <2>1. pc[t] = from /\ pc'[t] = to
      BY <1>3
    <2>2. Coming(t)' + Leaving(t)' <= Coming(t) + Leaving(t)
      BY <1>3, <2>1
    <2>3. Pending(t)' <= Pending(t)
      BY <1>3, <2>1
    <2> QED BY <1>3, <2>1, <2>2, <2>3, Lighter
  <1>4. CASE TallyMalloc(t)
    BY <1>3, <1>4 DEF TallyMalloc, maps, locals
  <1>5. CASE TallyMmap(t)
    BY <1>3, <1>5 DEF TallyMmap, maps, locals
  <1>6. CASE Malloc(t)
    <2>1. call'[t].op = call[t].op
      BY <1>6 DEF Malloc, Call
    <2> QED BY <1>3, <1>6, <2>1 DEF Malloc, maps
  <1>7. CASE MallocFailed(t)
    BY <1>3, <1>7 DEF MallocFailed, maps, locals
  <1>8. CASE DoubleFree(t) \/ Forget(t) \/ Free(t)
    BY <1>3, <1>8 DEF DoubleFree, Forget, Free, maps, locals
  <1>9. CASE ReportLeak(t) \/ NoLeak(t)
    BY <1>3, <1>9 DEF ReportLeak, NoLeak, maps, locals
  <1>10. CASE FindRegion(t)
    <2>1. /\ pc[t] = "find" /\ pc'[t] = "lookup" /\ UNCHANGED call
          /\ UNCHANGED <<memory_profiles, profile, held, calls>>
      BY <1>10 DEF FindRegion, maps, locals
    <2>2. call[t].op = "free"
      BY <2>1 DEF Covered
    <2> QED BY <1>3, <1>10, <2>1, <2>2 DEF FindRegion
  <1>11. CASE trace_page_fault(t) \/ trace_stack_overflow(t)
    <2>1. /\ pc[t] = "idle" /\ pc'[t] = "idle" /\ calls' \in {calls, calls + 1}
          /\ UNCHANGED <<memory_profiles, profile, held>>
      BY <1>11 DEF trace_page_fault, trace_stack_overflow, maps
    <2>2. /\ Coming(t)' + Leaving(t)' <= Coming(t) + Leaving(t)
          /\ Pending(t)' <= Pending(t)
      BY <2>1
    <2> QED BY <2>1, <2>2, Lighter
  <1> QED BY <1>2, <1>4, <1>5, <1>6, <1>7, <1>8, <1>9, <1>10, <1>11

\* No other process makes a probe of this one wrong.
LEMMA CoveredOther ==
  ASSUME Typed, Own, NThreads = 1, NEW p \in Process, Covered(p), Same(p),
         calls' \in {calls, calls + 1}
  PROVE  Covered(p)'
  <1>1. IsFiniteSet(held[p]) /\ held'[p] = held[p]
    BY DEF Covered, Same
  <1>2. Active(p)' = Active(p)
    BY DEF Active, Same
  <1>3. /\ Pending(Only(p))' = Pending(Only(p))
        /\ Coming(Only(p))' = Coming(Only(p))
        /\ Leaving(Only(p))' = Leaving(Only(p))
    BY DEF Pending, Coming, Leaving, Same
  <1>4. calls \in Nat /\ Active(p) \in Nat /\ Pending(Only(p)) \in {0, 1}
    BY <1>1, CoveredTypes
  <1>5. Active(p)' + Pending(Only(p))' <= calls'
    BY <1>2, <1>3, <1>4 DEF Covered
  <1>6. pc'[Only(p)] # "dead" =>
          Cardinality(held'[p]) + Coming(Only(p))' + Leaving(Only(p))' <= Active(p)'
    BY <1>1, <1>2, <1>3 DEF Covered, Same
  <1>7. pc'[Only(p)] = "store" => copy'[Only(p)] = profile'[memory_profiles'[p]]
    <2> SUFFICES ASSUME pc'[Only(p)] = "store"
                 PROVE  copy'[Only(p)] = profile'[memory_profiles'[p]]
      OBVIOUS
    <2>1. pc[Only(p)] = "store" /\ copy[Only(p)] = profile[memory_profiles[p]]
      BY DEF Covered, Same
    <2>2. Ready /\ Only(p) \in Thread /\ found[Only(p)] = memory_profiles[p]
      BY <2>1, OnlyThread DEF Typed, Own, Found
    <2>3. memory_profiles[p] # NoSlot
      BY <2>1, <2>2 DEF Ready
    <2> QED BY <2>1, <2>3 DEF Same
  <1> QED BY <1>1, <1>5, <1>6, <1>7 DEF Covered, Same

\* The probes that read and write the profile, and the blocks that come and go.
LEMMA CoveredMoves ==
  ASSUME Typed, Typed', Own, NThreads = 1, MaxCalls < Width,
         IsFiniteSet(Process), Cardinality(Process) <= MaxProfiles,
         NEW p \in Process, NEW t \in Thread, t = Only(p), Pid(t) = p, Covered(p),
         \/ CallFree(t) \/ Lookup(t) \/ Create(t) \/ Load(t) \/ Store(t)
         \/ trace_malloc_ret(t) \/ Cleanup(t)
  PROVE  Covered(p)'
  <1>0. /\ pc \in [Thread -> Place] /\ call \in [Thread -> Call] /\ Ready
        /\ memory_profiles \in [Process -> Slot \cup {NoSlot}]
        /\ profile \in [Slot -> Profile] /\ copy \in [Thread -> Profile]
        /\ held \in [Process -> SUBSET Block] /\ calls \in 0 .. MaxCalls
    BY DEF Typed
  <1> DEFINE n == Cardinality(held[p])
             n1 == Cardinality(held'[p])
  <1>n. /\ IsFiniteSet(held[p]) /\ n \in Nat /\ Active(p) \in Nat /\ calls \in Nat
        /\ Pending(t) \in {0, 1} /\ Coming(t) \in {0, 1} /\ Leaving(t) \in {0, 1}
        /\ pc[t] # "dead" => n + Coming(t) + Leaving(t) <= Active(p)
        /\ Active(p) + Pending(t) <= calls
    BY CoveredTypes DEF Covered
  <1>1. CASE CallFree(t)
    <2>1. PICK b \in held[p] : /\ Start(t, "free", b.size, b.addr, "find")
                               /\ held' = [held EXCEPT ![p] = @ \ {b}]
      BY <1>1 DEF CallFree
    <2>2. /\ pc[t] = "idle" /\ pc'[t] = "find" /\ call'[t].op = "free"
          /\ calls' = calls + 1 /\ UNCHANGED <<memory_profiles, profile>>
      BY <1>0, <2>1 DEF Start, Goto, maps
    <2>3. held'[p] = held[p] \ {b}
      BY <1>0, <2>1
    <2>4. IsFiniteSet(held'[p]) /\ n1 = n - 1
      <3>1. /\ IsFiniteSet(held[p] \ {b})
            /\ Cardinality(held[p] \ {b}) = IF b \in held[p] THEN Cardinality(held[p]) - 1
                                                           ELSE Cardinality(held[p])
        BY <1>n, FS_RemoveElement
      <3> QED BY <2>1, <2>3, <3>1
    <2>5. Active(p)' = Active(p) /\ Pending(t)' = 0 /\ Coming(t)' = 0 /\ Leaving(t)' = 1
      BY <2>2 DEF Active, Pending, Coming, Leaving
    <2>6. n <= Active(p) /\ Active(p) <= calls
      BY <1>n, <2>2
    <2> HIDE DEF n, n1
    <2>7. n1 + Coming(t)' + Leaving(t)' <= Active(p)' /\ Active(p)' + Pending(t)' <= calls'
      BY <1>n, <2>2, <2>4, <2>5, <2>6
    <2> QED BY <2>2, <2>4, <2>7 DEF n1, Covered
  <1>2. CASE Lookup(t)
    <2> DEFINE slot == memory_profiles[p]
    <2>1. /\ pc[t] = "lookup" /\ pc'[t] = AfterLookup(call[t].op, slot)
          /\ UNCHANGED <<memory_profiles, profile, held, calls, call>>
      BY <1>0, <1>2 DEF Lookup, Goto, Key, maps
    <2>2. call[t].op \in {"malloc", "mmap", "free", "exit"}
      BY <1>0, <2>1 DEF Ready, Call, Op
    <2>3. slot = NoSlot => call[t].op # "free"
      <3>1. slot = NoSlot => Active(p) = 0
        BY DEF Active
      <3>2. call[t].op = "free" => Leaving(t) = 1
        BY <2>1 DEF Leaving
      <3> HIDE DEF n
      <3> QED BY <1>n, <2>1, <3>1, <3>2
    <2>4. /\ slot # NoSlot => pc'[t] = IF call[t].op = "exit" THEN "judge" ELSE "load"
          /\ slot = NoSlot => pc'[t] = IF call[t].op = "exit" THEN "dead" ELSE "create"
      <3> HIDE DEF slot
      <3> QED BY <2>1, <2>2, <2>3, AfterLookupCases
    <2>5. /\ Active(p)' = Active(p) /\ Pending(t)' <= Pending(t) /\ n1 = n
          /\ Coming(t)' + Leaving(t)' <= Coming(t) + Leaving(t)
      <3>1. Active(p)' = Active(p) /\ n1 = n
        BY <2>1 DEF Active
      <3>2. /\ pc[t] = "lookup" /\ call'[t].op = call[t].op
            /\ pc'[t] \in {"judge", "load", "dead", "create"}
            /\ pc'[t] = "create" => call[t].op # "free"
        BY <2>1, <2>3, <2>4
      <3>3. Pending(t)' <= Pending(t)
        BY <3>2 DEF Pending
      <3>4. Coming(t)' = 0 /\ Coming(t) = 0 /\ Leaving(t)' <= Leaving(t)
        BY <3>2 DEF Coming, Leaving
      <3>5. Leaving(t)' \in {0, 1} /\ Leaving(t) \in {0, 1}
        BY DEF Leaving
      <3> HIDE DEF n, n1
      <3> QED BY <3>1, <3>3, <3>4, <3>5
    <2>6. Coming(t)' \in {0, 1} /\ Leaving(t)' \in {0, 1} /\ Pending(t)' \in {0, 1}
      BY DEF Pending, Coming, Leaving
    <2> HIDE DEF n, n1
    <2>7. n1 + Coming(t)' + Leaving(t)' <= Active(p)' /\ Active(p)' + Pending(t)' <= calls'
      BY <1>n, <2>1, <2>5, <2>6
    <2>8. pc'[t] \notin {"store", "find"}
      BY <2>4
    <2> QED BY <1>n, <2>1, <2>4, <2>7, <2>8 DEF n1, Covered
  <1>3. CASE Create(t)
    <2>1. /\ pc[t] = "create" /\ pc'[t] = "tally" /\ memory_profiles[p] = NoSlot
          /\ UNCHANGED <<held, calls, call>> /\ PutProfile(p, NewProfile(t))
      BY <1>0, <1>3 DEF Create, Goto, locals, Covered
    <2>2. Cardinality(Profiled) # MaxProfiles
      <3>1. Profiled \subseteq Process \ {p}
        BY <2>1 DEF Profiled
      <3>2. /\ IsFiniteSet(Process \ {p})
            /\ Cardinality(Process \ {p}) = Cardinality(Process) - 1
        BY FS_RemoveElement
      <3>3. Cardinality(Profiled) <= Cardinality(Process) - 1
        BY <3>1, <3>2, FS_Subset
      <3>4. IsFiniteSet(Profiled)
        BY <3>1, <3>2, FS_Subset
      <3>5. Cardinality(Profiled) \in Nat /\ Cardinality(Process) \in Nat
        BY <3>4, FS_CardinalityType
      <3> QED BY <3>3, <3>5, MapsAssumption
    <2>3. PICK s \in Slot : /\ memory_profiles' = [memory_profiles EXCEPT ![p] = s]
                            /\ profile' = [profile EXCEPT ![s] = NewProfile(t)]
      BY <2>1, <2>2 DEF PutProfile
    <2>4. memory_profiles'[p] = s /\ s # NoSlot /\ profile'[s].active = 1
      <3>1. NewProfile(t).active = 1
        BY DEF NewProfile, EmptyProfile, FirstActive
      <3> QED BY <1>0, <2>3, <3>1, MapsAssumption DEF Slot, NoSlot
    <2>5. Active(p) = 0 /\ Active(p)' = 1
      BY <2>1, <2>4 DEF Active
    <2>6. Pending(t) = 1 /\ Pending(t)' = 0 /\ Leaving(t)' = 0 /\ Coming(t)' \in {0, 1}
      BY <2>1 DEF Pending, Leaving, Coming
    <2>7. n1 = n
      BY <2>1
    <2> HIDE DEF n, n1
    <2>8. n1 + Coming(t)' + Leaving(t)' <= Active(p)' /\ Active(p)' + Pending(t)' <= calls'
      BY <1>n, <2>1, <2>5, <2>6, <2>7
    <2> QED BY <1>n, <2>1, <2>8 DEF n1, Covered
  <1>4. CASE Load(t)
    <2>1. /\ pc[t] = "load" /\ pc'[t] = "store" /\ copy'[t] = profile[found[t]]
          /\ UNCHANGED <<memory_profiles, profile, held, calls, call>>
      BY <1>0, <1>4 DEF Load, Goto, maps
    <2>2. found[t] = memory_profiles[p]
      BY <2>1 DEF Own, Found
    <2>3. /\ Active(p)' = Active(p) /\ Pending(t)' = Pending(t) /\ n1 = n
          /\ Coming(t)' = Coming(t) /\ Leaving(t)' = Leaving(t)
      BY <2>1 DEF Active, Pending, Coming, Leaving
    <2> HIDE DEF n, n1
    <2>4. n1 + Coming(t)' + Leaving(t)' <= Active(p)' /\ Active(p)' + Pending(t)' <= calls'
      BY <1>n, <2>1, <2>3
    <2> QED BY <1>n, <2>1, <2>2, <2>4 DEF n1, Covered
  <1>5. CASE Store(t)
    <2> DEFINE slot == memory_profiles[p]
    <2>1. /\ pc[t] = "store" /\ pc'[t] \in {"forget", "tally"}
          /\ pc'[t] = "tally" => call[t].op # "free"
          /\ UNCHANGED <<memory_profiles, held, calls, call>>
          /\ profile' = [profile EXCEPT ![found[t]] = Updated(copy[t], call[t])]
      BY <1>0, <1>5 DEF Store, Goto
    <2>2. found[t] = slot /\ slot # NoSlot /\ slot \in Slot /\ copy[t] = profile[slot]
      BY <1>0, <2>1 DEF Own, Found, Ready, Covered
    <2>3. profile[slot] \in Profile /\ call[t] \in Call
      BY <1>0, <2>2
    <2>4. /\ Active(p) = profile[slot].active
          /\ Active(p)' = Updated(profile[slot], call[t]).active
      BY <1>0, <2>1, <2>2 DEF Active
    <2>5. n1 = n
      BY <2>1
    <2>6. Pending(t)' = 0 /\ Leaving(t)' = 0 /\ Coming(t)' \in {0, 1} /\ Coming(t) = 0
      BY <2>1 DEF Pending, Leaving, Coming
    <2> HIDE DEF n, n1
    <2>7. CASE call[t].op = "free"
      <3>1. Leaving(t) = 1 /\ Coming(t)' = 0
        BY <2>1, <2>7 DEF Leaving, Coming
      <3>2. 1 <= Active(p)
        BY <1>n, <2>1, <3>1
      <3>3. Active(p)' = Active(p) - 1
        BY <2>3, <2>4, <2>7, <3>2, UpdatedActive
      <3>4. n1 + Coming(t)' + Leaving(t)' <= Active(p)' /\ Active(p)' + Pending(t)' <= calls'
        BY <1>n, <2>1, <2>5, <2>6, <3>1, <3>3
      <3> QED BY <1>n, <2>1, <3>4 DEF n1, Covered
    <2>8. CASE call[t].op # "free"
      <3>1. Pending(t) = 1 /\ Leaving(t) = 0
        BY <2>1, <2>8 DEF Leaving, Pending
      <3>2. Active(p) + 1 < Width
        BY <1>0, <1>n, <3>1, BoundsAssumption
      <3>3. Active(p)' = Active(p) + 1
        BY <2>3, <2>4, <2>8, <3>2, UpdatedActive
      <3>4. n1 + Coming(t)' + Leaving(t)' <= Active(p)' /\ Active(p)' + Pending(t)' <= calls'
        BY <1>n, <2>1, <2>5, <2>6, <3>1, <3>3
      <3> QED BY <1>n, <2>1, <3>4 DEF n1, Covered
    <2> QED BY <2>7, <2>8
  <1>6. CASE trace_malloc_ret(t)
    <2> DEFINE b == [addr |-> call[t].addr, size |-> call[t].size]
    <2>1. /\ pc[t] = "ret" /\ pc'[t] = "idle" /\ held'[p] = held[p] \cup {b}
          /\ UNCHANGED <<memory_profiles, profile, calls, call>>
      BY <1>0, <1>6 DEF trace_malloc_ret, Goto, locals
    <2> HIDE DEF b
    <2>2. IsFiniteSet(held'[p]) /\ n1 <= n + 1 /\ n1 \in Nat
      <3>1. IsFiniteSet(held'[p]) /\ n1 = IF b \in held[p] THEN n ELSE n + 1
        <4>1. /\ IsFiniteSet(held[p] \cup {b})
              /\ Cardinality(held[p] \cup {b}) = IF b \in held[p] THEN Cardinality(held[p])
                                                    ELSE Cardinality(held[p]) + 1
          BY <1>n, FS_AddElement
        <4> QED BY <2>1, <4>1
      <3> HIDE DEF n, n1
      <3> QED BY <1>n, <3>1
    <2>3. /\ Active(p)' = Active(p) /\ Pending(t)' = 0 /\ Coming(t)' = 0
          /\ Leaving(t)' = 0 /\ Coming(t) = 1
      BY <2>1 DEF Active, Pending, Coming, Leaving
    <2> HIDE DEF n, n1
    <2>4. n1 + Coming(t)' + Leaving(t)' <= Active(p)' /\ Active(p)' + Pending(t)' <= calls'
      BY <1>n, <2>1, <2>2, <2>3
    <2> QED BY <2>1, <2>2, <2>4 DEF n1, Covered
  <1>7. CASE Cleanup(t)
    <2>1. /\ pc'[t] = "dead" /\ memory_profiles'[p] = NoSlot
          /\ UNCHANGED <<held, calls>>
      BY <1>0, <1>7 DEF Cleanup, Goto
    <2>2. Active(p)' = 0 /\ Pending(t)' = 0
      BY <2>1 DEF Active, Pending
    <2> QED BY <1>n, <2>1, <2>2 DEF Covered
  <1> QED BY <1>1, <1>2, <1>3, <1>4, <1>5, <1>6, <1>7

LEMMA CoveredAside ==
  ASSUME Typed, Typed', Own, NThreads = 1, NEW p \in Process, Covered(p),
         Read \/ (\E q \in Process : Restart(q)) \/ UNCHANGED vars
  PROVE  Covered(p)'
  <1>1. UNCHANGED <<memory_profiles, profile, call, found, copy, calls>>
    BY AsideKept
  <1>2. Only(p) \in Thread /\ Pid(Only(p)) = p
    BY OnlyThread
  <1>3. CASE UNCHANGED <<pc, held>>
    BY <1>1, <1>3, CoveredOther DEF Same
  <1>4. ASSUME NEW q \in Process, Restart(q) PROVE Covered(p)'
    <2>1. /\ pc' = [u \in Thread |-> IF Pid(u) = q THEN "idle" ELSE pc[u]]
          /\ held' = [held EXCEPT ![q] = {}]
          /\ Dead(q) /\ held \in [Process -> SUBSET Block]
      BY <1>4 DEF Restart, Typed
    <2>2. CASE q # p
      BY <1>1, <1>2, <2>1, <2>2, CoveredOther DEF Same
    <2>3. CASE q = p
      <3>1. pc[Only(p)] = "dead" /\ pc'[Only(p)] = "idle" /\ held'[p] = {}
        BY <1>2, <2>1, <2>3 DEF Dead
      <3>2. memory_profiles'[p] = NoSlot
        BY <1>1, <3>1 DEF Covered
      <3>3. /\ Active(p)' = 0 /\ Pending(Only(p))' = 0 /\ Coming(Only(p))' = 0
            /\ Leaving(Only(p))' = 0
        BY <3>1, <3>2 DEF Active, Pending, Coming, Leaving
      <3>4. IsFiniteSet(held'[p]) /\ Cardinality(held'[p]) = 0
        BY <3>1, FS_EmptySet
      <3>5. calls' \in Nat
        BY BoundsAssumption DEF Typed
      <3> QED BY <3>1, <3>3, <3>4, <3>5 DEF Covered
    <2> QED BY <2>2, <2>3
  <1>5. Read \/ UNCHANGED vars => UNCHANGED <<pc, held>>
    BY DEF Read, vars
  <1> QED BY <1>3, <1>4, <1>5

LEMMA CoveredNext ==
  ASSUME Typed, Typed', Own, NThreads = 1, MaxCalls < Width,
         IsFiniteSet(Process), Cardinality(Process) <= MaxProfiles,
         NEW p \in Process, Covered(p), [Next]_vars
  PROVE  Covered(p)'
  <1>1. ASSUME NEW t \in Thread, Step(t) PROVE Covered(p)'
    <2>1. CASE Pid(t) = p
      <3>1. t = Only(p)
        BY <2>1, OnlyThread
      <3> QED BY <1>1, <2>1, <3>1, Quiet, CoveredMoves DEF Step
    <2>2. CASE Pid(t) # p
      <3>1. Same(p)
        BY <1>1, <2>2, OtherKept
      <3>2. calls' \in {calls, calls + 1}
        <4>1. Only(p) \in Thread \ {t}
          BY <2>2, OnlyThread
        <4> QED BY <1>1, <4>1, ThreadsKept
      <3> QED BY <3>1, <3>2, CoveredOther
    <2> QED BY <2>1, <2>2
  <1> QED BY <1>1, CoveredAside DEF Next, Move

LEMMA InitCovered ==
  ASSUME Init, NThreads = 1, NEW p \in Process
  PROVE  Covered(p)
  <1>1. /\ Only(p) \in Thread /\ memory_profiles[p] = NoSlot /\ held[p] = {}
        /\ pc[Only(p)] = "idle" /\ calls = 0
    BY OnlyThread DEF Init
  <1>2. /\ Active(p) = 0 /\ Pending(Only(p)) = 0 /\ Coming(Only(p)) = 0
        /\ Leaving(Only(p)) = 0
    BY <1>1 DEF Active, Pending, Coming, Leaving
  <1>3. IsFiniteSet(held[p]) /\ Cardinality(held[p]) = 0
    BY <1>1, FS_EmptySet
  <1> QED BY <1>1, <1>2, <1>3 DEF Covered

\* With fewer calls than active_regions can count, as many profiles as
\* processes and one thread in each, active_regions of a process covers the
\* blocks it holds, so it never wraps below zero.
THEOREM NeverBelowHeld ==
  NThreads = 1 /\ MaxCalls < Width /\ IsFiniteSet(Process)
    /\ Cardinality(Process) <= MaxProfiles => (Spec => []ActiveCoversHeld)
<1> SUFFICES ASSUME NThreads = 1, MaxCalls < Width, IsFiniteSet(Process),
                    Cardinality(Process) <= MaxProfiles
             PROVE  Spec => []ActiveCoversHeld
  OBVIOUS
<1> DEFINE Inv == \A p \in Process : Covered(p)
<1>1. Init => Inv
  BY InitCovered
<1>2. Typed /\ Typed' /\ Own /\ Inv /\ [Next]_vars => Inv'
  BY CoveredNext
<1>3. Typed /\ Inv => ActiveCoversHeld
  <2> SUFFICES ASSUME Typed, Inv, NEW p \in Process, memory_profiles[p] # NoSlot,
                      \A t \in Thread : Pid(t) = p => pc[t] \in {"idle", "dead"}
               PROVE  profile[memory_profiles[p]].active >= Cardinality(held[p])
    BY DEF ActiveCoversHeld
  <2>1. pc[Only(p)] = "idle"
    BY OnlyThread DEF Covered
  <2>2. Coming(Only(p)) = 0 /\ Leaving(Only(p)) = 0
    BY <2>1 DEF Coming, Leaving
  <2>3. Cardinality(held[p]) + Coming(Only(p)) + Leaving(Only(p)) <= Active(p)
    BY <2>1 DEF Covered
  <2>4. Active(p) = profile[memory_profiles[p]].active
    BY DEF Active
  <2>5. Cardinality(held[p]) \in Nat /\ Active(p) \in Nat
    BY CoveredTypes DEF Covered
  <2> QED BY <2>2, <2>3, <2>4, <2>5
<1> HIDE DEF Inv
<1> QED BY <1>1, <1>2, <1>3, AlwaysTyped, AlwaysOwn, PTL DEF Spec

-----------------------------------------------------------------------------
(* Any number of processes and threads: the regions, until an address is   *)
(* in use in two processes at once.                                        *)

\* The map has room for every address.
Roomy == IsFiniteSet(Addr) /\ Cardinality(Addr) <= MaxRegions

\* An address alone, the key of the map, tells whose block it is.
OneOwner == \A p, q \in Process : p # q => InUse(p) \cap InUse(q) \subseteq {NULL}

\* What a probe runs for at each place.
Role(t) ==
  /\ pc[t] \in {"find", "forget", "free"} => call[t].op = "free"
  /\ pc[t] \in {"malloc", "ret"} => call[t].op = "malloc"
  /\ pc[t] \in {"create", "tally"} => call[t].op # "free"
  /\ pc[t] \in {"load", "store"} => call[t].op # "exit"
  /\ pc[t] \in {"judge", "cleanup", "dead"} => call[t].op = "exit"
  /\ pc[t] # "idle" /\ call[t].op = "free" => call[t].addr \in Addr

\* No address is held twice, nor held and on its way, nor on its way twice.
Apart ==
  /\ \A p \in Process : \A b, c \in held[p] : b.addr = c.addr => b = c
  /\ \A p \in Process, t \in Thread : \A b \in held[p] :
       pc[t] # "idle" => call[t].addr # b.addr
  /\ \A t, u \in Thread :
       t # u /\ pc[t] # "idle" /\ pc[u] # "idle" /\ call[t].addr = call[u].addr
         => call[t].addr = NULL

\* An address that is held or about to be freed has a region; the regions of
\* a program that has ended stay behind.
Wanted(a) == \/ \E p \in Process : \E b \in held[p] : b.addr = a
             \/ \E t \in Freeing : call[t].addr = a
Tracks == \A a \in Addr : Wanted(a) => memory_regions[a] # None

Good == Apart /\ Tracks /\ \A t \in Thread : Role(t)

\* Every thread but t stays where it is.
Rest(t) == \A u \in Thread \ {t} : pc'[u] = pc[u] /\ call'[u] = call[u]

\* A probe that goes on, or ends with its block forgotten.
LEMMA GoodGoesOn ==
  ASSUME Typed, Good, NEW t \in Thread, Rest(t), UNCHANGED <<memory_regions, held>>,
         pc[t] # "idle", call'[t] = call[t], Role(t)',
         t \in Freeing <=> (t \in Freeing)'
  PROVE  Good'
  <1>1. \A u \in Thread : call'[u] = call[u] /\ (pc'[u] # "idle" => pc[u] # "idle")
    BY DEF Rest
  <1>2. Apart'
    BY <1>1 DEF Good, Apart
  <1>3. \A u \in Thread : u \in Freeing <=> (u \in Freeing)'
    BY DEF Rest, Freeing
  <1>4. Tracks'
    <2>1. Freeing' = Freeing
      BY <1>3 DEF Freeing
    <2>2. \A a \in Addr : Wanted(a)' <=> Wanted(a)
      <3>1. Freeing \subseteq Thread
        BY DEF Freeing
      <3> QED BY <1>1, <2>1, <3>1 DEF Wanted
    <2> QED BY <2>2 DEF Good, Tracks
  <1>5. \A u \in Thread : Role(u)'
    BY DEF Rest, Good, Role
  <1> QED BY <1>2, <1>4, <1>5 DEF Good

LEMMA RestKept ==
  ASSUME Typed, NEW t \in Thread, Step(t)
  PROVE  Rest(t)
  BY ThreadsKept DEF Rest

\* A call that starts.
LEMMA GoodStarts ==
  ASSUME Typed, OneOwner, Good, NEW t \in Thread,
         CallMalloc(t) \/ CallMmap(t) \/ CallFree(t) \/ CallExit(t)
  PROVE  Good'
  <1>0. /\ pc \in [Thread -> Place] /\ call \in [Thread -> Call] /\ Pid(t) \in Process
        /\ held \in [Process -> SUBSET Block] /\ Rest(t)
    BY PidTyped, RestKept DEF Typed, Step
  <1>1. ASSUME NEW op \in {"malloc", "mmap", "exit"}, NEW size,
               Start(t, op, size, NULL, "lookup"), UNCHANGED held
        PROVE  Good'
    <2>1. /\ pc[t] = "idle" /\ pc'[t] = "lookup" /\ call'[t].op = op
          /\ call'[t].addr = NULL /\ UNCHANGED <<memory_regions, held>>
      BY <1>0, <1>1 DEF Start, Goto, maps
    <2>2. \A p \in Process : \A b \in held[p] : b.addr # NULL
      BY <1>0, NamesAssumption DEF Block, NULL
    <2>3. Apart'
      BY <1>0, <2>1, <2>2 DEF Good, Apart, Rest
    <2>4. Freeing' = Freeing
      BY <1>0, <1>1, <2>1 DEF Freeing, Rest
    <2>5. t \notin Freeing /\ Freeing \subseteq Thread
      BY <2>1 DEF Freeing
    <2>6. Tracks'
      BY <1>0, <2>1, <2>4, <2>5 DEF Good, Tracks, Wanted, Rest
    <2>7. \A u \in Thread : Role(u)'
      <3>1. Role(t)'
        BY <1>1, <2>1 DEF Role
      <3> QED BY <1>0, <3>1 DEF Good, Role, Rest
    <2> QED BY <2>3, <2>6, <2>7 DEF Good
  <1>2. CASE CallMalloc(t) \/ CallMmap(t) \/ CallExit(t)
    BY <1>1, <1>2 DEF CallMalloc, CallMmap, CallExit
  <1>3. CASE CallFree(t)
    <2>1. PICK b \in held[Pid(t)] :
            /\ Start(t, "free", b.size, b.addr, "find")
            /\ held' = [held EXCEPT ![Pid(t)] = @ \ {b}]
      BY <1>3 DEF CallFree
    <2>2. /\ pc[t] = "idle" /\ pc'[t] = "find" /\ call'[t].op = "free"
          /\ call'[t].addr = b.addr /\ UNCHANGED memory_regions /\ b.addr \in Addr
      BY <1>0, <2>1 DEF Start, Goto, maps, Block
    <2>3. \A p \in Process : /\ held'[p] = held[p] \ {b}
                              /\ \A c \in held'[p] : c.addr # b.addr
      <3> SUFFICES ASSUME NEW p \in Process
                   PROVE  /\ held'[p] = held[p] \ {b}
                          /\ \A c \in held'[p] : c.addr # b.addr
        OBVIOUS
      <3>1. CASE p = Pid(t)
        BY <1>0, <2>1, <3>1 DEF Good, Apart
      <3>2. CASE p # Pid(t)
        <4>1. \A c \in held[p] : c.addr # b.addr
          <5> SUFFICES ASSUME NEW c \in held[p], c.addr = b.addr PROVE FALSE
            OBVIOUS
          <5>1. c.addr \in InUse(p) /\ b.addr \in InUse(Pid(t))
            BY <2>1 DEF InUse
          <5>2. b.addr # NULL
            BY <2>2, NamesAssumption DEF NULL
          <5> QED BY <1>0, <3>2, <5>1, <5>2 DEF OneOwner
        <4> QED BY <1>0, <2>1, <3>2, <4>1
      <3> QED BY <3>1, <3>2
    <2>4. Apart'
      <3>1. \A p \in Process : \A c, d \in held'[p] : c.addr = d.addr => c = d
        BY <2>3 DEF Good, Apart
      <3>2. \A p \in Process, u \in Thread : \A c \in held'[p] :
              pc'[u] # "idle" => call'[u].addr # c.addr
        BY <1>0, <2>1, <2>2, <2>3 DEF Good, Apart, Rest
      <3>3. \A u \in Thread \ {t} : pc'[u] # "idle" => call'[u].addr # b.addr
        BY <1>0, <2>1, <2>3 DEF Good, Apart, Rest
      <3>4. \A u, w \in Thread :
              u # w /\ pc'[u] # "idle" /\ pc'[w] # "idle" /\ call'[u].addr = call'[w].addr
                => call'[u].addr = NULL
        BY <1>0, <2>2, <3>3 DEF Good, Apart, Rest
      <3> QED BY <3>1, <3>2, <3>4 DEF Apart
    <2>5. t \notin Freeing /\ Freeing' = Freeing \cup {t}
      BY <1>0, <2>2 DEF Freeing, Rest
    <2>6. \A a \in Addr : Wanted(a)' <=> Wanted(a)
      <3> SUFFICES ASSUME NEW a \in Addr PROVE Wanted(a)' <=> Wanted(a)
        OBVIOUS
      <3>1. CASE a = b.addr
        BY <1>0, <2>1, <2>2, <2>5, <3>1 DEF Wanted
      <3>2. CASE a # b.addr
        <4>1. (\E p \in Process : \E c \in held'[p] : c.addr = a) <=>
              (\E p \in Process : \E c \in held[p] : c.addr = a)
          BY <2>3, <3>2
        <4>2. Freeing \subseteq Thread
          BY DEF Freeing
        <4>3. (\E u \in Freeing' : call'[u].addr = a) <=>
              (\E u \in Freeing : call[u].addr = a)
          BY <1>0, <2>2, <2>5, <3>2, <4>2 DEF Rest
        <4> QED BY <4>1, <4>3 DEF Wanted
      <3> QED BY <3>1, <3>2
    <2>7. Tracks'
      BY <2>2, <2>6 DEF Good, Tracks
    <2>8. \A u \in Thread : Role(u)'
      <3>1. Role(t)'
        BY <2>2 DEF Role
      <3> QED BY <1>0, <3>1 DEF Good, Role, Rest
    <2> QED BY <2>4, <2>7, <2>8 DEF Good
  <1> QED BY <1>2, <1>3

\* A correct free always finds its region.
LEMMA FreesFind ==
  ASSUME Typed, Good, NEW t \in Thread, pc[t] = "find"
  PROVE  memory_regions[call[t].addr] # None
  <1>1. t \in Freeing /\ call[t].addr \in Addr
    BY DEF Freeing, Good, Role
  <1> QED BY <1>1 DEF Good, Tracks, Wanted

LEMMA GoodOn ==
  ASSUME Typed, Good, NEW t \in Thread,
         \/ Lookup(t) \/ Create(t) \/ Load(t) \/ Store(t)
         \/ TallyMalloc(t) \/ TallyMmap(t) \/ MallocFailed(t)
         \/ FindRegion(t) \/ DoubleFree(t) \/ Free(t)
         \/ ReportLeak(t) \/ NoLeak(t) \/ Cleanup(t)
  PROVE  Good'
  <1>0. /\ pc \in [Thread -> Place] /\ call \in [Thread -> Call] /\ Role(t) /\ Ready
        /\ Rest(t)
    BY RestKept DEF Typed, Good, Step
  <1>1. ASSUME NEW to, UNCHANGED <<memory_regions, held, call>>, pc[t] # "idle",
               pc'[t] = to,
               \/ /\ pc[t] \in {"find", "lookup", "load", "store"} /\ call[t].op = "free"
                  /\ to \in {"lookup", "load", "store", "forget"}
               \/ call[t].op = "malloc" /\ to \in {"create", "load", "store", "tally", "malloc", "idle"}
               \/ call[t].op = "mmap" /\ to \in {"create", "load", "store", "tally", "idle"}
               \/ pc[t] = "free" /\ to = "idle"
               \/ call[t].op = "exit" /\ to \in {"judge", "cleanup", "dead"}
        PROVE  Good'
    <2>1. Role(t)'
      BY <1>0, <1>1 DEF Role
    <2>2. t \in Freeing <=> (t \in Freeing)'
      BY <1>0, <1>1 DEF Freeing
    <2> QED BY <1>0, <1>1, <2>1, <2>2, GoodGoesOn
  <1>2. call[t].op \in {"malloc", "mmap", "free", "exit"} \/ pc[t] = "idle"
    BY <1>0 DEF Ready, Call, Op
  <1> USE DEF Goto
  <1>3. CASE Lookup(t)
    <2> DEFINE slot == memory_profiles[Pid(t)]
    <2>1. /\ pc[t] = "lookup" /\ pc'[t] = AfterLookup(call[t].op, slot)
          /\ UNCHANGED <<memory_regions, held, call>>
      BY <1>0, <1>3 DEF Lookup, Key, maps
    <2>2. call[t].op \in {"malloc", "mmap", "free", "exit"}
      BY <1>2, <2>1
    <2>3. /\ call[t].op = "free" => pc'[t] \in {"load", "forget"}
          /\ call[t].op = "exit" => pc'[t] \in {"judge", "dead"}
          /\ call[t].op \in {"malloc", "mmap"} => pc'[t] \in {"load", "create"}
      <3> HIDE DEF slot
      <3> QED BY <2>1, <2>2, AfterLookupCases
    <2> QED BY <1>1, <2>1, <2>2, <2>3
  <1>4. CASE Create(t)
    <2>1. /\ pc[t] = "create" /\ pc'[t] = "tally"
          /\ UNCHANGED <<memory_regions, held, call>>
      BY <1>0, <1>4 DEF Create, locals
    <2> QED BY <1>0, <2>1, GoodGoesOn DEF Role, Freeing
  <1>5. CASE Load(t)
    BY <1>0, <1>1, <1>2, <1>5 DEF Load, maps, Role
  <1>6. CASE Store(t)
    <2>1. /\ pc[t] = "store" /\ UNCHANGED <<memory_regions, held, call>>
          /\ pc'[t] = IF call[t].op = "free" THEN "forget" ELSE "tally"
      BY <1>0, <1>6 DEF Store
    <2> QED BY <1>0, <1>1, <1>2, <2>1 DEF Role
  <1>7. CASE TallyMalloc(t)
    BY <1>0, <1>1, <1>7 DEF TallyMalloc, maps, locals
  <1>8. CASE TallyMmap(t)
    BY <1>0, <1>1, <1>8 DEF TallyMmap, maps, locals
  <1>9. CASE MallocFailed(t)
    BY <1>0, <1>1, <1>9 DEF MallocFailed, maps, locals, Role
  <1>10. CASE FindRegion(t)
    BY <1>0, <1>1, <1>10 DEF FindRegion, maps, locals, Role
  <1>11. ~DoubleFree(t)
    BY FreesFind DEF DoubleFree
  <1>12. CASE Free(t)
    BY <1>0, <1>1, <1>12 DEF Free, maps, locals
  <1>13. CASE ReportLeak(t) \/ NoLeak(t) \/ Cleanup(t)
    BY <1>0, <1>1, <1>13 DEF ReportLeak, NoLeak, Cleanup, Role, maps, locals
  <1> QED BY <1>3, <1>4, <1>5, <1>6, <1>7, <1>8, <1>9, <1>10, <1>11, <1>12, <1>13

LEMMA GoodMalloc ==
  ASSUME Typed, OneOwner', Good, NEW t \in Thread, Malloc(t)
  PROVE  Good'
  <1>0. /\ pc \in [Thread -> Place] /\ call \in [Thread -> Call] /\ Role(t)
        /\ Rest(t) /\ Pid(t) \in Process
    BY PidTyped, RestKept DEF Typed, Good, Step
  <1>1. PICK a \in (Addr \ InUse(Pid(t))) \cup {NULL} :
          call' = [call EXCEPT ![t].addr = a]
    BY DEF Malloc
  <1>2. /\ pc[t] = "malloc" /\ pc'[t] = "ret" /\ UNCHANGED <<memory_regions, held>>
        /\ call'[t].addr = a /\ call'[t].op = call[t].op
    BY <1>0, <1>1 DEF Malloc, Goto, maps, Call
  <1>3. /\ \A p \in Process : \A b \in held[p] : b.addr # a
        /\ \A u \in Thread \ {t} : pc[u] # "idle" /\ call[u].addr = a => a = NULL
    <2>1. CASE a = NULL
      <3>1. held \in [Process -> SUBSET Block]
        BY DEF Typed
      <3>2. \A p \in Process : \A b \in held[p] : b.addr \in Addr
        BY <3>1 DEF Block
      <3> QED BY <2>1, <3>2, NamesAssumption DEF NULL
    <2>2. CASE a # NULL
      <3>1. a \notin InUse(Pid(t))
        BY <1>1, <2>2
      <3>2. ASSUME NEW p \in Process \ {Pid(t)} PROVE a \notin InUse(p)
        <4>1. a \in InUse(Pid(t))'
          BY <1>2 DEF InUse
        <4>2. a \notin InUse(p)'
          BY <1>0, <2>2, <3>2, <4>1 DEF OneOwner
        <4>3. InUse(p)' = InUse(p)
          BY <1>0, <1>2, <3>2 DEF InUse, Rest
        <4> QED BY <4>2, <4>3
      <3> QED BY <3>1, <3>2, PidTyped DEF InUse
    <2> QED BY <2>1, <2>2
  <1>4. Apart'
    <2>1. \A p \in Process, u \in Thread : \A b \in held'[p] :
            pc'[u] # "idle" => call'[u].addr # b.addr
      BY <1>0, <1>2, <1>3 DEF Good, Apart, Rest
    <2>2. \A u, w \in Thread :
            u # w /\ pc'[u] # "idle" /\ pc'[w] # "idle" /\ call'[u].addr = call'[w].addr
              => call'[u].addr = NULL
      BY <1>0, <1>2, <1>3 DEF Good, Apart, Rest
    <2>3. \A p \in Process : \A b, c \in held'[p] : b.addr = c.addr => b = c
      BY <1>2 DEF Good, Apart
    <2> QED BY <2>1, <2>2, <2>3 DEF Apart
  <1>5. Freeing' = Freeing /\ t \notin Freeing
    BY <1>0, <1>2 DEF Freeing, Rest
  <1>6. Tracks'
    <2>1. Freeing \subseteq Thread \ {t}
      BY <1>5 DEF Freeing
    <2> QED BY <1>0, <1>2, <1>5, <2>1 DEF Good, Tracks, Wanted, Rest
  <1>7. \A u \in Thread : Role(u)'
    <2>1. Role(t)'
      BY <1>0, <1>2 DEF Role
    <2> QED BY <1>0, <2>1 DEF Good, Role, Rest
  <1> QED BY <1>4, <1>6, <1>7 DEF Good

\* There is room for what trace_malloc_ret tracks, and nobody wants it yet.
LEMMA RegionAdded ==
  ASSUME Typed, Roomy, Good, NEW t \in Thread, trace_malloc_ret(t)
  PROVE  /\ call[t].addr \in Addr /\ ~Wanted(call[t].addr)
         /\ memory_regions' = [memory_regions EXCEPT ![call[t].addr] = Pid(t)]
         /\ pc[t] = "ret" /\ Pid(t) \in Process /\ Pid(t) # None
         /\ Tracked' = Tracked \cup {call[t].addr}
  <1> DEFINE a == call[t].addr
  <1>0. /\ call[t] \in Call /\ memory_regions \in [Addr -> Process \cup {None}]
        /\ Pid(t) \in Process /\ pc[t] = "ret"
    BY PidTyped DEF Typed, trace_malloc_ret, Goto
  <1>1. a \in Addr /\ a # NULL
    BY <1>0 DEF trace_malloc_ret, Call
  <1>2. ~Wanted(a)
    <2>1. \A p \in Process : \A b \in held[p] : b.addr # a
      BY <1>0 DEF Good, Apart
    <2>2. \A u \in Freeing : u \in Thread /\ u # t /\ pc[u] # "idle"
      BY <1>0 DEF Freeing
    <2>3. \A u \in Freeing : call[u].addr # a
      BY <1>0, <1>1, <2>2 DEF Good, Apart
    <2> QED BY <2>1, <2>3 DEF Wanted
  <1>3. memory_regions[a] = None => Cardinality(Tracked) # MaxRegions
    <2> SUFFICES ASSUME memory_regions[a] = None PROVE Cardinality(Tracked) # MaxRegions
      OBVIOUS
    <2>1. Tracked \subseteq Addr \ {a}
      BY DEF Tracked
    <2>2. /\ IsFiniteSet(Addr \ {a})
          /\ Cardinality(Addr \ {a}) = Cardinality(Addr) - 1
      BY <1>1, FS_RemoveElement DEF Roomy
    <2>3. IsFiniteSet(Tracked) /\ Cardinality(Tracked) <= Cardinality(Addr) - 1
      BY <2>1, <2>2, FS_Subset
    <2>4. Cardinality(Tracked) \in Nat /\ Cardinality(Addr) \in Nat
      BY <2>3, FS_CardinalityType DEF Roomy
    <2> QED BY <2>3, <2>4, MapsAssumption DEF Roomy
  <1>4. memory_regions' = [memory_regions EXCEPT ![a] = Pid(t)]
    BY <1>3 DEF trace_malloc_ret, WithRegion
  <1>5. Pid(t) # None
    BY <1>0, NamesAssumption DEF None
  <1>6. Tracked' = Tracked \cup {a}
    BY <1>0, <1>1, <1>4, <1>5 DEF Tracked
  <1> QED BY <1>0, <1>1, <1>2, <1>4, <1>5, <1>6

LEMMA GoodRet ==
  ASSUME Typed, Roomy, Good, NEW t \in Thread, trace_malloc_ret(t)
  PROVE  Good'
  <1> DEFINE b == [addr |-> call[t].addr, size |-> call[t].size]
  <1>0. /\ pc \in [Thread -> Place] /\ held \in [Process -> SUBSET Block]
        /\ Rest(t) /\ Pid(t) \in Process
        /\ memory_regions \in [Addr -> Process \cup {None}]
    BY PidTyped, RestKept DEF Typed, Step
  <1>1. /\ pc[t] = "ret" /\ pc'[t] = "idle" /\ UNCHANGED call
        /\ held' = [held EXCEPT ![Pid(t)] = @ \cup {b}]
    BY <1>0 DEF trace_malloc_ret, Goto, locals
  <1>2. b.addr = call[t].addr /\ b.addr \in Addr /\ b.addr # NULL
    BY RegionAdded DEF trace_malloc_ret
  <1>3. /\ memory_regions' = [memory_regions EXCEPT ![b.addr] = Pid(t)]
        /\ Pid(t) # None
    BY <1>2, RegionAdded
  <1> HIDE DEF b
  <1>4. \A p \in Process : held'[p] = IF p = Pid(t) THEN held[p] \cup {b} ELSE held[p]
    BY <1>0, <1>1
  <1>5. /\ \A p \in Process : \A c \in held[p] : c.addr # b.addr
        /\ \A u \in Thread \ {t} : pc[u] # "idle" => call[u].addr # b.addr
    BY <1>1, <1>2 DEF Good, Apart
  <1>6. Apart'
    <2>1. \A p \in Process : \A c, d \in held'[p] : c.addr = d.addr => c = d
      <3> SUFFICES ASSUME NEW p \in Process, NEW c \in held'[p], NEW d \in held'[p],
                          c.addr = d.addr
                   PROVE  c = d
        OBVIOUS
      <3>1. CASE c \in held[p] /\ d \in held[p]
        BY <3>1 DEF Good, Apart
      <3>2. CASE ~(c \in held[p] /\ d \in held[p])
        <4>1. (c = b \/ c \in held[p]) /\ (d = b \/ d \in held[p])
          BY <1>4
        <4> QED BY <1>5, <3>2, <4>1
      <3> QED BY <3>1, <3>2
    <2>2. \A p \in Process, u \in Thread : \A c \in held'[p] :
            pc'[u] # "idle" => call'[u].addr # c.addr
      BY <1>0, <1>1, <1>4, <1>5 DEF Good, Apart, Rest
    <2>3. \A u, w \in Thread :
            u # w /\ pc'[u] # "idle" /\ pc'[w] # "idle" /\ call'[u].addr = call'[w].addr
              => call'[u].addr = NULL
      BY <1>0, <1>1 DEF Good, Apart, Rest
    <2> QED BY <2>1, <2>2, <2>3 DEF Apart
  <1>7. Freeing' = Freeing
    BY <1>0, <1>1 DEF Freeing, Rest
  <1>8. Tracks'
    <2> SUFFICES ASSUME NEW a \in Addr, Wanted(a)' PROVE memory_regions'[a] # None
      BY DEF Tracks
    <2>1. CASE a = b.addr
      BY <1>0, <1>3, <2>1
    <2>2. CASE a # b.addr
      <3>1. Wanted(a)
        BY <1>1, <1>4, <1>7, <2>2 DEF Wanted
      <3> QED BY <1>0, <1>3, <2>2, <3>1 DEF Good, Tracks
    <2> QED BY <2>1, <2>2
  <1>9. \A u \in Thread : Role(u)'
    BY <1>0, <1>1 DEF Good, Role, Rest
  <1> QED BY <1>6, <1>8, <1>9 DEF Good

\* What trace_free forgets was tracked.
LEMMA RegionRemoved ==
  ASSUME Typed, Good, NEW t \in Thread, Forget(t)
  PROVE  /\ call[t].addr \in Addr /\ call[t].addr \in Tracked
         /\ memory_regions' = [memory_regions EXCEPT ![call[t].addr] = None]
         /\ Tracked' = Tracked \ {call[t].addr}
         /\ pc[t] = "forget" /\ t \in Freeing
  <1>0. memory_regions \in [Addr -> Process \cup {None}]
    BY DEF Typed
  <1>1. pc[t] = "forget" /\ call[t].op = "free" /\ call[t].addr \in Addr /\ t \in Freeing
    BY DEF Forget, Goto, Good, Role, Freeing
  <1>2. memory_regions[call[t].addr] # None
    BY <1>1 DEF Good, Tracks, Wanted
  <1>3. memory_regions' = [memory_regions EXCEPT ![call[t].addr] = None]
    BY DEF Forget, WithoutRegion
  <1>4. Tracked' = Tracked \ {call[t].addr}
    BY <1>0, <1>1, <1>3 DEF Tracked
  <1> QED BY <1>1, <1>2, <1>3, <1>4 DEF Tracked

LEMMA GoodForget ==
  ASSUME Typed, Good, NEW t \in Thread, Forget(t)
  PROVE  Good'
  <1>0. /\ pc \in [Thread -> Place] /\ Rest(t) /\ Role(t)
        /\ memory_regions \in [Addr -> Process \cup {None}]
    BY RestKept DEF Typed, Step, Good
  <1>1. /\ pc[t] = "forget" /\ pc'[t] = "free" /\ UNCHANGED <<call, held>>
    BY <1>0 DEF Forget, Goto, locals
  <1>2. /\ call[t].addr \in Addr /\ t \in Freeing
        /\ memory_regions' = [memory_regions EXCEPT ![call[t].addr] = None]
    BY RegionRemoved
  <1>3. Apart'
    BY <1>0, <1>1 DEF Good, Apart, Rest
  <1>4. Freeing' = Freeing \ {t}
    BY <1>0, <1>1 DEF Freeing, Rest
  <1>5. Tracks'
    <2> SUFFICES ASSUME NEW a \in Addr, Wanted(a)' PROVE memory_regions'[a] # None
      BY DEF Tracks
    <2>1. CASE a = call[t].addr
      <3>1. \A p \in Process : \A b \in held[p] : b.addr # a
        BY <1>1, <2>1 DEF Good, Apart
      <3>2. \A u \in Freeing \ {t} : call[u].addr # a
        BY <1>1, <2>1, NamesAssumption DEF Good, Apart, Freeing, NULL
      <3> QED BY <1>1, <1>4, <3>1, <3>2 DEF Wanted
    <2>2. CASE a # call[t].addr
      <3>1. Wanted(a)
        BY <1>1, <1>4, <2>2 DEF Wanted
      <3> QED BY <1>0, <1>2, <2>2, <3>1 DEF Good, Tracks
    <2> QED BY <2>1, <2>2
  <1>6. \A u \in Thread : Role(u)'
    BY <1>0, <1>1 DEF Good, Role, Rest
  <1> QED BY <1>3, <1>5, <1>6 DEF Good

\* What moves no probe, and the memory of a program that has ended.
LEMMA GoodAside ==
  ASSUME Typed, Good,
         \/ \E t \in Thread : trace_page_fault(t) \/ trace_stack_overflow(t)
         \/ (\E p \in Process : Restart(p)) \/ Read \/ UNCHANGED vars
  PROVE  Good'
  <1>1. ASSUME NEW p \in Process, Restart(p) PROVE Good'
    <2>0. held \in [Process -> SUBSET Block] /\ pc \in [Thread -> Place]
      BY DEF Typed
    <2>1. /\ UNCHANGED <<memory_regions, call>>
          /\ \A q \in Process : held'[q] \subseteq held[q]
          /\ \A t \in Thread : pc'[t] = IF Pid(t) = p THEN "idle" ELSE pc[t]
          /\ \A t \in Thread : Pid(t) = p => pc[t] = "dead"
      BY <1>1, <2>0 DEF Restart, Dead, maps, locals
    <2>2. Freeing' = Freeing
      BY <2>1 DEF Freeing
    <2>3. Apart'
      BY <2>1 DEF Good, Apart
    <2>4. \A a \in Addr : Wanted(a)' => Wanted(a)
      BY <2>1, <2>2 DEF Wanted
    <2>5. Tracks'
      BY <2>1, <2>4 DEF Good, Tracks
    <2>6. \A t \in Thread : Role(t)'
      BY <2>1 DEF Good, Role
    <2> QED BY <2>3, <2>5, <2>6 DEF Good
  <1>2. CASE UNCHANGED <<memory_regions, held, pc, call>>
    BY <1>2 DEF Good, Apart, Tracks, Wanted, Freeing, Role
  <1> QED BY <1>1, <1>2 DEF trace_page_fault, trace_stack_overflow, Read, vars, maps, locals

LEMMA GoodNext ==
  Typed /\ Roomy /\ OneOwner /\ OneOwner' /\ Good /\ [Next]_vars => Good'
  <1> SUFFICES ASSUME Typed, Roomy, OneOwner, OneOwner', Good, [Next]_vars PROVE Good'
    OBVIOUS
  <1>1. ASSUME NEW t \in Thread, Step(t) PROVE Good'
    BY <1>1, GoodStarts, GoodOn, GoodMalloc, GoodRet, GoodForget, GoodAside DEF Step
  <1> QED BY <1>1, GoodAside DEF Next, Move

LEMMA InitGood == Init => Good
  <1> SUFFICES ASSUME Init PROVE Good
    OBVIOUS
  <1>1. /\ \A p \in Process : held[p] = {}
        /\ \A t \in Thread : pc[t] = "idle"
        /\ \A a \in Addr : memory_regions[a] = None
    BY DEF Init
  <1>2. Freeing = {}
    BY <1>1 DEF Freeing
  <1>3. Apart
    BY <1>1 DEF Apart
  <1>4. Tracks
    BY <1>1, <1>2 DEF Tracks, Wanted
  <1>5. \A t \in Thread : Role(t)
    BY <1>1 DEF Role
  <1> QED BY <1>3, <1>4, <1>5 DEF Good

\* While every correct free finds its region, none is counted as a double free.
LEMMA NoReport ==
  ASSUME Typed, Good, NoFalseDoubleFree, [Next]_vars
  PROVE  NoFalseDoubleFree'
  <1>0. stats \in [2 .. 10 -> Nat] /\ stats[5] = 0
    BY DEF Typed, NoFalseDoubleFree
  <1>1. ASSUME NEW t \in Thread, Step(t) PROVE stats'[5] = 0
    <2>1. CASE UNCHANGED stats
      BY <1>0, <2>1
    <2>2. ASSUME NEW S \in SUBSET (2 .. 10), 5 \notin S, stats' = Counted(S)
          PROVE  stats'[5] = 0
      BY <1>0, <2>2 DEF Counted
    <2>3. CASE TallyMalloc(t) \/ TallyMmap(t) \/ MallocFailed(t) \/ Forget(t)
               \/ ReportLeak(t) \/ trace_stack_overflow(t)
      <3>1. \E S \in {{2, 3}, {2}, {7, 8}, {8}, {4}, {6}, {9}, {10}} : stats' = Counted(S)
        BY <2>3 DEF TallyMalloc, TallyMmap, MallocFailed, FailureStat, Forget,
           ReportLeak, trace_stack_overflow
      <3> QED BY <2>2, <3>1
    <2>4. ~DoubleFree(t)
      BY FreesFind DEF DoubleFree, Goto
    <2>5. CASE CallMalloc(t) \/ CallMmap(t) \/ CallFree(t) \/ CallExit(t)
      BY <2>1, <2>5 DEF CallMalloc, CallMmap, CallFree, CallExit, Start, outs
    <2>6. CASE \/ Lookup(t) \/ Create(t) \/ Load(t) \/ Store(t) \/ Malloc(t)
               \/ trace_malloc_ret(t) \/ FindRegion(t) \/ Free(t) \/ NoLeak(t)
               \/ Cleanup(t) \/ trace_page_fault(t)
      BY <2>1, <2>6 DEF Lookup, Create, Load, Store, Malloc, trace_malloc_ret,
         FindRegion, Free, NoLeak, Cleanup, trace_page_fault, outs
    <2> QED BY <1>1, <2>3, <2>4, <2>5, <2>6 DEF Step
  <1>2. ASSUME Read \/ (\E p \in Process : Restart(p)) \/ UNCHANGED vars
        PROVE  UNCHANGED stats
    BY <1>2 DEF Read, Restart, vars, outs
  <1> QED BY <1>0, <1>1, <1>2 DEF Next, Move, NoFalseDoubleFree

\* Only malloc brings an address into use.
LEMMA InUseStep ==
  ASSUME Typed, Good, NEW t \in Thread, Step(t)
  PROVE  /\ \A q \in Process \ {Pid(t)} : InUse(q)' = InUse(q)
         /\ InUse(Pid(t))' \subseteq InUse(Pid(t)) \cup {NULL} \cup
              (IF pc'[t] = "ret" THEN {call'[t].addr} ELSE {})
  <1>0. /\ pc \in [Thread -> Place] /\ call \in [Thread -> Call] /\ Rest(t)
        /\ held \in [Process -> SUBSET Block] /\ Pid(t) \in Process /\ Role(t)
        /\ \A q \in Process \ {Pid(t)} : held'[q] = held[q]
    <2>1. \A q \in Process \ {Pid(t)} : held'[q] = held[q]
      BY DEF Step, CallMalloc, CallMmap, CallFree, CallExit, Start, Lookup, Create, Load,
         Store, TallyMalloc, TallyMmap, Malloc, MallocFailed, trace_malloc_ret,
         FindRegion, DoubleFree, Forget, Free, ReportLeak, NoLeak, Cleanup,
         trace_page_fault, trace_stack_overflow, Typed
    <2> QED BY <2>1, PidTyped, RestKept DEF Typed, Good
  <1>1. \A q \in Process \ {Pid(t)} : InUse(q)' = InUse(q)
    BY <1>0 DEF InUse, Rest
  <1>2. /\ \A b \in held'[Pid(t)] : b.addr \in InUse(Pid(t))
        /\ pc'[t] # "idle" =>
             call'[t].addr \in InUse(Pid(t)) \cup {NULL} \cup
               (IF pc'[t] = "ret" THEN {call'[t].addr} ELSE {})
    <2>1. CASE trace_malloc_ret(t)
      <3>1. pc[t] = "ret" /\ pc'[t] = "idle"
        BY <1>0, <2>1 DEF trace_malloc_ret, Goto
      <3>2. \A b \in held'[Pid(t)] : b \in held[Pid(t)] \/ b.addr = call[t].addr
        BY <1>0, <2>1 DEF trace_malloc_ret
      <3>3. call[t].addr \in InUse(Pid(t))
        BY <3>1 DEF InUse
      <3> QED BY <3>1, <3>2, <3>3 DEF InUse
    <2>2. CASE CallFree(t)
      <3>1. PICK b \in held[Pid(t)] :
              /\ Start(t, "free", b.size, b.addr, "find")
              /\ held' = [held EXCEPT ![Pid(t)] = @ \ {b}]
        BY <2>2 DEF CallFree
      <3>2. call'[t].addr = b.addr /\ held'[Pid(t)] \subseteq held[Pid(t)]
        BY <1>0, <3>1 DEF Start
      <3> QED BY <3>1, <3>2 DEF InUse
    <2>3. CASE CallMalloc(t) \/ CallMmap(t) \/ CallExit(t)
      <3>1. call'[t].addr = NULL /\ held' = held
        BY <1>0, <2>3 DEF CallMalloc, CallMmap, CallExit, Start
      <3> QED BY <3>1 DEF InUse
    <2>4. CASE Malloc(t)
      <3>1. pc'[t] = "ret" /\ held' = held
        BY <1>0, <2>4 DEF Malloc, Goto
      <3> QED BY <3>1 DEF InUse
    <2>5. CASE ~(\/ trace_malloc_ret(t) \/ CallFree(t) \/ CallMalloc(t) \/ CallMmap(t)
                 \/ CallExit(t) \/ Malloc(t))
      <3>1. UNCHANGED <<call, held>> /\ (pc'[t] # "idle" => pc[t] # "idle")
        BY <2>5 DEF Step, Lookup, Create, Load, Store, TallyMalloc, TallyMmap, MallocFailed,
           FindRegion, DoubleFree, Forget, Free, ReportLeak, NoLeak, Cleanup,
           trace_page_fault, trace_stack_overflow, Goto, locals
      <3> QED BY <3>1 DEF InUse
    <2> QED BY <2>1, <2>2, <2>3, <2>4, <2>5
  <1>3. ASSUME NEW a \in InUse(Pid(t))'
        PROVE  a \in InUse(Pid(t)) \cup {NULL} \cup
                 (IF pc'[t] = "ret" THEN {call'[t].addr} ELSE {})
    <2>1. CASE \E b \in held'[Pid(t)] : b.addr = a
      BY <1>2, <2>1
    <2>2. CASE \E u \in Thread : Pid(u) = Pid(t) /\ pc'[u] # "idle" /\ call'[u].addr = a
      <3>1. PICK u \in Thread : Pid(u) = Pid(t) /\ pc'[u] # "idle" /\ call'[u].addr = a
        BY <2>2
      <3>2. CASE u = t
        BY <1>2, <3>1, <3>2
      <3>3. CASE u # t
        BY <1>0, <3>1, <3>3 DEF Rest, InUse
      <3> QED BY <3>2, <3>3
    <2> QED BY <1>3, <2>1, <2>2 DEF InUse
  <1> QED BY <1>1, <1>3

LEMMA OneOwnerNext ==
  ASSUME Typed, Good, OneOwner, [Next]_vars, ~Shared'
  PROVE  OneOwner'
  <1>1. ASSUME NEW t \in Thread, Step(t) PROVE OneOwner'
    <2> SUFFICES ASSUME NEW q \in Process \ {Pid(t)},
                        NEW a \in InUse(Pid(t))', a \in InUse(q)', a # NULL
                 PROVE  FALSE
      <3>1. \A p, q \in Process \ {Pid(t)} : p # q => InUse(p)' \cap InUse(q)' \subseteq {NULL}
        BY <1>1, InUseStep DEF OneOwner
      <3> QED BY <3>1 DEF OneOwner
    <2>1. a \in InUse(q) /\ Pid(t) \in Process
      BY <1>1, InUseStep, PidTyped
    <2>2. a \notin InUse(Pid(t))
      BY <2>1 DEF OneOwner
    <2>3. pc'[t] = "ret" /\ call'[t].addr = a
      BY <1>1, <2>2, InUseStep
    <2> QED BY <2>3 DEF Shared
  <1>2. ASSUME NEW p \in Process, Restart(p) PROVE OneOwner'
    <2>1. /\ UNCHANGED call /\ \A q \in Process : held'[q] \subseteq held[q]
          /\ \A t \in Thread : pc'[t] # "idle" => pc[t] # "idle"
      BY <1>2 DEF Restart, locals, Typed
    <2>2. \A q \in Process : InUse(q)' \subseteq InUse(q)
      BY <2>1 DEF InUse
    <2> QED BY <2>2 DEF OneOwner
  <1>3. CASE Read \/ UNCHANGED vars
    <2>1. UNCHANGED <<held, pc, call>>
      BY <1>3 DEF Read, vars, locals
    <2> QED BY <2>1 DEF OneOwner, InUse
  <1> QED BY <1>1, <1>2, <1>3 DEF Next, Move

\* Until an address is in use in two processes every block has its region, and
\* no correct free was reported.
Clear == "shared" \notin past => OneOwner /\ Good /\ NoFalseDoubleFree

LEMMA InitClear == Init => Clear
<1>1. Init => OneOwner
  BY DEF Init, OneOwner, InUse
<1>2. Init => NoFalseDoubleFree
  BY DEF Init, NoFalseDoubleFree
<1> QED BY <1>1, <1>2, InitGood DEF Clear

LEMMA ClearNext == Typed /\ Roomy /\ Noted /\ Clear /\ [Next]_vars => Clear'
  <1> SUFFICES ASSUME Typed, Roomy, Noted, Clear, [Next]_vars, "shared" \notin past'
               PROVE  OneOwner' /\ Good' /\ NoFalseDoubleFree'
    BY DEF Clear
  <1>1. "shared" \notin past /\ ~Shared'
    BY NotedNext DEF Noted, Signs, Sign
  <1>2. OneOwner /\ Good /\ NoFalseDoubleFree
    BY <1>1 DEF Clear
  <1>3. OneOwner'
    BY <1>1, <1>2, OneOwnerNext
  <1> QED BY <1>2, <1>3, GoodNext, NoReport

LEMMA AlwaysClear == Roomy => (Spec => [](Noted /\ Clear))
<1> SUFFICES ASSUME Roomy PROVE Spec => [](Noted /\ Clear)
  OBVIOUS
<1>1. Typed /\ Noted /\ Clear /\ [Next]_vars => Noted' /\ Clear'
  BY NotedNext, ClearNext
<1> QED BY <1>1, InitNoted, InitClear, AlwaysTyped, PTL DEF Spec

\* A correct free is reported only because an address came into use in two
\* processes at once: until then, however many processes run, with whatever
\* threads, start again under the same pid and leave regions behind, no free
\* of what malloc returned is taken for a double free.
THEOREM CorrectFreesFind ==
  Roomy => (Spec => []("shared" \notin past => NoFalseDoubleFree))
<1>1. Clear => ("shared" \notin past => NoFalseDoubleFree)
  BY DEF Clear
<1> QED BY <1>1, AlwaysClear, PTL

\* With one program, of any number of threads that come and go, none is.
THEOREM OneProgramFreesFind ==
  Roomy /\ (\A p, q \in Process : p = q) => (Spec => []NoFalseDoubleFree)
<1> SUFFICES ASSUME Roomy, \A p, q \in Process : p = q PROVE Spec => []NoFalseDoubleFree
  OBVIOUS
<1>1. ~Shared'
  BY PidTyped DEF Shared
<1>2. Init => "shared" \notin past
  BY DEF Init
<1>3. "shared" \notin past /\ [Next]_vars => ("shared" \notin past)'
  BY <1>1 DEF Next, Signs, vars
<1> QED BY <1>2, <1>3, CorrectFreesFind, PTL DEF Spec

-----------------------------------------------------------------------------
(* Until a program ends, no region stays behind.                           *)

Lasting ==
  /\ \A t \in Thread : pc[t] # "idle" => call[t].op # "exit"
  /\ \A a \in Addr : memory_regions[a] # None => Wanted(a)

LEMMA NobodyEnds ==
  ASSUME Typed, Good, Lasting
  PROVE  /\ \A t \in Thread : pc[t] \notin {"judge", "cleanup", "dead"}
         /\ \A p \in Process : ~Restart(p)
  <1>1. \A t \in Thread : pc[t] \notin {"judge", "cleanup", "dead"}
    BY DEF Good, Role, Lasting
  <1>2. ASSUME NEW p \in Process, Restart(p) PROVE FALSE
    <2>1. <<p, 1>> \in Thread /\ Pid(<<p, 1>>) = p
      BY BoundsAssumption DEF Thread, Pid
    <2> QED BY <1>1, <1>2, <2>1 DEF Restart, Dead
  <1> QED BY <1>1, <1>2

\* A block that is held or about to be freed stays so until it is forgotten.
LEMMA WantedKept ==
  ASSUME Typed, Good, NEW t \in Thread, Step(t), NEW a \in Addr, Wanted(a),
         Forget(t) => a # call[t].addr
  PROVE  Wanted(a)'
  <1>0. /\ pc \in [Thread -> Place] /\ call \in [Thread -> Call] /\ Pid(t) \in Process
        /\ held \in [Process -> SUBSET Block] /\ Rest(t) /\ Ready
    BY PidTyped, RestKept DEF Typed
  <1>1. CASE \E p \in Process : \E b \in held[p] : b.addr = a
    <2>0. PICK p \in Process : \E b \in held[p] : b.addr = a
      BY <1>1
    <2>1. PICK b \in held[p] : b.addr = a
      BY <2>0
    <2>2. CASE b \in held'[p]
      BY <2>1, <2>2 DEF Wanted
    <2>3. CASE b \notin held'[p]
      <3>1. CallFree(t)
        BY <1>0, <2>1, <2>3 DEF Step, CallMalloc, CallMmap, CallExit, Lookup, Create,
           Load, Store, TallyMalloc, TallyMmap, Malloc, MallocFailed,
           trace_malloc_ret, FindRegion, DoubleFree, Forget, Free, ReportLeak,
           NoLeak, Cleanup, trace_page_fault, trace_stack_overflow
      <3>2. PICK c \in held[Pid(t)] :
              /\ Start(t, "free", c.size, c.addr, "find")
              /\ held' = [held EXCEPT ![Pid(t)] = @ \ {c}]
        BY <3>1 DEF CallFree
      <3>3. b = c
        BY <1>0, <2>1, <2>3, <3>2
      <3>4. pc'[t] = "find" /\ call'[t].op = "free" /\ call'[t].addr = a
        BY <1>0, <2>1, <3>2, <3>3 DEF Start, Goto
      <3> QED BY <3>4 DEF Wanted, Freeing
    <2> QED BY <2>2, <2>3
  <1>2. CASE \E u \in Freeing : call[u].addr = a
    <2>1. PICK u \in Freeing : call[u].addr = a
      BY <1>2
    <2>2. CASE u # t
      BY <1>0, <2>1, <2>2 DEF Freeing, Rest, Wanted
    <2>3. CASE u = t
      <3>1. /\ call[t].op = "free" /\ call[t].addr = a
            /\ pc[t] \in {"find", "lookup", "load", "store", "forget"}
        BY <2>1, <2>3 DEF Freeing
      <3>2. call' = call /\ pc'[t] \in {"lookup", "load", "store", "forget"}
        <4>1. CASE FindRegion(t) \/ Load(t) \/ Store(t)
          BY <1>0, <3>1, <4>1 DEF FindRegion, Load, Store, Goto, locals
        <4>2. CASE Lookup(t)
          <5>1. UNCHANGED call /\ pc'[t] = AfterLookup("free", memory_profiles[Key(t)])
            BY <1>0, <3>1, <4>2 DEF Lookup, Goto
          <5> QED BY <5>1, AfterLookupCases
        <4>3. ~DoubleFree(t) /\ ~Forget(t)
          BY <3>1, FreesFind DEF DoubleFree, Goto
        <4> QED BY <3>1, <4>1, <4>2, <4>3
             DEF Step, CallMalloc, CallMmap, CallFree, CallExit, Start, Create, TallyMalloc,
                 TallyMmap, Malloc, MallocFailed, trace_malloc_ret, Free, ReportLeak,
                 NoLeak, Cleanup, trace_page_fault, trace_stack_overflow, Goto
      <3> QED BY <3>1, <3>2 DEF Freeing, Wanted
    <2> QED BY <2>2, <2>3
  <1> QED BY <1>1, <1>2 DEF Wanted

LEMMA LastingNext ==
  Typed /\ Roomy /\ ~Exiting' /\ Good /\ Lasting /\ [Next]_vars => Lasting'
  <1> SUFFICES ASSUME Typed, Roomy, ~Exiting', Good, Lasting, [Next]_vars PROVE Lasting'
    OBVIOUS
  <1>1. ASSUME NEW t \in Thread, Step(t) PROVE Lasting'
    <2>0. /\ pc \in [Thread -> Place] /\ call \in [Thread -> Call] /\ Rest(t)
          /\ memory_regions \in [Addr -> Process \cup {None}]
      BY <1>1, RestKept DEF Typed
    <2>2. \A u \in Thread : pc'[u] # "idle" => call'[u].op # "exit"
      BY DEF Exiting
    <2>3. ASSUME NEW a \in Addr, memory_regions'[a] # None PROVE Wanted(a)'
      <3>1. CASE trace_malloc_ret(t) /\ a = call[t].addr
        <4>1. [addr |-> a, size |-> call[t].size] \in held'[Pid(t)]
          BY <3>1, PidTyped DEF trace_malloc_ret, Typed
        <4> QED BY <4>1, PidTyped DEF Wanted
      <3>2. CASE ~(trace_malloc_ret(t) /\ a = call[t].addr)
        <4>1. memory_regions[a] # None /\ (Forget(t) => a # call[t].addr)
          <5>1. CASE trace_malloc_ret(t)
            <6>1. memory_regions' = [memory_regions EXCEPT ![call[t].addr] = Pid(t)]
              BY <5>1, RegionAdded
            <6> QED BY <2>0, <2>3, <3>2, <5>1, <6>1 DEF trace_malloc_ret, Forget, Goto
          <5>2. CASE Forget(t)
            BY <2>0, <2>3, <5>2 DEF Forget, WithoutRegion
          <5>3. CASE ~trace_malloc_ret(t) /\ ~Forget(t)
            <6>1. UNCHANGED memory_regions
              BY <1>1, <5>3 DEF Step, CallMalloc, CallMmap, CallFree, CallExit, Start, Lookup,
                 Create, Load, Store, TallyMalloc, TallyMmap, Malloc, MallocFailed, FindRegion,
                 DoubleFree, Free, ReportLeak, NoLeak, Cleanup, trace_page_fault,
                 trace_stack_overflow, maps
            <6> QED BY <2>3, <5>3, <6>1
          <5> QED BY <5>1, <5>2, <5>3
        <4> QED BY <1>1, <4>1, WantedKept DEF Lasting
      <3> QED BY <3>1, <3>2
    <2> QED BY <2>2, <2>3 DEF Lasting
  <1>2. CASE Read \/ UNCHANGED vars
    <2>1. UNCHANGED <<memory_regions, held, pc, call>>
      BY <1>2 DEF Read, vars, maps, locals
    <2> QED BY <2>1 DEF Lasting, Wanted, Freeing
  <1> QED BY <1>1, <1>2, NobodyEnds DEF Next, Move

LEMMA InitLasting == Init => Lasting
  BY DEF Init, Lasting

LEMMA RegionsOfBlocks ==
  ASSUME Typed, Good, Lasting
  PROVE  Tracked = UNION {Holds(p) : p \in Process}
  <1>1. \A a \in Addr : Wanted(a) <=> a \in UNION {Holds(p) : p \in Process}
    BY PidTyped DEF Wanted, Holds, Freeing
  <1>2. UNION {Holds(p) : p \in Process} \subseteq Addr
    <2>1. held \in [Process -> SUBSET Block]
      BY DEF Typed
    <2>2. \A p \in Process : \A b \in held[p] : b.addr \in Addr
      BY <2>1 DEF Block
    <2>3. \A t \in Freeing : call[t].addr \in Addr
      BY DEF Freeing, Good, Role
    <2>4. \A p \in Process : Holds(p) \subseteq Addr
      BY <2>2, <2>3 DEF Holds
    <2> QED BY <2>4
  <1>3. \A a \in Addr : memory_regions[a] # None <=> Wanted(a)
    BY DEF Good, Tracks, Lasting
  <1> QED BY <1>1, <1>2, <1>3 DEF Tracked

-----------------------------------------------------------------------------
(* The counters of mallocs, failures and frees.                            *)

LEMMA CountedAt ==
  ASSUME stats \in [2 .. 10 -> Nat], NEW indices, NEW i \in 2 .. 10
  PROVE  Counted(indices)[i] = IF i \in indices THEN stats[i] + 1 ELSE stats[i]
  BY DEF Counted

\* mallocs less failures less frees.
Outstanding == stats[2] - stats[4] - stats[6]

Books == /\ IsFiniteSet(Allocating) /\ IsFiniteSet(Tracked)
         /\ Outstanding = Cardinality(Tracked) + Cardinality(Allocating)

LEMMA AllocatingNext ==
  ASSUME NEW t \in Thread, Rest(t)
  PROVE  Allocating' = IF call'[t].op = "malloc" /\ pc'[t] \in {"malloc", "ret"}
                         THEN Allocating \cup {t} ELSE Allocating \ {t}
  BY DEF Allocating, Rest

\* A step that counts nothing and moves no block.
LEMMA BooksKept ==
  ASSUME Typed, Books, NEW t \in Thread, Rest(t), UNCHANGED <<memory_regions, stats>>,
         t \in Allocating <=> call'[t].op = "malloc" /\ pc'[t] \in {"malloc", "ret"}
  PROVE  Books'
  <1>1. Allocating' = Allocating
    BY AllocatingNext
  <1>2. Tracked' = Tracked
    BY DEF Tracked
  <1> QED BY <1>1, <1>2 DEF Books, Outstanding

LEMMA BooksStep ==
  ASSUME Typed, Roomy, Good, Lasting, Books, NEW t \in Thread, Step(t)
  PROVE  Books'
  <1>0. /\ pc \in [Thread -> Place] /\ call \in [Thread -> Call] /\ Role(t) /\ Rest(t)
        /\ stats \in [2 .. 10 -> Nat]
        /\ IsFiniteSet(Allocating) /\ IsFiniteSet(Tracked)
        /\ Cardinality(Allocating) \in Nat /\ Cardinality(Tracked) \in Nat
        /\ Outstanding = Cardinality(Tracked) + Cardinality(Allocating) 
    BY RestKept, FS_CardinalityType DEF Typed, Good, Books
  <1>t. t \in Allocating <=> call[t].op = "malloc" /\ pc[t] \in {"malloc", "ret"}
    BY DEF Allocating
  <1>a. /\ IsFiniteSet(Allocating \cup {t}) /\ IsFiniteSet(Allocating \ {t})
        /\ Cardinality(Allocating \cup {t}) =
              IF t \in Allocating THEN Cardinality(Allocating) ELSE Cardinality(Allocating) + 1
        /\ Cardinality(Allocating \ {t}) =
              IF t \in Allocating THEN Cardinality(Allocating) - 1 ELSE Cardinality(Allocating)
    <2>1. /\ IsFiniteSet(Allocating \cup {t})
          /\ Cardinality(Allocating \cup {t}) =
                IF t \in Allocating THEN Cardinality(Allocating)
                ELSE Cardinality(Allocating) + 1
      BY <1>0, FS_AddElement
    <2>2. /\ IsFiniteSet(Allocating \ {t})
          /\ Cardinality(Allocating \ {t}) =
                IF t \in Allocating THEN Cardinality(Allocating) - 1
                ELSE Cardinality(Allocating)
      BY <1>0, FS_RemoveElement
    <2> QED BY <2>1, <2>2
  <1> USE DEF Goto
  <1>1. CASE CallMalloc(t) \/ CallMmap(t) \/ CallFree(t) \/ CallExit(t)
    <2>1. pc[t] = "idle" /\ pc'[t] \in {"lookup", "find"} /\ UNCHANGED <<memory_regions, stats>>
      BY <1>0, <1>1 DEF CallMalloc, CallMmap, CallFree, CallExit, Start, maps, outs
    <2> QED BY <1>0, <1>t, <2>1, BooksKept
  <1>2. CASE Lookup(t) \/ Create(t) \/ Load(t) \/ Store(t)
    <2>1. /\ pc[t] \in {"lookup", "create", "load", "store"}
          /\ UNCHANGED <<memory_regions, stats>>
      BY <1>0, <1>2 DEF Lookup, Create, Load, Store, maps, outs
    <2>2. pc'[t] \notin {"malloc", "ret"}
      <3>1. CASE Lookup(t)
        <4>1. call[t].op \in Op \ {None}
          BY <1>0, <2>1 DEF Typed, Ready, Call
        <4>2. pc'[t] = AfterLookup(call[t].op, memory_profiles[Key(t)])
          BY <1>0, <3>1 DEF Lookup
        <4> QED BY <4>1, <4>2, AfterLookupNever
      <3>2. CASE Create(t) \/ Load(t) \/ Store(t)
        BY <1>0, <3>2 DEF Create, Load, Store
      <3> QED BY <1>2, <3>1, <3>2
    <2> QED BY <1>0, <1>t, <2>1, <2>2, BooksKept
  <1>3. CASE Malloc(t)
    <2>1. /\ pc[t] = "malloc" /\ pc'[t] = "ret" /\ call'[t].op = call[t].op
          /\ UNCHANGED <<memory_regions, stats>>
      BY <1>0, <1>3 DEF Malloc, maps, outs, Call
    <2> QED BY <1>0, <1>t, <2>1, BooksKept
  <1>4. CASE FindRegion(t) \/ Free(t) \/ NoLeak(t) \/ Cleanup(t) \/ trace_page_fault(t)
    <2>1. /\ pc[t] \notin {"malloc", "ret"} /\ pc'[t] \notin {"malloc", "ret"}
          /\ UNCHANGED <<memory_regions, stats>>
      BY <1>0, <1>4 DEF FindRegion, Free, NoLeak, Cleanup, trace_page_fault, maps, outs
    <2> QED BY <1>0, <1>t, <2>1, BooksKept
  <1>5. CASE TallyMmap(t) \/ trace_stack_overflow(t)
    <2>1. /\ pc[t] \notin {"malloc", "ret"} /\ pc'[t] \notin {"malloc", "ret"}
          /\ UNCHANGED memory_regions
          /\ \E S \in {{7, 8}, {8}, {10}} : stats' = Counted(S)
      BY <1>0, <1>5 DEF TallyMmap, trace_stack_overflow, maps
    <2>2. stats'[2] = stats[2] /\ stats'[4] = stats[4] /\ stats'[6] = stats[6]
      BY <1>0, <2>1, CountedAt
    <2>3. Allocating' = Allocating
      <3>1. Allocating' = Allocating \ {t}
        BY <1>0, <2>1, AllocatingNext
      <3>2. t \notin Allocating
        BY <1>t, <2>1
      <3> QED BY <3>1, <3>2
    <2>4. Tracked' = Tracked
      BY <2>1 DEF Tracked
    <2> QED BY <2>2, <2>3, <2>4 DEF Books, Outstanding
  <1>6. CASE TallyMalloc(t)
    <2>1. /\ pc[t] = "tally" /\ pc'[t] = "malloc" /\ call'[t].op = "malloc"
          /\ UNCHANGED memory_regions
          /\ \E S \in {{2, 3}, {2}} : stats' = Counted(S)
      BY <1>0, <1>6 DEF TallyMalloc, maps, locals
    <2>2. stats'[2] = stats[2] + 1 /\ stats'[4] = stats[4] /\ stats'[6] = stats[6]
      BY <1>0, <2>1, CountedAt
    <2>3. Allocating' = Allocating \cup {t} /\ t \notin Allocating
      BY <1>0, <1>t, <2>1, AllocatingNext
    <2>4. Tracked' = Tracked
      BY <2>1 DEF Tracked
    <2>5. stats[2] \in Nat /\ stats[4] \in Nat /\ stats[6] \in Nat
      BY <1>0
    <2>6. Outstanding' = Outstanding + 1
      BY <2>2, <2>5 DEF Outstanding
    <2> QED BY <1>0, <1>a, <2>2, <2>3, <2>4, <2>6 DEF Books
  <1>7. CASE MallocFailed(t)
    <2>1. /\ pc[t] = "ret" /\ pc'[t] = "idle" /\ call[t].op = "malloc"
          /\ UNCHANGED memory_regions /\ stats' = Counted({4})
      BY <1>0, <1>7 DEF MallocFailed, maps, FailureStat, Role
    <2>2. stats'[2] = stats[2] /\ stats'[4] = stats[4] + 1 /\ stats'[6] = stats[6]
      BY <1>0, <2>1, CountedAt
    <2>3. Allocating' = Allocating \ {t} /\ t \in Allocating
      BY <1>0, <1>t, <2>1, AllocatingNext
    <2>4. Tracked' = Tracked
      BY <2>1 DEF Tracked
    <2>5. stats[2] \in Nat /\ stats[4] \in Nat /\ stats[6] \in Nat
      BY <1>0
    <2>6. Outstanding' = Outstanding - 1
      BY <2>2, <2>5 DEF Outstanding
    <2> QED BY <1>0, <1>a, <2>2, <2>3, <2>4, <2>6 DEF Books
  <1>8. CASE trace_malloc_ret(t)
    <2>1. /\ pc[t] = "ret" /\ pc'[t] = "idle" /\ call[t].op = "malloc" /\ UNCHANGED stats
      BY <1>0, <1>8 DEF trace_malloc_ret, outs, Role
    <2>2. Allocating' = Allocating \ {t} /\ t \in Allocating
      BY <1>0, <1>t, <2>1, AllocatingNext
    <2>3. Tracked' = Tracked \cup {call[t].addr} /\ call[t].addr \notin Tracked
      BY <1>8, RegionAdded DEF Tracked, Lasting
    <2>4. /\ IsFiniteSet(Tracked \cup {call[t].addr})
          /\ Cardinality(Tracked \cup {call[t].addr}) =
                IF call[t].addr \in Tracked THEN Cardinality(Tracked)
                ELSE Cardinality(Tracked) + 1
      BY <1>0, FS_AddElement
    <2>5. IsFiniteSet(Tracked') /\ Cardinality(Tracked') = Cardinality(Tracked) + 1
      BY <2>3, <2>4
    <2>6. IsFiniteSet(Allocating') /\ Cardinality(Allocating') = Cardinality(Allocating) - 1
      BY <1>a, <2>2
    <2>7. Outstanding' = Outstanding
      BY <2>1 DEF Outstanding
    <2> QED BY <1>0, <2>1, <2>5, <2>6, <2>7 DEF Books
  <1>9. CASE Forget(t)
    <2>1. /\ pc[t] = "forget" /\ pc'[t] = "free" /\ stats' = Counted({6})
      BY <1>0, <1>9 DEF Forget
    <2>2. stats'[2] = stats[2] /\ stats'[4] = stats[4] /\ stats'[6] = stats[6] + 1
      BY <1>0, <2>1, CountedAt
    <2>3. Allocating' = Allocating
      <3>1. Allocating' = Allocating \ {t}
        BY <1>0, <2>1, AllocatingNext
      <3>2. t \notin Allocating
        BY <1>t, <2>1
      <3> QED BY <3>1, <3>2
    <2>4. Tracked' = Tracked \ {call[t].addr} /\ call[t].addr \in Tracked
      BY <1>9, RegionRemoved
    <2>5. /\ IsFiniteSet(Tracked \ {call[t].addr})
          /\ Cardinality(Tracked \ {call[t].addr}) =
                IF call[t].addr \in Tracked THEN Cardinality(Tracked) - 1
                ELSE Cardinality(Tracked)
      BY <1>0, FS_RemoveElement
    <2>6. IsFiniteSet(Tracked') /\ Cardinality(Tracked') = Cardinality(Tracked) - 1
      BY <2>4, <2>5
    <2>7. stats[2] \in Nat /\ stats[4] \in Nat /\ stats[6] \in Nat
      BY <1>0
    <2>8. Outstanding' = Outstanding - 1
      BY <2>2, <2>7 DEF Outstanding
    <2> QED BY <1>0, <2>2, <2>3, <2>6, <2>8 DEF Books
  <1>10. ~DoubleFree(t) /\ ~ReportLeak(t)
    BY <1>0, FreesFind, NobodyEnds DEF DoubleFree, ReportLeak
  <1> QED BY <1>1, <1>2, <1>3, <1>4, <1>5, <1>6, <1>7, <1>8, <1>9, <1>10 DEF Step

LEMMA BooksNext == Typed /\ Roomy /\ Good /\ Lasting /\ Books /\ [Next]_vars => Books'
  <1> SUFFICES ASSUME Typed, Roomy, Good, Lasting, Books, [Next]_vars PROVE Books'
    OBVIOUS
  <1>1. ASSUME NEW t \in Thread, Step(t) PROVE Books'
    BY <1>1, BooksStep
  <1>2. CASE Read \/ UNCHANGED vars
    <2>1. UNCHANGED <<memory_regions, stats, pc, call>>
      BY <1>2 DEF Read, vars, maps, outs, locals
    <2> QED BY <2>1 DEF Books, Outstanding, Allocating, Tracked
  <1> QED BY <1>1, <1>2, NobodyEnds DEF Next, Move

LEMMA InitBooks == Init => Books
  <1> SUFFICES ASSUME Init PROVE Books
    OBVIOUS
  <1>1. Allocating = {}
    BY DEF Init, Allocating
  <1>2. Tracked = {}
    BY DEF Init, Tracked
  <1>3. Outstanding = 0
    BY DEF Init, Outstanding
  <1> QED BY <1>1, <1>2, <1>3, FS_EmptySet DEF Books

\* Until a program ends or shares an address.
Exact == past \cap {"shared", "exit"} = {} => Lasting /\ Books

LEMMA ExactNext == Typed /\ Roomy /\ Noted /\ Clear /\ Exact /\ [Next]_vars => Exact'
  <1> SUFFICES ASSUME Typed, Roomy, Noted, Clear, Exact, [Next]_vars,
                      past' \cap {"shared", "exit"} = {}
               PROVE  Lasting' /\ Books'
    BY DEF Exact
  <1>1. past \cap {"shared", "exit"} = {} /\ ~Exiting'
    BY NotedNext DEF Noted, Signs, Sign
  <1>2. Good /\ Lasting /\ Books
    BY <1>1 DEF Clear, Exact
  <1> QED BY <1>1, <1>2, LastingNext, BooksNext

LEMMA AlwaysExact == Roomy => (Spec => [](Clear /\ Exact))
<1> SUFFICES ASSUME Roomy PROVE Spec => [](Clear /\ Exact)
  OBVIOUS
<1>1. Init => Exact
  BY InitLasting, InitBooks DEF Exact
<1>2. Typed /\ Noted /\ Clear /\ Exact /\ [Next]_vars => Exact'
  BY ExactNext
<1> QED BY <1>1, <1>2, AlwaysClear, AlwaysTyped, PTL DEF Spec

\* Until a program ends or an address is in use in two of them, and whatever
\* addresses their allocators use again, the regions are exactly the blocks
\* the programs hold: any number of them, of any number of threads.
THEOREM RegionsExact == Roomy => (Spec => []RegionsTrackBlocks)
<1>1. Typed /\ Clear /\ Exact => RegionsTrackBlocks
  BY RegionsOfBlocks DEF Clear, Exact, RegionsTrackBlocks
<1> QED BY <1>1, AlwaysExact, AlwaysTyped, PTL

\* Until then the three atomic counters agree with the map at every moment.
THEOREM CountersExact == Roomy => (Spec => []BooksBalance)
<1>1. Exact => BooksBalance
  BY DEF Exact, Books, Outstanding, BooksBalance
<1> QED BY <1>1, AlwaysExact, PTL
=============================================================================
