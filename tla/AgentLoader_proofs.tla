-------------------------- MODULE AgentLoader_proofs --------------------------
(***************************************************************************)
(* Proofs about AgentLoader, for any processors, ring, paths and users:    *)
(* type correctness, what is attached when, what a blocked unlink comes    *)
(* to, and what records are taken for.                                     *)
(***************************************************************************)
EXTENDS AgentLoader, AgentRecords_proofs

Place == {"load", "attach", "attached", "handler", "ring", "test", "poll",
          "consume", "end"}

\* Every loader attaches at least one program.
LEMMA SomePrograms ==
  ASSUME NEW a \in Agents
  PROVE  /\ Len(Programs(a)) \in Nat /\ 1 <= Len(Programs(a))
         /\ DOMAIN Programs(a) = 1 .. Len(Programs(a))
  <1>1. CASE a = "sentinel"
    <2>1. Len(Programs(a)) = 3 /\ DOMAIN Programs(a) = 1 .. 3
      BY <1>1 DEF Programs
    <2> QED BY <2>1
  <1>2. CASE a = "sentinel_fentry"
    <2>1. Len(Programs(a)) = 3 /\ DOMAIN Programs(a) = 1 .. 3
      BY <1>2 DEF Programs
    <2> QED BY <2>1
  <1>3. CASE a = "memory_analyzer"
    <2>1. Len(Programs(a)) = 8 /\ DOMAIN Programs(a) = 1 .. 8
      BY <1>3 DEF Programs
    <2> QED BY <2>1
  <1>4. CASE a \notin {"sentinel", "sentinel_fentry", "memory_analyzer"}
    <2>1. Len(Programs(a)) = 4 /\ DOMAIN Programs(a) = 1 .. 4
      BY <1>4 DEF Programs
    <2> QED BY <2>1
  <1> QED BY <1>1, <1>2, <1>3, <1>4

\* A record is taken for one of the structures, or for none.
LEMMA TakesKind ==
  ASSUME NEW k
  PROVE  Takes(agent, k) \in Kind \cup {Unknown}
  BY DEF Takes, SentinelTakes, MemoryTakes, SyscallTakes, Kind

LEMMA ShownIsLine ==
  ASSUME NEW r \in Record
  PROVE  Shown(r) \in Line
  <1>1. r.kind \in Kind
    BY DEF Record
  <1> QED BY <1>1, TakesKind DEF Shown, Line

\* What a program sends is a record.
LEMMA SendsRecord ==
  ASSUME NEW c \in CPU, NEW s \in Sent
  PROVE  [cpu |-> c, busy |-> TRUE, kind |-> s.kind, event |-> s.event] \in Record
  <1> DEFINE r == [cpu |-> c, busy |-> TRUE, kind |-> s.kind, event |-> s.event]
  <1>1. s = [kind |-> s.kind, event |-> s.event] /\ s.kind \in Kind
    BY DEF Sent, Kind
  <1>2. s.event \in Content
    BY DEF Content
  <1>3. r \in [cpu : CPU, busy : BOOLEAN, kind : Kind, event : Content]
    BY <1>1, <1>2
  <1> QED BY <1>1, <1>3 DEF Record

LEMMA SendTyped ==
  ASSUME ring \in Seq(Record), NEW c \in CPU, NEW kind, NEW event,
         [kind |-> kind, event |-> event] \in Sent, Send(c, kind, event)
  PROVE  ring' \in Seq(Record)
  <1> DEFINE s == [kind |-> kind, event |-> event]
             r == [cpu |-> c, busy |-> TRUE, kind |-> kind, event |-> event]
  <1>1. s.kind = kind /\ s.event = event /\ s \in Sent
    OBVIOUS
  <1> HIDE DEF s
  <1>2. r \in Record
    BY <1>1, SendsRecord
  <1>3. ring' = Append(ring, r) \/ ring' = ring
    BY DEF Send
  <1> HIDE DEF r
  <1> QED BY <1>2, <1>3

\* The events of the four programs are events.
LEMMA OpenEvents ==
  ASSUME NEW fname \in Fname, NEW uid \in Uid
  PROVE  /\ \E e \in Events : tp_openat(fname, uid) = {e}
         /\ \E e \in Events : tp_execve(fname, uid) = {e}
  <1>1. tp_openat(fname, uid) \subseteq Events
    BY DEF Events
  <1>2. tp_execve(fname, uid) \subseteq Events
    BY DEF Events
  <1> QED BY <1>1, <1>2 DEF tp_openat, tp_execve

LEMMA UnlinkEvents ==
  ASSUME NEW fname \in Fname
  PROVE  tp_unlink(fname) = {} \/ \E e \in Events : tp_unlink(fname) = {e}
  <1>1. tp_unlink(fname) \subseteq Events
    BY DEF Events
  <1> QED BY <1>1 DEF tp_unlink

LEMMA ChmodEvents ==
  ASSUME NEW mode \in Mode
  PROVE  tp_chmod(mode) = {} \/ \E e \in Events : tp_chmod(mode) = {e}
  <1>1. tp_chmod(mode) \subseteq Events
    BY DEF Events
  <1> QED BY <1>1 DEF tp_chmod

LEMMA LoggedTyped ==
  ASSUME ring \in Seq(Record), NEW c \in CPU, NEW events,
         events = {} \/ \E e \in Events : events = {e}, Logged(c, events)
  PROVE  ring' \in Seq(Record)
  <1>1. CASE events = {}
    BY <1>1 DEF Logged
  <1>2. CASE events # {}
    <2>1. [kind |-> "syscall", event |-> events] \in Sent
      BY <1>2 DEF Sent
    <2> QED BY <1>2, <2>1, SendTyped DEF Logged
  <1> QED BY <1>1, <1>2

LEMMA TraceTyped ==
  ASSUME ring \in Seq(Record), NEW c \in CPU, NEW p, Trace(c, p)
  PROVE  ring' \in Seq(Record)
  <1>1. [kind |-> KindOf(p), event |-> NoEvent] \in Sent
    BY DEF Sent, Kind, KindOf
  <1> QED BY <1>1, SendTyped DEF Trace

-----------------------------------------------------------------------------
(* What is attached.                                                       *)

\* The programs the loader has reached before number k.
Reached(k) == {Programs(agent)[m] : m \in 1 .. k - 1}
Kept(k) == IF KeepsLink(agent) THEN Reached(k) ELSE {}

\* Where main stands says how many programs are attached.
Links ==
  /\ next \in 1 .. Len(Programs(agent)) + 1
  /\ pc \in {"load", "attach"} => next <= Len(Programs(agent)) /\ attached = Kept(next)
  /\ pc = "attached" => /\ next <= Len(Programs(agent))
                        /\ attached = Kept(next) \cup {Programs(agent)[next]}
  /\ pc \in {"handler", "ring", "test", "poll", "consume"} =>
       attached = Kept(Len(Programs(agent)) + 1)
  /\ pc = "end" <=> exit # "none"
  /\ exit # "none" => attached = {}

Loaded == /\ agent \in Agents /\ pc \in Place /\ attached \subseteq All(agent)
          /\ exit \in {"none", "ok", "error", "killed"} /\ Links

LEMMA InitLoaded == Init => Loaded
  <1> SUFFICES ASSUME Init PROVE Loaded
    OBVIOUS
  <1>1. agent \in Agents /\ next = 1 /\ attached = {} /\ pc = "load" /\ exit = "none"
    BY DEF Init
  <1>2. 1 <= Len(Programs(agent)) /\ Len(Programs(agent)) \in Nat
    BY <1>1, SomePrograms
  <1>3. Kept(1) = {}
    BY DEF Kept, Reached
  <1> QED BY <1>1, <1>2, <1>3 DEF Loaded, Links, Place

LEMMA KeptFacts ==
  ASSUME agent \in Agents, NEW k \in 1 .. Len(Programs(agent))
  PROVE  /\ KeepsLink(agent) => Kept(k + 1) = Kept(k) \cup {Programs(agent)[k]}
         /\ ~KeepsLink(agent) => Kept(k) = {}
         /\ Programs(agent)[k] \in All(agent)
         /\ Kept(Len(Programs(agent)) + 1)
              = IF agent = "memory_analyzer" THEN {} ELSE All(agent)
  <1> DEFINE last == Len(Programs(agent))
  <1>1. last \in Nat /\ DOMAIN Programs(agent) = 1 .. last
    BY SomePrograms
  <1> HIDE DEF last
  <1>2. Reached(k + 1) = Reached(k) \cup {Programs(agent)[k]}
    <2>1. k \in 1 .. last
      BY DEF last
    <2>2. 1 .. (k + 1) - 1 = (1 .. k - 1) \cup {k}
      BY <1>1, <2>1
    <2> QED BY <2>2 DEF Reached
  <1>3. Reached(last + 1) = All(agent)
    <2>1. (last + 1) - 1 = last
      BY <1>1
    <2> QED BY <1>1, <2>1 DEF Reached, All
  <1>4. Programs(agent)[k] \in All(agent)
    BY <1>1 DEF All, last
  <1> QED BY <1>2, <1>3, <1>4 DEF Kept, KeepsLink, last

\* Nothing but main, a failure or Ctrl+C touches what is loaded.
LEMMA LoadedFramed ==
  ASSUME Loaded, UNCHANGED <<agent, pc, next, exit, attached>>
  PROVE  Loaded'
  BY DEF Loaded, Links, Kept, Reached

LEMMA GoneLoaded ==
  ASSUME Loaded, NEW how \in {"ok", "error", "killed"}, Exit(how)
  PROVE  Loaded'
  BY DEF Loaded, Links, Exit, Place

\* main goes on from one place to another, past the attaching.
LEMMA OnLoaded ==
  ASSUME Loaded, UNCHANGED <<next, attached>>, NEW p \in Place, Goto(p),
         pc \in {"handler", "ring", "test", "poll", "consume"},
         p \in {"handler", "ring", "test", "poll", "consume"}
  PROVE  Loaded'
  BY DEF Loaded, Links, Kept, Reached, Goto, Place

LEMMA MainLoaded ==
  ASSUME Loaded, MainStep
  PROVE  Loaded'
  <1>1. CASE Load
    BY <1>1 DEF Load, Loaded, Links, Kept, Reached, Goto, Place
  <1>2. CASE Attach
    <2>1. /\ pc = "attach" /\ pc' = "attached" /\ UNCHANGED <<agent, exit, next>>
          /\ attached' = Kept(next) \cup {Programs(agent)[next]}
          /\ next \in 1 .. Len(Programs(agent))
      BY <1>2 DEF Attach, Goto, Loaded, Links
    <2>2. Programs(agent)[next] \in All(agent)
      BY <2>1, KeptFacts DEF Loaded
    <2>3. attached' \subseteq All(agent)
      BY <1>2, <2>2 DEF Attach, Loaded
    <2>4. Kept(next)' = Kept(next)
      BY <2>1 DEF Kept, Reached
    <2> QED BY <2>1, <2>3, <2>4 DEF Loaded, Links, Place, All
  <1>3. CASE Report
    <2>1. /\ pc = "attached" /\ UNCHANGED <<agent, exit>> /\ next' = next + 1
          /\ attached = Kept(next) \cup {Programs(agent)[next]}
          /\ next \in 1 .. Len(Programs(agent))
      BY <1>3 DEF Report, Goto, Loaded, Links
    <2>2. attached' = Kept(next + 1)
      <3>1. CASE KeepsLink(agent)
        BY <1>3, <2>1, <3>1, KeptFacts DEF Report, Loaded
      <3>2. CASE ~KeepsLink(agent)
        BY <1>3, <2>1, <3>2, KeptFacts DEF Report, Loaded, Kept
      <3> QED BY <3>1, <3>2
    <2>3. attached' = Kept(next)'
      BY <2>1, <2>2 DEF Kept, Reached
    <2>4. attached' \subseteq All(agent)
      BY <1>3 DEF Report, Loaded
    <2>5. Len(Programs(agent)) \in Nat
      BY SomePrograms DEF Loaded
    <2>6. CASE next < Len(Programs(agent))
      <3>1. pc' = "attach"
        BY <1>3, <2>6 DEF Report, Goto
      <3>2. next' \in 1 .. Len(Programs(agent)) + 1 /\ next' <= Len(Programs(agent))
        BY <2>1, <2>5, <2>6
      <3> QED BY <2>1, <2>3, <2>4, <3>1, <3>2 DEF Loaded, Links, Place, All
    <2>7. CASE ~(next < Len(Programs(agent)))
      <3>1. pc' \in {"handler", "ring"}
        BY <1>3, <2>7 DEF Report, Goto
      <3>2. next' \in 1 .. Len(Programs(agent)) + 1 /\ next' = Len(Programs(agent)) + 1
        BY <2>1, <2>5, <2>7
      <3>3. attached' = Kept(Len(Programs(agent)) + 1)'
        BY <2>1, <2>3, <3>2 DEF Kept, Reached
      <3> QED BY <2>1, <2>4, <3>1, <3>2, <3>3 DEF Loaded, Links, Place, All
    <2> QED BY <2>6, <2>7
  <1>4. CASE SetHandler
    BY <1>4, OnLoaded DEF SetHandler, Place
  <1>5. CASE OpenRing
    BY <1>5, OnLoaded DEF OpenRing, Place
  <1>6. CASE Test
    BY <1>6, OnLoaded, GoneLoaded DEF Test, Place
  <1>7. CASE Poll
    BY <1>7, OnLoaded DEF Poll, Place
  <1>8. CASE Show
    BY <1>8, LoadedFramed DEF Show, loader
  <1>9. CASE Return
    BY <1>9, OnLoaded DEF Return, Place
  <1> QED BY <1>1, <1>2, <1>3, <1>4, <1>5, <1>6, <1>7, <1>8, <1>9 DEF MainStep

LEMMA NextLoaded == Loaded /\ [Next]_vars => Loaded'
  <1> SUFFICES ASSUME Loaded, [Next]_vars PROVE Loaded'
    OBVIOUS
  <1>1. CASE Fail
    BY <1>1, GoneLoaded DEF Fail
  <1>2. CASE CtrlC
    BY <1>2, GoneLoaded, LoadedFramed DEF CtrlC
  <1>3. CASE RunHandler
    BY <1>3, LoadedFramed DEF RunHandler
  <1>4. ASSUME Unlinking \/ \E c \in CPU : Program(c) \/ Submit(c) PROVE Loaded'
    BY <1>4, LoadedFramed DEF Unlinking, Program, Submit, loader
  <1>5. CASE UNCHANGED vars
    BY <1>5, LoadedFramed DEF vars, loader
  <1> QED BY <1>1, <1>2, <1>3, <1>4, <1>5, MainLoaded DEF Next

\* The three loaders that keep their links have every program attached that
\* they have reported, from the report to their end.
THEOREM AttachedWhileRunning == Spec => []KeptLinksLive
  <1>1. Loaded => KeptLinksLive
    <2> SUFFICES ASSUME Loaded, agent # "memory_analyzer", exit = "none",
                        NEW k \in 1 .. next - 1
                 PROVE  Programs(agent)[k] \in attached
      BY DEF KeptLinksLive, AttachedAsReported
    <2>1. Len(Programs(agent)) \in Nat /\ KeepsLink(agent)
      BY SomePrograms DEF Loaded, KeepsLink
    <2>2. next \in 1 .. Len(Programs(agent)) + 1 /\ pc \in Place /\ pc # "end"
      BY DEF Loaded, Links
    <2>3. Programs(agent)[k] \in Reached(next)
      BY <2>2 DEF Reached
    <2>4. Reached(next) \subseteq Reached(Len(Programs(agent)) + 1)
      BY <2>1, <2>2 DEF Reached
    <2>5. Kept(next) \subseteq attached \/ Kept(Len(Programs(agent)) + 1) = attached
      BY <2>2 DEF Loaded, Links, Place
    <2> QED BY <2>1, <2>3, <2>4, <2>5 DEF Kept
  <1> QED BY <1>1, InitLoaded, NextLoaded, PTL DEF Spec

-----------------------------------------------------------------------------
(* Type correctness.                                                       *)

LineOrNone == printed = {} \/ \E l \in Line : printed = {l}
CallTyped == call = NoCall \/ call \in Call
Typed == /\ running \in BOOLEAN /\ signal \in BOOLEAN
         /\ ring \in Seq(Record) /\ LineOrNone /\ CallTyped

LEMMA ReadTyped ==
  ASSUME NEW c \in CPU, UnlinkRead(c)
  PROVE  CallTyped'
  <1>1. PICK p \in Path, fname \in Fname :
          call' = [at |-> "write", cpu |-> c, fname |-> fname, memory |-> p,
                   mishap |-> fname = Unread]
    BY DEF UnlinkRead, Fname
  <1>2. (fname = Unread) \in BOOLEAN
    OBVIOUS
  <1> DEFINE m == (fname = Unread)
  <1> HIDE DEF m
  <1>3. [at |-> "write", cpu |-> c, fname |-> fname, memory |-> p, mishap |-> m] \in Call
    BY <1>2 DEF Call, m
  <1>4. call' \in Call
    BY <1>1, <1>3 DEF m
  <1> QED BY <1>4 DEF CallTyped

LEMMA UnlinkingTyped ==
  ASSUME Typed, Unlinking
  PROVE  Typed'
  <1>1. UNCHANGED <<running, signal, printed>> /\ ring \in Seq(Record) /\ CallTyped
    BY DEF Unlinking, loader, Typed
  <1>2. call.at # "none"
    BY DEF Unlinking, UnlinkWrite, UnlinkLog, KernelReads, Rewrite
  <1>3. call \in Call
    BY <1>1, <1>2 DEF CallTyped, NoCall
  <1>4. ring' \in Seq(Record)
    <2>1. CASE UnlinkLog
      <3>1. call.fname \in Fname /\ call.cpu \in CPU
        BY <1>3 DEF Call
      <3>2. tp_unlink(call.fname) = {} \/ \E e \in Events : tp_unlink(call.fname) = {e}
        BY <3>1, UnlinkEvents
      <3> QED BY <1>1, <2>1, <3>1, <3>2, LoggedTyped DEF UnlinkLog
    <2> QED BY <1>1, <2>1 DEF Unlinking, UnlinkWrite, KernelReads, Rewrite
  <1>5. CallTyped'
    <2>1. CASE UnlinkWrite
      <3>1. call' \in Call
        BY <1>3, <2>1 DEF UnlinkWrite, Call
      <3> QED BY <3>1 DEF CallTyped
    <2>2. CASE UnlinkLog
      <3>1. call' \in Call
        BY <1>3, <2>2 DEF UnlinkLog, Call, Fname
      <3> QED BY <3>1 DEF CallTyped
    <2>3. CASE KernelReads
      BY <2>3 DEF KernelReads, CallTyped
    <2>4. CASE Rewrite
      <3>1. call' \in Call
        BY <1>3, <2>4 DEF Rewrite, Call
      <3> QED BY <3>1 DEF CallTyped
    <2> QED BY <2>1, <2>2, <2>3, <2>4 DEF Unlinking
  <1> QED BY <1>1, <1>4, <1>5 DEF Typed, LineOrNone

LEMMA ProgramTyped ==
  ASSUME Typed, NEW c \in CPU, Program(c)
  PROVE  Typed'
  <1>1. UNCHANGED <<running, signal, printed>>
    BY DEF Program, loader
  <1>2. ring' \in Seq(Record) /\ CallTyped'
    <2>1. ASSUME NEW p, Trace(c, p) PROVE ring' \in Seq(Record) /\ CallTyped'
      BY <2>1, TraceTyped DEF Trace, Typed, CallTyped
    <2>2. ASSUME Openat(c) PROVE ring' \in Seq(Record) /\ CallTyped'
      <3>1. PICK fname \in Fname, uid \in Uid : Logged(c, tp_openat(fname, uid)) /\ UNCHANGED call
        BY <2>2 DEF Openat
      <3>2. tp_openat(fname, uid) = {} \/ \E e \in Events : tp_openat(fname, uid) = {e}
        BY OpenEvents
      <3> QED BY <3>1, <3>2, LoggedTyped DEF Typed, CallTyped
    <2>3. ASSUME Execve(c) PROVE ring' \in Seq(Record) /\ CallTyped'
      <3>1. PICK fname \in Fname, uid \in Uid : Logged(c, tp_execve(fname, uid)) /\ UNCHANGED call
        BY <2>3 DEF Execve
      <3>2. tp_execve(fname, uid) = {} \/ \E e \in Events : tp_execve(fname, uid) = {e}
        BY OpenEvents
      <3> QED BY <3>1, <3>2, LoggedTyped DEF Typed, CallTyped
    <2>4. ASSUME Chmod(c) PROVE ring' \in Seq(Record) /\ CallTyped'
      <3>1. PICK mode \in Mode : Logged(c, tp_chmod(mode)) /\ UNCHANGED call
        BY <2>4 DEF Chmod
      <3>2. tp_chmod(mode) = {} \/ \E e \in Events : tp_chmod(mode) = {e}
        BY ChmodEvents
      <3> QED BY <3>1, <3>2, LoggedTyped DEF Typed, CallTyped
    <2>5. ASSUME UnlinkRead(c) PROVE ring' \in Seq(Record) /\ CallTyped'
      BY <2>5, ReadTyped DEF Typed, UnlinkRead
    <2> QED BY <2>1, <2>2, <2>3, <2>4, <2>5 DEF Program
  <1> QED BY <1>1, <1>2 DEF Typed, LineOrNone

LEMMA PublishedRecord ==
  ASSUME NEW r \in Record
  PROVE  Published(r) \in Record
  <1>1. r \in [cpu : CPU, busy : BOOLEAN, kind : Kind, event : Content]
    BY DEF Record
  <1>2. /\ Published(r) \in [cpu : CPU, busy : BOOLEAN, kind : Kind, event : Content]
        /\ Published(r).kind = r.kind /\ Published(r).event = r.event
    BY <1>1 DEF Published
  <1> QED BY <1>2 DEF Record

LEMMA SubmitTyped ==
  ASSUME Typed, NEW c \in CPU, Submit(c)
  PROVE  Typed'
  <1>1. ring' \in Seq(Record)
    <2>1. ring \in Seq(Record)
      BY DEF Typed
    <2>2. \A r \in Record : Published(r) \in Record
      BY PublishedRecord
    <2> QED BY <2>1, <2>2 DEF Submit
  <1> QED BY <1>1 DEF Submit, Typed, LineOrNone, CallTyped, loader

LEMMA ShowTyped ==
  ASSUME Typed, Show
  PROVE  Typed'
  <1>1. ring \in Seq(Record) /\ ring # <<>>
    BY DEF Typed, Show, Available
  <1>2. Head(ring) \in Record /\ Tail(ring) \in Seq(Record)
    BY <1>1
  <1>3. Shown(Head(ring)) \in Line
    BY <1>2, ShownIsLine
  <1> QED BY <1>2, <1>3 DEF Show, Typed, LineOrNone, CallTyped, loader

LEMMA InitTyped == Init => Typed
  <1> SUFFICES ASSUME Init PROVE Typed
    OBVIOUS
  <1>1. ring \in Seq(Record)
    BY DEF Init
  <1> QED BY <1>1 DEF Init, Typed, LineOrNone, CallTyped

LEMMA NextTyped == Typed /\ [Next]_vars => Typed'
  <1> SUFFICES ASSUME Typed, [Next]_vars PROVE Typed'
    OBVIOUS
  <1>1. ASSUME UNCHANGED <<ring, printed, call>>, running' \in BOOLEAN, signal' \in BOOLEAN
        PROVE  Typed'
    BY <1>1 DEF Typed, LineOrNone, CallTyped
  <1>2. CASE MainStep
    BY <1>1, <1>2, ShowTyped
       DEF MainStep, Load, Attach, Report, SetHandler, OpenRing, Test, Poll, Return, Goto, Exit,
           Typed
  <1>3. CASE Fail \/ CtrlC \/ RunHandler
    BY <1>1, <1>3 DEF Fail, CtrlC, RunHandler, Cleared, Exit, Typed
  <1>4. CASE UNCHANGED vars
    BY <1>1, <1>4 DEF vars, loader, Typed
  <1> QED BY <1>2, <1>3, <1>4, ProgramTyped, SubmitTyped, UnlinkingTyped DEF Next

\* The whole state keeps its type: what a program sends is a record whatever
\* it found, and the loader shows nothing that was not sent.
THEOREM TypeCorrect == Spec => []TypeOK
  <1>1. Loaded /\ Typed => TypeOK
    BY DEF Loaded, Links, Typed, LineOrNone, CallTyped, TypeOK, Place
  <1> QED BY <1>1, InitLoaded, NextLoaded, InitTyped, NextTyped, PTL DEF Spec

-----------------------------------------------------------------------------
(* What blocking comes to.                                                 *)

\* From the overwrite on, what stands in memory is harmless, or it was not to
\* be overwritten, or something went wrong.
Spared ==
  /\ call.at = "write" /\ ~call.mishap => call.fname = call.memory
  /\ call.at \in {"log", "kernel"} /\ call.memory \in Sensitive => call.mishap

LEMMA InitSpared == Init => Spared
  BY DEF Init, NoCall, Spared

\* Another thread may write any path, at any time.
LEMMA RewriteSpared ==
  ASSUME call \in Call, Rewrite
  PROVE  Spared'
  BY DEF Rewrite, Call, Spared

LEMMA WriteSpared ==
  ASSUME Spared, call \in Call, UnlinkWrite
  PROVE  Spared'
  <1>1. call.at = "write" /\ call.mishap \in BOOLEAN
    BY DEF UnlinkWrite, Call
  <1>2. Harmless \notin Sensitive
    BY DEF Harmless, Sensitive
  <1>3. CASE call' = [call EXCEPT !.at = "log", !.memory = Harmless, !.mishap = FALSE]
    <2>1. call'.at = "log" /\ call'.memory = Harmless
      BY <1>3 DEF Call
    <2> QED BY <1>2, <2>1 DEF Spared
  <1>4. CASE call' = [call EXCEPT !.at = "log", !.mishap = TRUE]
    <2>1. call'.at = "log" /\ call'.mishap
      BY <1>4 DEF Call
    <2> QED BY <2>1 DEF Spared
  <1>5. CASE call' = [call EXCEPT !.at = "log"] /\ ~Overwrites(call.fname)
    <2>1. call'.at = "log" /\ call'.memory = call.memory /\ call'.mishap = call.mishap
      BY <1>5 DEF Call
    <2>2. call.fname \notin Sensitive
      BY <1>5 DEF Overwrites, is_sensitive_path
    <2> QED BY <1>1, <2>1, <2>2 DEF Spared
  <1> QED BY <1>3, <1>4, <1>5 DEF UnlinkWrite

LEMMA NextSpared == Typed /\ Spared /\ [Next]_vars => Spared'
  <1> SUFFICES ASSUME Typed, Spared, [Next]_vars PROVE Spared'
    OBVIOUS
  <1>1. CASE UNCHANGED call
    BY <1>1 DEF Spared
  <1>2. ASSUME NEW c \in CPU, UnlinkRead(c) PROVE Spared'
    <2>1. PICK p \in Path, fname \in Fname :
            /\ fname \in {p, Unread}
            /\ call' = [at |-> "write", cpu |-> c, fname |-> fname, memory |-> p,
                        mishap |-> fname = Unread]
      BY <1>2 DEF UnlinkRead, Fname
    <2>2. /\ call'.at = "write" /\ call'.fname = fname /\ call'.memory = p
          /\ (fname = Unread => call'.mishap)
      BY <2>1
    <2> QED BY <2>1, <2>2 DEF Spared
  <1>3. CASE Unlinking
    <2>1. call.at # "none"
      BY <1>3 DEF Unlinking, UnlinkWrite, UnlinkLog, KernelReads, Rewrite
    <2>4. call \in Call
      BY <2>1 DEF NoCall, Typed, CallTyped
    <2>2. CASE UnlinkLog
      BY <2>2, <2>4 DEF UnlinkLog, Spared, Call
    <2>3. CASE KernelReads
      BY <2>3 DEF KernelReads, NoCall, Spared
    <2> QED BY <1>3, <2>2, <2>3, <2>4, RewriteSpared, WriteSpared DEF Unlinking
  <1>4. ASSUME NEW c \in CPU, Program(c) PROVE Spared'
    BY <1>1, <1>2, <1>4 DEF Program, Trace, Openat, Execve, Chmod
  <1>5. CASE \/ MainStep \/ Fail \/ CtrlC \/ RunHandler \/ UNCHANGED vars
             \/ \E c \in CPU : Submit(c)
    BY <1>1, <1>5 DEF MainStep, Load, Attach, Report, SetHandler, OpenRing, Test, Poll, Show,
                      Return, Fail, CtrlC, RunHandler, Exit, Submit, vars
  <1> QED BY <1>3, <1>4, <1>5 DEF Next

\* The kernel acts on a sensitive path only when the hook could not read it or
\* could not write it, or another thread of the caller wrote it behind the
\* hook's back: whatever is in the ring, and whatever runs on other CPUs.
THEOREM BlockingProtects == Spec => []Protects
  <1>1. Spared => Protects
    BY DEF Spared, Protects
  <1> QED BY <1>1, InitTyped, NextTyped, InitSpared, NextSpared, PTL DEF Spec

-----------------------------------------------------------------------------
(* What a record is taken for.                                             *)

\* The kinds of record the programs of an agent send.
KindsOf(a) == IF a = "memory_analyzer" THEN {"memory"}
              ELSE IF a = "syscall_modifier" THEN {"syscall"}
              ELSE {"exec", "net_conn", "file_op"}

\* Only those are in the ring, and what is shown came out of it.
OwnKinds ==
  /\ \A n \in DOMAIN ring : ring[n].kind \in KindsOf(agent)
  /\ \A r \in printed : r.sent \in KindsOf(agent) /\ r.as = Takes(agent, r.sent)

LEMMA OwnPrograms ==
  ASSUME NEW a \in Agents, NEW p \in All(a)
  PROVE  /\ a = "syscall_modifier" <=> p \in {"tp_openat", "tp_execve", "tp_unlink", "tp_chmod"}
         /\ a # "syscall_modifier" /\ p # "trace_malloc_ret" => KindOf(p) \in KindsOf(a)
  <1>1. CASE a = "sentinel"
    <2>1. All(a) = {"trace_execve", "trace_tcp_connect", "trace_file_open"}
      BY <1>1 DEF All, Programs
    <2> QED BY <1>1, <2>1 DEF KindOf, KindsOf
  <1>2. CASE a = "sentinel_fentry"
    <2>1. All(a) = {"trace_execve", "trace_tcp_connect", "trace_file_open_fentry"}
      BY <1>2 DEF All, Programs
    <2> QED BY <1>2, <2>1 DEF KindOf, KindsOf
  <1>3. CASE a = "memory_analyzer"
    <2>1. All(a) = {"trace_page_fault_user", "trace_page_fault_kernel", "trace_mmap",
                    "trace_process_exit", "trace_stack_overflow", "trace_malloc",
                    "trace_malloc_ret", "trace_free"}
      BY <1>3 DEF All, Programs
    <2> QED BY <1>3, <2>1 DEF KindOf, KindsOf
  <1>4. CASE a = "syscall_modifier"
    <2>1. All(a) = {"tp_openat", "tp_execve", "tp_unlink", "tp_chmod"}
      BY <1>4 DEF All, Programs
    <2> QED BY <1>4, <2>1
  <1> QED BY <1>1, <1>2, <1>3, <1>4, AgentsAssumption

\* Only the programs of syscall_modifier look at an unlink.
OwnCalls == call.at # "none" => agent = "syscall_modifier"

LEMMA InitOwnCalls == Init => OwnCalls
  BY DEF Init, NoCall, OwnCalls

LEMMA NextOwnCalls == Loaded /\ OwnCalls /\ [Next]_vars => OwnCalls'
  <1> SUFFICES ASSUME Loaded, OwnCalls, [Next]_vars PROVE OwnCalls'
    OBVIOUS
  <1>1. CASE UNCHANGED <<agent, call>>
    BY <1>1 DEF OwnCalls
  <1>2. CASE Unlinking
    BY <1>2 DEF Unlinking, UnlinkWrite, UnlinkLog, KernelReads, Rewrite, OwnCalls, loader
  <1>3. ASSUME NEW c \in CPU, Program(c) PROVE OwnCalls'
    <2>1. CASE "tp_unlink" \in attached
      <3>1. agent = "syscall_modifier"
        BY <2>1, OwnPrograms DEF Loaded
      <3> QED BY <1>3, <3>1 DEF Program, OwnCalls, loader
    <2>2. CASE "tp_unlink" \notin attached
      BY <1>1, <1>3, <2>2 DEF Program, Trace, Openat, Execve, Chmod, loader
    <2> QED BY <2>1, <2>2
  <1>4. CASE \/ MainStep \/ Fail \/ CtrlC \/ RunHandler \/ UNCHANGED vars
             \/ \E c \in CPU : Submit(c)
    BY <1>1, <1>4 DEF MainStep, Load, Attach, Report, SetHandler, OpenRing, Test, Poll, Show, Goto,
                      Return, Fail, CtrlC, RunHandler, Exit, Submit, loader, vars
  <1> QED BY <1>2, <1>3, <1>4 DEF Next

LEMMA SendOwn ==
  ASSUME Typed, OwnKinds, NEW c, NEW kind \in KindsOf(agent), NEW event, Send(c, kind, event)
  PROVE  \A n \in DOMAIN ring' : ring'[n].kind \in KindsOf(agent)
  <1> DEFINE r == [cpu |-> c, busy |-> TRUE, kind |-> kind, event |-> event]
  <1>1. ring' = ring \/ ring' = Append(ring, r)
    BY DEF Send
  <1>2. r.kind = kind
    OBVIOUS
  <1> HIDE DEF r
  <1> DEFINE S == Record \cup {r}
  <1>3. ring \in Seq(S) /\ r \in S
    BY DEF Typed
  <1> HIDE DEF S
  <1>4. ASSUME ring' = Append(ring, r), NEW n \in DOMAIN ring'
        PROVE  ring'[n] = r \/ (n \in DOMAIN ring /\ ring'[n] = ring[n])
    BY <1>3, <1>4
  <1> QED BY <1>1, <1>2, <1>4 DEF OwnKinds

LEMMA LoggedOwn ==
  ASSUME Typed, OwnKinds, NEW c, NEW events, "syscall" \in KindsOf(agent), Logged(c, events)
  PROVE  \A n \in DOMAIN ring' : ring'[n].kind \in KindsOf(agent)
  <1>1. CASE events = {}
    BY <1>1 DEF Logged, OwnKinds
  <1>2. CASE events # {}
    BY <1>2, SendOwn DEF Logged
  <1> QED BY <1>1, <1>2

LEMMA ProgramOwn ==
  ASSUME Loaded, Typed, OwnKinds, NEW c \in CPU, Program(c)
  PROVE  OwnKinds'
  <1>1. UNCHANGED <<agent, printed>> /\ agent \in Agents /\ attached \subseteq All(agent)
    BY DEF Program, loader, Loaded
  <1>2. ASSUME \A n \in DOMAIN ring' : ring'[n].kind \in KindsOf(agent)
        PROVE  OwnKinds'
    BY <1>1, <1>2 DEF OwnKinds
  <1>3. ASSUME NEW p \in attached, Trace(c, p) PROVE OwnKinds'
    <2>1. KindOf(p) \in KindsOf(agent)
      BY <1>1, <1>3, OwnPrograms DEF Trace
    <2> QED BY <1>2, <1>3, <2>1, SendOwn DEF Trace
  <1>4. ASSUME NEW events, "syscall" \in KindsOf(agent), Logged(c, events) PROVE OwnKinds'
    BY <1>1, <1>2, <1>4, LoggedOwn
  <1>5. ASSUME NEW p \in attached, p \in {"tp_openat", "tp_execve", "tp_unlink", "tp_chmod"}
        PROVE  "syscall" \in KindsOf(agent)
    BY <1>1, <1>5, OwnPrograms DEF KindsOf
  <1>6. ASSUME UnlinkRead(c) PROVE OwnKinds'
    BY <1>2, <1>6 DEF UnlinkRead, OwnKinds
  <1> QED BY <1>3, <1>4, <1>5, <1>6 DEF Program, Openat, Execve, Chmod

LEMMA SubmitOwn ==
  ASSUME Typed, OwnKinds, NEW c \in CPU, Submit(c)
  PROVE  OwnKinds'
  <1>1. UNCHANGED <<agent, printed>> /\ DOMAIN ring' = DOMAIN ring
    BY DEF Submit, loader
  <1>2. ASSUME NEW k \in DOMAIN ring PROVE ring'[k].kind = ring[k].kind
    <2>1. ring[k] \in [cpu : CPU, busy : BOOLEAN, kind : Kind, event : Content]
      <3>1. ring \in Seq(Record)
        BY DEF Typed
      <3>2. ring[k] \in Record
        BY <3>1
      <3> QED BY <3>2 DEF Record
    <2>2. ring'[k] = IF ring[k].cpu = c THEN Published(ring[k]) ELSE ring[k]
      BY DEF Submit
    <2> QED BY <2>1, <2>2 DEF Published
  <1> QED BY <1>1, <1>2 DEF OwnKinds

LEMMA ShowOwn ==
  ASSUME Typed, OwnKinds, Show
  PROVE  OwnKinds'
  <1>1. /\ ring \in Seq(Record) /\ ring # <<>> /\ ring' = Tail(ring) /\ UNCHANGED agent
        /\ printed' = {Shown(Head(ring))}
    BY DEF Typed, Show, Available, loader
  <1>2. 1 \in DOMAIN ring /\ Head(ring) = ring[1]
    BY <1>1
  <1>3. ASSUME NEW n \in DOMAIN ring' PROVE n + 1 \in DOMAIN ring /\ ring'[n] = ring[n + 1]
    BY <1>1, <1>3
  <1>4. ASSUME NEW r \in printed' PROVE r.sent \in KindsOf(agent) /\ r.as = Takes(agent, r.sent)
    <2>1. r = Shown(ring[1])
      BY <1>1, <1>2, <1>4
    <2> QED BY <1>2, <2>1 DEF Shown, OwnKinds
  <1> QED BY <1>1, <1>3, <1>4 DEF OwnKinds

LEMMA InitOwn == Init => OwnKinds
  BY DEF Init, OwnKinds

LEMMA NextOwn == Loaded /\ Typed /\ OwnCalls /\ OwnKinds /\ [Next]_vars => OwnKinds'
  <1> SUFFICES ASSUME Loaded, Typed, OwnCalls, OwnKinds, [Next]_vars PROVE OwnKinds'
    OBVIOUS
  <1>1. CASE UNCHANGED <<agent, ring, printed>>
    BY <1>1 DEF OwnKinds
  <1>2. CASE MainStep
    BY <1>1, <1>2, ShowOwn
       DEF MainStep, Load, Attach, Report, SetHandler, OpenRing, Test, Poll, Return, Goto, Exit
  <1>3. CASE Fail \/ CtrlC \/ RunHandler \/ UNCHANGED vars
    BY <1>1, <1>3 DEF Fail, CtrlC, RunHandler, Exit, vars, loader
  <1>4. CASE Unlinking
    <2>1. CASE UnlinkLog
      <3>1. UNCHANGED <<agent, printed>> /\ Logged(call.cpu, tp_unlink(call.fname))
        BY <1>4, <2>1 DEF Unlinking, UnlinkLog, loader
      <3>2. agent = "syscall_modifier" /\ "syscall" \in KindsOf(agent)
        BY <2>1 DEF UnlinkLog, OwnCalls, KindsOf
      <3>3. \A n \in DOMAIN ring' : ring'[n].kind \in KindsOf(agent)
        BY <3>1, <3>2, LoggedOwn
      <3> QED BY <3>1, <3>2, <3>3 DEF OwnKinds
    <2> QED BY <1>1, <1>4, <2>1 DEF Unlinking, UnlinkWrite, KernelReads, Rewrite, loader
  <1> QED BY <1>2, <1>3, <1>4, ProgramOwn, SubmitOwn DEF Next

\* What each kind is shown as, by the loader whose programs send it.
LEMMA ShownAs ==
  ASSUME agent \in Agents, NEW k \in KindsOf(agent)
  PROVE  k \in Kind /\ Takes(agent, k) = IF k = "file_op" THEN "exec" ELSE k
  <1>1. CASE agent = "memory_analyzer"
    BY <1>1, Taken DEF KindsOf, Takes, Kind
  <1>2. CASE agent = "syscall_modifier"
    BY <1>2, Taken DEF KindsOf, Takes, Kind
  <1>3. CASE agent \notin {"memory_analyzer", "syscall_modifier"}
    BY <1>3, Taken DEF KindsOf, Takes, Kind
  <1> QED BY <1>1, <1>2, <1>3

\* No record is passed over for its length, and each field read of one is the
\* field its program wrote, except of file_op, which is taken for exec.
THEOREM FieldsRight == Spec => []FieldsAgree
  <1>1. Loaded /\ OwnKinds => FieldsAgree
    <2> SUFFICES ASSUME Loaded, OwnKinds, NEW r \in printed
                 PROVE  \/ <<r.sent, r.as>> \in ReadRight
                        \/ r.sent = "file_op" /\ r.as = "exec"
      BY DEF FieldsAgree
    <2>1. r.sent \in Kind /\ r.as = IF r.sent = "file_op" THEN "exec" ELSE r.sent
      BY ShownAs DEF OwnKinds, Loaded
    <2>2. CASE r.sent = "file_op"
      BY <2>1, <2>2
    <2>3. CASE r.sent # "file_op"
      BY <2>1, <2>3, SameLayout
    <2> QED BY <2>2, <2>3
  <1> QED BY <1>1, InitLoaded, NextLoaded, InitTyped, NextTyped, InitOwnCalls, NextOwnCalls,
         InitOwn, NextOwn, PTL DEF Spec

\* A record of a file operation is never shown as one, by any loader: of the
\* branch that prints it no record is short or long enough.
THEOREM NoFileLine == Spec => [](\A r \in printed : r.as # "file_op")
  <1>1. Loaded /\ OwnKinds => \A r \in printed : r.as # "file_op"
    BY ShownAs DEF OwnKinds, Loaded
  <1> QED BY <1>1, InitLoaded, NextLoaded, InitTyped, NextTyped, InitOwnCalls, NextOwnCalls,
         InitOwn, NextOwn, PTL DEF Spec
=============================================================================
