----------------------------- MODULE AgentLoader ------------------------------
(***************************************************************************)
(* The security agents: sentinel_loader.rs, sentinel_fentry_loader.rs,     *)
(* memory_analyzer_loader.rs and syscall_modifier_loader.rs, each with the *)
(* ring its kernel programs fill.  A loader loads an object file, attaches *)
(* the programs, sets a handler for Ctrl+C, opens the ring and polls it    *)
(* until the handler, which runs in a thread of its own, clears a flag.    *)
(*                                                                         *)
(* The kernel runs the programs on every CPU, one at a time on each, from  *)
(* the moment they are attached: a record is reserved, filled and          *)
(* submitted, and when there is no room the program goes without.  When    *)
(* the value attach returns is dropped the program is detached.  What the  *)
(* programs of memory_analyzer do is in MemoryAnalyzer; here they send.    *)
(***************************************************************************)
EXTENDS AgentRecords, SyscallModifier

CONSTANTS
  Agents,   \* the agents looked at
  CPU,      \* the processors
  RingCap   \* records the ring holds before a reserve fails

ASSUME AgentsAssumption ==
  Agents \subseteq {"sentinel", "sentinel_fentry", "memory_analyzer", "syscall_modifier"}
ASSUME RingCapAssumption == RingCap \in Nat \ {0}

VARIABLES
  agent,     \* the loader that runs, chosen once
  pc,        \* where its main thread stands
  next,      \* the program to attach next, by its number
  attached,  \* the programs attached in the kernel
  running,   \* the flag
  signal,    \* Ctrl+C pressed and not handled yet
  exit,      \* how the loader ended, or "none"
  ring,      \* the records, in the order of their reserves
  printed,   \* the record shown last, as the loader took it
  call       \* the unlink under way, from its hook to the kernel's own read

loader == <<agent, pc, next, running, signal, exit>>
vars == <<loader, attached, ring, printed, call>>

Programs(a) ==
  IF a = "sentinel" THEN
       <<"trace_execve", "trace_tcp_connect", "trace_file_open">>
  ELSE IF a = "sentinel_fentry" THEN
       <<"trace_execve", "trace_tcp_connect", "trace_file_open_fentry">>
  ELSE IF a = "memory_analyzer" THEN
       <<"trace_page_fault_user", "trace_page_fault_kernel", "trace_mmap",
         "trace_process_exit", "trace_stack_overflow", "trace_malloc",
         "trace_malloc_ret", "trace_free">>
  ELSE <<"tp_openat", "tp_execve", "tp_unlink", "tp_chmod">>
All(a) == {Programs(a)[k] : k \in DOMAIN Programs(a)}

\* The sentinels set the handler before they open the ring, the others after.
HandlerFirst(a) == a \in {"sentinel", "sentinel_fentry"}

NoEvent == {}
NoCall == [at |-> "none"]

Init ==
  /\ agent \in Agents /\ pc = "load" /\ next = 1
  /\ attached = {} /\ running = TRUE /\ signal = FALSE /\ exit = "none"
  /\ ring = <<>> /\ printed = {} /\ call = NoCall

-----------------------------------------------------------------------------
(* The main thread of the loader.                                          *)

\* The end of the process: whatever is still attached goes with it.
Exit(how) ==
  /\ exit' = how /\ pc' = "end" /\ attached' = {}
  /\ UNCHANGED <<agent, next, running, ring, printed, call>>

Goto(p) == pc' = p /\ UNCHANGED <<agent, running, signal, exit>>

Load ==
  /\ pc = "load" /\ Goto("attach")
  /\ UNCHANGED <<next, attached, ring, printed, call>>

Attach ==
  /\ pc = "attach" /\ Goto("attached")
  /\ attached' = attached \cup {Programs(agent)[next]}
  /\ UNCHANGED <<next, ring, printed, call>>

\* Whether the link is bound to a variable of main; a value that is not is
\* dropped at the end of its statement.
KeepsLinkMutant(a) == a = "sentinel"
KeepsLink(a) == a # "memory_analyzer"

\* The message that says the program is attached, after the statement.
Report ==
  /\ pc = "attached"
  /\ IF KeepsLink(agent) THEN UNCHANGED attached
     ELSE attached' = attached \ {Programs(agent)[next]}
  /\ next' = next + 1
  /\ Goto(IF next < Len(Programs(agent)) THEN "attach"
          ELSE IF HandlerFirst(agent) THEN "handler" ELSE "ring")
  /\ UNCHANGED <<ring, printed, call>>

SetHandler ==
  /\ pc = "handler" /\ Goto(IF HandlerFirst(agent) THEN "ring" ELSE "test")
  /\ UNCHANGED <<next, attached, ring, printed, call>>

OpenRing ==
  /\ pc = "ring" /\ Goto(IF HandlerFirst(agent) THEN "test" ELSE "handler")
  /\ UNCHANGED <<next, attached, ring, printed, call>>

\* Each of these calls may fail, which ends main with its error.
Fail == /\ pc \in {"load", "attach", "handler", "ring"}
        /\ Exit("error") /\ UNCHANGED signal

Test ==
  /\ pc = "test"
  /\ \/ /\ running /\ Goto("poll")
        /\ UNCHANGED <<next, attached, ring, printed, call>>
     \/ ~running /\ Exit("ok") /\ UNCHANGED signal

\* The oldest record can be read once it is submitted.
Available == ring # <<>> /\ ~Head(ring).busy

Poll ==
  /\ pc = "poll"
  /\ Goto(IF Available THEN "consume" ELSE "test")
  /\ UNCHANGED <<next, attached, ring, printed, call>>

Shown(r) == [sent |-> r.kind, as |-> Takes(agent, r.kind)]

Show ==
  /\ pc = "consume" /\ Available
  /\ printed' = {Shown(Head(ring))} /\ ring' = Tail(ring)
  /\ UNCHANGED <<loader, attached, call>>

\* poll returns when the ring is empty or its oldest record not submitted.
Return ==
  /\ pc = "consume" /\ ~Available /\ Goto("test")
  /\ UNCHANGED <<next, attached, ring, printed, call>>

MainStep == \/ Load \/ Attach \/ Report \/ SetHandler \/ OpenRing
            \/ Test \/ Poll \/ Show \/ Return

-----------------------------------------------------------------------------
(* Ctrl+C.                                                                 *)

HandlerSet == \/ pc \in {"test", "poll", "consume"}
              \/ pc = "ring" /\ HandlerFirst(agent)

\* Without a handler the signal ends the process.  With one it wakes the
\* thread that runs the handler, and when it interrupts the wait in poll this
\* returns an error, with which main ends.
CtrlC ==
  /\ exit = "none" /\ ~signal
  /\ \/ ~HandlerSet /\ Exit("killed") /\ UNCHANGED signal
     \/ /\ HandlerSet /\ signal' = TRUE
        /\ UNCHANGED <<agent, pc, next, running, exit, attached, ring, printed, call>>
     \/ pc = "poll" /\ signal' = TRUE /\ Exit("error")

ClearedMutant == TRUE
Cleared == FALSE

RunHandler ==
  /\ signal /\ exit = "none"
  /\ signal' = FALSE /\ running' = Cleared
  /\ UNCHANGED <<agent, pc, next, exit, attached, ring, printed, call>>

-----------------------------------------------------------------------------
(* The kernel programs.                                                    *)

Unsubmitted(c) == \E n \in DOMAIN ring : ring[n].busy /\ ring[n].cpu = c
Idle(c) == ~Unsubmitted(c) /\ (call.at \in {"write", "log"} => call.cpu # c)

HasRoom == Len(ring) < RingCap

\* A record of the kind is reserved and filled, or there is no room.
Send(c, kind, event) ==
  IF HasRoom
    THEN ring' = Append(ring, [cpu |-> c, busy |-> TRUE, kind |-> kind, event |-> event])
    ELSE UNCHANGED ring

\* The programs that always send a record, and those that send one when what
\* they look for is there; trace_malloc_ret sends none.
KindOf(p) ==
  IF p = "trace_execve" THEN "exec"
  ELSE IF p = "trace_tcp_connect" THEN "net_conn"
  ELSE IF p \in {"trace_file_open", "trace_file_open_fentry"} THEN "file_op"
  ELSE "memory"

Trace(c, p) ==
  /\ agent # "syscall_modifier" /\ p # "trace_malloc_ret"
  /\ Send(c, KindOf(p), NoEvent)
  /\ UNCHANGED call

LoggedMutant(c, events) == Send(c, "syscall", events)
Logged(c, events) == IF events = {} THEN UNCHANGED ring ELSE Send(c, "syscall", events)

Openat(c) == \E fname \in Fname, uid \in Uid :
  Logged(c, tp_openat(fname, uid)) /\ UNCHANGED call
Execve(c) == \E fname \in Fname, uid \in Uid :
  Logged(c, tp_execve(fname, uid)) /\ UNCHANGED call
Chmod(c) == \E mode \in Mode :
  Logged(c, tp_chmod(mode)) /\ UNCHANGED call

\* tp_unlink runs at the entry of the call.  The path stays in the caller's
\* memory, where other threads of the caller can write it: the hook reads it,
\* overwrites a sensitive one where it can be written, logs the name it read,
\* and after the hook the kernel reads the path again and acts on that.  One
\* unlink is under way at a time.
Harmless == "/dev/null/protected"
OverwritesMutant(fname) == is_sensitive_path(fname) /\ HasRoom
Overwrites(fname) == is_sensitive_path(fname)

\* A mishap is what the code does not hinder: the hook did not get the path,
\* could not write it, or another thread wrote it after the hook's last access.
UnlinkRead(c) ==
  /\ call.at = "none" /\ UNCHANGED ring
  /\ \E p \in Path : \E fname \in {p, Unread} :
       call' = [at |-> "write", cpu |-> c, fname |-> fname, memory |-> p,
                mishap |-> fname = Unread]

UnlinkWrite ==
  /\ call.at = "write" /\ UNCHANGED ring
  /\ IF Overwrites(call.fname)
       THEN \/ call' = [call EXCEPT !.at = "log", !.memory = Harmless, !.mishap = FALSE]
            \/ call' = [call EXCEPT !.at = "log", !.mishap = TRUE]
       ELSE call' = [call EXCEPT !.at = "log"]

UnlinkLog ==
  /\ call.at = "log" /\ Logged(call.cpu, tp_unlink(call.fname))
  /\ call' = [call EXCEPT !.at = "kernel", !.fname = Unread]

KernelReads ==
  /\ call.at = "kernel" /\ Idle(call.cpu)
  /\ call' = NoCall /\ UNCHANGED ring

Rewrite ==
  /\ call.at # "none" /\ UNCHANGED ring
  /\ \E p \in Path : call' = [call EXCEPT !.memory = p, !.mishap = TRUE]

Unlinking == /\ UnlinkWrite \/ UnlinkLog \/ KernelReads \/ Rewrite
             /\ UNCHANGED <<loader, attached, printed>>

Program(c) ==
  /\ Idle(c)
  /\ \/ \E p \in attached : Trace(c, p)
     \/ "tp_openat" \in attached /\ Openat(c)
     \/ "tp_execve" \in attached /\ Execve(c)
     \/ "tp_unlink" \in attached /\ UnlinkRead(c)
     \/ "tp_chmod" \in attached /\ Chmod(c)
  /\ UNCHANGED <<loader, attached, printed>>

\* What bpf_ringbuf_submit makes of a record.
PublishedMutant(r) == r
Published(r) == [r EXCEPT !.busy = FALSE]

Submit(c) ==
  /\ Unsubmitted(c)
  /\ ring' = [n \in DOMAIN ring |->
                IF ring[n].cpu = c THEN Published(ring[n]) ELSE ring[n]]
  /\ UNCHANGED <<loader, attached, printed, call>>

-----------------------------------------------------------------------------

Next == \/ MainStep \/ Fail \/ CtrlC \/ RunHandler \/ Unlinking
        \/ \E c \in CPU : Program(c) \/ Submit(c)

Spec == Init /\ [][Next]_vars

\* The scheduler runs both threads of the loader, and a program that reserved
\* a record comes to its end.  Nothing is assumed of failures, of Ctrl+C and
\* of how often programs run.
FairSpec == /\ Spec /\ WF_vars(MainStep) /\ WF_vars(RunHandler)
            /\ \A c \in CPU : WF_vars(Submit(c))

-----------------------------------------------------------------------------
(* Properties.                                                             *)

Events == UNION ({tp_openat(fname, uid) : fname \in Fname, uid \in Uid}
                 \cup {tp_execve(fname, uid) : fname \in Fname, uid \in Uid}
                 \cup {tp_unlink(fname) : fname \in Fname} \cup {tp_chmod(m) : m \in Mode})

Sent == [kind : Kind \ {"syscall"}, event : {NoEvent}]
          \cup [kind : {"syscall"}, event : {{e} : e \in Events}]
Content == {s.event : s \in Sent}
Record == {r \in [cpu : CPU, busy : BOOLEAN, kind : Kind, event : Content] :
             [kind |-> r.kind, event |-> r.event] \in Sent}
Call == [at : {"write", "log", "kernel"}, cpu : CPU, fname : Fname,
         memory : Path \cup {Harmless}, mishap : BOOLEAN]
Line == [sent : Kind, as : Kind \cup {Unknown}]

\* Type correctness of the whole state.
TypeOK ==
  /\ agent \in Agents
  /\ pc \in {"load", "attach", "attached", "handler", "ring", "test", "poll",
             "consume", "end"}
  /\ next \in 1 .. Len(Programs(agent)) + 1
  /\ attached \subseteq All(agent)
  /\ running \in BOOLEAN /\ signal \in BOOLEAN
  /\ exit \in {"none", "ok", "error", "killed"}
  /\ ring \in Seq(Record)
  /\ printed = {} \/ \E l \in Line : printed = {l}
  /\ call = NoCall \/ call \in Call

\* What "[OK] attached" is worth: every program the loader has reported is
\* attached from then on, as long as the loader runs.
AttachedAsReported ==
  exit = "none" => \A k \in 1 .. next - 1 : Programs(agent)[k] \in attached

\* It holds of the three loaders that keep what attach returned, whatever
\* fails and whenever Ctrl+C is pressed.
KeptLinksLive == agent # "memory_analyzer" => AttachedAsReported

\* A record is always taken for something, never passed over as of unknown
\* length, and each field read of it is the one that was written: only
\* file_op, whose length is that of exec, is taken for something else.
FieldsAgree == \A r \in printed :
  \/ <<r.sent, r.as>> \in ReadRight
  \/ r.sent = "file_op" /\ r.as = "exec"

\* The kernel acts on a sensitive path only when the hook failed to read it,
\* failed to overwrite it, or another thread wrote it since: however full the
\* ring is, and not when the path changed before a write that succeeded.
Protects ==
  call.at = "kernel" /\ call.memory \in Sensitive => call.mishap

\* Ctrl+C ends a loader that has set its handler, by the flag or by an error,
\* unless records keep coming so that poll never returns.
EndsUnlessFlooded == (signal ~> exit # "none") \/ []<><<Show>>_vars

\* A loader does not leave records in the ring for ever: it goes on showing
\* some, or the ring stays empty, or it ends.
RecordsShown == \/ []<><<Show>>_vars \/ <>[](ring = <<>>) \/ <>(exit # "none")

\* The programs capture "Process execution events", "Network connection
\* attempts" and "File system operations": each is shown as what it is.
ShownAsSent == \A r \in printed : r.as = r.sent
=============================================================================
