----------------------------- MODULE AgentRecords -----------------------------
(***************************************************************************)
(* The records the kernel programs of the security agents put into their   *)
(* rings, the structures the loaders take them for, and how a loader picks *)
(* the structure.  Nothing in a record says what it is; a loader goes by   *)
(* its length.  A C structure and a repr(C) one are laid out by the same   *)
(* rule: each field at the next multiple of its alignment, the whole a     *)
(* multiple of the largest.                                                *)
(***************************************************************************)
EXTENDS Integers, Sequences

U64(f) == [name |-> f, size |-> 8, count |-> 1]
U32(f) == [name |-> f, size |-> 4, count |-> 1]
U16(f) == [name |-> f, size |-> 2, count |-> 1]
U8(f) == [name |-> f, size |-> 1, count |-> 1]
Bytes(f, k) == [name |-> f, size |-> 1, count |-> k]

RoundUp(x, a) == ((x + a - 1) \div a) * a

\* End(L)[k] is where field k of layout L ends.
End(L) ==
  LET e[k \in 0 .. Len(L)] ==
        IF k = 0 THEN 0
        ELSE RoundUp(e[k - 1], L[k].size) + L[k].size * L[k].count
  IN  e
Offset(L, k) == RoundUp(End(L)[k - 1], L[k].size)
SizeOf(L) ==
  LET widest == CHOOSE a \in {1, 2, 4, 8} :
                  /\ \E k \in DOMAIN L : L[k].size = a
                  /\ \A k \in DOMAIN L : L[k].size <= a
  IN  RoundUp(End(L)[Len(L)], widest)

-----------------------------------------------------------------------------
(* The structures of the kernel programs.                                  *)

event_exec == <<U64("timestamp"), U32("pid"), U32("ppid"), U32("uid"),
                U32("gid"), Bytes("comm", 16), Bytes("filename", 256)>>
event_net_conn == <<U64("timestamp"), U32("pid"), U32("uid"),
                    Bytes("comm", 16), U32("saddr"), U32("daddr"),
                    U16("sport"), U16("dport")>>
event_file_op == <<U64("timestamp"), U32("pid"), U32("uid"),
                   Bytes("comm", 16), U32("operation"),
                   Bytes("filename", 256), U32("mode")>>
memory_event == <<U64("timestamp"), U32("pid"), U32("tid"), Bytes("comm", 16),
                  U64("addr"), U64("size"), U8("access_type"),
                  U8("fault_type"), U32("stack_id"), U32("threat_score"),
                  U8("is_overflow"), U8("is_leak"),
                  Bytes("violation_type", 32)>>
syscall_event == <<U64("timestamp"), U32("pid"), U32("uid"), U32("gid"),
                   Bytes("comm", 16), U32("syscall_nr"),
                   Bytes("original_path", 256), Bytes("modified_path", 256),
                   U8("action_taken"), U8("was_blocked"),
                   U32("threat_score"), Bytes("reason", 64)>>

Kind == {"exec", "net_conn", "file_op", "memory", "syscall"}
LayoutOf(k) == CASE k = "exec" -> event_exec
                 [] k = "net_conn" -> event_net_conn
                 [] k = "file_op" -> event_file_op
                 [] k = "memory" -> memory_event
                 [] k = "syscall" -> syscall_event

-----------------------------------------------------------------------------
(* The structures of the loaders.                                          *)

\* One field forgotten: the length stays the same.
EventExecMutant == <<U64("timestamp"), U32("pid"), U32("ppid"), U32("uid"),
                     Bytes("comm", 16), Bytes("filename", 256)>>
EventExec == <<U64("timestamp"), U32("pid"), U32("ppid"), U32("uid"),
               U32("gid"), Bytes("comm", 16), Bytes("filename", 256)>>
EventNetConn == <<U64("timestamp"), U32("pid"), U32("uid"),
                  Bytes("comm", 16), U32("saddr"), U32("daddr"),
                  U16("sport"), U16("dport")>>
EventFileOp == <<U64("timestamp"), U32("pid"), U32("uid"), Bytes("comm", 16),
                 U32("operation"), Bytes("filename", 256), U32("mode")>>
MemoryEvent == <<U64("timestamp"), U32("pid"), U32("tid"), Bytes("comm", 16),
                 U64("addr"), U64("size"), U8("access_type"),
                 U8("fault_type"), U32("stack_id"), U32("threat_score"),
                 U8("is_overflow"), U8("is_leak"),
                 Bytes("violation_type", 32)>>
SyscallEvent == <<U64("timestamp"), U32("pid"), U32("uid"), U32("gid"),
                  Bytes("comm", 16), U32("syscall_nr"),
                  Bytes("original_path", 256), Bytes("modified_path", 256),
                  U8("action_taken"), U8("was_blocked"),
                  U32("threat_score"), Bytes("reason", 64)>>

Structure(s) == CASE s = "exec" -> EventExec
                  [] s = "net_conn" -> EventNetConn
                  [] s = "file_op" -> EventFileOp
                  [] s = "memory" -> MemoryEvent
                  [] s = "syscall" -> SyscallEvent

Length == [k \in Kind |-> SizeOf(LayoutOf(k))]     \* of the record sent
Expected == [s \in Kind |-> SizeOf(Structure(s))]  \* size_of of the structure
Unknown == "unknown"

\* What the callback of each loader takes a record of len bytes for.
SentinelTakes(len) ==
  IF len = Expected["exec"] THEN "exec"
  ELSE IF len = Expected["net_conn"] THEN "net_conn"
  ELSE IF len = Expected["file_op"] THEN "file_op"
  ELSE Unknown
MemoryTakes(len) == IF len >= Expected["memory"] THEN "memory" ELSE Unknown
SyscallTakes(len) == IF len < Expected["syscall"] THEN Unknown ELSE "syscall"

Takes(agent, k) ==
  IF agent = "memory_analyzer" THEN MemoryTakes(Length[k])
  ELSE IF agent = "syscall_modifier" THEN SyscallTakes(Length[k])
  ELSE SentinelTakes(Length[k])

\* Every field a loader reads of structure r is one a program wrote as c.
Agree(c, r) == \A k \in DOMAIN r : \E m \in DOMAIN c :
  c[m] = r[k] /\ Offset(c, m) = Offset(r, k)
ReadRight == {ks \in Kind \X Kind : Agree(LayoutOf(ks[1]), Structure(ks[2]))}
=============================================================================
