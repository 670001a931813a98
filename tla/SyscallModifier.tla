---------------------------- MODULE SyscallModifier ---------------------------
(***************************************************************************)
(* The four programs of syscall_modifier.bpf.c: what each makes of the     *)
(* arguments it is given.  A path is told by what it begins with, a mode   *)
(* by its two set-id bits.                                                 *)
(***************************************************************************)
EXTENDS Integers

CONSTANTS
  Path,  \* the beginnings of paths
  Uid    \* users, 0 for root

Sensitive == {"/etc/passwd", "/etc/shadow", "/etc/sudoers", "/root/"}
ASSUME PathAssumption == Path \subseteq Sensitive \cup {"/tmp/", "/home/"}
\* What a hook has read of a path: what the read leaves when it fails is empty.
Unread == ""
Fname == Path \cup {Unread}
ASSUME UidAssumption == Uid \subseteq Nat
Mode == SUBSET {"04000", "02000"}

\* What a record says, as log_event fills it: action_taken, was_blocked and
\* threat_score.  The system call's number, the names and the copied texts are
\* left out.
log_event(act, blk, score) == [act |-> act, blk |-> blk, score |-> score]

is_sensitive_path(p) == p \in Sensitive

calc_threat_score(p, uid) == (IF is_sensitive_path(p) THEN 50 ELSE 0)
                             + (IF uid = 0 THEN 20 ELSE 0)
                             + (IF p = "/tmp/" THEN 15 ELSE 0)

\* What the programs log: a set of one record, or of none.
tp_openat(p, uid) == {log_event(3, 0, calc_threat_score(p, uid))}
tp_execve(p, uid) == {log_event(3, 0, calc_threat_score(p, uid))}
tp_unlink(p) == IF is_sensitive_path(p) THEN {log_event(1, 1, 90)} ELSE {}
tp_chmod(mode) == IF "04000" \in mode \/ "02000" \in mode
                    THEN {log_event(3, 0, 60)} ELSE {}
=============================================================================
