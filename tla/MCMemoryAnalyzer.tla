--------------------------- MODULE MCMemoryAnalyzer ---------------------------
(***************************************************************************)
(* The instance of MemoryAnalyzer for TLC.  Each behaviour is of one kind: *)
(*   "one"    one thread of one program, with every call, size and fault;  *)
(*   "two"    two threads of one program, which allocate and free;         *)
(*   "apart"  two programs of one thread each, with every call;            *)
(*   "crowd"  two threads of one program and one of another, which map     *)
(*            and exit, or allocate, free and exit with a call less.       *)
(* A kind keeps calls from being made: what was called goes on.            *)
(***************************************************************************)
EXTENDS MemoryAnalyzer

CONSTANT Lone  \* a process

VARIABLE kind

Only(ops) == \A t \in Thread : call[t].op \in ops \cup {None}
Silent(threads) == \A t \in threads : call[t] = NoCall
Small == /\ \A t \in Thread : call[t].size <= 1
         /\ stats[10] = 0
         /\ \A n \in DOMAIN memory_events : memory_events[n].kind # "PAGE_FAULT"

Others == {t \in Thread : Pid(t) # Lone}
Second == {t \in Thread : t[2] # 1}

Allowed ==
  \/ /\ kind = "one" /\ Silent(Others \cup Second) /\ calls < MaxCalls
     /\ \A n \in DOMAIN memory_events : memory_events[n].pid = Lone
  \/ kind = "two" /\ Silent(Others) /\ Only({"malloc", "free"}) /\ Small
  \/ kind = "apart" /\ Silent(Second) /\ Small
  \/ /\ kind = "crowd" /\ Silent(Others \cap Second) /\ Small
     /\ \/ Only({"mmap", "exit"}) /\ stats[7] = 0
        \/ Only({"malloc", "free", "exit"}) /\ calls < MaxCalls

MCInit == Init /\ kind \in {"one", "two", "apart", "crowd"}
MCNext == Next /\ UNCHANGED kind /\ Allowed'
MCSpec == MCInit /\ [][MCNext]_<<vars, kind>>
=============================================================================
