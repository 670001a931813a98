--------------------------- MODULE MCBatchPipeline ---------------------------
(* The instance of BatchPipeline for TLC: the behaviours in which the CPUs *)
(* run no program but fast_kmem_alloc and periodic_flush and take at most  *)
(* SharedClock events each, and those in which the CPU Lone takes all      *)
(* events, by any of the programs: two of them syscalls or migrations, and *)
(* a packet while it took no more than SharedClock.                        *)
EXTENDS BatchPipeline

CONSTANTS
  Lone,        \* a CPU that may take all events
  SharedClock  \* events each CPU takes when others do too

\* The sampling rate 2 takes process 0 and not process 1.
MCPid == {0, 1}

Shared == \A c \in CPU : /\ clock[c] <= SharedClock
                         /\ cache[c] = {} /\ reported[c][4] = 0 /\ packets[c] = 0
Solo == /\ \A c \in CPU \ {Lone} : clock[c] = 0 /\ packets[c] = 0
        /\ packets[Lone] > 0 => clock[Lone] <= SharedClock
        /\ reported[Lone][4] + reported[Lone][5] + reported[Lone][6] <= 2

\* Neither a handler on its way nor periodic_flush is ever held up by this.
MCNext == Next /\ (Shared \/ Solo)'
MCSpec == Init /\ [][MCNext]_vars /\ Fairness
=============================================================================
