------------------------------ MODULE CacheTests ------------------------------
(***************************************************************************)
(* cache_pingpong_perf.c, extreme_cache_test.c and contention_test.c: each *)
(* program runs its tests one after the other, and each test is two        *)
(* threads that increment variables they do or do not share, in turns or   *)
(* at the same time.                                                       *)
(*                                                                         *)
(* An increment of a volatile variable is a load and a store.  A store     *)
(* waits in the buffer of the processor its thread is bound to and reaches *)
(* memory later, in any order among the variables; the thread itself reads *)
(* it at once.  Loads happen in program order, as on x86.  A barrier waits *)
(* until the buffer is empty.  A busy wait is one step, its last pass; the *)
(* measured times, the yields and the machine with a single processor, on  *)
(* which the programs end at once, are left out.                           *)
(***************************************************************************)
EXTENDS Integers, Sequences

CONSTANTS
  Rounds,   \* ITERATIONS, PING_PONG_ROUNDS, PINGPONG_ITERATIONS
  Programs  \* the programs looked at

ASSUME RoundsAssumption == Rounds \in Nat \ {0}
ASSUME ProgramsAssumption ==
  Programs \subseteq {"cache_pingpong_perf", "extreme_cache_test", "contention_test"}

Thread == {1, 2}
\* The fields of the shared structures; a test uses some of them.
Var == {"a", "b", "counter", "ready", "done", "flag",
        "v0", "v1", "v2", "v3", "v4", "v5", "v6", "v7"}
NoStore == -1

VARIABLES
  program,  \* the program that runs, chosen once
  n,        \* which of its tests
  main,     \* where run_test stands
  mem,      \* variable -> its value in memory
  buffer,   \* thread -> variable -> the store under way, or NoStore
  pc, i, j, \* thread -> where it stands, its loop counters
  reg       \* thread -> what it loaded

memory == <<mem, buffer>>
threads == <<pc, i, j, reg>>
vars == <<program, n, main, memory, threads>>

TestsOf(p) ==
  IF p = "cache_pingpong_perf" THEN <<"false_sharing", "pingpong", "padded">>
  ELSE IF p = "extreme_cache_test" THEN <<"extreme_false", "extreme_padded", "handoff">>
  ELSE <<"contention">>
test == TestsOf(program)[n]

\* The variables thread t increments in a round.
CellsMutant(t) ==
  IF test \in {"pingpong", "handoff", "contention"} THEN <<"counter">>
  ELSE IF test # "extreme_false" THEN IF t = 1 THEN <<"a">> ELSE <<"b">>
  ELSE IF t = 1 THEN <<"v0", "v1", "v2", "v3">> ELSE <<"v3", "v4", "v5", "v6">>
Cells(t) ==
  IF test \in {"pingpong", "handoff", "contention"} THEN <<"counter">>
  ELSE IF test # "extreme_false" THEN IF t = 1 THEN <<"a">> ELSE <<"b">>
  ELSE IF t = 1 THEN <<"v0", "v1", "v2", "v3">> ELSE <<"v4", "v5", "v6", "v7">>

\* Thread 1 first waits for a variable that thread 2 first sets.
Greets == test \in {"false_sharing", "padded", "pingpong"}
Greeting == IF test = "pingpong" THEN "ready" ELSE "b"

TakesTurns == test \in {"pingpong", "handoff"}
HasBarrier == test # "contention"

\* Where a thread goes on that has made m rounds.
LoopMutant(m) == IF m > Rounds THEN "leave" ELSE IF TakesTurns THEN "wait" ELSE "load"
Loop(m) == IF m = Rounds THEN "leave" ELSE IF TakesTurns THEN "wait" ELSE "load"

Zero == [v \in Var |-> 0]
Empty == [v \in Var |-> NoStore]

Init ==
  /\ program \in Programs /\ n = 1 /\ main = "create"
  /\ mem = Zero /\ buffer = [t \in Thread |-> Empty]
  /\ pc = [t \in Thread |-> "done"]
  /\ i = [t \in Thread |-> 0] /\ j = [t \in Thread |-> 1]
  /\ reg = [t \in Thread |-> 0]

-----------------------------------------------------------------------------
(* Memory as a thread sees it.                                             *)

Drained(t) == buffer[t] = Empty
Read(t, v) == IF buffer[t][v] # NoStore THEN buffer[t][v] ELSE mem[v]
Write(t, v, x) == buffer' = [buffer EXCEPT ![t][v] = x]

Drain(t, v) ==
  /\ buffer[t][v] # NoStore
  /\ mem' = [mem EXCEPT ![v] = buffer[t][v]]
  /\ buffer' = [buffer EXCEPT ![t][v] = NoStore]
  /\ UNCHANGED <<program, n, main, threads>>

-----------------------------------------------------------------------------
(* The threads.                                                            *)

Goto(t, from, to) == pc[t] = from /\ pc' = [pc EXCEPT ![t] = to]

\* while (!s->b) or while (!s->ready); s->b = 1 or s->ready = 1.
AwaitGreeting ==
  /\ Read(1, Greeting) # 0
  /\ Goto(1, "greet", Loop(0))
  /\ UNCHANGED <<program, n, main, memory, i, j, reg>>

Greet ==
  /\ Goto(2, "greet", Loop(0))
  /\ Write(2, Greeting, 1)
  /\ UNCHANGED <<program, n, main, mem, i, j, reg>>

\* Whose turn it is: the parity of the counter, or the flag.
Turn(t) == IF test = "pingpong" THEN Read(t, "counter") % 2 = t - 1
                                ELSE Read(t, "flag") = t - 1

\* The ping-pong's wait also ends when the other thread is done.
Wait(t) ==
  /\ Turn(t) \/ (test = "pingpong" /\ Read(t, "done") # 0)
  /\ Goto(t, "wait", IF test = "pingpong" THEN "check" ELSE "load")
  /\ UNCHANGED <<program, n, main, memory, i, j, reg>>

\* if (s->done) break
Check(t) ==
  /\ Goto(t, "check", IF Read(t, "done") # 0 THEN "leave" ELSE "load")
  /\ UNCHANGED <<program, n, main, memory, i, j, reg>>

Load(t) ==
  /\ Goto(t, "load", "store")
  /\ reg' = [reg EXCEPT ![t] = Read(t, Cells(t)[j[t]])]
  /\ UNCHANGED <<program, n, main, memory, i, j>>

NextRound(t) == i' = [i EXCEPT ![t] = @ + 1] /\ j' = [j EXCEPT ![t] = 1]

Store(t) ==
  /\ Write(t, Cells(t)[j[t]], reg[t] + 1)
  /\ IF j[t] < Len(Cells(t))
       THEN /\ Goto(t, "store", "load")
            /\ j' = [j EXCEPT ![t] = @ + 1] /\ UNCHANGED i
     ELSE IF HasBarrier THEN Goto(t, "store", "barrier") /\ UNCHANGED <<i, j>>
     ELSE Goto(t, "store", Loop(i[t] + 1)) /\ NextRound(t)
  /\ reg' = [reg EXCEPT ![t] = 0]
  /\ UNCHANGED <<program, n, main, mem>>

PassesMutant(t) == TRUE
Passes(t) == Drained(t)

\* __sync_synchronize
Barrier(t) ==
  /\ Passes(t)
  /\ IF test = "handoff" THEN Goto(t, "barrier", "signal") /\ UNCHANGED <<i, j>>
     ELSE Goto(t, "barrier", Loop(i[t] + 1)) /\ NextRound(t)
  /\ UNCHANGED <<program, n, main, memory, reg>>

\* s->flag = 1 by the producer, 0 by the consumer.
SignalledMutant(t) == t - 1
Signalled(t) == 2 - t

Signal(t) ==
  /\ Goto(t, "signal", Loop(i[t] + 1)) /\ NextRound(t)
  /\ Write(t, "flag", Signalled(t))
  /\ UNCHANGED <<program, n, main, mem, reg>>

\* The ping-pong's s->done = 1, and the return.
Leave(t) ==
  /\ Goto(t, "leave", "done")
  /\ IF test = "pingpong" THEN Write(t, "done", 1) ELSE UNCHANGED buffer
  /\ UNCHANGED <<program, n, main, mem, i, j, reg>>

Step(t) == \/ (t = 1 /\ AwaitGreeting) \/ (t = 2 /\ Greet)
           \/ Wait(t) \/ Check(t) \/ Load(t) \/ Store(t) \/ Barrier(t)
           \/ Signal(t) \/ Leave(t)

-----------------------------------------------------------------------------
(* main and run_test.                                                      *)

\* The structure of the test is all zero; both threads are created.
Create ==
  /\ main = "create" /\ main' = "join"
  /\ pc' = [t \in Thread |-> IF Greets THEN "greet" ELSE Loop(0)]
  /\ UNCHANGED <<program, n, memory, i, j, reg>>

Returned == \A t \in Thread : pc[t] = "done" /\ Drained(t)

\* Both threads are joined, and the next test has a structure of its own.
Join ==
  /\ main = "join" /\ Returned
  /\ IF n < Len(TestsOf(program))
       THEN /\ main' = "create" /\ n' = n + 1 /\ mem' = Zero
            /\ i' = [t \in Thread |-> 0]
       ELSE main' = "finished" /\ UNCHANGED <<n, mem, i>>
  /\ UNCHANGED <<program, buffer, pc, j, reg>>

Next == \/ Create \/ Join
        \/ \E t \in Thread : Step(t)
        \/ \E t \in Thread, v \in Var : Drain(t, v)

Spec == Init /\ [][Next]_vars

\* The scheduler runs every thread, and no store stays in a buffer.
FairSpec == /\ Spec /\ WF_vars(Create) /\ WF_vars(Join)
            /\ \A t \in Thread : WF_vars(Step(t))
            /\ \A t \in Thread, v \in Var : WF_vars(Drain(t, v))

-----------------------------------------------------------------------------
(* Properties.                                                             *)

\* Type correctness of the whole state.
TypeOK ==
  /\ program \in Programs /\ n \in 1 .. Len(TestsOf(program))
  /\ main \in {"create", "join", "finished"}
  /\ mem \in [Var -> Nat] /\ buffer \in [Thread -> [Var -> Nat \cup {NoStore}]]
  /\ pc \in [Thread -> {"greet", "wait", "check", "load", "store", "barrier",
                        "signal", "leave", "done"}]
  /\ i \in [Thread -> 0 .. Rounds]
  /\ j \in [Thread -> 1 .. 4] /\ \A t \in Thread : j[t] <= Len(Cells(t))
  /\ reg \in [Thread -> Nat]

\* "Two threads alternate modifying the same variable" and "Producer-consumer
\* pattern": in both ping-pong tests the counter in memory is a game of turns,
\* in which no increment is lost, none is made out of turn, and no thread
\* plays more than its rounds.
Playing == TakesTurns /\ main # "create"
Counted(t) == \/ pc[t] = "signal"
              \/ pc[t] = "barrier" /\ buffer[t]["counter"] = NoStore
Moved(t) == i[t] + (IF Counted(t) THEN 1 ELSE 0)
Game == INSTANCE TurnGame WITH
          score <- IF Playing THEN mem["counter"] ELSE 0,
          moves <- [t \in Thread |-> IF Playing THEN Moved(t) ELSE 0]
ImplementsTurns == Game!Spec

\* What a test leaves in memory once both threads are joined.  Threads that
\* write different variables lose nothing, whether or not these share a cache
\* line; in the false-sharing tests b also counts the greeting.  The ping-pong
\* may end one short of its rounds, because thread 1 sets done while thread 2
\* may not have tested it yet.  Without turns increments get lost, all of the
\* shared ones but two at worst.
Expected(v) ==
  IF test \in {"false_sharing", "padded"} THEN
       {IF v = "a" THEN Rounds ELSE IF v = "b" THEN Rounds + 1 ELSE 0}
  ELSE IF test = "extreme_padded" THEN {IF v \in {"a", "b"} THEN Rounds ELSE 0}
  ELSE IF test = "extreme_false" THEN
       {IF v \in {"a", "b", "counter", "ready", "done", "flag"} THEN 0 ELSE Rounds}
  ELSE IF test = "pingpong" THEN
       IF v = "counter" THEN {2 * Rounds - 1, 2 * Rounds}
       ELSE {IF v \in {"ready", "done"} THEN 1 ELSE 0}
  ELSE IF test = "handoff" THEN {IF v = "counter" THEN 2 * Rounds ELSE 0}
  ELSE IF v = "counter" THEN (IF Rounds = 1 THEN 1 ELSE 2) .. 2 * Rounds ELSE {0}
FinalCounts == main = "join" /\ Returned => \A v \in Var : mem[v] \in Expected(v)

\* Every program comes to its end: no thread waits for a turn, a flag or a
\* greeting that never comes, even when the other has left.
Terminates == <>(main = "finished")
=============================================================================
