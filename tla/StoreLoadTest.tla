---------------------------- MODULE StoreLoadTest -----------------------------
(***************************************************************************)
(* classic_reorder_test.c: two threads each store a flag and load the      *)
(* other's; the main thread resets the variables, starts both, waits for   *)
(* both and counts the rounds in which neither saw the other's store.      *)
(*                                                                         *)
(* A store goes to the buffer of its processor and reaches memory later,   *)
(* in any order among the variables: that is more than x86 allows and as   *)
(* much as ARM does.  A memory barrier and a semaphore operation wait      *)
(* until the buffer is empty.  The delays are what interleaving gives      *)
(* anyway; the timing benchmark has one thread and is left out.            *)
(***************************************************************************)
EXTENDS Integers

CONSTANTS
  Iterations,  \* rounds of a test
  FenceMode    \* "without", "with", or "both" tests, one after the other

ASSUME IterationsAssumption == Iterations \in Nat
ASSUME FenceModeAssumption == FenceMode \in {"without", "with", "both"}

\* How many tests main runs, and which of them use the fence.
NTests == IF FenceMode = "both" THEN 2 ELSE 1
WithFence(n) == FenceMode = "with" \/ n = 2

Thread == {1, 2}
Main == 0
Processor == {0, 1, 2}
Var == {"X", "Y", "r1", "r2"}
NoStore == -2
Stored == {-1, 0, 1}

Other(t) == 3 - t
Flag(t) == IF t = 1 THEN "X" ELSE "Y"
Result(t) == IF t = 1 THEN "r1" ELSE "r2"

VARIABLES
  mem,               \* variable -> its value in memory
  buffer,            \* processor -> variable -> the store under way, or NoStore
  beginSema,         \* thread -> the semaphore that starts it
  endSema,
  pc, i,             \* thread -> where it stands, its loop counter
  main, round,       \* where run_classic_test stands, its loop counter
  test,              \* which test runs
  use_fence, reorder_detected

semaphores == <<beginSema, endSema>>
threads == <<pc, i>>
judge == <<main, round, test, use_fence, reorder_detected>>
vars == <<mem, buffer, semaphores, threads, judge>>

Init ==
  /\ mem = [v \in Var |-> IF v \in {"X", "Y"} THEN 0 ELSE -1]
  /\ buffer = [p \in Processor |-> [v \in Var |-> NoStore]]
  /\ beginSema = [t \in Thread |-> 0] /\ endSema = 0
  /\ pc = [t \in Thread |-> "done"]
  /\ i = [t \in Thread |-> 0]
  /\ main = "setup" /\ round = 0 /\ test = 1
  /\ use_fence = FALSE /\ reorder_detected = 0

Drained(p) == buffer[p] = [v \in Var |-> NoStore]

\* A store leaves the buffer.
Drain(p, v) ==
  /\ buffer[p][v] # NoStore
  /\ mem' = [mem EXCEPT ![v] = buffer[p][v]]
  /\ buffer' = [buffer EXCEPT ![p][v] = NoStore]
  /\ UNCHANGED <<semaphores, threads, judge>>

-----------------------------------------------------------------------------
(* thread1_func and thread2_func.                                          *)

Goto(t, from, to) == pc[t] = from /\ pc' = [pc EXCEPT ![t] = to]

WaitBegin(t) ==
  /\ i[t] < Iterations
  /\ beginSema[t] > 0 /\ beginSema' = [beginSema EXCEPT ![t] = @ - 1]
  /\ Goto(t, "wait", "store")
  /\ UNCHANGED <<mem, buffer, endSema, i, judge>>

\* X = 1, or Y = 1.
StoreFlag(t) ==
  /\ Goto(t, "store", "fence")
  /\ buffer' = [buffer EXCEPT ![t][Flag(t)] = 1]
  /\ UNCHANGED <<mem, semaphores, i, judge>>

\* memory_barrier waits; compiler_barrier only keeps the program's order.
PassesMutant(t) == TRUE
Passes(t) == use_fence => Drained(t)

Fence(t) ==
  /\ Passes(t)
  /\ Goto(t, "fence", "load")
  /\ UNCHANGED <<mem, buffer, semaphores, i, judge>>

\* r1 = Y, or r2 = X.  The thread never stores what it loads.
LoadOther(t) ==
  /\ Goto(t, "load", "post")
  /\ buffer' = [buffer EXCEPT ![t][Result(t)] = mem[Flag(Other(t))]]
  /\ UNCHANGED <<mem, semaphores, i, judge>>

PostEnd(t) ==
  /\ Drained(t)
  /\ Goto(t, "post", "wait")
  /\ endSema' = endSema + 1
  /\ i' = [i EXCEPT ![t] = @ + 1]
  /\ UNCHANGED <<mem, buffer, beginSema, judge>>

\* The loop ends, or pthread_cancel ends the thread in its sem_wait.
Return(t) ==
  /\ i[t] = Iterations \/ main = "join"
  /\ Goto(t, "wait", "done")
  /\ UNCHANGED <<mem, buffer, semaphores, i, judge>>

ThreadStep(t) == \/ WaitBegin(t) \/ StoreFlag(t) \/ Fence(t) \/ LoadOther(t)
                 \/ PostEnd(t) \/ Return(t)

-----------------------------------------------------------------------------
(* run_classic_test.                                                       *)

Setup ==
  /\ main = "setup" /\ main' = "round" /\ round' = 0
  /\ use_fence' = WithFence(test) /\ reorder_detected' = 0
  /\ beginSema' = [t \in Thread |-> 0] /\ endSema' = 0
  /\ pc' = [t \in Thread |-> "wait"] /\ i' = [t \in Thread |-> 0]
  /\ UNCHANGED <<mem, buffer, test>>

\* X = 0; Y = 0; r1 = -1; r2 = -1
Reset ==
  /\ main = "round" /\ round < Iterations /\ main' = "post1"
  /\ buffer' = [buffer EXCEPT ![Main] =
                  [v \in Var |-> IF v \in {"X", "Y"} THEN 0 ELSE -1]]
  /\ UNCHANGED <<mem, semaphores, threads, round, test, use_fence,
                 reorder_detected>>

StartedByMutant(at) == 1
StartedBy(at) == IF at = "post1" THEN 1 ELSE 2

PostBegin ==
  /\ main \in {"post1", "post2"} /\ Drained(Main)
  /\ main' = IF main = "post1" THEN "post2" ELSE "wait1"
  /\ beginSema' = [beginSema EXCEPT ![StartedBy(main)] = @ + 1]
  /\ UNCHANGED <<mem, buffer, endSema, threads, round, test, use_fence,
                 reorder_detected>>

AfterWaitMutant(at) == "judge"
AfterWait(at) == IF at = "wait1" THEN "wait2" ELSE "judge"

WaitEnd ==
  /\ main \in {"wait1", "wait2"} /\ endSema > 0
  /\ main' = AfterWait(main)
  /\ endSema' = endSema - 1
  /\ UNCHANGED <<mem, buffer, beginSema, threads, round, test, use_fence,
                 reorder_detected>>

Reordered == mem["r1"] = 0 /\ mem["r2"] = 0

Judge ==
  /\ main = "judge" /\ main' = "round" /\ round' = round + 1
  /\ reorder_detected' = reorder_detected + (IF Reordered THEN 1 ELSE 0)
  /\ UNCHANGED <<mem, buffer, semaphores, threads, test, use_fence>>

Cancel ==
  /\ main = "round" /\ round = Iterations /\ main' = "join"
  /\ UNCHANGED <<mem, buffer, semaphores, threads, round, test, use_fence,
                 reorder_detected>>

\* Both threads have ended: the next test, or the end.
Join ==
  /\ main = "join" /\ \A t \in Thread : pc[t] = "done"
  /\ IF test < NTests THEN main' = "setup" /\ test' = test + 1
                          ELSE main' = "finished" /\ UNCHANGED test
  /\ UNCHANGED <<mem, buffer, semaphores, threads, round, use_fence,
                 reorder_detected>>

MainStep == Setup \/ Reset \/ PostBegin \/ WaitEnd \/ Judge \/ Cancel \/ Join

Next == \/ MainStep
        \/ \E t \in Thread : ThreadStep(t)
        \/ \E p \in Processor, v \in Var : Drain(p, v)

Spec == Init /\ [][Next]_vars

\* Each thread of the program runs on, and no store stays in a buffer.
FairSpec == /\ Spec /\ WF_vars(MainStep)
            /\ \A t \in Thread : WF_vars(ThreadStep(t))
            /\ \A p \in Processor, v \in Var : WF_vars(Drain(p, v))

-----------------------------------------------------------------------------
(* Properties.                                                             *)

\* Type correctness of the whole state; the semaphores never count beyond
\* what one round posts.
TypeOK ==
  /\ mem \in [Var -> Stored]
  /\ buffer \in [Processor -> [Var -> Stored \cup {NoStore}]]
  /\ beginSema \in [Thread -> {0, 1}] /\ endSema \in 0 .. 2
  /\ pc \in [Thread -> {"wait", "store", "fence", "load", "post", "done"}]
  /\ i \in [Thread -> 0 .. Iterations]
  /\ main \in {"setup", "round", "post1", "post2", "wait1", "wait2", "judge",
               "join", "finished"}
  /\ round \in 0 .. Iterations
  /\ test \in 1 .. NTests
  /\ use_fence \in BOOLEAN
  /\ reorder_detected \in 0 .. Iterations

\* "Memory fence should prevent all reordering!": a test with the fence
\* counts no round, though the one before it left its values behind.
FencePreventsReordering == use_fence => reorder_detected = 0

\* The judge reads the round it started: both results are in memory, no store
\* of the round is on its way, and neither thread is in the middle of it.
RoundsAreComplete == main = "judge" =>
  /\ mem["r1"] \in {0, 1} /\ mem["r2"] \in {0, 1}
  /\ \A p \in Processor : Drained(p)
  /\ \A t \in Thread : pc[t] \in {"wait", "done"} /\ i[t] = round + 1

\* pthread_cancel interrupts no round: when it is called, both threads have
\* made all their iterations.
NobodyCancelled == main = "join" => \A t \in Thread : i[t] = Iterations

\* Every test ends: no wait is for a post nobody makes.
Terminates == <>(main = "finished")
=============================================================================
