------------------------- MODULE StoreLoadTest_proofs --------------------------
(***************************************************************************)
(* Proofs about StoreLoadTest, for any number of rounds and every choice   *)
(* of tests.  The inductive invariant says how far each thread is in the   *)
(* main thread's round (Control), what its stores of the round are, in its *)
(* buffer or in memory (Stores), and what the fence adds (Fenced).         *)
(***************************************************************************)
EXTENDS StoreLoadTest, TLAPS

Ended(t) == i[t] = round + 1
Busy(t) == pc[t] \in {"store", "fence", "load", "post"}
Loaded(t) == pc[t] = "post" \/ Ended(t)
Going == main \in {"post2", "wait1", "wait2", "judge"}

\* What t stored last in v, in memory or on its way.
Latest(t, v) == IF buffer[t][v] = NoStore THEN mem[v] ELSE buffer[t][v]

\* A thread that waits is at the start of the round, posted or not, or at its
\* end; one that works has taken the post.
InRound(t) ==
  /\ i[t] \in {round, round + 1}
  /\ pc[t] = "done" => i[t] = Iterations
  /\ Busy(t) => i[t] = round /\ beginSema[t] = 0
  /\ Ended(t) => pc[t] \in {"wait", "done"} /\ beginSema[t] = 0

NotStarted(t) == pc[t] = "wait" /\ i[t] = round /\ beginSema[t] = 0
Started(t) == Ended(t) \/ Busy(t) \/ beginSema[t] = 1

Finished(t) == IF Ended(t) THEN 1 ELSE 0

Idle(n) == \A t \in Thread :
  /\ pc[t] \in {"wait", "done"} /\ i[t] = n /\ beginSema[t] = 0
  /\ main = "round" /\ pc[t] = "done" => n = Iterations

Control ==
  /\ main \in {"setup", "finished"} => \A t \in Thread : pc[t] = "done"
  /\ main = "round" => Idle(round) /\ endSema = 0
  /\ main = "join" => Idle(Iterations) /\ round = Iterations
  /\ main = "post1" => (\A t \in Thread : NotStarted(t)) /\ endSema = 0
  /\ Going => (\A t \in Thread : InRound(t)) /\ Started(1)
  /\ main = "post2" => NotStarted(2) /\ endSema = Finished(1)
  /\ main \in {"wait1", "wait2", "judge"} => Started(2)
  /\ main = "wait1" => endSema = Finished(1) + Finished(2)
  /\ main = "wait2" => endSema + 1 = Finished(1) + Finished(2)
  /\ main = "judge" => Ended(1) /\ Ended(2) /\ endSema = 0
  /\ main \in {"post1", "post2", "wait1", "wait2", "judge"} => round < Iterations

Buffers ==
  /\ main # "post1" => Drained(Main)
  /\ \A t \in Thread : ~Busy(t) \/ pc[t] = "store" => Drained(t)
  /\ \A t \in Thread, v \in Var :
       buffer[t][v] # NoStore => v = Flag(t) \/ (v = Result(t) /\ pc[t] = "post")

Stores ==
  /\ mem["X"] \in {0, 1} /\ mem["Y"] \in {0, 1}
  /\ main = "post1" => \A v \in Var :
       Latest(Main, v) = IF v \in {"X", "Y"} THEN 0 ELSE -1
  /\ Going => \A t \in Thread :
       /\ Latest(t, Flag(t)) = IF Ended(t) \/ pc[t] \in {"fence", "load", "post"}
                                 THEN 1 ELSE 0
       /\ Latest(t, Result(t)) \in IF Loaded(t) THEN {0, 1} ELSE {-1}

FencedThread(t) ==
  /\ Loaded(t) \/ pc[t] = "load" => mem[Flag(t)] = 1
  /\ Loaded(t) /\ Loaded(Other(t)) =>
       Latest(t, Result(t)) = 1 \/ Latest(Other(t), Result(Other(t))) = 1

Fenced == use_fence =>
  /\ reorder_detected = 0
  /\ Going => \A t \in Thread : FencedThread(t)

Counts == reorder_detected <= round

IInv == TypeOK /\ Control /\ Buffers /\ Stores /\ Fenced /\ Counts

-----------------------------------------------------------------------------
(* The invariant is inductive.                                             *)

USE IterationsAssumption, FenceModeAssumption
USE DEF NTests, Thread, Main, Processor, Var, NoStore, Stored, Other, Flag, Result, Goto

LEMMA Initially == Init => IInv
<1> SUFFICES ASSUME Init PROVE IInv
  OBVIOUS
<1> USE DEF Init
<1>1. TypeOK
  <2>1. mem \in [Var -> Stored] /\ beginSema \in [Thread -> {0, 1}] OBVIOUS
  <2>2. buffer \in [Processor -> [Var -> Stored \cup {NoStore}]] OBVIOUS
  <2>3. pc \in [Thread -> {"wait", "store", "fence", "load", "post", "done"}]
        /\ i \in [Thread -> 0 .. Iterations] OBVIOUS
  <2>4. test \in 1 .. NTests /\ round \in 0 .. Iterations
        /\ reorder_detected \in 0 .. Iterations OBVIOUS
  <2>5. main = "setup" /\ endSema \in 0 .. 2 OBVIOUS
  <2>6. use_fence \in BOOLEAN OBVIOUS
  <2> QED BY <2>1, <2>2, <2>3, <2>4, <2>5, <2>6 DEF TypeOK
<1>2. Control BY DEF Control, Going
<1>3. Buffers BY DEF Buffers, Drained
<1>4. Stores BY DEF Stores, Going
<1>5. Fenced BY DEF Fenced
<1>6. Counts BY DEF Counts
<1> QED BY <1>1, <1>2, <1>3, <1>4, <1>5, <1>6 DEF IInv

LEMMA SetupKeeps == ASSUME IInv, Setup PROVE IInv'
<1> USE DEF Setup, WithFence, vars, semaphores, threads, judge
<1>1. TypeOK' BY DEF IInv, TypeOK
<1>2. Control' BY DEF Control, Idle, Going
<1>3. Buffers' BY DEF IInv, Control, Buffers, Drained, Busy
<1>4. Stores' BY DEF IInv, Stores, Going
<1>5. Fenced' BY DEF Fenced, Going
<1>6. Counts' BY DEF Counts
<1> QED BY <1>1, <1>2, <1>3, <1>4, <1>5, <1>6 DEF IInv

LEMMA ResetKeeps == ASSUME IInv, Reset PROVE IInv'
<1> USE DEF Reset, vars, semaphores, threads, judge
<1>1. TypeOK' BY DEF IInv, TypeOK
<1>2. Control' BY DEF IInv, Control, Idle, NotStarted, Going
<1>3. Buffers' BY DEF IInv, Buffers, Drained, Busy
<1>4. Stores' BY DEF IInv, TypeOK, Stores, Going, Latest
<1>5. Fenced' BY DEF IInv, Fenced, Going
<1>6. Counts' BY DEF IInv, Counts
<1> QED BY <1>1, <1>2, <1>3, <1>4, <1>5, <1>6 DEF IInv

LEMMA PostBeginKeeps == ASSUME IInv, PostBegin PROVE IInv'
<1> USE DEF PostBegin, StartedBy, vars, semaphores, threads, judge
<1>1. TypeOK' BY DEF IInv, TypeOK, Control, NotStarted
<1>2. Control'
  BY DEF IInv, TypeOK, Control, InRound, NotStarted, Started, Finished, Ended,
     Busy, Going
<1>3. Buffers' BY DEF IInv, Buffers, Drained, Busy
<1>4. Stores'
  BY DEF IInv, TypeOK, Control, Buffers, Stores, Drained, NotStarted, Ended,
     Busy, Going, Latest, Loaded
<1>5. Fenced'
  BY DEF IInv, TypeOK, Control, Fenced, NotStarted, Ended, Going, Loaded,
     FencedThread
<1>6. Counts' BY DEF IInv, Counts
<1> QED BY <1>1, <1>2, <1>3, <1>4, <1>5, <1>6 DEF IInv

LEMMA WaitEndKeeps == ASSUME IInv, WaitEnd PROVE IInv'
<1> USE DEF WaitEnd, AfterWait, vars, semaphores, threads, judge
<1>1. TypeOK' BY DEF IInv, TypeOK
<1>2. Control'
  BY DEF IInv, TypeOK, Control, InRound, Started, Finished, Ended, Busy, Going
<1>3. Buffers' BY DEF IInv, Buffers, Drained, Busy
<1>4. Stores' BY DEF IInv, Stores, Ended, Going, Latest, Loaded
<1>5. Fenced' BY DEF IInv, Fenced, Ended, Going, Latest, Loaded, FencedThread
<1>6. Counts' BY DEF IInv, Counts
<1> QED BY <1>1, <1>2, <1>3, <1>4, <1>5, <1>6 DEF IInv

LEMMA JudgeKeeps == ASSUME IInv, Judge PROVE IInv'
<1> USE DEF Judge, Reordered, vars, semaphores, threads, judge
<1>1. TypeOK' BY DEF IInv, TypeOK, Control, Counts
<1>2. Control' BY DEF IInv, Control, Idle, InRound, Ended, Going
<1>3. Buffers' BY DEF IInv, Buffers, Drained, Busy
<1>4. Stores' BY DEF IInv, Stores, Going
<1>5. Fenced'
  BY DEF IInv, Control, Buffers, Fenced, InRound, Going, Latest, Loaded,
     FencedThread
<1>6. Counts' BY DEF IInv, TypeOK, Counts
<1> QED BY <1>1, <1>2, <1>3, <1>4, <1>5, <1>6 DEF IInv

LEMMA CancelKeeps == ASSUME IInv, Cancel PROVE IInv'
<1> USE DEF Cancel, vars, semaphores, threads, judge
<1>1. TypeOK' BY DEF IInv, TypeOK
<1>2. Control' BY DEF IInv, Control, Idle, Going
<1>3. Buffers' BY DEF IInv, Buffers, Drained, Busy
<1>4. Stores' BY DEF IInv, Stores, Going
<1>5. Fenced' BY DEF IInv, Fenced, Going
<1>6. Counts' BY DEF IInv, Counts
<1> QED BY <1>1, <1>2, <1>3, <1>4, <1>5, <1>6 DEF IInv

LEMMA JoinKeeps == ASSUME IInv, Join PROVE IInv'
<1> USE DEF Join, vars, semaphores, threads, judge
<1>1. TypeOK' BY DEF IInv, TypeOK
<1>2. Control' BY DEF Control, Going
<1>3. Buffers' BY DEF IInv, Buffers, Drained, Busy
<1>4. Stores' BY DEF IInv, Stores, Ended, Going, Latest, Loaded
<1>5. Fenced' BY DEF IInv, Fenced, Ended, Going, Latest, Loaded, FencedThread
<1>6. Counts' BY DEF IInv, Counts
<1> QED BY <1>1, <1>2, <1>3, <1>4, <1>5, <1>6 DEF IInv

LEMMA WaitBeginKeeps == ASSUME IInv, NEW t \in Thread, WaitBegin(t) PROVE IInv'
<1> USE DEF WaitBegin, vars, semaphores, threads, judge
<1>1. TypeOK' BY DEF IInv, TypeOK
<1>2. Control'
  BY DEF IInv, TypeOK, Control, Idle, InRound, NotStarted, Started, Finished,
     Ended, Busy, Going
<1>3. Buffers' BY DEF IInv, Buffers, Drained, Busy
<1>4. Stores' BY DEF IInv, Stores, Ended, Going, Latest, Loaded
<1>5. Fenced' BY DEF IInv, Fenced, Ended, Going, Latest, Loaded, FencedThread
<1>6. Counts' BY DEF IInv, Counts
<1> QED BY <1>1, <1>2, <1>3, <1>4, <1>5, <1>6 DEF IInv

LEMMA StoreFlagKeeps == ASSUME IInv, NEW t \in Thread, StoreFlag(t) PROVE IInv'
<1> USE DEF StoreFlag, vars, semaphores, threads, judge
<1>1. TypeOK' BY DEF IInv, TypeOK
<1>2. Control'
  BY DEF IInv, TypeOK, Control, Idle, InRound, NotStarted, Started, Finished,
     Ended, Busy, Going
<1>3. Buffers'
  BY DEF IInv, TypeOK, Control, Buffers, Drained, Idle, InRound, NotStarted,
     Busy
<1>4. Stores'
  BY DEF IInv, TypeOK, Control, Buffers, Stores, Drained, NotStarted, Ended,
     Busy, Going, Latest, Loaded
<1>5. Fenced' BY DEF IInv, Fenced, Ended, Going, Latest, Loaded, FencedThread
<1>6. Counts' BY DEF IInv, Counts
<1> QED BY <1>1, <1>2, <1>3, <1>4, <1>5, <1>6 DEF IInv

LEMMA FenceKeeps == ASSUME IInv, NEW t \in Thread, Fence(t) PROVE IInv'
<1> USE DEF Fence, Passes, Drained, vars, semaphores, threads, judge
<1>1. TypeOK' BY DEF IInv, TypeOK
<1>2. Control'
  BY DEF IInv, TypeOK, Control, Idle, InRound, NotStarted, Started, Finished,
     Ended, Busy, Going
<1>3. Buffers' BY DEF IInv, Buffers, Drained, Busy
<1>4. Stores' BY DEF IInv, Stores, Ended, Going, Latest, Loaded
<1>5. Fenced'
  BY DEF IInv, TypeOK, Control, Buffers, Stores, Fenced, Counts, Drained, Idle,
     InRound, NotStarted, Started, Finished, Ended, Busy, Going, Latest,
     Loaded, FencedThread
<1>6. Counts' BY DEF IInv, Counts
<1> QED BY <1>1, <1>2, <1>3, <1>4, <1>5, <1>6 DEF IInv

LEMMA LoadOtherKeeps == ASSUME IInv, NEW t \in Thread, LoadOther(t) PROVE IInv'
<1> USE DEF LoadOther, vars, semaphores, threads, judge
<1>1. TypeOK' BY DEF IInv, TypeOK
<1>2. Control'
  BY DEF IInv, TypeOK, Control, Idle, InRound, NotStarted, Started, Finished,
     Ended, Busy, Going
<1>3. Buffers'
  BY DEF IInv, TypeOK, Control, Buffers, Drained, Idle, InRound, NotStarted,
     Busy
<1>4. Stores'
  <2>1. main # "post1" /\ main' = main
    BY DEF IInv, Control, NotStarted
  <2> SUFFICES ASSUME Going, NEW u \in Thread
               PROVE /\ (Latest(u, Flag(u)) = IF Ended(u) \/ pc[u] \in {"fence", "load", "post"}
                                                THEN 1 ELSE 0)'
                     /\ (Latest(u, Result(u)) \in IF Loaded(u) THEN {0, 1} ELSE {-1})'
    BY <2>1 DEF IInv, Stores, Going
  <2>2. CASE u = t
   
      BY <2>2 DEF IInv, TypeOK, Control, Buffers, Stores, Drained, InRound,
         Ended, Busy, Going, Latest, Loaded
  <2>3. CASE u # t
   
      BY <2>3 DEF IInv, TypeOK, Control, Buffers, Stores, Drained, InRound,
         Ended, Busy, Going, Latest, Loaded
  <2> QED BY <2>2, <2>3
<1>5. Fenced'
  BY DEF IInv, TypeOK, Control, Buffers, Stores, Fenced, Counts, Drained, Idle,
     InRound, NotStarted, Started, Finished, Ended, Busy, Going, Latest,
     Loaded, FencedThread
<1>6. Counts' BY DEF IInv, Counts
<1> QED BY <1>1, <1>2, <1>3, <1>4, <1>5, <1>6 DEF IInv

LEMMA PostEndKeeps == ASSUME IInv, NEW t \in Thread, PostEnd(t) PROVE IInv'
<1> USE DEF PostEnd, Drained, vars, semaphores, threads, judge
<1>1. TypeOK'
  BY DEF IInv, TypeOK, Control, Buffers, Stores, Fenced, Counts, Drained, Idle,
     InRound, NotStarted, Started, Finished, Ended, Busy, Going, Latest,
     Loaded, FencedThread
<1>2. Control'
  BY DEF IInv, TypeOK, Control, Idle, InRound, NotStarted, Started, Finished,
     Ended, Busy, Going
<1>3. Buffers' BY DEF IInv, Buffers, Drained, Busy
<1>4. Stores'
  BY DEF IInv, TypeOK, Control, Buffers, Stores, Fenced, Counts, Drained, Idle,
     InRound, NotStarted, Started, Finished, Ended, Busy, Going, Latest,
     Loaded, FencedThread
<1>5. Fenced' BY DEF IInv, Fenced, Ended, Going, Latest, Loaded, FencedThread
<1>6. Counts' BY DEF IInv, Counts
<1> QED BY <1>1, <1>2, <1>3, <1>4, <1>5, <1>6 DEF IInv

LEMMA ReturnKeeps == ASSUME IInv, NEW t \in Thread, Return(t) PROVE IInv'
<1> USE DEF Return, vars, semaphores, threads, judge
<1>1. TypeOK' BY DEF IInv, TypeOK
<1>2. Control'
  BY DEF IInv, TypeOK, Control, Idle, InRound, NotStarted, Started, Finished,
     Ended, Busy, Going
<1>3. Buffers' BY DEF IInv, Buffers, Drained, Busy
<1>4. Stores' BY DEF IInv, Stores, Ended, Going, Latest, Loaded
<1>5. Fenced' BY DEF IInv, Fenced, Ended, Going, Latest, Loaded, FencedThread
<1>6. Counts' BY DEF IInv, Counts
<1> QED BY <1>1, <1>2, <1>3, <1>4, <1>5, <1>6 DEF IInv

LEMMA DrainKeeps == ASSUME IInv, NEW p \in Processor, NEW v \in Var, Drain(p, v) PROVE IInv'
<1> USE DEF Drain, vars, semaphores, threads, judge
<1>1. TypeOK' BY DEF IInv, TypeOK
<1>2. Control'
  BY DEF IInv, TypeOK, Control, Idle, InRound, NotStarted, Started, Finished,
     Ended, Busy, Going
<1>3. Buffers' BY DEF IInv, Buffers, Drained, Busy
<1>4. Stores'
  BY DEF IInv, TypeOK, Control, Buffers, Stores, Fenced, Counts, Drained, Idle,
     InRound, NotStarted, Started, Finished, Ended, Busy, Going, Latest,
     Loaded, FencedThread
<1>5. Fenced'
  BY DEF IInv, TypeOK, Control, Buffers, Stores, Fenced, Counts, Drained, Idle,
     InRound, NotStarted, Started, Finished, Ended, Busy, Going, Latest,
     Loaded, FencedThread
<1>6. Counts' BY DEF IInv, Counts
<1> QED BY <1>1, <1>2, <1>3, <1>4, <1>5, <1>6 DEF IInv

LEMMA Unchanged == IInv /\ UNCHANGED vars => IInv'
BY DEF IInv, vars, semaphores, threads, judge, TypeOK, Control, Buffers, Stores,
  Fenced, FencedThread, Counts, Drained, Idle, InRound, NotStarted, Started,
  Finished, Ended, Busy, Going, Latest, Loaded

LEMMA Inductive == IInv /\ [Next]_vars => IInv'
<1> SUFFICES ASSUME IInv, Next PROVE IInv'
  BY Unchanged
<1>1. CASE MainStep
  BY <1>1, SetupKeeps, ResetKeeps, PostBeginKeeps, WaitEndKeeps, JudgeKeeps,
     CancelKeeps, JoinKeeps DEF MainStep
<1>2. ASSUME NEW t \in Thread, ThreadStep(t) PROVE IInv'
  BY <1>2, WaitBeginKeeps, StoreFlagKeeps, FenceKeeps, LoadOtherKeeps,
     PostEndKeeps, ReturnKeeps DEF ThreadStep
<1>3. ASSUME NEW p \in Processor, NEW v \in Var, Drain(p, v) PROVE IInv'
  BY <1>3, DrainKeeps
<1> QED BY <1>1, <1>2, <1>3 DEF Next

LEMMA Invariance == Spec => []IInv
BY Initially, Inductive, PTL DEF Spec

-----------------------------------------------------------------------------
(* What follows for every behaviour.                                       *)

\* The state is well typed, and no semaphore counts beyond one round's posts.
THEOREM TypeCorrect == Spec => []TypeOK
<1>1. IInv => TypeOK BY DEF IInv
<1> QED BY <1>1, Invariance, PTL

\* With the fence no round is counted, for any number of rounds: a thread that
\* read 0 had its own store in memory before the other thread read it.
THEOREM FenceWorks == Spec => []FencePreventsReordering
<1>1. IInv => FencePreventsReordering
  BY DEF IInv, Fenced, FencePreventsReordering
<1> QED BY <1>1, Invariance, PTL

\* The judge reads two results of the round it started, complete in memory.
THEOREM JudgeSeesWholeRound == Spec => []RoundsAreComplete
<1>1. IInv => RoundsAreComplete
  <2> SUFFICES ASSUME IInv, main = "judge"
               PROVE /\ mem["r1"] \in {0, 1} /\ mem["r2"] \in {0, 1}
                     /\ \A p \in Processor : Drained(p)
                     /\ \A t \in Thread : pc[t] \in {"wait", "done"} /\ i[t] = round + 1
    BY DEF RoundsAreComplete
  <2>1. \A t \in Thread : Ended(t) /\ pc[t] \in {"wait", "done"}
    BY DEF IInv, Control, Going, InRound
  <2>2. \A p \in Processor : Drained(p)
    BY <2>1 DEF IInv, Buffers, Busy
  <2>3. \A t \in Thread : Latest(t, Result(t)) \in {0, 1}
    BY <2>1 DEF IInv, Stores, Going, Loaded
  <2> QED BY <2>1, <2>2, <2>3 DEF Latest, Drained, Ended
<1> QED BY <1>1, Invariance, PTL

\* When the threads are cancelled they have made all their iterations.
THEOREM NothingCancelled == Spec => []NobodyCancelled
<1>1. IInv => NobodyCancelled
  BY DEF IInv, Control, Idle, NobodyCancelled
<1> QED BY <1>1, Invariance, PTL

-----------------------------------------------------------------------------
(* Nobody waits for a post that nobody will make.  What the main thread, a *)
(* thread and a buffer wait for is written out; it is what the guards of   *)
(* their steps ask.                                                        *)

MainCanGo ==
  \/ main \in {"setup", "judge"}
  \/ main = "round" /\ round \in 0 .. Iterations
  \/ main \in {"post1", "post2"} /\ Drained(Main)
  \/ main \in {"wait1", "wait2"} /\ endSema > 0
  \/ main = "join" /\ \A t \in Thread : pc[t] = "done"

ThreadCanGo(t) ==
  \/ pc[t] \in {"store", "load"}
  \/ pc[t] = "fence" /\ Passes(t)
  \/ pc[t] = "post" /\ Drained(t)
  \/ pc[t] = "wait" /\ i[t] < Iterations /\ beginSema[t] > 0
  \/ pc[t] = "wait" /\ (i[t] = Iterations \/ main = "join")

BufferCanGo(p) == \E v \in Var : buffer[p][v] # NoStore

NoStandstill == main = "finished" \/ MainCanGo
                \/ (\E t \in Thread : ThreadCanGo(t))
                \/ \E p \in Processor : BufferCanGo(p)

LEMMA FullOrDrained ==
  ASSUME TypeOK, NEW p \in Processor PROVE Drained(p) \/ BufferCanGo(p)
<1>1. buffer[p] \in [Var -> Stored \cup {NoStore}] BY DEF TypeOK
<1> QED BY <1>1 DEF Drained, BufferCanGo

\* A thread that has taken the post, or can take it, goes on, or its buffer does.
LEMMA StartedGoes ==
  ASSUME IInv, Going, main # "judge", NEW t \in Thread, Started(t), ~Ended(t)
  PROVE ThreadCanGo(t) \/ BufferCanGo(t)
<1>1. Drained(t) \/ BufferCanGo(t)
  BY FullOrDrained DEF IInv
<1>2. CASE Busy(t)
  BY <1>1, <1>2 DEF Busy, ThreadCanGo, Passes
<1>3. CASE ~Busy(t)
  <2>1. i[t] = round /\ round < Iterations /\ beginSema[t] = 1
    BY <1>3 DEF IInv, Control, Going, InRound, Started, Ended
  <2>2. pc[t] = "wait"
    BY <1>3, <2>1 DEF IInv, TypeOK, Control, Going, InRound, Busy
  <2> QED BY <2>1, <2>2 DEF IInv, TypeOK, ThreadCanGo
<1> QED BY <1>2, <1>3

\* Until the program has finished, the main thread, a thread or a buffer can
\* go on: no sem_wait is for a post nobody makes and no join for a thread that
\* never ends, for any number of rounds, with the fence and without it.
THEOREM NobodyStuck == Spec => []NoStandstill
<1>1. ASSUME IInv, main # "finished" PROVE NoStandstill
  <2>1. CASE main \in {"setup", "judge", "round"}
    BY <1>1, <2>1 DEF IInv, TypeOK, NoStandstill, MainCanGo
  <2>2. CASE main \in {"post1", "post2"}
    BY <1>1, <2>2, FullOrDrained DEF IInv, NoStandstill, MainCanGo
  <2>3. CASE main = "join"
    BY <1>1, <2>3 DEF IInv, Control, Idle, NoStandstill, MainCanGo, ThreadCanGo
  <2>4. CASE main \in {"wait1", "wait2"} /\ endSema = 0
    <3>1. Going /\ Started(1) /\ Started(2)
      BY <1>1, <2>4 DEF IInv, Control, Going
    <3>2. ~Ended(1) \/ ~Ended(2)
      BY <1>1, <2>4 DEF IInv, Control, Finished
    <3>3. PICK t \in Thread : Started(t) /\ ~Ended(t)
      BY <3>1, <3>2
    <3> QED BY <1>1, <2>4, <3>1, <3>3, StartedGoes DEF NoStandstill
  <2>5. CASE main \in {"wait1", "wait2"} /\ endSema # 0
    BY <1>1, <2>5 DEF IInv, TypeOK, NoStandstill, MainCanGo
  <2> QED BY <1>1, <2>1, <2>2, <2>3, <2>4, <2>5 DEF IInv, TypeOK
<1>2. IInv => NoStandstill
  BY <1>1 DEF NoStandstill
<1> QED BY <1>2, Invariance, PTL
=============================================================================
