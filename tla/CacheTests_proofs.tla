-------------------------- MODULE CacheTests_proofs ---------------------------
(***************************************************************************)
(* Proofs about CacheTests: type correctness, and that the counter of the  *)
(* two ping-pong tests is a game of turns, for any number of rounds.       *)
(***************************************************************************)
EXTENDS CacheTests, TLAPS

TestName == {"false_sharing", "pingpong", "padded", "extreme_false",
             "extreme_padded", "handoff", "contention"}
Place == {"greet", "wait", "check", "load", "store", "barrier", "signal",
          "leave", "done"}
Incrementing == {"load", "store", "barrier", "signal"}
InRound == {"greet", "wait", "check", "load", "store", "barrier", "signal"}

\* TestsOf names tests, three or one.
LEMMA TestsAreNames ==
  ASSUME NEW p \in Programs
  PROVE  /\ Len(TestsOf(p)) \in {1, 3}
         /\ \A k \in 1 .. Len(TestsOf(p)) : TestsOf(p)[k] \in TestName
  BY DEF TestsOf, TestName

\* The test that runs is one of them.
LEMMA TestIsName ==
  ASSUME program \in Programs, n \in 1 .. Len(TestsOf(program))
  PROVE  test \in TestName
  BY TestsAreNames DEF test

\* A thread increments one variable or four.
LEMMA CellsAreVars ==
  ASSUME NEW t \in Thread
  PROVE  /\ Len(Cells(t)) \in {1, 4}
         /\ \A k \in 1 .. Len(Cells(t)) : Cells(t)[k] \in Var
         /\ TakesTurns => Len(Cells(t)) = 1 /\ Cells(t)[1] = "counter"
  BY DEF Cells, Var, Thread, TakesTurns

LEMMA SomeCells == \A t \in Thread : 1 <= Len(Cells(t)) /\ Len(Cells(t)) <= 4
  BY DEF Cells

\* What keeps the loop counters within bounds: a thread is in a round only when
\* it has some left, and away from its first variable only while it increments
\* them; and where each test has its threads.
Places == \A t \in Thread :
  /\ pc[t] \in InRound => i[t] < Rounds
  /\ pc[t] \notin Incrementing => j[t] = 1
  /\ pc[t] = "greet" => Greets
  /\ pc[t] = "wait" => TakesTurns
  /\ pc[t] = "check" => test = "pingpong"
  /\ pc[t] = "signal" => test = "handoff"
  /\ pc[t] = "barrier" => HasBarrier
  /\ main # "join" => pc[t] = "done"
  /\ main = "create" => i[t] = 0

\* Where a thread goes on after m rounds.
LEMMA LoopPlaces ==
  ASSUME NEW m \in 0 .. Rounds
  PROVE  /\ Loop(m) \in {"leave", "wait", "load"}
         /\ Loop(m) # "leave" => m < Rounds
         /\ Loop(m) = "wait" => TakesTurns
         /\ Loop(m) = "load" => ~TakesTurns
  BY RoundsAssumption DEF Loop

Wellformed == TypeOK /\ Places

LEMMA ReadIsNat ==
  ASSUME TypeOK, NEW t \in Thread, NEW v \in Var
  PROVE  Read(t, v) \in Nat
  BY DEF TypeOK, Read, NoStore

LEMMA WriteTyped ==
  ASSUME TypeOK, NEW t \in Thread, NEW v \in Var, NEW x \in Nat, Write(t, v, x)
  PROVE  buffer' \in [Thread -> [Var -> Nat \cup {NoStore}]]
  BY DEF TypeOK, Write

LEMMA InitWellformed == Init => Wellformed
  <1>1. ASSUME Init PROVE TypeOK
    <2>1. n \in 1 .. Len(TestsOf(program))
      <3>1. program \in Programs /\ n = 1
        BY <1>1 DEF Init
      <3> QED BY <3>1, TestsAreNames
    <2>2. j \in [Thread -> 1 .. 4] /\ \A t \in Thread : j[t] <= Len(Cells(t))
      <3>1. j = [t \in Thread |-> 1]
        BY <1>1 DEF Init
      <3> QED BY <3>1, SomeCells
    <2>3. mem \in [Var -> Nat] /\ buffer \in [Thread -> [Var -> Nat \cup {NoStore}]]
      BY <1>1 DEF Init, Zero, Empty
    <2>4. i \in [Thread -> 0 .. Rounds] /\ reg \in [Thread -> Nat]
      BY <1>1, RoundsAssumption DEF Init
    <2> QED BY <1>1, <2>1, <2>2, <2>3, <2>4 DEF Init, TypeOK
  <1>2. ASSUME Init PROVE Places
    BY <1>2 DEF Init, Places, InRound
  <1> QED BY <1>1, <1>2 DEF Wellformed

\* What thread t changes when it goes from place p to place q and leaves its
\* loop counters alone.
LEMMA GotoWellformed ==
  ASSUME Wellformed, NEW t \in Thread, NEW p \in Place, NEW q \in Place,
         Goto(t, p, q), UNCHANGED <<program, n, main, mem, i, j>>,
         buffer' \in [Thread -> [Var -> Nat \cup {NoStore}]],
         reg' \in [Thread -> Nat],
         p # "done",
         q \in InRound => p \in InRound \/ i[t] < Rounds,
         q \notin Incrementing => j[t] = 1,
         q # "greet",
         q = "wait" => TakesTurns,
         q = "check" => test = "pingpong",
         q = "signal" => test = "handoff",
         q = "barrier" => HasBarrier
  PROVE  Wellformed'
  <1>1. test' = test /\ TakesTurns' = TakesTurns /\ Greets' = Greets /\ HasBarrier' = HasBarrier
    BY DEF test, TakesTurns, Greets, HasBarrier
  <1>2. \A u \in Thread : Cells(u)' = Cells(u)
    BY <1>1 DEF Cells
  <1>3. pc' = [pc EXCEPT ![t] = q] /\ pc[t] = p
    BY DEF Goto
  <1>4. TypeOK'
    BY <1>2, <1>3 DEF Wellformed, TypeOK, Place
  <1>5. Places'
    <2> SUFFICES ASSUME NEW u \in Thread
                 PROVE  /\ pc'[u] \in InRound => i[u] < Rounds
                        /\ pc'[u] \notin Incrementing => j[u] = 1
                        /\ pc'[u] = "greet" => Greets
                        /\ pc'[u] = "wait" => TakesTurns
                        /\ pc'[u] = "check" => test = "pingpong"
                        /\ pc'[u] = "signal" => test = "handoff"
                        /\ pc'[u] = "barrier" => HasBarrier
                        /\ main # "join" => pc'[u] = "done"
                        /\ main = "create" => i[u] = 0
      BY <1>1 DEF Places
    <2>1. CASE u = t
      BY <2>1, <1>3 DEF Wellformed, TypeOK, Places
    <2>2. CASE u # t
      BY <2>2, <1>3 DEF Wellformed, TypeOK, Places
    <2> QED BY <2>1, <2>2
  <1> QED BY <1>4, <1>5 DEF Wellformed

\* The same when the thread goes on to its next variable.
LEMMA NextCellWellformed ==
  ASSUME Wellformed, NEW t \in Thread, Goto(t, "store", "load"),
         UNCHANGED <<program, n, main, mem, i>>,
         j[t] < Len(Cells(t)), j' = [j EXCEPT ![t] = j[t] + 1],
         buffer' \in [Thread -> [Var -> Nat \cup {NoStore}]],
         reg' \in [Thread -> Nat]
  PROVE  Wellformed'
  <1>1. test' = test /\ TakesTurns' = TakesTurns /\ Greets' = Greets /\ HasBarrier' = HasBarrier
    BY DEF test, TakesTurns, Greets, HasBarrier
  <1>2. \A u \in Thread : Cells(u)' = Cells(u)
    BY <1>1 DEF Cells
  <1>3. pc' = [pc EXCEPT ![t] = "load"] /\ pc[t] = "store"
    BY DEF Goto
  <1>4. TypeOK'
    <2>1. j \in [Thread -> 1 .. 4] /\ \A u \in Thread : j[u] <= Len(Cells(u))
      BY DEF Wellformed, TypeOK
    <2>2. j[t] + 1 \in 1 .. 4 /\ j[t] + 1 <= Len(Cells(t))
      <3> DEFINE cells == Len(Cells(t))
      <3>1. cells \in {1, 4}
        BY CellsAreVars
      <3>2. j[t] \in 1 .. 4 /\ j[t] < cells
        BY <2>1
      <3> HIDE DEF cells
      <3>3. j[t] + 1 \in 1 .. 4 /\ j[t] + 1 <= cells
        BY <3>1, <3>2
      <3> QED BY <3>3 DEF cells
    <2>3. j' \in [Thread -> 1 .. 4] /\ \A u \in Thread : j'[u] <= Len(Cells(u)')
      BY <1>2, <2>1, <2>2
    <2> QED BY <1>3, <2>3 DEF Wellformed, TypeOK
  <1>5. Places'
    <2> SUFFICES ASSUME NEW u \in Thread
                 PROVE  /\ pc'[u] \in InRound => i[u] < Rounds
                        /\ pc'[u] \notin Incrementing => j'[u] = 1
                        /\ pc'[u] = "greet" => Greets
                        /\ pc'[u] = "wait" => TakesTurns
                        /\ pc'[u] = "check" => test = "pingpong"
                        /\ pc'[u] = "signal" => test = "handoff"
                        /\ pc'[u] = "barrier" => HasBarrier
                        /\ main # "join" => pc'[u] = "done"
                        /\ main = "create" => i[u] = 0
      BY <1>1 DEF Places
    <2>1. CASE u = t
      BY <2>1, <1>3 DEF Wellformed, TypeOK, Places, InRound, Incrementing
    <2>2. CASE u # t
      BY <2>2, <1>3 DEF Wellformed, TypeOK, Places
    <2> QED BY <2>1, <2>2
  <1> QED BY <1>4, <1>5 DEF Wellformed

\* The same when the thread has made a round.
LEMMA RoundWellformed ==
  ASSUME Wellformed, NEW t \in Thread, NEW p \in InRound,
         Goto(t, p, Loop(i[t] + 1)), NextRound(t),
         UNCHANGED <<program, n, main, mem>>,
         buffer' \in [Thread -> [Var -> Nat \cup {NoStore}]],
         reg' \in [Thread -> Nat]
  PROVE  Wellformed'
  <1>1. test' = test /\ TakesTurns' = TakesTurns /\ Greets' = Greets /\ HasBarrier' = HasBarrier
    BY DEF test, TakesTurns, Greets, HasBarrier
  <1>2. \A u \in Thread : Cells(u)' = Cells(u)
    BY <1>1 DEF Cells
  <1>3. pc' = [pc EXCEPT ![t] = Loop(i[t] + 1)] /\ pc[t] = p
    BY DEF Goto
  <1>4. i[t] < Rounds /\ i[t] \in 0 .. Rounds
    BY <1>3 DEF Wellformed, TypeOK, Places
  <1>5. i[t] + 1 \in 0 .. Rounds
    BY <1>4, RoundsAssumption
  <1>6. /\ i' = [i EXCEPT ![t] = i[t] + 1] /\ i' \in [Thread -> 0 .. Rounds]
        /\ j' = [j EXCEPT ![t] = 1]
    BY <1>5 DEF NextRound, Wellformed, TypeOK
  <1>7. /\ Loop(i[t] + 1) \in {"leave", "wait", "load"}
        /\ Loop(i[t] + 1) # "leave" => i[t] + 1 < Rounds
        /\ Loop(i[t] + 1) = "wait" => TakesTurns
    BY <1>5, LoopPlaces
  <1>8. TypeOK'
    <2>1. j' \in [Thread -> 1 .. 4] /\ \A u \in Thread : j'[u] <= Len(Cells(u)')
      BY <1>2, <1>6, SomeCells DEF Wellformed, TypeOK
    <2>2. pc' \in [Thread -> Place]
      BY <1>3, <1>7 DEF Wellformed, TypeOK, Place
    <2> QED BY <1>6, <2>1, <2>2 DEF Wellformed, TypeOK, Place
  <1>9. Places'
    <2> SUFFICES ASSUME NEW u \in Thread
                 PROVE  /\ pc'[u] \in InRound => i'[u] < Rounds
                        /\ pc'[u] \notin Incrementing => j'[u] = 1
                        /\ pc'[u] = "greet" => Greets
                        /\ pc'[u] = "wait" => TakesTurns
                        /\ pc'[u] = "check" => test = "pingpong"
                        /\ pc'[u] = "signal" => test = "handoff"
                        /\ pc'[u] = "barrier" => HasBarrier
                        /\ main # "join" => pc'[u] = "done"
                        /\ main = "create" => i'[u] = 0
      BY <1>1 DEF Places
    <2>1. CASE u = t
      <3>1. pc'[u] = Loop(i[t] + 1) /\ i'[u] = i[t] + 1 /\ j'[u] = 1
        BY <2>1, <1>3, <1>6 DEF Wellformed, TypeOK
      <3>2. main = "join"
        BY <1>3 DEF Wellformed, Places, InRound
      <3> QED BY <3>1, <3>2, <1>7 DEF InRound
    <2>2. CASE u # t
      <3>1. pc'[u] = pc[u] /\ i'[u] = i[u] /\ j'[u] = j[u]
        BY <2>2, <1>3, <1>6 DEF Wellformed, TypeOK
      <3> QED BY <3>1 DEF Wellformed, Places
    <2> QED BY <2>1, <2>2
  <1> QED BY <1>8, <1>9 DEF Wellformed

LEMMA FirstRound ==
  ASSUME Wellformed
  PROVE  Loop(0) \in {"wait", "load"} /\ (Loop(0) = "wait" => TakesTurns)
  BY RoundsAssumption DEF Loop

\* The variable a thread is at is one of those it increments.
LEMMA CellIsVar ==
  ASSUME TypeOK, NEW t \in Thread
  PROVE  Cells(t)[j[t]] \in Var
  <1>1. j[t] \in 1 .. Len(Cells(t))
    <2> DEFINE cells == Len(Cells(t))
    <2>1. cells \in {1, 4}
      BY CellsAreVars
    <2>2. j[t] \in 1 .. 4 /\ j[t] <= cells
      BY DEF TypeOK
    <2> HIDE DEF cells
    <2>3. j[t] \in 1 .. cells
      BY <2>1, <2>2
    <2> QED BY <2>3 DEF cells
  <1>2. \A k \in 1 .. Len(Cells(t)) : Cells(t)[k] \in Var
    BY CellsAreVars
  <1> QED BY <1>1, <1>2

LEMMA StepWellformed ==
  ASSUME Wellformed, NEW t \in Thread, Step(t)
  PROVE  Wellformed'
  <1>0. reg \in [Thread -> Nat] /\ buffer \in [Thread -> [Var -> Nat \cup {NoStore}]]
    BY DEF Wellformed, TypeOK
  <1> DEFINE b == [Thread -> [Var -> Nat \cup {NoStore}]]
  <1>1. CASE t = 1 /\ AwaitGreeting
    <2>1. Goto(t, "greet", Loop(0)) /\ j[t] = 1
      BY <1>1 DEF AwaitGreeting, Goto, Wellformed, Places, Incrementing
    <2> QED BY <1>0, <1>1, <2>1, FirstRound, GotoWellformed
            DEF AwaitGreeting, Place, InRound, Incrementing, memory
  <1>2. CASE t = 2 /\ Greet
    <2>1. Goto(t, "greet", Loop(0)) /\ j[t] = 1
      BY <1>2 DEF Greet, Goto, Wellformed, Places, Incrementing
    <2>2. buffer' \in b
      BY <1>2, WriteTyped DEF Greet, Greeting, Var, Wellformed
    <2> QED BY <1>0, <1>2, <2>1, <2>2, FirstRound, GotoWellformed
            DEF Greet, Place, InRound, Incrementing
  <1>3. CASE Wait(t)
    <2> DEFINE q == IF test = "pingpong" THEN "check" ELSE "load"
    <2>1. Goto(t, "wait", q) /\ j[t] = 1
      BY <1>3 DEF Wait, Goto, Wellformed, Places, Incrementing
    <2> QED BY <1>0, <1>3, <2>1, GotoWellformed DEF Wait, Place, InRound, Incrementing, memory
  <1>4. CASE Check(t)
    <2> DEFINE q == IF Read(t, "done") # 0 THEN "leave" ELSE "load"
    <2>1. Goto(t, "check", q) /\ j[t] = 1
      BY <1>4 DEF Check, Goto, Wellformed, Places, Incrementing
    <2> QED BY <1>0, <1>4, <2>1, GotoWellformed DEF Check, Place, InRound, Incrementing, memory
  <1>5. CASE Load(t)
    <2>1. Cells(t)[j[t]] \in Var
      BY CellIsVar DEF Wellformed
    <2>2. reg' \in [Thread -> Nat]
      BY <1>0, <1>5, <2>1, ReadIsNat DEF Load, Wellformed
    <2> QED BY <1>0, <1>5, <2>2, GotoWellformed DEF Load, Place, InRound, Incrementing, memory
  <1>6. CASE Store(t)
    <2>1. Cells(t)[j[t]] \in Var
      BY CellIsVar DEF Wellformed
    <2>2. buffer' \in b
      BY <1>0, <1>6, <2>1, WriteTyped DEF Store, Wellformed
    <2>3. reg' \in [Thread -> Nat]
      BY <1>0, <1>6 DEF Store
    <2>4. CASE j[t] < Len(Cells(t))
      <3>1. /\ Goto(t, "store", "load") /\ UNCHANGED <<program, n, main, mem, i>>
            /\ j' = [j EXCEPT ![t] = j[t] + 1]
        BY <1>6, <2>4 DEF Store
      <3> QED BY <1>0, <2>2, <2>3, <2>4, <3>1, NextCellWellformed
    <2>5. CASE ~(j[t] < Len(Cells(t))) /\ HasBarrier
      <3>1. Goto(t, "store", "barrier") /\ UNCHANGED <<program, n, main, mem, i, j>>
        BY <1>6, <2>5 DEF Store
      <3> QED BY <1>0, <2>2, <2>3, <2>5, <3>1, GotoWellformed DEF Place, InRound, Incrementing
    <2>6. CASE ~(j[t] < Len(Cells(t))) /\ ~HasBarrier
      <3>1. Goto(t, "store", Loop(i[t] + 1)) /\ NextRound(t)
        BY <1>6, <2>6 DEF Store
      <3> QED BY <1>6, <2>2, <2>3, <3>1, RoundWellformed DEF Store, InRound
    <2> QED BY <2>4, <2>5, <2>6
  <1>7. CASE Barrier(t)
    <2>1. CASE test = "handoff"
      <3>1. Goto(t, "barrier", "signal") /\ UNCHANGED <<i, j>>
        BY <1>7, <2>1 DEF Barrier
      <3> QED BY <1>0, <1>7, <2>1, <3>1, GotoWellformed DEF Barrier, Place, InRound, Incrementing, memory
    <2>2. CASE test # "handoff"
      <3>1. Goto(t, "barrier", Loop(i[t] + 1)) /\ NextRound(t)
        BY <1>7, <2>2 DEF Barrier
      <3> QED BY <1>0, <1>7, <3>1, RoundWellformed DEF Barrier, InRound, memory
    <2> QED BY <2>1, <2>2
  <1>8. CASE Signal(t)
    <2>1. buffer' \in b
      BY <1>8, WriteTyped DEF Signal, Signalled, Thread, Var, Wellformed
    <2> QED BY <1>0, <1>8, <2>1, RoundWellformed DEF Signal, InRound
  <1>9. CASE Leave(t)
    <2>1. buffer' \in b
      BY <1>0, <1>9, WriteTyped DEF Leave, Var, Wellformed
    <2>2. Goto(t, "leave", "done") /\ j[t] = 1
      BY <1>9 DEF Leave, Goto, Wellformed, Places, Incrementing
    <2> QED BY <1>0, <1>9, <2>1, <2>2, GotoWellformed DEF Leave, Place, InRound, Incrementing
  <1> QED BY <1>1, <1>2, <1>3, <1>4, <1>5, <1>6, <1>7, <1>8, <1>9 DEF Step

LEMMA DrainWellformed ==
  ASSUME Wellformed, NEW t \in Thread, NEW v \in Var, Drain(t, v)
  PROVE  Wellformed'
  <1>1. test' = test /\ TakesTurns' = TakesTurns /\ Greets' = Greets /\ HasBarrier' = HasBarrier
    BY DEF Drain, test, TakesTurns, Greets, HasBarrier
  <1>2. \A u \in Thread : Cells(u)' = Cells(u)
    BY <1>1 DEF Cells
  <1>3. buffer[t][v] \in Nat
    BY DEF Wellformed, TypeOK, Drain
  <1>4. /\ mem' \in [Var -> Nat]
        /\ buffer' \in [Thread -> [Var -> Nat \cup {NoStore}]]
    BY <1>3 DEF Wellformed, TypeOK, Drain
  <1>5. TypeOK'
    BY <1>2, <1>4 DEF Wellformed, TypeOK, Drain, threads
  <1>6. Places'
    BY <1>1 DEF Wellformed, Places, Drain, threads
  <1> QED BY <1>5, <1>6 DEF Wellformed

LEMMA CreateWellformed ==
  ASSUME Wellformed, Create
  PROVE  Wellformed'
  <1>1. test' = test /\ TakesTurns' = TakesTurns /\ Greets' = Greets /\ HasBarrier' = HasBarrier
    BY DEF Create, test, TakesTurns, Greets, HasBarrier
  <1>2. \A u \in Thread : Cells(u)' = Cells(u)
    BY <1>1 DEF Cells
  <1>3. \A u \in Thread : pc[u] = "done" /\ i[u] = 0 /\ j[u] = 1
    BY DEF Create, Wellformed, Places, Incrementing
  <1>4. \A u \in Thread : /\ pc'[u] \in {"greet", "wait", "load"}
                          /\ pc'[u] = "greet" => Greets
                          /\ pc'[u] = "wait" => TakesTurns
    BY FirstRound DEF Create
  <1>5. TypeOK'
    <2>1. pc' \in [Thread -> Place]
      BY <1>4 DEF Create, Place
    <2> QED BY <1>2, <2>1 DEF Create, Wellformed, TypeOK, memory, Place
  <1>6. Places'
    BY <1>1, <1>3, <1>4, RoundsAssumption DEF Create, Places, InRound, Wellformed, TypeOK
  <1> QED BY <1>5, <1>6 DEF Wellformed

LEMMA JoinWellformed ==
  ASSUME Wellformed, Join
  PROVE  Wellformed'
  <1>1. \A u \in Thread : pc[u] = "done" /\ j[u] = 1
    BY DEF Join, Returned, Wellformed, Places, Incrementing
  <1>2. /\ program' = program /\ n' \in 1 .. Len(TestsOf(program))
        /\ main' \in {"create", "finished"} /\ mem' \in [Var -> Nat]
        /\ i' \in [Thread -> 0 .. Rounds] /\ \A u \in Thread : main' = "create" => i'[u] = 0
    <2>1. CASE n < Len(TestsOf(program))
      <3>1. n + 1 \in 1 .. Len(TestsOf(program))
        <4>1. Len(TestsOf(program)) \in {1, 3}
          BY TestsAreNames DEF Wellformed, TypeOK
        <4> QED BY <2>1, <4>1 DEF Wellformed, TypeOK
      <3>2. mem' \in [Var -> Nat]
        BY <2>1 DEF Join, Zero
      <3>3. i' \in [Thread -> 0 .. Rounds] /\ \A u \in Thread : i'[u] = 0
        BY <2>1, RoundsAssumption DEF Join
      <3> QED BY <2>1, <3>1, <3>2, <3>3 DEF Join
    <2>2. CASE ~(n < Len(TestsOf(program)))
      BY <2>2 DEF Join, Wellformed, TypeOK
    <2> QED BY <2>1, <2>2
  <1>3. j' \in [Thread -> 1 .. 4] /\ \A u \in Thread : j'[u] <= Len(Cells(u)')
    <2>1. j' = j /\ \A u \in Thread : j[u] = 1
      BY <1>1 DEF Join
    <2>2. \A u \in Thread : 1 <= Len(Cells(u)') /\ Len(Cells(u)') <= 4
      BY DEF Cells
    <2> QED BY <2>1, <2>2 DEF Wellformed, TypeOK
  <1>4. TypeOK'
    BY <1>2, <1>3 DEF Join, Wellformed, TypeOK
  <1>5. Places'
    BY <1>1, <1>2 DEF Join, Places, InRound
  <1> QED BY <1>4, <1>5 DEF Wellformed

LEMMA NextWellformed == Wellformed /\ [Next]_vars => Wellformed'
  <1>1. ASSUME Wellformed, UNCHANGED vars PROVE Wellformed'
    <2>1. test' = test /\ TakesTurns' = TakesTurns /\ Greets' = Greets /\ HasBarrier' = HasBarrier
      BY <1>1 DEF vars, test, TakesTurns, Greets, HasBarrier
    <2>2. \A u \in Thread : Cells(u)' = Cells(u)
      BY <2>1 DEF Cells
    <2>3. TypeOK'
      BY <1>1, <2>2 DEF vars, memory, threads, Wellformed, TypeOK
    <2>4. Places'
      BY <1>1, <2>1 DEF vars, threads, Wellformed, Places
    <2> QED BY <2>3, <2>4 DEF Wellformed
  <1> QED BY <1>1, StepWellformed, DrainWellformed, CreateWellformed, JoinWellformed DEF Next

\* The whole state keeps its type: in particular no loop counter runs past the
\* rounds or past the variables of a round.
THEOREM TypeCorrect == Spec => []TypeOK
  <1>1. Wellformed => TypeOK
    BY DEF Wellformed
  <1> QED BY <1>1, InitWellformed, NextWellformed, PTL DEF Spec

-----------------------------------------------------------------------------
(* The counter of the two tests that take turns.                           *)

\* The turn in memory: the counter's parity, or the flag.
Mine(t) == IF test = "pingpong" THEN mem["counter"] % 2 = t - 1
                                ELSE mem["flag"] = t - 1

\* A thread that loads, holds or has buffered an increment has the turn, and
\* what it is about to write is one more than what memory holds.
Counts(t) ==
  /\ pc[t] \in {"load", "store"} => Mine(t)
  /\ pc[t] = "store" => reg[t] = mem["counter"]
  /\ buffer[t]["counter"] # NoStore =>
       pc[t] = "barrier" /\ Mine(t) /\ buffer[t]["counter"] = mem["counter"] + 1

\* In the ping-pong a thread goes on only with the turn or to leave.
Pings(t) ==
  /\ pc[t] = "check" => Mine(t) \/ mem["done"] # 0
  /\ buffer[t]["done"] # NoStore => pc[t] = "done" /\ buffer[t]["done"] = 1

\* In the other test a thread keeps the flag until it has given it away, and
\* the counter's parity tells whether it has counted in between.
Hands(t) ==
  /\ pc[t] \in Incrementing => Mine(t)
  /\ buffer[t]["flag"] # NoStore =>
       pc[t] \in {"wait", "leave", "done"} /\ Mine(t) /\ buffer[t]["flag"] = 2 - t
  /\ Mine(t) => mem["counter"] % 2 =
                  IF Counted(t) \/ buffer[t]["flag"] # NoStore THEN 2 - t ELSE t - 1

Turns(t) == TakesTurns => /\ Counts(t)
                          /\ test = "pingpong" => Pings(t)
                          /\ test = "handoff" => Hands(t)

\* Each test begins with an empty structure and empty buffers.
Fresh == main = "create" => mem = Zero /\ \A t \in Thread : buffer[t] = Empty

TurnInv == Wellformed /\ Fresh /\ \A t \in Thread : Turns(t)

LEMMA OneHasTurn ==
  ASSUME TypeOK, NEW t \in Thread, NEW u \in Thread, t # u, Mine(t)
  PROVE  ~Mine(u)
  <1>1. mem["counter"] \in Nat /\ mem["flag"] \in Nat
    BY DEF TypeOK, Var
  <1> QED BY <1>1 DEF Mine, Thread

\* In a test that takes turns a thread increments only the counter.
LEMMA OnlyCounter ==
  ASSUME TypeOK, TakesTurns, NEW t \in Thread
  PROVE  Len(Cells(t)) = 1 /\ j[t] = 1 /\ Cells(t)[j[t]] = "counter"
  <1>1. Cells(t) = <<"counter">>
    BY DEF Cells, TakesTurns
  <1>2. Len(Cells(t)) = 1 /\ Cells(t)[1] = "counter"
    BY <1>1
  <1>3. j[t] \in 1 .. 4 /\ j[t] <= Len(Cells(t))
    BY DEF TypeOK
  <1>4. j[t] = 1
    BY <1>2, <1>3
  <1> QED BY <1>2, <1>4

\* What a step leaves alone keeps its part of the invariant.
LEMMA Framed ==
  ASSUME NEW t \in Thread, Turns(t), UNCHANGED <<program, n, mem>>,
         pc'[t] = pc[t], reg'[t] = reg[t], buffer'[t] = buffer[t]
  PROVE  Turns(t)'
  <1>1. test' = test /\ TakesTurns' = TakesTurns
    BY DEF test, TakesTurns
  <1>2. Mine(t)' = Mine(t)
    BY <1>1 DEF Mine
  <1>3. Counted(t)' = Counted(t)
    BY DEF Counted
  <1>4. Counts(t)' = Counts(t)
    BY <1>2 DEF Counts
  <1>5. Pings(t)' = Pings(t)
    BY <1>2 DEF Pings
  <1>6. Hands(t)' = Hands(t)
    BY <1>2, <1>3 DEF Hands
  <1> QED BY <1>1, <1>4, <1>5, <1>6 DEF Turns

LEMMA StepFrame ==
  ASSUME TypeOK, NEW t \in Thread, Step(t)
  PROVE  /\ UNCHANGED <<program, n, main, mem>>
         /\ \A u \in Thread \ {t} :
              pc'[u] = pc[u] /\ reg'[u] = reg[u] /\ buffer'[u] = buffer[u] /\ i'[u] = i[u]
  <1>1. UNCHANGED <<program, n, main, mem>>
    BY DEF Step, AwaitGreeting, Greet, Wait, Check, Load, Store, Barrier, Signal, Leave, memory
  <1>2. \A u \in Thread \ {t} : pc'[u] = pc[u]
    BY DEF TypeOK, Step, AwaitGreeting, Greet, Wait, Check, Load, Store, Barrier, Signal, Leave,
           Goto
  <1>3. \A u \in Thread \ {t} : reg'[u] = reg[u]
    BY DEF TypeOK, Step, AwaitGreeting, Greet, Wait, Check, Load, Store, Barrier, Signal, Leave
  <1>4. \A u \in Thread \ {t} : buffer'[u] = buffer[u]
    BY DEF TypeOK, Step, AwaitGreeting, Greet, Wait, Check, Load, Store, Barrier, Signal, Leave,
           Write, memory
  <1>5. \A u \in Thread \ {t} : i'[u] = i[u]
    BY DEF TypeOK, Step, AwaitGreeting, Greet, Wait, Check, Load, Store, Barrier, Signal, Leave,
           NextRound
  <1> QED BY <1>1, <1>2, <1>3, <1>4, <1>5

\* A step that writes nothing leaves the turns as they are, and takes t to a
\* place in which it may be.
LEMMA MovedTurns ==
  ASSUME TypeOK, NEW t \in Thread, Turns(t), TakesTurns,
         UNCHANGED <<program, n, mem, buffer>>,
         pc[t] \notin {"barrier", "signal", "done"}, pc'[t] \notin {"barrier", "signal"},
         pc'[t] \in {"load", "store"} => Mine(t),
         pc'[t] = "store" => reg'[t] = mem["counter"],
         test = "pingpong" /\ pc'[t] = "check" => Mine(t) \/ mem["done"] # 0,
         test = "handoff" /\ buffer[t]["flag"] # NoStore => pc'[t] \in {"wait", "leave", "done"}
  PROVE  Turns(t)'
  <1>1. test' = test /\ TakesTurns' = TakesTurns
    BY DEF test, TakesTurns
  <1>2. Mine(t)' = Mine(t)
    BY <1>1 DEF Mine
  <1>3. Counted(t)' = Counted(t)
    BY DEF Counted
  <1>4. Counts(t)'
    BY <1>2 DEF Turns, Counts
  <1>5. test = "pingpong" => Pings(t)'
    BY <1>2 DEF Turns, Pings
  <1>6. test = "handoff" => Hands(t)'
    BY <1>2, <1>3 DEF Turns, Hands, Incrementing
  <1> QED BY <1>1, <1>4, <1>5, <1>6 DEF Turns

LEMMA OwnTurns ==
  ASSUME Wellformed, NEW t \in Thread, Turns(t), TakesTurns, Step(t)
  PROVE  Turns(t)'
  <1>0. TypeOK /\ test \in {"pingpong", "handoff"} /\ "counter" \in Var /\ "flag" \in Var
    BY DEF Wellformed, TakesTurns, Var
  <1>1. CASE t = 1 /\ AwaitGreeting
    <2>1. pc[t] = "greet" /\ pc'[t] = Loop(0) /\ UNCHANGED <<program, n, memory>>
      BY <1>0, <1>1 DEF AwaitGreeting, Goto, TypeOK
    <2>2. Loop(0) = "wait"
      BY RoundsAssumption DEF Loop
    <2> QED BY <1>0, <2>1, <2>2, MovedTurns DEF memory
  <1>2. CASE t = 2 /\ Greet
    <2>1. /\ test = "pingpong" /\ pc[t] = "greet" /\ pc'[t] = "wait"
          /\ UNCHANGED <<program, n, mem>> /\ test' = test /\ TakesTurns' = TakesTurns
      <3>1. Loop(0) = "wait"
        BY RoundsAssumption DEF Loop
      <3> QED BY <1>0, <1>2, <3>1 DEF Greet, Goto, Wellformed, TypeOK, Places, Greets, test, TakesTurns
    <2>2. /\ buffer'[t]["counter"] = buffer[t]["counter"]
          /\ buffer'[t]["done"] = buffer[t]["done"]
      <3>1. buffer' = [buffer EXCEPT ![t]["ready"] = 1]
        BY <1>2, <2>1 DEF Greet, Write, Greeting
      <3> QED BY <1>0, <3>1 DEF TypeOK, Var
    <2>3. Counts(t)' /\ Pings(t)'
      BY <2>1, <2>2 DEF Turns, Counts, Pings
    <2> QED BY <2>1, <2>3 DEF Turns
  <1>3. CASE Wait(t)
    <2>1. pc[t] = "wait" /\ UNCHANGED <<program, n, mem, buffer>>
      BY <1>3 DEF Wait, Goto, memory
    <2>2. buffer[t]["counter"] = NoStore
      BY <2>1 DEF Turns, Counts
    <2>3. CASE test = "pingpong"
      <3>1. buffer[t]["done"] = NoStore
        BY <2>1, <2>3 DEF Turns, Pings
      <3>2. Mine(t) \/ mem["done"] # 0
        BY <1>3, <2>2, <2>3, <3>1 DEF Wait, Turn, Read, Mine
      <3>3. pc'[t] = "check"
        BY <1>0, <1>3, <2>3 DEF Wait, Goto, TypeOK
      <3> QED BY <1>0, <2>1, <2>3, <3>2, <3>3, MovedTurns
    <2>4. CASE test = "handoff"
      <3>1. buffer[t]["flag"] = NoStore
        BY <1>3, <2>4 DEF Wait, Turn, Read, Turns, Hands, Thread
      <3>2. Mine(t)
        BY <1>3, <2>4, <3>1 DEF Wait, Turn, Read, Mine
      <3>3. pc'[t] = "load"
        BY <1>0, <1>3, <2>4 DEF Wait, Goto, TypeOK
      <3> QED BY <1>0, <2>1, <2>4, <3>1, <3>2, <3>3, MovedTurns
    <2> QED BY <1>0, <2>3, <2>4
  <1>4. CASE Check(t)
    <2>1. pc[t] = "check" /\ test = "pingpong" /\ UNCHANGED <<program, n, mem, buffer>>
      BY <1>4 DEF Check, Goto, memory, Wellformed, Places
    <2>2. buffer[t]["done"] = NoStore
      BY <2>1 DEF Turns, Pings
    <2>3. pc'[t] = "leave" \/ (pc'[t] = "load" /\ Mine(t))
      BY <1>0, <1>4, <2>1, <2>2 DEF Check, Goto, TypeOK, Read, Turns, Pings
    <2> QED BY <1>0, <2>1, <2>3, MovedTurns
  <1>5. CASE Load(t)
    <2>1. /\ pc[t] = "load" /\ pc'[t] = "store" /\ UNCHANGED <<program, n, mem, buffer>>
          /\ reg'[t] = Read(t, "counter")
      BY <1>0, <1>5, OnlyCounter DEF Load, Goto, memory, TypeOK
    <2>2. Mine(t) /\ reg'[t] = mem["counter"]
      BY <2>1 DEF Turns, Counts, Read
    <2>3. test = "handoff" => buffer[t]["flag"] = NoStore
      BY <2>1 DEF Turns, Hands
    <2> QED BY <1>0, <2>1, <2>2, <2>3, MovedTurns
  <1>6. CASE Store(t)
    <2>1. /\ pc[t] = "store" /\ pc'[t] = "barrier" /\ UNCHANGED <<program, n, mem>>
          /\ buffer' = [buffer EXCEPT ![t]["counter"] = reg[t] + 1]
      <3>1. Len(Cells(t)) = 1 /\ j[t] = 1 /\ Cells(t)[j[t]] = "counter"
        BY <1>0, OnlyCounter
      <3>2. ~(j[t] < Len(Cells(t))) /\ HasBarrier
        BY <1>0, <3>1 DEF HasBarrier
      <3>3. Goto(t, "store", "barrier") /\ UNCHANGED <<program, n, mem>>
        BY <1>6, <3>2 DEF Store
      <3>4. Write(t, "counter", reg[t] + 1)
        BY <1>6, <3>1 DEF Store
      <3> QED BY <1>0, <3>3, <3>4 DEF Goto, Write, TypeOK
    <2>2. /\ test' = test /\ TakesTurns' = TakesTurns /\ Mine(t)' = Mine(t)
      BY <2>1 DEF test, TakesTurns, Mine
    <2>3. /\ buffer'[t]["counter"] = reg[t] + 1
          /\ buffer'[t]["flag"] = buffer[t]["flag"] /\ buffer'[t]["done"] = buffer[t]["done"]
      BY <1>0, <2>1 DEF TypeOK, Var
    <2>4. Mine(t) /\ reg[t] = mem["counter"] /\ reg[t] \in Nat /\ buffer[t]["counter"] = NoStore
      BY <1>0, <2>1 DEF Turns, Counts, TypeOK
    <2>5. Counts(t)'
      BY <2>1, <2>2, <2>3, <2>4 DEF Counts
    <2>6. test = "pingpong" => Pings(t)'
      BY <2>1, <2>2, <2>3 DEF Turns, Pings
    <2>7. ~Counted(t) /\ ~Counted(t)'
      BY <2>1, <2>3, <2>4 DEF Counted, NoStore
    <2>8. test = "handoff" => Hands(t)'
      BY <2>1, <2>2, <2>3, <2>4, <2>7 DEF Turns, Hands, Incrementing
    <2> QED BY <2>2, <2>5, <2>6, <2>8 DEF Turns
  <1>7. CASE Barrier(t)
    <2>1. /\ pc[t] = "barrier" /\ UNCHANGED <<program, n, mem, buffer>> /\ Drained(t)
          /\ pc'[t] = IF test = "handoff" THEN "signal" ELSE Loop(i[t] + 1)
      BY <1>0, <1>7 DEF Barrier, Goto, memory, Passes, TypeOK
    <2>2. pc'[t] \in {"signal", "wait", "leave"} /\ (pc'[t] = "signal" => test = "handoff")
          /\ (test = "handoff" => pc'[t] = "signal")
      BY <2>1 DEF Loop
    <2>3. test' = test /\ TakesTurns' = TakesTurns /\ Mine(t)' = Mine(t)
      BY <2>1 DEF test, TakesTurns, Mine
    <2>4. \A v \in Var : buffer[t][v] = NoStore
      BY <2>1 DEF Drained, Empty
    <2>5. Counts(t)'
      BY <1>0, <2>1, <2>2, <2>4 DEF Counts
    <2>6. test = "pingpong" => Pings(t)'
      BY <2>1, <2>2, <2>4 DEF Pings, Var
    <2>7. test = "handoff" => Counted(t) /\ Counted(t)'
      BY <1>0, <2>1, <2>2, <2>4 DEF Counted
    <2>8. test = "handoff" => Hands(t)'
      BY <1>0, <2>1, <2>2, <2>3, <2>4, <2>7 DEF Turns, Hands, Incrementing
    <2> QED BY <2>3, <2>5, <2>6, <2>8 DEF Turns
  <1>8. CASE Signal(t)
    <2>1. /\ pc[t] = "signal" /\ test = "handoff" /\ pc'[t] \in {"wait", "leave"}
          /\ UNCHANGED <<program, n, mem>>
          /\ buffer' = [buffer EXCEPT ![t]["flag"] = 2 - t]
      BY <1>0, <1>8 DEF Signal, Goto, Write, Signalled, Wellformed, TypeOK, Places, Loop
    <2>2. /\ test' = test /\ TakesTurns' = TakesTurns /\ Mine(t)' = Mine(t)
      BY <2>1 DEF test, TakesTurns, Mine
    <2>3. buffer'[t]["flag"] = 2 - t /\ buffer'[t]["counter"] = buffer[t]["counter"]
      BY <1>0, <2>1 DEF TypeOK, Var
    <2>4. Counts(t)'
      BY <2>1, <2>3 DEF Turns, Counts
    <2>5. Mine(t) /\ mem["counter"] % 2 = 2 - t
      BY <2>1 DEF Turns, Hands, Incrementing, Counted
    <2>6. 2 - t # NoStore
      BY DEF Thread, NoStore
    <2>7. Hands(t)'
      BY <2>1, <2>2, <2>3, <2>5, <2>6 DEF Hands, Incrementing
    <2> QED BY <2>1, <2>2, <2>4, <2>7 DEF Turns
  <1>9. CASE Leave(t)
    <2>1. /\ pc[t] = "leave" /\ pc'[t] = "done" /\ UNCHANGED <<program, n, mem>>
          /\ buffer' = IF test = "pingpong" THEN [buffer EXCEPT ![t]["done"] = 1] ELSE buffer
      BY <1>0, <1>9 DEF Leave, Goto, Write, TypeOK
    <2>2. /\ test' = test /\ TakesTurns' = TakesTurns /\ Mine(t)' = Mine(t)
      BY <2>1 DEF test, TakesTurns, Mine
    <2>3. /\ buffer'[t]["flag"] = buffer[t]["flag"] /\ buffer'[t]["counter"] = buffer[t]["counter"]
          /\ test = "pingpong" => buffer'[t]["done"] = 1
      BY <1>0, <2>1 DEF TypeOK, Var
    <2>4. Counts(t)'
      BY <2>1, <2>3 DEF Turns, Counts
    <2>5. test = "pingpong" => Pings(t)'
      BY <2>1, <2>3 DEF Pings
    <2>6. ~Counted(t) /\ ~Counted(t)'
      BY <2>1 DEF Counted
    <2>7. test = "handoff" => Hands(t)'
      BY <2>1, <2>2, <2>3, <2>6 DEF Turns, Hands, Incrementing
    <2> QED BY <2>2, <2>4, <2>5, <2>7 DEF Turns
  <1> QED BY <1>1, <1>2, <1>3, <1>4, <1>5, <1>6, <1>7, <1>8, <1>9 DEF Step

LEMMA DrainTurns ==
  ASSUME Wellformed, TakesTurns, NEW t \in Thread, NEW v \in Var, Drain(t, v),
         \A u \in Thread : Turns(u), NEW u \in Thread
  PROVE  Turns(u)'
  <1>0. /\ TypeOK /\ test \in {"pingpong", "handoff"}
        /\ "counter" \in Var /\ "flag" \in Var /\ "done" \in Var
    BY DEF Wellformed, TakesTurns, Var
  <1>1. /\ test' = test /\ TakesTurns' = TakesTurns /\ pc' = pc /\ reg' = reg
        /\ buffer[t][v] # NoStore
    BY DEF Drain, threads, test, TakesTurns
  <1>2. /\ \A w \in Var : mem'[w] = IF w = v THEN buffer[t][v] ELSE mem[w]
        /\ \A w \in Var : buffer'[u][w] = IF u = t /\ w = v THEN NoStore ELSE buffer[u][w]
    BY <1>0 DEF Drain, TypeOK
  <1>3. mem["counter"] \in Nat /\ mem["flag"] \in Nat
    BY <1>0 DEF TypeOK
  <1>4. Turns(t) /\ Turns(u)
    OBVIOUS
  <1>5. CASE test = "pingpong"
    <2>1. CASE v = "counter"
      <3>1. /\ pc[t] = "barrier" /\ Mine(t) /\ buffer[t][v] = mem["counter"] + 1
        BY <1>1, <1>4, <2>1 DEF Turns, Counts
      <3>2. CASE u = t
        BY <1>0, <1>1, <1>2, <1>4, <1>5, <2>1, <3>1, <3>2 DEF Turns, Counts, Pings
      <3>3. CASE u # t
        <4>1. ~Mine(u)
          BY <1>0, <3>1, <3>3, OneHasTurn
        <4>2. pc[u] \notin {"load", "store"} /\ buffer[u]["counter"] = NoStore
          BY <1>4, <4>1 DEF Turns, Counts
        <4>3. pc[u] = "check" => mem["done"] # 0
          BY <1>4, <1>5, <4>1 DEF Turns, Pings
        <4> QED BY <1>0, <1>1, <1>2, <1>4, <1>5, <2>1, <3>3, <4>2, <4>3 DEF Turns, Counts, Pings
      <3> QED BY <3>2, <3>3
    <2>2. CASE v = "done"
      <3>1. pc[t] = "done" /\ buffer[t][v] = 1
        BY <1>1, <1>4, <1>5, <2>2 DEF Turns, Pings
      <3>2. Mine(u)' = Mine(u)
        BY <1>0, <1>1, <1>2, <1>5, <2>2 DEF Mine
      <3>3. Counts(u)'
        BY <1>0, <1>1, <1>2, <1>4, <2>2, <3>2 DEF Turns, Counts
      <3>4. Pings(u)'
        BY <1>0, <1>1, <1>2, <1>4, <1>5, <2>2, <3>1, <3>2 DEF Turns, Pings
      <3> QED BY <1>1, <1>5, <3>3, <3>4 DEF Turns
    <2>3. CASE v \notin {"counter", "done"}
      <3>1. Mine(u)' = Mine(u)
        BY <1>0, <1>1, <1>2, <1>5, <2>3 DEF Mine
      <3>2. Counts(u)' /\ Pings(u)'
        BY <1>0, <1>1, <1>2, <1>4, <1>5, <2>3, <3>1 DEF Turns, Counts, Pings
      <3> QED BY <1>1, <1>5, <3>2 DEF Turns
    <2> QED BY <2>1, <2>2, <2>3
  <1>6. CASE test = "handoff"
    <2>1. CASE v = "counter"
      <3>1. pc[t] = "barrier" /\ Mine(t) /\ buffer[t][v] = mem["counter"] + 1
        BY <1>1, <1>4, <2>1 DEF Turns, Counts
      <3>2. Mine(u)' = Mine(u)
        BY <1>0, <1>1, <1>2, <1>6, <2>1 DEF Mine
      <3>3. CASE u = t
        <4>1. buffer[t]["flag"] = NoStore
          BY <1>4, <1>6, <3>1 DEF Turns, Hands
        <4>2. mem["counter"] % 2 = t - 1
          BY <1>1, <1>4, <1>6, <2>1, <3>1, <4>1 DEF Turns, Hands, Counted
        <4>3. mem'["counter"] % 2 = 2 - t
          BY <1>0, <1>2, <1>3, <2>1, <3>1, <4>2 DEF Thread
        <4>4. Counted(u)' /\ buffer'[u]["flag"] = NoStore /\ buffer'[u]["counter"] = NoStore
          BY <1>0, <1>1, <1>2, <2>1, <3>1, <3>3, <4>1 DEF Counted
        <4>5. Hands(u)'
          BY <1>1, <3>1, <3>2, <3>3, <4>3, <4>4 DEF Hands
        <4> QED BY <1>1, <1>6, <3>1, <3>3, <4>4, <4>5 DEF Turns, Counts
      <3>4. CASE u # t
        <4>1. ~Mine(u)
          BY <1>0, <3>1, <3>4, OneHasTurn
        <4>2. /\ pc[u] \notin Incrementing /\ buffer[u]["counter"] = NoStore
              /\ buffer[u]["flag"] = NoStore
          BY <1>4, <1>6, <4>1 DEF Turns, Hands, Counts
        <4>3. Counts(u)' /\ Hands(u)'
          BY <1>0, <1>1, <1>2, <3>2, <3>4, <4>1, <4>2 DEF Counts, Hands, Incrementing
        <4> QED BY <1>1, <1>6, <4>3 DEF Turns
      <3> QED BY <3>3, <3>4
    <2>2. CASE v = "flag"
      <3>1. pc[t] \in {"wait", "leave", "done"} /\ Mine(t) /\ buffer[t][v] = 2 - t
        BY <1>1, <1>4, <1>6, <2>2 DEF Turns, Hands
      <3>2. mem["counter"] % 2 = 2 - t
        BY <1>1, <1>4, <1>6, <2>2, <3>1 DEF Turns, Hands
      <3>3. mem'["flag"] = 2 - t /\ mem'["counter"] = mem["counter"]
        BY <1>0, <1>2, <2>2, <3>1
      <3>4. CASE u = t
        <4>1. ~Mine(u)'
          BY <1>1, <1>6, <3>3, <3>4 DEF Mine, Thread
        <4>2. buffer'[u]["flag"] = NoStore /\ buffer'[u]["counter"] = NoStore
          BY <1>0, <1>2, <1>4, <2>2, <3>1, <3>4 DEF Turns, Counts
        <4>3. Counts(u)' /\ Hands(u)'
          BY <1>1, <3>1, <3>4, <4>1, <4>2 DEF Counts, Hands, Incrementing
        <4> QED BY <1>1, <1>6, <4>3 DEF Turns
      <3>5. CASE u # t
        <4>1. ~Mine(u)
          BY <1>0, <3>1, <3>5, OneHasTurn
        <4>2. /\ pc[u] \notin Incrementing /\ buffer[u]["counter"] = NoStore
              /\ buffer[u]["flag"] = NoStore
          BY <1>4, <1>6, <4>1 DEF Turns, Hands, Counts
        <4>3. 2 - t = u - 1
          BY <3>5 DEF Thread
        <4>4. /\ ~Counted(u)' /\ buffer'[u]["flag"] = NoStore /\ buffer'[u]["counter"] = NoStore
          BY <1>0, <1>1, <1>2, <3>5, <4>2 DEF Counted, Incrementing
        <4>5. Counts(u)'
          BY <1>1, <4>2, <4>4 DEF Counts, Incrementing
        <4>6. Hands(u)'
          BY <1>1, <3>2, <3>3, <4>2, <4>3, <4>4 DEF Hands
        <4> QED BY <1>1, <1>6, <4>5, <4>6 DEF Turns
      <3> QED BY <3>4, <3>5
    <2>3. CASE v \notin {"counter", "flag"}
      <3>1. Mine(u)' = Mine(u)
        BY <1>0, <1>1, <1>2, <1>6, <2>3 DEF Mine
      <3>2. /\ buffer'[u]["counter"] = buffer[u]["counter"]
            /\ buffer'[u]["flag"] = buffer[u]["flag"] /\ mem'["counter"] = mem["counter"]
        BY <1>0, <1>2, <2>3
      <3>3. Counted(u)' = Counted(u)
        BY <1>1, <3>2 DEF Counted
      <3>4. Counts(u)' /\ Hands(u)'
        BY <1>1, <1>4, <1>6, <3>1, <3>2, <3>3 DEF Turns, Counts, Hands
      <3> QED BY <1>1, <1>6, <3>4 DEF Turns
    <2> QED BY <2>1, <2>2, <2>3
  <1> QED BY <1>0, <1>5, <1>6

\* A test that starts from nothing starts with the turns right.
LEMMA FreshTurns ==
  ASSUME NEW t \in Thread, mem' = Zero, buffer'[t] = Empty,
         TakesTurns' => pc'[t] \in {"done", "greet", "wait"}
  PROVE  Turns(t)'
  <1>1. /\ mem'["counter"] = 0 /\ mem'["flag"] = 0 /\ buffer'[t]["counter"] = NoStore
        /\ buffer'[t]["flag"] = NoStore /\ buffer'[t]["done"] = NoStore
    BY DEF Zero, Empty, Var
  <1> SUFFICES ASSUME TakesTurns'
               PROVE  Counts(t)' /\ Pings(t)' /\ (test' = "handoff" => Hands(t)')
    BY DEF Turns
  <1>2. Counts(t)' /\ Pings(t)'
    BY <1>1 DEF Counts, Pings
  <1>3. ASSUME test' = "handoff" PROVE Hands(t)'
    BY <1>1, <1>3 DEF Hands, Incrementing, Mine, Counted, Thread
  <1> QED BY <1>2, <1>3

LEMMA InitTurns == Init => TurnInv
  <1> SUFFICES ASSUME Init PROVE TurnInv
    OBVIOUS
  <1>1. /\ mem["counter"] = 0 /\ mem["flag"] = 0
        /\ \A t \in Thread : /\ pc[t] = "done" /\ buffer[t]["counter"] = NoStore
                             /\ buffer[t]["flag"] = NoStore /\ buffer[t]["done"] = NoStore
    BY DEF Init, Zero, Empty, Var
  <1>2. Fresh
    BY DEF Init, Fresh
  <1>3. ASSUME NEW t \in Thread PROVE Turns(t)
    <2>1. Counts(t) /\ Pings(t)
      BY <1>1 DEF Counts, Pings
    <2>2. ASSUME test = "handoff" PROVE Hands(t)
      BY <1>1, <2>2 DEF Hands, Incrementing, Mine, Counted, Thread
    <2> QED BY <2>1, <2>2 DEF Turns
  <1> QED BY <1>2, <1>3, InitWellformed DEF TurnInv

LEMMA NextTurns == TurnInv /\ [Next]_vars => TurnInv'
  <1> SUFFICES ASSUME TurnInv, [Next]_vars PROVE TurnInv'
    OBVIOUS
  <1>1. Wellformed' /\ Wellformed /\ TypeOK /\ Fresh /\ \A t \in Thread : Turns(t)
    BY NextWellformed DEF TurnInv, Wellformed
  <1>2. CASE UNCHANGED vars
    <2>1. Fresh'
      BY <1>1, <1>2 DEF Fresh, vars, memory
    <2>2. \A t \in Thread : Turns(t)'
      BY <1>1, <1>2, Framed DEF vars, memory, threads
    <2> QED BY <1>1, <2>1, <2>2 DEF TurnInv
  <1>3. ASSUME NEW t \in Thread, Step(t) PROVE TurnInv'
    <2>1. main = "join"
      <3>1. pc[t] # "done"
        BY <1>3 DEF Step, AwaitGreeting, Greet, Wait, Check, Load, Store, Barrier, Signal, Leave, Goto
      <3> QED BY <1>1, <3>1 DEF Wellformed, Places
    <2>2. Fresh'
      BY <1>1, <1>3, <2>1, StepFrame DEF Fresh
    <2>3. ASSUME NEW u \in Thread PROVE Turns(u)'
      <3>1. CASE u # t
        BY <1>1, <1>3, <3>1, StepFrame, Framed
      <3>2. CASE u = t /\ TakesTurns
        BY <1>1, <1>3, <3>2, OwnTurns
      <3>3. CASE ~TakesTurns
        <4>1. TakesTurns' = TakesTurns
          BY <1>1, <1>3, StepFrame DEF TakesTurns, test
        <4> QED BY <3>3, <4>1 DEF Turns
      <3> QED BY <3>1, <3>2, <3>3
    <2> QED BY <1>1, <2>2, <2>3 DEF TurnInv
  <1>4. ASSUME NEW t \in Thread, NEW v \in Var, Drain(t, v) PROVE TurnInv'
    <2>1. main # "create"
      <3>1. buffer[t] # Empty
        BY <1>4 DEF Drain, Empty
      <3> QED BY <1>1, <3>1 DEF Fresh
    <2>2. Fresh'
      BY <1>4, <2>1 DEF Fresh, Drain
    <2>3. ASSUME NEW u \in Thread PROVE Turns(u)'
      <3>1. CASE TakesTurns
        BY <1>1, <1>4, <3>1, DrainTurns
      <3>2. CASE ~TakesTurns
        <4>1. TakesTurns' = TakesTurns
          BY <1>4 DEF Drain, TakesTurns, test
        <4> QED BY <3>2, <4>1 DEF Turns
      <3> QED BY <3>1, <3>2
    <2> QED BY <1>1, <2>2, <2>3 DEF TurnInv
  <1>5. CASE Create
    <2>1. Fresh'
      BY <1>5 DEF Fresh, Create
    <2>2. mem' = Zero /\ \A t \in Thread : buffer'[t] = Empty
      BY <1>1, <1>5 DEF Fresh, Create, memory
    <2>3. ASSUME NEW t \in Thread PROVE TakesTurns' => pc'[t] \in {"done", "greet", "wait"}
      <3>1. TakesTurns' = TakesTurns
        BY <1>5 DEF Create, TakesTurns, test
      <3>2. TakesTurns => Loop(0) = "wait"
        BY RoundsAssumption DEF Loop
      <3> QED BY <1>5, <3>1, <3>2 DEF Create
    <2>4. \A t \in Thread : Turns(t)'
      BY <2>2, <2>3, FreshTurns
    <2> QED BY <1>1, <2>1, <2>4 DEF TurnInv
  <1>6. CASE Join
    <2>1. CASE n < Len(TestsOf(program))
      <3>1. mem' = Zero /\ \A t \in Thread : buffer'[t] = Empty /\ pc'[t] = "done"
        BY <1>6, <2>1 DEF Join, Returned, Drained
      <3>2. \A t \in Thread : Turns(t)'
        BY <3>1, FreshTurns
      <3> QED BY <1>1, <3>1, <3>2 DEF TurnInv, Fresh
    <2>2. CASE ~(n < Len(TestsOf(program)))
      <3>1. main' = "finished" /\ UNCHANGED <<program, n, mem, buffer, pc, reg>>
        BY <1>6, <2>2 DEF Join
      <3>2. \A t \in Thread : Turns(t)'
        BY <1>1, <3>1, Framed
      <3> QED BY <1>1, <3>1, <3>2 DEF TurnInv, Fresh
    <2> QED BY <2>1, <2>2
  <1> QED BY <1>2, <1>3, <1>4, <1>5, <1>6 DEF Next

-----------------------------------------------------------------------------
(* Every step is a move of the game, the start of a new one, or none.      *)

\* A step of a thread counts nothing in memory: it makes room for the next
\* round only when this round's increment has arrived.
LEMMA StepMoved ==
  ASSUME Wellformed, NEW t \in Thread, Turns(t), TakesTurns, Step(t)
  PROVE  Moved(t)' = Moved(t)
  <1>0. /\ TypeOK /\ "counter" \in Var /\ "flag" \in Var /\ i[t] \in Nat
        /\ test \in {"pingpong", "handoff"}
    <2>1. i[t] \in Nat
      BY RoundsAssumption DEF Wellformed, TypeOK
    <2> QED BY <2>1 DEF Wellformed, Var, TakesTurns
  <1>1. Loop(0) = "wait" /\ Loop(i[t] + 1) \in {"wait", "leave"}
    BY RoundsAssumption DEF Loop
  <1>2. CASE Store(t)
    <2>1. Len(Cells(t)) = 1 /\ j[t] = 1 /\ Cells(t)[j[t]] = "counter"
      BY <1>0, OnlyCounter
    <2>2. ~(j[t] < Len(Cells(t))) /\ HasBarrier
      BY <1>0, <2>1 DEF HasBarrier
    <2>3. Goto(t, "store", "barrier") /\ i' = i
      BY <1>2, <2>2 DEF Store
    <2>4. Write(t, "counter", reg[t] + 1) /\ reg[t] + 1 # NoStore
      BY <1>0, <1>2, <2>1 DEF Store, TypeOK, NoStore
    <2>5. ~Counted(t) /\ ~Counted(t)'
      BY <1>0, <2>3, <2>4 DEF Counted, Goto, Write, TypeOK
    <2> QED BY <2>3, <2>5 DEF Moved
  <1>3. CASE Barrier(t)
    <2>1. Counted(t)
      BY <1>0, <1>3 DEF Barrier, Passes, Drained, Empty, Goto, Counted
    <2>2. CASE test = "handoff"
      <3>1. Goto(t, "barrier", "signal") /\ i' = i
        BY <1>3, <2>2 DEF Barrier
      <3>2. Counted(t)'
        BY <1>0, <3>1 DEF Goto, Counted, TypeOK
      <3> QED BY <2>1, <3>1, <3>2 DEF Moved
    <2>3. CASE test # "handoff"
      <3>1. Goto(t, "barrier", Loop(i[t] + 1)) /\ i' = [i EXCEPT ![t] = i[t] + 1]
        BY <1>3, <2>3 DEF Barrier, NextRound
      <3>2. ~Counted(t)' /\ i'[t] = i[t] + 1
        BY <1>0, <1>1, <3>1 DEF Goto, Counted, TypeOK
      <3> QED BY <1>0, <2>1, <3>2 DEF Moved
    <2> QED BY <2>2, <2>3
  <1>4. CASE Signal(t)
    <2>1. Goto(t, "signal", Loop(i[t] + 1)) /\ i' = [i EXCEPT ![t] = i[t] + 1]
      BY <1>4 DEF Signal, NextRound
    <2>2. Counted(t) /\ ~Counted(t)' /\ i'[t] = i[t] + 1
      BY <1>0, <1>1, <2>1 DEF Goto, Counted, TypeOK
    <2> QED BY <1>0, <2>2 DEF Moved
  <1>5. CASE ~(Store(t) \/ Barrier(t) \/ Signal(t))
    <2>1. i' = i /\ pc[t] \notin {"barrier", "signal"} /\ pc'[t] \notin {"barrier", "signal"}
      BY <1>0, <1>1, <1>5 DEF Step, AwaitGreeting, Greet, Wait, Check, Load, Leave, Goto, TypeOK
    <2>2. ~Counted(t) /\ ~Counted(t)'
      BY <2>1 DEF Counted
    <2> QED BY <2>1, <2>2 DEF Moved
  <1> QED BY <1>2, <1>3, <1>4, <1>5

Score == IF Playing THEN mem["counter"] ELSE 0
Moves == [t \in Thread |-> IF Playing THEN Moved(t) ELSE 0]

\* As long as a game goes on and neither side of it changes, it stutters.
LEMMA Stutters ==
  ASSUME UNCHANGED <<program, n>>, main' = main \/ (main = "join" /\ main' = "finished"),
         Playing => mem'["counter"] = mem["counter"]
                    /\ \A t \in Thread : Moved(t)' = Moved(t)
  PROVE  Score' = Score /\ Moves' = Moves
  <1>1. Playing' = Playing
    BY DEF Playing, TakesTurns, test
  <1>2. Score' = Score
    BY <1>1 DEF Score
  <1>3. Moves' = Moves
    BY <1>1 DEF Moves
  <1> QED BY <1>2, <1>3

\* The store that a thread has made reaches memory: this is the move.
LEMMA DrainMoves ==
  ASSUME TurnInv, Playing, NEW t \in Thread, Drain(t, "counter")
  PROVE  /\ Score % 2 = t - 1 /\ Moves[t] < Rounds
         /\ Score' = Score + 1
         /\ Moves' = [Moves EXCEPT ![t] = @ + 1]
  <1>0. /\ TypeOK /\ Places /\ TakesTurns /\ Turns(t) /\ "counter" \in Var /\ "flag" \in Var
        /\ test \in {"pingpong", "handoff"}
    BY DEF TurnInv, Wellformed, Playing, TakesTurns, Var
  <1>1. /\ buffer[t]["counter"] # NoStore /\ UNCHANGED <<program, n, main, pc, i>>
        /\ mem' = [mem EXCEPT !["counter"] = buffer[t]["counter"]]
        /\ buffer' = [buffer EXCEPT ![t]["counter"] = NoStore]
    BY DEF Drain, threads
  <1>2. pc[t] = "barrier" /\ Mine(t) /\ buffer[t]["counter"] = mem["counter"] + 1
    BY <1>0, <1>1 DEF Turns, Counts
  <1>3. Playing' = Playing
    BY <1>1 DEF Playing, TakesTurns, test
  <1>4. ~Counted(t) /\ Counted(t)'
    BY <1>0, <1>1, <1>2 DEF Counted, TypeOK
  <1>5. \A u \in Thread : i[u] \in Nat /\ Moved(u) \in Nat
    BY <1>0, RoundsAssumption DEF TypeOK, Moved
  <1>6. Score % 2 = t - 1
    <2>1. CASE test = "pingpong"
      BY <1>2, <2>1 DEF Score, Mine
    <2>2. CASE test = "handoff"
      <3>1. buffer[t]["flag"] = NoStore
        BY <1>0, <1>2, <2>2 DEF Turns, Hands
      <3> QED BY <1>0, <1>2, <1>4, <2>2, <3>1 DEF Turns, Hands, Score
    <2> QED BY <1>0, <2>1, <2>2
  <1>7. Moves[t] < Rounds
    <2>1. i[t] < Rounds
      BY <1>0, <1>2 DEF Places, InRound
    <2>2. Moved(t) = i[t]
      BY <1>4, <1>5 DEF Moved
    <2> QED BY <2>1, <2>2 DEF Moves
  <1>8. Score' = Score + 1
    BY <1>0, <1>1, <1>2, <1>3 DEF Score, TypeOK
  <1>9. Moves' = [Moves EXCEPT ![t] = @ + 1]
    <2>1. Moved(t)' = Moved(t) + 1
      BY <1>1, <1>4, <1>5 DEF Moved
    <2>2. ASSUME NEW u \in Thread, u # t PROVE Moved(u)' = Moved(u)
      <3>1. Counted(u)' = Counted(u)
        BY <1>0, <1>1, <2>2 DEF Counted, TypeOK
      <3> QED BY <1>1, <3>1 DEF Moved
    <2> QED BY <1>3, <2>1, <2>2 DEF Moves
  <1> QED BY <1>6, <1>7, <1>8, <1>9

\* Where a test begins or ends, the game is a new one.
LEMMA NewGames ==
  ASSUME TurnInv, Create \/ (Join /\ n < Len(TestsOf(program)))
  PROVE  Score' = 0 /\ Moves' = [t \in Thread |-> 0]
  <1>1. CASE Create
    <2>1. mem'["counter"] = 0
      BY <1>1 DEF Create, TurnInv, Fresh, Zero, Var, memory
    <2>2. ASSUME NEW t \in Thread PROVE Moved(t)' = 0
      <3>1. i'[t] = 0
        BY <1>1 DEF Create, TurnInv, Wellformed, Places
      <3>2. ~Counted(t)'
        BY <1>1 DEF Create, Counted, Loop
      <3> QED BY <3>1, <3>2 DEF Moved
    <2> QED BY <2>1, <2>2 DEF Score, Moves
  <1>2. CASE Join /\ n < Len(TestsOf(program))
    <2>1. ~Playing'
      BY <1>2 DEF Join, Playing
    <2> QED BY <2>1 DEF Score, Moves
  <1> QED BY <1>1, <1>2

LEMMA InitGame == Init => Game!Init
  <1> SUFFICES ASSUME Init PROVE Game!Init
    OBVIOUS
  <1>1. ~Playing
    BY DEF Init, Playing
  <1> QED BY <1>1 DEF Game!Init, Thread

LEMMA NextGame == TurnInv /\ [Next]_vars => [Game!Next]_(Game!game)
  <1> SUFFICES ASSUME TurnInv, [Next]_vars PROVE [Game!Next]_(Game!game)
    OBVIOUS
  <1>0. Wellformed /\ TypeOK /\ \A t \in Thread : Turns(t)
    BY DEF TurnInv, Wellformed
  <1>1. ASSUME Score' = Score, Moves' = Moves PROVE UNCHANGED Game!game
    BY <1>1 DEF Game!game, Score, Moves
  <1>2. CASE UNCHANGED vars
    <2>1. \A t \in Thread : Moved(t)' = Moved(t)
      BY <1>2 DEF vars, memory, threads, Moved, Counted
    <2> QED BY <1>1, <1>2, <2>1, Stutters DEF vars, memory
  <1>3. ASSUME NEW t \in Thread, Step(t) PROVE UNCHANGED Game!game
    <2>1. ASSUME TakesTurns, NEW u \in Thread PROVE Moved(u)' = Moved(u)
      <3>1. CASE u = t
        BY <1>0, <1>3, <2>1, <3>1, StepMoved
      <3>2. CASE u # t
        BY <1>0, <1>3, <3>2, StepFrame DEF Moved, Counted
      <3> QED BY <3>1, <3>2
    <2> QED BY <1>0, <1>1, <1>3, <2>1, StepFrame, Stutters DEF Playing
  <1>4. ASSUME NEW t \in Thread, NEW v \in Var, Drain(t, v) PROVE [Game!Next]_(Game!game)
    <2>1. CASE v = "counter" /\ Playing
      <3>1. /\ Score % 2 = t - 1 /\ Moves[t] < Rounds /\ Score' = Score + 1
            /\ Moves' = [Moves EXCEPT ![t] = @ + 1]
        BY <1>4, <2>1, DrainMoves
      <3>2. Game!Move(t)
        BY <3>1 DEF Game!Move, Game!HasTurn, Score, Moves
      <3> QED BY <3>2 DEF Game!Next, Thread
    <2>2. CASE ~Playing
      BY <1>1, <1>4, <2>2, Stutters DEF Drain
    <2>3. CASE v # "counter"
      <3>1. mem'["counter"] = mem["counter"]
        BY <1>0, <1>4, <2>3 DEF Drain, TypeOK, Var
      <3>2. ASSUME NEW u \in Thread PROVE Moved(u)' = Moved(u)
        <4>1. buffer'[u]["counter"] = buffer[u]["counter"]
          BY <1>0, <1>4, <2>3 DEF Drain, TypeOK, Var
        <4> QED BY <1>4, <4>1 DEF Drain, threads, Moved, Counted
      <3> QED BY <1>1, <1>4, <3>1, <3>2, Stutters DEF Drain
    <2> QED BY <2>1, <2>2, <2>3
  <1>5. ASSUME Create \/ (Join /\ n < Len(TestsOf(program))) PROVE Game!Next
    <2>1. Score' = 0 /\ Moves' = [t \in Thread |-> 0]
      BY <1>5, NewGames
    <2>2. Game!NewGame
      BY <2>1 DEF Game!NewGame, Score, Moves, Thread
    <2> QED BY <2>2 DEF Game!Next
  <1>6. ASSUME Join, ~(n < Len(TestsOf(program))) PROVE UNCHANGED Game!game
    <2>1. main = "join" /\ main' = "finished" /\ UNCHANGED <<program, n, mem, i, buffer, pc>>
      BY <1>6 DEF Join
    <2>2. \A t \in Thread : Moved(t)' = Moved(t)
      BY <2>1 DEF Moved, Counted
    <2> QED BY <1>1, <2>1, <2>2, Stutters
  <1> QED BY <1>2, <1>3, <1>4, <1>5, <1>6 DEF Next

\* In both ping-pong tests the counter in memory is a game of turns: no
\* increment is lost and none is made out of turn, for any number of rounds.
THEOREM CounterIsGame == Spec => ImplementsTurns
  <1>1. Spec => [][Game!Next]_(Game!game)
    BY InitTurns, NextTurns, NextGame, PTL DEF Spec
  <1> QED BY <1>1, InitGame, PTL DEF ImplementsTurns, Game!Spec, Spec

-----------------------------------------------------------------------------
(* What the tests leave in memory.                                         *)

Going == main # "create"
CellsOf(t) == {Cells(t)[k] : k \in 1 .. Len(Cells(t))}

\* The variables that thread t writes in the test.
Writes(t, v) == \/ v \in CellsOf(t)
                \/ Greets /\ t = 2 /\ v = Greeting
                \/ test = "handoff" /\ v = "flag"
                \/ test = "pingpong" /\ v = "done"

\* The tests in which no variable is incremented by both threads.
OwnVars == test \in {"false_sharing", "padded", "extreme_false", "extreme_padded"}

LEMMA SameTest ==
  ASSUME UNCHANGED <<program, n>>
  PROVE  /\ test' = test /\ TakesTurns' = TakesTurns /\ Greets' = Greets
         /\ HasBarrier' = HasBarrier /\ OwnVars' = OwnVars /\ Greeting' = Greeting
         /\ \A t \in Thread : Cells(t)' = Cells(t)
         /\ \A t \in Thread : \A v \in Var : Writes(t, v)' = Writes(t, v)
  <1>1. test' = test
    BY DEF test
  <1>2. /\ TakesTurns' = TakesTurns /\ Greets' = Greets
        /\ HasBarrier' = HasBarrier /\ OwnVars' = OwnVars /\ Greeting' = Greeting
    BY <1>1 DEF TakesTurns, Greets, HasBarrier, OwnVars, Greeting
  <1>3. \A t \in Thread : Cells(t)' = Cells(t)
    BY <1>1 DEF Cells
  <1>4. \A t \in Thread : \A v \in Var : Writes(t, v)' = Writes(t, v)
    BY <1>1, <1>2, <1>3 DEF Writes, CellsOf
  <1> QED BY <1>1, <1>2, <1>3, <1>4

\* A store changes what its thread reads of its variable, and no other value.
LEMMA ReadAfterWrite ==
  ASSUME TypeOK, NEW t \in Thread, NEW v \in Var, NEW x \in Nat, Write(t, v, x), mem' = mem
  PROVE  /\ Read(t, v)' = x /\ buffer'[t][v] = x
         /\ \A u \in Thread, w \in Var : u # t \/ w # v =>
              Read(u, w)' = Read(u, w) /\ buffer'[u][w] = buffer[u][w]
  <1>1. /\ buffer'[t][v] = x
        /\ \A u \in Thread, w \in Var : u # t \/ w # v => buffer'[u][w] = buffer[u][w]
    BY DEF TypeOK, Write
  <1>2. x # NoStore
    BY DEF NoStore
  <1> QED BY <1>1, <1>2 DEF Read

\* A store that reaches memory changes what the other thread reads of its
\* variable, and nothing for the thread that made it.
LEMMA ReadAfterDrain ==
  ASSUME TypeOK, NEW t \in Thread, NEW v \in Var, Drain(t, v)
  PROVE  /\ buffer[t][v] \in Nat /\ mem'[v] = buffer[t][v] /\ buffer'[t][v] = NoStore
         /\ \A w \in Var : w # v => mem'[w] = mem[w]
         /\ \A u \in Thread, w \in Var : u # t \/ w # v => buffer'[u][w] = buffer[u][w]
         /\ \A u \in Thread, w \in Var : u = t \/ w # v => Read(u, w)' = Read(u, w)
         /\ \A u \in Thread : u # t => Read(u, v)' \in {Read(u, v), buffer[t][v]}
  <1>1. /\ buffer[t][v] \in Nat /\ mem'[v] = buffer[t][v] /\ buffer'[t][v] = NoStore
        /\ \A w \in Var : w # v => mem'[w] = mem[w]
        /\ \A u \in Thread, w \in Var : u # t \/ w # v => buffer'[u][w] = buffer[u][w]
    BY DEF TypeOK, Drain
  <1>2. buffer[t][v] # NoStore
    BY DEF Drain
  <1> QED BY <1>1, <1>2 DEF Read

\* What a step of a thread may store.
Stores(t, v, x) ==
  /\ Writes(t, v) /\ Write(t, v, x)
  /\ test = "pingpong" /\ v \in {"ready", "done"} => x = 1
  /\ test = "pingpong" /\ v = "done" => pc[t] = "leave"
  /\ v = "flag" /\ test = "handoff" => x \in {0, 1}

LEMMA StepStores ==
  ASSUME Wellformed, NEW t \in Thread, Step(t)
  PROVE  buffer' = buffer \/ \E v \in Var, x \in Nat : Stores(t, v, x)
  <1>1. CASE t = 2 /\ Greet
    <2>1. Greets /\ Greeting \in Var
      BY <1>1 DEF Greet, Goto, Wellformed, Places, Greeting, Var
    <2>2. Stores(t, Greeting, 1)
      BY <1>1, <2>1 DEF Greet, Stores, Writes, Greeting
    <2> QED BY <2>1, <2>2
  <1>2. CASE Store(t)
    <2>1. Cells(t)[j[t]] \in Var /\ j[t] \in 1 .. Len(Cells(t)) /\ reg[t] + 1 \in Nat
      <3>1. j[t] \in 1 .. Len(Cells(t))
        <4> DEFINE cells == Len(Cells(t))
        <4>1. cells \in {1, 4}
          BY CellsAreVars
        <4>2. j[t] \in 1 .. 4 /\ j[t] <= cells
          BY DEF Wellformed, TypeOK
        <4> HIDE DEF cells
        <4>3. j[t] \in 1 .. cells
          BY <4>1, <4>2
        <4> QED BY <4>3 DEF cells
      <3> QED BY <3>1, CellIsVar DEF Wellformed, TypeOK
    <2>2. TakesTurns => Cells(t)[j[t]] = "counter"
      BY OnlyCounter DEF Wellformed
    <2>3. Stores(t, Cells(t)[j[t]], reg[t] + 1)
      BY <1>2, <2>1, <2>2 DEF Store, Stores, Writes, CellsOf, TakesTurns
    <2> QED BY <2>1, <2>3
  <1>3. CASE Signal(t)
    <2>1. test = "handoff" /\ "flag" \in Var /\ 2 - t \in Nat /\ 2 - t \in {0, 1}
      BY <1>3 DEF Signal, Goto, Wellformed, Places, Var, Thread
    <2>2. Stores(t, "flag", 2 - t)
      BY <1>3, <2>1 DEF Signal, Signalled, Stores, Writes
    <2> QED BY <2>1, <2>2
  <1>4. CASE Leave(t) /\ test = "pingpong"
    <2>1. Stores(t, "done", 1) /\ "done" \in Var
      BY <1>4 DEF Leave, Goto, Stores, Writes, Var
    <2> QED BY <2>1
  <1> QED BY <1>1, <1>2, <1>3, <1>4
          DEF Step, AwaitGreeting, Wait, Check, Load, Barrier, Leave, memory

-----------------------------------------------------------------------------
(* A variable that nobody writes stays zero.                               *)

Untouched == /\ \A v \in Var : (\A t \in Thread : ~Writes(t, v)) => mem[v] = 0
             /\ \A t \in Thread, v \in Var : buffer[t][v] # NoStore => Writes(t, v)

LEMMA StepUntouched ==
  ASSUME Wellformed, Untouched, NEW t \in Thread, Step(t)
  PROVE  Untouched'
  <1>1. UNCHANGED <<program, n, mem>>
    BY StepFrame DEF Wellformed
  <1>2. CASE buffer' = buffer
    BY <1>1, <1>2, SameTest DEF Untouched
  <1>3. ASSUME NEW v \in Var, NEW x \in Nat, Stores(t, v, x) PROVE Untouched'
    <2>1. \A u \in Thread, w \in Var : u # t \/ w # v => buffer'[u][w] = buffer[u][w]
      BY <1>1, <1>3, ReadAfterWrite DEF Wellformed, Stores
    <2> QED BY <1>1, <1>3, <2>1, SameTest DEF Untouched, Stores
  <1> QED BY <1>2, <1>3, StepStores

LEMMA DrainUntouched ==
  ASSUME Wellformed, Untouched, NEW t \in Thread, NEW v \in Var, Drain(t, v)
  PROVE  Untouched'
  <1>1. UNCHANGED <<program, n>> /\ Writes(t, v)
    BY DEF Drain, Untouched
  <1>2. /\ buffer'[t][v] = NoStore
        /\ \A w \in Var : w # v => mem'[w] = mem[w]
        /\ \A u \in Thread, w \in Var : u # t \/ w # v => buffer'[u][w] = buffer[u][w]
    BY ReadAfterDrain DEF Wellformed
  <1> QED BY <1>1, <1>2, SameTest DEF Untouched

LEMMA EmptyUntouched ==
  ASSUME mem' = Zero, \A t \in Thread : buffer'[t] = Empty
  PROVE  Untouched'
  BY DEF Untouched, Zero, Empty

-----------------------------------------------------------------------------
(* A thread leaves when it has made its rounds; in the ping-pong also when *)
(* the other one has.                                                      *)

SomeoneThrough == \E t \in Thread : i[t] = Rounds
Finishing(t) == Going /\ pc[t] \in {"leave", "done"} =>
                  IF test = "pingpong" THEN SomeoneThrough ELSE i[t] = Rounds
ToldSo(t) == test = "pingpong" /\ Read(t, "done") # 0 => SomeoneThrough
Through == \A t \in Thread : Finishing(t) /\ ToldSo(t)

LEMMA StepPlaces ==
  ASSUME Wellformed, NEW t \in Thread, Step(t)
  PROVE  /\ main = "join" /\ i[t] \in 0 .. Rounds
         /\ \/ i'[t] = i[t]
            \/ i[t] < Rounds /\ i'[t] = i[t] + 1 /\ pc[t] \in {"store", "barrier", "signal"}
         /\ pc'[t] = "leave" => \/ i'[t] = Rounds
                                \/ test = "pingpong" /\ Read(t, "done") # 0
         /\ pc'[t] = "done" => pc[t] = "leave" /\ i'[t] = i[t]
  <1>0. TypeOK /\ i[t] \in 0 .. Rounds /\ Rounds \in Nat /\ Rounds # 0
    BY RoundsAssumption DEF Wellformed, TypeOK
  <1>1. main = "join"
    <2>1. pc[t] # "done"
      BY DEF Step, AwaitGreeting, Greet, Wait, Check, Load, Store, Barrier, Signal, Leave, Goto
    <2> QED BY <2>1 DEF Wellformed, Places
  <1>2. /\ \A m \in 0 .. Rounds : Loop(m) = "leave" => m = Rounds
        /\ \A m : Loop(m) # "done"
    BY DEF Loop
  <1>3. CASE t = 1 /\ AwaitGreeting
    BY <1>0, <1>1, <1>2, <1>3 DEF AwaitGreeting, Goto, TypeOK
  <1>4. CASE t = 2 /\ Greet
    BY <1>0, <1>1, <1>2, <1>4 DEF Greet, Goto, TypeOK
  <1>5. CASE Wait(t) \/ Check(t) \/ Load(t) \/ Leave(t)
    <2>1. ASSUME Check(t) PROVE pc[t] = "check" /\ test = "pingpong"
      BY <2>1 DEF Check, Goto, Wellformed, Places
    <2> QED BY <1>0, <1>1, <1>5, <2>1 DEF Wait, Check, Load, Leave, Goto, TypeOK
  <1>6. ASSUME NEW p \in {"store", "barrier", "signal"}, Goto(t, p, Loop(i[t] + 1)), NextRound(t)
        PROVE  /\ i[t] < Rounds /\ i'[t] = i[t] + 1 /\ pc[t] = p
               /\ pc'[t] = "leave" => i'[t] = Rounds
               /\ pc'[t] # "done"
    <2>1. i[t] < Rounds /\ pc'[t] = Loop(i[t] + 1) /\ i'[t] = i[t] + 1 /\ pc[t] = p
      BY <1>0, <1>6 DEF Goto, NextRound, Wellformed, Places, InRound, TypeOK
    <2>2. i[t] + 1 \in 0 .. Rounds
      BY <1>0, <2>1
    <2> QED BY <1>2, <2>1, <2>2
  <1>7. CASE Store(t)
    <2>1. CASE j[t] < Len(Cells(t)) \/ HasBarrier
      <3>1. i' = i /\ \E q \in {"load", "barrier"} : Goto(t, "store", q)
        BY <1>7, <2>1 DEF Store
      <3> QED BY <1>0, <1>1, <3>1 DEF Goto, TypeOK
    <2>2. CASE ~(j[t] < Len(Cells(t))) /\ ~HasBarrier
      <3>1. Goto(t, "store", Loop(i[t] + 1)) /\ NextRound(t)
        BY <1>7, <2>2 DEF Store
      <3> QED BY <1>0, <1>1, <1>6, <3>1
    <2> QED BY <2>1, <2>2
  <1>8. CASE Barrier(t)
    <2>1. CASE test = "handoff"
      <3>1. i' = i /\ Goto(t, "barrier", "signal")
        BY <1>8, <2>1 DEF Barrier
      <3> QED BY <1>0, <1>1, <3>1 DEF Goto, TypeOK
    <2>2. CASE test # "handoff"
      <3>1. Goto(t, "barrier", Loop(i[t] + 1)) /\ NextRound(t)
        BY <1>8, <2>2 DEF Barrier
      <3> QED BY <1>0, <1>1, <1>6, <3>1
    <2> QED BY <2>1, <2>2
  <1>9. CASE Signal(t)
    BY <1>0, <1>1, <1>6, <1>9 DEF Signal
  <1> QED BY <1>3, <1>4, <1>5, <1>7, <1>8, <1>9 DEF Step

LEMMA StepThrough ==
  ASSUME Wellformed, Through, NEW t \in Thread, Step(t)
  PROVE  Through'
  <1>1. /\ UNCHANGED <<program, n, main, mem>> /\ test' = test /\ TypeOK /\ "done" \in Var
        /\ \A u \in Thread \ {t} : pc'[u] = pc[u] /\ buffer'[u] = buffer[u] /\ i'[u] = i[u]
    BY StepFrame, SameTest DEF Wellformed, Var
  <1>2. SomeoneThrough => SomeoneThrough'
    <2> SUFFICES ASSUME NEW u \in Thread, i[u] = Rounds PROVE SomeoneThrough'
      BY DEF SomeoneThrough
    <2>1. i'[u] = Rounds
      BY <1>1, StepPlaces
    <2> QED BY <2>1 DEF SomeoneThrough
  <1>3. ASSUME NEW u \in Thread PROVE Finishing(u)'
    <2>1. CASE u = t
      BY <1>1, <1>2, <2>1, StepPlaces DEF Through, Finishing, ToldSo, Going, SomeoneThrough
    <2>2. CASE u # t
      BY <1>1, <1>2, <2>2 DEF Through, Finishing, Going
    <2> QED BY <2>1, <2>2
  <1>4. ASSUME NEW u \in Thread PROVE ToldSo(u)'
    <2>1. CASE u = t
      <3>1. CASE buffer' = buffer
        BY <1>1, <1>2, <3>1 DEF Read, Through, ToldSo
      <3>2. ASSUME NEW v \in Var, NEW x \in Nat, Stores(t, v, x) PROVE ToldSo(t)'
        <4>1. CASE v = "done" /\ test = "pingpong"
          <5>1. pc[t] = "leave" /\ Going
            BY <3>2, <4>1, StepPlaces DEF Stores, Going
          <5> QED BY <1>1, <1>2, <4>1, <5>1 DEF Through, Finishing, ToldSo
        <4>2. CASE v # "done"
          <5>1. Read(t, "done")' = Read(t, "done")
            BY <1>1, <3>2, <4>2, ReadAfterWrite DEF Stores
          <5> QED BY <1>1, <1>2, <5>1 DEF Through, ToldSo
        <4>3. CASE test # "pingpong"
          BY <1>1, <4>3 DEF ToldSo
        <4> QED BY <4>1, <4>2, <4>3
      <3> QED BY <2>1, <3>1, <3>2, StepStores
    <2>2. CASE u # t
      <3>1. Read(u, "done")' = Read(u, "done")
        BY <1>1, <2>2 DEF Read
      <3> QED BY <1>1, <1>2, <3>1 DEF Through, ToldSo
    <2> QED BY <2>1, <2>2
  <1> QED BY <1>3, <1>4 DEF Through

LEMMA DrainThrough ==
  ASSUME Wellformed, Through, NEW t \in Thread, NEW v \in Var, Drain(t, v)
  PROVE  Through'
  <1>1. /\ UNCHANGED <<program, n, main, pc, i>> /\ test' = test /\ TypeOK /\ "done" \in Var
        /\ SomeoneThrough' = SomeoneThrough
    BY SameTest DEF Wellformed, Var, Drain, threads, SomeoneThrough
  <1>2. ASSUME NEW u \in Thread PROVE Finishing(u)'
    BY <1>1 DEF Through, Finishing, Going
  <1>3. ASSUME NEW u \in Thread PROVE ToldSo(u)'
    <2>1. CASE u = t \/ v # "done"
      <3>1. Read(u, "done")' = Read(u, "done")
        BY <1>1, <2>1, ReadAfterDrain
      <3> QED BY <1>1, <3>1 DEF Through, ToldSo
    <2>2. CASE u # t /\ v = "done"
      <3>1. Read(u, "done")' \in {Read(u, "done"), buffer[t]["done"]}
        BY <1>1, <2>2, ReadAfterDrain
      <3>2. Read(t, "done") = buffer[t]["done"]
        BY <2>2 DEF Read, Drain
      <3> QED BY <1>1, <3>1, <3>2 DEF Through, ToldSo
    <2> QED BY <2>1, <2>2
  <1> QED BY <1>2, <1>3 DEF Through

\* Nothing is claimed of a test that has not begun.
LEMMA EmptyThrough ==
  ASSUME mem' = Zero, \A t \in Thread : buffer'[t] = Empty,
         main' = "create" \/ \A t \in Thread : pc'[t] \notin {"leave", "done"}
  PROVE  Through'
  <1>1. \A t \in Thread : Read(t, "done")' = 0
    BY DEF Read, Zero, Empty, Var
  <1> QED BY <1>1 DEF Through, Finishing, ToldSo, Going

-----------------------------------------------------------------------------
(* Threads that increment different variables.                             *)

Greeted(t) == IF Greets /\ t = 2 /\ pc[2] # "greet" THEN 1 ELSE 0
Made(t, k) == IF k < j[t] \/ pc[t] = "barrier" THEN 1 ELSE 0

\* What a thread reads of a variable of its own is what it has added to it.
Tallied(t) ==
  /\ \A v \in Var, k \in 1 .. Len(Cells(t)) : v = Cells(t)[k] =>
       /\ Read(t, v) = i[t] + Made(t, k) + Greeted(t)
       /\ pc[t] = "store" /\ k = j[t] => reg[t] = Read(t, v)
  /\ pc[t] = "greet" => i[t] = 0
Sole(t) == OwnVars /\ Going => Tallied(t)

LEMMA OwnCells ==
  ASSUME OwnVars, NEW t \in Thread, NEW k \in 1 .. Len(Cells(t))
  PROVE  /\ Cells(t)[k] \in Var
         /\ \A m \in 1 .. Len(Cells(t)) : Cells(t)[k] = Cells(t)[m] => k = m
         /\ \A u \in Thread : u # t => ~Writes(u, Cells(t)[k])
  <1>1. CASE test \in {"false_sharing", "padded"}
    <2>1. /\ Cells(1) = <<"a">> /\ Cells(2) = <<"b">> /\ Greeting = "b"
      BY <1>1 DEF Cells, Greeting
    <2> QED BY <1>1, <2>1 DEF Writes, CellsOf, Var, Thread
  <1>2. CASE test = "extreme_padded"
    <2>1. /\ Cells(1) = <<"a">> /\ Cells(2) = <<"b">> /\ ~Greets
      BY <1>2 DEF Cells, Greets
    <2> QED BY <1>2, <2>1 DEF Writes, CellsOf, Var, Thread
  <1>3. CASE test = "extreme_false"
    <2>1. /\ Cells(1) = <<"v0", "v1", "v2", "v3">> /\ Cells(2) = <<"v4", "v5", "v6", "v7">>
          /\ ~Greets
      BY <1>3 DEF Cells, Greets
    <2>2. CellsOf(1) = {"v0", "v1", "v2", "v3"} /\ CellsOf(2) = {"v4", "v5", "v6", "v7"}
      <3>1. /\ Len(Cells(1)) = 4 /\ Len(Cells(2)) = 4
            /\ Cells(1)[1] = "v0" /\ Cells(1)[2] = "v1" /\ Cells(1)[3] = "v2" /\ Cells(1)[4] = "v3"
            /\ Cells(2)[1] = "v4" /\ Cells(2)[2] = "v5" /\ Cells(2)[3] = "v6" /\ Cells(2)[4] = "v7"
        BY <2>1
      <3>2. 1 .. 4 = {1, 2, 3, 4}
        OBVIOUS
      <3> QED BY <3>1, <3>2 DEF CellsOf
    <2> QED BY <1>3, <2>1, <2>2 DEF Writes, Var, Thread
  <1> QED BY <1>1, <1>2, <1>3 DEF OwnVars

LEMMA AtCell ==
  ASSUME TypeOK, NEW t \in Thread
  PROVE  /\ Len(Cells(t)) \in Nat /\ j[t] \in 1 .. Len(Cells(t)) /\ i[t] \in Nat /\ reg[t] \in Nat
         /\ \A k \in 1 .. Len(Cells(t)) : Made(t, k) \in {0, 1} /\ Greeted(t) \in {0, 1}
  <1> DEFINE cells == Len(Cells(t))
  <1>1. cells \in {1, 4}
    BY CellsAreVars
  <1>2. j[t] \in 1 .. 4 /\ j[t] <= cells /\ i[t] \in Nat /\ reg[t] \in Nat
    BY RoundsAssumption DEF TypeOK
  <1> HIDE DEF cells
  <1>3. j[t] \in 1 .. cells
    BY <1>1, <1>2
  <1>4. cells \in Nat
    BY <1>1
  <1> QED BY <1>2, <1>3, <1>4 DEF Made, Greeted, cells

LEMMA OwnSole ==
  ASSUME Wellformed, NEW t \in Thread, Tallied(t), OwnVars, Step(t)
  PROVE  Tallied(t)'
  <1>0. /\ UNCHANGED <<program, n, main, mem>> /\ TypeOK /\ OwnVars' = OwnVars
        /\ Greets' = Greets /\ Cells(t)' = Cells(t) /\ ~TakesTurns /\ HasBarrier
        /\ \A u \in Thread \ {t} : pc'[u] = pc[u]
    BY StepFrame, SameTest DEF Wellformed, OwnVars, TakesTurns, HasBarrier
  <1> PICK C : C = Cells(t)
    OBVIOUS
  <1> DEFINE last == Len(C)
  <1>1. /\ last \in Nat /\ j[t] \in 1 .. last /\ i[t] \in Nat /\ reg[t] \in Nat
        /\ \A k \in 1 .. last : C[k] \in Var /\ \A m \in 1 .. last : C[k] = C[m] => k = m
        /\ \A k \in 1 .. last : Made(t, k) \in {0, 1} /\ Greeted(t) \in {0, 1}
    BY <1>0, AtCell, OwnCells
  <1>2. \A k \in 1 .. last : Read(t, C[k]) = i[t] + Made(t, k) + Greeted(t)
    BY <1>1 DEF Tallied
  <1>3. ASSUME pc'[t] # "greet",
               \A k \in 1 .. last :
                 /\ Read(t, C[k])' = i'[t] + Made(t, k)' + Greeted(t)'
                 /\ pc'[t] = "store" /\ k = j'[t] => reg'[t] = Read(t, C[k])'
        PROVE  Tallied(t)'
    <2>1. Cells(t)' = C
      BY <1>0
    <2> QED BY <1>3, <2>1 DEF Tallied
  <1>4. \A m \in 0 .. Rounds : Loop(m) \in {"leave", "load"}
    BY <1>0 DEF Loop
  <1>5. 0 \in 0 .. Rounds
    BY RoundsAssumption
  <1> HIDE DEF last
  <1>6. ASSUME pc[t] # "barrier", pc[t] # "greet", UNCHANGED <<buffer, i, j>>,
               pc'[t] \notin {"barrier", "greet", "store"}
        PROVE  Tallied(t)'
    <2>1. \A k \in 1 .. last : Read(t, C[k])' = Read(t, C[k]) /\ Made(t, k)' = Made(t, k)
      BY <1>0, <1>6 DEF Read, Made
    <2>2. Greeted(t)' = Greeted(t)
      BY <1>0, <1>6 DEF Greeted
    <2> QED BY <1>2, <1>3, <1>6, <2>1, <2>2
  <1>7. CASE t = 1 /\ AwaitGreeting
    <2>1. pc[t] = "greet" /\ pc'[t] \in {"leave", "load"} /\ UNCHANGED <<buffer, i, j>>
      BY <1>0, <1>4, <1>5, <1>7 DEF AwaitGreeting, Goto, TypeOK, memory
    <2>2. \A k \in 1 .. last : Read(t, C[k])' = Read(t, C[k]) /\ Made(t, k)' = Made(t, k)
      BY <1>0, <2>1 DEF Read, Made
    <2>3. Greeted(t)' = Greeted(t)
      BY <1>7 DEF Greeted
    <2> QED BY <1>2, <1>3, <2>1, <2>2, <2>3
  <1>8. CASE t = 2 /\ Greet
    <2>1. /\ pc[t] = "greet" /\ pc'[t] \in {"leave", "load"} /\ Write(t, Greeting, 1)
          /\ UNCHANGED <<i, j>>
      BY <1>0, <1>4, <1>5, <1>8 DEF Greet, Goto, TypeOK
    <2>2. Greets /\ i[t] = 0 /\ j[t] = 1
      BY <2>1 DEF Wellformed, Places, Tallied, Incrementing
    <2>3. C = <<"b">> /\ Greeting = "b" /\ "b" \in Var
      BY <1>0, <1>8, <2>2 DEF Cells, Greeting, OwnVars, Greets, Var
    <2>4. Read(t, "b")' = 1
      BY <1>0, <2>1, <2>3, ReadAfterWrite
    <2>5. Greeted(t)' = 1
      BY <1>0, <1>8, <2>1, <2>2 DEF Greeted
    <2>6. last = 1 /\ C[1] = "b"
      BY <2>3 DEF last
    <2>7. Made(t, 1)' = 0
      BY <2>1, <2>2 DEF Made
    <2> QED BY <1>3, <2>1, <2>2, <2>4, <2>5, <2>6, <2>7
  <1>9. CASE Wait(t) \/ Check(t) \/ Signal(t)
    BY <1>0, <1>9 DEF Wait, Check, Signal, Goto, Wellformed, Places, OwnVars
  <1>10. CASE Load(t)
    <2>1. /\ pc[t] = "load" /\ pc'[t] = "store" /\ UNCHANGED <<buffer, i, j>>
          /\ reg'[t] = Read(t, C[j[t]])
      BY <1>0, <1>10 DEF Load, Goto, TypeOK, memory
    <2>2. \A k \in 1 .. last : Read(t, C[k])' = Read(t, C[k]) /\ Made(t, k)' = Made(t, k)
      BY <1>0, <2>1 DEF Read, Made
    <2>3. Greeted(t)' = Greeted(t)
      BY <1>0, <2>1 DEF Greeted
    <2> QED BY <1>1, <1>2, <1>3, <2>1, <2>2, <2>3
  <1>11. CASE Store(t)
    <2> PICK h : h = j[t]
      OBVIOUS
    <2> PICK x : x = reg[t] + 1
      OBVIOUS
    <2> PICK v : v = C[h]
      OBVIOUS
    <2>1. /\ pc[t] = "store" /\ i' = i /\ h \in 1 .. last /\ v \in Var
          /\ x \in Nat /\ x = Read(t, v) + 1
      <3>1. pc[t] = "store" /\ h \in 1 .. last /\ v \in Var /\ x \in Nat
        BY <1>0, <1>1, <1>11 DEF Store, Goto
      <3>2. i' = i
        BY <1>0, <1>11 DEF Store
      <3>3. reg[t] = Read(t, v)
        BY <3>1 DEF Tallied, last
      <3> QED BY <3>1, <3>2, <3>3
    <2>2. /\ Read(t, v)' = Read(t, v) + 1
          /\ \A k \in 1 .. last : k # h => Read(t, C[k])' = Read(t, C[k])
      <3>1. Write(t, v, x)
        BY <1>11 DEF Store, Write
      <3>2. /\ Read(t, v)' = x
            /\ \A w \in Var : w # v => Read(t, w)' = Read(t, w)
        BY <1>0, <2>1, <3>1, ReadAfterWrite
      <3>3. \A k \in 1 .. last : k # h => C[k] \in Var /\ C[k] # v
        BY <1>1, <2>1
      <3> QED BY <2>1, <3>2, <3>3
    <2>3. Greeted(t)' = Greeted(t)
      BY <1>0, <1>11 DEF Greeted, Store, Goto, TypeOK
    <2>4. ASSUME NEW k \in 1 .. last
          PROVE  Made(t, k)' = (IF k = j[t] THEN 1 ELSE Made(t, k)) /\ Made(t, j[t]) = 0
      <3>1. CASE j[t] < last
        <4>1. pc'[t] = "load" /\ j'[t] = j[t] + 1
          BY <1>0, <1>11, <3>1 DEF Store, Goto, TypeOK, last
        <4> QED BY <1>1, <2>1, <4>1 DEF Made
      <3>2. CASE ~(j[t] < last)
        <4>1. pc'[t] = "barrier" /\ j' = j
          BY <1>0, <1>11, <3>2 DEF Store, Goto, TypeOK, last
        <4> QED BY <1>1, <2>1, <3>2, <4>1 DEF Made
      <3> QED BY <3>1, <3>2
    <2>5. pc'[t] \in {"load", "barrier"}
      BY <1>0, <1>11 DEF Store, Goto, TypeOK
    <2>6. ASSUME NEW k \in 1 .. last PROVE Read(t, C[k])' = i'[t] + Made(t, k)' + Greeted(t)'
      <3>1. CASE k = j[t]
        <4>1. Read(t, C[k]) = i[t] + 0 + Greeted(t)
          BY <1>2, <2>4, <3>1
        <4>2. Made(t, k)' = 1 /\ Read(t, C[k])' = Read(t, C[k]) + 1
          <5>1. v = C[k]
            BY <3>1
          <5> QED BY <2>2, <2>4, <3>1, <5>1
        <4> QED BY <1>1, <2>1, <2>3, <4>1, <4>2
      <3>2. CASE k # j[t]
        BY <1>2, <2>1, <2>2, <2>3, <2>4, <3>2
      <3> QED BY <3>1, <3>2
    <2> QED BY <1>3, <2>5, <2>6
  <1>12. CASE Barrier(t)
    <2>1. pc[t] = "barrier" /\ Goto(t, "barrier", Loop(i[t] + 1)) /\ NextRound(t) /\ buffer' = buffer
      BY <1>0, <1>12 DEF Barrier, Goto, OwnVars, memory
    <2>2. i'[t] = i[t] + 1 /\ j'[t] = 1 /\ pc'[t] = Loop(i[t] + 1)
      BY <1>0, <2>1 DEF Goto, NextRound, TypeOK
    <2>3. i[t] + 1 \in 0 .. Rounds
      BY <1>1, <2>1, RoundsAssumption DEF Wellformed, Places, InRound
    <2>4. pc'[t] \in {"leave", "load"}
      BY <1>4, <2>2, <2>3
    <2>5. ASSUME NEW k \in 1 .. last
          PROVE  Made(t, k) = 1 /\ Made(t, k)' = 0 /\ Read(t, C[k])' = Read(t, C[k])
      BY <1>0, <2>1, <2>2, <2>4 DEF Made, Read
    <2>6. Greeted(t)' = Greeted(t)
      BY <1>0, <2>1, <2>4 DEF Greeted
    <2> QED BY <1>1, <1>2, <1>3, <2>2, <2>4, <2>5, <2>6
  <1>13. CASE Leave(t)
    <2>1. pc[t] = "leave" /\ pc'[t] = "done" /\ UNCHANGED <<buffer, i, j>>
      BY <1>0, <1>13 DEF Leave, Goto, TypeOK, OwnVars
    <2> QED BY <1>6, <2>1
  <1> QED BY <1>7, <1>8, <1>9, <1>10, <1>11, <1>12, <1>13 DEF Step

LEMMA StepKeepsJ ==
  ASSUME TypeOK, NEW t \in Thread, Step(t), NEW u \in Thread, u # t
  PROVE  j'[u] = j[u]
  BY DEF TypeOK, Step, AwaitGreeting, Greet, Wait, Check, Load, Store, Barrier, Signal, Leave,
         NextRound

\* What leaves a thread and what it reads of its own variables alone.
LEMMA SoleFramed ==
  ASSUME NEW t \in Thread, Tallied(t), UNCHANGED <<program, n>>,
         pc'[t] = pc[t], reg'[t] = reg[t], i'[t] = i[t], j'[t] = j[t],
         \A v \in Var : v \in CellsOf(t) => Read(t, v)' = Read(t, v)
  PROVE  Tallied(t)'
  <1>1. Cells(t)' = Cells(t) /\ Greets' = Greets
    BY SameTest
  <1>2. \A k \in 1 .. Len(Cells(t)) : Made(t, k)' = Made(t, k) /\ Cells(t)[k] \in CellsOf(t)
    BY DEF Made, CellsOf
  <1>3. Greeted(t)' = Greeted(t)
    <2>1. CASE t = 2
      BY <1>1, <2>1 DEF Greeted
    <2>2. CASE t # 2
      BY <2>2 DEF Greeted
    <2> QED BY <2>1, <2>2
  <1> QED BY <1>1, <1>2, <1>3 DEF Tallied

LEMMA StepSole ==
  ASSUME Wellformed, NEW t \in Thread, Sole(t), NEW u \in Thread, Step(u)
  PROVE  Sole(t)'
  <1>1. /\ UNCHANGED <<program, n, main, mem>> /\ OwnVars' = OwnVars /\ Going' = Going /\ TypeOK
        /\ \A w \in Thread \ {u} :
             pc'[w] = pc[w] /\ reg'[w] = reg[w] /\ buffer'[w] = buffer[w] /\ i'[w] = i[w]
    BY StepFrame, SameTest DEF Wellformed, Going
  <1> SUFFICES ASSUME OwnVars, Tallied(t) PROVE Tallied(t)'
    BY <1>1 DEF Sole
  <1>2. CASE u = t
    BY <1>2, OwnSole
  <1>3. CASE u # t
    <2>1. \A v \in Var : Read(t, v)' = Read(t, v)
      BY <1>1, <1>3 DEF Read
    <2> QED BY <1>1, <1>3, <2>1, StepKeepsJ, SoleFramed
  <1> QED BY <1>2, <1>3

LEMMA DrainSole ==
  ASSUME Wellformed, Untouched, NEW t \in Thread, Sole(t),
         NEW u \in Thread, NEW v \in Var, Drain(u, v)
  PROVE  Sole(t)'
  <1>1. /\ UNCHANGED <<program, n, main, pc, reg, i, j>> /\ OwnVars' = OwnVars /\ Going' = Going
        /\ TypeOK
    BY SameTest DEF Drain, threads, Wellformed, Going
  <1> SUFFICES ASSUME OwnVars, Tallied(t) PROVE Tallied(t)'
    BY <1>1 DEF Sole
  <1>2. Writes(u, v)
    BY DEF Drain, Untouched
  <1>3. u = t \/ v \notin CellsOf(t)
    BY <1>2, OwnCells DEF CellsOf
  <1>4. \A w \in Var : w \in CellsOf(t) => Read(t, w)' = Read(t, w)
    BY <1>1, <1>3, ReadAfterDrain
  <1> QED BY <1>1, <1>4, SoleFramed

LEMMA CreateSole ==
  ASSUME Wellformed, Fresh, Create, NEW t \in Thread
  PROVE  Sole(t)'
  <1>1. /\ UNCHANGED <<program, n, memory, i, j, reg>> /\ OwnVars' = OwnVars /\ Greets' = Greets
        /\ i[t] = 0 /\ j[t] = 1
        /\ pc' = [u \in Thread |-> IF Greets THEN "greet" ELSE Loop(0)]
    BY SameTest DEF Create, Wellformed, Places, Incrementing
  <1>2. \A v \in Var : Read(t, v)' = 0
    BY <1>1 DEF Fresh, Create, Read, memory, Zero, Empty
  <1>3. ~TakesTurns /\ OwnVars => Loop(0) = "load"
    BY RoundsAssumption DEF Loop
  <1>4. ASSUME OwnVars PROVE Tallied(t)'
    <2>1. ~TakesTurns
      BY <1>4 DEF OwnVars, TakesTurns
    <2>2. pc'[t] = IF Greets THEN "greet" ELSE "load"
      BY <1>1, <1>3, <1>4, <2>1
    <2>3. \A k \in 1 .. Len(Cells(t)') : Made(t, k)' = 0
      BY <1>1, <2>2 DEF Made
    <2>4. Greeted(t)' = 0
      BY <1>1, <2>2 DEF Greeted
    <2>5. i'[t] = 0 /\ pc'[t] # "store"
      BY <1>1, <2>2
    <2> QED BY <1>2, <2>3, <2>4, <2>5 DEF Tallied
  <1> QED BY <1>1, <1>4 DEF Sole

-----------------------------------------------------------------------------
(* The flags of the two tests that take turns.                             *)

Said(t) ==
  /\ test = "pingpong" =>
       /\ \A v \in {"ready", "done"} : mem[v] \in {0, 1} /\ buffer[t][v] \in {NoStore, 1}
       /\ Going /\ t = 2 /\ pc[t] # "greet" => Read(t, "ready") = 1
       /\ Going /\ pc[t] = "done" => Read(t, "done") = 1
  /\ test = "handoff" => mem["flag"] \in {0, 1} /\ buffer[t]["flag"] \in {NoStore, 0, 1}

LEMMA StepSaid ==
  ASSUME Wellformed, NEW t \in Thread, Said(t), NEW u \in Thread, Step(u)
  PROVE  Said(t)'
  <1>1. /\ UNCHANGED <<program, n, main, mem>> /\ test' = test /\ Going' = Going /\ TypeOK
        /\ \A w \in Thread \ {u} : pc'[w] = pc[w] /\ buffer'[w] = buffer[w]
        /\ "ready" \in Var /\ "done" \in Var /\ "flag" \in Var
    BY StepFrame, SameTest DEF Wellformed, Going, Var
  <1>2. CASE u # t
    <2>1. Read(t, "ready")' = Read(t, "ready") /\ Read(t, "done")' = Read(t, "done")
      BY <1>1, <1>2 DEF Read
    <2> QED BY <1>1, <1>2, <2>1 DEF Said
  <1>3. CASE u = t
    <2>1. ASSUME test = "pingpong", NEW v \in {"ready", "done"}
          PROVE  buffer'[t][v] \in {NoStore, 1}
      <3>1. ASSUME NEW w \in Var, NEW x \in Nat, Stores(t, w, x)
            PROVE  buffer'[t][v] \in {NoStore, 1}
        <4>1. /\ buffer'[t][w] = x
              /\ w # v => buffer'[t][v] = buffer[t][v]
          BY <1>1, <2>1, <3>1, ReadAfterWrite DEF Stores
        <4> QED BY <2>1, <3>1, <4>1 DEF Said, Stores
      <3> QED BY <1>3, <2>1, <3>1, StepStores DEF Said
    <2>2. ASSUME test = "handoff" PROVE buffer'[t]["flag"] \in {NoStore, 0, 1}
      <3>1. ASSUME NEW w \in Var, NEW x \in Nat, Stores(t, w, x)
            PROVE  buffer'[t]["flag"] \in {NoStore, 0, 1}
        <4>1. /\ buffer'[t][w] = x
              /\ w # "flag" => buffer'[t]["flag"] = buffer[t]["flag"]
          BY <1>1, <3>1, ReadAfterWrite DEF Stores
        <4> QED BY <2>2, <3>1, <4>1 DEF Said, Stores
      <3> QED BY <1>3, <2>2, <3>1, StepStores DEF Said
    <2>3. ASSUME test = "pingpong", t = 2, Going, pc'[t] # "greet" PROVE Read(t, "ready")' = 1
      <3>1. CASE Greet
        <4>1. Write(2, "ready", 1)
          BY <2>3, <3>1 DEF Greet, Greeting
        <4> QED BY <1>1, <2>3, <4>1, ReadAfterWrite
      <3>2. CASE ~Greet
        <4>1. pc[t] # "greet"
          BY <1>3, <2>3, <3>2 DEF Step, Wait, Check, Load, Store, Barrier, Signal, Leave, Goto
        <4>2. Read(t, "ready") = 1
          BY <2>3, <4>1 DEF Said
        <4>3. CASE buffer' = buffer
          BY <1>1, <4>2, <4>3 DEF Read
        <4>4. ASSUME NEW w \in Var, NEW x \in Nat, Stores(t, w, x) PROVE Read(t, "ready")' = 1
          <5>1. /\ w # "ready" => Read(t, "ready")' = Read(t, "ready")
                /\ Read(t, w)' = x
            BY <1>1, <4>4, ReadAfterWrite DEF Stores
          <5> QED BY <2>3, <4>2, <4>4, <5>1 DEF Stores
        <4> QED BY <1>3, <4>3, <4>4, StepStores
      <3> QED BY <3>1, <3>2
    <2>4. ASSUME test = "pingpong", pc'[t] = "done" PROVE Read(t, "done")' = 1
      <3>1. pc[t] = "leave"
        BY <1>3, <2>4, StepPlaces
      <3>2. Leave(t)
        BY <1>3, <3>1 DEF Step, AwaitGreeting, Greet, Wait, Check, Load, Store, Barrier, Signal, Goto
      <3>3. Write(t, "done", 1)
        BY <2>4, <3>2 DEF Leave
      <3> QED BY <1>1, <3>3, ReadAfterWrite
    <2> QED BY <1>1, <2>1, <2>2, <2>3, <2>4 DEF Said
  <1> QED BY <1>2, <1>3

LEMMA DrainSaid ==
  ASSUME Wellformed, NEW t \in Thread, Said(t), NEW u \in Thread, Said(u),
         NEW v \in Var, Drain(u, v)
  PROVE  Said(t)'
  <1>1. /\ UNCHANGED <<program, n, main, pc>> /\ test' = test /\ Going' = Going /\ TypeOK
        /\ "ready" \in Var /\ "done" \in Var /\ "flag" \in Var /\ buffer[u][v] # NoStore
    BY SameTest DEF Drain, threads, Wellformed, Going, Var
  <1>2. /\ mem'[v] = buffer[u][v] /\ buffer'[u][v] = NoStore
        /\ \A w \in Var : w # v => mem'[w] = mem[w]
        /\ \A s \in Thread, w \in Var : s # u \/ w # v => buffer'[s][w] = buffer[s][w]
        /\ \A s \in Thread, w \in Var : s = u \/ w # v => Read(s, w)' = Read(s, w)
        /\ \A s \in Thread : s # u => Read(s, v)' \in {Read(s, v), buffer[u][v]}
    BY <1>1, ReadAfterDrain
  <1>3. ASSUME test = "pingpong", NEW w \in {"ready", "done"}
        PROVE  mem'[w] \in {0, 1} /\ buffer'[t][w] \in {NoStore, 1}
    BY <1>1, <1>2, <1>3 DEF Said
  <1>4. ASSUME test = "handoff"
        PROVE  mem'["flag"] \in {0, 1} /\ buffer'[t]["flag"] \in {NoStore, 0, 1}
    BY <1>1, <1>2, <1>4 DEF Said
  <1>5. ASSUME test = "pingpong", NEW w \in {"ready", "done"}, Read(t, w) = 1
        PROVE  Read(t, w)' = 1
    <2>1. CASE t = u \/ w # v
      BY <1>1, <1>2, <1>5, <2>1
    <2>2. CASE t # u /\ w = v
      <3>1. Read(t, w)' \in {Read(t, w), buffer[u][w]}
        BY <1>1, <1>2, <2>2
      <3>2. buffer[u][w] = 1
        BY <1>1, <1>5, <2>2 DEF Said
      <3> QED BY <1>5, <3>1, <3>2
    <2> QED BY <2>1, <2>2
  <1> QED BY <1>1, <1>3, <1>4, <1>5 DEF Said

LEMMA EmptySaid ==
  ASSUME mem' = Zero, NEW t \in Thread, buffer'[t] = Empty,
         main' = "create" \/ (pc'[t] # "done" /\ (test' = "pingpong" => pc'[t] = "greet"))
  PROVE  Said(t)'
  BY DEF Said, Zero, Empty, Var, Going

-----------------------------------------------------------------------------
(* Two threads that increment one variable without turns.                  *)

Sum == i[1] + i[2]

\* No value is more than the rounds made.  A thread that has stored once reads
\* at least 1, so that all its later stores are of at least 2.
Races(t) ==
  /\ buffer[t]["counter"] # NoStore =>
       /\ buffer[t]["counter"] >= 1 /\ buffer[t]["counter"] <= Sum
       /\ i[t] >= 2 => buffer[t]["counter"] >= 2
  /\ i[t] >= 1 => Read(t, "counter") >= 1
  /\ pc[t] = "store" => reg[t] <= Sum /\ (i[t] >= 1 => reg[t] >= 1)

Contended == test = "contention" =>
  /\ mem["counter"] <= Sum /\ \A t \in Thread : Races(t)
  /\ (\A t \in Thread : i[t] >= 2) =>
       mem["counter"] >= 2 \/ \E t \in Thread : buffer[t]["counter"] # NoStore

\* The steps of the test: load, store and leave.
LEMMA ContentionSteps ==
  ASSUME Wellformed, test = "contention", NEW t \in Thread, Step(t)
  PROVE  \/ /\ pc[t] = "load" /\ reg'[t] = Read(t, "counter") /\ UNCHANGED <<buffer, i>>
         \/ /\ pc[t] = "store" /\ pc'[t] # "store" /\ buffer' = [buffer EXCEPT ![t]["counter"] = reg[t] + 1]
            /\ i' = [i EXCEPT ![t] = i[t] + 1]
         \/ /\ pc[t] = "leave" /\ pc'[t] # "store" /\ UNCHANGED <<buffer, i>>
  <1>0. /\ TypeOK /\ ~Greets /\ ~TakesTurns /\ ~HasBarrier /\ test # "pingpong" /\ test # "handoff"
    BY DEF Wellformed, Greets, TakesTurns, HasBarrier
  <1>1. Cells(t) = <<"counter">>
    BY DEF Cells
  <1>2. Len(Cells(t)) = 1 /\ Cells(t)[1] = "counter"
    BY <1>1
  <1>3. j[t] = 1
    <2>1. j[t] \in 1 .. Len(Cells(t))
      BY <1>0, AtCell
    <2> QED BY <1>2, <2>1
  <1>4. pc[t] \notin {"greet", "wait", "check", "barrier", "signal"}
    BY <1>0 DEF Wellformed, Places
  <1>5. \A m : Loop(m) # "store"
    BY DEF Loop
  <1>6. CASE Load(t)
    BY <1>0, <1>2, <1>3, <1>6 DEF Load, Goto, TypeOK, memory
  <1>7. CASE Store(t)
    <2>1. Goto(t, "store", Loop(i[t] + 1)) /\ NextRound(t)
      BY <1>0, <1>2, <1>3, <1>7 DEF Store
    <2> QED BY <1>0, <1>2, <1>3, <1>5, <1>7, <2>1 DEF Store, Write, Goto, NextRound, TypeOK
  <1>8. CASE Leave(t)
    BY <1>0, <1>8 DEF Leave, Goto, TypeOK
  <1> QED BY <1>4, <1>6, <1>7, <1>8
          DEF Step, AwaitGreeting, Greet, Wait, Check, Barrier, Signal, Goto

LEMMA StepContended ==
  ASSUME Wellformed, Contended, NEW t \in Thread, Step(t)
  PROVE  Contended'
  <1>1. /\ UNCHANGED <<program, n, main, mem>> /\ test' = test /\ TypeOK /\ "counter" \in Var
        /\ \A w \in Thread \ {t} :
             pc'[w] = pc[w] /\ reg'[w] = reg[w] /\ buffer'[w] = buffer[w] /\ i'[w] = i[w]
    BY StepFrame, SameTest DEF Wellformed, Var
  <1> SUFFICES ASSUME test = "contention" PROVE Contended'
    BY <1>1 DEF Contended
  <1>2. /\ \A u \in Thread : /\ i[u] \in Nat /\ reg[u] \in Nat
                             /\ buffer[u]["counter"] \in Nat \cup {NoStore}
        /\ mem["counter"] \in Nat /\ Sum \in Nat /\ i \in [Thread -> 0 .. Rounds]
    BY <1>1, RoundsAssumption DEF TypeOK, Sum, Thread
  <1>3. mem["counter"] <= Sum /\ \A u \in Thread : Races(u)
    BY DEF Contended
  <1>4. ASSUME UNCHANGED <<buffer, i>>, Races(t)' PROVE Contended'
    <2>1. Sum' = Sum
      BY <1>4 DEF Sum
    <2>2. ASSUME NEW u \in Thread, u # t PROVE Races(u)'
      BY <1>1, <1>3, <1>4, <2>1, <2>2 DEF Races, Read
    <2>3. \A u \in Thread : Races(u)'
      BY <1>4, <2>2
    <2> QED BY <1>1, <1>3, <1>4, <2>1, <2>3 DEF Contended
  <1>5. CASE pc[t] = "load" /\ reg'[t] = Read(t, "counter") /\ UNCHANGED <<buffer, i>>
    <2>1. Read(t, "counter") <= Sum /\ (i[t] >= 1 => Read(t, "counter") >= 1)
      BY <1>3 DEF Read, Races
    <2>2. Races(t)'
      BY <1>1, <1>3, <1>5, <2>1 DEF Races, Read, Sum
    <2> QED BY <1>4, <1>5, <2>2
  <1>6. CASE /\ pc[t] = "store" /\ pc'[t] # "store"
             /\ buffer' = [buffer EXCEPT ![t]["counter"] = reg[t] + 1]
             /\ i' = [i EXCEPT ![t] = i[t] + 1]
    <2>1. i'[t] = i[t] + 1 /\ buffer'[t]["counter"] = reg[t] + 1
      BY <1>1, <1>2, <1>6 DEF TypeOK
    <2>2. Sum' = Sum + 1
      BY <1>1, <1>2, <2>1 DEF Sum, Thread
    <2>3. reg[t] <= Sum /\ (i[t] >= 1 => reg[t] >= 1)
      BY <1>3, <1>6 DEF Races
    <2>4. buffer'[t]["counter"] # NoStore
      BY <1>2, <2>1 DEF NoStore
    <2>5. Races(t)'
      <3>1. /\ buffer'[t]["counter"] >= 1 /\ buffer'[t]["counter"] <= Sum'
            /\ i'[t] >= 2 => buffer'[t]["counter"] >= 2
        BY <1>2, <2>1, <2>2, <2>3
      <3>2. Read(t, "counter")' = buffer'[t]["counter"]
        BY <2>4 DEF Read
      <3> QED BY <1>6, <3>1, <3>2 DEF Races
    <2>6. ASSUME NEW u \in Thread, u # t PROVE Races(u)'
      <3>1. /\ pc'[u] = pc[u] /\ reg'[u] = reg[u] /\ buffer'[u] = buffer[u] /\ i'[u] = i[u]
            /\ mem' = mem
        BY <1>1, <2>6
      <3>2. Read(u, "counter")' = Read(u, "counter")
        BY <3>1 DEF Read
      <3>3. \A x \in Int : x <= Sum => x <= Sum'
        BY <1>2, <2>2
      <3> QED BY <1>2, <1>3, <3>1, <3>2, <3>3 DEF Races, NoStore
    <2>7. mem'["counter"] <= Sum'
      BY <1>1, <1>2, <1>3, <2>2
    <2>8. \A u \in Thread : Races(u)'
      BY <2>5, <2>6
    <2> QED BY <2>4, <2>7, <2>8 DEF Contended
  <1>7. CASE pc[t] = "leave" /\ pc'[t] # "store" /\ UNCHANGED <<buffer, i>>
    <2>1. Races(t)'
      BY <1>1, <1>3, <1>7 DEF Races, Read, Sum
    <2> QED BY <1>4, <1>7, <2>1
  <1> QED BY <1>5, <1>6, <1>7, ContentionSteps

LEMMA DrainContended ==
  ASSUME Wellformed, Contended, NEW t \in Thread, NEW v \in Var, Drain(t, v)
  PROVE  Contended'
  <1>1. /\ UNCHANGED <<program, n, main, pc, reg, i>> /\ test' = test /\ TypeOK /\ "counter" \in Var
        /\ Sum' = Sum /\ buffer[t][v] # NoStore
    BY SameTest DEF Drain, threads, Wellformed, Var, Sum
  <1>2. /\ buffer[t][v] \in Nat /\ mem'[v] = buffer[t][v] /\ buffer'[t][v] = NoStore
        /\ \A w \in Var : w # v => mem'[w] = mem[w]
        /\ \A s \in Thread, w \in Var : s # t \/ w # v => buffer'[s][w] = buffer[s][w]
        /\ \A s \in Thread, w \in Var : s = t \/ w # v => Read(s, w)' = Read(s, w)
        /\ \A s \in Thread : s # t => Read(s, v)' \in {Read(s, v), buffer[t][v]}
    BY <1>1, ReadAfterDrain
  <1> SUFFICES ASSUME test = "contention" PROVE Contended'
    BY <1>1 DEF Contended
  <1>3. mem["counter"] <= Sum /\ \A u \in Thread : Races(u)
    BY DEF Contended
  <1>4. CASE v # "counter"
    <2>1. /\ mem'["counter"] = mem["counter"]
          /\ \A u \in Thread : /\ buffer'[u]["counter"] = buffer[u]["counter"]
                               /\ Read(u, "counter")' = Read(u, "counter")
      BY <1>1, <1>2, <1>4
    <2>2. \A u \in Thread : Races(u)'
      BY <1>1, <1>3, <2>1 DEF Races
    <2> QED BY <1>1, <2>1, <2>2 DEF Contended
  <1>5. CASE v = "counter"
    <2>1. /\ buffer[t]["counter"] >= 1 /\ buffer[t]["counter"] <= Sum
          /\ i[t] >= 2 => buffer[t]["counter"] >= 2
      BY <1>1, <1>3, <1>5 DEF Races
    <2>2. ASSUME NEW u \in Thread PROVE Races(u)'
      <3>1. i[u] >= 1 => Read(u, "counter")' >= 1
        <4>1. Read(u, "counter")' \in {Read(u, "counter"), buffer[t]["counter"]}
          BY <1>1, <1>2, <1>5
        <4> QED BY <1>3, <2>1, <4>1 DEF Races
      <3>2. buffer'[u]["counter"] # NoStore => buffer'[u]["counter"] = buffer[u]["counter"]
        BY <1>1, <1>2, <1>5
      <3> QED BY <1>1, <1>3, <3>1, <3>2 DEF Races
    <2> QED BY <1>1, <1>2, <1>5, <2>1, <2>2 DEF Contended
  <1> QED BY <1>4, <1>5

LEMMA EmptyContended ==
  ASSUME mem' = Zero, \A t \in Thread : buffer'[t] = Empty /\ i'[t] = 0 /\ pc'[t] # "store"
  PROVE  Contended'
  <1>1. mem'["counter"] = 0 /\ \A t \in Thread : buffer'[t]["counter"] = NoStore
    BY DEF Zero, Empty, Var
  <1>2. Sum' = 0
    BY DEF Sum, Thread
  <1>3. \A t \in Thread : Races(t)'
    BY <1>1 DEF Races
  <1>4. ~ \A t \in Thread : i'[t] >= 2
    BY DEF Thread
  <1> QED BY <1>1, <1>2, <1>3, <1>4 DEF Contended

-----------------------------------------------------------------------------
(* All of it together, and what is left when both threads have returned.   *)

Counting == /\ Untouched /\ Through /\ Contended
            /\ \A t \in Thread : Sole(t) /\ Said(t)

\* What the game keeps: the score is the moves of both, who never are more
\* than one apart.
Played == /\ Score = Moves[1] + Moves[2] /\ Moves[1] - Moves[2] = Score % 2
          /\ \A t \in Thread : Moves[t] \in 0 .. Rounds

LEMMA NextPlayed == TurnInv /\ Played /\ [Next]_vars => Played'
  <1> SUFFICES ASSUME TurnInv, Played, [Next]_vars PROVE Played'
    OBVIOUS
  <1>1. [Game!Next]_(Game!game)
    BY NextGame
  <1>2. /\ DOMAIN Moves = Thread /\ 1 \in Thread /\ 2 \in Thread /\ Rounds \in Nat
        /\ Moves[1] \in Nat /\ Moves[2] \in Nat /\ Score \in Nat
        /\ Moves = [t \in Thread |-> Moves[t]]
    BY RoundsAssumption DEF Moves, Thread, Played
  <1>3. CASE UNCHANGED Game!game
    <2>1. Score' = Score /\ Moves' = Moves
      BY <1>3 DEF Game!game, Score, Moves
    <2> QED BY <2>1 DEF Played
  <1>4. CASE Game!NewGame
    <2>1. Score' = 0 /\ Moves' = [t \in Thread |-> 0]
      BY <1>4 DEF Game!NewGame, Score, Moves, Thread
    <2> QED BY <1>2, <2>1 DEF Played
  <1>5. ASSUME NEW t \in Thread, Game!Move(t) PROVE Played'
    <2>1. /\ Score % 2 = t - 1 /\ Moves[t] < Rounds /\ Score' = Score + 1
          /\ Moves' = [Moves EXCEPT ![t] = @ + 1]
      BY <1>5 DEF Game!Move, Game!HasTurn, Score, Moves
    <2> DEFINE a == Moves[1]
               b == Moves[2]
               s == Score
    <2>2. CASE t = 1
      <3>1. Moves'[1] = a + 1 /\ Moves'[2] = b
        BY <1>2, <2>1, <2>2
      <3>2. s = a + b /\ a - b = 0 /\ s % 2 = 0 /\ a < Rounds /\ a \in Nat /\ b \in 0 .. Rounds
        BY <1>2, <2>1, <2>2 DEF Played
      <3> HIDE DEF a, b, s
      <3>3. (s + 1) % 2 = 1
        BY <3>2
      <3>4. s + 1 = (a + 1) + b /\ (a + 1) - b = (s + 1) % 2 /\ a + 1 \in 0 .. Rounds
        BY <1>2, <3>2, <3>3
      <3> QED BY <2>1, <3>1, <3>2, <3>4 DEF Played, Thread, s
    <2>3. CASE t = 2
      <3>1. Moves'[1] = a /\ Moves'[2] = b + 1
        BY <1>2, <2>1, <2>3
      <3>2. s = a + b /\ a - b = 1 /\ s % 2 = 1 /\ b < Rounds /\ b \in Nat /\ a \in 0 .. Rounds
        BY <1>2, <2>1, <2>3 DEF Played
      <3> HIDE DEF a, b, s
      <3>3. (s + 1) % 2 = 0
        BY <1>2, <3>2
      <3>4. s + 1 = a + (b + 1) /\ a - (b + 1) = (s + 1) % 2 /\ b + 1 \in 0 .. Rounds
        BY <1>2, <3>2, <3>3
      <3> QED BY <2>1, <3>1, <3>2, <3>4 DEF Played, Thread, s
    <2> QED BY <2>2, <2>3 DEF Thread
  <1> QED BY <1>1, <1>3, <1>4, <1>5 DEF Game!Next, Thread

LEMMA InitCounting == Init => Counting /\ Played
  <1> SUFFICES ASSUME Init PROVE Counting /\ Played
    OBVIOUS
  <1>1. /\ \A v \in Var : mem[v] = 0 /\ \A t \in Thread : buffer[t][v] = NoStore
        /\ ~Going /\ \A t \in Thread : i[t] = 0 /\ pc[t] = "done"
        /\ "ready" \in Var /\ "done" \in Var /\ "flag" \in Var /\ "counter" \in Var
    BY DEF Init, Zero, Empty, Going, Var
  <1>2. \A t \in Thread, v \in Var : Read(t, v) = 0
    BY <1>1 DEF Read
  <1>3. Untouched /\ Through
    BY <1>1, <1>2 DEF Untouched, Through, Finishing, ToldSo
  <1>4. Contended
    BY <1>1 DEF Contended, Races, Sum, Thread
  <1>5. \A t \in Thread : Sole(t) /\ Said(t)
    BY <1>1 DEF Sole, Said
  <1>6. Score = 0 /\ Moves = [t \in Thread |-> 0]
    BY <1>1 DEF Score, Moves, Playing, Going
  <1>7. Played
    BY <1>6, RoundsAssumption DEF Played, Thread
  <1> QED BY <1>3, <1>4, <1>5, <1>7 DEF Counting

LEMMA CountingFramed ==
  ASSUME Counting, UNCHANGED <<program, n, mem, buffer, pc, i, j, reg>>, Going' = Going
  PROVE  Counting'
  <1>1. /\ test' = test /\ OwnVars' = OwnVars
        /\ \A t \in Thread : \A v \in Var : Writes(t, v)' = Writes(t, v)
    BY SameTest
  <1>2. \A t \in Thread : \A v \in Var : Read(t, v)' = Read(t, v)
    BY DEF Read
  <1>3. Untouched'
    BY <1>1 DEF Counting, Untouched
  <1>4. Through'
    BY <1>1, <1>2 DEF Counting, Through, Finishing, ToldSo, SomeoneThrough, Var
  <1>5. Contended'
    BY <1>1, <1>2 DEF Counting, Contended, Races, Sum, Var
  <1>6. ASSUME NEW t \in Thread PROVE Sole(t)'
    BY <1>1, <1>2, SoleFramed DEF Counting, Sole
  <1>7. ASSUME NEW t \in Thread PROVE Said(t)'
    BY <1>1, <1>2 DEF Counting, Said, Var
  <1> QED BY <1>3, <1>4, <1>5, <1>6, <1>7 DEF Counting

LEMMA NextCounting == TurnInv /\ Counting /\ [Next]_vars => Counting'
  <1> SUFFICES ASSUME TurnInv, Counting, [Next]_vars PROVE Counting'
    OBVIOUS
  <1>0. Wellformed /\ Fresh /\ \A t \in Thread : Sole(t) /\ Said(t)
    BY DEF TurnInv, Counting
  <1>1. CASE UNCHANGED vars
    BY <1>1, CountingFramed DEF vars, memory, threads, Going
  <1>2. ASSUME NEW t \in Thread, Step(t) PROVE Counting'
    <2>1. Untouched' /\ Through' /\ Contended'
      BY <1>0, <1>2, StepUntouched, StepThrough, StepContended DEF Counting
    <2>2. \A u \in Thread : Sole(u)' /\ Said(u)'
      BY <1>0, <1>2, StepSole, StepSaid
    <2> QED BY <2>1, <2>2 DEF Counting
  <1>3. ASSUME NEW t \in Thread, NEW v \in Var, Drain(t, v) PROVE Counting'
    <2>1. Untouched' /\ Through' /\ Contended'
      BY <1>0, <1>3, DrainUntouched, DrainThrough, DrainContended DEF Counting
    <2>2. \A u \in Thread : Sole(u)' /\ Said(u)'
      BY <1>0, <1>3, DrainSole, DrainSaid DEF Counting
    <2> QED BY <2>1, <2>2 DEF Counting
  <1>4. CASE Create
    <2>1. /\ mem' = Zero /\ \A t \in Thread : buffer'[t] = Empty
          /\ \A t \in Thread : i'[t] = 0
      BY <1>0, <1>4 DEF Fresh, Create, memory, Wellformed, Places
    <2>2. \A t \in Thread : pc'[t] \in {"greet", "wait", "load"}
      BY <1>4, RoundsAssumption DEF Create, Loop
    <2>3. \A t \in Thread : test' = "pingpong" => pc'[t] = "greet"
      <3>1. test' = test
        BY <1>4, SameTest DEF Create
      <3> QED BY <1>4, <3>1 DEF Create, Greets
    <2>4. Untouched' /\ Through' /\ Contended'
      BY <2>1, <2>2, EmptyUntouched, EmptyThrough, EmptyContended
    <2>5. \A t \in Thread : Said(t)'
      BY <2>1, <2>2, <2>3, EmptySaid
    <2>6. \A t \in Thread : Sole(t)'
      BY <1>0, <1>4, CreateSole
    <2> QED BY <2>4, <2>5, <2>6 DEF Counting
  <1>5. CASE Join
    <2>1. CASE n < Len(TestsOf(program))
      <3>1. /\ mem' = Zero /\ main' = "create"
            /\ \A t \in Thread : buffer'[t] = Empty /\ pc'[t] = "done" /\ i'[t] = 0
        BY <1>5, <2>1 DEF Join, Returned, Drained
      <3>2. Untouched' /\ Through' /\ Contended'
        BY <3>1, EmptyUntouched, EmptyThrough, EmptyContended
      <3>3. \A t \in Thread : Said(t)'
        BY <3>1, EmptySaid
      <3>4. \A t \in Thread : Sole(t)'
        BY <3>1 DEF Sole, Going
      <3> QED BY <3>2, <3>3, <3>4 DEF Counting
    <2>2. CASE ~(n < Len(TestsOf(program)))
      BY <1>5, <2>2, CountingFramed DEF Join, Going
    <2> QED BY <2>1, <2>2
  <1> QED BY <1>1, <1>2, <1>3, <1>4, <1>5 DEF Next

LEMMA FinalTurns ==
  ASSUME TurnInv, Counting, Played, main = "join", Returned, TakesTurns
  PROVE  IF test = "pingpong" THEN mem["counter"] \in {2 * Rounds - 1, 2 * Rounds}
         ELSE mem["counter"] = 2 * Rounds /\ mem["flag"] = 0
  <1>0. /\ TypeOK /\ Rounds \in Nat /\ "counter" \in Var /\ "flag" \in Var
        /\ \A t \in Thread : /\ pc[t] = "done" /\ buffer[t]["flag"] = NoStore
                             /\ i[t] \in 0 .. Rounds /\ Turns(t)
    BY RoundsAssumption DEF TurnInv, Wellformed, Var, Returned, Drained, Empty, TypeOK
  <1>1. \A t \in Thread : ~Counted(t) /\ Moved(t) = i[t]
    BY <1>0 DEF Counted, Moved
  <1>2. Playing /\ Going
    BY DEF Playing, Going
  <1>3. Score = mem["counter"] /\ Moves[1] = i[1] /\ Moves[2] = i[2] /\ 1 \in Thread /\ 2 \in Thread
    BY <1>1, <1>2 DEF Score, Moves, Thread
  <1>4. PICK a, b, s : a = i[1] /\ b = i[2] /\ s = mem["counter"]
    OBVIOUS
  <1>5. s = a + b /\ a - b = s % 2 /\ a \in 0 .. Rounds /\ b \in 0 .. Rounds /\ s \in Nat
    BY <1>0, <1>3, <1>4 DEF Played, TypeOK
  <1>6. CASE test = "pingpong"
    <2>1. SomeoneThrough
      BY <1>0, <1>2, <1>3, <1>6 DEF Counting, Through, Finishing
    <2>2. a = Rounds \/ b = Rounds
      BY <1>4, <2>1 DEF SomeoneThrough, Thread
    <2>3. s % 2 \in {0, 1}
      BY <1>5
    <2>4. s \in {2 * Rounds - 1, 2 * Rounds}
      BY <1>0, <1>5, <2>2, <2>3
    <2> QED BY <1>4, <1>6, <2>4
  <1>7. CASE test = "handoff"
    <2>1. a = Rounds /\ b = Rounds
      BY <1>0, <1>2, <1>3, <1>4, <1>7 DEF Counting, Through, Finishing
    <2>2. s = 2 * Rounds /\ s % 2 = 0
      BY <1>0, <1>5, <2>1
    <2>3. mem["flag"] \in {0, 1}
      BY <1>3, <1>7 DEF Counting, Said
    <2>4. mem["flag"] # 1
      <3> SUFFICES ASSUME mem["flag"] = 1 PROVE FALSE
        OBVIOUS
      <3>1. Mine(2)
        BY <1>7 DEF Mine
      <3>2. mem["counter"] % 2 = 1
        BY <1>0, <1>1, <1>3, <1>7, <3>1 DEF Turns, Hands
      <3> QED BY <1>4, <2>2, <3>2
    <2> QED BY <1>4, <1>7, <2>2, <2>3, <2>4
  <1> QED BY <1>6, <1>7 DEF TakesTurns

\* A variable of its own: a thread leaves its rounds in it, and the greeting.
LEMMA FinalSole ==
  ASSUME Wellformed, Counting, main = "join", Returned, OwnVars,
         NEW t \in Thread, NEW v \in Var, v \in CellsOf(t)
  PROVE  mem[v] = Rounds + (IF Greets /\ t = 2 THEN 1 ELSE 0)
  <1>1. pc[t] = "done" /\ buffer[t][v] = NoStore /\ j[t] = 1
    BY DEF Returned, Drained, Empty, Wellformed, Places, Incrementing
  <1>2. i[t] = Rounds
    BY <1>1 DEF Counting, Through, Finishing, Going, OwnVars
  <1>3. PICK k \in 1 .. Len(Cells(t)) : v = Cells(t)[k]
    BY DEF CellsOf
  <1>4. Read(t, v) = i[t] + Made(t, k) + Greeted(t)
    BY <1>3 DEF Counting, Sole, Going, Tallied
  <1>5. Made(t, k) = 0
    BY <1>1, <1>3, AtCell DEF Made, Wellformed
  <1>6. Greeted(t) = IF Greets /\ t = 2 THEN 1 ELSE 0
    BY <1>1 DEF Greeted
  <1>7. Rounds \in Nat /\ Greeted(t) \in Nat
    BY <1>6, RoundsAssumption
  <1> QED BY <1>1, <1>2, <1>4, <1>5, <1>6, <1>7 DEF Read

LEMMA FinalContended ==
  ASSUME Wellformed, Counting, main = "join", Returned, test = "contention"
  PROVE  mem["counter"] \in (IF Rounds = 1 THEN 1 ELSE 2) .. 2 * Rounds
  <1>1. \A t \in Thread : /\ pc[t] = "done" /\ buffer[t]["counter"] = NoStore /\ i[t] = Rounds
    BY DEF Returned, Drained, Empty, Var, Counting, Through, Finishing, Going
  <1>2. Rounds \in Nat /\ Rounds # 0 /\ mem["counter"] \in Nat /\ 1 \in Thread /\ 2 \in Thread
    BY RoundsAssumption DEF Wellformed, TypeOK, Var, Thread
  <1>3. mem["counter"] <= 2 * Rounds
    <2>1. Sum = Rounds + Rounds /\ mem["counter"] <= Sum
      BY <1>1, <1>2 DEF Sum, Counting, Contended
    <2> QED BY <1>2, <2>1
  <1>4. mem["counter"] >= 1
    <2>1. Read(1, "counter") >= 1
      BY <1>1, <1>2 DEF Counting, Contended, Races
    <2> QED BY <1>1, <1>2, <2>1 DEF Read
  <1>5. Rounds # 1 => mem["counter"] >= 2
    <2>1. Rounds # 1 => Rounds >= 2
      BY <1>2
    <2> QED BY <1>1, <2>1 DEF Counting, Contended
  <1> QED BY <1>2, <1>3, <1>4, <1>5

LEMMA Final ==
  ASSUME TurnInv, Counting, Played, main = "join", Returned, NEW v \in Var
  PROVE  mem[v] \in Expected(v)
  <1>0. /\ Wellformed /\ test \in TestName /\ 1 \in Thread /\ 2 \in Thread
        /\ \A t \in Thread : pc[t] = "done" /\ buffer[t][v] = NoStore
    BY TestIsName DEF TurnInv, Wellformed, TypeOK, Thread, Returned, Drained, Empty
  <1>1. (\A t \in Thread : ~Writes(t, v)) => mem[v] = 0
    BY DEF Counting, Untouched
  <1>2. CASE test \in {"false_sharing", "padded"}
    <2>1. CellsOf(1) = {"a"} /\ CellsOf(2) = {"b"} /\ Greeting = "b" /\ Greets /\ OwnVars
      <3>1. Cells(1) = <<"a">> /\ Cells(2) = <<"b">>
        BY <1>2 DEF Cells
      <3> QED BY <1>2, <3>1 DEF CellsOf, Greeting, Greets, OwnVars
    <2>2. CASE v = "a"
      <3>1. mem[v] = Rounds + 0
        BY <1>0, <2>1, <2>2, FinalSole
      <3> QED BY <1>2, <2>2, <3>1, RoundsAssumption DEF Expected
    <2>3. CASE v = "b"
      BY <1>0, <1>2, <2>1, <2>3, FinalSole DEF Expected
    <2>4. CASE v \notin {"a", "b"}
      BY <1>1, <1>2, <2>1, <2>4 DEF Writes, Expected, Thread
    <2> QED BY <2>2, <2>3, <2>4
  <1>3. CASE test = "extreme_padded"
    <2>1. CellsOf(1) = {"a"} /\ CellsOf(2) = {"b"} /\ ~Greets /\ OwnVars
      <3>1. Cells(1) = <<"a">> /\ Cells(2) = <<"b">>
        BY <1>3 DEF Cells
      <3> QED BY <1>3, <3>1 DEF CellsOf, Greets, OwnVars
    <2>2. CASE v \in {"a", "b"}
      <3>1. mem[v] = Rounds + 0
        BY <1>0, <2>1, <2>2, FinalSole
      <3> QED BY <1>3, <2>2, <3>1, RoundsAssumption DEF Expected
    <2>4. CASE v \notin {"a", "b"}
      BY <1>1, <1>3, <2>1, <2>4 DEF Writes, Expected, Thread
    <2> QED BY <2>2, <2>4
  <1>4. CASE test = "extreme_false"
    <2>1. /\ CellsOf(1) = {"v0", "v1", "v2", "v3"} /\ CellsOf(2) = {"v4", "v5", "v6", "v7"}
          /\ ~Greets /\ OwnVars
      <3>1. /\ Cells(1) = <<"v0", "v1", "v2", "v3">> /\ Cells(2) = <<"v4", "v5", "v6", "v7">>
        BY <1>4 DEF Cells
      <3>2. /\ Len(Cells(1)) = 4 /\ Len(Cells(2)) = 4
            /\ Cells(1)[1] = "v0" /\ Cells(1)[2] = "v1" /\ Cells(1)[3] = "v2" /\ Cells(1)[4] = "v3"
            /\ Cells(2)[1] = "v4" /\ Cells(2)[2] = "v5" /\ Cells(2)[3] = "v6" /\ Cells(2)[4] = "v7"
        BY <3>1
      <3>3. 1 .. 4 = {1, 2, 3, 4}
        OBVIOUS
      <3>4. CellsOf(1) = {"v0", "v1", "v2", "v3"} /\ CellsOf(2) = {"v4", "v5", "v6", "v7"}
        BY <3>2, <3>3 DEF CellsOf
      <3> QED BY <1>4, <3>4 DEF Greets, OwnVars
    <2>2. CASE v \in CellsOf(1) \cup CellsOf(2)
      <3>1. mem[v] = Rounds + 0
        BY <1>0, <2>1, <2>2, FinalSole
      <3> QED BY <1>4, <2>1, <2>2, <3>1, RoundsAssumption DEF Expected
    <2>3. CASE v \notin CellsOf(1) \cup CellsOf(2)
      <3>1. mem[v] = 0
        BY <1>1, <1>4, <2>1, <2>3 DEF Writes, Thread
      <3> QED BY <1>4, <2>1, <2>3, <3>1 DEF Expected, Var
    <2> QED BY <2>2, <2>3
  <1>5. ASSUME test \in {"pingpong", "handoff", "contention"}
        PROVE  \A t \in Thread : CellsOf(t) = {"counter"}
    <2>1. \A t \in Thread : Cells(t) = <<"counter">>
      BY <1>5 DEF Cells
    <2> QED BY <2>1 DEF CellsOf
  <1>6. CASE test = "pingpong"
    <2>1. CASE v = "counter"
      BY <1>6, <2>1, FinalTurns DEF TakesTurns, Expected
    <2>2. CASE v \in {"ready", "done"}
      <3>1. Read(2, v) = 1
        BY <1>0, <1>6, <2>2 DEF Counting, Said, Going
      <3> QED BY <1>0, <1>6, <2>2, <3>1 DEF Read, Expected
    <2>3. CASE v \notin {"counter", "ready", "done"}
      BY <1>1, <1>5, <1>6, <2>3 DEF Writes, Greeting, Expected
    <2> QED BY <2>1, <2>2, <2>3
  <1>7. CASE test = "handoff"
    <2>1. CASE v \in {"counter", "flag"}
      BY <1>7, <2>1, FinalTurns DEF TakesTurns, Expected
    <2>2. CASE v \notin {"counter", "flag"}
      BY <1>1, <1>5, <1>7, <2>2 DEF Writes, Greets, Expected
    <2> QED BY <2>1, <2>2
  <1>8. CASE test = "contention"
    <2>1. CASE v = "counter"
      BY <1>0, <1>8, <2>1, FinalContended DEF Expected
    <2>2. CASE v # "counter"
      BY <1>1, <1>5, <1>8, <2>2 DEF Writes, Greets, Expected
    <2> QED BY <2>1, <2>2
  <1> QED BY <1>0, <1>2, <1>3, <1>4, <1>6, <1>7, <1>8 DEF TestName

\* What every test leaves in memory, for any number of rounds: nothing is lost
\* of variables that are not shared, whether or not they share a cache line,
\* nor of one that is incremented in turns; the ping-pong may be one short;
\* and without turns at least two increments are left.
THEOREM CountsRight == Spec => []FinalCounts
  <1>1. TurnInv /\ Counting /\ Played => FinalCounts
    BY Final DEF FinalCounts
  <1> QED BY <1>1, InitTurns, NextTurns, InitCounting, NextCounting, NextPlayed, PTL DEF Spec

-----------------------------------------------------------------------------
(* Nobody waits for ever on somebody who waits: the guards of the actions, *)
(* written out.                                                            *)

CanGo(t) == \/ pc[t] \in {"check", "load", "store", "signal", "leave"}
            \/ pc[t] = "greet" /\ (t = 2 \/ Read(1, Greeting) # 0)
            \/ pc[t] = "wait" /\ (Turn(t) \/ (test = "pingpong" /\ Read(t, "done") # 0))
            \/ pc[t] = "barrier" /\ Drained(t)
            \/ ~Drained(t)   \* a store of its own reaches memory

NoStandstill == main = "join" => Returned \/ \E t \in Thread : CanGo(t)

\* Once thread 2 has greeted and its store has arrived, thread 1 sees it.
LEMMA GreetingSeen ==
  ASSUME TurnInv, Counting, main = "join", \A t \in Thread : Drained(t), Greets, pc[2] # "greet"
  PROVE  Read(1, Greeting) # 0
  <1>1. /\ \A t \in Thread, v \in Var : Read(t, v) = mem[v]
        /\ Greeting \in Var /\ 1 \in Thread /\ 2 \in Thread /\ TypeOK
    BY DEF Drained, Empty, Read, Greeting, Var, Thread, TurnInv, Wellformed
  <1>2. CASE test = "pingpong"
    BY <1>1, <1>2 DEF Counting, Said, Going, Greeting
  <1>3. CASE test # "pingpong"
    <2>1. OwnVars /\ Cells(2) = <<"b">> /\ Greeting = "b"
      BY <1>3 DEF Greets, OwnVars, Cells, Greeting
    <2>2. 1 \in 1 .. Len(Cells(2)) /\ Cells(2)[1] = "b"
      BY <2>1
    <2>3. Read(2, "b") = i[2] + Made(2, 1) + Greeted(2)
      BY <1>1, <2>1, <2>2 DEF Counting, Sole, Going, Tallied
    <2>4. Greeted(2) = 1 /\ Made(2, 1) \in {0, 1} /\ i[2] \in Nat
      BY <1>1, <2>2, AtCell DEF Greeted
    <2> QED BY <1>1, <2>1, <2>3, <2>4
  <1> QED BY <1>2, <1>3

\* A thread that has gone with the turn still its own has told so, or the
\* other one has made its rounds too.
LEMMA NobodyKeepsTurn ==
  ASSUME TurnInv, Counting, Played, main = "join", \A t \in Thread : Drained(t),
         NEW t \in Thread, pc[t] = "wait", NEW u \in Thread, u # t, Mine(u), pc[u] = "done"
  PROVE  test = "pingpong" /\ Read(t, "done") # 0
  <1>1. /\ \A w \in Thread, v \in Var : Read(w, v) = mem[v] /\ buffer[w][v] = NoStore
        /\ "done" \in Var /\ "flag" \in Var /\ "counter" \in Var /\ TypeOK /\ TakesTurns /\ Going
        /\ \A w \in Thread : Turns(w)
    BY DEF Drained, Empty, Read, Var, TurnInv, Wellformed, Places, Going
  <1>2. CASE test = "pingpong"
    <2>1. Read(u, "done") = 1
      BY <1>1, <1>2 DEF Counting, Said
    <2> QED BY <1>1, <1>2, <2>1
  <1>3. CASE test = "handoff"
    <2>1. i[u] = Rounds /\ i[t] < Rounds
      BY <1>1, <1>3 DEF Counting, Through, Finishing, TurnInv, Wellformed, Places, InRound
    <2>2. ~Counted(u) /\ ~Counted(t) /\ Moved(u) = i[u] /\ Moved(t) = i[t]
      <3>1. ~Counted(u) /\ ~Counted(t)
        BY DEF Counted
      <3> QED BY <1>1, <3>1, RoundsAssumption DEF Moved, TypeOK
    <2>3. mem["counter"] % 2 = u - 1
      BY <1>1, <1>3, <2>2 DEF Turns, Hands
    <2>4. Playing /\ Score = mem["counter"] /\ Moves[u] = i[u] /\ Moves[t] = i[t]
      BY <1>1, <2>2 DEF Playing, Going, Score, Moves
    <2>5. PICK a, b : a = i[u] /\ b = i[t]
      OBVIOUS
    <2>6. a = Rounds /\ b < Rounds /\ a \in Nat /\ b \in Nat /\ Rounds \in Nat
      BY <1>1, <2>1, <2>5, RoundsAssumption DEF TypeOK
    <2>7. CASE u = 1
      <3>1. a - b = 0
        BY <2>3, <2>4, <2>5, <2>7 DEF Played, Thread
      <3> QED BY <2>6, <3>1
    <2>8. CASE u = 2
      <3>1. b - a = 1
        BY <2>3, <2>4, <2>5, <2>8 DEF Played, Thread
      <3> QED BY <2>6, <3>1
    <2> QED BY <2>7, <2>8 DEF Thread
  <1> QED BY <1>1, <1>2, <1>3 DEF TakesTurns

LEMMA SomebodyGoes ==
  ASSUME TurnInv, Counting, Played
  PROVE  NoStandstill
  <1> SUFFICES ASSUME main = "join", ~Returned, \A t \in Thread : ~CanGo(t) PROVE FALSE
    BY DEF NoStandstill
  <1>1. /\ \A t \in Thread : Drained(t) /\ pc[t] \in {"greet", "wait", "done"}
        /\ TypeOK /\ 1 \in Thread /\ 2 \in Thread
    BY DEF CanGo, TurnInv, Wellformed, TypeOK, Thread
  <1>2. \A t \in Thread, v \in Var : Read(t, v) = mem[v]
    BY <1>1 DEF Drained, Empty, Read
  <1>3. \A t \in Thread : pc[t] # "greet"
    <2>1. pc[2] # "greet"
      BY <1>1 DEF CanGo
    <2>2. pc[1] # "greet"
      BY <1>1, <2>1, GreetingSeen DEF CanGo, TurnInv, Wellformed, Places
    <2> QED BY <2>1, <2>2 DEF Thread
  <1>4. PICK t \in Thread : pc[t] = "wait"
    BY <1>1, <1>3 DEF Returned
  <1>5. TakesTurns /\ "counter" \in Var /\ "flag" \in Var
    BY <1>4 DEF TurnInv, Wellformed, Places, Var
  <1>6. \A w \in Thread : Turn(w) = Mine(w)
    BY <1>2, <1>5 DEF Turn, Mine
  <1>7. ~Mine(t)
    BY <1>4, <1>6 DEF CanGo
  <1>8. PICK u \in Thread : u # t /\ Mine(u)
    <2>1. CASE test = "pingpong"
      <3>1. mem["counter"] % 2 \in {0, 1}
        BY <1>1, <1>5 DEF TypeOK
      <3> QED BY <1>1, <1>7, <2>1, <3>1 DEF Mine, Thread
    <2>2. CASE test = "handoff"
      <3>1. mem["flag"] \in {0, 1}
        BY <1>1, <2>2 DEF Counting, Said
      <3> QED BY <1>1, <1>7, <2>2, <3>1 DEF Mine, Thread
    <2> QED BY <1>5, <2>1, <2>2 DEF TakesTurns
  <1>9. pc[u] = "done"
    BY <1>1, <1>3, <1>6, <1>8 DEF CanGo
  <1> QED BY <1>1, <1>4, <1>8, <1>9, NobodyKeepsTurn DEF CanGo

\* While a test runs and has not come to its end, one of its threads can go
\* on, for any number of rounds: no wait for a turn, a flag, a greeting or an
\* empty buffer is for something that only a waiting thread could bring.
THEOREM NobodyStuck == Spec => []NoStandstill
  BY SomebodyGoes, InitTurns, NextTurns, InitCounting, NextCounting, NextPlayed, PTL DEF Spec
=============================================================================
