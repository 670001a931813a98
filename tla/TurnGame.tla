------------------------------- MODULE TurnGame -------------------------------
(***************************************************************************)
(* What the two ping-pong tests promise of their counter: two players move *)
(* in turn, player 1 first, each move adds one, and none is ever lost.     *)
(***************************************************************************)
EXTENDS Naturals

CONSTANT Rounds  \* moves a player makes at most

VARIABLES score,  \* the counter
          moves   \* player -> moves made

game == <<score, moves>>

Init == score = 0 /\ moves = [t \in {1, 2} |-> 0]

HasTurn(t) == score % 2 = t - 1

Move(t) == /\ HasTurn(t) /\ moves[t] < Rounds
           /\ score' = score + 1
           /\ moves' = [moves EXCEPT ![t] = @ + 1]

NewGame == score' = 0 /\ moves' = [t \in {1, 2} |-> 0]

Next == NewGame \/ \E t \in {1, 2} : Move(t)

Spec == Init /\ [][Next]_game
=============================================================================
