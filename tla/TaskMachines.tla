----------------------------- MODULE TaskMachines -----------------------------
(***************************************************************************)
(* What preemption promises the tasks of bootloader_stage2.asm: each runs  *)
(* its loop as if it had a processor of its own.                           *)
(***************************************************************************)
EXTENDS Integers

CONSTANTS Task,      \* the tasks
          Modulus    \* counters wrap here

VARIABLES at,        \* task -> the instruction it is at
          eax,       \* task -> its register
          counter,   \* task -> its counter in memory
          shown      \* task -> what it wrote to the screen

vars == <<at, eax, counter, shown>>

Init ==
  /\ at = [t \in Task |-> "inc"]
  /\ eax = [t \in Task |-> 0]
  /\ counter = [t \in Task |-> 0]
  /\ shown = [t \in Task |-> 0]

Goto(t, label) == at' = [at EXCEPT ![t] = label]

Inc(t) ==
  /\ at[t] = "inc" /\ Goto(t, "load")
  /\ counter' = [counter EXCEPT ![t] = (@ + 1) % Modulus]
  /\ UNCHANGED <<eax, shown>>

Load(t) ==
  /\ at[t] = "load" /\ Goto(t, "show")
  /\ eax' = [eax EXCEPT ![t] = counter[t]]
  /\ UNCHANGED <<counter, shown>>

Show(t) ==
  /\ at[t] = "show" /\ Goto(t, "sti")
  /\ shown' = [shown EXCEPT ![t] = eax[t]]
  /\ UNCHANGED <<eax, counter>>

Sti(t) ==
  /\ at[t] = "sti" /\ Goto(t, "inc")
  /\ UNCHANGED <<eax, counter, shown>>

Next == \E t \in Task : Inc(t) \/ Load(t) \/ Show(t) \/ Sti(t)

Spec == Init /\ [][Next]_vars
=============================================================================
