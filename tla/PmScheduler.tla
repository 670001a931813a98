----------------------------- MODULE PmScheduler ------------------------------
(***************************************************************************)
(* The preemptive scheduler of bootloader_stage2.asm, built with           *)
(* ENABLE_PIC and ENABLE_SCHED: the timer interrupt saves the running      *)
(* task's registers on its own stack, scheduler_switch exchanges stack     *)
(* pointers, and popad/iretd resume whatever the new stack holds.          *)
(*                                                                         *)
(* A context is everything an interrupt saves: where the program is (at),  *)
(* the one register the tasks carry over an instruction (eax) and the      *)
(* interrupt flag.  A stack is the sequence of contexts saved on it, the   *)
(* oldest first; an ESP is a stack and a depth in it.  What the programs   *)
(* draw, other than their counters, is left out.                           *)
(***************************************************************************)
EXTENDS Integers, Sequences

CONSTANTS
  NTasks,    \* the tasks in pcb_table, 3 in the code
  Modulus,   \* the counters wrap here, 2^32 in the code
  RamZeroed  \* whether low memory was zero when the loader started

ASSUME NTasksAssumption  == NTasks \in Nat \ {0}
ASSUME ModulusAssumption == Modulus \in Nat \ {0}
ASSUME RamAssumption     == RamZeroed \in BOOLEAN

Task  == 0 .. NTasks - 1
Boot  == NTasks                \* the code that runs init_scheduler, then .halt
Owner == 0 .. NTasks

Label == {"start", "halt", "inc", "load", "show", "sti"}
Word == 0 .. Modulus - 1
Context == [who : Owner, at : Label, eax : Word, if : BOOLEAN]

VARIABLES
  cpu,        \* the context in the processor
  esp,        \* the stack in use
  stack,      \* owner -> the contexts saved on its stack
  pcb,        \* task -> the ESP in its control block
  current,    \* current_task
  started,    \* scheduler_started
  phase,      \* "run", or where the interrupt handler stands
  pending,    \* IRQ0 raised and not taken (the PIC's request bit)
  serving,    \* IRQ0 taken and not ended (the PIC's in-service bit)
  counter,    \* task -> its counter
  shown,      \* task -> what it drew last
  rounds      \* history: the calls of scheduler_switch, counted up to 2

pic == <<pending, serving>>
out == <<counter, shown>>
vars == <<cpu, esp, stack, pcb, current, started, phase, pic, out, rounds>>

\* The loader never writes scheduler_started: its dd 0 lies in the image at
\* 0x60000, while DS is based at 0, so the code reads what low memory held.
Init ==
  /\ cpu = [who |-> Boot, at |-> "start", eax |-> 0, if |-> FALSE]
  /\ esp = Boot
  /\ stack = [o \in Owner |-> <<>>]
  /\ pcb = [t \in Task |-> [stk |-> t, depth |-> 0]]
  /\ current = 0
  /\ started \in (IF RamZeroed THEN {FALSE} ELSE BOOLEAN)
  /\ phase = "run"
  /\ pending \in BOOLEAN
  /\ serving = FALSE
  /\ counter = [t \in Task |-> 0]
  /\ shown = [t \in Task |-> 0]
  /\ rounds = 0

-----------------------------------------------------------------------------
(* The interrupted programs.                                               *)

\* The context build_initial_frame lays out for a task: its entry, registers
\* zero, interrupts on.
InitialFrame(t) == [who |-> t, at |-> "inc", eax |-> 0, if |-> TRUE]

init_scheduler ==
  /\ phase = "run" /\ cpu.at = "start"
  /\ stack' = [o \in Owner |-> IF o \in Task THEN <<InitialFrame(o)>> ELSE <<>>]
  /\ pcb' = [t \in Task |-> [stk |-> t, depth |-> 1]]
  /\ current' = 0
  /\ cpu' = [cpu EXCEPT !.at = "halt"]
  /\ UNCHANGED <<esp, started, phase, pic, out, rounds>>

\* .halt: interrupts on, then wait.
Halt ==
  /\ phase = "run" /\ cpu.at = "halt" /\ ~cpu.if
  /\ cpu' = [cpu EXCEPT !.if = TRUE]
  /\ UNCHANGED <<esp, stack, pcb, current, started, phase, pic, out, rounds>>

At(t, label) ==
  /\ phase = "run" /\ cpu.who = t /\ cpu.at = label
  /\ UNCHANGED <<esp, stack, pcb, current, started, phase, pic, rounds>>

\* inc dword: the counter wraps.
PlusOneMutant(n) == n + 1
PlusOne(n) == (n + 1) % Modulus

Inc(t) ==
  /\ At(t, "inc")
  /\ cpu' = [cpu EXCEPT !.at = "load"]
  /\ counter' = [counter EXCEPT ![t] = PlusOne(@)]
  /\ UNCHANGED shown

Load(t) ==
  /\ At(t, "load")
  /\ cpu' = [cpu EXCEPT !.at = "show", !.eax = counter[t]]
  /\ UNCHANGED out

Show(t) ==
  /\ At(t, "show")
  /\ cpu' = [cpu EXCEPT !.at = "sti"]
  /\ shown' = [shown EXCEPT ![t] = cpu.eax]
  /\ UNCHANGED counter

Sti(t) ==
  /\ At(t, "sti")
  /\ cpu' = [cpu EXCEPT !.at = "inc", !.if = TRUE]
  /\ UNCHANGED out

TaskStep(t) == Inc(t) \/ Load(t) \/ Show(t) \/ Sti(t)

-----------------------------------------------------------------------------
(* The timer and its interrupt.                                            *)

\* The PIT raises IRQ0; a request still waiting absorbs the new one.
Tick ==
  /\ ~pending
  /\ pending' = TRUE
  /\ UNCHANGED <<cpu, esp, stack, pcb, current, started, phase, serving, out,
                 rounds>>

\* What the processor does to the flags at an interrupt gate (type 0x8E).
GateMutant(ctx) == ctx                    \* a trap gate, 0x8F
Gate(ctx) == [ctx EXCEPT !.if = FALSE]

\* What pushad finds: the handler has touched no register before it.
PushedMutant(ctx) == [ctx EXCEPT !.eax = 0]
Pushed(ctx) == ctx

\* The interrupt is taken wherever the flag allows it, and isr_irq0 saves the
\* registers before it uses them, down to its jump to scheduler_switch.
isr_irq0 ==
  /\ cpu.if /\ pending /\ ~serving
  /\ stack' = [stack EXCEPT ![esp] = Append(@, Pushed(cpu))]
  /\ cpu' = [Gate(cpu) EXCEPT !.eax = 0]
  /\ pending' = FALSE /\ serving' = TRUE
  /\ phase' = "switch"
  /\ UNCHANGED <<esp, pcb, current, started, out, rounds>>

\* The end of scheduler_switch: popad and iretd bring back what the ESP in
\* use points at.
NextTask(t) == IF t + 1 < NTasks THEN t + 1 ELSE 0

Save(t) == [pcb EXCEPT ![t] = [stk |-> esp, depth |-> Len(stack[esp])]]

\* The first round abandons the boot stack for Task A; a later one saves the
\* running task's ESP and takes the next task's.
scheduler_switch ==
  /\ phase = "switch"
  /\ IF ~started
       THEN /\ current' = 0 /\ started' = TRUE
            /\ UNCHANGED pcb
       ELSE /\ pcb' = Save(current)
            /\ current' = NextTask(current)
            /\ UNCHANGED started
  /\ esp' = pcb'[current'].stk
  /\ phase' = "eoi"
  /\ rounds' = IF rounds < 2 THEN rounds + 1 ELSE 2
  /\ UNCHANGED <<cpu, stack, pic, out>>

ServedMutant == TRUE                      \* no EOI
Served == FALSE

EndOfInterrupt ==
  /\ phase = "eoi"
  /\ serving' = Served
  /\ phase' = "return"
  /\ UNCHANGED <<cpu, esp, stack, pcb, current, started, pending, out, rounds>>

Return ==
  /\ phase = "return"
  /\ cpu' = stack[esp][pcb[current].depth]
  /\ stack' = [stack EXCEPT ![esp] = SubSeq(@, 1, pcb[current].depth - 1)]
  /\ phase' = "run"
  /\ UNCHANGED <<esp, pcb, current, started, pic, out, rounds>>

Next == \/ init_scheduler \/ Halt \/ Tick \/ isr_irq0 \/ scheduler_switch
        \/ EndOfInterrupt \/ Return
        \/ \E t \in Task : TaskStep(t)

Spec == Init /\ [][Next]_vars

\* The processor goes on, and the timer ticks.  A tick is 20 ms, far longer
\* than a pass through the handler and the loop body, so a task whose turn
\* comes again and again makes its steps.
Fairness ==
  /\ WF_vars(init_scheduler) /\ WF_vars(Halt) /\ WF_vars(Tick)
  /\ SF_vars(isr_irq0) /\ WF_vars(scheduler_switch)
  /\ WF_vars(EndOfInterrupt) /\ WF_vars(Return)
  /\ \A t \in Task : SF_vars(TaskStep(t))
FairSpec == Spec /\ Fairness

-----------------------------------------------------------------------------
(* Properties.                                                             *)

ESP == [stk : Owner, depth : Nat]

\* Type correctness of the whole state.
TypeOK ==
  /\ cpu \in Context
  /\ esp \in Owner
  /\ stack \in [Owner -> Seq(Context)]
  /\ pcb \in [Task -> ESP]
  /\ current \in Task
  /\ started \in BOOLEAN
  /\ phase \in {"run", "switch", "eoi", "return"}
  /\ pending \in BOOLEAN /\ serving \in BOOLEAN
  /\ counter \in [Task -> Word]
  /\ shown \in [Task -> Word]
  /\ rounds \in 0 .. 2

Initialised == cpu.at # "start"

\* Where task t is: in the processor, or where its control block points.
OnCpu(t) == phase = "run" /\ cpu.who = t
Ctx(t) == IF ~Initialised THEN InitialFrame(t)
          ELSE IF OnCpu(t) THEN cpu
          ELSE stack[pcb[t].stk][pcb[t].depth]

\* Each task that is not running has exactly one saved context, its own, on
\* its own stack where its control block points; the running one has none.
\* Interrupts do not nest and no stack grows, however the ticks fall.
OwnFrames == Initialised => \A t \in Task :
  /\ pcb[t] = [stk |-> t, depth |-> 1]
  /\ IF OnCpu(t)
       THEN stack[t] = <<>> /\ esp = t
       ELSE /\ Len(stack[t]) = 1
            /\ stack[t][1].who = t /\ stack[t][1].if

\* The task in the processor is the one current_task names, and between two
\* interrupts the controller waits for no end of interrupt.
CurrentRuns ==
  /\ started /\ phase = "run" => cpu.who = current
  /\ phase = "run" => ~serving

\* Preemption does not show: each task makes the steps of its own loop, with
\* its own register, and nobody else moves its counter or its screen cell.
Machines == INSTANCE TaskMachines WITH
              at <- [t \in Task |-> Ctx(t).at],
              eax <- [t \in Task |-> Ctx(t).eax]
TasksUndisturbed == Machines!Spec

\* Every task's counter goes on for ever: no task starves another, and the
\* timer does not stop.
EveryTaskAdvances == \A t \in Task, n \in Word :
  counter[t] = n ~> counter[t] = PlusOne(n)

\* "First round: direct jump to Task A."
FirstRoundStartsA == rounds = 1 => current = 0
=============================================================================
