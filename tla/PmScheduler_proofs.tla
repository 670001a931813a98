------------------------- MODULE PmScheduler_proofs ---------------------------
(***************************************************************************)
(* PmScheduler for any number of tasks.  When the word of low memory that  *)
(* is read as scheduler_started was zero, whatever the rest of it held,    *)
(* saving and restoring by hand loses nothing, and the tasks cannot tell   *)
(* that they share a processor.  When it was not, the boot code takes      *)
(* Task A's place for ever.                                                *)
(***************************************************************************)
EXTENDS PmScheduler, SequenceTheorems, TLAPS

USE DEF InitialFrame, Gate, Pushed, Save, Served, PlusOne

LEMMA WordFacts == 0 \in Word /\ \A n \in Word : PlusOne(n) \in Word
<1>1. \A n \in Word : (n + 1) % Modulus \in Word
  BY ModulusAssumption DEF Word
<1>2. 0 \in Word BY ModulusAssumption DEF Word
<1> QED BY <1>1, <1>2

Handling == phase \in {"switch", "eoi", "return"}

\* Who is in the processor, and which stack is in use.
Running ==
  /\ phase = "run" => esp = cpu.who
  /\ cpu.who = Boot <=> cpu.at \in {"start", "halt"}
  /\ ~started => cpu.who = Boot
  /\ ~Initialised => phase = "run" /\ ~cpu.if /\ ~started
  /\ cpu.if => phase = "run"
  /\ Handling /\ started => esp = current
  /\ phase \in {"eoi", "return"} => started
  /\ phase = "return" => ~serving
  /\ phase = "switch" /\ ~started => esp = Boot

Frames == \A t \in Task : Initialised /\ Len(stack[t]) = 1
            => stack[t][1].at \in {"inc", "load", "show", "sti"}

IInv == TypeOK /\ OwnFrames /\ CurrentRuns /\ Running /\ Frames

LEMMA TaskFacts ==
  /\ Task \subseteq Int /\ Boot \notin Task /\ Owner = Task \cup {Boot}
  /\ 0 \in Task /\ \A t \in Task : NextTask(t) \in Task
BY NTasksAssumption DEF Task, Boot, Owner, NextTask

LEMMA InitTypes == ASSUME Init PROVE TypeOK
<1>1. cpu \in Context /\ esp \in Owner
  BY TaskFacts, WordFacts DEF Init, Context, Label
<1>2. stack \in [Owner -> Seq(Context)]
  <2>1. <<>> \in Seq(Context) OBVIOUS
  <2> QED BY <2>1 DEF Init
<1>3. pcb \in [Task -> ESP]
  <2>1. \A t \in Task : [stk |-> t, depth |-> 0] \in ESP BY TaskFacts DEF ESP
  <2> QED BY <2>1 DEF Init
<1>4. current \in Task /\ phase = "run" /\ rounds \in 0 .. 2
  BY TaskFacts DEF Init
<1>5. started \in BOOLEAN
  <2>1. (IF RamZeroed THEN {FALSE} ELSE BOOLEAN) \subseteq BOOLEAN OBVIOUS
  <2> QED BY <2>1 DEF Init
<1>6. pending \in BOOLEAN /\ serving \in BOOLEAN BY DEF Init
<1>7. counter \in [Task -> Word] /\ shown \in [Task -> Word]
  BY WordFacts DEF Init
<1> QED BY <1>1, <1>2, <1>3, <1>4, <1>5, <1>6, <1>7 DEF TypeOK

\* What init_scheduler lays out, and what it leaves of the boot code's context.
LEMMA LaidOut ==
  ASSUME TypeOK, init_scheduler
  PROVE  /\ TypeOK' /\ cpu'.at = "halt" /\ cpu'.who = cpu.who /\ cpu'.if = cpu.if
         /\ stack'[Boot] = <<>>
         /\ \A t \in Task : /\ stack'[t] = <<InitialFrame(t)>>
                           /\ pcb'[t] = [stk |-> t, depth |-> 1]
<1> USE DEF init_scheduler, pic, out
<1>1. /\ cpu' = [cpu EXCEPT !.at = "halt"] /\ cpu' \in Context /\ cpu'.at = "halt"
      /\ cpu'.who = cpu.who /\ cpu'.if = cpu.if
  BY DEF TypeOK, Context, Label
<1>2. \A t \in Task : InitialFrame(t) \in Context
  BY TaskFacts, WordFacts DEF Context, Label
<1>3. stack' \in [Owner -> Seq(Context)]
  <2>1. \A o \in Owner : (IF o \in Task THEN <<InitialFrame(o)>> ELSE <<>>) \in Seq(Context)
    <3> TAKE o \in Owner
    <3>1. CASE o \in Task
      <4>1. InitialFrame(o) \in Context BY <1>2, <3>1
      <4> HIDE DEF InitialFrame
      <4>2. <<InitialFrame(o)>> \in Seq(Context) BY <4>1
      <4> QED BY <3>1, <4>2
    <3>2. CASE o \notin Task BY <3>2
    <3> QED BY <3>1, <3>2
  <2> QED BY <2>1
<1>4. /\ stack'[Boot] = <<>>
      /\ \A t \in Task : stack'[t] = <<InitialFrame(t)>>
  BY TaskFacts
<1>5. TypeOK' BY <1>1, <1>3, TaskFacts DEF TypeOK, ESP
<1> QED BY <1>1, <1>4, <1>5

LEMMA InitInv == ASSUME ~started, Init PROVE IInv
<1>1. TypeOK BY InitTypes
<1>2. ~Initialised /\ ~started /\ cpu.who = Boot /\ phase = "run" /\ ~serving
  BY DEF Init, Initialised
<1>3. Running BY <1>2 DEF Init, Running, Handling, Initialised
<1> QED BY <1>1, <1>2, <1>3 DEF IInv, OwnFrames, CurrentRuns, Frames

LEMMA InitSchedulerInv == ASSUME IInv, init_scheduler PROVE IInv'
<1> USE DEF init_scheduler, pic
<1>1. /\ ~Initialised /\ phase = "run" /\ ~cpu.if /\ ~started /\ cpu.who = Boot
      /\ TypeOK /\ esp = Boot /\ ~serving
  BY DEF IInv, Running, Initialised, CurrentRuns
<1>2. /\ TypeOK' /\ cpu'.at = "halt" /\ cpu'.who = Boot /\ ~cpu'.if
      /\ \A t \in Task : /\ stack'[t] = <<InitialFrame(t)>>
                        /\ pcb'[t] = [stk |-> t, depth |-> 1]
  BY <1>1, LaidOut
<1>3. OwnFrames' /\ Frames' BY <1>1, <1>2, TaskFacts DEF OwnFrames, Frames, OnCpu
<1>4. CurrentRuns' /\ Running'
  BY <1>1, <1>2 DEF CurrentRuns, Running, Initialised, Handling
<1> QED BY <1>2, <1>3, <1>4 DEF IInv

LEMMA HaltInv == ASSUME IInv, Halt PROVE IInv'
<1> USE DEF Halt, pic, out
<1>1. /\ TypeOK /\ cpu.at = "halt" /\ phase = "run" /\ cpu.who = Boot
  BY DEF IInv, Running
<1>2. /\ cpu' \in Context /\ cpu'.at = "halt" /\ cpu'.who = Boot /\ cpu'.if
  BY <1>1 DEF TypeOK, Context
<1>3. TypeOK' BY <1>1, <1>2 DEF TypeOK
<1>4. (OwnFrames /\ Frames)'
  BY <1>1, <1>2 DEF IInv, OwnFrames, Frames, OnCpu, Initialised
<1>5. CurrentRuns' /\ Running'
  BY <1>1, <1>2 DEF IInv, CurrentRuns, Running, Initialised, Handling
<1> QED BY <1>3, <1>4, <1>5 DEF IInv

LEMMA TaskStepTypes ==
  ASSUME TypeOK, NEW t \in Task, TaskStep(t)
  PROVE  TypeOK' /\ cpu'.who = t /\ cpu'.at \in {"inc", "load", "show", "sti"}
<1>1. /\ phase = "run" /\ cpu.who = t /\ cpu \in Context
      /\ UNCHANGED <<esp, stack, pcb, current, started, phase, pending, serving, rounds>>
  BY DEF TaskStep, Inc, Load, Show, Sti, At, TypeOK, pic
<1>2. counter[t] \in Word /\ PlusOne(counter[t]) \in Word
  BY WordFacts DEF TypeOK
<1>3. /\ cpu' \in Context /\ cpu'.who = t
      /\ cpu'.at \in {"inc", "load", "show", "sti"}
  <2>1. CASE Inc(t) BY <1>1, <2>1 DEF Inc, Context, Label
  <2>2. CASE Load(t) BY <1>1, <1>2, <2>2 DEF Load, Context, Label
  <2>3. CASE Show(t) BY <1>1, <2>3 DEF Show, Context, Label
  <2>4. CASE Sti(t) BY <1>1, <2>4 DEF Sti, Context, Label
  <2> QED BY <2>1, <2>2, <2>3, <2>4 DEF TaskStep
<1>4. counter' \in [Task -> Word] /\ shown' \in [Task -> Word]
  <2>1. cpu.eax \in Word BY <1>1 DEF Context
  <2>2. CASE Inc(t) BY <1>1, <1>2, <2>2 DEF TypeOK, Inc
  <2>3. CASE Show(t) BY <1>1, <2>1, <2>3 DEF TypeOK, Show
  <2>4. CASE Load(t) \/ Sti(t) BY <1>1, <2>4 DEF TypeOK, Load, Sti, out
  <2> QED BY <2>2, <2>3, <2>4 DEF TaskStep
<1> QED BY <1>1, <1>3, <1>4 DEF TypeOK

LEMMA TaskStepInv == ASSUME IInv, NEW t \in Task, TaskStep(t) PROVE IInv'
<1>1. /\ TypeOK /\ phase = "run" /\ cpu.who = t /\ Initialised
      /\ UNCHANGED <<esp, stack, pcb, current, started, phase, pending, serving, rounds>>
  BY TaskFacts DEF IInv, Running, TaskStep, Inc, Load, Show, Sti, At, Initialised, pic
<1>2. TypeOK' /\ cpu'.who = t /\ cpu'.at \in {"inc", "load", "show", "sti"}
  BY <1>1, TaskStepTypes
<1>3. (OwnFrames /\ Frames)'
  BY <1>1, <1>2 DEF IInv, OwnFrames, Frames, OnCpu, Initialised
<1>4. CurrentRuns' /\ Running'
  BY <1>1, <1>2, TaskFacts
     DEF IInv, CurrentRuns, Running, Initialised, Handling
<1> QED BY <1>2, <1>3, <1>4 DEF IInv

LEMMA TickInv == ASSUME IInv, Tick PROVE IInv'
BY DEF Tick, IInv, TypeOK, OwnFrames, CurrentRuns, Running, Frames, OnCpu,
       Initialised, Handling, out

LEMMA IrqTypes ==
  ASSUME TypeOK, isr_irq0
  PROVE  TypeOK' /\ cpu'.who = cpu.who /\ cpu'.at = cpu.at /\ ~cpu'.if
<1> USE DEF isr_irq0, out
<1>1. cpu \in Context /\ esp \in Owner BY DEF TypeOK
<1>2. /\ cpu' \in Context /\ cpu'.who = cpu.who /\ cpu'.at = cpu.at /\ ~cpu'.if
  BY <1>1, WordFacts DEF Context
<1>3. stack' = [stack EXCEPT ![esp] = Append(stack[esp], cpu)] OBVIOUS
<1>4. Append(stack[esp], cpu) \in Seq(Context) BY <1>1 DEF TypeOK
<1>5. stack' \in [Owner -> Seq(Context)] BY <1>1, <1>3, <1>4 DEF TypeOK
<1> QED BY <1>1, <1>2, <1>5 DEF TypeOK

\* The running program's context goes to the stack in use, its own.
LEMMA IrqInv == ASSUME IInv, isr_irq0 PROVE IInv'
<1> USE DEF isr_irq0, out
<1>1. /\ TypeOK /\ cpu \in Context /\ cpu.if /\ phase = "run" /\ esp = cpu.who
      /\ Initialised /\ phase' = "switch"
      /\ UNCHANGED <<esp, pcb, current, started>>
  BY DEF IInv, Running, TypeOK
<1>2. TypeOK' /\ cpu'.who = cpu.who /\ cpu'.at = cpu.at /\ ~cpu'.if
  BY <1>1, IrqTypes
<1>3. stack' = [stack EXCEPT ![esp] = Append(stack[esp], cpu)] OBVIOUS
<1>4. ASSUME NEW t \in Task
      PROVE  /\ pcb'[t] = [stk |-> t, depth |-> 1] /\ ~OnCpu(t)'
             /\ Len(stack'[t]) = 1 /\ stack'[t][1].who = t /\ stack'[t][1].if
             /\ stack'[t][1].at \in {"inc", "load", "show", "sti"}
  <2>1. CASE cpu.who = t
    <3>1. stack[t] = <<>> /\ esp = t /\ pcb[t] = [stk |-> t, depth |-> 1]
      BY <1>1, <2>1 DEF IInv, OwnFrames, OnCpu
    <3>2. stack'[t] = <<cpu>> BY <1>1, <1>3, <3>1, TaskFacts DEF TypeOK
    <3>3. cpu.at \in {"inc", "load", "show", "sti"}
      BY <1>1, <2>1, TaskFacts DEF IInv, Running, Context, Label
    <3> QED BY <1>1, <2>1, <3>1, <3>2, <3>3 DEF OnCpu
  <2>2. CASE cpu.who # t
    BY <1>1, <1>3, <2>2, TaskFacts DEF IInv, OwnFrames, OnCpu, Frames, TypeOK
  <2> QED BY <2>1, <2>2
<1>5. (OwnFrames /\ Frames)' BY <1>4 DEF OwnFrames, Frames
<1>6. CurrentRuns' /\ Running'
  BY <1>1, <1>2 DEF IInv, CurrentRuns, Running, Initialised, Handling
<1> QED BY <1>2, <1>5, <1>6 DEF IInv

\* Saving rewrites the control block with what it held; then the next one's
\* stack is in use.
LEMMA SwitchInv == ASSUME IInv, scheduler_switch PROVE IInv'
<1> USE DEF scheduler_switch, pic, out
<1>1. /\ TypeOK /\ phase = "switch" /\ Initialised /\ ~cpu.if
      /\ phase' = "eoi" /\ UNCHANGED <<cpu, stack, pending, serving>>
  BY DEF IInv, Running
<1>2. /\ pcb' = pcb /\ current' \in Task /\ started'
  <2>1. CASE ~started BY <2>1, TaskFacts
  <2>2. CASE started
    <3>1. esp = current /\ current \in Task BY <1>1, <2>2 DEF IInv, Running, Handling, TypeOK
    <3>2. /\ pcb[current] = [stk |-> current, depth |-> 1]
          /\ Len(stack[current]) = 1
      BY <1>1, <3>1 DEF IInv, OwnFrames, OnCpu
    <3>3. pcb' = [pcb EXCEPT ![current] = [stk |-> esp, depth |-> Len(stack[esp])]]
      BY <2>2
    <3>4. pcb' = pcb BY <1>1, <3>1, <3>2, <3>3 DEF TypeOK
    <3> QED BY <2>2, <3>1, <3>4, TaskFacts
  <2> QED BY <2>1, <2>2
<1>3. esp' = current'
  <2>1. pcb[current'] = [stk |-> current', depth |-> 1]
    BY <1>1, <1>2 DEF IInv, OwnFrames
  <2> QED BY <1>2, <2>1
<1>4. TypeOK'
  <2>1. rounds' \in 0 .. 2 BY <1>1 DEF TypeOK
  <2>2. esp' \in Owner /\ started' \in BOOLEAN BY <1>2, <1>3, TaskFacts
  <2> QED BY <1>1, <1>2, <2>1, <2>2 DEF TypeOK
<1>5. (OwnFrames /\ Frames)'
  BY <1>1, <1>2 DEF IInv, OwnFrames, Frames, OnCpu, Initialised
<1>6. CurrentRuns' /\ Running'
  BY <1>1, <1>2, <1>3 DEF IInv, CurrentRuns, Running, Initialised, Handling
<1> QED BY <1>4, <1>5, <1>6 DEF IInv

LEMMA EoiInv == ASSUME IInv, EndOfInterrupt PROVE IInv'
BY DEF EndOfInterrupt, IInv, TypeOK, OwnFrames, CurrentRuns, Running, Frames,
       OnCpu, Initialised, Handling, out

\* The one context on the new stack goes back into the processor.
LEMMA ReturnInv == ASSUME IInv, Return PROVE IInv'
<1> USE DEF Return, pic, out
<1>1. /\ TypeOK /\ phase = "return" /\ Initialised /\ started /\ esp = current
      /\ current \in Task /\ phase' = "run" /\ ~serving
      /\ UNCHANGED <<esp, pcb, current, started, pending, serving>>
  BY DEF IInv, Running, Handling, TypeOK, CurrentRuns
<1>2. /\ pcb[current] = [stk |-> current, depth |-> 1]
      /\ Len(stack[current]) = 1
      /\ stack[current][1].who = current
      /\ stack[current][1].at \in {"inc", "load", "show", "sti"}
  BY <1>1 DEF IInv, OwnFrames, Frames, OnCpu
<1>3. /\ cpu' = stack[current][1] /\ cpu' \in Context
      /\ stack' = [stack EXCEPT ![current] = SubSeq(stack[current], 1, 0)]
  <2>1. stack[current] \in Seq(Context) BY <1>1, TaskFacts DEF TypeOK
  <2>2. stack[current][1] \in Context BY <1>2, <2>1, ElementOfSeq
  <2>3. pcb[current].depth = 1 BY <1>2
  <2> QED BY <1>1, <2>2, <2>3
<1>4. SubSeq(stack[current], 1, 0) = <<>>
  BY <1>1, TaskFacts DEF TypeOK
<1>5. TypeOK'
  <2>1. <<>> \in Seq(Context) OBVIOUS
  <2>2. stack' = [stack EXCEPT ![current] = <<>>] BY <1>3, <1>4
  <2>3. stack \in [Owner -> Seq(Context)] BY <1>1 DEF TypeOK
  <2>4. stack' \in [Owner -> Seq(Context)] BY <2>1, <2>2, <2>3
  <2> QED BY <1>1, <1>3, <2>4 DEF TypeOK
<1>6. (OwnFrames /\ Frames)'
  BY <1>1, <1>2, <1>3, <1>4, TaskFacts
     DEF IInv, OwnFrames, Frames, OnCpu, Initialised, TypeOK
<1>7. CurrentRuns' /\ Running'
  BY <1>1, <1>2, <1>3, TaskFacts
     DEF IInv, CurrentRuns, Running, Initialised, Handling
<1> QED BY <1>5, <1>6, <1>7 DEF IInv

LEMMA NextInv == ASSUME IInv, [Next]_vars PROVE IInv'
<1>1. CASE UNCHANGED vars
  BY <1>1 DEF vars, pic, out, IInv, TypeOK, OwnFrames, CurrentRuns, Running,
     Frames, OnCpu, Initialised, Handling
<1> QED BY <1>1, InitSchedulerInv, HaltInv, TaskStepInv, TickInv, IrqInv,
           SwitchInv, EoiInv, ReturnInv DEF Next

\* ~started is what Init gives when RamZeroed holds, and needs no more of low
\* memory than that one word.
LEMMA Invariance == Spec /\ ~started => []IInv
<1>1. Init /\ ~started => IInv BY InitInv
<1>2. IInv /\ [Next]_vars => IInv' BY NextInv
<1> QED BY <1>1, <1>2, PTL DEF Spec

\* Each task's saved context is whole, on its own stack and its only one.
THEOREM ContextsSafe == Spec /\ ~started => []OwnFrames
<1>1. IInv => OwnFrames BY DEF IInv
<1> QED BY <1>1, Invariance, PTL

\* current_task names the task that runs, and the controller is never left
\* waiting for an end of interrupt.
THEOREM CurrentTaskRuns == Spec /\ ~started => []CurrentRuns
<1>1. IInv => CurrentRuns BY DEF IInv
<1> QED BY <1>1, Invariance, PTL

-----------------------------------------------------------------------------
(* The refinement: the handler's steps move no task's context.             *)

\* Where a task's context is, spelled out under the invariant.
LEMMA CtxIs ==
  ASSUME IInv, NEW t \in Task
  PROVE  Ctx(t) = IF ~Initialised THEN InitialFrame(t)
                  ELSE IF OnCpu(t) THEN cpu ELSE stack[t][1]
<1>1. CASE Initialised /\ ~OnCpu(t)
  <2>1. pcb[t] = [stk |-> t, depth |-> 1] BY <1>1 DEF IInv, OwnFrames
  <2> QED BY <1>1, <2>1 DEF Ctx
<1> QED BY <1>1 DEF Ctx

LEMMA CtxIsNext ==
  ASSUME IInv', NEW t \in Task
  PROVE  Ctx(t)' = IF ~Initialised' THEN InitialFrame(t)
                   ELSE IF OnCpu(t)' THEN cpu' ELSE stack'[t][1]
<1>1. CASE Initialised' /\ ~OnCpu(t)'
  <2>1. pcb'[t] = [stk |-> t, depth |-> 1] BY <1>1 DEF IInv, OwnFrames
  <2> QED BY <1>1, <2>1 DEF Ctx
<1> QED BY <1>1 DEF Ctx

LEMMA InitRefines == ASSUME Init PROVE Machines!Init
<1>1. ~Initialised BY DEF Init, Initialised
<1>2. \A t \in Task : Ctx(t) = InitialFrame(t) BY <1>1 DEF Ctx
<1> QED BY <1>2 DEF Init, Machines!Init

\* A step that moves no context, counter or screen cell is no step of a task.
LEMMA Stutter ==
  ASSUME UNCHANGED <<counter, shown>>, \A t \in Task : Ctx(t)' = Ctx(t)
  PROVE  UNCHANGED Machines!vars
BY DEF Machines!vars

LEMMA HandlerStutters ==
  ASSUME IInv, IInv',
         init_scheduler \/ Halt \/ Tick \/ scheduler_switch \/ EndOfInterrupt
  PROVE  UNCHANGED Machines!vars
<1> USE DEF pic, out
<1>1. CASE init_scheduler
  <2>1. ~Initialised /\ Initialised' /\ phase' = "run" /\ cpu'.who = Boot
        /\ UNCHANGED <<counter, shown>>
    BY <1>1 DEF init_scheduler, Initialised, IInv, Running, TypeOK, Context
  <2>2. \A t \in Task : stack'[t] = <<InitialFrame(t)>> /\ ~OnCpu(t)'
    BY <1>1, <2>1, TaskFacts DEF init_scheduler, OnCpu
  <2>3. \A t \in Task : Ctx(t)' = Ctx(t) BY <2>1, <2>2, CtxIs, CtxIsNext
  <2> QED BY <2>1, <2>3, Stutter
<1>2. CASE Halt
  <2>1. /\ Initialised /\ Initialised' /\ cpu.who = Boot /\ cpu'.who = Boot
        /\ UNCHANGED <<stack, counter, shown>>
    BY <1>2 DEF Halt, Initialised, IInv, Running, TypeOK, Context
  <2>2. \A t \in Task : ~OnCpu(t) /\ ~OnCpu(t)' BY <2>1, TaskFacts DEF OnCpu
  <2>3. \A t \in Task : Ctx(t)' = Ctx(t) BY <2>1, <2>2, CtxIs, CtxIsNext
  <2> QED BY <2>1, <2>3, Stutter
<1>3. CASE Tick \/ scheduler_switch \/ EndOfInterrupt
  <2>1. /\ UNCHANGED <<cpu, stack, counter, shown>>
        /\ phase = "run" <=> phase' = "run"
    BY <1>3 DEF Tick, scheduler_switch, EndOfInterrupt
  <2>2. /\ Initialised' <=> Initialised
        /\ \A t \in Task : OnCpu(t)' <=> OnCpu(t)
    BY <2>1 DEF Initialised, OnCpu
  <2>3. \A t \in Task : Ctx(t)' = Ctx(t) BY <2>1, <2>2, CtxIs, CtxIsNext
  <2> QED BY <2>1, <2>3, Stutter
<1> QED BY <1>1, <1>2, <1>3

LEMMA IrqStutters == ASSUME IInv, IInv', isr_irq0 PROVE UNCHANGED Machines!vars
<1> USE DEF isr_irq0, out
<1>1. /\ TypeOK /\ phase = "run" /\ phase' = "switch" /\ esp = cpu.who
      /\ Initialised /\ Initialised' /\ cpu \in Context
      /\ UNCHANGED <<counter, shown>>
  BY DEF IInv, Running, Initialised, TypeOK, Context
<1>2. ASSUME NEW t \in Task PROVE Ctx(t)' = Ctx(t)
  <2>1. ~OnCpu(t)' BY <1>1 DEF OnCpu
  <2>2. CASE cpu.who = t
    <3>1. stack[t] = <<>> /\ esp = t /\ OnCpu(t)
      BY <1>1, <2>2 DEF IInv, OwnFrames, OnCpu
    <3>2. stack'[t] = <<cpu>> BY <1>1, <3>1, TaskFacts DEF TypeOK
    <3> QED BY <1>1, <2>1, <3>1, <3>2, CtxIs, CtxIsNext
  <2>3. CASE cpu.who # t
    <3>1. ~OnCpu(t) /\ stack'[t] = stack[t]
      BY <1>1, <2>3, TaskFacts DEF OnCpu, TypeOK
    <3> QED BY <1>1, <2>1, <3>1, CtxIs, CtxIsNext
  <2> QED BY <2>2, <2>3
<1> QED BY <1>1, <1>2, Stutter

LEMMA ReturnStutters == ASSUME IInv, IInv', Return PROVE UNCHANGED Machines!vars
<1> USE DEF Return, pic, out
<1>1. /\ TypeOK /\ phase = "return" /\ Initialised /\ esp = current
      /\ current \in Task /\ phase' = "run" /\ UNCHANGED <<counter, shown>>
      /\ pcb[current] = [stk |-> current, depth |-> 1]
      /\ stack[current][1].who = current
      /\ Len(stack[current]) = 1
      /\ stack[current][1].at \in {"inc", "load", "show", "sti"}
  BY DEF IInv, Running, Handling, TypeOK, OwnFrames, Frames, OnCpu
<1>2. /\ cpu' = stack[current][1] /\ Initialised'
      /\ stack' = [stack EXCEPT ![current] = SubSeq(@, 1, 0)]
  BY <1>1 DEF Initialised
<1>3. ASSUME NEW t \in Task PROVE Ctx(t)' = Ctx(t)
  <2>1. ~OnCpu(t) BY <1>1 DEF OnCpu
  <2>2. CASE t = current
    BY <1>1, <1>2, <2>1, <2>2, CtxIs, CtxIsNext DEF OnCpu
  <2>3. CASE t # current
    <3>1. stack'[t] = stack[t]
      BY <1>1, <1>2, <2>3, TaskFacts DEF TypeOK
    <3>2. ~OnCpu(t)' BY <1>1, <1>2, <2>3 DEF OnCpu
    <3>3. Ctx(t) = stack[t][1] BY <1>1, <2>1, CtxIs
    <3>4. Ctx(t)' = stack'[t][1] BY <1>2, <3>2, CtxIsNext
    <3> QED BY <3>1, <3>3, <3>4
  <2> QED BY <2>2, <2>3
<1> QED BY <1>1, <1>3, Stutter

LEMMA TaskStepRefines ==
  ASSUME IInv, IInv', NEW t \in Task, TaskStep(t)
  PROVE  Machines!Next
<1>1. /\ TypeOK /\ phase = "run" /\ phase' = "run" /\ cpu.who = t /\ cpu \in Context
      /\ Initialised /\ stack' = stack
  BY TaskFacts DEF IInv, Running, TaskStep, Inc, Load, Show, Sti, At, Initialised, TypeOK
<1>2. cpu'.who = t /\ Initialised'
  BY <1>1, TaskFacts DEF TaskStep, Inc, Load, Show, Sti, At, Context, Initialised
<1>3. Ctx(t) = cpu /\ Ctx(t)' = cpu' BY <1>1, <1>2, CtxIs, CtxIsNext DEF OnCpu
<1>4. \A u \in Task \ {t} : Ctx(u)' = Ctx(u)
  BY <1>1, <1>2, CtxIs, CtxIsNext DEF OnCpu
<1>5. /\ [u \in Task |-> Ctx(u).at]' = [[u \in Task |-> Ctx(u).at] EXCEPT ![t] = cpu'.at]
      /\ [u \in Task |-> Ctx(u).eax]' = [[u \in Task |-> Ctx(u).eax] EXCEPT ![t] = cpu'.eax]
      /\ [u \in Task |-> Ctx(u).at][t] = cpu.at /\ [u \in Task |-> Ctx(u).eax][t] = cpu.eax
  BY <1>3, <1>4
<1>6. CASE Inc(t)
  <2>1. cpu.at = "inc" /\ cpu'.at = "load" /\ cpu'.eax = cpu.eax
    BY <1>1, <1>6 DEF Inc, At, Context
  <2>2. [u \in Task |-> Ctx(u).eax]' = [u \in Task |-> Ctx(u).eax]
    BY <1>3, <1>4, <2>1
  <2> QED BY <1>5, <1>6, <2>1, <2>2 DEF Inc, Machines!Next, Machines!Inc, Machines!Goto
<1>7. CASE Load(t)
  <2>1. cpu.at = "load" /\ cpu'.at = "show" /\ cpu'.eax = counter[t]
    BY <1>1, <1>7 DEF Load, At, Context
  <2> QED BY <1>5, <1>7, <2>1 DEF Load, out, Machines!Next, Machines!Load, Machines!Goto
<1>8. CASE Show(t)
  <2>1. cpu.at = "show" /\ cpu'.at = "sti" /\ cpu'.eax = cpu.eax
    BY <1>1, <1>8 DEF Show, At, Context
  <2>2. [u \in Task |-> Ctx(u).eax]' = [u \in Task |-> Ctx(u).eax]
    BY <1>3, <1>4, <2>1
  <2> QED BY <1>5, <1>8, <2>1, <2>2 DEF Show, Machines!Next, Machines!Show, Machines!Goto
<1>9. CASE Sti(t)
  <2>1. cpu.at = "sti" /\ cpu'.at = "inc" /\ cpu'.eax = cpu.eax
    BY <1>1, <1>9 DEF Sti, At, Context
  <2>2. [u \in Task |-> Ctx(u).eax]' = [u \in Task |-> Ctx(u).eax]
    BY <1>3, <1>4, <2>1
  <2> QED BY <1>5, <1>9, <2>1, <2>2 DEF Sti, out, Machines!Next, Machines!Sti, Machines!Goto
<1> QED BY <1>6, <1>7, <1>8, <1>9 DEF TaskStep

LEMMA NextRefines ==
  ASSUME IInv, IInv', [Next]_vars PROVE [Machines!Next]_Machines!vars
<1>1. CASE UNCHANGED vars
  <2>1. UNCHANGED <<cpu, stack, pcb, phase, counter, shown>> BY <1>1 DEF vars, out
  <2>2. \A t \in Task : Ctx(t)' = Ctx(t) BY <2>1 DEF Ctx, Initialised, OnCpu
  <2> QED BY <2>1, <2>2, Stutter
<1> QED BY <1>1, HandlerStutters, IrqStutters, ReturnStutters, TaskStepRefines
        DEF Next

\* Preemption does not show, for any number of tasks: the scheduler implements
\* tasks that each have a processor of their own.
THEOREM PreemptionInvisible == Spec /\ ~started => TasksUndisturbed
<1>1. Init => Machines!Init BY InitRefines
<1>2. IInv /\ IInv' /\ [Next]_vars => [Machines!Next]_Machines!vars
  BY NextRefines
<1> QED BY <1>1, <1>2, Invariance, PTL
        DEF Spec, TasksUndisturbed, Machines!Spec

-----------------------------------------------------------------------------
(* Low memory that was not zero: the first tick is not taken for the first *)
(* round.  scheduler_switch saves the boot code's ESP in Task A's control  *)
(* block, and from then on the boot code halts in Task A's turns.          *)

Home(t) == IF t = 0 THEN Boot ELSE t   \* whose stack task t's turns run on

LEMMA HomeFacts ==
  /\ \A t \in Task : Home(t) \in Owner /\ Home(t) # 0 /\ (Home(t) = Boot <=> t = 0)
  /\ \A t, u \in Task : Home(t) = Home(u) => t = u
BY NTasksAssumption DEF Home, Task, Boot, Owner

Astray ==
  /\ started /\ esp = Home(current) /\ cpu.who # 0 /\ counter[0] = 0
  /\ phase = "run" => /\ ~serving /\ cpu.who = esp
                      /\ cpu.who = Boot <=> cpu.at \in {"start", "halt"}
  /\ phase = "return" => ~serving
  /\ cpu.if => phase = "run"
  /\ ~Initialised => phase = "run" /\ ~cpu.if /\ rounds = 0
  /\ rounds = 0 => current = 0 /\ phase \in {"run", "switch"}

\* A context that waits for its turn: the boot code's in Task A's place.
Waits(ctx, t) ==
  /\ ctx.who = Home(t) /\ ctx.if
  /\ ctx.at \in IF t = 0 THEN {"halt"} ELSE {"inc", "load", "show", "sti"}

Parked(t) ==
  /\ pcb[t] = [stk |-> IF rounds = 0 THEN t ELSE Home(t), depth |-> 1]
  /\ IF phase = "run" /\ t = current
       THEN stack[Home(t)] = <<>>
       ELSE Len(stack[Home(t)]) = 1 /\ Waits(stack[Home(t)][1], t)

AInv == TypeOK /\ Astray /\ (Initialised => \A t \in Task : Parked(t))

LEMMA InitAstray == ASSUME Init, started PROVE AInv
<1>1. TypeOK BY InitTypes
<1>2. ~Initialised /\ cpu.who = Boot /\ esp = Boot /\ current = 0 /\ rounds = 0
  BY DEF Init, Initialised
<1>3. counter[0] = 0 /\ phase = "run" /\ ~serving /\ ~cpu.if /\ cpu.at = "start"
  BY TaskFacts DEF Init
<1>4. Astray BY <1>2, <1>3, HomeFacts, TaskFacts DEF Astray
<1> QED BY <1>1, <1>2, <1>4 DEF AInv

LEMMA InitSchedulerAstray == ASSUME AInv, init_scheduler PROVE AInv'
<1> USE DEF init_scheduler, pic, out
<1>1. /\ TypeOK /\ Astray /\ ~Initialised /\ phase = "run" /\ rounds = 0
      /\ current = 0 /\ ~cpu.if /\ cpu.who = Boot
  BY HomeFacts, TaskFacts DEF AInv, Astray, Initialised
<1>2. /\ TypeOK' /\ cpu'.at = "halt" /\ cpu'.who = Boot /\ ~cpu'.if
      /\ stack'[Boot] = <<>>
      /\ \A t \in Task : /\ stack'[t] = <<InitialFrame(t)>>
                        /\ pcb'[t] = [stk |-> t, depth |-> 1]
  BY <1>1, LaidOut
<1>3. Astray' BY <1>1, <1>2, HomeFacts, TaskFacts DEF Astray, Initialised
<1>4. ASSUME NEW t \in Task PROVE Parked(t)'
  BY <1>1, <1>2, HomeFacts, TaskFacts DEF Parked, Waits, Home
<1> QED BY <1>2, <1>3, <1>4 DEF AInv

LEMMA HaltAstray == ASSUME AInv, Halt PROVE AInv'
<1> USE DEF Halt, pic, out
<1>1. TypeOK /\ Astray /\ cpu.at = "halt" /\ phase = "run" /\ Initialised
  BY DEF AInv, Initialised
<1>2. /\ cpu' \in Context /\ cpu'.at = "halt" /\ cpu'.who = cpu.who /\ cpu'.if
  BY <1>1 DEF TypeOK, Context
<1>3. TypeOK' BY <1>1, <1>2 DEF TypeOK
<1>4. Astray' BY <1>1, <1>2 DEF Astray, Initialised
<1>5. ASSUME NEW t \in Task PROVE Parked(t)'
  BY <1>1 DEF AInv, Parked, Waits
<1> QED BY <1>3, <1>4, <1>5 DEF AInv

LEMMA TaskStepAstray == ASSUME AInv, NEW t \in Task, TaskStep(t) PROVE AInv'
<1>1. /\ TypeOK /\ Astray /\ phase = "run" /\ cpu.who = t /\ cpu \in Context
      /\ UNCHANGED <<esp, stack, pcb, current, started, phase, pending, serving, rounds>>
  BY DEF AInv, TaskStep, Inc, Load, Show, Sti, At, TypeOK, pic
<1>2. Initialised /\ t # 0
  BY <1>1, TaskFacts DEF Astray, TaskStep, Inc, Load, Show, Sti, At, Initialised
<1>3. TypeOK' /\ cpu'.who = t /\ cpu'.at \in {"inc", "load", "show", "sti"}
  BY <1>1, TaskStepTypes
<1>4. counter'[0] = counter[0]
  BY <1>1, <1>2, TaskFacts DEF TaskStep, Inc, Load, Show, Sti, TypeOK, out
<1>5. Astray' BY <1>1, <1>2, <1>3, <1>4, TaskFacts DEF Astray, Initialised
<1>6. ASSUME NEW u \in Task PROVE Parked(u)'
  BY <1>1, <1>2 DEF AInv, Parked, Waits
<1> QED BY <1>3, <1>5, <1>6 DEF AInv

LEMMA IrqAstray == ASSUME AInv, isr_irq0 PROVE AInv'
<1> USE DEF isr_irq0, out
<1>1. /\ TypeOK /\ Astray /\ cpu.if /\ phase = "run" /\ Initialised
      /\ current \in Task /\ esp = Home(current) /\ cpu.who = esp /\ phase' = "switch"
      /\ UNCHANGED <<esp, pcb, current, started, counter, rounds>>
  BY DEF AInv, Astray, TypeOK
<1>2. TypeOK' /\ cpu'.who = cpu.who /\ cpu'.at = cpu.at /\ ~cpu'.if
  BY <1>1, IrqTypes
<1>3. Astray' BY <1>1, <1>2 DEF Astray, Initialised
<1>4. /\ stack[Home(current)] = <<>> /\ Home(current) \in Owner
      /\ stack' = [stack EXCEPT ![Home(current)] = Append(stack[Home(current)], cpu)]
  BY <1>1, HomeFacts DEF AInv, Parked
<1>5. Waits(cpu, current)
  <2>1. cpu.at \in Label BY <1>1 DEF TypeOK, Context
  <2>2. Home(current) = Boot <=> current = 0 BY <1>1, HomeFacts
  <2> QED BY <1>1, <2>1, <2>2 DEF Waits, Astray, Initialised, Label
<1>6. stack'[Home(current)] = <<cpu>> BY <1>1, <1>4 DEF TypeOK
<1>7. ASSUME NEW t \in Task PROVE Parked(t)'
  <2>1. CASE t = current BY <1>1, <1>5, <1>6, <2>1 DEF AInv, Parked, Waits
  <2>2. CASE t # current
    <3>1. stack'[Home(t)] = stack[Home(t)]
      BY <1>1, <1>4, <2>2, HomeFacts DEF TypeOK
    <3>2. Parked(t) BY <1>1 DEF AInv
    <3>3. UNCHANGED <<pcb, current, rounds, stack[Home(t)]>> /\ phase' # "run"
      BY <1>1, <3>1
    <3> QED BY <2>2, <3>2, <3>3 DEF Parked, Waits
  <2> QED BY <2>1, <2>2
<1> QED BY <1>2, <1>3, <1>7 DEF AInv

\* The first save is where Task A's control block comes to hold the boot
\* stack; every later one rewrites a control block with what it held.
LEMMA SwitchAstray == ASSUME AInv, scheduler_switch PROVE AInv'
<1> USE DEF scheduler_switch, pic, out
<1>1. /\ TypeOK /\ Astray /\ phase = "switch" /\ Initialised /\ started
      /\ current \in Task /\ esp = Home(current) /\ current' = NextTask(current)
      /\ phase' = "eoi" /\ UNCHANGED <<cpu, stack, started, serving, pending, counter, shown>>
  BY DEF AInv, Astray, TypeOK
<1>2. Len(stack[Home(current)]) = 1 BY <1>1 DEF AInv, Parked
<1>3. /\ current' \in Task /\ rounds' \in 1 .. 2 /\ rounds' # 0
  BY <1>1, TaskFacts DEF TypeOK
<1>4. pcb' = [pcb EXCEPT ![current] = [stk |-> Home(current), depth |-> 1]]
  BY <1>1, <1>2
<1>5. ASSUME NEW t \in Task PROVE pcb'[t] = [stk |-> Home(t), depth |-> 1]
  <2>1. CASE t = current BY <1>1, <1>4, <2>1 DEF TypeOK
  <2>2. CASE t # current
    <3>1. rounds = 0 => Home(t) = t BY <1>1, <2>2 DEF Astray, Home
    <3>2. pcb[t] = [stk |-> Home(t), depth |-> 1]
      BY <1>1, <3>1 DEF AInv, Parked
    <3> QED BY <1>1, <1>4, <2>2, <3>2 DEF TypeOK
  <2> QED BY <2>1, <2>2
<1>6. esp' = Home(current') /\ esp' \in Owner
  <2>1. PICK c \in Task : c = current' BY <1>3
  <2>2. pcb'[c] = [stk |-> Home(c), depth |-> 1] BY <1>5
  <2>3. pcb'[c].stk = Home(c) BY <2>2
  <2>4. esp' = pcb'[current'].stk OBVIOUS
  <2> QED BY <2>1, <2>3, <2>4, HomeFacts
<1>7. TypeOK'
  <2>1. [stk |-> Home(current), depth |-> 1] \in ESP
    BY <1>1, HomeFacts DEF ESP
  <2>2. pcb' \in [Task -> ESP] BY <1>1, <1>4, <2>1 DEF TypeOK
  <2> QED BY <1>1, <1>3, <1>6, <2>2 DEF TypeOK
<1>8. Astray' BY <1>1, <1>3, <1>6 DEF Astray, Initialised
<1>9. ASSUME NEW t \in Task PROVE Parked(t)'
  BY <1>1, <1>3, <1>5 DEF AInv, Parked, Waits
<1> QED BY <1>7, <1>8, <1>9 DEF AInv

LEMMA ReturnAstray == ASSUME AInv, Return PROVE AInv'
<1> USE DEF Return, pic, out
<1>1. /\ TypeOK /\ Astray /\ phase = "return" /\ Initialised /\ rounds # 0
      /\ current \in Task /\ esp = Home(current) /\ phase' = "run" /\ ~serving
      /\ UNCHANGED <<esp, pcb, current, started, pending, serving, counter, shown, rounds>>
  BY DEF AInv, Astray, TypeOK
<1>2. /\ pcb[current] = [stk |-> Home(current), depth |-> 1]
      /\ Len(stack[Home(current)]) = 1 /\ Waits(stack[Home(current)][1], current)
      /\ Home(current) \in Owner
  BY <1>1, HomeFacts DEF AInv, Parked
<1>3. /\ cpu' = stack[Home(current)][1] /\ cpu' \in Context
      /\ stack' = [stack EXCEPT ![Home(current)] = <<>>]
  <2>1. stack[Home(current)] \in Seq(Context) BY <1>1, <1>2 DEF TypeOK
  <2>2. stack[Home(current)][1] \in Context BY <1>2, <2>1, ElementOfSeq
  <2>3. pcb[current].depth = 1 BY <1>2
  <2>4. SubSeq(stack[Home(current)], 1, 0) = <<>> BY <2>1
  <2>5. cpu' = stack[Home(current)][1] BY <1>1, <2>3
  <2>6. stack' = [stack EXCEPT ![Home(current)] = SubSeq(stack[Home(current)], 1, 0)]
    BY <1>1, <2>3
  <2> QED BY <2>2, <2>4, <2>5, <2>6
<1>4. TypeOK'
  <2>1. <<>> \in Seq(Context) OBVIOUS
  <2>2. stack \in [Owner -> Seq(Context)] BY <1>1 DEF TypeOK
  <2>3. stack' \in [Owner -> Seq(Context)] BY <1>2, <1>3, <2>1, <2>2
  <2> QED BY <1>1, <1>3, <2>3 DEF TypeOK
<1>5. Astray'
  <2>1. /\ cpu'.who = Home(current) /\ cpu'.who # 0
        /\ cpu'.who = Boot <=> cpu'.at \in {"start", "halt"}
        /\ cpu'.at # "start"
    BY <1>1, <1>2, <1>3, HomeFacts DEF Waits
  <2> QED BY <1>1, <2>1 DEF Astray, Initialised
<1>6. ASSUME NEW t \in Task PROVE Parked(t)'
  <2>1. CASE t = current BY <1>1, <1>2, <1>3, <2>1 DEF AInv, Parked, TypeOK
  <2>2. CASE t # current
    <3>1. stack'[Home(t)] = stack[Home(t)]
      BY <1>1, <1>3, <2>2, HomeFacts DEF TypeOK
    <3>2. Parked(t) BY <1>1 DEF AInv
    <3>3. UNCHANGED <<pcb, current, rounds, stack[Home(t)]>> /\ phase # "run"
      BY <1>1, <3>1
    <3> QED BY <2>2, <3>2, <3>3 DEF Parked, Waits
  <2> QED BY <2>1, <2>2
<1> QED BY <1>4, <1>5, <1>6 DEF AInv

\* A step that leaves contexts, stacks and tasks alone.
LEMMA QuietAstray ==
  ASSUME AInv, Tick \/ EndOfInterrupt \/ UNCHANGED vars
  PROVE  AInv'
<1>1. TypeOK' BY DEF Tick, EndOfInterrupt, vars, pic, out, AInv, TypeOK
<1>2. /\ UNCHANGED <<cpu, esp, stack, pcb, current, started, counter, rounds>>
      /\ phase' = "run" <=> phase = "run"
  BY DEF Tick, EndOfInterrupt, vars, out
<1>3. Astray'
  <2>1. CASE EndOfInterrupt BY <1>2, <2>1 DEF EndOfInterrupt, AInv, Astray, Initialised
  <2>2. CASE Tick \/ UNCHANGED vars
    BY <1>2, <2>2 DEF Tick, vars, pic, AInv, Astray, Initialised
  <2> QED BY <2>1, <2>2
<1>4. ASSUME NEW t \in Task, Initialised PROVE Parked(t)'
  BY <1>2, <1>4 DEF AInv, Parked, Waits
<1>5. Initialised' <=> Initialised BY <1>2 DEF Initialised
<1> QED BY <1>1, <1>3, <1>4, <1>5 DEF AInv

LEMMA NextAstray == ASSUME AInv, [Next]_vars PROVE AInv'
BY InitSchedulerAstray, HaltAstray, TaskStepAstray, IrqAstray, SwitchAstray,
   ReturnAstray, QuietAstray DEF Next

\* "First round: direct jump to Task A" is what the code does not do when the
\* word it reads as scheduler_started was not zero.  It does not do it later
\* either: Task A never runs, and its counter stays where it was.
THEOREM TaskALost == Spec /\ started => [](cpu.who # 0 /\ counter[0] = 0)
<1>1. Init /\ started => AInv BY InitAstray
<1>2. AInv /\ [Next]_vars => AInv' BY NextAstray
<1>3. AInv => cpu.who # 0 /\ counter[0] = 0 BY DEF AInv, Astray
<1> QED BY <1>1, <1>2, <1>3, PTL DEF Spec

\* Every reachable state is well typed, whatever low memory held.
THEOREM TypeCorrect == Spec => []TypeOK
<1>1. Init => IInv \/ AInv BY InitInv, InitAstray
<1>2. (IInv \/ AInv) /\ [Next]_vars => (IInv \/ AInv)' BY NextInv, NextAstray
<1>3. IInv \/ AInv => TypeOK BY DEF IInv, AInv
<1> QED BY <1>1, <1>2, <1>3, PTL DEF Spec
=============================================================================
