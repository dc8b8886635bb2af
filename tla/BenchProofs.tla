----------------------------- MODULE BenchProofs ----------------------------
(***************************************************************************)
(* The programs that run the processor: the debugger, the lock-step        *)
(* comparison, the cycle and instruction bench and the program bench, for  *)
(* every program, every memory depth and every limit; and the comparison   *)
(* of the files they leave, for files of any length.                       *)
(***************************************************************************)
EXTENDS Testbenches, ReferenceProofs, WellFoundedInduction

-----------------------------------------------------------------------------
(***************************************************************************)
(* The debugger.  Nothing the prompt does disturbs the invariant of the    *)
(* processor, since it either leaves the processor alone or resets it.     *)
(* While the clock is low the sampled stage is the current one, so that a  *)
(* retirement is seen in the cycle that retires.  Once halted, the         *)
(* instruction at the program counter of the instruction set is the branch *)
(* to itself.                                                              *)
(***************************************************************************)
SampleInTime == clk = 0 => prev_stage = execution_stage

AtRest == halted => mem[Cell(IsaPc)] = \h40FF

DebuggerInv == IInv /\ SampleInTime /\ AtRest

-----------------------------------------------------------------------------
(* The prompt.                                                             *)
LEMMA ResetSequenceKeeps ==
  ASSUME ResetSequence, mem' \in [0 .. MemDepth - 1 -> Word]
  PROVE  DebuggerInv'
<1>1. execution_stage' \in {"RESET_INIT", "FETCH_ADDRESS"}
  BY DEF ResetSequence, do_reset_sequence
<1>2. TypeOK'
  BY <1>1 DEF ResetSequence, do_reset_sequence, Cleared, TypeOK, Stages, Word, WordSize,
     Flags, Reg
<1>3. SampleInTime' /\ AtRest'
  BY DEF ResetSequence, do_reset_sequence, SampleInTime, AtRest
<1> QED
  BY <1>1, <1>2, <1>3, NothingInFlight DEF DebuggerInv, IInv

(* What neither runs the clock nor resets leaves the invariant alone.      *)
LEMMA AloneKeeps ==
  ASSUME DebuggerInv, UNCHANGED <<vars, clk, prev_stage, counters>>
  PROVE  DebuggerInv'
<1>1. IInv'
  BY InvStep DEF DebuggerInv
<1>2. SampleInTime'
  BY DEF DebuggerInv, SampleInTime, vars
<1>3. mem[Cell(IsaPc)]' = mem[Cell(IsaPc)]
  BY DEF vars, Cell, IsaPc, Fetched, opcode, offset
<1>4. AtRest'
  BY <1>3 DEF DebuggerInv, AtRest, counters
<1> QED
  BY <1>1, <1>2, <1>4 DEF DebuggerInv

LEMMA PromptKeeps ==
  ASSUME DebuggerInv, Prompt
  PROVE  DebuggerInv'
<1>1. CASE sv_reset
  BY <1>1, ResetSequenceKeeps DEF sv_reset, DebuggerInv, IInv, TypeOK
<1>2. CASE sv_load_hex
  BY <1>2, ResetSequenceKeeps, ProgramsAssumption, HexFilesAssumption DEF sv_load_hex
<1>3. ASSUME NEW n, sv_step_cycles(n) \/ sv_step_instructions(n)
      PROVE  DebuggerInv'
  BY <1>3, AloneKeeps DEF sv_step_cycles, sv_step_instructions
<1>4. CASE run_until_stop
  BY <1>4, AloneKeeps DEF run_until_stop
<1>5. ASSUME NEW a, sv_add_breakpoint(a)
      PROVE  DebuggerInv'
  BY <1>5, AloneKeeps DEF sv_add_breakpoint
<1>6. CASE sv_clear_breakpoints \/ sv_quit
  BY <1>6, AloneKeeps DEF sv_clear_breakpoints, sv_quit
<1> QED
  BY <1>1, <1>2, <1>3, <1>4, <1>5, <1>6 DEF Prompt

-----------------------------------------------------------------------------
(* The clock.  The halt loop is the branch with displacement -1.           *)
LEMMA HaltWord ==
  /\ Opcode(\h40FF) = JR
  /\ SignExtend(Imm8(\h40FF)) = 65535
  BY DEF Opcode, Imm8, SignExtend, JR

(* An edge that executes it comes back to it and changes nothing else.     *)
LEMMA BranchToItself ==
  ASSUME IInv, ExecuteSingle, instruction = \h40FF
  PROVE  UNCHANGED Architecture!isaVars /\ mem[Cell(IsaPc)] = \h40FF
<1>1. opcode = JR /\ Imm8(instruction) = Imm8(\h40FF)
  BY HaltWord DEF opcode
<1>2. Architecture!Branch
  BY <1>1, BranchStep DEF Branches
<1>3. Architecture!Take
  BY <1>1, SingleCycle, SameCodes DEF Architecture!Take
<1>4. IsaPc' = Plus(pc, 65535)
  BY <1>1, <1>2, <1>3, HaltWord, SingleCycle, SameWords DEF Architecture!Branch
<1>5. execution_stage = "EXECUTE_SINGLE"
  BY DEF ExecuteSingle, Edge
<1>6. IsaPc = Minus(pc, 1) /\ instruction = mem[Cell(Minus(pc, 1))]
  BY <1>5 DEF IsaPc, IInv, InstructionInFlight
<1>7. Plus(pc, 65535) = Minus(pc, 1)
  BY DEF IInv, TypeOK, Plus, Minus, Word, WordSize
<1> QED
  BY <1>2, <1>4, <1>6, <1>7 DEF Architecture!Branch, Architecture!isaVars

(* So does every edge while the program counter points at it.              *)
LEMMA RestingEdge ==
  ASSUME IInv, Clock, mem[Cell(IsaPc)] = \h40FF
  PROVE  UNCHANGED Architecture!isaVars
<1>1. CASE ResetInit \/ FetchAddress \/ FetchDecode \/ FetchSecondWord \/ LoadCallTarget
  BY <1>1, ResetInitStutters, FetchAddressStutters, FetchDecodeStutters,
     FetchSecondWordStutters, LoadCallTargetStutters
<1>2. CASE ExecuteSingle
  <2>1. IsaPc = Minus(pc, 1) /\ instruction = mem[Cell(Minus(pc, 1))]
    BY <1>2 DEF ExecuteSingle, Edge, IsaPc, IInv, InstructionInFlight
  <2> QED
    BY <1>2, <2>1, BranchToItself
<1>3. CASE ExecuteDouble \/ SaveReturnAddress
  <2>1. execution_stage \in {"EXECUTE_DOUBLE", "SAVE_RETURN_ADDRESS"}
    BY <1>3 DEF ExecuteDouble, SaveReturnAddress, Edge
  <2>2. opcode = JR
    BY <2>1, HaltWord DEF IsaPc, IInv, InstructionInFlight, opcode
  <2>3. opcode \in Extended \cup {LDRR, STRR, CALLA}
    BY <2>1 DEF IInv, PathFollowsInstruction
  <2> QED
    BY <2>2, <2>3 DEF Extended, LDRR, STRR, JMPA, MVRD, ADDI, ANDI, CALLA, JR
<1> QED
  BY <1>1, <1>2, <1>3 DEF Clock

(* The stage sampled at the falling edge tells whether this edge retires.  *)
LEMMA RetirementSeen ==
  ASSUME DebuggerInv, execute_one_cycle
  PROVE  instruction_retired
           <=> execution_stage' = "FETCH_ADDRESS" /\ execution_stage # "RESET_INIT"
<1>1. prev_stage = execution_stage
  BY DEF DebuggerInv, SampleInTime, execute_one_cycle
<1>2. PICK stage \in Stages : Edge(stage)
  BY DEF execute_one_cycle, Clock, ResetInit, FetchAddress, FetchDecode, ExecuteSingle,
     FetchSecondWord, ExecuteDouble, SaveReturnAddress, LoadCallTarget, Stages
<1> QED
  BY <1>1, <1>2 DEF Edge, NextStage, RetireStages, Stages, instruction_retired

(* The cycle that reports the halt executes the branch to itself.          *)
LEMMA HaltingEdge ==
  ASSUME DebuggerInv, execute_one_cycle, ~ halted, halted'
  PROVE  (mem[Cell(IsaPc)] = \h40FF)'
<1>1. instruction_retired /\ HaltRepeat >= HALT_REPEAT_THRESHOLD
  BY DEF execute_one_cycle, stop_reason
<1>2. instruction' = \h40FF
  BY <1>1 DEF HaltRepeat, HALT_REPEAT_THRESHOLD
<1>3. execution_stage \in {"EXECUTE_SINGLE", "EXECUTE_DOUBLE", "LOAD_CALL_TARGET"}
  BY <1>1 DEF DebuggerInv, SampleInTime, execute_one_cycle, instruction_retired
<1>4. Edge(execution_stage) /\ Clock
  BY DEF execute_one_cycle, Clock, ResetInit, FetchAddress, FetchDecode, ExecuteSingle,
     FetchSecondWord, ExecuteDouble, SaveReturnAddress, LoadCallTarget, Edge
<1>5. instruction = \h40FF /\ opcode = JR
  BY <1>2, <1>3, <1>4, InstructionHeld, HaltWord DEF opcode
<1>6. execution_stage = "EXECUTE_SINGLE"
  BY <1>3, <1>5 DEF DebuggerInv, IInv, PathFollowsInstruction, Extended, LDRR, STRR,
     JMPA, MVRD, ADDI, ANDI, CALLA, JR
<1>7. ExecuteSingle
  BY <1>4, <1>6 DEF ExecuteSingle
<1>8. UNCHANGED Architecture!isaVars /\ mem[Cell(IsaPc)] = \h40FF
  BY <1>5, <1>7, BranchToItself DEF DebuggerInv
<1> QED
  BY <1>8 DEF Architecture!isaVars, Cell

LEMMA CycleKeeps ==
  ASSUME DebuggerInv, execute_one_cycle
  PROVE  DebuggerInv'
<1>1. IInv'
  BY InvStep DEF DebuggerInv, execute_one_cycle, Next
<1>2. SampleInTime'
  BY DEF execute_one_cycle, SampleInTime
<1>3. CASE halted
  <2>1. UNCHANGED Architecture!isaVars /\ mem[Cell(IsaPc)] = \h40FF
    BY <1>3, RestingEdge DEF DebuggerInv, AtRest, execute_one_cycle
  <2> QED
    BY <1>1, <1>2, <2>1 DEF Architecture!isaVars, Cell, DebuggerInv, AtRest
<1>4. CASE ~ halted
  BY <1>1, <1>2, <1>4, HaltingEdge DEF DebuggerInv, AtRest
<1> QED
  BY <1>3, <1>4

LEMMA SampleKeeps ==
  ASSUME DebuggerInv, SampleStage
  PROVE  DebuggerInv'
<1>1. IInv'
  BY InvStep DEF DebuggerInv, SampleStage
<1>2. SampleInTime'
  BY DEF SampleStage, SampleInTime, vars
<1>3. mem[Cell(IsaPc)]' = mem[Cell(IsaPc)]
  BY DEF SampleStage, vars, Cell, IsaPc, Fetched, opcode, offset
<1>4. AtRest'
  BY <1>3 DEF DebuggerInv, AtRest, SampleStage, counters
<1> QED
  BY <1>1, <1>2, <1>4 DEF DebuggerInv

LEMMA DebuggerInvInit == DebuggerInit => DebuggerInv
<1> SUFFICES ASSUME DebuggerInit PROVE DebuggerInv
  OBVIOUS
<1>1. execution_stage \in {"RESET_INIT", "FETCH_ADDRESS"}
  BY DEF DebuggerInit, do_reset_sequence
<1>2. TypeOK
  BY <1>1, ProgramsAssumption, HexFilesAssumption DEF DebuggerInit, do_reset_sequence, Cleared, TypeOK,
     Stages, Word, WordSize, Flags, Reg
<1>3. InstructionInFlight /\ PathFollowsInstruction /\ OperandPrepared
  BY <1>1 DEF InstructionInFlight, PathFollowsInstruction, OperandPrepared
<1>4. SampleInTime /\ AtRest
  BY DEF DebuggerInit, do_reset_sequence, SampleInTime, AtRest
<1> QED
  BY <1>2, <1>3, <1>4 DEF DebuggerInv, IInv

LEMMA DebuggerInvStep == DebuggerInv /\ [DebuggerNext]_debuggerVars => DebuggerInv'
<1> SUFFICES ASSUME DebuggerInv, [DebuggerNext]_debuggerVars PROVE DebuggerInv'
  OBVIOUS
<1>1. CASE Prompt
  BY <1>1, PromptKeeps
<1>2. CASE SampleStage
  BY <1>2, SampleKeeps
<1>3. CASE execute_one_cycle
  BY <1>3, CycleKeeps
<1>4. CASE UNCHANGED debuggerVars
  BY <1>4, AloneKeeps DEF debuggerVars
<1> QED
  BY <1>1, <1>2, <1>3, <1>4 DEF DebuggerNext, ClockRuns

-----------------------------------------------------------------------------
(* The three promises of the debugger, as steps.                           *)
CountsStep ==
  execute_one_cycle =>
    (instruction_retired <=> execution_stage' = "FETCH_ADDRESS" /\ execution_stage # "RESET_INIT")

RestsStep == halted /\ halted' => UNCHANGED <<regs, flags, mem>>

LEMMA RestsStepHolds ==
  DebuggerInv /\ [DebuggerNext]_debuggerVars => [RestsStep]_debuggerVars
<1> SUFFICES ASSUME DebuggerInv, [DebuggerNext]_debuggerVars, halted, halted'
             PROVE  UNCHANGED <<regs, flags, mem>>
  BY DEF RestsStep
<1>1. CASE execute_one_cycle
  BY <1>1, RestingEdge DEF DebuggerInv, AtRest, execute_one_cycle, Architecture!isaVars
<1>2. CASE SampleStage \/ UNCHANGED debuggerVars
  BY <1>2 DEF SampleStage, debuggerVars, vars
<1>3. CASE Prompt
  <2>1. ~ ResetSequence
    BY DEF ResetSequence, do_reset_sequence
  <2> QED
    BY <1>3, <2>1 DEF Prompt, sv_reset, sv_load_hex, sv_step_cycles, sv_step_instructions,
       run_until_stop, sv_add_breakpoint, sv_clear_breakpoints, sv_quit, vars
<1> QED
  BY <1>1, <1>2, <1>3 DEF DebuggerNext, ClockRuns

(* Every session counts retirements in the cycles that retire.             *)
THEOREM StepsCorrect == DebuggerSpec => StepsWholeInstructions
<1>1. DebuggerInv /\ [DebuggerNext]_debuggerVars => [CountsStep]_debuggerVars
  BY RetirementSeen DEF CountsStep
<1> QED
  BY <1>1, DebuggerInvInit, DebuggerInvStep, PTL
     DEF DebuggerSpec, StepsWholeInstructions, CountsStep

(* A halted program stays at rest until the next reset.                    *)
THEOREM HaltedCorrect == DebuggerSpec => HaltedIsFinal
  BY RestsStepHolds, DebuggerInvInit, DebuggerInvStep, PTL
     DEF DebuggerSpec, HaltedIsFinal, RestsStep

-----------------------------------------------------------------------------
(***************************************************************************)
(* How its commands end.  The limit is tested at least, not exactly, so    *)
(* that every half cycle brings a running command nearer to its end, also  *)
(* when a saturated counter starts behind the limit.  "si" has at least    *)
(* one instruction to go until it ends, so that it ends because one        *)
(* retired, unless something else stopped it.                              *)
(***************************************************************************)
CommandOK ==
  /\ clk \in {0, 1}
  /\ cycle_count \in Nat
  /\ command.kind = "instructions" => command.left \in Nat \ {0}
  /\ command # Idle => command.kind \in {"cycles", "instructions", "run"}

CommandInv == DebuggerInv /\ CommandOK

PassedStep ==
  execute_one_cycle /\ execution_stage' = "FETCH_ADDRESS" /\ pc' \in breakpoints =>
    command' = Idle

BoundaryStep ==
  command.kind = "instructions" /\ command' = Idle
    /\ last_stop_reason' \notin {"TIMEOUT", "BREAKPOINT"} =>
    execution_stage' = "FETCH_ADDRESS"

(* What is left of the limit of a running command, in half cycles.         *)
BudgetLeft ==
  IF command = Idle THEN 0
  ELSE 2 * (IF cycle_count < max_cycles THEN max_cycles - cycle_count ELSE 0) + clk + 1

BudgetStep == command # Idle => BudgetLeft' < BudgetLeft

LEMMA PromptCommands ==
  ASSUME CommandOK, Prompt
  PROVE  CommandOK'
<1>1. CASE sv_reset \/ sv_load_hex
  BY <1>1 DEF sv_reset, sv_load_hex, ResetSequence, do_reset_sequence, CommandOK, Idle
<1>2. ASSUME NEW n \in 0 .. MaxStep, sv_step_cycles(n)
      PROVE  CommandOK'
  BY <1>2 DEF sv_step_cycles, CommandOK, counters, Idle
<1>3. ASSUME NEW n \in 0 .. MaxStep, sv_step_instructions(n)
      PROVE  CommandOK'
  <2>1. n \in Nat
    BY <1>3, MaxStepAssumption
  <2> QED
    BY <1>3, <2>1 DEF sv_step_instructions, CommandOK, counters, Idle
<1>4. CASE run_until_stop
  BY <1>4 DEF run_until_stop, CommandOK, counters, Idle
<1>5. ASSUME NEW a, sv_add_breakpoint(a)
      PROVE  CommandOK'
  BY <1>5 DEF sv_add_breakpoint, CommandOK, counters, Idle
<1>6. CASE sv_clear_breakpoints \/ sv_quit
  BY <1>6 DEF sv_clear_breakpoints, sv_quit, CommandOK, counters, Idle
<1> QED
  BY <1>1, <1>2, <1>3, <1>4, <1>5, <1>6 DEF Prompt

LEMMA CycleCounted ==
  ASSUME CommandOK, execute_one_cycle
  PROVE  /\ cycle_count' \in Nat
         /\ cycle_count' < max_cycles => cycle_count' = cycle_count + 1
         /\ command' # Idle => stop_reason = "NONE" /\ Left # 0
         /\ command' # Idle => cycle_count' < max_cycles
         /\ command' # Idle => command' = [command EXCEPT !.left = Left]
<1>1. cycle_count' \in Nat /\ (cycle_count' < max_cycles => cycle_count' = cycle_count + 1)
  BY CountCapAssumption DEF execute_one_cycle, Saturated, CommandOK
<1>2. command' # Idle => stop_reason = "NONE" /\ Left # 0
  BY DEF execute_one_cycle
<1>3. command' # Idle => ~ timed_out
  BY <1>2 DEF stop_reason
<1> QED
  BY <1>1, <1>2, <1>3, CountCapAssumption DEF timed_out, execute_one_cycle

LEMMA CycleCommands ==
  ASSUME CommandOK, execute_one_cycle
  PROVE  CommandOK'
<1>1. CASE command' = Idle
  BY <1>1, CycleCounted DEF execute_one_cycle, CommandOK, Idle
<1>2. CASE command' # Idle
  <2>1. command' = [command EXCEPT !.left = Left] /\ Left # 0
    BY <1>2, CycleCounted
  <2>2. command'.kind = command.kind
    BY <2>1
  <2>3. command.kind = "instructions" => command'.left = Left /\ Left \in Nat \ {0}
    BY <2>1 DEF CommandOK, Left
  <2> QED
    BY <2>2, <2>3, CycleCounted DEF execute_one_cycle, CommandOK
<1> QED
  BY <1>1, <1>2

LEMMA CommandInvInit == DebuggerInit => CommandInv
<1>1. DebuggerInit => CommandOK
  BY DEF DebuggerInit, do_reset_sequence, CommandOK, Idle
<1> QED
  BY <1>1, DebuggerInvInit DEF CommandInv

LEMMA CommandInvStep == CommandInv /\ [DebuggerNext]_debuggerVars => CommandInv'
<1> SUFFICES ASSUME CommandOK, [DebuggerNext]_debuggerVars PROVE CommandOK'
  BY DebuggerInvStep DEF CommandInv
<1>1. CASE SampleStage \/ UNCHANGED debuggerVars
  BY <1>1 DEF SampleStage, debuggerVars, counters, CommandOK
<1> QED
  BY <1>1, PromptCommands, CycleCommands DEF DebuggerNext, ClockRuns

(* Only the clock ends a command.                                          *)
LEMMA BusyStep ==
  ASSUME command # Idle, [DebuggerNext]_debuggerVars
  PROVE  SampleStage \/ execute_one_cycle \/ UNCHANGED debuggerVars
  BY DEF DebuggerNext, ClockRuns, Prompt, sv_reset, sv_load_hex, sv_step_cycles,
     sv_step_instructions, run_until_stop, sv_add_breakpoint, sv_clear_breakpoints, sv_quit

LEMMA BoundaryStepHolds ==
  CommandInv /\ [DebuggerNext]_debuggerVars => [BoundaryStep]_debuggerVars
<1> SUFFICES ASSUME CommandInv, [DebuggerNext]_debuggerVars,
                    command.kind = "instructions", command' = Idle,
                    last_stop_reason' \notin {"TIMEOUT", "BREAKPOINT"}
             PROVE  execution_stage' = "FETCH_ADDRESS"
  BY DEF BoundaryStep
<1>1. command # Idle
  BY DEF Idle
<1>2. execute_one_cycle
  BY <1>1, BusyStep DEF SampleStage, debuggerVars
<1>3. command.left # 0 /\ Left = command.left - (IF instruction_retired THEN 1 ELSE 0)
  BY DEF CommandInv, CommandOK, Left
<1>4. stop_reason = "HALTED" \/ Left = 0
  BY <1>1, <1>2 DEF execute_one_cycle, stop_reason, Idle
<1>5. instruction_retired
  BY <1>3, <1>4 DEF stop_reason, CommandInv, CommandOK
<1> QED
  BY <1>2, <1>5, RetirementSeen DEF CommandInv

LEMMA BudgetStepHolds ==
  CommandInv /\ [DebuggerNext]_debuggerVars => [BudgetStep]_debuggerVars
<1> SUFFICES ASSUME CommandOK, command # Idle, SampleStage \/ execute_one_cycle
             PROVE  BudgetLeft' < BudgetLeft
  BY BusyStep DEF BudgetStep, CommandInv
<1>1. CASE SampleStage
  BY <1>1, CountCapAssumption DEF SampleStage, counters, BudgetLeft, CommandOK
<1>2. CASE execute_one_cycle /\ command' = Idle
  BY <1>2, CountCapAssumption DEF BudgetLeft, CommandOK
<1>3. CASE execute_one_cycle /\ command' # Idle
  <2>1. cycle_count' = cycle_count + 1 /\ cycle_count' < max_cycles
    BY <1>3, CycleCounted
  <2>2. clk = 0 /\ clk' = 1
    BY <1>3 DEF execute_one_cycle
  <2> QED
    BY <1>3, <2>1, <2>2, CountCapAssumption DEF BudgetLeft, CommandOK
<1> QED
  BY <1>1, <1>2, <1>3

(* No command runs over a breakpoint.                                      *)
THEOREM BreakpointsCorrect == DebuggerSpec => BreakpointNeverPassed
<1>1. [DebuggerNext]_debuggerVars => [PassedStep]_debuggerVars
  BY DEF PassedStep, execute_one_cycle, stop_reason, breakpoint_hit
<1> QED
  BY <1>1, PTL DEF DebuggerSpec, BreakpointNeverPassed, PassedStep

(* Only a breakpoint makes "si" stop elsewhere than it says, a time-out    *)
(* apart: one at the address behind an opcode, which the program counter   *)
(* takes on as soon as the opcode is fetched.                              *)
THEOREM BoundaryCorrect ==
  DebuggerSpec =>
    [][command.kind = "instructions" /\ command' = Idle
         /\ last_stop_reason' \notin {"TIMEOUT", "BREAKPOINT"} =>
         execution_stage' = "FETCH_ADDRESS"]_debuggerVars
  BY BoundaryStepHolds, CommandInvInit, CommandInvStep, PTL DEF DebuggerSpec, BoundaryStep

(* While a command runs nothing but the clock acts, and every half cycle   *)
(* takes some of a finite budget: with a clock that runs, it returns.      *)
THEOREM BudgetFalls ==
  DebuggerSpec => /\ [](BudgetLeft \in Nat)
                  /\ [][command # Idle => BudgetLeft' < BudgetLeft]_debuggerVars
<1>1. CommandInv => BudgetLeft \in Nat
  BY CountCapAssumption DEF CommandInv, CommandOK, BudgetLeft
<1> QED
  BY <1>1, BudgetStepHolds, CommandInvInit, CommandInvStep, PTL DEF DebuggerSpec, BudgetStep

-----------------------------------------------------------------------------
(***************************************************************************)
(* The lock-step comparison.  From the edge at which an instruction takes  *)
(* effect to the turn after its retirement the processor is ahead of the   *)
(* golden model by that instruction.  The instruction set is a function,   *)
(* so the golden model arrives where the processor already is.             *)
(***************************************************************************)
GoldenIsa == INSTANCE IsaProofs WITH pc <- goldenPc, regs <- goldenRegs,
                                     flags <- goldenFlags, mem <- goldenMem

(* The facts about the instruction set, for the golden model.              *)
LEMMA GoldenSteps == Golden!Step <=> GoldenIsa!Step
  BY DEF Golden!Step, Golden!Arithmetic, Golden!Logic, Golden!Shift, Golden!Move,
     Golden!Compare, Golden!Take, Golden!Branch, Golden!SetCarry, Golden!Jump,
     Golden!Immediate, Golden!Load, Golden!Store, Golden!Call, Golden!Return,
     Golden!Undefined, Golden!WriteResult, Golden!IsaCell, Golden!ir, Golden!op,
     Golden!rd, Golden!rs, Golden!next, Golden!extension, Golden!B, Golden!LogicFlags,
     Golden!ShiftFlags, Golden!AddFlags, Golden!SubFlags, Golden!Opcode, Golden!DestReg,
     Golden!SourReg, Golden!Imm8, Golden!LinkRegister, Golden!ADD, Golden!SUB,
     Golden!AND, Golden!CMP, Golden!XOR, Golden!TEST, Golden!OR, Golden!MVRR,
     Golden!DEC, Golden!INC, Golden!SHL, Golden!SHR, Golden!ADC, Golden!SBB, Golden!NOT,
     Golden!ASR, Golden!RegisterOps, Golden!JR, Golden!JRS, Golden!JRNS, Golden!JRC,
     Golden!JRNC, Golden!JRZ, Golden!JRNZ, Golden!Branches, Golden!CLC, Golden!STC,
     Golden!RET, Golden!JMPA, Golden!MVRD, Golden!LDRR, Golden!STRR, Golden!ADDI,
     Golden!ANDI, Golden!CALLA, Golden!Extended, Golden!Defined, Golden!WordSize,
     Golden!Bit, Golden!Sign, Golden!Plus, Golden!LowByte, Golden!HighByte, Golden!Pack,
     Golden!BitAnd, Golden!BitOr, Golden!BitXor, Golden!BitNot, Golden!SignExtend,
     GoldenIsa!Step, GoldenIsa!Arithmetic, GoldenIsa!Logic, GoldenIsa!Shift,
     GoldenIsa!Move, GoldenIsa!Compare, GoldenIsa!Take, GoldenIsa!Branch,
     GoldenIsa!SetCarry, GoldenIsa!Jump, GoldenIsa!Immediate, GoldenIsa!Load,
     GoldenIsa!Store, GoldenIsa!Call, GoldenIsa!Return, GoldenIsa!Undefined,
     GoldenIsa!WriteResult, GoldenIsa!IsaCell, GoldenIsa!ir, GoldenIsa!op, GoldenIsa!rd,
     GoldenIsa!rs, GoldenIsa!next, GoldenIsa!extension, GoldenIsa!B,
     GoldenIsa!LogicFlags, GoldenIsa!ShiftFlags, GoldenIsa!AddFlags, GoldenIsa!SubFlags,
     GoldenIsa!Opcode, GoldenIsa!DestReg, GoldenIsa!SourReg, GoldenIsa!Imm8,
     GoldenIsa!LinkRegister, GoldenIsa!ADD, GoldenIsa!SUB, GoldenIsa!AND, GoldenIsa!CMP,
     GoldenIsa!XOR, GoldenIsa!TEST, GoldenIsa!OR, GoldenIsa!MVRR, GoldenIsa!DEC,
     GoldenIsa!INC, GoldenIsa!SHL, GoldenIsa!SHR, GoldenIsa!ADC, GoldenIsa!SBB,
     GoldenIsa!NOT, GoldenIsa!ASR, GoldenIsa!RegisterOps, GoldenIsa!JR, GoldenIsa!JRS,
     GoldenIsa!JRNS, GoldenIsa!JRC, GoldenIsa!JRNC, GoldenIsa!JRZ, GoldenIsa!JRNZ,
     GoldenIsa!Branches, GoldenIsa!CLC, GoldenIsa!STC, GoldenIsa!RET, GoldenIsa!JMPA,
     GoldenIsa!MVRD, GoldenIsa!LDRR, GoldenIsa!STRR, GoldenIsa!ADDI, GoldenIsa!ANDI,
     GoldenIsa!CALLA, GoldenIsa!Extended, GoldenIsa!Defined, GoldenIsa!WordSize,
     GoldenIsa!Bit, GoldenIsa!Sign, GoldenIsa!Plus, GoldenIsa!LowByte,
     GoldenIsa!HighByte, GoldenIsa!Pack, GoldenIsa!BitAnd, GoldenIsa!BitOr,
     GoldenIsa!BitXor, GoldenIsa!BitNot, GoldenIsa!SignExtend

LEMMA GoldenFunction ==
  ASSUME NEW p, NEW r, NEW f, NEW m
  PROVE  /\ ProcessorIsa!AfterPc(p, r, f, m) = GoldenIsa!AfterPc(p, r, f, m)
         /\ ProcessorIsa!AfterRegs(p, r, f, m) = GoldenIsa!AfterRegs(p, r, f, m)
         /\ ProcessorIsa!AfterFlags(p, r, f, m) = GoldenIsa!AfterFlags(p, r, f, m)
         /\ ProcessorIsa!AfterMem(p, r, m) = GoldenIsa!AfterMem(p, r, m)
<1>1. ASSUME NEW w, NEW x
      PROVE  /\ ProcessorIsa!IsaCell(w) = GoldenIsa!IsaCell(w)
             /\ ProcessorIsa!Opcode(w) = GoldenIsa!Opcode(w)
             /\ ProcessorIsa!DestReg(w) = GoldenIsa!DestReg(w)
             /\ ProcessorIsa!SourReg(w) = GoldenIsa!SourReg(w)
             /\ ProcessorIsa!Imm8(w) = GoldenIsa!Imm8(w)
             /\ ProcessorIsa!Plus(w, x) = GoldenIsa!Plus(w, x)
             /\ ProcessorIsa!SignExtend(w) = GoldenIsa!SignExtend(w)
  BY DEF ProcessorIsa!IsaCell, ProcessorIsa!Opcode, ProcessorIsa!DestReg,
         ProcessorIsa!SourReg, ProcessorIsa!Imm8, ProcessorIsa!Plus,
         ProcessorIsa!SignExtend, ProcessorIsa!WordSize, GoldenIsa!IsaCell,
         GoldenIsa!Opcode, GoldenIsa!DestReg, GoldenIsa!SourReg, GoldenIsa!Imm8,
         GoldenIsa!Plus, GoldenIsa!SignExtend, GoldenIsa!WordSize
<1>2. ProcessorIsa!At(p, m) = GoldenIsa!At(p, m) /\ ProcessorIsa!Second(p, m) = GoldenIsa!Second(p, m)
  BY <1>1 DEF ProcessorIsa!At, ProcessorIsa!Second, GoldenIsa!At, GoldenIsa!Second
<1>3. ProcessorIsa!Operand(p, r, m) = GoldenIsa!Operand(p, r, m)
  BY <1>1, <1>2 DEF ProcessorIsa!Operand, ProcessorIsa!MVRD, ProcessorIsa!ADDI, ProcessorIsa!ANDI,
         ProcessorIsa!LDRR, GoldenIsa!Operand, GoldenIsa!MVRD, GoldenIsa!ADDI,
         GoldenIsa!ANDI, GoldenIsa!LDRR
<1>4. ASSUME NEW o, NEW a, NEW b
      PROVE  ProcessorIsa!Value(o, a, b, f) = GoldenIsa!Value(o, a, b, f)
  BY DEF ProcessorIsa!Value, ProcessorIsa!WordSize, ProcessorIsa!BitAnd,
         ProcessorIsa!BitOr, ProcessorIsa!BitXor, ProcessorIsa!BitNot,
         ProcessorIsa!Pack, ProcessorIsa!Bit, ProcessorIsa!LowByte,
         ProcessorIsa!HighByte, ProcessorIsa!Sign, ProcessorIsa!B, ProcessorIsa!ADD,
         ProcessorIsa!SUB, ProcessorIsa!AND, ProcessorIsa!CMP, ProcessorIsa!XOR,
         ProcessorIsa!TEST, ProcessorIsa!OR, ProcessorIsa!MVRR, ProcessorIsa!DEC,
         ProcessorIsa!INC, ProcessorIsa!SHL, ProcessorIsa!SHR, ProcessorIsa!ADC,
         ProcessorIsa!SBB, ProcessorIsa!NOT, ProcessorIsa!ASR, ProcessorIsa!JR,
         ProcessorIsa!JRS, ProcessorIsa!JRNS, ProcessorIsa!JRC, ProcessorIsa!JRNC,
         ProcessorIsa!JRZ, ProcessorIsa!JRNZ, ProcessorIsa!CLC, ProcessorIsa!STC,
         ProcessorIsa!RET, ProcessorIsa!JMPA, ProcessorIsa!MVRD, ProcessorIsa!LDRR,
         ProcessorIsa!STRR, ProcessorIsa!ADDI, ProcessorIsa!ANDI, ProcessorIsa!CALLA,
         GoldenIsa!Value, GoldenIsa!WordSize, GoldenIsa!BitAnd, GoldenIsa!BitOr,
         GoldenIsa!BitXor, GoldenIsa!BitNot, GoldenIsa!Pack, GoldenIsa!Bit,
         GoldenIsa!LowByte, GoldenIsa!HighByte, GoldenIsa!Sign, GoldenIsa!B,
         GoldenIsa!ADD, GoldenIsa!SUB, GoldenIsa!AND, GoldenIsa!CMP, GoldenIsa!XOR,
         GoldenIsa!TEST, GoldenIsa!OR, GoldenIsa!MVRR, GoldenIsa!DEC, GoldenIsa!INC,
         GoldenIsa!SHL, GoldenIsa!SHR, GoldenIsa!ADC, GoldenIsa!SBB, GoldenIsa!NOT,
         GoldenIsa!ASR, GoldenIsa!JR, GoldenIsa!JRS, GoldenIsa!JRNS, GoldenIsa!JRC,
         GoldenIsa!JRNC, GoldenIsa!JRZ, GoldenIsa!JRNZ, GoldenIsa!CLC, GoldenIsa!STC,
         GoldenIsa!RET, GoldenIsa!JMPA, GoldenIsa!MVRD, GoldenIsa!LDRR, GoldenIsa!STRR,
         GoldenIsa!ADDI, GoldenIsa!ANDI, GoldenIsa!CALLA
<1>5. ASSUME NEW o, NEW a, NEW b
      PROVE  ProcessorIsa!FlagsLeft(o, a, b, f) = GoldenIsa!FlagsLeft(o, a, b, f)
  BY <1>4 DEF ProcessorIsa!FlagsLeft, ProcessorIsa!AddFlags, ProcessorIsa!SubFlags,
         ProcessorIsa!LogicFlags, ProcessorIsa!ShiftFlags, ProcessorIsa!B,
         ProcessorIsa!WordSize, ProcessorIsa!Sign, ProcessorIsa!B, ProcessorIsa!ADD,
         ProcessorIsa!SUB, ProcessorIsa!AND, ProcessorIsa!CMP, ProcessorIsa!XOR,
         ProcessorIsa!TEST, ProcessorIsa!OR, ProcessorIsa!MVRR, ProcessorIsa!DEC,
         ProcessorIsa!INC, ProcessorIsa!SHL, ProcessorIsa!SHR, ProcessorIsa!ADC,
         ProcessorIsa!SBB, ProcessorIsa!NOT, ProcessorIsa!ASR, ProcessorIsa!JR,
         ProcessorIsa!JRS, ProcessorIsa!JRNS, ProcessorIsa!JRC, ProcessorIsa!JRNC,
         ProcessorIsa!JRZ, ProcessorIsa!JRNZ, ProcessorIsa!CLC, ProcessorIsa!STC,
         ProcessorIsa!RET, ProcessorIsa!JMPA, ProcessorIsa!MVRD, ProcessorIsa!LDRR,
         ProcessorIsa!STRR, ProcessorIsa!ADDI, ProcessorIsa!ANDI, ProcessorIsa!CALLA,
         GoldenIsa!FlagsLeft, GoldenIsa!AddFlags, GoldenIsa!SubFlags,
         GoldenIsa!LogicFlags, GoldenIsa!ShiftFlags, GoldenIsa!B, GoldenIsa!WordSize,
         GoldenIsa!Sign, GoldenIsa!B, GoldenIsa!ADD, GoldenIsa!SUB, GoldenIsa!AND,
         GoldenIsa!CMP, GoldenIsa!XOR, GoldenIsa!TEST, GoldenIsa!OR, GoldenIsa!MVRR,
         GoldenIsa!DEC, GoldenIsa!INC, GoldenIsa!SHL, GoldenIsa!SHR, GoldenIsa!ADC,
         GoldenIsa!SBB, GoldenIsa!NOT, GoldenIsa!ASR, GoldenIsa!JR, GoldenIsa!JRS,
         GoldenIsa!JRNS, GoldenIsa!JRC, GoldenIsa!JRNC, GoldenIsa!JRZ, GoldenIsa!JRNZ,
         GoldenIsa!CLC, GoldenIsa!STC, GoldenIsa!RET, GoldenIsa!JMPA, GoldenIsa!MVRD,
         GoldenIsa!LDRR, GoldenIsa!STRR, GoldenIsa!ADDI, GoldenIsa!ANDI, GoldenIsa!CALLA
<1>6. ProcessorIsa!AfterPc(p, r, f, m) = GoldenIsa!AfterPc(p, r, f, m)
  BY <1>1, <1>2 DEF ProcessorIsa!AfterPc, ProcessorIsa!Jumps, ProcessorIsa!Branches,
         ProcessorIsa!JR, ProcessorIsa!JRS, ProcessorIsa!JRNS, ProcessorIsa!JRC,
         ProcessorIsa!JRNC, ProcessorIsa!JRZ, ProcessorIsa!JRNZ, ProcessorIsa!JMPA,
         ProcessorIsa!MVRD, ProcessorIsa!ADDI, ProcessorIsa!ANDI, ProcessorIsa!CALLA,
         ProcessorIsa!RET, ProcessorIsa!LinkRegister, GoldenIsa!AfterPc,
         GoldenIsa!Jumps, GoldenIsa!Branches, GoldenIsa!JR, GoldenIsa!JRS,
         GoldenIsa!JRNS, GoldenIsa!JRC, GoldenIsa!JRNC, GoldenIsa!JRZ, GoldenIsa!JRNZ,
         GoldenIsa!JMPA, GoldenIsa!MVRD, GoldenIsa!ADDI, GoldenIsa!ANDI,
         GoldenIsa!CALLA, GoldenIsa!RET, GoldenIsa!LinkRegister
<1>7. ProcessorIsa!AfterRegs(p, r, f, m) = GoldenIsa!AfterRegs(p, r, f, m)
  <2>1. ProcessorIsa!Writing = GoldenIsa!Writing
    BY DEF ProcessorIsa!Writing, ProcessorIsa!RegisterOps, ProcessorIsa!ADD,
           ProcessorIsa!SUB, ProcessorIsa!AND, ProcessorIsa!CMP, ProcessorIsa!XOR,
           ProcessorIsa!TEST, ProcessorIsa!OR, ProcessorIsa!MVRR, ProcessorIsa!DEC,
           ProcessorIsa!INC, ProcessorIsa!SHL, ProcessorIsa!SHR, ProcessorIsa!ADC,
           ProcessorIsa!SBB, ProcessorIsa!NOT, ProcessorIsa!ASR, ProcessorIsa!MVRD,
           ProcessorIsa!LDRR, ProcessorIsa!ADDI, ProcessorIsa!ANDI, GoldenIsa!Writing,
           GoldenIsa!RegisterOps, GoldenIsa!ADD, GoldenIsa!SUB, GoldenIsa!AND,
           GoldenIsa!CMP, GoldenIsa!XOR, GoldenIsa!TEST, GoldenIsa!OR, GoldenIsa!MVRR,
           GoldenIsa!DEC, GoldenIsa!INC, GoldenIsa!SHL, GoldenIsa!SHR, GoldenIsa!ADC,
           GoldenIsa!SBB, GoldenIsa!NOT, GoldenIsa!ASR, GoldenIsa!MVRD, GoldenIsa!LDRR,
           GoldenIsa!ADDI, GoldenIsa!ANDI
  <2>2. ProcessorIsa!CALLA = GoldenIsa!CALLA /\ ProcessorIsa!LinkRegister = GoldenIsa!LinkRegister
    BY DEF ProcessorIsa!CALLA, ProcessorIsa!LinkRegister, GoldenIsa!CALLA,
           GoldenIsa!LinkRegister
  <2> DEFINE w == GoldenIsa!At(p, m)
             d == GoldenIsa!DestReg(w)
             v == GoldenIsa!Value(GoldenIsa!Opcode(w), GoldenIsa!Operand(p, r, m), r[d], f)
  <2>3. ProcessorIsa!Value(ProcessorIsa!Opcode(ProcessorIsa!At(p, m)), ProcessorIsa!Operand(p, r, m),
                           r[ProcessorIsa!DestReg(ProcessorIsa!At(p, m))], f) = v
    BY <1>1, <1>2, <1>3, <1>4
  <2>4. ProcessorIsa!Plus(ProcessorIsa!Plus(p, 1), 1) = GoldenIsa!Plus(GoldenIsa!Plus(p, 1), 1)
    BY <1>1
  <2> QED
    BY <1>1, <1>2, <2>1, <2>2, <2>3, <2>4 DEF ProcessorIsa!AfterRegs, GoldenIsa!AfterRegs
<1>8. ProcessorIsa!AfterFlags(p, r, f, m) = GoldenIsa!AfterFlags(p, r, f, m)
  BY <1>1, <1>2, <1>3, <1>5 DEF ProcessorIsa!AfterFlags, GoldenIsa!AfterFlags
<1>9. ProcessorIsa!AfterMem(p, r, m) = GoldenIsa!AfterMem(p, r, m)
  BY DEF ProcessorIsa!AfterMem, ProcessorIsa!At, ProcessorIsa!STRR,
         ProcessorIsa!IsaCell, ProcessorIsa!Opcode, ProcessorIsa!DestReg,
         ProcessorIsa!SourReg, GoldenIsa!AfterMem, GoldenIsa!At, GoldenIsa!STRR,
         GoldenIsa!IsaCell, GoldenIsa!Opcode, GoldenIsa!DestReg, GoldenIsa!SourReg
<1> QED
  BY <1>6, <1>7, <1>8, <1>9

-----------------------------------------------------------------------------
(* The two machines are in the same state of the instruction set.          *)
Same ==
  /\ goldenPc = IsaPc
  /\ goldenRegs = regs
  /\ goldenFlags = flags
  /\ goldenMem = mem

(* The processor is one instruction ahead: the one the golden model will   *)
(* take next.                                                              *)
Ahead ==
  /\ IsaPc = GoldenIsa!AfterPc(goldenPc, goldenRegs, goldenFlags, goldenMem)
  /\ regs = GoldenIsa!AfterRegs(goldenPc, goldenRegs, goldenFlags, goldenMem)
  /\ flags = GoldenIsa!AfterFlags(goldenPc, goldenRegs, goldenFlags, goldenMem)
  /\ mem = GoldenIsa!AfterMem(goldenPc, goldenRegs, goldenMem)

(* While the loop turns, the processor is ahead from the edge at which the *)
(* instruction takes effect until the turn after its retirement has let    *)
(* the golden model follow.                                                *)
InStep ==
  outcome = "none" =>
    /\ execution_stage # "RESET_INIT"
    /\ goldenPc \in Word
    /\ was_retire => execution_stage = "FETCH_ADDRESS"
    /\ IF was_retire \/ execution_stage = "LOAD_CALL_TARGET" THEN Ahead ELSE Same

DiffInv == IInv /\ NoFalseAlarm /\ InStep /\ SettledAtHalt

(* An instruction that takes effect while the golden model waits.          *)
LEMMA GetsAhead ==
  ASSUME Same, Architecture!Step, UNCHANGED golden
  PROVE  Ahead'
<1>1. ProcessorIsa!LandsWhereExpected
  BY ProcessorSteps, ProcessorIsa!StepIsFunction
<1>2. /\ IsaPc' = ProcessorIsa!AfterPc(goldenPc, goldenRegs, goldenFlags, goldenMem)
      /\ regs' = ProcessorIsa!AfterRegs(goldenPc, goldenRegs, goldenFlags, goldenMem)
      /\ flags' = ProcessorIsa!AfterFlags(goldenPc, goldenRegs, goldenFlags, goldenMem)
      /\ mem' = ProcessorIsa!AfterMem(goldenPc, goldenRegs, goldenMem)
  BY <1>1 DEF ProcessorIsa!LandsWhereExpected, Same
<1>3. /\ goldenPc' = goldenPc /\ goldenRegs' = goldenRegs
      /\ goldenFlags' = goldenFlags /\ goldenMem' = goldenMem
  BY DEF golden
<1> QED
  BY <1>2, <1>3, GoldenFunction DEF Ahead

(* The golden model catches up with a processor that waits.                *)
LEMMA CatchesUp ==
  ASSUME Ahead, Golden!Step, UNCHANGED Architecture!isaVars
  PROVE  Same'
<1>1. GoldenIsa!LandsWhereExpected
  BY GoldenSteps, GoldenIsa!StepIsFunction
<1> QED
  BY <1>1 DEF GoldenIsa!LandsWhereExpected, Ahead, Same, Architecture!isaVars

LEMMA IsaPcWord ==
  ASSUME TypeOK
  PROVE  IsaPc \in Word
<1>1. pc \in Word /\ 1 \in Word /\ Fetched \in Word /\ SignExtend(offset) \in Word
  BY DisplacementWord DEF TypeOK, Fetched, Word, WordSize
<1> QED
  BY <1>1, PlusMinusWord DEF IsaPc, TypeOK, Stages

(* The function of the harness that recognises a retirement is right.      *)
LEMMA RetirementRecognised ==
  ASSUME IInv
  PROVE  cur_retire <=> execution_stage \in RetireStages
<1> USE DEF RetireStages
<1>1. CASE opcode = CALLA
  BY <1>1 DEF IInv, PathFollowsInstruction, cur_retire, is_retire_stage, opcode,
     Extended, JMPA, MVRD, LDRR, STRR, ADDI, ANDI, CALLA
<1>2. CASE opcode \in (Extended \ {CALLA}) \cup {LDRR, STRR}
  BY <1>2 DEF IInv, PathFollowsInstruction, cur_retire, is_retire_stage, opcode,
     Extended, JMPA, MVRD, LDRR, STRR, ADDI, ANDI, CALLA
<1>3. CASE opcode \notin Extended \cup {LDRR, STRR}
  BY <1>3, ZenonT(40) DEF IInv, PathFollowsInstruction, cur_retire, is_retire_stage, opcode,
     Extended, JMPA, MVRD, LDRR, STRR, ADDI, ANDI, CALLA
<1> QED
  BY <1>1, <1>2, <1>3

(* A clock edge, by what it is to the instruction set.                     *)
LEMMA FetchingEdge ==
  ASSUME IInv, FetchAddress \/ FetchDecode \/ FetchSecondWord
  PROVE  /\ UNCHANGED Architecture!isaVars
         /\ ~ cur_retire
         /\ execution_stage' \notin {"RESET_INIT", "LOAD_CALL_TARGET"}
<1>1. UNCHANGED Architecture!isaVars
  BY FetchAddressStutters, FetchDecodeStutters, FetchSecondWordStutters
<1>2. execution_stage \notin RetireStages
  BY DEF FetchAddress, FetchDecode, FetchSecondWord, Edge, RetireStages
<1>3. execution_stage' \notin {"RESET_INIT", "LOAD_CALL_TARGET"}
  BY DEF FetchAddress, FetchDecode, FetchSecondWord, Edge, NextStage
<1> QED
  BY <1>1, <1>2, <1>3, RetirementRecognised

LEMMA RetiringEdge ==
  ASSUME IInv, ExecuteSingle \/ ExecuteDouble
  PROVE  /\ Architecture!Step
         /\ cur_retire
         /\ execution_stage' = "FETCH_ADDRESS"
<1>1. Architecture!Step
  BY ExecuteSingleSteps, ExecuteDoubleSteps
<1>2. execution_stage \in RetireStages /\ execution_stage' = "FETCH_ADDRESS"
  BY DEF ExecuteSingle, ExecuteDouble, Edge, NextStage, RetireStages
<1> QED
  BY <1>1, <1>2, RetirementRecognised

LEMMA CallingEdge ==
  ASSUME IInv, SaveReturnAddress
  PROVE  /\ Architecture!Step
         /\ ~ cur_retire
         /\ execution_stage' = "LOAD_CALL_TARGET"
<1>1. Architecture!Step
  BY SaveReturnAddressCalls DEF Architecture!Step
<1>2. execution_stage \notin RetireStages /\ execution_stage' = "LOAD_CALL_TARGET"
  BY DEF SaveReturnAddress, Edge, NextStage, RetireStages
<1> QED
  BY <1>1, <1>2, RetirementRecognised

LEMMA CalledEdge ==
  ASSUME IInv, LoadCallTarget
  PROVE  /\ UNCHANGED Architecture!isaVars
         /\ cur_retire
         /\ execution_stage = "LOAD_CALL_TARGET"
         /\ execution_stage' = "FETCH_ADDRESS"
<1>1. UNCHANGED Architecture!isaVars
  BY LoadCallTargetStutters
<1>2. /\ execution_stage \in RetireStages /\ execution_stage = "LOAD_CALL_TARGET"
      /\ execution_stage' = "FETCH_ADDRESS"
  BY DEF LoadCallTarget, Edge, NextStage, RetireStages
<1> QED
  BY <1>1, <1>2, RetirementRecognised

(* Both machines wait.                                                     *)
LEMMA BothWait ==
  ASSUME UNCHANGED golden, UNCHANGED Architecture!isaVars
  PROVE  (Same => Same') /\ (Ahead => Ahead')
  BY DEF golden, Architecture!isaVars, Same, Ahead

-----------------------------------------------------------------------------
(* The turns of the loop.                                                  *)
LEMMA WaitKeeps ==
  ASSUME DiffInv, Wait
  PROVE  DiffInv'
<1>1. IInv'
  BY InvStep DEF DiffInv, Wait, Tick, Next
<1>2. NoFalseAlarm' /\ outcome = "none" /\ outcome' = "none" /\ SettledAtHalt'
  BY DEF DiffInv, NoFalseAlarm, SettledAtHalt, Wait
<1>3. /\ execution_stage # "RESET_INIT" /\ ~ was_retire /\ was_retire' = cur_retire
      /\ goldenPc' \in Word /\ UNCHANGED golden
  <2>1. "FETCH_ADDRESS" \notin RetireStages
    BY DEF RetireStages
  <2> QED
    BY <2>1, RetirementRecognised DEF DiffInv, InStep, Wait, Tick, JustRetired, golden
<1>4. IF execution_stage = "LOAD_CALL_TARGET" THEN Ahead ELSE Same
  BY <1>2, <1>3 DEF DiffInv, InStep
<1>5. /\ was_retire' => execution_stage' = "FETCH_ADDRESS"
      /\ IF was_retire' \/ execution_stage' = "LOAD_CALL_TARGET" THEN Ahead' ELSE Same'
      /\ execution_stage' # "RESET_INIT"
  <2>1. Clock /\ ~ ResetInit
    BY <1>3 DEF Wait, Tick, ResetInit, Edge
  <2>2. CASE FetchAddress \/ FetchDecode \/ FetchSecondWord
    <3>1. execution_stage # "LOAD_CALL_TARGET"
      BY <2>2 DEF FetchAddress, FetchDecode, FetchSecondWord, Edge
    <3> QED
      BY <1>3, <1>4, <2>2, <3>1, FetchingEdge, BothWait DEF DiffInv
  <2>3. CASE ExecuteSingle \/ ExecuteDouble
    <3>1. execution_stage # "LOAD_CALL_TARGET"
      BY <2>3 DEF ExecuteSingle, ExecuteDouble, Edge
    <3> QED
      BY <1>3, <1>4, <2>3, <3>1, RetiringEdge, GetsAhead DEF DiffInv
  <2>4. CASE SaveReturnAddress
    <3>1. execution_stage # "LOAD_CALL_TARGET"
      BY <2>4 DEF SaveReturnAddress, Edge
    <3> QED
      BY <1>3, <1>4, <2>4, <3>1, CallingEdge, GetsAhead DEF DiffInv
  <2>5. CASE LoadCallTarget
    BY <1>3, <1>4, <2>5, CalledEdge, BothWait DEF DiffInv
  <2> QED
    BY <2>1, <2>2, <2>3, <2>4, <2>5 DEF Clock
<1>6. InStep'
  BY <1>3, <1>5 DEF InStep
<1> QED
  BY <1>1, <1>2, <1>6 DEF DiffInv

(* The golden model ends up where the processor is: the comparison passes. *)
LEMMA ComparisonPasses ==
  ASSUME DiffInv, Follow
  PROVE  /\ execution_stage = "FETCH_ADDRESS"
         /\ goldenPc' = IsaPc /\ goldenRegs' = regs
         /\ goldenFlags' = flags /\ goldenMem' = mem
         /\ snapshots_equal
<1>1. execution_stage = "FETCH_ADDRESS" /\ Ahead /\ Golden!Step
  BY DEF DiffInv, InStep, Follow, JustRetired
<1>2. GoldenIsa!LandsWhereExpected
  BY <1>1, GoldenSteps, GoldenIsa!StepIsFunction
<1>3. /\ goldenPc' = IsaPc /\ goldenRegs' = regs
      /\ goldenFlags' = flags /\ goldenMem' = mem
  BY <1>1, <1>2 DEF GoldenIsa!LandsWhereExpected, Ahead
<1>4. IsaPc = pc
  BY <1>1 DEF IsaPc
<1> QED
  BY <1>1, <1>3, <1>4 DEF snapshots_equal

(* The golden model stays on a branch to itself.                           *)
LEMMA GoldenHalt ==
  ASSUME goldenPc \in Word, Golden!Step, Golden!ir = \h40FF
  PROVE  goldenPc' = goldenPc /\ goldenMem' = goldenMem
<1> DEFINE w == \h40FF
<1>1. GoldenIsa!LandsWhereExpected
  BY GoldenSteps, GoldenIsa!StepIsFunction
<1>2. GoldenIsa!At(goldenPc, goldenMem) = w
  BY DEF Golden!ir, Golden!IsaCell, GoldenIsa!At, GoldenIsa!IsaCell
<1>3. GoldenIsa!Opcode(w) = 64 /\ GoldenIsa!SignExtend(GoldenIsa!Imm8(w)) = 65535
  BY DEF GoldenIsa!Opcode, GoldenIsa!SignExtend, GoldenIsa!Imm8
<1>4. goldenPc' = GoldenIsa!Plus(GoldenIsa!Plus(goldenPc, 1), 65535)
  BY <1>1, <1>2, <1>3 DEF GoldenIsa!LandsWhereExpected, GoldenIsa!AfterPc, GoldenIsa!Jumps,
     GoldenIsa!Branches, GoldenIsa!JR
<1>5. goldenMem' = goldenMem
  BY <1>1, <1>2, <1>3 DEF GoldenIsa!LandsWhereExpected, GoldenIsa!AfterMem, GoldenIsa!STRR
<1> QED
  BY <1>4, <1>5 DEF GoldenIsa!Plus, GoldenIsa!WordSize, Word, WordSize

LEMMA FollowKeeps ==
  ASSUME DiffInv, Follow
  PROVE  DiffInv'
<1>1. outcome = "none" /\ goldenPc \in Word /\ Golden!Step
  BY DEF DiffInv, InStep, Follow
<1>2. IInv' /\ IsaPc \in Word
  BY InvStep, IsaPcWord DEF DiffInv, IInv, Follow, Tick, Next
<1>3. NoFalseAlarm'
  BY ComparisonPasses DEF DiffInv, NoFalseAlarm, Follow
<1>4. CASE outcome' = "none"
  <2>1. FetchAddress
    BY <1>4, ComparisonPasses DEF Follow, Tick, Clock, ResetInit, FetchDecode, ExecuteSingle,
       FetchSecondWord, ExecuteDouble, SaveReturnAddress, LoadCallTarget, Edge
  <2>2. UNCHANGED Architecture!isaVars /\ ~ was_retire'
    BY <1>4, <2>1, FetchingEdge DEF DiffInv, Follow, Tick
  <2>3. Same'
    BY <2>2, ComparisonPasses DEF Same, Architecture!isaVars
  <2>4. InStep'
    BY <1>2, <2>1, <2>2, <2>3, ComparisonPasses, FetchingEdge DEF DiffInv, InStep
  <2>5. SettledAtHalt'
    BY <1>4 DEF SettledAtHalt
  <2> QED
    BY <1>2, <1>3, <2>4, <2>5 DEF DiffInv
<1>5. CASE outcome' # "none"
  <2>1. UNCHANGED vars
    BY <1>5 DEF Follow
  <2>2. InStep'
    BY <1>5 DEF InStep
  <2>3. ASSUME outcome' = "settled" PROVE SettledAtHalt'
    <3>1. Golden!ir = \h40FF
      BY <2>3, ComparisonPasses DEF Follow, NextOutcome, NextHaltStreak
    <3>2. goldenPc' = goldenPc /\ goldenMem' = goldenMem
      BY <1>1, <3>1, GoldenHalt
    <3>3. pc = goldenPc /\ mem = goldenMem
      BY <3>2, ComparisonPasses DEF snapshots_equal
    <3>4. mem[Cell(pc)] = \h40FF
      BY <3>1, <3>3 DEF Golden!ir, Golden!IsaCell, Cell
    <3> QED
      BY <2>1, <3>4, ComparisonPasses DEF SettledAtHalt, vars, Cell
  <2>4. SettledAtHalt'
    BY <2>3 DEF SettledAtHalt
  <2> QED
    BY <1>2, <1>3, <2>2, <2>4 DEF DiffInv
<1> QED
  BY <1>4, <1>5

(* The loop ends without another look at the processor.                    *)
LEMMA EndKeeps ==
  ASSUME DiffInv, GoldenThrows \/ CycleCap \/ UNCHANGED diffVars
  PROVE  DiffInv'
<1>1. UNCHANGED <<vars, golden, was_retire, mismatches>>
  BY DEF GoldenThrows, CycleCap, diffVars, loop
<1>2. IInv' /\ NoFalseAlarm'
  BY <1>1, InvStep DEF DiffInv, NoFalseAlarm
<1>3. CASE GoldenThrows \/ CycleCap
  BY <1>2, <1>3 DEF DiffInv, InStep, SettledAtHalt, GoldenThrows, CycleCap
<1>4. CASE UNCHANGED diffVars
  <2>1. UNCHANGED Architecture!isaVars
    BY <1>4 DEF diffVars, vars, Architecture!isaVars, IsaPc, Fetched, opcode, offset, Single
  <2>2. InStep'
    BY <1>1, <1>4, <2>1, BothWait DEF DiffInv, InStep, diffVars, loop, vars, golden
  <2>3. SettledAtHalt'
    BY <1>4 DEF DiffInv, SettledAtHalt, diffVars, vars, golden, loop, Cell
  <2> QED
    BY <1>2, <2>2, <2>3 DEF DiffInv
<1> QED
  BY <1>3, <1>4

LEMMA DiffInvInit == DiffInit => DiffInv
<1> SUFFICES ASSUME DiffInit PROVE DiffInv
  OBVIOUS
<1>1. TypeOK
  BY ProgramsAssumption DEF DiffInit, Cleared, TypeOK, Stages, Word, WordSize, Flags, Reg
<1>2. InstructionInFlight /\ PathFollowsInstruction /\ OperandPrepared
  BY DEF DiffInit, InstructionInFlight, PathFollowsInstruction, OperandPrepared
<1>3. Same /\ IsaPc = 0
  BY DEF DiffInit, Cleared, Same, IsaPc, Golden!IsaInit, Golden!Reg, Reg
<1>4. InStep
  BY <1>3 DEF DiffInit, InStep, Same, Word, WordSize
<1>5. NoFalseAlarm /\ SettledAtHalt
  BY DEF DiffInit, NoFalseAlarm, SettledAtHalt
<1> QED
  BY <1>1, <1>2, <1>4, <1>5 DEF DiffInv, IInv

LEMMA DiffInvStep == DiffInv /\ [DiffNext]_diffVars => DiffInv'
  BY WaitKeeps, FollowKeeps, EndKeeps DEF DiffNext

(* While an opcode is fetched both machines are in the same state.         *)
LEMMA DiffInvMeans == DiffInv => LockStep
  BY DEF DiffInv, InStep, LockStep, SameMachine, Same

(* The comparison never fails and the two machines never part, in memory   *)
(* neither, whatever the program, the depth of the memory and the limits.  *)
THEOREM LockStepCorrect == DiffSpec => []LockStep
  BY DiffInvInit, DiffInvStep, DiffInvMeans, PTL DEF DiffSpec

(* A run that settles has settled in the processor.                        *)
THEOREM SettledCorrect == DiffSpec => []SettledAtHalt
<1>1. DiffInv => SettledAtHalt
  BY DEF DiffInv
<1> QED
  BY <1>1, DiffInvInit, DiffInvStep, PTL DEF DiffSpec

-----------------------------------------------------------------------------
(***************************************************************************)
(* The cycle and instruction bench.  It misses the retirement of a call,   *)
(* but never sees one that is not there: its count never exceeds the true  *)
(* one, so that when it has seen enough, enough have retired.              *)
(***************************************************************************)
BasicInv ==
  /\ execution_stage \in Stages
  /\ instruction_count \in Nat /\ retired \in Nat /\ step_target \in Nat
  /\ instruction_count <= retired /\ retired <= max_cycles
  /\ Basic!StopsBetweenInstructions

LEMMA BasicInvInit ==
  ASSUME max_cycles \in Nat, StepTargets \subseteq Nat, Basic!BasicInit
  PROVE  BasicInv
  BY DEF Basic!BasicInit, Basic!StopsBetweenInstructions, BasicInv, Stages

LEMMA BasicInvStep ==
  ASSUME max_cycles \in Nat, BasicInv, [Basic!OneCycle]_(Basic!basicVars)
  PROVE  BasicInv'
<1>1. CASE Basic!OneCycle
  <2>1. PICK stage \in Stages : Basic!Edge(stage)
    BY <1>1 DEF Basic!OneCycle, Basic!Clock, Basic!ResetInit, Basic!FetchAddress,
       Basic!FetchDecode, Basic!ExecuteSingle, Basic!FetchSecondWord, Basic!ExecuteDouble,
       Basic!SaveReturnAddress, Basic!LoadCallTarget, Stages
  <2>2. /\ execution_stage' \in Stages
        /\ Basic!instruction_retired => execution_stage' = "FETCH_ADDRESS"
    BY <2>1 DEF Basic!Edge, Basic!NextStage, Basic!RetireStages, Basic!instruction_retired,
       Stages
  <2>3. /\ instruction_count' = Basic!next_instruction_count
        /\ retired' = IF execution_stage \in Basic!RetireStages
                      THEN Basic!Capped(retired + 1) ELSE retired
        /\ step_target' = step_target
    BY <1>1 DEF Basic!OneCycle
  <2>4. Basic!instruction_retired => execution_stage \in Basic!RetireStages
    BY DEF Basic!instruction_retired, Basic!RetireStages
  <2>5. /\ instruction_count' \in Nat /\ retired' \in Nat /\ step_target' \in Nat
        /\ instruction_count' <= retired' /\ retired' <= max_cycles
    BY <2>3, <2>4 DEF BasicInv, Basic!next_instruction_count, Basic!Capped
  <2>6. ASSUME stopped' = "instructions"
        PROVE  execution_stage' = "FETCH_ADDRESS" /\ retired' >= step_target'
    <3>1. Basic!TargetReached /\ step_mode # "cycle"
      BY <1>1, <2>6 DEF Basic!OneCycle, Basic!StopReason
    <3>2. Basic!instruction_retired /\ instruction_count' >= step_target
      BY <2>3, <3>1 DEF Basic!TargetReached
    <3> QED
      BY <2>2, <2>3, <2>5, <3>2
  <2> QED
    BY <2>2, <2>5, <2>6 DEF BasicInv, Basic!StopsBetweenInstructions
<1>2. CASE UNCHANGED Basic!basicVars
  BY <1>2 DEF BasicInv, Basic!StopsBetweenInstructions, Basic!basicVars, Basic!benchVars,
     Basic!vars
<1> QED
  BY <1>1, <1>2

(* A simulation that stops for its instructions stands in front of the     *)
(* next one and has finished as many as were asked for, in every program   *)
(* and with every limit.                                                   *)
THEOREM StopsCorrect ==
  ASSUME max_cycles \in Nat, StepTargets \subseteq Nat
  PROVE  Basic!BasicSpec => []StopsBetweenInstructions
<1>1. Basic!BasicInit => BasicInv
  BY BasicInvInit
<1>2. BasicInv /\ [Basic!OneCycle]_(Basic!basicVars) => BasicInv'
  BY BasicInvStep
<1>3. BasicInv => StopsBetweenInstructions
  BY DEF BasicInv, StopsBetweenInstructions
<1> QED
  BY <1>1, <1>2, <1>3, PTL DEF Basic!BasicSpec

(* What is left of the limit of a running simulation.                      *)
BasicLeft == IF stopped = "no" THEN max_cycles - cycle_count + 1 ELSE 0

(***************************************************************************)
(* Every cycle takes some of it, whatever the program and whatever the     *)
(* simulation was asked for: the limit is looked at in every cycle, not    *)
(* only when an instruction is seen to retire.                             *)
(***************************************************************************)
THEOREM BasicLimitFalls ==
  ASSUME max_cycles \in Nat
  PROVE  Basic!BasicSpec => /\ [](BasicLeft \in Nat)
                            /\ [][BasicLeft' < BasicLeft]_(Basic!basicVars)
<1> DEFINE Counted == cycle_count \in 0 .. max_cycles
           Falls == BasicLeft' < BasicLeft
<1>1. Basic!BasicInit => Counted
  BY DEF Basic!BasicInit
<1>2. ASSUME Counted, Basic!OneCycle
      PROVE  Counted' /\ BasicLeft' < BasicLeft
  <2>1. cycle_count' = (IF cycle_count + 1 > max_cycles THEN max_cycles ELSE cycle_count + 1)
    BY <1>2 DEF Basic!OneCycle, Basic!Capped
  <2>2. stopped = "no" /\ (stopped' = "no" => ~ cycle_count' >= max_cycles)
    BY <1>2 DEF Basic!OneCycle, Basic!StopReason, Basic!LimitReached
  <2> QED
    BY <1>2, <2>1, <2>2 DEF BasicLeft
<1>3. Counted /\ [Basic!OneCycle]_(Basic!basicVars) => Counted' /\ [Falls]_(Basic!basicVars)
  BY <1>2 DEF Basic!basicVars, Basic!benchVars
<1>4. Counted => BasicLeft \in Nat
  BY DEF BasicLeft
<1> HIDE DEF Counted
<1> QED
  BY <1>1, <1>3, <1>4, PTL DEF Basic!BasicSpec

-----------------------------------------------------------------------------
(* compare_results.py.  Induction over the lines of a trace: every set of  *)
(* numbers that is not empty has a least one; so a set with 0 and the      *)
(* successors of its members has all of them.                              *)
LEMMA LeastNumber ==
  ASSUME NEW T \in SUBSET Nat, T # {}
  PROVE  \E x \in T : \A y \in T : x <= y
<1> DEFINE Less == OpToRel(<, Nat)
<1>1. PICK x \in T : \A y \in T : ~ (<<y, x>> \in Less)
  BY NatLessThanWellFounded, WFMin, Zenon
<1>2. ASSUME NEW y \in T
      PROVE  ~ (y < x)
  BY <1>1, Zenon DEF OpToRel
<1> QED
  BY <1>2

LEMMA SetInduction ==
  ASSUME NEW P \in SUBSET Nat, 0 \in P, \A n \in P : n + 1 \in P
  PROVE  P = Nat
<1> SUFFICES ASSUME P # Nat
             PROVE  FALSE
  OBVIOUS
<1>1. PICK m \in Nat \ P : \A y \in Nat \ P : m <= y
  BY LeastNumber
<1>2. m # 0 /\ m - 1 \in Nat /\ m - 1 \in P
  BY <1>1
<1> QED
  BY <1>1, <1>2

(* What load_trace collects of a sequence: after n lines, those of them    *)
(* that are good.                                                          *)
Collected(L, s, good, n) ==
  IF n = 0 THEN <<>> ELSE IF n \in good THEN Append(L[n - 1], s[n]) ELSE L[n - 1]

(* The elements of r are those of the first n of s that are good, in their *)
(* order.                                                                  *)
Picked(r, s, good, n) ==
  \E at \in [1 .. Len(r) -> 1 .. n] :
    /\ \A i \in 1 .. Len(r) : r[i] = s[at[i]] /\ at[i] \in good
    /\ \A i, j \in 1 .. Len(r) : i < j => at[i] < at[j]
    /\ \A k \in 1 .. n : k \in good => \E i \in 1 .. Len(r) : at[i] = k

LEMMA IndexSplit ==
  ASSUME NEW m \in Nat, NEW i \in 1 .. m + 1, NEW j \in 1 .. m + 1, i < j
  PROVE  i \in 1 .. m /\ (j = m + 1 \/ j \in 1 .. m)
  OBVIOUS

LEMMA AppendPicked ==
  ASSUME NEW X, NEW s \in Seq(X), NEW good, NEW n \in Nat, n + 1 <= Len(s), n + 1 \in good,
         NEW r \in Seq(X), Picked(r, s, good, n)
  PROVE  Picked(Append(r, s[n + 1]), s, good, n + 1)
<1> DEFINE q == Append(r, s[n + 1])
<1>1. PICK at \in [1 .. Len(r) -> 1 .. n] :
        /\ \A i \in 1 .. Len(r) : r[i] = s[at[i]] /\ at[i] \in good
        /\ \A i, j \in 1 .. Len(r) : i < j => at[i] < at[j]
        /\ \A k \in 1 .. n : k \in good => \E i \in 1 .. Len(r) : at[i] = k
  BY DEF Picked
<1>2. /\ Len(r) \in Nat /\ Len(q) = Len(r) + 1 /\ q[Len(r) + 1] = s[n + 1]
      /\ \A i \in 1 .. Len(r) : q[i] = r[i]
  OBVIOUS
<1>3. PICK to : to = [i \in 1 .. Len(r) + 1 |-> IF i = Len(r) + 1 THEN n + 1 ELSE at[i]]
  OBVIOUS
<1>4. /\ to \in [1 .. Len(r) + 1 -> 1 .. n + 1] /\ to[Len(r) + 1] = n + 1
      /\ \A i \in 1 .. Len(r) : to[i] = at[i] /\ at[i] \in 1 .. n
  <2>1. \A i \in 1 .. Len(r) : at[i] \in 1 .. n /\ at[i] \in 1 .. n + 1 /\ i # Len(r) + 1
    <3>1. \A i \in 1 .. Len(r) : at[i] \in 1 .. n
      BY <1>1, Zenon
    <3>2. /\ \A k \in 1 .. n : k \in 1 .. n + 1
          /\ \A i \in 1 .. Len(r) : i # Len(r) + 1
      BY <1>2
    <3> QED
      BY <3>1, <3>2, Zenon
  <2>2. \A i \in 1 .. Len(r) + 1 : i = Len(r) + 1 \/ i \in 1 .. Len(r)
    BY <1>2
  <2>3. n + 1 \in 1 .. n + 1 /\ Len(r) + 1 \in 1 .. Len(r) + 1
    BY <1>2
  <2>4. \A i \in 1 .. Len(r) : to[i] = at[i]
    BY <1>2, <1>3, <2>1
  <2>5. to \in [1 .. Len(r) + 1 -> 1 .. n + 1]
    BY <1>3, <2>1, <2>2, <2>3
  <2>6. to[Len(r) + 1] = n + 1
    BY <1>3, <2>3, Zenon
  <2> QED
    BY <2>1, <2>4, <2>5, <2>6, Zenon
<1> HIDE DEF q
<1>5. ASSUME NEW i \in 1 .. Len(q)
      PROVE  q[i] = s[to[i]] /\ to[i] \in good
  <2>1. i = Len(r) + 1 \/ i \in 1 .. Len(r)
    BY <1>2
  <2> QED
    BY <1>1, <1>2, <1>4, <2>1
<1>6. ASSUME NEW i \in 1 .. Len(q), NEW j \in 1 .. Len(q), i < j
      PROVE  to[i] < to[j]
  <2>1. i \in 1 .. Len(r) /\ (j = Len(r) + 1 \/ j \in 1 .. Len(r))
    <3>1. Len(r) \in Nat /\ 1 .. Len(q) = 1 .. Len(r) + 1
      BY <1>2
    <3> QED
      BY <1>6, <3>1, IndexSplit
  <2>2. CASE j = Len(r) + 1
    BY <1>4, <2>1, <2>2
  <2>3. CASE j \in 1 .. Len(r)
    BY <1>1, <1>4, <1>6, <2>1, <2>3
  <2> QED
    BY <2>1, <2>2, <2>3
<1>7. ASSUME NEW k \in 1 .. n + 1, k \in good
      PROVE  \E i \in 1 .. Len(q) : to[i] = k
  <2>1. CASE k = n + 1
    BY <1>2, <1>4, <2>1
  <2>2. CASE k # n + 1
    <3>1. k \in 1 .. n
      BY <2>2
    <3>2. PICK i \in 1 .. Len(r) : at[i] = k
      BY <1>1, <1>7, <3>1
    <3> QED
      BY <1>2, <1>4, <3>2
  <2> QED
    BY <2>1, <2>2
<1>8. to \in [1 .. Len(q) -> 1 .. n + 1]
  BY <1>2, <1>4
<1>9. Picked(q, s, good, n + 1)
  BY <1>5, <1>6, <1>7, <1>8 DEF Picked
<1> QED
  BY <1>9 DEF q

LEMMA SkipPicked ==
  ASSUME NEW s, NEW good, NEW n \in Nat, n + 1 \notin good, NEW r, Picked(r, s, good, n)
  PROVE  Picked(r, s, good, n + 1)
<1>1. PICK at \in [1 .. Len(r) -> 1 .. n] :
        /\ \A i \in 1 .. Len(r) : r[i] = s[at[i]] /\ at[i] \in good
        /\ \A i, j \in 1 .. Len(r) : i < j => at[i] < at[j]
        /\ \A k \in 1 .. n : k \in good => \E i \in 1 .. Len(r) : at[i] = k
  BY DEF Picked
<1>2. \A k : k \in 1 .. n => k \in 1 .. n + 1
  OBVIOUS
<1>3. at \in [1 .. Len(r) -> 1 .. n + 1]
  BY <1>2, Zenon
<1>4. \A k \in 1 .. n + 1 : k \in 1 .. n \/ k = n + 1
  OBVIOUS
<1>5. \A k \in 1 .. n + 1 : k \in good => \E i \in 1 .. Len(r) : at[i] = k
  BY <1>1, <1>4
<1> QED
  BY <1>1, <1>3, <1>5, Zenon DEF Picked

LEMMA CollectedPicked ==
  ASSUME NEW X, NEW s \in Seq(X), NEW good, NEW L,
         L = [n \in 0 .. Len(s) |-> Collected(L, s, good, n)]
  PROVE  \A n \in 0 .. Len(s) : L[n] \in Seq(X) /\ Picked(L[n], s, good, n)
<1>1. PICK P : P = {n \in Nat : n <= Len(s) => L[n] \in Seq(X) /\ Picked(L[n], s, good, n)}
  OBVIOUS
<1>2. Len(s) \in Nat
  OBVIOUS
<1>3. 0 \in P
  <2>1. L[0] = <<>>
    BY <1>2 DEF Collected
  <2>2. Picked(<< >>, s, good, 0)
    <3>1. PICK at : at = [i \in 1 .. 0 |-> i]
      OBVIOUS
    <3>2. at \in [1 .. Len(<< >>) -> 1 .. 0]
      BY <3>1
    <3> QED
      BY <3>2 DEF Picked
  <2> QED
    BY <1>1, <2>1, <2>2
<1>4. ASSUME NEW n \in P
      PROVE  n + 1 \in P
  <2> SUFFICES ASSUME n + 1 <= Len(s)
               PROVE  L[n + 1] \in Seq(X) /\ Picked(L[n + 1], s, good, n + 1)
    BY <1>1
  <2>1. n \in Nat /\ L[n] \in Seq(X) /\ Picked(L[n], s, good, n)
    BY <1>1, <1>2
  <2>2. L[n + 1] = IF n + 1 \in good THEN Append(L[n], s[n + 1]) ELSE L[n]
    <3>1. n + 1 \in 0 .. Len(s)
      BY <1>2, <2>1
    <3>2. L[n + 1] = Collected(L, s, good, n + 1)
      BY <3>1, Zenon
    <3> QED
      BY <2>1, <3>2 DEF Collected
  <2>3. CASE n + 1 \in good
    <3>1. s[n + 1] \in X
      BY <2>1
    <3>2. Picked(Append(L[n], s[n + 1]), s, good, n + 1)
      BY <2>1, <2>3, AppendPicked
    <3>3. Append(L[n], s[n + 1]) \in Seq(X)
      BY <2>1, <3>1
    <3>4. L[n + 1] = Append(L[n], s[n + 1])
      BY <2>2, <2>3
    <3> QED
      BY <3>2, <3>3, <3>4
  <2>4. CASE n + 1 \notin good
    <3>1. L[n + 1] = L[n]
      BY <2>2, <2>4
    <3> QED
      BY <2>1, <2>4, <3>1, SkipPicked
  <2> QED
    BY <2>3, <2>4
<1>5. P = Nat
  BY <1>1, <1>3, <1>4, SetInduction
<1> QED
  BY <1>1, <1>2, <1>5

(* There is such a function, for every sequence.                           *)
LEMMA CollectedExists ==
  ASSUME NEW X, NEW s \in Seq(X), NEW good
  PROVE  \E L : L = [n \in 0 .. Len(s) |-> Collected(L, s, good, n)]
<1>1. PICK P : P = {m \in Nat : \E L : L = [n \in 0 .. m |-> Collected(L, s, good, n)]}
  OBVIOUS
<1>2. 0 \in P
  <2>1. PICK L : L = [n \in 0 .. 0 |-> << >>]
    OBVIOUS
  <2>2. L = [n \in 0 .. 0 |-> Collected(L, s, good, n)]
    BY <2>1 DEF Collected
  <2> QED
    BY <1>1, <2>2
<1>3. ASSUME NEW m \in P
      PROVE  m + 1 \in P
  <2>1. m \in Nat
    BY <1>1
  <2>2. PICK L : L = [n \in 0 .. m |-> Collected(L, s, good, n)]
    BY <1>1
  <2>3. PICK M : M = [n \in 0 .. m + 1 |-> IF n = m + 1 THEN Collected(L, s, good, n) ELSE L[n]]
    OBVIOUS
  <2>4. ASSUME NEW n \in 0 .. m + 1
        PROVE  M[n] = Collected(M, s, good, n)
    <3>1. n # 0 => M[n - 1] = L[n - 1]
      BY <2>1, <2>3
    <3>2. M[n] = Collected(L, s, good, n)
      <4>1. n = m + 1 \/ (n \in 0 .. m /\ n # m + 1)
        BY <2>1
      <4>2. n \in 0 .. m => L[n] = Collected(L, s, good, n)
        BY <2>2
      <4> QED
        BY <2>3, <4>1, <4>2, Zenon
    <3> QED
      BY <3>1, <3>2 DEF Collected
  <2>5. M = [n \in 0 .. m + 1 |-> Collected(M, s, good, n)]
    BY <2>3, <2>4
  <2> QED
    BY <1>1, <2>1, <2>5
<1>4. P = Nat
  BY <1>1, <1>2, <1>3, SetInduction
<1> QED
  BY <1>1, <1>4

(* r is the first n elements of s.                                         *)
Copied(r, s, n) == Len(r) = n /\ \A i \in 1 .. n : r[i] = s[i]

LEMMA AllCollected ==
  ASSUME NEW X, NEW s \in Seq(X), NEW good, 1 .. Len(s) \subseteq good, NEW L,
         L = [n \in 0 .. Len(s) |-> Collected(L, s, good, n)]
  PROVE  L[Len(s)] = s
<1>1. PICK P : P = {n \in Nat : n <= Len(s) =>
                      L[n] \in Seq(X) /\ Copied(L[n], s, n)}
  OBVIOUS
<1>2. Len(s) \in Nat
  OBVIOUS
<1>3. 0 \in P
  <2>1. L[0] = << >>
    BY <1>2 DEF Collected
  <2>2. Copied(<< >>, s, 0)
    BY DEF Copied
  <2> QED
    BY <1>1, <2>1, <2>2
<1>4. ASSUME NEW n \in P
      PROVE  n + 1 \in P
  <2> SUFFICES ASSUME n + 1 <= Len(s)
               PROVE  L[n + 1] \in Seq(X) /\ Copied(L[n + 1], s, n + 1)
    BY <1>1
  <2>1. n \in Nat /\ L[n] \in Seq(X) /\ Copied(L[n], s, n)
    BY <1>1, <1>2
  <2>2. L[n + 1] = Append(L[n], s[n + 1])
    <3>1. n + 1 \in 0 .. Len(s)
      BY <1>2, <2>1
    <3>2. L[n + 1] = Collected(L, s, good, n + 1)
      BY <3>1, Zenon
    <3>3. n + 1 \in 1 .. Len(s) /\ n + 1 # 0 /\ (n + 1) - 1 = n
      BY <1>2, <2>1
    <3> QED
      BY <3>2, <3>3, Zenon DEF Collected
  <2>3. s[n + 1] \in X
    BY <2>1
  <2>4. Append(L[n], s[n + 1]) \in Seq(X)
    BY <2>1, <2>3
  <2>5. Copied(Append(L[n], s[n + 1]), s, n + 1)
    <3>1. PICK r \in Seq(X) : r = L[n]
      BY <2>1
    <3>2. /\ Len(Append(r, s[n + 1])) = Len(r) + 1
          /\ \A i \in 1 .. Len(r) : Append(r, s[n + 1])[i] = r[i]
          /\ Append(r, s[n + 1])[Len(r) + 1] = s[n + 1]
      BY <2>3
    <3>3. \A i \in 1 .. n + 1 : i = n + 1 \/ i \in 1 .. n
      BY <2>1
    <3> QED
      BY <2>1, <3>1, <3>2, <3>3, Zenon DEF Copied
  <2> QED
    BY <2>2, <2>4, <2>5
<1>5. P = Nat
  BY <1>1, <1>3, <1>4, SetInduction
<1>6. L[Len(s)] \in Seq(X) /\ Copied(L[Len(s)], s, Len(s))
  <2>1. Len(s) \in P /\ Len(s) <= Len(s)
    BY <1>2, <1>5
  <2> QED
    BY <1>1, <2>1, Zenon
<1> QED
  BY <1>2, <1>6 DEF Copied

(* load_trace keeps exactly the rows that have all fields, in their order, *)
(* and all rows of a trace in which every row has them.                    *)
Complete(rows) == {n \in Nat : Names \subseteq DOMAIN rows[n]}

LEMMA TraceLoaded ==
  ASSUME NEW X, NEW rows \in Seq(X)
  PROVE  /\ Given!load_trace(rows) \in Seq(X)
         /\ Picked(Given!load_trace(rows), rows, Complete(rows), Len(rows))
         /\ 1 .. Len(rows) \subseteq Complete(rows) => Given!load_trace(rows) = rows
<1> DEFINE Loads(L) ==
             L = [n \in 0 .. Len(rows) |->
                   IF n = 0 THEN <<>>
                   ELSE IF Names \subseteq DOMAIN rows[n] THEN Append(L[n - 1], rows[n])
                   ELSE L[n - 1]]
           M == CHOOSE L : Loads(L)
<1>1. ASSUME NEW L
      PROVE  Loads(L) <=> L = [n \in 0 .. Len(rows) |-> Collected(L, rows, Complete(rows), n)]
  <2>1. \A n \in 0 .. Len(rows) : n \in Complete(rows) <=> Names \subseteq DOMAIN rows[n]
    BY DEF Complete
  <2> QED
    BY <2>1 DEF Collected
<1>2. M = [n \in 0 .. Len(rows) |-> Collected(M, rows, Complete(rows), n)]
  <2>1. \E L : Loads(L)
    <3> HIDE DEF Loads
    <3>1. \A keep : \E L : L = [n \in 0 .. Len(rows) |-> Collected(L, rows, keep, n)]
      BY Zenon, CollectedExists
    <3>2. PICK L : L = [n \in 0 .. Len(rows) |-> Collected(L, rows, Complete(rows), n)]
      BY Zenon, <3>1
    <3> QED
      BY <1>1, <3>2
  <2>2. Loads(M)
    BY <2>1, Zenon
  <2> HIDE DEF M, Loads
  <2> QED
    BY <1>1, <2>2
<1>3. Given!load_trace(rows) = M[Len(rows)]
  BY Zenon DEF Given!load_trace
<1> HIDE DEF M
<1>4. Len(rows) \in 0 .. Len(rows)
  OBVIOUS
<1>5. /\ M[Len(rows)] \in Seq(X)
      /\ Picked(M[Len(rows)], rows, Complete(rows), Len(rows))
  BY <1>2, <1>4, CollectedPicked
<1>6. 1 .. Len(rows) \subseteq Complete(rows) => M[Len(rows)] = rows
  BY <1>2, AllCollected
<1> QED
  BY <1>3, <1>5, <1>6

-----------------------------------------------------------------------------
(* A list of rows is a sequence and not an absent file.                    *)
LEMMA ListedRows ==
  ASSUME NEW given \in GivenFiles
  PROVE  /\ given.rtl_summary \in UNION {[names -> Values] : names \in SUBSET Names}
         /\ given.ref_summary \in [Names -> Values]
         /\ given.ref_trace \in Seq([Names -> Values]) /\ given.ref_trace # NoFile
         /\ given.rtl_trace # <<NoFile>> =>
              given.rtl_trace \in Seq(GivenRows) /\ given.rtl_trace # NoFile
<1>1. /\ given.rtl_summary \in UNION {[names -> Values] : names \in SUBSET Names}
      /\ given.ref_summary \in [Names -> Values]
      /\ given.rtl_trace \in {<<NoFile>>} \cup Lists(GivenRows, 0)
      /\ given.ref_trace \in Lists([Names -> Values], 1)
  BY DEF GivenFiles
<1>2. \A rows : Lists(rows, 0) \subseteq Seq(rows) /\ Lists(rows, 1) \subseteq Seq(rows)
  BY FilesAssumption DEF Lists
<1>3. Lists([Names -> Values], 1) \subseteq Lists(GivenRows, 0)
  <2> SUFFICES ASSUME NEW n \in 1 .. MaxRows, NEW l \in [1 .. n -> [Names -> Values]]
               PROVE  l \in [1 .. n -> GivenRows] /\ n \in 0 .. MaxRows
    BY DEF Lists
  <2> QED
    BY FilesAssumption DEF GivenRows
<1> QED
  BY <1>1, <1>2, <1>3, FilesAssumption

(* Complete rows with the same fields are the same.                        *)
LEMMA SameRowIsEqual ==
  ASSUME NEW a \in GivenRows, NEW b \in [Names -> Values], Names \subseteq DOMAIN a,
         Given!SameRow(a, b)
  PROVE  a = b
<1>1. a \in [Names -> Values]
  <2>1. "r0" \in DOMAIN a
    BY DEF Names
  <2> QED
    BY <2>1 DEF GivenRows, Names
<1>2. \A name \in Names : a[name] = b[name]
  BY DEF Given!SameRow
<1> QED
  BY <1>1, <1>2

LEMMA SummariesAgree ==
  ASSUME NEW given \in GivenFiles,
         Given!Mismatches(given.rtl_summary, given.ref_summary) = {}
  PROVE  given.rtl_summary = given.ref_summary
<1>1. given.ref_summary \in [Names -> Values]
  BY ListedRows
<1>2. PICK names \in SUBSET Names : given.rtl_summary \in [names -> Values]
  BY ListedRows
<1>3. ASSUME NEW key \in Names
      PROVE  key \in names /\ given.rtl_summary[key] = given.ref_summary[key]
  <2>1. Given!Get(given.rtl_summary, key) = Given!Get(given.ref_summary, key)
    BY DEF Given!Mismatches
  <2>2. Given!Get(given.ref_summary, key) = <<given.ref_summary[key]>>
    BY <1>1 DEF Given!Get
  <2>3. key \in DOMAIN given.rtl_summary
    BY <2>1, <2>2 DEF Given!Get
  <2> QED
    BY <1>2, <2>1, <2>2, <2>3 DEF Given!Get
<1> QED
  BY <1>1, <1>2, <1>3

(* Files for which the exit code is zero agree.                            *)
Agreement(given) ==
  LET rtl == given.rtl_trace
      ref == given.ref_trace
  IN  /\ given.rtl_summary = given.ref_summary
      /\ rtl # <<NoFile>> =>
           \E at \in [1 .. Len(ref) -> 1 .. Len(rtl)] :
             /\ \A i \in 1 .. Len(ref) : rtl[at[i]] = ref[i]
             /\ \A i, j \in 1 .. Len(ref) : i < j => at[i] < at[j]
             /\ \A k \in 1 .. Len(rtl) :
                  Names \subseteq DOMAIN rtl[k] => \E i \in 1 .. Len(ref) : at[i] = k

LEMMA ZeroExit ==
  ASSUME NEW given \in GivenFiles,
         Given!Report(given.rtl_summary, given.ref_summary,
                      File(given.rtl_trace), given.ref_trace).exit = 0
  PROVE  Agreement(given)
<1> DEFINE rtl == given.rtl_trace
           ref == given.ref_trace
<1>1. /\ Given!Mismatches(given.rtl_summary, given.ref_summary) = {}
      /\ Given!trace_status(File(rtl), ref) # "mismatch"
  BY DEF Given!Report
<1>2. given.rtl_summary = given.ref_summary
  BY <1>1, SummariesAgree
<1>3. ASSUME rtl # <<NoFile>>
      PROVE  \E at \in [1 .. Len(ref) -> 1 .. Len(rtl)] :
               /\ \A i \in 1 .. Len(ref) : rtl[at[i]] = ref[i]
               /\ \A i, j \in 1 .. Len(ref) : i < j => at[i] < at[j]
               /\ \A k \in 1 .. Len(rtl) :
                    Names \subseteq DOMAIN rtl[k] => \E i \in 1 .. Len(ref) : at[i] = k
  <2>1. /\ rtl \in Seq(GivenRows) /\ rtl # NoFile
        /\ ref \in Seq([Names -> Values]) /\ ref # NoFile
    BY <1>3, ListedRows
  <2> DEFINE loaded == Given!load_trace(rtl)
  <2>2. Given!SameRows(loaded, Given!load_trace(ref))
    <3>1. File(rtl) = rtl
      BY <1>3 DEF File
    <3> QED
      BY <1>1, <2>1, <3>1 DEF Given!trace_status
  <2> HIDE DEF rtl, ref
  <2>3. Given!load_trace(ref) = ref
    <3>1. 1 .. Len(ref) \subseteq Complete(ref)
      BY <2>1 DEF Complete
    <3> QED
      BY <2>1, <3>1, TraceLoaded
  <2>4. loaded \in Seq(GivenRows) /\ Picked(loaded, rtl, Complete(rtl), Len(rtl))
    BY <2>1, TraceLoaded
  <2> HIDE DEF loaded
  <2>5. Len(loaded) = Len(ref) /\ \A i \in 1 .. Len(ref) : Given!SameRow(loaded[i], ref[i])
    BY <2>2, <2>3 DEF Given!SameRows
  <2>6. PICK at \in [1 .. Len(loaded) -> 1 .. Len(rtl)] :
          /\ \A i \in 1 .. Len(loaded) : loaded[i] = rtl[at[i]] /\ at[i] \in Complete(rtl)
          /\ \A i, j \in 1 .. Len(loaded) : i < j => at[i] < at[j]
          /\ \A k \in 1 .. Len(rtl) : k \in Complete(rtl) =>
               \E i \in 1 .. Len(loaded) : at[i] = k
    BY <2>4, Zenon DEF Picked
  <2>7. /\ at \in [1 .. Len(ref) -> 1 .. Len(rtl)]
        /\ \A i \in 1 .. Len(ref) : loaded[i] = rtl[at[i]] /\ at[i] \in Complete(rtl)
        /\ \A i, j \in 1 .. Len(ref) : i < j => at[i] < at[j]
        /\ \A k \in 1 .. Len(rtl) : k \in Complete(rtl) =>
             \E i \in 1 .. Len(ref) : at[i] = k
    BY <2>5, <2>6
  <2>8. ASSUME NEW i \in 1 .. Len(ref)
        PROVE  rtl[at[i]] = ref[i]
    <3>1. rtl[at[i]] \in GivenRows /\ ref[i] \in [Names -> Values]
      BY <2>1, <2>7
    <3>2. Names \subseteq DOMAIN rtl[at[i]]
      BY <2>7 DEF Complete
    <3>3. Given!SameRow(rtl[at[i]], ref[i])
      BY <2>5, <2>7
    <3> QED
      BY <3>1, <3>2, <3>3, SameRowIsEqual
  <2>9. ASSUME NEW k \in 1 .. Len(rtl), Names \subseteq DOMAIN rtl[k]
        PROVE  \E i \in 1 .. Len(ref) : at[i] = k
    <3>1. k \in Complete(rtl)
      BY <2>9 DEF Complete
    <3> QED
      BY <2>7, <3>1
  <2> QED
    BY <2>7, <2>8, <2>9
<1> QED
  BY <1>2, <1>3 DEF Agreement

(* Only compare_results.py alone is given files; its report is of them.    *)
GivenInv ==
  compared # <<>> =>
    /\ bench = "compare_results"
    /\ compared \in GivenFiles
    /\ report # <<>> => report = Given!Report(compared.rtl_summary, compared.ref_summary,
                                             File(compared.rtl_trace), compared.ref_trace)

LEMMA GivenInvInit == BenchesInit => GivenInv
  BY DEF BenchesInit, GivenInv, Elaborate

LEMMA GivenInvStep == GivenInv /\ [BenchesNext]_benchesVars => GivenInv'
<1> SUFFICES ASSUME GivenInv, [BenchesNext]_benchesVars, compared' # <<>>
             PROVE  /\ bench' = "compare_results" /\ compared' \in GivenFiles
                    /\ report' # <<>> =>
                         report' = Given!Report(compared'.rtl_summary, compared'.ref_summary,
                                                File(compared'.rtl_trace), compared'.ref_trace)
  BY DEF GivenInv
<1>1. compared' = compared /\ bench' = bench
  BY DEF BenchesNext, TbTop, BasicCpuTb, CpuCoreTb, DiffMain, CompareResultsMain, CompareGiven,
     benchesVars
<1>2. bench = "compare_results" /\ compared \in GivenFiles
  BY <1>1 DEF GivenInv
<1>3. CompareGiven \/ UNCHANGED report
  BY <1>2 DEF BenchesNext, TbTop, BasicCpuTb, CpuCoreTb, DiffMain, CompareResultsMain,
     benchesVars
<1>4. CASE CompareGiven
  BY <1>1, <1>2, <1>4 DEF CompareGiven
<1>5. CASE UNCHANGED report
  BY <1>1, <1>2, <1>5 DEF GivenInv
<1> QED
  BY <1>3, <1>4, <1>5

(* Success is reported only for files that agree, for all contents of the  *)
(* rows and traces of every length.                                        *)
THEOREM ZeroCorrect == BenchesSpec => []ZeroMeansAgreement
<1>1. GivenInv => ZeroMeansAgreement
  <2> SUFFICES ASSUME GivenInv, compared # <<>>, report # <<>>, report.exit = 0
               PROVE  Agreement(compared)
    BY Zenon DEF ZeroMeansAgreement, Agreement
  <2> QED
    BY ZeroExit DEF GivenInv
<1> QED
  BY <1>1, GivenInvInit, GivenInvStep, PTL DEF BenchesSpec

-----------------------------------------------------------------------------
(***************************************************************************)
(* The program bench beside the reference model.  H is the sequence of     *)
(* states of the reference run, L[n] the rows of its first n instructions  *)
(* that are not calls.  The processor stands at some H[k] of the sequence  *)
(* and the bench has logged L[k], until a reference that ended in an error *)
(* is overtaken.  Both count the branches to themselves; once there is one *)
(* nothing else follows, so that equal counts mean equal positions.        *)
(***************************************************************************)
NotCalls == {n \in Nat : Opcode(trace[n].ir) # CALLA}

Sees(L) == L = [n \in 0 .. Len(trace) |-> Collected(L, trace, NotCalls, n)]

LEMMA VisibleRows ==
  ASSUME NEW X, trace \in Seq(X)
  PROVE  \E L : Sees(L) /\ Visible = L[Len(trace)]
<1> DEFINE Collects(L) ==
             L = [n \in 0 .. Len(trace) |->
                   IF n = 0 THEN <<>>
                   ELSE IF Opcode(trace[n].ir) = CALLA THEN L[n - 1]
                   ELSE Append(L[n - 1], trace[n])]
           M == CHOOSE L : Collects(L)
<1>1. ASSUME NEW L
      PROVE  Collects(L) <=> Sees(L)
  <2>1. \A n \in 0 .. Len(trace) : n \in NotCalls <=> Opcode(trace[n].ir) # CALLA
    BY DEF NotCalls
  <2> QED
    BY <2>1 DEF Sees, Collected
<1>2. \E L : Sees(L)
  BY CollectedExists DEF Sees
<1>3. Collects(M)
  <2>1. \E L : Collects(L)
    <3> HIDE DEF Collects
    <3> QED
      BY <1>1, <1>2
  <2> QED
    BY <2>1, Zenon
<1>4. Visible = M[Len(trace)]
  BY Zenon DEF Visible
<1> HIDE DEF M, Collects
<1> QED
  BY <1>1, <1>3, <1>4

(* The rows in view are the first of those that follow.                    *)
Starts(r, q) == Len(r) <= Len(q) /\ \A i \in 1 .. Len(r) : q[i] = r[i]

LEMMA AppendStarts ==
  ASSUME NEW X, NEW r \in Seq(X), NEW x \in X, NEW q \in Seq(X), Starts(Append(r, x), q)
  PROVE  Starts(r, q)
  BY AppendFacts DEF Starts

LEMMA SeenRows ==
  ASSUME NEW X, trace \in Seq(X), NEW L, Sees(L)
  PROVE  /\ \A n \in 0 .. Len(trace) : L[n] \in Seq(X)
         /\ L[0] = <<>>
         /\ \A n \in 0 .. Len(trace) - 1 :
              L[n + 1] = IF Opcode(trace[n + 1].ir) # CALLA THEN Append(L[n], trace[n + 1]) ELSE L[n]
<1>1. Len(trace) \in Nat
  OBVIOUS
<1>2. L = [n \in 0 .. Len(trace) |-> Collected(L, trace, NotCalls, n)]
  BY Zenon DEF Sees
<1>3. \A n \in 0 .. Len(trace) : L[n] = Collected(L, trace, NotCalls, n)
  BY <1>2, Zenon
<1>4. \A n \in 0 .. Len(trace) : L[n] \in Seq(X)
  BY <1>2, CollectedPicked
<1>5. L[0] = <<>>
  BY <1>1, <1>3 DEF Collected
<1>6. ASSUME NEW n \in 0 .. Len(trace) - 1
      PROVE  L[n + 1] = IF Opcode(trace[n + 1].ir) # CALLA THEN Append(L[n], trace[n + 1]) ELSE L[n]
  <2>1. n + 1 \in 0 .. Len(trace) /\ n + 1 \in Nat /\ n + 1 # 0 /\ (n + 1) - 1 = n
    BY <1>1
  <2>2. L[n + 1] = Collected(L, trace, NotCalls, n + 1)
    BY <1>3, <2>1, Zenon
  <2>3. n + 1 \in NotCalls <=> Opcode(trace[n + 1].ir) # CALLA
    BY <2>1, Zenon DEF NotCalls
  <2> QED
    BY <2>1, <2>2, <2>3, Zenon DEF Collected
<1> QED
  BY <1>4, <1>5, <1>6

LEMMA SeenStarts ==
  ASSUME NEW X, trace \in Seq(X), NEW L, Sees(L), NEW k \in 0 .. Len(trace)
  PROVE  Starts(L[k], L[Len(trace)])
<1> DEFINE N == Len(trace)
<1>1. PICK P : P = {d \in Nat : d <= N => Starts(L[N - d], L[N])}
  OBVIOUS
<1>2. N \in Nat
  OBVIOUS
<1>3. \A n \in 0 .. N : L[n] \in Seq(X)
  BY SeenRows
<1>4. 0 \in P
  <2>1. N \in 0 .. N /\ N - 0 = N
    BY <1>2
  <2>2. Starts(L[N], L[N])
    BY <1>3, <2>1 DEF Starts
  <2> QED
    BY <1>1, <2>1, <2>2
<1>5. ASSUME NEW d \in P
      PROVE  d + 1 \in P
  <2> SUFFICES ASSUME d + 1 <= N
               PROVE  Starts(L[N - (d + 1)], L[N])
    BY <1>1
  <2>1. PICK n \in 0 .. N - 1 : n = N - (d + 1)
    BY <1>1, <1>2
  <2>2. /\ d \in Nat /\ N - d = n + 1 /\ n + 1 \in 1 .. N /\ n \in 0 .. N
        /\ n + 1 \in 0 .. N /\ N \in 0 .. N
    BY <1>1, <1>2, <2>1
  <2>3. Starts(L[n + 1], L[N])
    BY <1>1, <1>2, <2>2
  <2>4. L[n + 1] = L[n] \/ L[n + 1] = Append(L[n], trace[n + 1])
    BY <2>1, SeenRows
  <2>5. trace[n + 1] \in X
    BY <2>2
  <2>6. L[n] \in Seq(X) /\ L[N] \in Seq(X)
    BY <1>3, <2>2
  <2>7. Starts(L[n], L[N])
    <3>1. CASE L[n + 1] = L[n]
      BY <2>3, <3>1, Zenon
    <3>2. CASE L[n + 1] = Append(L[n], trace[n + 1])
      <4>1. Starts(Append(L[n], trace[n + 1]), L[N])
        BY <2>3, <3>2, Zenon
      <4> HIDE DEF N
      <4> QED
        BY <2>5, <2>6, <4>1, AppendStarts
    <3> QED
      BY <2>4, <3>1, <3>2
  <2> QED
    BY <2>1, <2>7
<1>6. P = Nat
  BY <1>1, <1>4, <1>5, SetInduction
<1>7. N - k \in P /\ N - k <= N /\ N - (N - k) = k
  BY <1>2, <1>6
<1> QED
  BY <1>1, <1>7

-----------------------------------------------------------------------------
(* The last c of the first n instructions are the branches to themselves.  *)
Loops(H, n, c) ==
  /\ c \in 0 .. n
  /\ \A i \in 1 .. n : At(H[i - 1]) = SelfLoop <=> i > n - c

LEMMA LoopStays ==
  ASSUME NEW s \in State, At(s) = SelfLoop
  PROVE  At(After(s)) = SelfLoop
  BY SelfLoopAfter DEF At

LEMMA LoopsExtend ==
  ASSUME NEW n \in Nat, NEW H, NEW c, Loops(H, n, c), \A i \in 0 .. n : H[i] \in State,
         \A i \in 1 .. n : H[i] = After(H[i - 1])
  PROVE  /\ c > 0 => At(H[n]) = SelfLoop
         /\ Loops(H, n + 1, IF At(H[n]) = SelfLoop THEN c + 1 ELSE 0)
<1>1. c \in 0 .. n /\ \A i \in 1 .. n : At(H[i - 1]) = SelfLoop <=> i > n - c
  BY DEF Loops
<1>2. ASSUME c > 0
      PROVE  At(H[n]) = SelfLoop
  <2>1. n \in 1 .. n /\ n > n - c /\ n - 1 \in 0 .. n
    BY <1>1, <1>2
  <2>2. At(H[n - 1]) = SelfLoop /\ H[n - 1] \in State /\ H[n] = After(H[n - 1])
    BY <1>1, <2>1
  <2> QED
    BY <2>2, LoopStays
<1>3. CASE At(H[n]) = SelfLoop
  <2>1. c + 1 \in 0 .. n + 1
    BY <1>1
  <2>2. ASSUME NEW i \in 1 .. n + 1
        PROVE  At(H[i - 1]) = SelfLoop <=> i > (n + 1) - (c + 1)
    <3>1. CASE i = n + 1
      BY <1>1, <1>3, <3>1
    <3>2. CASE i # n + 1
      <4>1. i \in 1 .. n /\ (n + 1) - (c + 1) = n - c
        BY <1>1, <3>2
      <4> QED
        BY <1>1, <4>1
    <3> QED
      BY <3>1, <3>2
  <2>3. Loops(H, n + 1, c + 1)
    BY <2>1, <2>2 DEF Loops
  <2> QED
    BY <1>2, <1>3, <2>3
<1>4. CASE At(H[n]) # SelfLoop
  <2>1. c = 0
    BY <1>1, <1>2, <1>4
  <2>2. ASSUME NEW i \in 1 .. n + 1
        PROVE  At(H[i - 1]) = SelfLoop <=> i > (n + 1) - 0
    <3>1. CASE i = n + 1
      BY <1>4, <3>1
    <3>2. CASE i # n + 1
      <4>1. i \in 1 .. n /\ ~ (i > n - c) /\ ~ (i > (n + 1) - 0)
        BY <2>1, <3>2
      <4> QED
        BY <1>1, <4>1
    <3> QED
      BY <3>1, <3>2
  <2>3. Loops(H, n + 1, 0)
    BY <2>2 DEF Loops
  <2> QED
    BY <1>2, <1>4, <2>3
<1> QED
  BY <1>3, <1>4

(* Counts of the same sequence differ by as much as the positions do.      *)
LEMMA LoopsDiffer ==
  ASSUME NEW H, NEW n \in Nat, NEW k \in 0 .. n, NEW c, NEW d, Loops(H, k, c), Loops(H, n, d),
         c > 0
  PROVE  d = c + (n - k)
<1>1. /\ c \in 0 .. k /\ d \in 0 .. n
      /\ \A i \in 1 .. k : At(H[i - 1]) = SelfLoop <=> i > k - c
      /\ \A i \in 1 .. n : At(H[i - 1]) = SelfLoop <=> i > n - d
  BY DEF Loops
<1>2. k - c + 1 \in 1 .. k /\ k - c + 1 \in 1 .. n /\ k - c + 1 > k - c
  BY <1>1
<1>3. k - c + 1 > n - d
  BY <1>1, <1>2
<1>4. CASE k = c
  BY <1>1, <1>3, <1>4
<1>5. CASE k # c
  <2>1. k - c \in 1 .. k /\ k - c \in 1 .. n /\ ~ (k - c > k - c)
    BY <1>1, <1>5
  <2>2. ~ (k - c > n - d)
    BY <1>1, <2>1
  <2> QED
    BY <1>1, <1>3, <2>2
<1> QED
  BY <1>4, <1>5

LEMMA SameLoops ==
  ASSUME NEW H, NEW n \in Nat, NEW c, NEW d, Loops(H, n, c), Loops(H, n, d)
  PROVE  c = d
<1>1. c \in Nat /\ d \in Nat /\ n \in 0 .. n /\ n - n = 0
  BY DEF Loops
<1>2. CASE c > 0
  BY <1>1, <1>2, LoopsDiffer
<1>3. CASE d > 0
  BY <1>1, <1>3, LoopsDiffer
<1> QED
  BY <1>1, <1>2, <1>3

-----------------------------------------------------------------------------
(* A clock edge as the bench sees it.                                      *)
LEMMA ExecutingIsState == TypeOK => Executing \in State
<1> SUFFICES ASSUME TypeOK PROVE Executing \in State
  OBVIOUS
<1>1. IsaPc \in Word
  BY IsaPcWord
<1> QED
  BY <1>1 DEF Executing, State, TypeOK

LEMMA ExecutingWaits ==
  ASSUME UNCHANGED Architecture!isaVars
  PROVE  Executing' = Executing
  BY DEF Executing, Architecture!isaVars

LEMMA BenchSees ==
  ASSUME IInv, Clock
  PROVE  /\ Retired =>
              /\ Executing' = After(Executing) /\ pc' = Executing'.pc
              /\ instruction' = At(Executing) /\ Opcode(At(Executing)) # CALLA
         /\ ~ Retired =>
              \/ Executing' = Executing
              \/ Executing' = After(Executing) /\ Opcode(At(Executing)) = CALLA
<1>1. CASE ResetInit \/ FetchAddress \/ FetchDecode \/ FetchSecondWord \/ LoadCallTarget
  <2>1. Executing' = Executing
    BY <1>1, ExecutingWaits, ResetInitStutters, FetchAddressStutters, FetchDecodeStutters,
       FetchSecondWordStutters, LoadCallTargetStutters
  <2>2. ~ Retired
    BY <1>1 DEF Retired, ResetInit, FetchAddress, FetchDecode, FetchSecondWord,
       LoadCallTarget, Edge
  <2> QED
    BY <2>1, <2>2
<1>2. CASE ExecuteSingle \/ ExecuteDouble
  <2>1. Executing' = After(Executing)
    BY <1>2, RetiringEdge, ProcessorLands
  <2>2. pc' = Executing'.pc
    BY <1>2, RetiringEdge DEF Executing, IsaPc
  <2>3. PICK stage \in {"EXECUTE_SINGLE", "EXECUTE_DOUBLE"} : Edge(stage)
    BY <1>2 DEF ExecuteSingle, ExecuteDouble
  <2>4. execution_stage \in {"EXECUTE_SINGLE", "EXECUTE_DOUBLE"}
    BY <2>3 DEF Edge
  <2>5. instruction' = instruction
    BY <2>3, <2>4, InstructionHeld
  <2>6. instruction = At(Executing)
    BY <2>4 DEF IInv, InstructionInFlight, At, Executing, IsaPc
  <2>7. opcode # CALLA
    BY <2>4 DEF IInv, PathFollowsInstruction, Extended, LDRR, STRR, JMPA, MVRD, ADDI, ANDI,
       CALLA
  <2>8. Opcode(At(Executing)) # CALLA
    BY <2>6, <2>7 DEF opcode
  <2> QED
    BY <2>1, <2>2, <2>4, <2>5, <2>6, <2>8 DEF Retired
<1>3. CASE SaveReturnAddress
  <2>1. execution_stage = "SAVE_RETURN_ADDRESS"
    BY <1>3 DEF SaveReturnAddress, Edge
  <2>2. Executing' = After(Executing)
    BY <1>3, CallingEdge, ProcessorLands
  <2>3. instruction = At(Executing) /\ opcode = CALLA
    BY <2>1 DEF IInv, InstructionInFlight, PathFollowsInstruction, At, Executing, IsaPc
  <2> QED
    BY <2>1, <2>2, <2>3 DEF Retired, opcode
<1> QED
  BY <1>1, <1>2, <1>3 DEF Clock

-----------------------------------------------------------------------------
(* The reference before the bench.                                         *)
ReferenceLoops(H) ==
  /\ Loops(H, steps, self_loop_retire_count)
  /\ self_loop_retire_count <= halt_repeat_threshold

LEMMA RunStates ==
  ASSUME NEW H, RunInv(H)
  PROVE  /\ steps \in Nat /\ H \in [0 .. steps -> State]
         /\ trace \in Seq(Rows) /\ Len(trace) = steps
         /\ \A i \in 0 .. steps : H[i] \in State
         /\ \A i \in 1 .. steps : H[i] = After(H[i - 1]) /\ trace[i] = RowOf(H[i - 1], H[i])
  BY DEF RunInv, RunIs

LEMMA ReferenceLoopsKept ==
  ASSUME NEW H, RunInv(H), ReferenceLoops(H), Reference!ReferenceNext,
         NEW G, RunInv(G)', \A i \in 0 .. steps : G[i] = H[i]
  PROVE  ReferenceLoops(G)'
<1> DEFINE n == steps
           c == self_loop_retire_count
<1>1. /\ n \in Nat /\ \A i \in 0 .. n : H[i] \in State
      /\ \A i \in 1 .. n : H[i] = After(H[i - 1])
  BY RunStates
<1>2. Loops(H, n, c) /\ c <= halt_repeat_threshold
  BY DEF ReferenceLoops
<1>3. ASSUME NEW m \in {n, n + 1}, NEW d, Loops(H, m, d)
      PROVE  Loops(G, m, d)
  <2>1. \A i \in 1 .. m : i - 1 \in 0 .. n
    BY <1>1
  <2>2. \A i \in 1 .. m : G[i - 1] = H[i - 1]
    BY <2>1
  <2> QED
    BY <1>3, <2>2 DEF Loops
<1>4. CASE Reference!RunStep
  <2>1. /\ steps' = n + 1 /\ refOutcome = "running"
        /\ self_loop_retire_count' = IF Reference!ir = SelfLoop THEN c + 1 ELSE 0
    BY <1>4 DEF Reference!RunStep, Reference!SelfLoopsInARow, Reference!SelfLoop, SelfLoop
  <2>2. Reference!ir = At(H[n])
    <3>1. PICK F : F = [i \in 0 .. steps + 1 |-> IF i = steps + 1 THEN After(H[steps]) ELSE H[i]]
      OBVIOUS
    <3> QED
      BY <1>4, <3>1, RunStepRuns
  <2>3. Loops(H, n + 1, self_loop_retire_count')
    BY <1>1, <1>2, <2>1, <2>2, LoopsExtend
  <2>4. Loops(G, n + 1, self_loop_retire_count')
    BY <1>3, <2>3
  <2>5. c \in Nat /\ c < halt_repeat_threshold
    BY <2>1 DEF RunInv, Looping
  <2>6. self_loop_retire_count' <= halt_repeat_threshold
    BY <2>1, <2>5, ThresholdAssumption
  <2> QED
    BY <2>1, <2>4, <2>6 DEF ReferenceLoops, Loops
<1>5. CASE Reference!UnsupportedOpcode \/ Reference!ExceedMaxSteps \/ Reference!WriteFiles
  <2>1. UNCHANGED <<steps, self_loop_retire_count>>
    BY <1>5 DEF Reference!UnsupportedOpcode, Reference!ExceedMaxSteps, Reference!WriteFiles
  <2>2. Loops(G, n, c)
    BY <1>2, <1>3
  <2> QED
    BY <1>2, <2>1, <2>2 DEF ReferenceLoops, Loops
<1> QED
  BY <1>4, <1>5 DEF Reference!ReferenceNext

-----------------------------------------------------------------------------
(* While the reference runs, the bench waits.                              *)
NotStarted(H) ==
  /\ Executing = H[0]
  /\ halt_repeat_count = 0
  /\ tb_trace = <<>> /\ tb_summary = <<>> /\ report = <<>>

(* The bench has come to the state after k instructions of the reference.  *)
LoggedSoFar(rows) ==
  Len(tb_trace) = Len(rows) /\ \A i \in 1 .. Len(rows) : Agrees(tb_trace[i], rows[i])

Following(H, L, k) ==
  /\ k \in 0 .. steps
  /\ Executing = H[k]
  /\ Loops(H, k, halt_repeat_count)
  /\ tb_summary = <<>> => halt_repeat_count < HALT_REPEAT_THRESHOLD
  /\ LoggedSoFar(L[k])

(* It has gone on where the reference gave up.                             *)
Overtaken(rows) ==
  /\ refOutcome = "error"
  /\ Len(tb_trace) >= Len(rows) /\ \A i \in 1 .. Len(rows) : Agrees(tb_trace[i], rows[i])

Beside(H, L) ==
  /\ RunInv(H) /\ ReferenceLoops(H)
  /\ Sees(L) /\ Visible = L[steps]
  /\ refOutcome = "running" => NotStarted(H)
  /\ refOutcome # "running" => (\E k : Following(H, L, k)) \/ Overtaken(L[steps])

(* What a simulation that passes leaves behind.                            *)
Passed ==
  tb_summary # <<>> /\ tb_summary[Field("result")] = "PASS" /\ refOutcome = "halted" =>
    /\ Len(tb_trace) = Len(Visible)
    /\ tb_summary = With(Written(Named(Logged, refPc, refRegs, refFlags), "lower"),
                         Field("result"), "PASS")

Reported ==
  report # <<>> =>
    /\ tb_summary # <<>> /\ files # <<>>
    /\ report.mismatch_fields = Comparison!Mismatches(tb_summary, ReferenceSummary)

CoreTbInv ==
  /\ IInv
  /\ \E S : tb_trace \in Seq(S)
  /\ \E H, L : Beside(H, L)
  /\ Passed /\ Reported

-----------------------------------------------------------------------------
LEMMA CoreTbStarts == CoreTbInit => CoreTbInv
<1> SUFFICES ASSUME CoreTbInit PROVE CoreTbInv
  OBVIOUS
<1>1. /\ execution_stage \in {"RESET_INIT", "FETCH_ADDRESS"}
      /\ pc = 0 /\ regs = [i \in Reg |-> 0] /\ flags = [c |-> 0, z |-> 0, v |-> 0, s |-> 0]
      /\ mem \in [0 .. MemDepth - 1 -> Word] /\ refMem = mem
      /\ refPc = 0 /\ refRegs = [i \in Reg |-> 0] /\ refFlags = [c |-> 0, z |-> 0, v |-> 0, s |-> 0]
      /\ steps = 0 /\ self_loop_retire_count = 0 /\ refOutcome = "running"
      /\ trace = <<>> /\ events = <<>> /\ files = <<>>
  BY ProgramsAssumption, CoreTbProgramsAssumption
     DEF CoreTbInit, Cleared, Reference!ReferenceInit, Reference!IsaInit, Reference!Reg, Reg
<1>2. /\ halt_repeat_count = 0 /\ tb_trace = <<>> /\ tb_summary = <<>> /\ report = <<>>
  BY DEF CoreTbInit
<1>3. IInv
  <2>1. TypeOK
    BY <1>1 DEF CoreTbInit, Cleared, TypeOK, Stages, Word, WordSize, Flags, Reg
  <2> QED
    BY <1>1, <2>1 DEF IInv, InstructionInFlight, PathFollowsInstruction, OperandPrepared
<1>4. Executing = ReferenceState /\ Executing \in State
  <2>1. Executing = ReferenceState
    BY <1>1 DEF Executing, IsaPc, ReferenceState
  <2> QED
    BY <1>3, <2>1, ExecutingIsState DEF IInv
<1>5. PICK H : H = [i \in 0 .. 0 |-> ReferenceState]
  OBVIOUS
<1>6. RunInv(H) /\ H[0] = ReferenceState
  <2>1. H \in [0 .. steps -> State] /\ H[steps] = ReferenceState /\ H[0] = ReferenceState
    BY <1>1, <1>4, <1>5
  <2>2. RunIs(H) /\ StandsAt(H[steps])
    BY <1>1, <2>1 DEF RunIs, Initial, StandsAt, ReferenceState
  <2>3. Remembered(H) /\ Looping /\ FilesWritten
    BY <1>1, ThresholdAssumption DEF Remembered, Looping, FilesWritten
  <2> QED
    BY <2>1, <2>2, <2>3 DEF RunInv
<1>7. ReferenceLoops(H)
  BY <1>1, ThresholdAssumption DEF ReferenceLoops, Loops
<1>8. PICK L : Sees(L) /\ Visible = L[steps]
  BY <1>6, RunStates, VisibleRows
<1>9. NotStarted(H)
  BY <1>2, <1>4, <1>6 DEF NotStarted
<1>10. Beside(H, L)
  BY <1>1, <1>6, <1>7, <1>8, <1>9 DEF Beside
<1>11. tb_trace \in Seq({})
  BY <1>2
<1> QED
  BY <1>2, <1>3, <1>10, <1>11 DEF CoreTbInv, Passed, Reported

(* The reference takes a step.                                             *)
LEMMA ExecutingHeld ==
  ASSUME UNCHANGED vars
  PROVE  Executing' = Executing
  BY DEF Executing, vars, IsaPc, Fetched, opcode, offset

(* A trace that stays is seen in the same way.                             *)
LEMMA SeenAlike ==
  ASSUME UNCHANGED trace, NEW L, Sees(L)
  PROVE  Sees(L)' /\ Visible' = Visible
<1>1. NotCalls' = NotCalls
  BY DEF NotCalls
<1>2. Sees(L)'
  BY <1>1 DEF Sees, Collected
<1> QED
  BY <1>2 DEF Visible

RunsAreSeen == \A H : RunInv(H) => \E L : Sees(L) /\ Visible = L[steps] /\ L[0] = <<>>

LEMMA SeenExists == RunsAreSeen
<1> SUFFICES ASSUME NEW H, RunInv(H)
             PROVE  \E L : Sees(L) /\ Visible = L[steps] /\ L[0] = <<>>
  BY DEF RunsAreSeen
<1>1. trace \in Seq(Rows) /\ Len(trace) = steps
  BY RunStates
<1>2. PICK L : Sees(L) /\ Visible = L[Len(trace)]
  BY <1>1, VisibleRows
<1>3. L[0] = <<>>
  BY <1>1, <1>2, SeenRows
<1> QED
  BY <1>1, <1>2, <1>3

LEMMA RunReferenceKeeps ==
  ASSUME CoreTbInv, RunReference
  PROVE  CoreTbInv'
<1>1. Reference!ReferenceNext /\ UNCHANGED <<vars, tbVars, report>>
  BY DEF RunReference
<1>2. IInv'
  BY <1>1, InvStep DEF CoreTbInv
<1>3. \E S : tb_trace' \in Seq(S)
  BY <1>1 DEF CoreTbInv, tbVars
<1>4. PICK H, L : Beside(H, L)
  BY DEF CoreTbInv
<1>5. PICK G : RunInv(G)' /\ steps' >= steps /\ \A i \in 0 .. steps : G[i] = H[i]
  BY <1>1, <1>4, ReferenceKeeps DEF Beside
<1>6. ReferenceLoops(G)'
  BY <1>1, <1>4, <1>5, ReferenceLoopsKept DEF Beside
<1>7. Executing' = Executing
  BY <1>1, ExecutingHeld
<1>8. CASE refOutcome = "running"
  <2>1. NotStarted(H) /\ 0 \in 0 .. steps
    BY <1>4, <1>8, RunStates DEF Beside
  <2>2. NotStarted(G)'
    BY <1>1, <1>5, <1>7, <2>1 DEF NotStarted, tbVars
  <2>3. PICK M : Sees(M)' /\ Visible' = M[steps'] /\ M[0] = <<>>
    <3>1. RunsAreSeen'
      BY SeenExists, PTL
    <3> QED
      BY <1>5, <3>1 DEF RunsAreSeen
  <2>4. Following(G, M, 0)'
    <3>1. /\ tb_trace' = <<>> /\ halt_repeat_count' = 0 /\ Executing' = G[0]
          /\ 0 \in 0 .. steps'
      BY <2>2, <1>5 DEF NotStarted, RunInv, RunIs
    <3>2. Loops(G, 0, 0)
      BY DEF Loops
    <3>3. LoggedSoFar(M[0])'
      BY <2>3, <3>1 DEF LoggedSoFar
    <3> QED
      BY <3>1, <3>2, <3>3 DEF Following, Loops, HALT_REPEAT_THRESHOLD
  <2>5. Beside(G, M)'
    BY <1>5, <1>6, <2>2, <2>3, <2>4 DEF Beside
  <2>6. Passed' /\ Reported'
    BY <2>2 DEF NotStarted, Passed, Reported
  <2> QED
    BY <1>2, <1>3, <2>5, <2>6 DEF CoreTbInv
<1>9. CASE refOutcome # "running"
  <2>1. /\ UNCHANGED <<refPc, refRegs, refFlags, refMem, steps, self_loop_retire_count,
                       refOutcome, trace, events>>
        /\ files = <<>>
    BY <1>1, <1>9 DEF Reference!ReferenceNext, Reference!RunStep, Reference!UnsupportedOpcode,
       Reference!ExceedMaxSteps, Reference!WriteFiles, Reference!isaVars
  <2>2. G = H
    <3>1. H \in [0 .. steps -> State] /\ G \in [0 .. steps -> State]
      BY <1>4, <1>5, <2>1 DEF Beside, RunInv, RunIs
    <3>2. /\ H = [i \in 0 .. steps |-> H[i]] /\ G = [i \in 0 .. steps |-> G[i]]
          /\ \A i \in 0 .. steps : G[i] = H[i]
      BY <1>5, <3>1, Zenon
    <3> QED
      BY <3>2, Zenon
  <2>3. Sees(L)' /\ Visible' = Visible
    BY <1>4, <2>1, SeenAlike DEF Beside
  <2>4. ASSUME NEW k, Following(H, L, k)
        PROVE  Following(H, L, k)'
    BY <1>1, <1>7, <2>1, <2>4 DEF Following, Loops, LoggedSoFar, tbVars, Agrees
  <2>5. Overtaken(L[steps]) => Overtaken(L[steps])'
    BY <1>1, <2>1 DEF Overtaken, tbVars, Agrees
  <2>6. Beside(H, L)'
    BY <1>4, <1>5, <1>6, <1>9, <2>1, <2>2, <2>3, <2>4, <2>5 DEF Beside
  <2>7. report = <<>>
    BY <2>1 DEF CoreTbInv, Reported
  <2>8. Passed' /\ Reported'
    BY <1>1, <2>1, <2>3, <2>7 DEF CoreTbInv, Passed, Reported, tbVars
  <2> QED
    BY <1>2, <1>3, <2>6, <2>8 DEF CoreTbInv
<1> QED
  BY <1>8, <1>9

-----------------------------------------------------------------------------
(* Rows and summaries.                                                     *)
LEMMA AppendAny ==
  ASSUME NEW S, NEW q \in Seq(S), NEW e
  PROVE  /\ Append(q, e) \in Seq(S \cup {e})
         /\ Len(q) \in Nat /\ Len(Append(q, e)) = Len(q) + 1
         /\ Append(q, e)[Len(q) + 1] = e
         /\ \A i \in 1 .. Len(q) : Append(q, e)[i] = q[i]
<1>1. q \in Seq(S \cup {e}) /\ e \in S \cup {e}
  OBVIOUS
<1> QED
  BY <1>1, AppendFacts

LEMMA WithValue ==
  ASSUME NEW values, NEW name, NEW value
  PROVE  /\ DOMAIN With(values, name, value) = DOMAIN values \cup {name}
         /\ With(values, name, value) # <<>>
         /\ name \notin DOMAIN values => With(values, name, value)[name] = value
         /\ \A n \in DOMAIN values : With(values, name, value)[n] = values[n]
<1>1. name \in DOMAIN With(values, name, value)
  BY DEF With
<1>2. With(values, name, value) # <<>>
  <2>1. DOMAIN << >> = {}
    OBVIOUS
  <2> QED
    BY <1>1, <2>1
<1> QED
  BY <1>2 DEF With

LEMMA NamesApart ==
  /\ Field("ir") \notin Logged
  /\ Field("result") \notin Logged \cup Registers \cup StateNames
  /\ Logged \subseteq Registers \cup StateNames
<1>1. \A x \in StateNames : x[1] \in {"pc", "c", "z", "v", "s"}
  BY DEF StateNames, Field
<1>2. \A x \in Registers : x[1] = "r"
  BY DEF Registers, Register
<1>3. \A i \in 0 .. 4 : Register(i) \in Registers
  BY DEF Registers, Reg
<1>4. Logged \subseteq Registers \cup StateNames
  BY <1>3 DEF Logged
<1>5. Field("ir")[1] = "ir" /\ Field("result")[1] = "result"
  BY DEF Field
<1> QED
  BY <1>1, <1>2, <1>4, <1>5

LEMMA NamedValues ==
  ASSUME NEW names, NEW p, NEW r, NEW f
  PROVE  /\ DOMAIN Named(names, p, r, f) = names
         /\ Named(names, p, r, f) = [n \in names |-> Named(names, p, r, f)[n]]
<1> DEFINE V(n) == CASE n \in Registers -> r[n[2]]
                     [] n = Field("pc") -> p
                     [] n \in StateNames \ {Field("pc")} -> f[n[1]]
<1>1. Named(names, p, r, f) = [n \in names |-> V(n)]
  BY Zenon DEF Named
<1> HIDE DEF V
<1> QED
  BY <1>1

(* The summary of a bench that has just logged a row.                      *)
LEMMA RowRepeated ==
  ASSUME NEW p, NEW r, NEW f, NEW w, NEW row, row = With(Named(Logged, p, r, f), Field("ir"), w)
  PROVE  [n \in Logged |-> row[n]] = Named(Logged, p, r, f)
<1>1. PICK values : values = Named(Logged, p, r, f)
  OBVIOUS
<1>2. DOMAIN values = Logged /\ values = [n \in Logged |-> values[n]]
  BY <1>1, NamedValues
<1>3. \A n \in Logged : row[n] = values[n]
  <2>1. row = With(values, Field("ir"), w)
    BY <1>1, Zenon
  <2>2. \A n \in DOMAIN values : With(values, Field("ir"), w)[n] = values[n]
    BY DEF With
  <2> QED
    BY <1>2, <2>1, <2>2, Zenon
<1>4. [n \in Logged |-> row[n]] = [n \in Logged |-> values[n]]
  BY <1>3, Zenon
<1> QED
  BY <1>1, <1>2, <1>4, Zenon

LEMMA SummaryMade ==
  ASSUME NEW values, DOMAIN values = Logged, NEW result
  PROVE  /\ With(Written(values, "lower"), Field("result"), result) # <<>>
         /\ With(Written(values, "lower"), Field("result"), result)[Field("result")] = result
<1>1. DOMAIN Written(values, "lower") = Logged
  BY DEF Written
<1> QED
  BY <1>1, WithValue, NamesApart

LEMMA SummaryTells ==
  ASSUME TbCycle, NEW rows, NEW result
  PROVE  /\ Summary(rows, result) # <<>>
         /\ Summary(rows, result)[Field("result")] = result
<1>1. PICK values : values = IF rows = <<>> THEN Named(Logged, pc', regs', flags')
                             ELSE [n \in Logged |-> rows[Len(rows)][n]]
  OBVIOUS
<1>2. DOMAIN values = Logged
  BY <1>1, NamedValues
<1>3. Summary(rows, result) = With(Written(values, "lower"), Field("result"), result)
  BY <1>1, Zenon DEF Summary
<1> QED
  BY <1>2, <1>3, SummaryMade

(* A simulation passes only where it has seen the halt, and ends there.    *)
LEMMA HaltEnds ==
  ASSUME TbCycle
  PROVE  /\ tb_summary' = <<>> => ~ HaltSeen
         /\ tb_summary' # <<>> /\ tb_summary'[Field("result")] = "PASS" =>
              HaltSeen /\ tb_summary' = Summary(tb_trace', "PASS")
<1>1. CASE HaltSeen \/ TimedOut
  <2>1. PICK result \in Results : tb_summary' = Summary(tb_trace', result)
    BY <1>1 DEF TbCycle
  <2>2. tb_summary' # <<>> /\ tb_summary'[Field("result")] = result
    BY <2>1, SummaryTells
  <2>3. result = "PASS" => HaltSeen
    BY <2>1 DEF Results
  <2> QED
    BY <2>1, <2>2, <2>3
<1>2. CASE ~ (HaltSeen \/ TimedOut)
  BY <1>2 DEF TbCycle
<1> QED
  BY <1>1, <1>2

-----------------------------------------------------------------------------
(* A cycle of the bench.  As long as the reference has not given up, the   *)
(* bench is behind it until it ends.                                       *)
LEMMA BehindUntilHalt ==
  ASSUME NEW H, RunInv(H), ReferenceLoops(H), refOutcome = "halted",
         NEW L, NEW k, Following(H, L, k), tb_summary = <<>>
  PROVE  k # steps
<1> SUFFICES ASSUME k = steps PROVE FALSE
  OBVIOUS
<1>1. steps \in Nat /\ self_loop_retire_count >= halt_repeat_threshold
  BY RunStates DEF RunInv, Looping
<1>2. /\ Loops(H, steps, halt_repeat_count) /\ Loops(H, steps, self_loop_retire_count)
      /\ halt_repeat_count < HALT_REPEAT_THRESHOLD
  BY DEF Following, ReferenceLoops
<1>3. halt_repeat_count = self_loop_retire_count /\ halt_repeat_count \in Int
  <2>1. halt_repeat_count \in 0 .. steps
    BY <1>2 DEF Loops
  <2> QED
    BY <1>1, <1>2, <2>1, SameLoops
<1> QED
  BY <1>1, <1>2, <1>3, SameThresholdAssumption, ThresholdAssumption

(* At the end of the reference both have counted the same branches.        *)
LEMMA HaltTogether ==
  ASSUME NEW H, RunInv(H), ReferenceLoops(H), NEW k \in 0 .. steps, NEW c,
         Loops(H, k, c), c >= HALT_REPEAT_THRESHOLD
  PROVE  k = steps
<1>1. steps \in Nat /\ c \in 0 .. k
  BY RunStates DEF Loops
<1>2. self_loop_retire_count <= halt_repeat_threshold /\ Loops(H, steps, self_loop_retire_count)
  BY DEF ReferenceLoops
<1>3. c > 0 /\ c >= halt_repeat_threshold
  BY <1>1, SameThresholdAssumption, ThresholdAssumption
<1>4. self_loop_retire_count = c + (steps - k)
  BY <1>1, <1>2, <1>3, LoopsDiffer
<1> QED
  BY <1>1, <1>2, <1>3, <1>4, ThresholdAssumption

(* One more row on both sides.                                             *)
LEMMA LogGrows ==
  ASSUME NEW S, tb_trace \in Seq(S), tb_trace' = Append(tb_trace, Row),
         NEW rows \in Seq(Rows), LoggedSoFar(rows), NEW x \in Rows, Agrees(Row, x)
  PROVE  /\ Len(tb_trace') = Len(Append(rows, x))
         /\ \A i \in 1 .. Len(Append(rows, x)) : Agrees(tb_trace'[i], Append(rows, x)[i])
<1>1. /\ Len(tb_trace) \in Nat /\ Len(tb_trace') = Len(tb_trace) + 1
      /\ tb_trace'[Len(tb_trace) + 1] = Row
      /\ \A i \in 1 .. Len(tb_trace) : tb_trace'[i] = tb_trace[i]
  BY AppendAny
<1>2. /\ Len(rows) \in Nat /\ Len(Append(rows, x)) = Len(rows) + 1
      /\ Append(rows, x)[Len(rows) + 1] = x
      /\ \A i \in 1 .. Len(rows) : Append(rows, x)[i] = rows[i]
  BY AppendAny
<1>3. Len(tb_trace) = Len(rows) /\ \A i \in 1 .. Len(rows) : Agrees(tb_trace[i], rows[i])
  BY DEF LoggedSoFar
<1>4. ASSUME NEW i \in 1 .. Len(Append(rows, x))
      PROVE  Agrees(tb_trace'[i], Append(rows, x)[i])
  <2>1. CASE i = Len(rows) + 1
    BY <1>1, <1>2, <1>3, <2>1
  <2>2. CASE i # Len(rows) + 1
    <3>1. i \in 1 .. Len(rows) /\ i \in 1 .. Len(tb_trace)
      BY <1>2, <1>3, <2>2
    <3> QED
      BY <1>1, <1>2, <1>3, <3>1
  <2> QED
    BY <2>1, <2>2
<1> QED
  BY <1>1, <1>2, <1>3, <1>4

(* What has been logged of the reference stays whatever is logged after.   *)
LEMMA LoggedStays ==
  ASSUME NEW S, tb_trace \in Seq(S), tb_trace' \in {tb_trace, Append(tb_trace, Row)},
         NEW rows \in Seq(Rows),
         Len(tb_trace) >= Len(rows), \A i \in 1 .. Len(rows) : Agrees(tb_trace[i], rows[i])
  PROVE  /\ Len(tb_trace') >= Len(rows)
         /\ \A i \in 1 .. Len(rows) : Agrees(tb_trace'[i], rows[i])
<1>1. Len(tb_trace) \in Nat /\ Len(rows) \in Nat
  OBVIOUS
<1>2. CASE tb_trace' = tb_trace
  BY <1>2
<1>3. CASE tb_trace' = Append(tb_trace, Row)
  <2>1. /\ Len(tb_trace') = Len(tb_trace) + 1
        /\ \A i \in 1 .. Len(tb_trace) : tb_trace'[i] = tb_trace[i]
    BY <1>3, AppendAny
  <2>2. \A i \in 1 .. Len(rows) : i \in 1 .. Len(tb_trace)
    BY <1>1
  <2> QED
    BY <1>1, <2>1, <2>2
<1> QED
  BY <1>2, <1>3

LEMMA CycleFacts ==
  ASSUME TbCycle
  PROVE  /\ refOutcome # "running" /\ tb_summary = <<>> /\ Clock
         /\ UNCHANGED <<refPc, refRegs, refFlags, refMem, steps, self_loop_retire_count,
                        refOutcome, trace, events, files, report>>
         /\ halt_repeat_count' = NextRepeats
         /\ tb_trace' = IF Retired THEN Append(tb_trace, Row) ELSE tb_trace
  BY DEF TbCycle, reference, log_trace

(* The bench follows the reference to its next state.                      *)
LEMMA CycleFollows ==
  ASSUME IInv, NEW H, NEW L, Beside(H, L), NEW k, Following(H, L, k),
         NEW S, tb_trace \in Seq(S), TbCycle
  PROVE  \/ ~ HaltSeen /\ Following(H, L, k)'
         \/ /\ Following(H, L, k + 1)'
            /\ HaltSeen => halt_repeat_count' >= HALT_REPEAT_THRESHOLD
         \/ Overtaken(L[steps])'
<1>1. /\ RunInv(H) /\ ReferenceLoops(H) /\ Sees(L)
      /\ steps \in Nat /\ k \in 0 .. steps /\ Executing = H[k]
      /\ Loops(H, k, halt_repeat_count) /\ LoggedSoFar(L[k])
      /\ halt_repeat_count < HALT_REPEAT_THRESHOLD
  BY CycleFacts, RunStates DEF Beside, Following
<1>2. /\ steps' = steps /\ tb_summary = <<>> /\ refOutcome' = refOutcome
      /\ refOutcome \in {"halted", "error"}
  BY <1>1, CycleFacts DEF RunInv, Looping
<1>3. /\ trace \in Seq(Rows) /\ Len(trace) = steps
      /\ \A i \in 0 .. steps : H[i] \in State /\ L[i] \in Seq(Rows)
      /\ \A i \in 1 .. steps : H[i] = After(H[i - 1]) /\ trace[i] = RowOf(H[i - 1], H[i])
  BY <1>1, RunStates, SeenRows
<1>4. Loops(H, k + 1, IF At(H[k]) = SelfLoop THEN halt_repeat_count + 1 ELSE 0)
      /\ (halt_repeat_count > 0 => At(H[k]) = SelfLoop)
  <2>1. /\ k \in Nat /\ \A i \in 0 .. k : H[i] \in State
        /\ \A i \in 1 .. k : H[i] = After(H[i - 1])
    BY <1>1, <1>3
  <2> QED
    BY <1>1, <2>1, LoopsExtend
<1>5. ASSUME k < steps
      PROVE  /\ k + 1 \in 0 .. steps /\ H[k + 1] = After(H[k])
             /\ trace[k + 1] = RowOf(H[k], H[k + 1]) /\ trace[k + 1] \in Rows
             /\ L[k + 1] = IF Opcode(At(H[k])) # CALLA THEN Append(L[k], trace[k + 1]) ELSE L[k]
  <2>1. k + 1 \in 1 .. steps /\ k + 1 \in 0 .. steps /\ (k + 1) - 1 = k /\ k \in 0 .. Len(trace) - 1
    BY <1>1, <1>3, <1>5
  <2>2. H[k + 1] = After(H[k]) /\ trace[k + 1] = RowOf(H[k], H[k + 1]) /\ trace[k + 1] \in Rows
    BY <1>3, <2>1
  <2>3. trace[k + 1].ir = At(H[k])
    BY <2>2 DEF RowOf
  <2> QED
    BY <1>1, <1>3, <2>1, <2>2, <2>3, SeenRows
<1>6. ASSUME k = steps
      PROVE  refOutcome = "error"
  BY <1>1, <1>2, <1>6, BehindUntilHalt
<1>7. CASE ~ Retired /\ Executing' = Executing
  <2>1. tb_trace' = tb_trace /\ halt_repeat_count' = halt_repeat_count /\ ~ HaltSeen
    BY <1>7, CycleFacts DEF NextRepeats, HaltSeen
  <2>2. Following(H, L, k)'
    BY <1>1, <1>2, <1>7, <2>1 DEF Following, Loops, LoggedSoFar, Agrees
  <2> QED
    BY <2>1, <2>2
<1>8. CASE ~ Retired /\ Executing' = After(Executing) /\ Opcode(At(Executing)) = CALLA
  <2>1. tb_trace' = tb_trace /\ halt_repeat_count' = halt_repeat_count /\ ~ HaltSeen
    BY <1>8, CycleFacts DEF NextRepeats, HaltSeen
  <2>2. At(H[k]) # SelfLoop
    <3>1. Opcode(SelfLoop) # CALLA
      BY DEF SelfLoop, Opcode, CALLA
    <3> QED
      BY <1>1, <1>8, <3>1
  <2>3. halt_repeat_count = 0
    BY <1>1, <1>4, <2>2 DEF Loops
  <2>4. CASE k < steps
    <3>1. LoggedSoFar(L[k + 1])'
      BY <1>1, <1>5, <1>8, <2>1, <2>4 DEF LoggedSoFar, Agrees
    <3>2. Following(H, L, k + 1)'
      BY <1>1, <1>2, <1>4, <1>5, <1>8, <2>1, <2>2, <2>3, <2>4, <3>1 DEF Following, Loops
    <3> QED
      BY <2>1, <3>2
  <2>5. CASE k = steps
    BY <1>1, <1>2, <1>3, <1>6, <2>1, <2>5 DEF Overtaken, LoggedSoFar, Agrees
  <2> QED
    BY <1>1, <2>4, <2>5
<1>9. CASE Retired
  <2>1. /\ tb_trace' = Append(tb_trace, Row)
        /\ halt_repeat_count' = IF At(H[k]) = SelfLoop THEN halt_repeat_count + 1 ELSE 0
        /\ Executing' = After(H[k]) /\ pc' = Executing'.pc
        /\ instruction' = At(H[k]) /\ Opcode(At(H[k])) # CALLA
    BY <1>1, <1>9, CycleFacts, BenchSees DEF NextRepeats, SelfLoop
  <2>2. HaltSeen <=> halt_repeat_count' >= HALT_REPEAT_THRESHOLD
    BY <1>9, CycleFacts DEF HaltSeen
  <2>3. CASE k < steps
    <3>1. Agrees(Row, trace[k + 1])
      <4>1. /\ trace[k + 1].pc = pc' /\ trace[k + 1].regs = regs'
            /\ trace[k + 1].flags = flags' /\ trace[k + 1].ir = instruction'
        BY <1>5, <2>1, <2>3 DEF RowOf, Executing
      <4> QED
        BY <4>1, Zenon DEF Agrees, Row
    <3>2. L[k + 1] = Append(L[k], trace[k + 1])
      BY <1>5, <2>1, <2>3
    <3>3. LoggedSoFar(L[k + 1])'
      <4>1. L[k] \in Seq(Rows)
        BY <1>1, <1>3
      <4>2. PICK rows \in Seq(Rows), x \in Rows :
              rows = L[k] /\ x = trace[k + 1] /\ L[k + 1] = Append(rows, x)
        BY <1>5, <2>3, <3>2, <4>1
      <4>3. LoggedSoFar(rows) /\ Agrees(Row, x)
        BY <1>1, <3>1, <4>2
      <4>4. /\ Len(tb_trace') = Len(L[k + 1])
            /\ \A i \in 1 .. Len(L[k + 1]) : Agrees(tb_trace'[i], L[k + 1][i])
        BY <2>1, <4>2, <4>3, LogGrows
      <4> QED
        BY <4>4 DEF LoggedSoFar, Agrees
    <3>4. tb_summary' = <<>> => halt_repeat_count' < HALT_REPEAT_THRESHOLD
      <4>1. halt_repeat_count' \in Int
        BY <1>1, <2>1 DEF Loops
      <4> QED
        BY <2>2, <4>1, HaltEnds DEF HALT_REPEAT_THRESHOLD
    <3>5. Following(H, L, k + 1)'
      BY <1>1, <1>2, <1>4, <1>5, <2>1, <2>3, <3>3, <3>4 DEF Following, Loops
    <3> QED
      BY <2>2, <3>5
  <2>4. CASE k = steps
    <3>1. L[steps] \in Seq(Rows) /\ LoggedSoFar(L[steps])
      BY <1>1, <1>3, <2>4
    <3>2. /\ Len(tb_trace') >= Len(L[steps])
          /\ \A i \in 1 .. Len(L[steps]) : Agrees(tb_trace'[i], L[steps][i])
      <4>1. PICK rows \in Seq(Rows) : rows = L[steps]
        BY <3>1
      <4>2. Len(tb_trace) >= Len(rows) /\ \A i \in 1 .. Len(rows) : Agrees(tb_trace[i], rows[i])
        BY <3>1, <4>1 DEF LoggedSoFar
      <4> QED
        BY <2>1, <4>1, <4>2, LoggedStays
    <3> QED
      BY <1>2, <1>6, <2>4, <3>2 DEF Overtaken, Agrees
  <2> QED
    BY <1>1, <2>3, <2>4
<1> QED
  BY <1>1, <1>7, <1>8, <1>9, CycleFacts, BenchSees

(* While the reference rests, its run and its rows are what they were.     *)
LEMMA BesideRests ==
  ASSUME NEW H, NEW L, Beside(H, L), UNCHANGED reference
  PROVE  /\ RunInv(H)' /\ ReferenceLoops(H)'
         /\ Sees(L)' /\ Visible' = Visible /\ Visible' = L[steps']
         /\ steps' = steps /\ refOutcome' = refOutcome
<1>1. RunInv(H)' /\ ReferenceLoops(H)'
  BY RunRests DEF Beside, reference, ReferenceLoops, Loops
<1>2. Sees(L)' /\ Visible' = Visible
  BY SeenAlike DEF Beside, reference
<1> QED
  BY <1>1, <1>2 DEF Beside, reference

(* A cycle leaves the bench beside the reference, and a simulation ends    *)
(* with the halt where the reference ended.                                *)
LEMMA CycleStaysBeside ==
  ASSUME IInv, NEW H, NEW L, Beside(H, L), NEW S, tb_trace \in Seq(S), TbCycle
  PROVE  /\ Beside(H, L)'
         /\ refOutcome = "halted" /\ HaltSeen =>
              Executing' = H[steps] /\ Len(tb_trace') = Len(L[steps])
<1>1. /\ refOutcome # "running" /\ UNCHANGED reference
      /\ tb_trace' \in {tb_trace, Append(tb_trace, Row)}
  BY CycleFacts DEF TbCycle
<1>2. /\ RunInv(H)' /\ ReferenceLoops(H)' /\ Sees(L)' /\ Visible' = L[steps']
      /\ steps' = steps /\ refOutcome' = refOutcome
  BY <1>1, BesideRests
<1>3. CASE \E k : Following(H, L, k)
  <2>1. PICK k : Following(H, L, k)
    BY <1>3
  <2>2. CASE ~ HaltSeen /\ Following(H, L, k)'
    BY <1>1, <1>2, <2>2 DEF Beside
  <2>3. CASE /\ Following(H, L, k + 1)'
             /\ HaltSeen => halt_repeat_count' >= HALT_REPEAT_THRESHOLD
    <3>1. Beside(H, L)'
      BY <1>1, <1>2, <2>3 DEF Beside
    <3>2. ASSUME HaltSeen
          PROVE  Executing' = H[steps] /\ Len(tb_trace') = Len(L[steps])
      <4>1. PICK c : c = halt_repeat_count'
        OBVIOUS
      <4>2. /\ k + 1 \in 0 .. steps /\ Loops(H, k + 1, c) /\ c >= HALT_REPEAT_THRESHOLD
            /\ Executing' = H[k + 1] /\ Len(tb_trace') = Len(L[k + 1])
        BY <1>2, <2>3, <3>2, <4>1 DEF Following, Loops, LoggedSoFar, HALT_REPEAT_THRESHOLD
      <4>3. k + 1 = steps
        BY <4>2, HaltTogether DEF Beside
      <4> QED
        BY <4>2, <4>3
    <3> QED
      BY <3>1, <3>2
  <2>4. CASE Overtaken(L[steps])'
    <3>1. refOutcome = "error"
      BY <1>2, <2>4 DEF Overtaken
    <3> QED
      BY <1>1, <1>2, <2>4, <3>1 DEF Beside
  <2> QED
    BY <2>1, <2>2, <2>3, <2>4, CycleFollows
<1>4. CASE Overtaken(L[steps])
  <2>1. PICK rows \in Seq(Rows) : rows = L[steps]
    <3>1. trace \in Seq(Rows) /\ Len(trace) = steps /\ steps \in Nat /\ Sees(L)
      BY RunStates DEF Beside
    <3> QED
      BY <3>1, SeenRows
  <2>2. /\ refOutcome = "error" /\ Len(tb_trace) >= Len(rows)
        /\ \A i \in 1 .. Len(rows) : Agrees(tb_trace[i], rows[i])
    BY <1>4, <2>1 DEF Overtaken
  <2>3. /\ Len(tb_trace') >= Len(rows)
        /\ \A i \in 1 .. Len(rows) : Agrees(tb_trace'[i], rows[i])
    BY <1>1, <2>2, LoggedStays
  <2>4. Overtaken(L[steps])'
    BY <1>2, <2>1, <2>2, <2>3 DEF Overtaken, Agrees
  <2> QED
    BY <1>1, <1>2, <2>2, <2>4 DEF Beside
<1> QED
  BY <1>1, <1>3, <1>4 DEF Beside

LEMMA BenchCycleKeeps ==
  ASSUME CoreTbInv, TbCycle
  PROVE  CoreTbInv'
<1>1. PICK H, L : Beside(H, L)
  BY DEF CoreTbInv
<1>2. PICK S : tb_trace \in Seq(S)
  BY DEF CoreTbInv
<1>3. IInv /\ UNCHANGED reference
  BY DEF CoreTbInv, TbCycle
<1>4. IInv'
  BY <1>3, InvStep, CycleFacts DEF Next
<1>5. tb_trace' \in Seq(S) \/ \E T : tb_trace' \in Seq(T)
  <2>1. Append(tb_trace, Row) \in Seq(S \cup {Row})
    BY <1>2, AppendAny
  <2> QED
    BY <1>2, <2>1, CycleFacts
<1>6. /\ Beside(H, L)'
      /\ refOutcome = "halted" /\ HaltSeen =>
           Executing' = H[steps] /\ Len(tb_trace') = Len(L[steps])
  BY <1>1, <1>2, <1>3, CycleStaysBeside
<1>7. Passed'
  <2> SUFFICES ASSUME tb_summary' # <<>>, tb_summary'[Field("result")] = "PASS",
                      refOutcome' = "halted"
               PROVE  /\ Len(tb_trace') = Len(Visible')
                      /\ tb_summary' = With(Written(Named(Logged, refPc', refRegs', refFlags'),
                                                    "lower"), Field("result"), "PASS")
    BY DEF Passed, With, Written, Named, Hex
  <2>1. HaltSeen /\ tb_summary' = Summary(tb_trace', "PASS")
    BY HaltEnds
  <2>2. /\ refOutcome = "halted" /\ Executing' = H[steps] /\ Len(tb_trace') = Len(L[steps])
        /\ Visible' = L[steps]
    BY <1>1, <1>3, <1>6, <2>1, BesideRests DEF reference
  <2>3. /\ Retired /\ tb_trace' = Append(tb_trace, Row) /\ pc' = Executing'.pc
    BY <1>3, <2>1, CycleFacts, BenchSees DEF HaltSeen
  <2>4. /\ refPc' = pc' /\ refRegs' = regs' /\ refFlags' = flags'
    <3>1. refPc = H[steps].pc /\ refRegs = H[steps].regs /\ refFlags = H[steps].flags
      BY <1>1, <2>2 DEF Beside, RunInv, StandsAt
    <3> QED
      BY <1>3, <2>2, <2>3, <3>1 DEF Executing, reference
  <2>5. tb_trace' # <<>> /\ tb_trace'[Len(tb_trace')] = Row
    BY <1>2, <2>3, AppendAny
  <2>6. [n \in Logged |-> Row[n]] = Named(Logged, pc', regs', flags')
    <3>1. PICK row, p, r, f, w : row = Row /\ p = pc' /\ r = regs' /\ f = flags' /\ w = instruction'
      BY Zenon
    <3>2. row = With(Named(Logged, p, r, f), Field("ir"), w)
      BY <3>1, Zenon DEF Row
    <3>3. [n \in Logged |-> row[n]] = Named(Logged, p, r, f)
      BY <3>2, RowRepeated
    <3> QED
      BY <3>1, <3>3, Zenon
  <2>7. Summary(tb_trace', "PASS")
          = With(Written(Named(Logged, pc', regs', flags'), "lower"), Field("result"), "PASS")
    BY <2>5, <2>6, Zenon DEF Summary
  <2> QED
    BY <2>1, <2>2, <2>4, <2>7
<1>8. Reported'
  BY CycleFacts DEF CoreTbInv, Reported
<1> QED
  BY <1>4, <1>5, <1>6, <1>7, <1>8 DEF CoreTbInv

(* Comparing the files changes neither.                                    *)
LEMMA CompareKeeps ==
  ASSUME CoreTbInv, Compare \/ UNCHANGED coreTbVars
  PROVE  CoreTbInv'
<1>1. PICK H, L : Beside(H, L)
  BY DEF CoreTbInv
<1>2. UNCHANGED <<vars, reference, tbVars>>
  BY DEF Compare, coreTbVars
<1>3. IInv'
  BY <1>2, InvStep DEF CoreTbInv
<1>4. /\ RunInv(H)' /\ ReferenceLoops(H)' /\ Sees(L)' /\ Visible' = Visible /\ Visible' = L[steps']
      /\ steps' = steps /\ refOutcome' = refOutcome
  BY <1>1, <1>2, BesideRests
<1>5. Executing' = Executing
  BY <1>2, ExecutingHeld
<1>6. ASSUME NEW k, Following(H, L, k)
      PROVE  Following(H, L, k)'
  BY <1>2, <1>4, <1>5, <1>6 DEF Following, Loops, LoggedSoFar, tbVars, Agrees
<1>7. Overtaken(L[steps]) => Overtaken(L[steps])'
  BY <1>2, <1>4 DEF Overtaken, tbVars, Agrees
<1>8. NotStarted(H) /\ refOutcome = "running" => NotStarted(H)'
  <2>1. CASE Compare
    BY <2>1 DEF Compare, NotStarted
  <2>2. CASE UNCHANGED coreTbVars
    BY <1>2, <1>5, <2>2 DEF coreTbVars, tbVars, NotStarted
  <2> QED
    BY <2>1, <2>2
<1>9. Beside(H, L)'
  BY <1>1, <1>4, <1>6, <1>7, <1>8 DEF Beside
<1>10. Passed'
  BY <1>2, <1>4 DEF CoreTbInv, Passed, tbVars, reference
<1>11. Reported'
  <2>1. ReferenceSummary' = ReferenceSummary
    BY <1>2 DEF ReferenceSummary, reference
  <2>2. CASE Compare
    <3>1. /\ tb_summary # <<>> /\ files # <<>>
          /\ report'.mismatch_fields = Comparison!Mismatches(tb_summary, ReferenceSummary)
      BY <2>2 DEF Compare, Comparison!Report
    <3> QED
      BY <1>2, <2>1, <3>1 DEF Reported, tbVars, reference, Comparison!Mismatches, Comparison!Get
  <2>3. CASE UNCHANGED coreTbVars
    BY <1>2, <2>1, <2>3 DEF CoreTbInv, Reported, coreTbVars, tbVars, reference,
       Comparison!Mismatches, Comparison!Get
  <2> QED
    BY <2>2, <2>3
<1>12. \E S : tb_trace' \in Seq(S)
  BY <1>2 DEF CoreTbInv, tbVars
<1> QED
  BY <1>3, <1>9, <1>10, <1>11, <1>12 DEF CoreTbInv

-----------------------------------------------------------------------------
(* What the comparison finds of a summary that repeats the reference.      *)
LEMMA WrittenAlike ==
  ASSUME NEW p, NEW r, NEW f, NEW key \in Logged
  PROVE  /\ Named(Logged, p, r, f)[key] = Named(Registers \cup StateNames, p, r, f)[key]
         /\ key \in Registers \cup StateNames
<1> DEFINE V(n) == CASE n \in Registers -> r[n[2]]
                     [] n = Field("pc") -> p
                     [] n \in StateNames \ {Field("pc")} -> f[n[1]]
<1>1. /\ Named(Logged, p, r, f) = [n \in Logged |-> V(n)]
      /\ Named(Registers \cup StateNames, p, r, f) = [n \in Registers \cup StateNames |-> V(n)]
  BY Zenon DEF Named
<1> HIDE DEF V
<1> QED
  BY <1>1, NamesApart

LettersApart(summary, written) ==
  \A key \in Registers \cup StateNames :
    key \in DOMAIN summary /\ summary[key] # written[key] => summary[key][2] = "lower"

LEMMA ReportsLetters ==
  ASSUME NEW p, NEW r, NEW f
  PROVE  LettersApart(With(Written(Named(Logged, p, r, f), "lower"), Field("result"), "PASS"),
                      Written(Named(Registers \cup StateNames, p, r, f), "upper"))
<1>0. PICK few, all, summary, written :
        /\ few = Named(Logged, p, r, f) /\ all = Named(Registers \cup StateNames, p, r, f)
        /\ summary = With(Written(few, "lower"), Field("result"), "PASS")
        /\ written = Written(all, "upper")
  BY Zenon
<1> SUFFICES ASSUME NEW key \in Registers \cup StateNames, key \in DOMAIN summary,
                    summary[key] # written[key]
             PROVE  summary[key][2] = "lower"
  BY <1>0, Zenon DEF LettersApart
<1>1. DOMAIN few = Logged /\ DOMAIN all = Registers \cup StateNames
  BY <1>0, NamedValues
<1>2. /\ DOMAIN Written(few, "lower") = Logged
      /\ DOMAIN Written(all, "upper") = Registers \cup StateNames
  BY <1>1 DEF Written
<1>4. key \in Logged
  <2>1. DOMAIN summary = Logged \cup {Field("result")}
    BY <1>0, <1>2 DEF With
  <2> QED
    BY <2>1, NamesApart
<1>5. summary[key] = Written(few, "lower")[key]
  BY <1>0, <1>2, <1>4 DEF With
<1>6. summary[key] # Written(all, "upper")[key]
  BY <1>0
<1>7. PICK value : value = few[key] /\ value = all[key]
  BY <1>0, <1>4, WrittenAlike
<1>8. /\ Written(few, "lower")[key]
           = IF key \in Registers \cup {Field("pc")} THEN Hex(value, "lower") ELSE <<value, "none">>
      /\ Written(all, "upper")[key]
           = IF key \in Registers \cup {Field("pc")} THEN Hex(value, "upper") ELSE <<value, "none">>
  BY <1>1, <1>4, <1>7, Zenon DEF Written
<1>9. /\ summary[key] = Hex(value, "lower")
      /\ Hex(value, "lower") # Hex(value, "upper")
  BY <1>5, <1>6, <1>8, Zenon
<1>10. \E digit \in Digits(value) : digit > 9
  BY <1>9, Zenon DEF Hex
<1>11. Hex(value, "lower") = <<value, "lower">>
  BY <1>10, Zenon DEF Hex
<1>12. <<value, "lower">>[2] = "lower"
  OBVIOUS
<1> QED
  BY <1>9, <1>11, <1>12, Zenon

LEMMA CoreTbInvImplies == CoreTbInv => RowsOfReference
<1> SUFFICES ASSUME CoreTbInv PROVE RowsOfReference
  OBVIOUS
<1>1. PICK H, L : Beside(H, L)
  BY DEF CoreTbInv
<1>2. /\ trace \in Seq(Rows) /\ Len(trace) = steps /\ steps \in Nat
      /\ Sees(L) /\ Visible = L[steps]
  BY <1>1, RunStates DEF Beside
<1>3. RowsAgree
  <2>1. CASE refOutcome = "running"
    <3>1. tb_trace = <<>>
      BY <1>1, <2>1 DEF Beside, NotStarted
    <3> QED
      BY <3>1 DEF RowsAgree
  <2>2. CASE \E k : Following(H, L, k)
    <3>1. PICK k : Following(H, L, k)
      BY <2>2
    <3>2. /\ k \in 0 .. steps /\ Len(tb_trace) = Len(L[k])
          /\ \A i \in 1 .. Len(L[k]) : Agrees(tb_trace[i], L[k][i])
      BY <3>1 DEF Following, LoggedSoFar
    <3>3. Starts(L[k], L[steps])
      BY <1>2, <3>2, SeenStarts
    <3> QED
      BY <1>2, <3>2, <3>3 DEF RowsAgree, Starts
  <2>3. CASE Overtaken(L[steps])
    <3>1. L[steps] \in Seq(Rows)
      BY <1>2, SeenRows
    <3>2. /\ Len(tb_trace) >= Len(L[steps])
          /\ \A i \in 1 .. Len(L[steps]) : Agrees(tb_trace[i], L[steps][i])
      BY <2>3 DEF Overtaken
    <3>3. \A i \in 1 .. Len(tb_trace) : i <= Len(L[steps]) => i \in 1 .. Len(L[steps])
      BY <3>1
    <3> QED
      BY <1>2, <3>2, <3>3 DEF RowsAgree
  <2> QED
    BY <1>1, <2>1, <2>2, <2>3 DEF Beside
<1>4. ASSUME tb_summary # <<>>, tb_summary[Field("result")] = "PASS"
      PROVE  /\ refOutcome = "halted" => Len(tb_trace) = Len(Visible)
             /\ ReportsNoValue
  <2>1. refOutcome = "halted" => Len(tb_trace) = Len(Visible)
    BY <1>4 DEF CoreTbInv, Passed
  <2>2. ReportsNoValue
    <3> SUFFICES ASSUME report # <<>>, NEW key \in report.mismatch_fields,
                        key \in DOMAIN tb_summary
                 PROVE  tb_summary[key][2] = "lower"
      BY DEF ReportsNoValue
    <3>1. /\ files # <<>>
          /\ key \in Comparison!Mismatches(tb_summary, ReferenceSummary)
      BY DEF CoreTbInv, Reported
    <3>2. /\ refOutcome = "halted" /\ files.summary.pc = refPc
          /\ files.summary.regs = refRegs /\ files.summary.flags = refFlags
      BY <1>1, <3>1 DEF Beside, RunInv, FilesWritten
    <3>3. tb_summary = With(Written(Named(Logged, refPc, refRegs, refFlags), "lower"),
                            Field("result"), "PASS")
      BY <1>4, <3>2 DEF CoreTbInv, Passed
    <3>4. ReferenceSummary = Written(Named(Registers \cup StateNames, refPc, refRegs, refFlags),
                                     "upper")
      BY <3>2, Zenon DEF ReferenceSummary
    <3>5. LettersApart(tb_summary, ReferenceSummary)
      BY <3>3, <3>4, ReportsLetters, Zenon
    <3>6. /\ key \in Registers \cup StateNames
          /\ tb_summary[key] # ReferenceSummary[key]
      <4>1. DOMAIN ReferenceSummary = Registers \cup StateNames
        BY <3>4, NamedValues DEF Written
      <4> QED
        BY <3>1, <4>1 DEF Comparison!Mismatches, Comparison!Get
    <3> QED
      BY <3>5, <3>6, Zenon DEF LettersApart
  <2> QED
    BY <2>1, <2>2
<1> QED
  BY <1>3, <1>4 DEF RowsOfReference

(***************************************************************************)
(* For every program, every memory depth and every limit, cpu_core_tb logs *)
(* what the reference model did, in its order, with nothing left out but   *)
(* the calls, and goes exactly as far as a reference that halts; what      *)
(* compare_results.py then reports of a simulation that passed are no      *)
(* values but names and letters.                                           *)
(***************************************************************************)
THEOREM RowsCorrect == CoreTbSpec => []RowsOfReference
<1>1. CoreTbInit => CoreTbInv
  BY CoreTbStarts
<1>2. CoreTbInv /\ [CoreTbNext]_coreTbVars => CoreTbInv'
  BY RunReferenceKeeps, BenchCycleKeeps, CompareKeeps DEF CoreTbNext
<1>3. CoreTbInv => RowsOfReference
  BY CoreTbInvImplies
<1> QED
  BY <1>1, <1>2, <1>3, PTL DEF CoreTbSpec
=============================================================================
