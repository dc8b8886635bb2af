------------------------------ MODULE Debugger ------------------------------
(***************************************************************************)
(* tb/tb_top.sv: the interactive debugger.  A command of the prompt runs   *)
(* the clock until it has a reason to stop; between commands no simulated  *)
(* time passes.  A cycle is two actions, because the stage an instruction  *)
(* retires from is sampled at the falling edge and used after the rising   *)
(* one.                                                                    *)
(***************************************************************************)
EXTENDS CpuCore, BenchCounters

CONSTANTS
  HexFiles,     \* the programs it is given to load
  max_cycles,   \* 100000
  CountCap,     \* bound: the counters saturate here
  MaxStep,      \* bound on the operand of the two step commands
  Addresses     \* bound: where breakpoints are set

ASSUME HexFilesAssumption == HexFiles \subseteq Programs
ASSUME CountCapAssumption ==
  max_cycles \in Nat /\ CountCap \in Nat /\ max_cycles < CountCap

ASSUME MaxStepAssumption == MaxStep \in Nat

VARIABLES
  clk,
  prev_stage,
  breakpoints,          \* the set of addresses whose entry is 1
  instruction_count,
  halted,
  last_stop_reason,
  command               \* what runs, and how often it has to go on

counters == <<cycle_count, instruction_count, halt_repeat_count, halted>>
debuggerVars ==
  <<vars, clk, prev_stage, breakpoints, counters, last_stop_reason, command>>

Idle == [kind |-> "none", left |-> 0]

(***************************************************************************)
(* do_reset_sequence: reset is raised at a rising edge, which the stage    *)
(* machine may or may not see already; it returns at the falling edge.     *)
(***************************************************************************)
do_reset_sequence(stage, ir, f, p, r, a, ck, prev, cyc, ins, rep, halt, reason) ==
  /\ stage \in {"RESET_INIT", "FETCH_ADDRESS"}
  /\ Cleared("RESET_INIT", ir, f, p, r, a)
  /\ ck = 0
  /\ prev = stage
  /\ cyc = 0
  /\ ins = 0
  /\ rep = 0
  /\ halt = FALSE
  /\ reason = "NONE"

(* sv_init *)
DebuggerInit ==
  /\ mem \in HexFiles
  /\ do_reset_sequence(execution_stage, instruction, flags, pc, regs, address_bus, clk, prev_stage,
       cycle_count, instruction_count, halt_repeat_count, halted, last_stop_reason)
  /\ breakpoints = {}
  /\ command = Idle

ResetSequence ==
  do_reset_sequence(execution_stage', instruction', flags', pc', regs', address_bus', clk', prev_stage',
    cycle_count', instruction_count', halt_repeat_count', halted', last_stop_reason')

sv_reset ==
  /\ command = Idle
  /\ ResetSequence
  /\ UNCHANGED <<mem, breakpoints, command>>

sv_load_hex ==
  /\ command = Idle
  /\ mem' \in HexFiles
  /\ ResetSequence
  /\ UNCHANGED <<breakpoints, command>>

sv_step_cycles(n) ==
  /\ command = Idle
  /\ IF n <= 0
     THEN last_stop_reason' = "STEP" /\ UNCHANGED command
     ELSE last_stop_reason' = "NONE" /\ command' = [kind |-> "cycles", left |-> n]
  /\ UNCHANGED <<vars, clk, prev_stage, breakpoints, counters>>

sv_step_instructions(n) ==
  /\ command = Idle
  /\ last_stop_reason' = "NONE"
  /\ command' = [kind |-> "instructions", left |-> IF n <= 0 THEN 1 ELSE n]
  /\ UNCHANGED <<vars, clk, prev_stage, breakpoints, counters>>

(* sv_run and sv_continue are the same task. *)
run_until_stop ==
  /\ command = Idle
  /\ last_stop_reason' = "NONE"
  /\ command' = [kind |-> "run", left |-> 1]
  /\ UNCHANGED <<vars, clk, prev_stage, breakpoints, counters>>

sv_add_breakpoint(a) ==
  /\ command = Idle
  /\ breakpoints' = breakpoints \cup {a}
  /\ UNCHANGED <<vars, clk, prev_stage, counters, last_stop_reason, command>>

sv_clear_breakpoints ==
  /\ command = Idle
  /\ breakpoints' = {}
  /\ UNCHANGED <<vars, clk, prev_stage, counters, last_stop_reason, command>>

(* The prompt may return after it; quit_requested only tells that it did.  *)
sv_quit ==
  /\ command = Idle
  /\ last_stop_reason' = "QUIT"
  /\ UNCHANGED <<vars, clk, prev_stage, breakpoints, counters, command>>

(* The falling edge. *)
SampleStage ==
  /\ command # Idle
  /\ clk = 1
  /\ clk' = 0
  /\ prev_stage' = execution_stage
  /\ UNCHANGED <<vars, breakpoints, counters, last_stop_reason, command>>

(* The older version, without the last stage of a call. *)
instruction_retired_without_calls == prev_stage \in {"EXECUTE_SINGLE", "EXECUTE_DOUBLE"}

instruction_retired == prev_stage \in {"EXECUTE_SINGLE", "EXECUTE_DOUBLE", "LOAD_CALL_TARGET"}

(* As if the breakpoint were looked up before the edge. *)
breakpoint_hit_before == pc \in breakpoints

breakpoint_hit == pc' \in breakpoints

Saturated(n) == IF n > CountCap THEN CountCap ELSE n

(* As if every unconditional branch were the halt loop. *)
HaltRepeatByOpcode ==
  IF ~instruction_retired THEN halt_repeat_count
  ELSE IF Opcode(instruction') = JR THEN Saturated(halt_repeat_count + 1) ELSE 0

HaltRepeat ==
  IF ~instruction_retired THEN halt_repeat_count
  ELSE IF instruction' = \h40FF THEN Saturated(halt_repeat_count + 1) ELSE 0

(* As if the limit were compared for equality. *)
timed_out_exactly == cycle_count' = max_cycles

timed_out == cycle_count' >= max_cycles

stop_reason ==
  IF instruction_retired /\ HaltRepeat >= HALT_REPEAT_THRESHOLD THEN "HALTED"
  ELSE IF breakpoint_hit THEN "BREAKPOINT"
  ELSE IF timed_out THEN "TIMEOUT"
  ELSE "NONE"

(* What is left of the command after this cycle. *)
Left ==
  CASE command.kind = "cycles"       -> command.left - 1
    [] command.kind = "instructions" -> command.left - (IF instruction_retired THEN 1 ELSE 0)
    [] command.kind = "run"          -> command.left

(* execute_one_cycle, and the test of the loop around it. *)
execute_one_cycle ==
  /\ command # Idle
  /\ clk = 0
  /\ clk' = 1
  /\ Clock
  /\ cycle_count' = Saturated(cycle_count + 1)
  /\ instruction_count' =
       IF instruction_retired THEN Saturated(instruction_count + 1) ELSE instruction_count
  /\ halt_repeat_count' = HaltRepeat
  /\ halted' = (halted \/ stop_reason = "HALTED")
  /\ last_stop_reason' =
       IF stop_reason # "NONE" THEN stop_reason
       ELSE IF Left = 0 THEN "STEP" ELSE last_stop_reason
  /\ command' =
       IF stop_reason # "NONE" \/ Left = 0 THEN Idle ELSE [command EXCEPT !.left = Left]
  /\ UNCHANGED <<prev_stage, breakpoints>>

Prompt ==
  \/ sv_reset
  \/ sv_load_hex
  \/ \E n \in 0 .. MaxStep : sv_step_cycles(n)
  \/ \E n \in 0 .. MaxStep : sv_step_instructions(n)
  \/ run_until_stop
  \/ \E a \in Addresses : sv_add_breakpoint(a)
  \/ sv_clear_breakpoints
  \/ sv_quit

ClockRuns == SampleStage \/ execute_one_cycle

DebuggerNext == Prompt \/ ClockRuns

(* The clock generator toggles as long as the simulation advances. *)
DebuggerSpec ==
  DebuggerInit /\ [][DebuggerNext]_debuggerVars /\ WF_debuggerVars(ClockRuns)

-----------------------------------------------------------------------------
(***************************************************************************)
(* The debugger counts the instructions the processor has executed: it     *)
(* sees a retirement in exactly the cycles after which the next fetch      *)
(* begins, whatever was sampled when, and whatever the command before was. *)
(* So "si n" that is not stopped early stops n instructions further.       *)
(***************************************************************************)
StepsWholeInstructions ==
  [][execute_one_cycle =>
       (instruction_retired <=> execution_stage' = "FETCH_ADDRESS" /\ execution_stage # "RESET_INIT")
    ]_debuggerVars

(***************************************************************************)
(* A program reported as halted has come to rest: whatever is stepped or   *)
(* run afterwards, registers, flags and memory stay until the next reset.  *)
(***************************************************************************)
HaltedIsFinal ==
  [][halted /\ halted' => UNCHANGED <<regs, flags, mem>>]_debuggerVars

(***************************************************************************)
(* No command runs over a breakpoint: when the instruction at its address  *)
(* becomes the next one, the command ends before any of it is executed.    *)
(***************************************************************************)
BreakpointNeverPassed ==
  [][execute_one_cycle /\ execution_stage' = "FETCH_ADDRESS" /\ pc' \in breakpoints =>
       command' = Idle]_debuggerVars

(***************************************************************************)
(* Every command returns to the prompt, also when the cycle limit is       *)
(* already behind it.                                                      *)
(***************************************************************************)
CommandsReturn == command # Idle ~> command = Idle

(***************************************************************************)
(* tb_top.sv:97: "si" stops on a retirement boundary.  (A timeout is the   *)
(* exception it names itself.)                                             *)
(***************************************************************************)
SiStopsOnBoundary ==
  [][command.kind = "instructions" /\ command' = Idle /\ last_stop_reason' # "TIMEOUT" =>
       execution_stage' = "FETCH_ADDRESS"]_debuggerVars
=============================================================================
