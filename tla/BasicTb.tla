------------------------------ MODULE BasicTb ------------------------------
(***************************************************************************)
(* tb/basic_cpu_tb.sv: runs a program for a number of cycles or of         *)
(* instructions.  The stage an instruction retires from is sampled at the  *)
(* falling edge, where it is the stage before the rising edge; reset is    *)
(* raised at a rising edge the stage machine may or may not see already.   *)
(***************************************************************************)
EXTENDS CpuCore

CONSTANTS
  StepTargets,   \* bound: the values of +steps
  max_cycles     \* 10000

VARIABLES
  step_mode, step_target,           \* the arguments of the simulation
  cycle_count, instruction_count,
  retired,      \* instructions the processor has finished (not in the bench)
  stopped       \* "no"; "cycles", "instructions", "timeout"

benchVars == <<step_mode, step_target, cycle_count, instruction_count, retired, stopped>>
basicVars == <<vars, benchVars>>

BasicInit ==
  /\ execution_stage \in {"RESET_INIT", "FETCH_ADDRESS"}
  /\ Cleared("RESET_INIT", instruction, flags, pc, regs, address_bus)
  /\ mem \in Programs
  /\ step_mode \in {"cycle", "inst"}
  /\ step_target \in StepTargets
  /\ cycle_count = 0
  /\ instruction_count = 0
  /\ retired = 0
  /\ stopped = "no"

(* Bound: no counter goes beyond max_cycles. *)
Capped(n) == IF n > max_cycles THEN max_cycles ELSE n

(* As if the stage after the edge were looked at. *)
instruction_retired_late == execution_stage' \in {"EXECUTE_SINGLE", "EXECUTE_DOUBLE"}

instruction_retired == execution_stage \in {"EXECUTE_SINGLE", "EXECUTE_DOUBLE"}

next_instruction_count ==
  IF instruction_retired THEN Capped(instruction_count + 1) ELSE instruction_count

TargetReached ==
  \/ step_mode = "cycle" /\ cycle_count' >= step_target
  \/ step_mode = "inst" /\ instruction_retired /\ next_instruction_count >= step_target

(* As if the limit were only looked at with an instruction. *)
LimitReachedAtRetirement == instruction_retired /\ cycle_count' >= max_cycles

LimitReached == cycle_count' >= max_cycles

(* finish_simulation only asks for the end: the limit is still looked at.  *)
StopReason ==
  IF LimitReached THEN "timeout"
  ELSE IF ~TargetReached THEN "no"
  ELSE IF step_mode = "cycle" THEN "cycles" ELSE "instructions"

OneCycle ==
  /\ stopped = "no"
  /\ Clock
  /\ cycle_count' = Capped(cycle_count + 1)
  /\ instruction_count' = next_instruction_count
  /\ retired' = IF execution_stage \in RetireStages THEN Capped(retired + 1) ELSE retired
  /\ stopped' = StopReason
  /\ UNCHANGED <<step_mode, step_target>>

(* The clock generator. *)
BasicSpec == BasicInit /\ [][OneCycle]_basicVars /\ WF_basicVars(OneCycle)

-----------------------------------------------------------------------------
(***************************************************************************)
(* A simulation that stops for its instructions stands in front of the     *)
(* next one, and the processor has finished at least as many as were asked *)
(* for: what is dumped then is never the middle of an instruction.         *)
(***************************************************************************)
StopsBetweenInstructions ==
  stopped = "instructions" =>
    /\ execution_stage = "FETCH_ADDRESS"
    /\ retired >= step_target

(***************************************************************************)
(* Every simulation ends, also in a program of calls only, in which the    *)
(* bench never sees an instruction retire.                                 *)
(***************************************************************************)
SimulationEnds == <>(stopped # "no")
=============================================================================
