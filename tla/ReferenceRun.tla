---------------------------- MODULE ReferenceRun -----------------------------
(***************************************************************************)
(* scripts/run_reference.sh beside a processor: the reference model runs   *)
(* on the program in its own registers and memory, before a bench uses the *)
(* files it wrote.                                                         *)
(***************************************************************************)
EXTENDS CpuRefinesIsa, Sequences

CONSTANTS max_steps, halt_repeat_threshold   \* 2048 and 3

ASSUME StepLimitAssumption == max_steps \in Nat
ASSUME ThresholdAssumption == halt_repeat_threshold \in Nat \ {0}

VARIABLES
  refPc, refRegs, refFlags, refMem,
  steps, self_loop_retire_count, refOutcome, trace, events, files

reference == <<refPc, refRegs, refFlags, refMem, steps, self_loop_retire_count,
               refOutcome, trace, events, files>>

Reference == INSTANCE ReferenceModel WITH pc <- refPc, regs <- refRegs, flags <- refFlags,
                                          mem <- refMem, outcome <- refOutcome
=============================================================================
