---------------------------- MODULE BenchCounters ----------------------------
(***************************************************************************)
(* What tb/tb_top.sv and tb/cpu_core_tb.sv both count: cycles, and the     *)
(* retirements of the branch to itself in a row.                           *)
(***************************************************************************)
VARIABLES cycle_count, halt_repeat_count

HALT_REPEAT_THRESHOLD == 3
=============================================================================
