--------------------------- MODULE CpuRefinesIsa ---------------------------
(***************************************************************************)
(* The processor implements the instruction set.  Between retirements the  *)
(* program counter has already moved on, so the instruction set's program  *)
(* counter is read off the stage; the registers, the flags and the memory  *)
(* are those of the processor.  An instruction takes effect at the edge    *)
(* that retires it, except CALLA, which takes effect when it writes R15,   *)
(* one edge before it loads the call target.                               *)
(***************************************************************************)
EXTENDS CpuCore

IsaPc ==
  CASE execution_stage \in {"RESET_INIT", "FETCH_ADDRESS"} -> pc
    [] execution_stage \in {"FETCH_DECODE", "EXECUTE_SINGLE",
                            "FETCH_SECOND_WORD"} -> Minus(pc, 1)
    [] execution_stage \in {"EXECUTE_DOUBLE",
                            "SAVE_RETURN_ADDRESS"} -> Minus(pc, Fetched)
    [] execution_stage = "LOAD_CALL_TARGET" -> Plus(pc, SignExtend(offset))

Architecture == INSTANCE Isa WITH pc <- IsaPc

(* Every behaviour of the processor is one of the instruction set: each    *)
(* instruction reads the registers, flags and memory left by the previous  *)
(* one, even when it overwrites code, falls through the top of the address *)
(* space or is cut short by a reset, and does exactly what step() does.    *)
ImplementsIsa == Architecture!IsaSpec
=============================================================================
