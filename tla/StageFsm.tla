----------------------------- MODULE StageFsm ------------------------------
(***************************************************************************)
(* execution_stage_fsm: the sequence of stages an instruction goes         *)
(* through.  The machine looks at "inst", the word the data bus shows in   *)
(* this cycle, and not at the instruction register.                        *)
(***************************************************************************)
EXTENDS Encoding

Stages == {"RESET_INIT", "FETCH_ADDRESS", "FETCH_DECODE", "EXECUTE_SINGLE",
           "FETCH_SECOND_WORD", "EXECUTE_DOUBLE", "SAVE_RETURN_ADDRESS",
           "LOAD_CALL_TARGET"}

(* The stages whose end is the retirement of an instruction. *)
RetireStages == {"EXECUTE_SINGLE", "EXECUTE_DOUBLE", "LOAD_CALL_TARGET"}

is_complex_instruction(inst) == Opcode(inst) = CALLA

(* The decision of an older version: bit 15 of the word. *)
needs_second_word_bit15(inst) == Sign(inst) = 1

needs_second_word(inst) ==
    Opcode(inst) \in {JMPA, MVRD, LDRR, STRR, ADDI, ANDI, CALLA}

NextStage(stage, inst) ==
    CASE stage = "RESET_INIT"     -> "FETCH_ADDRESS"
      [] stage = "FETCH_ADDRESS"  -> "FETCH_DECODE"
      [] stage = "FETCH_DECODE"   -> IF needs_second_word(inst)
                                     THEN "FETCH_SECOND_WORD"
                                     ELSE "EXECUTE_SINGLE"
      [] stage = "FETCH_SECOND_WORD" -> IF is_complex_instruction(inst)
                                        THEN "SAVE_RETURN_ADDRESS"
                                        ELSE "EXECUTE_DOUBLE"
      [] stage = "SAVE_RETURN_ADDRESS" -> "LOAD_CALL_TARGET"
      [] stage \in RetireStages   -> "FETCH_ADDRESS"
=============================================================================
