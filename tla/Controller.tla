---------------------------- MODULE Controller -----------------------------
(***************************************************************************)
(* controller: combinational.  Its inputs are the current stage, the       *)
(* instruction register and the architectural flags; every output signal   *)
(* is a definition here, under its name in the source.  The source sets    *)
(* safe defaults and overrides them by stage and opcode; here each signal  *)
(* lists the stages and opcodes that override it, and the default last.    *)
(***************************************************************************)
EXTENDS Encoding

VARIABLES
  execution_stage,   \* current stage, from execution_stage_fsm
  instruction,       \* the instruction register
  flags              \* architectural flags: a record of c, z, v, s

opcode == Opcode(instruction)

Single(ops) == execution_stage = "EXECUTE_SINGLE" /\ opcode \in ops
Second(ops) == execution_stage = "FETCH_SECOND_WORD" /\ opcode \in ops
Double(ops) == execution_stage = "EXECUTE_DOUBLE" /\ opcode \in ops

(* Register selectors: fields of the instruction where it has operands. *)
SelectsOperands ==
  \/ Single(RegisterOps)
  \/ execution_stage \in {"FETCH_SECOND_WORD", "EXECUTE_DOUBLE"}

dest_reg ==
  CASE SelectsOperands                           -> DestReg(instruction)
    [] execution_stage = "SAVE_RETURN_ADDRESS"   -> LinkRegister
    [] OTHER                                     -> 0

sour_reg ==
  CASE SelectsOperands -> SourReg(instruction)
    [] Single({RET})   -> LinkRegister
    [] OTHER           -> 0

offset ==
  IF Single(Branches \cup {CLC, STC}) \/ execution_stage = "LOAD_CALL_TARGET"
  THEN Imm8(instruction)
  ELSE 0

(* How the flag register changes at the end of the cycle. *)
sst ==
  CASE Single(RegisterOps \ {MVRR}) \/ Double({ADDI, ANDI}) -> "WRITE"
    [] Single({CLC})                                        -> "CLR_C"
    [] Single({STC})                                        -> "SET_C"
    [] OTHER                                                -> "HOLD"

(* Cycles that put PC on the address path and increment it. *)
AdvancesPc == execution_stage = "FETCH_ADDRESS" \/ Second(Extended)

carry_in_select ==
  CASE AdvancesPc \/ Single({DEC, INC}) -> "ONE"
    [] Single({ADC, SBB})               -> "FLAG_C"
    [] OTHER                            -> "ZERO"

address_write_select ==
  CASE AdvancesPc           -> "FROM_PC"
    [] Second({LDRR, STRR}) -> "FROM_ALU"
    [] OTHER                -> "HOLD"

(* As if the instruction register loaded one cycle early. *)
instruction_load_early == execution_stage = "FETCH_ADDRESS"

instruction_load_enable == execution_stage = "FETCH_DECODE"

alu_func ==
  CASE Single({SUB, CMP, DEC, SBB})           -> "SUB"
    [] Single({AND, TEST}) \/ Double({ANDI})  -> "AND"
    [] Single({OR})                           -> "OR"
    [] Single({XOR})                          -> "XOR"
    [] Single({SHL})                          -> "SHL"
    [] Single({SHR})                          -> "SHR"
    [] Single({NOT})                          -> "NOT"
    [] Single({ASR})                          -> "ASR"
    [] OTHER                                  -> "ADD"

alu_in_sel ==
  CASE Single({MVRR, RET}) \/ Second({LDRR}) \/ Double({STRR})           -> "SR"
    [] Single({DEC, INC, SHL, SHR, NOT, ASR}) \/ Second({STRR})          -> "DR"
    [] Single(Branches) \/ execution_stage = "LOAD_CALL_TARGET"          -> "BR"
    [] AdvancesPc \/ execution_stage = "SAVE_RETURN_ADDRESS"             -> "PC"
    [] Double({LDRR, MVRD, JMPA})                                        -> "MEM"
    [] Double({ADDI, ANDI})                                              -> "DR_MEM"
    [] OTHER                                                             -> "REGS"

BranchTaken ==
  \/ opcode = JR
  \/ opcode = JRC  /\ flags.c = 1
  \/ opcode = JRNC /\ flags.c = 0
  \/ opcode = JRZ  /\ flags.z = 1
  \/ opcode = JRNZ /\ flags.z = 0
  \/ opcode = JRS  /\ flags.s = 1
  \/ opcode = JRNS /\ flags.s = 0

(* Where alu_out is written back: bits 0 and 1 of writeback_select. *)
reg_write_enable ==
  \/ Single(RegisterOps \ {CMP, TEST})
  \/ Double({LDRR, MVRD, ADDI, ANDI})
  \/ execution_stage = "SAVE_RETURN_ADDRESS"

pc_write_enable ==
  \/ AdvancesPc
  \/ Single(Branches) /\ BranchTaken
  \/ Single({RET})
  \/ Double({JMPA})
  \/ execution_stage = "LOAD_CALL_TARGET"

(* As if a store already wrote in the cycle that prepares its address. *)
wr_early == IF Second({STRR}) \/ Double({STRR}) THEN 0 ELSE 1

(* Memory direction: 1 reads, 0 writes. *)
wr == IF Double({STRR}) THEN 0 ELSE 1
=============================================================================
