------------------------------ MODULE CpuProofs ----------------------------
(***************************************************************************)
(* The processor: its invariants, and that it implements the instruction   *)
(* set, for every memory depth and every program.                          *)
(*                                                                         *)
(* The type invariant stands on its own.  The other three hold each other  *)
(* up: the path chosen from the data bus agrees with the instruction       *)
(* register because the register was loaded from the bus; the operands are *)
(* prepared because the path is right; the register still equals its word  *)
(* in memory because only the last cycle of a store writes.  IInv is their *)
(* conjunction and is inductive.                                           *)
(*                                                                         *)
(* For the refinement each clock edge is mapped to the instruction it      *)
(* retires or to a stutter; IInv supplies what the mapping needs to know   *)
(* of the stage an instruction is in.                                      *)
(***************************************************************************)
EXTENDS CpuPnr, TLAPS

-----------------------------------------------------------------------------
(* Words, their bits and the fields of an instruction.                     *)
(* Wrapping addition and subtraction stay in the width of a word.          *)
LEMMA PlusMinusWord ==
  ASSUME NEW x \in Word, NEW y \in Word
  PROVE  Plus(x, y) \in Word /\ Minus(x, y) \in Word
  BY DEF Plus, Minus, Word, WordSize

(* Stepping back from an incremented program counter undoes the increment. *)
LEMMA StepBack ==
  ASSUME NEW x \in Word
  PROVE  /\ Minus(Plus(x, 1), 1) = x
         /\ Minus(Plus(x, 1), 2) = Minus(x, 1)
         /\ Minus(Plus(x, 2), 2) = x
         /\ Plus(Plus(x, 1), 1) = Plus(x, 2)
  BY DEF Plus, Minus, Word, WordSize

(* Sixteen bits make a word.                                               *)
LEMMA PackWord ==
  ASSUME NEW bit,
         \A i \in 0 .. 15 : bit[i] \in Int /\ 0 <= bit[i] /\ bit[i] <= 1
  PROVE  Pack(bit) \in Word
<1> DEFINE ok(i) == bit[i] \in Int /\ 0 <= bit[i] /\ bit[i] <= 1
<1>1. ok(0) /\ ok(1) /\ ok(2) /\ ok(3) /\ ok(4) /\ ok(5) /\ ok(6) /\ ok(7)
  OBVIOUS
<1>2. ok(8) /\ ok(9) /\ ok(10) /\ ok(11) /\ ok(12) /\ ok(13) /\ ok(14) /\ ok(15)
  OBVIOUS
<1>3. LowByte(bit) \in Int /\ 0 <= LowByte(bit) /\ LowByte(bit) <= 255
  BY <1>1 DEF LowByte
<1>4. HighByte(bit) \in Int /\ 0 <= HighByte(bit) /\ HighByte(bit) <= 255
  BY <1>2 DEF HighByte
<1> HIDE DEF ok
<1> QED
  BY <1>3, <1>4 DEF Pack, Word, WordSize

(* The bitwise operations yield words, whatever their operands.            *)
LEMMA BitwiseWord ==
  ASSUME NEW x, NEW y
  PROVE  BitAnd(x, y) \in Word /\ BitOr(x, y) \in Word /\ BitXor(x, y) \in Word
<1> DEFINE conj == [i \in 0 .. 15 |-> IF Bit(x, i) = 1 /\ Bit(y, i) = 1 THEN 1 ELSE 0]
           disj == [i \in 0 .. 15 |-> IF Bit(x, i) = 1 \/ Bit(y, i) = 1 THEN 1 ELSE 0]
           diff == [i \in 0 .. 15 |-> IF Bit(x, i) = Bit(y, i) THEN 0 ELSE 1]
<1>1. \A i \in 0 .. 15 : conj[i] \in Int /\ 0 <= conj[i] /\ conj[i] <= 1
  OBVIOUS
<1>2. \A i \in 0 .. 15 : disj[i] \in Int /\ 0 <= disj[i] /\ disj[i] <= 1
  OBVIOUS
<1>3. \A i \in 0 .. 15 : diff[i] \in Int /\ 0 <= diff[i] /\ diff[i] <= 1
  OBVIOUS
<1>4. BitAnd(x, y) = Pack(conj) /\ BitOr(x, y) = Pack(disj) /\ BitXor(x, y) = Pack(diff)
  BY DEF BitAnd, BitOr, BitXor
<1> HIDE DEF conj, disj, diff
<1>5. Pack(conj) \in Word
  BY <1>1, PackWord
<1>6. Pack(disj) \in Word
  BY <1>2, PackWord
<1>7. Pack(diff) \in Word
  BY <1>3, PackWord
<1> QED
  BY <1>4, <1>5, <1>6, <1>7

(* A complement and a sign-extended displacement are words.                *)
LEMMA NotWord ==
  ASSUME NEW x \in Word
  PROVE  BitNot(x) \in Word
  BY DEF BitNot, Word, WordSize

LEMMA SignExtendWord ==
  ASSUME NEW x \in Nat, x < 256
  PROVE  SignExtend(x) \in Word
  BY DEF SignExtend, Word, WordSize

(* The fields of a word have the widths of the encoding.                   *)
LEMMA FieldRanges ==
  ASSUME NEW w \in Word
  PROVE  /\ DestReg(w) \in Reg
         /\ SourReg(w) \in Reg
         /\ Imm8(w) \in Nat /\ Imm8(w) < 256
         /\ Opcode(w) \in Nat /\ Opcode(w) < 256
  BY DEF DestReg, SourReg, Imm8, Opcode, Reg, Word, WordSize

-----------------------------------------------------------------------------
(* The widths of the ALU's outputs, for all inputs.                        *)
(* The operand multiplexers pass words on.                                 *)
LEMMA OperandWord ==
  ASSUME NEW sel, NEW data \in Word, NEW off \in Word, NEW s \in Word,
         NEW p \in Word, NEW d \in Word
  PROVE  OperandA(sel, data, off, s) \in Word /\ OperandB(sel, data, p, d) \in Word
<1>1. 0 \in Word
  BY DEF Word, WordSize
<1> QED
  BY <1>1 DEF OperandA, OperandB

(* The result is a word, whatever the function.                            *)
LEMMA AluOutWord ==
  ASSUME NEW f, NEW x \in Word, NEW y \in Word, NEW k \in {0, 1}
  PROVE  AluOut(f, x, y, k) \in Word
<1>1. AddResult(x, y, k) % WordSize \in Word
  BY DEF AddResult, Word, WordSize
<1>2. SubResult(x, y, k) % WordSize \in Word
  BY DEF SubResult, Word, WordSize
<1>3. (2 * y) % WordSize \in Word /\ y \div 2 \in Word /\ ShiftRightArith(y) \in Word
  BY DEF ShiftRightArith, Sign, Word, WordSize
<1>4. BitAnd(x, y) \in Word /\ BitOr(x, y) \in Word /\ BitXor(x, y) \in Word
  BY BitwiseWord
<1>5. BitNot(y) \in Word /\ 0 \in Word
  BY DEF BitNot, Word, WordSize
<1> QED
  BY <1>1, <1>2, <1>3, <1>4, <1>5 DEF AluOut

(* The carry is one bit.                                                   *)
LEMMA CarryBit ==
  ASSUME NEW f, NEW x \in Word, NEW y \in Word, NEW k \in {0, 1}
  PROVE  CarryOut(f, x, y, k) \in {0, 1}
<1>1. AddResult(x, y, k) \div WordSize \in {0, 1}
  BY DEF AddResult, Word, WordSize
<1>2. SubResult(x, y, k) \div WordSize \in {0, 1}
  BY DEF SubResult, Word, WordSize
<1>3. Sign(y) \in {0, 1} /\ y % 2 \in {0, 1}
  BY DEF Sign, Word
<1> QED
  BY <1>1, <1>2, <1>3 DEF CarryOut

(* The flags are four bits.                                                *)
LEMMA AluFlagsType ==
  ASSUME NEW f, NEW x \in Word, NEW y \in Word, NEW k \in {0, 1}
  PROVE  AluFlags(f, x, y, k) \in Flags
<1>1. CarryOut(f, x, y, k) \in {0, 1}
  BY CarryBit
<1>2. OverflowOut(f, x, y, k) \in {0, 1}
  BY DEF OverflowOut
<1>3. Sign(AluOut(f, x, y, k)) \in {0, 1}
  BY DEF Sign
<1> QED
  BY <1>1, <1>2, <1>3 DEF AluFlags, Flags

-----------------------------------------------------------------------------
IInv ==
  /\ TypeOK
  /\ InstructionInFlight
  /\ PathFollowsInstruction
  /\ OperandPrepared

-----------------------------------------------------------------------------
(* Every address selects a cell of the memory.                             *)
LEMMA CellRange ==
  ASSUME NEW address \in Word
  PROVE  Cell(address) \in 0 .. MemDepth - 1
  BY MemDepthAssumption DEF Cell, Word

(* The register selectors name registers.                                  *)
LEMMA SelectorRange ==
  ASSUME TypeOK
  PROVE  dest_reg \in Reg /\ sour_reg \in Reg
<1>1. DestReg(instruction) \in Reg /\ SourReg(instruction) \in Reg
  BY FieldRanges DEF TypeOK
<1>2. 0 \in Reg /\ LinkRegister \in Reg
  BY DEF Reg, LinkRegister
<1> QED
  BY <1>1, <1>2 DEF dest_reg, sour_reg

(* The displacement, extended with its sign, is a word.                    *)
LEMMA DisplacementWord ==
  ASSUME TypeOK
  PROVE  SignExtend(offset) \in Word
<1>1. Imm8(instruction) \in Nat /\ Imm8(instruction) < 256
  BY FieldRanges DEF TypeOK
<1>2. offset \in Nat /\ offset < 256
  BY <1>1 DEF offset
<1> QED
  BY <1>2, SignExtendWord

(* Every wire of the data path has its width.                              *)
LEMMA WiresTyped ==
  ASSUME TypeOK
  PROVE  /\ mem_data \in Word /\ sr \in Word /\ dr \in Word
         /\ alu_cin \in {0, 1}
         /\ operand_a \in Word /\ operand_b \in Word
         /\ alu_out \in Word /\ data_bus \in Word
         /\ NextFlags \in Flags /\ NextAddress \in Word
<1>1. mem_data \in Word
  BY CellRange DEF mem_data, TypeOK
<1>2. sr \in Word /\ dr \in Word
  BY SelectorRange DEF sr, dr, TypeOK
<1>3. flags.c \in {0, 1} /\ flags \in Flags
  BY DEF TypeOK, Flags
<1>4. alu_cin \in {0, 1}
  BY <1>3 DEF alu_cin, carry_in_select
<1>5. pc \in Word /\ address_bus \in Word
  BY DEF TypeOK
<1>6. operand_a \in Word /\ operand_b \in Word
  BY <1>1, <1>2, <1>5, DisplacementWord, OperandWord DEF operand_a, operand_b
<1>7. alu_out \in Word
  BY <1>4, <1>6, AluOutWord DEF alu_out
<1>8. AluFlags(alu_func, operand_a, operand_b, alu_cin) \in Flags
  BY <1>4, <1>6, AluFlagsType
<1>9. [flags EXCEPT !.c = 0] \in Flags /\ [flags EXCEPT !.c = 1] \in Flags
  BY <1>3 DEF Flags
<1>10. NextFlags \in Flags
  BY <1>3, <1>8, <1>9 DEF NextFlags, sst
<1>11. NextAddress \in Word
  BY <1>5, <1>7 DEF NextAddress, address_write_select
<1>12. data_bus \in Word
  BY <1>1, <1>7 DEF data_bus
<1> QED
  BY <1>1, <1>2, <1>4, <1>6, <1>7, <1>10, <1>11, <1>12

(* The stage machine stays in its eight stages.                            *)
LEMMA NextStageType ==
  ASSUME NEW stage \in Stages, NEW inst
  PROVE  NextStage(stage, inst) \in Stages
  BY DEF NextStage, Stages, RetireStages

(* A clock edge in any stage keeps the widths.                             *)
LEMMA EdgeKeepsTypes ==
  ASSUME TypeOK, NEW stage \in Stages, Edge(stage)
  PROVE  TypeOK'
<1>1. execution_stage' \in Stages
  BY NextStageType DEF Edge
<1>2. instruction' \in Word
  BY WiresTyped DEF Edge, NextInstruction, TypeOK
<1>3. flags' \in Flags
  BY WiresTyped DEF Edge
<1>4. pc' \in Word
  BY WiresTyped DEF Edge, NextPc, TypeOK
<1>5. regs' \in [Reg -> Word]
  BY WiresTyped, SelectorRange DEF Edge, NextRegs, TypeOK
<1>6. address_bus' \in Word
  BY WiresTyped DEF Edge
<1>7. mem' \in [0 .. MemDepth - 1 -> Word]
  BY WiresTyped, CellRange DEF Edge, NextMem, TypeOK
<1> QED
  BY <1>1, <1>2, <1>3, <1>4, <1>5, <1>6, <1>7 DEF TypeOK

(* Reset leaves values of the right widths, whatever it interrupts.        *)
LEMMA ResetKeepsTypes ==
  ASSUME TypeOK, Reset
  PROVE  TypeOK'
<1>1. 0 \in Word
  BY DEF Word, WordSize
<1>2. "RESET_INIT" \in Stages
  BY DEF Stages
<1>3. [c |-> 0, z |-> 0, v |-> 0, s |-> 0] \in Flags
  BY DEF Flags
<1>4. [i \in Reg |-> 0] \in [Reg -> Word]
  BY <1>1
<1> QED
  BY <1>1, <1>2, <1>3, <1>4 DEF Reset, Cleared, TypeOK

LEMMA TypeInit == Init => TypeOK
<1> SUFFICES ASSUME Init PROVE TypeOK
  OBVIOUS
<1>1. 0 \in Word
  BY DEF Word, WordSize
<1>2. "RESET_INIT" \in Stages
  BY DEF Stages
<1>3. [c |-> 0, z |-> 0, v |-> 0, s |-> 0] \in Flags
  BY DEF Flags
<1>4. [i \in Reg |-> 0] \in [Reg -> Word]
  BY <1>1
<1>5. mem \in [0 .. MemDepth - 1 -> Word]
  BY ProgramsAssumption DEF Init
<1> QED
  BY <1>1, <1>2, <1>3, <1>4, <1>5 DEF Init, Cleared, TypeOK

LEMMA TypeStep == TypeOK /\ [Next]_vars => TypeOK'
<1> SUFFICES ASSUME TypeOK, [Next]_vars PROVE TypeOK'
  OBVIOUS
<1> USE DEF Stages
<1>1. CASE ResetInit
  BY <1>1, EdgeKeepsTypes DEF ResetInit
<1>2. CASE FetchAddress
  BY <1>2, EdgeKeepsTypes DEF FetchAddress
<1>3. CASE FetchDecode
  BY <1>3, EdgeKeepsTypes DEF FetchDecode
<1>4. CASE ExecuteSingle
  BY <1>4, EdgeKeepsTypes DEF ExecuteSingle
<1>5. CASE FetchSecondWord
  BY <1>5, EdgeKeepsTypes DEF FetchSecondWord
<1>6. CASE ExecuteDouble
  BY <1>6, EdgeKeepsTypes DEF ExecuteDouble
<1>7. CASE SaveReturnAddress
  BY <1>7, EdgeKeepsTypes DEF SaveReturnAddress
<1>8. CASE LoadCallTarget
  BY <1>8, EdgeKeepsTypes DEF LoadCallTarget
<1>9. CASE Reset
  BY <1>9, ResetKeepsTypes
<1>10. CASE UNCHANGED vars
  BY <1>10 DEF vars, TypeOK
<1> QED
  BY <1>1, <1>2, <1>3, <1>4, <1>5, <1>6, <1>7, <1>8, <1>9, <1>10 DEF Next, Clock

(* Every register, flag and memory word keeps its width for ever.          *)
THEOREM TypeCorrect == Spec => []TypeOK
  BY TypeInit, TypeStep, PTL DEF Spec

-----------------------------------------------------------------------------
(* Edges from a stage to the next fetch, at most.                          *)
EdgesLeft ==
  CASE execution_stage = "FETCH_ADDRESS"       -> 5
    [] execution_stage = "FETCH_DECODE"        -> 4
    [] execution_stage = "FETCH_SECOND_WORD"   -> 3
    [] execution_stage = "SAVE_RETURN_ADDRESS" -> 2
    [] execution_stage \in RetireStages \cup {"RESET_INIT"} -> 1

FetchStep == Clock => execution_stage' = "FETCH_ADDRESS" \/ EdgesLeft' < EdgesLeft

(***************************************************************************)
(* No word of memory, defined or not, traps the stage machine: every edge  *)
(* comes nearer to the next fetch, which follows five edges after the last *)
(* one at the latest.                                                      *)
(***************************************************************************)
THEOREM FetchesAgain ==
  Spec => /\ [](EdgesLeft \in 1 .. 5)
          /\ [][Clock => execution_stage' = "FETCH_ADDRESS" \/ EdgesLeft' < EdgesLeft]_vars
<1>1. TypeOK => EdgesLeft \in 1 .. 5
  BY DEF TypeOK, EdgesLeft, Stages, RetireStages
<1>2. TypeOK /\ [Next]_vars => [FetchStep]_vars
  <2> SUFFICES ASSUME TypeOK, Clock, execution_stage' # "FETCH_ADDRESS"
               PROVE  EdgesLeft' < EdgesLeft
    BY DEF FetchStep
  <2>1. PICK stage \in Stages : Edge(stage)
    BY DEF Clock, ResetInit, FetchAddress, FetchDecode, ExecuteSingle,
       FetchSecondWord, ExecuteDouble, SaveReturnAddress, LoadCallTarget, Stages
  <2> QED
    BY <2>1 DEF Edge, NextStage, EdgesLeft, Stages, RetireStages
<1> QED
  BY <1>1, <1>2, TypeInit, TypeStep, PTL DEF Spec, FetchStep

-----------------------------------------------------------------------------
(* What the controller's signals make of a clock edge, stage by stage.     *)

(* Sums with a zero operand, as the address path forms them.               *)
LEMMA AddressSums ==
  ASSUME NEW x \in Word
  PROVE  /\ AluOut("ADD", 0, x, 1) = Plus(x, 1)
         /\ AluOut("ADD", 0, x, 0) = x
         /\ AluOut("ADD", x, 0, 0) = x
  BY DEF AluOut, AddResult, Plus, Word, WordSize

(* A cycle that advances PC puts the old value on the address path.        *)
LEMMA AdvanceEdge ==
  ASSUME TypeOK, AdvancesPc, NEW stage, Edge(stage)
  PROVE  pc' = Plus(pc, 1) /\ address_bus' = pc
<1> USE DEF AdvancesPc, Single, Second, Double
<1>1. /\ alu_func = "ADD"
      /\ alu_in_sel = "PC"
      /\ carry_in_select = "ONE"
      /\ address_write_select = "FROM_PC"
      /\ pc_write_enable
  BY DEF alu_func, alu_in_sel, carry_in_select, address_write_select,
         pc_write_enable, Extended, LDRR, STRR, JMPA, MVRD, ADDI, ANDI, CALLA
<1>2. operand_a = 0 /\ operand_b = pc /\ alu_cin = 1
  BY <1>1 DEF operand_a, operand_b, alu_cin, OperandA, OperandB
<1>3. alu_out = Plus(pc, 1)
  BY <1>1, <1>2, AddressSums DEF alu_out, TypeOK
<1> QED
  BY <1>1, <1>3 DEF Edge, NextPc, NextAddress

(* Outside the last cycle of a store, memory drives the bus and is kept.   *)
LEMMA ReadingEdge ==
  ASSUME ~ Double({STRR}), NEW stage, Edge(stage)
  PROVE  data_bus = mem_data /\ mem' = mem
  BY DEF wr, data_bus, Edge, NextMem

(* Only the last cycle of the fetch loads the instruction register.        *)
LEMMA InstructionHeld ==
  ASSUME execution_stage # "FETCH_DECODE", NEW stage, Edge(stage)
  PROVE  instruction' = instruction
  BY DEF instruction_load_enable, Edge, NextInstruction

(* Cycles that leave the program counter alone.                            *)
LEMMA PcHeld ==
  ASSUME \/ execution_stage \in {"FETCH_DECODE", "SAVE_RETURN_ADDRESS"}
         \/ execution_stage = "FETCH_SECOND_WORD" /\ opcode \in {LDRR, STRR},
         NEW stage, Edge(stage)
  PROVE  pc' = pc
  BY DEF pc_write_enable, AdvancesPc, Single, Second, Double, Edge, NextPc,
         Extended, LDRR, STRR, JMPA, MVRD, ADDI, ANDI, CALLA

(* LDRR and STRR send the register that names their operand to the address *)
(* register.                                                               *)
LEMMA IndirectWires ==
  ASSUME TypeOK, execution_stage = "FETCH_SECOND_WORD", opcode \in {LDRR, STRR}
  PROVE  /\ NextAddress = IF opcode = LDRR THEN regs[SourReg(instruction)]
                                           ELSE regs[DestReg(instruction)]
         /\ NextRegs = regs
<1> USE DEF AdvancesPc, Single, Second, Double, SelectsOperands,
            Extended, LDRR, STRR, JMPA, MVRD, ADDI, ANDI, CALLA
<1>1. /\ alu_func = "ADD"
      /\ alu_in_sel = IF opcode = LDRR THEN "SR" ELSE "DR"
      /\ carry_in_select = "ZERO"
      /\ address_write_select = "FROM_ALU"
      /\ ~ reg_write_enable
  BY DEF alu_func, alu_in_sel, carry_in_select, address_write_select, reg_write_enable
<1>2. dest_reg = DestReg(instruction) /\ sour_reg = SourReg(instruction)
  BY DEF dest_reg, sour_reg
<1>3. alu_cin = 0
  BY <1>1 DEF alu_cin
<1>4. sr \in Word /\ dr \in Word
  BY WiresTyped
<1>5. CASE opcode = LDRR
  <2>1. operand_a = sr /\ operand_b = 0
    BY <1>1, <1>5 DEF operand_a, operand_b, OperandA, OperandB
  <2>2. alu_out = sr
    BY <1>1, <1>3, <1>4, <2>1, AddressSums DEF alu_out
  <2> QED
    BY <1>1, <1>2, <1>5, <2>2 DEF NextAddress, NextRegs, sr
<1>6. CASE opcode = STRR
  <2>1. operand_a = 0 /\ operand_b = dr
    BY <1>1, <1>6 DEF operand_a, operand_b, OperandA, OperandB
  <2>2. alu_out = dr
    BY <1>1, <1>3, <1>4, <2>1, AddressSums DEF alu_out
  <2> QED
    BY <1>1, <1>2, <1>6, <2>2 DEF NextAddress, NextRegs, dr
<1> QED
  BY <1>5, <1>6

LEMMA IndirectEdge ==
  ASSUME TypeOK, execution_stage = "FETCH_SECOND_WORD", opcode \in {LDRR, STRR},
         NEW stage, Edge(stage)
  PROVE  /\ address_bus' = IF opcode = LDRR THEN regs[SourReg(instruction)]
                                            ELSE regs[DestReg(instruction)]
         /\ regs' = regs
  BY IndirectWires DEF Edge

(* The return address is the program counter of the moment it is saved.    *)
LEMMA ReturnAddressEdge ==
  ASSUME TypeOK, execution_stage = "SAVE_RETURN_ADDRESS", NEW stage, Edge(stage)
  PROVE  regs'[LinkRegister] = pc
<1> USE DEF AdvancesPc, Single, Second, Double, SelectsOperands
<1>1. /\ alu_func = "ADD"
      /\ alu_in_sel = "PC"
      /\ carry_in_select = "ZERO"
      /\ dest_reg = LinkRegister
      /\ reg_write_enable
  BY DEF alu_func, alu_in_sel, carry_in_select, dest_reg, reg_write_enable
<1>2. operand_a = 0 /\ operand_b = pc /\ alu_cin = 0
  BY <1>1 DEF operand_a, operand_b, alu_cin, OperandA, OperandB
<1>3. alu_out = pc
  BY <1>1, <1>2, AddressSums DEF alu_out, TypeOK
<1> QED
  BY <1>1, <1>3 DEF Edge, NextRegs, TypeOK, Reg, LinkRegister

-----------------------------------------------------------------------------
(* The three invariants say nothing of an instruction not yet fetched.     *)
LEMMA NothingInFlight ==
  ASSUME execution_stage' \in {"RESET_INIT", "FETCH_ADDRESS"}
  PROVE  InstructionInFlight' /\ PathFollowsInstruction' /\ OperandPrepared'
  BY DEF InstructionInFlight, PathFollowsInstruction, OperandPrepared

LEMMA FetchAddressStep ==
  ASSUME IInv, FetchAddress
  PROVE  InstructionInFlight' /\ PathFollowsInstruction' /\ OperandPrepared'
<1>1. execution_stage = "FETCH_ADDRESS" /\ execution_stage' = "FETCH_DECODE"
  BY DEF FetchAddress, Edge, NextStage, RetireStages
<1>2. pc' = Plus(pc, 1) /\ address_bus' = pc
  BY <1>1, AdvanceEdge DEF FetchAddress, AdvancesPc, IInv
<1>3. Minus(pc', 1) = pc
  BY <1>2, StepBack DEF IInv, TypeOK
<1> QED
  BY <1>1, <1>2, <1>3 DEF InstructionInFlight, PathFollowsInstruction, OperandPrepared

LEMMA FetchDecodeStep ==
  ASSUME IInv, FetchDecode
  PROVE  InstructionInFlight' /\ PathFollowsInstruction' /\ OperandPrepared'
<1>1. execution_stage = "FETCH_DECODE" /\ Edge("FETCH_DECODE")
  BY DEF FetchDecode, Edge
<1>2. data_bus = mem_data /\ mem' = mem
  BY <1>1, ReadingEdge DEF Double
<1>3. pc' = pc
  BY <1>1, PcHeld
<1>4. address_bus' = address_bus
  BY <1>1 DEF Edge, NextAddress, address_write_select, AdvancesPc, Second
<1>5. address_bus = Minus(pc, 1)
  BY <1>1 DEF IInv, InstructionInFlight
<1>6. instruction' = mem[Cell(Minus(pc, 1))] /\ instruction' = mem_data
  BY <1>1, <1>5 DEF Edge, NextInstruction, instruction_load_enable, mem_data
<1>7. execution_stage' = IF needs_second_word(instruction')
                         THEN "FETCH_SECOND_WORD" ELSE "EXECUTE_SINGLE"
  BY <1>1, <1>2, <1>6 DEF Edge, NextStage, RetireStages
<1>8. execution_stage' \in {"FETCH_SECOND_WORD", "EXECUTE_SINGLE"}
  BY <1>7
<1>9. InstructionInFlight'
  BY <1>2, <1>3, <1>4, <1>5, <1>6, <1>8 DEF InstructionInFlight, Cell
<1>10. PathFollowsInstruction'
  BY <1>7, <1>8 DEF PathFollowsInstruction, needs_second_word, opcode, Extended
<1>11. OperandPrepared'
  BY <1>8 DEF OperandPrepared
<1> QED
  BY <1>9, <1>10, <1>11

LEMMA FetchSecondWordStep ==
  ASSUME IInv, FetchSecondWord
  PROVE  InstructionInFlight' /\ PathFollowsInstruction' /\ OperandPrepared'
<1>1. execution_stage = "FETCH_SECOND_WORD" /\ Edge("FETCH_SECOND_WORD")
  BY DEF FetchSecondWord, Edge
<1>2. data_bus = mem_data /\ mem' = mem
  BY <1>1, ReadingEdge DEF Double
<1>3. instruction' = instruction /\ opcode' = opcode
  BY <1>1, InstructionHeld DEF opcode
<1>4. address_bus = Minus(pc, 1) /\ instruction = mem[Cell(Minus(pc, 1))]
  BY <1>1 DEF IInv, InstructionInFlight
<1>5. execution_stage' = IF opcode = CALLA THEN "SAVE_RETURN_ADDRESS"
                                           ELSE "EXECUTE_DOUBLE"
  BY <1>1, <1>2, <1>4
     DEF Edge, NextStage, RetireStages, is_complex_instruction, mem_data, opcode
<1>6. opcode \in Extended \cup {LDRR, STRR}
  BY <1>1 DEF IInv, PathFollowsInstruction
<1>7. PathFollowsInstruction'
  BY <1>3, <1>5, <1>6 DEF PathFollowsInstruction
<1>8. TypeOK /\ pc \in Word
  BY DEF IInv, TypeOK
<1>9. CASE opcode \in Extended
  <2>1. pc' = Plus(pc, 1) /\ address_bus' = pc
    BY <1>1, <1>8, <1>9, AdvanceEdge DEF AdvancesPc, Second
  <2>2. Minus(pc', 1) = pc /\ Minus(pc', 2) = Minus(pc, 1)
    BY <1>8, <2>1, StepBack
  <2>3. opcode \notin {LDRR, STRR}
    BY <1>9 DEF Extended, LDRR, STRR, JMPA, MVRD, ADDI, ANDI, CALLA
  <2>4. Fetched' = 2
    BY <1>3, <2>3 DEF Fetched
  <2>5. InstructionInFlight'
    BY <1>2, <1>3, <1>4, <1>5, <2>2, <2>4 DEF InstructionInFlight, Cell
  <2>6. OperandPrepared'
    BY <1>3, <1>5, <2>1, <2>2, <2>3 DEF OperandPrepared
  <2> QED
    BY <1>7, <2>5, <2>6
<1>10. CASE opcode \in {LDRR, STRR}
  <2>1. pc' = pc
    BY <1>1, <1>10, PcHeld
  <2>2. Fetched' = 1
    BY <1>3, <1>10 DEF Fetched
  <2>3. InstructionInFlight'
    BY <1>2, <1>3, <1>4, <1>5, <2>1, <2>2 DEF InstructionInFlight, Cell
  <2>4. opcode # CALLA /\ LDRR # STRR
    BY <1>10 DEF LDRR, STRR, CALLA
  <2>5. OperandPrepared'
    BY <1>1, <1>3, <1>5, <1>8, <1>10, <2>4, IndirectEdge DEF OperandPrepared
  <2> QED
    BY <1>7, <2>3, <2>5
<1> QED
  BY <1>6, <1>9, <1>10

LEMMA SaveReturnAddressStep ==
  ASSUME IInv, SaveReturnAddress
  PROVE  InstructionInFlight' /\ PathFollowsInstruction' /\ OperandPrepared'
<1>1. execution_stage = "SAVE_RETURN_ADDRESS" /\ Edge("SAVE_RETURN_ADDRESS")
  BY DEF SaveReturnAddress, Edge
<1>2. execution_stage' = "LOAD_CALL_TARGET"
  BY <1>1 DEF Edge, NextStage, RetireStages
<1>3. mem' = mem
  BY <1>1, ReadingEdge DEF Double
<1>4. instruction' = instruction /\ opcode' = opcode
  BY <1>1, InstructionHeld DEF opcode
<1>5. pc' = pc
  BY <1>1, PcHeld
<1>6. regs'[LinkRegister] = pc
  BY <1>1, ReturnAddressEdge DEF IInv
<1>7. InstructionInFlight'
  BY <1>1, <1>2, <1>3, <1>4, <1>5 DEF IInv, InstructionInFlight, Fetched, Cell
<1>8. PathFollowsInstruction'
  BY <1>1, <1>2, <1>4 DEF IInv, PathFollowsInstruction
<1>9. OperandPrepared'
  BY <1>2, <1>5, <1>6 DEF OperandPrepared
<1> QED
  BY <1>7, <1>8, <1>9

(* The edges that end an instruction, and reset, leave nothing in flight.  *)
LEMMA RetireStep ==
  ASSUME ResetInit \/ ExecuteSingle \/ ExecuteDouble \/ LoadCallTarget \/ Reset
  PROVE  InstructionInFlight' /\ PathFollowsInstruction' /\ OperandPrepared'
<1>1. execution_stage' \in {"RESET_INIT", "FETCH_ADDRESS"}
  BY DEF ResetInit, ExecuteSingle, ExecuteDouble, LoadCallTarget, Edge,
         NextStage, RetireStages, Reset, Cleared
<1> QED
  BY <1>1, NothingInFlight

LEMMA InvInit == Init => IInv
  BY TypeInit
     DEF Init, Cleared, IInv, InstructionInFlight, PathFollowsInstruction, OperandPrepared

LEMMA InvStep == IInv /\ [Next]_vars => IInv'
<1> SUFFICES ASSUME IInv, [Next]_vars PROVE IInv'
  OBVIOUS
<1>1. TypeOK'
  BY TypeStep DEF IInv
<1>2. InstructionInFlight' /\ PathFollowsInstruction' /\ OperandPrepared'
  <2>1. CASE ResetInit \/ ExecuteSingle \/ ExecuteDouble \/ LoadCallTarget \/ Reset
    BY <2>1, RetireStep
  <2>2. CASE FetchAddress
    BY <2>2, FetchAddressStep
  <2>3. CASE FetchDecode
    BY <2>3, FetchDecodeStep
  <2>4. CASE FetchSecondWord
    BY <2>4, FetchSecondWordStep
  <2>5. CASE SaveReturnAddress
    BY <2>5, SaveReturnAddressStep
  <2>6. CASE UNCHANGED vars
    BY <2>6 DEF vars, IInv, InstructionInFlight, PathFollowsInstruction,
                OperandPrepared, Fetched, opcode, Cell
  <2> QED
    BY <2>1, <2>2, <2>3, <2>4, <2>5, <2>6 DEF Next, Clock
<1> QED
  BY <1>1, <1>2 DEF IInv

LEMMA Invariance == Spec => []IInv
  BY InvInit, InvStep, PTL DEF Spec

-----------------------------------------------------------------------------
(* Until it retires, the instruction register equals the word in memory    *)
(* the program counter came from, in every program and every memory.       *)
THEOREM InstructionInFlightCorrect == Spec => []InstructionInFlight
  BY Invariance, PTL DEF IInv

(* The stages chosen from the bus are those the controller decodes.        *)
THEOREM PathCorrect == Spec => []PathFollowsInstruction
  BY Invariance, PTL DEF IInv

(* The operand address and the return address are there when used.         *)
THEOREM OperandCorrect == Spec => []OperandPrepared
  BY Invariance, PTL DEF IInv

-----------------------------------------------------------------------------
(* The last cycle of a store writes its source register to the cell its    *)
(* destination register names.                                             *)
LEMMA StoreEdge ==
  ASSUME IInv, Double({STRR}), ExecuteDouble
  PROVE  StoreRetires
<1> USE DEF AdvancesPc, Single, Second, Double, SelectsOperands
<1>1. execution_stage = "EXECUTE_DOUBLE" /\ opcode = STRR
  OBVIOUS
<1>2. STRR # LDRR /\ STRR \notin {ADDI, ANDI, MVRD, JMPA}
  BY DEF LDRR, STRR, JMPA, MVRD, ADDI, ANDI
<1>3. instruction = mem[Cell(Minus(pc, 1))]
  BY <1>1 DEF IInv, InstructionInFlight, Fetched
<1>4. address_bus = regs[DestReg(instruction)]
  BY <1>1, <1>2 DEF IInv, OperandPrepared
<1>5. /\ alu_func = "ADD"
      /\ alu_in_sel = "SR"
      /\ carry_in_select = "ZERO"
      /\ sour_reg = SourReg(instruction)
      /\ wr = 0
  BY <1>1, <1>2 DEF alu_func, alu_in_sel, carry_in_select, sour_reg, wr
<1>6. alu_cin = 0 /\ operand_a = sr /\ operand_b = 0
  BY <1>5 DEF alu_cin, operand_a, operand_b, OperandA, OperandB
<1>7. sr \in Word
  BY WiresTyped DEF IInv
<1>8. data_bus = regs[SourReg(instruction)]
  BY <1>5, <1>6, <1>7, AddressSums DEF alu_out, data_bus, sr
<1>9. mem' = [mem EXCEPT ![Cell(address_bus)] = data_bus]
  BY <1>5 DEF ExecuteDouble, Edge, NextMem
<1> QED
  BY <1>1, <1>3, <1>4, <1>8, <1>9 DEF opcode, StoreRetires

LEMMA WritesStep == IInv /\ [Next]_vars => [mem' # mem => StoreRetires]_vars
<1> SUFFICES ASSUME IInv, Next, mem' # mem PROVE StoreRetires
  OBVIOUS
<1>1. ~ Reset
  BY DEF Reset
<1>2. Double({STRR})
  <2> SUFFICES ASSUME ~ Double({STRR}) PROVE FALSE
    OBVIOUS
  <2>1. PICK stage \in Stages : Edge(stage)
    BY <1>1 DEF Next, Clock, ResetInit, FetchAddress, FetchDecode, ExecuteSingle,
                FetchSecondWord, ExecuteDouble, SaveReturnAddress, LoadCallTarget, Stages
  <2> QED
    BY <2>1, ReadingEdge
<1>3. ExecuteDouble
  BY <1>1, <1>2 DEF Double, Next, Clock, ResetInit, FetchAddress, FetchDecode,
     ExecuteSingle, FetchSecondWord, SaveReturnAddress, LoadCallTarget, Edge
<1> QED
  BY <1>2, <1>3, StoreEdge

(* Memory changes in no other way, whatever reset interrupts.              *)
THEOREM OnlyStoresWriteCorrect == Spec => OnlyStoresWrite
  BY Invariance, WritesStep, PTL DEF Spec, OnlyStoresWrite

-----------------------------------------------------------------------------
(* The two specifications read the same encoding.                          *)
LEMMA SameCodes ==
  /\ Architecture!ADD = ADD /\ Architecture!SUB = SUB /\ Architecture!AND = AND
  /\ Architecture!CMP = CMP /\ Architecture!XOR = XOR /\ Architecture!TEST = TEST
  /\ Architecture!OR = OR /\ Architecture!MVRR = MVRR /\ Architecture!DEC = DEC
  /\ Architecture!INC = INC /\ Architecture!SHL = SHL /\ Architecture!SHR = SHR
  /\ Architecture!ADC = ADC /\ Architecture!SBB = SBB /\ Architecture!NOT = NOT
  /\ Architecture!ASR = ASR
  /\ Architecture!JR = JR /\ Architecture!JRS = JRS /\ Architecture!JRNS = JRNS
  /\ Architecture!JRC = JRC /\ Architecture!JRNC = JRNC /\ Architecture!JRZ = JRZ
  /\ Architecture!JRNZ = JRNZ /\ Architecture!Branches = Branches
  /\ Architecture!CLC = CLC /\ Architecture!STC = STC /\ Architecture!RET = RET
  /\ Architecture!JMPA = JMPA /\ Architecture!MVRD = MVRD
  /\ Architecture!LDRR = LDRR /\ Architecture!STRR = STRR
  /\ Architecture!ADDI = ADDI /\ Architecture!ANDI = ANDI
  /\ Architecture!CALLA = CALLA /\ Architecture!Defined = Defined
  /\ Architecture!LinkRegister = LinkRegister /\ Architecture!Reg = Reg
  BY DEF Architecture!ADD, Architecture!SUB, Architecture!AND, Architecture!CMP,
     Architecture!XOR, Architecture!TEST, Architecture!OR, Architecture!MVRR,
     Architecture!DEC, Architecture!INC, Architecture!SHL, Architecture!SHR,
     Architecture!ADC, Architecture!SBB, Architecture!NOT, Architecture!ASR,
     Architecture!JR, Architecture!JRS, Architecture!JRNS, Architecture!JRC,
     Architecture!JRNC, Architecture!JRZ, Architecture!JRNZ, Architecture!Branches,
     Architecture!CLC, Architecture!STC, Architecture!RET, Architecture!JMPA,
     Architecture!MVRD, Architecture!LDRR, Architecture!STRR, Architecture!ADDI,
     Architecture!ANDI, Architecture!CALLA, Architecture!Defined,
     Architecture!RegisterOps, Architecture!Extended, Architecture!LinkRegister,
     Architecture!Reg,
     ADD, SUB, AND, CMP, XOR, TEST, OR, MVRR, DEC, INC, SHL, SHR, ADC, SBB, NOT,
     ASR, JR, JRS, JRNS, JRC, JRNC, JRZ, JRNZ, Branches, CLC, STC, RET, JMPA,
     MVRD, LDRR, STRR, ADDI, ANDI, CALLA, Defined, RegisterOps, Extended,
     LinkRegister, Reg

LEMMA SameWords ==
  ASSUME NEW x, NEW y
  PROVE  /\ Architecture!Plus(x, y) = Plus(x, y)
         /\ Architecture!Sign(x) = Sign(x)
         /\ Architecture!BitNot(x) = BitNot(x)
         /\ Architecture!SignExtend(x) = SignExtend(x)
         /\ Architecture!BitAnd(x, y) = BitAnd(x, y)
         /\ Architecture!BitOr(x, y) = BitOr(x, y)
         /\ Architecture!BitXor(x, y) = BitXor(x, y)
         /\ Architecture!IsaCell(x) = Cell(x)
<1>1. /\ Architecture!Plus(x, y) = Plus(x, y)
      /\ Architecture!Sign(x) = Sign(x)
      /\ Architecture!BitNot(x) = BitNot(x)
      /\ Architecture!SignExtend(x) = SignExtend(x)
      /\ Architecture!IsaCell(x) = Cell(x)
  BY DEF Architecture!Plus, Plus, Architecture!Sign, Sign, Architecture!BitNot, BitNot,
         Architecture!SignExtend, SignExtend, Architecture!WordSize, WordSize,
         Architecture!IsaCell, Cell
<1>2. Architecture!BitAnd(x, y) = BitAnd(x, y)
  BY DEF Architecture!BitAnd, BitAnd, Architecture!Pack, Pack, Architecture!Bit, Bit,
         Architecture!LowByte, LowByte, Architecture!HighByte, HighByte
<1>3. Architecture!BitOr(x, y) = BitOr(x, y)
  BY DEF Architecture!BitOr, BitOr, Architecture!Pack, Pack, Architecture!Bit, Bit,
         Architecture!LowByte, LowByte, Architecture!HighByte, HighByte
<1>4. Architecture!BitXor(x, y) = BitXor(x, y)
  BY DEF Architecture!BitXor, BitXor, Architecture!Pack, Pack, Architecture!Bit, Bit,
         Architecture!LowByte, LowByte, Architecture!HighByte, HighByte
<1> QED
  BY <1>1, <1>2, <1>3, <1>4

(* An instruction at the mapped program counter is decoded alike.          *)
LEMMA SameInstruction ==
  ASSUME NEW w, mem[Cell(IsaPc)] = w
  PROVE  /\ Architecture!ir = w
         /\ Architecture!op = Opcode(w)
         /\ Architecture!rd = DestReg(w)
         /\ Architecture!rs = SourReg(w)
         /\ Architecture!Imm8(Architecture!ir) = Imm8(w)
         /\ Architecture!next = Plus(IsaPc, 1)
         /\ Architecture!extension = mem[Cell(Plus(IsaPc, 1))]
<1>1. Architecture!ir = w
  BY SameWords DEF Architecture!ir
<1> QED
  BY <1>1, SameWords
     DEF Architecture!op, Architecture!rd, Architecture!rs, Architecture!Imm8, Imm8,
         Architecture!next, Architecture!extension, Architecture!Opcode, Opcode,
         Architecture!DestReg, DestReg, Architecture!SourReg, SourReg

-----------------------------------------------------------------------------
(* The ALU raises the flags of the instruction set.                        *)
LEMMA SumFlags ==
  ASSUME NEW x \in Word, NEW y \in Word, NEW k \in {0, 1}
  PROVE  /\ AluOut("ADD", x, y, k) = (y + x + k) % WordSize
         /\ AluFlags("ADD", x, y, k) = Architecture!AddFlags(x, y, k)
<1> DEFINE r == (y + x + k) % WordSize
<1>1. AluOut("ADD", x, y, k) = r
  BY DEF AluOut, AddResult
<1>2. CarryOut("ADD", x, y, k) = IF y + x + k >= WordSize THEN 1 ELSE 0
  <2>1. CarryOut("ADD", x, y, k) = (y + x + k) \div 65536
    BY DEF CarryOut, AddResult, WordSize
  <2>2. y + x + k \in Nat /\ y + x + k < 2 * 65536
    BY DEF Word, WordSize
  <2> QED
    BY <2>1, <2>2 DEF WordSize
<1>3. OverflowOut("ADD", x, y, k)
        = IF Sign(x) # Sign(r) /\ Sign(y) # Sign(r) THEN 1 ELSE 0
  BY <1>1 DEF OverflowOut, Sign
<1>4. Architecture!WordSize = WordSize
  BY DEF Architecture!WordSize, WordSize
<1>5. Architecture!AddFlags(x, y, k)
        = [c |-> IF y + x + k >= WordSize THEN 1 ELSE 0,
           z |-> IF r = 0 THEN 1 ELSE 0,
           v |-> IF Sign(x) # Sign(r) /\ Sign(y) # Sign(r) THEN 1 ELSE 0,
           s |-> Sign(r)]
  BY <1>4, SameWords DEF Architecture!AddFlags, Architecture!B
<1> HIDE DEF r
<1> QED
  BY <1>1, <1>2, <1>3, <1>5 DEF AluFlags, r

LEMMA DifferenceFlags ==
  ASSUME NEW x \in Word, NEW y \in Word, NEW k \in {0, 1}
  PROVE  /\ AluOut("SUB", x, y, k) = (y - x - k) % WordSize
         /\ AluFlags("SUB", x, y, k) = Architecture!SubFlags(x, y, k)
<1> DEFINE r == (y - x - k) % WordSize
<1>1. AluOut("SUB", x, y, k) = r
  BY DEF AluOut, SubResult, Word, WordSize
<1>2. CarryOut("SUB", x, y, k) = IF y < x + k THEN 1 ELSE 0
  BY DEF CarryOut, SubResult, Word, WordSize
<1>3. OverflowOut("SUB", x, y, k)
        = IF Sign(x) # Sign(y) /\ Sign(r) # Sign(y) THEN 1 ELSE 0
  BY <1>1 DEF OverflowOut, Sign
<1>4. Architecture!WordSize = WordSize
  BY DEF Architecture!WordSize, WordSize
<1>5. Architecture!SubFlags(x, y, k)
        = [c |-> IF y < x + k THEN 1 ELSE 0,
           z |-> IF r = 0 THEN 1 ELSE 0,
           v |-> IF Sign(x) # Sign(y) /\ Sign(r) # Sign(y) THEN 1 ELSE 0,
           s |-> Sign(r)]
  BY <1>4, SameWords DEF Architecture!SubFlags, Architecture!B
<1> HIDE DEF r
<1> QED
  BY <1>1, <1>2, <1>3, <1>5 DEF AluFlags, r

(* DEC subtracts a borrow from nothing where the instruction set takes 1.  *)
LEMMA DecrementFlags ==
  ASSUME NEW y \in Word
  PROVE  /\ AluOut("SUB", 0, y, 1) = (y - 1) % WordSize
         /\ AluFlags("SUB", 0, y, 1) = Architecture!SubFlags(1, y, 0)
<1>1. 0 \in Word /\ 1 \in Word
  BY DEF Word, WordSize
<1>2. AluOut("SUB", 0, y, 1) = (y - 1) % WordSize
  BY DEF AluOut, SubResult, Word, WordSize
<1>3. AluFlags("SUB", 0, y, 1) = Architecture!SubFlags(0, y, 1)
  BY <1>1, DifferenceFlags
<1>4. AluFlags("SUB", 1, y, 0) = Architecture!SubFlags(1, y, 0)
  BY <1>1, DifferenceFlags
<1>5. SubResult(0, y, 1) = SubResult(1, y, 0)
  BY DEF SubResult, Word, WordSize
<1>6. Sign(0) = Sign(1)
  BY DEF Sign
<1>7. AluOut("SUB", 0, y, 1) = AluOut("SUB", 1, y, 0)
  BY <1>5 DEF AluOut
<1>8. /\ CarryOut("SUB", 0, y, 1) = CarryOut("SUB", 1, y, 0)
      /\ OverflowOut("SUB", 0, y, 1) = OverflowOut("SUB", 1, y, 0)
  BY <1>5, <1>6, <1>7 DEF CarryOut, OverflowOut
<1>9. AluFlags("SUB", 0, y, 1) = AluFlags("SUB", 1, y, 0)
  BY <1>7, <1>8 DEF AluFlags
<1> QED
  BY <1>2, <1>4, <1>9

(* The functions without carry or overflow.                                *)
LEMMA BitFlags ==
  ASSUME NEW f \in {"AND", "OR", "XOR", "NOT"}, NEW x, NEW y, NEW k
  PROVE  AluFlags(f, x, y, k) = Architecture!LogicFlags(AluOut(f, x, y, k))
<1>1. CarryOut(f, x, y, k) = 0 /\ OverflowOut(f, x, y, k) = 0
  BY DEF CarryOut, OverflowOut
<1> QED
  BY <1>1, SameWords DEF AluFlags, Architecture!LogicFlags, Architecture!B

(* The functions whose carry is the bit shifted out.                       *)
LEMMA ShiftedFlags ==
  ASSUME NEW f \in {"SHL", "SHR", "ASR"}, NEW x, NEW y, NEW k
  PROVE  AluFlags(f, x, y, k)
           = Architecture!ShiftFlags(CarryOut(f, x, y, k), AluOut(f, x, y, k))
<1>1. OverflowOut(f, x, y, k) = 0
  BY DEF OverflowOut
<1> QED
  BY <1>1, SameWords DEF AluFlags, Architecture!ShiftFlags, Architecture!B

-----------------------------------------------------------------------------
(* Clock edges between retirements leave the architectural state alone.    *)
LEMMA QuietEdge ==
  ASSUME NEW stage \in {"RESET_INIT", "FETCH_ADDRESS", "FETCH_DECODE",
                        "FETCH_SECOND_WORD", "LOAD_CALL_TARGET"},
         Edge(stage)
  PROVE  regs' = regs /\ flags' = flags /\ mem' = mem
<1> USE DEF Single, Second, Double, Edge
<1>1. ~ reg_write_enable /\ sst = "HOLD" /\ wr = 1
  BY DEF reg_write_enable, sst, wr
<1> QED
  BY <1>1 DEF NextRegs, NextFlags, NextMem

(* A relative jump adds the displacement to the program counter.           *)
LEMMA RelativeSum ==
  ASSUME TypeOK, alu_func = "ADD", alu_in_sel = "BR", carry_in_select = "ZERO"
  PROVE  alu_out = Plus(pc, SignExtend(offset))
<1>1. operand_a = SignExtend(offset) /\ operand_b = pc /\ alu_cin = 0
  BY DEF operand_a, operand_b, alu_cin, OperandA, OperandB
<1>2. SignExtend(offset) \in Word /\ pc \in Word
  BY DisplacementWord DEF TypeOK
<1> QED
  BY <1>1, <1>2 DEF alu_out, AluOut, AddResult, Plus, Word, WordSize

LEMMA ResetInitStutters ==
  ASSUME IInv, ResetInit
  PROVE  UNCHANGED Architecture!isaVars
<1> USE DEF Single, Second, Double
<1>1. Edge("RESET_INIT") /\ execution_stage = "RESET_INIT"
  BY DEF ResetInit, Edge
<1>2. ~ pc_write_enable
  BY <1>1 DEF pc_write_enable, AdvancesPc
<1>3. pc' = pc /\ execution_stage' = "FETCH_ADDRESS"
  BY <1>1, <1>2 DEF Edge, NextPc, NextStage, RetireStages
<1>4. IsaPc = pc /\ IsaPc' = pc
  BY <1>1, <1>3 DEF IsaPc
<1> QED
  BY <1>1, <1>4, QuietEdge DEF Architecture!isaVars

LEMMA FetchAddressStutters ==
  ASSUME IInv, FetchAddress
  PROVE  UNCHANGED Architecture!isaVars
<1>1. Edge("FETCH_ADDRESS") /\ execution_stage = "FETCH_ADDRESS"
  BY DEF FetchAddress, Edge
<1>2. pc' = Plus(pc, 1) /\ execution_stage' = "FETCH_DECODE"
  BY <1>1, AdvanceEdge DEF AdvancesPc, IInv, Edge, NextStage, RetireStages
<1>3. IsaPc = pc /\ IsaPc' = pc
  BY <1>1, <1>2, StepBack DEF IsaPc, IInv, TypeOK
<1> QED
  BY <1>1, <1>3, QuietEdge DEF Architecture!isaVars

LEMMA FetchDecodeStutters ==
  ASSUME IInv, FetchDecode
  PROVE  UNCHANGED Architecture!isaVars
<1>1. Edge("FETCH_DECODE") /\ execution_stage = "FETCH_DECODE"
  BY DEF FetchDecode, Edge
<1>2. pc' = pc
  BY <1>1, PcHeld
<1>3. execution_stage' \in {"EXECUTE_SINGLE", "FETCH_SECOND_WORD"}
  BY <1>1 DEF Edge, NextStage, RetireStages
<1>4. IsaPc = Minus(pc, 1) /\ IsaPc' = Minus(pc, 1)
  BY <1>1, <1>2, <1>3 DEF IsaPc
<1> QED
  BY <1>1, <1>4, QuietEdge DEF Architecture!isaVars

LEMMA FetchSecondWordStutters ==
  ASSUME IInv, FetchSecondWord
  PROVE  UNCHANGED Architecture!isaVars
<1>1. Edge("FETCH_SECOND_WORD") /\ execution_stage = "FETCH_SECOND_WORD"
  BY DEF FetchSecondWord, Edge
<1>2. execution_stage' \in {"EXECUTE_DOUBLE", "SAVE_RETURN_ADDRESS"}
  BY <1>1 DEF Edge, NextStage, RetireStages
<1>3. opcode' = opcode
  BY <1>1, InstructionHeld DEF opcode
<1>4. opcode \in Extended \cup {LDRR, STRR}
  BY <1>1 DEF IInv, PathFollowsInstruction
<1>5. Minus(pc', Fetched') = Minus(pc, 1)
  <2>1. CASE opcode \in {LDRR, STRR}
    BY <1>1, <1>3, <2>1, PcHeld DEF Fetched
  <2>2. CASE opcode \in Extended
    <3>1. opcode \notin {LDRR, STRR}
      BY <2>2 DEF Extended, LDRR, STRR, JMPA, MVRD, ADDI, ANDI, CALLA
    <3>2. pc' = Plus(pc, 1) /\ Fetched' = 2
      BY <1>1, <1>3, <2>2, <3>1, AdvanceEdge DEF AdvancesPc, Second, IInv, Fetched
    <3> QED
      BY <3>2, StepBack DEF IInv, TypeOK
  <2> QED
    BY <1>4, <2>1, <2>2
<1>6. IsaPc = Minus(pc, 1) /\ IsaPc' = Minus(pc, 1)
  BY <1>1, <1>2, <1>5 DEF IsaPc
<1> QED
  BY <1>1, <1>6, QuietEdge DEF Architecture!isaVars

LEMMA LoadCallTargetStutters ==
  ASSUME IInv, LoadCallTarget
  PROVE  UNCHANGED Architecture!isaVars
<1> USE DEF Single, Second, Double, AdvancesPc
<1>1. Edge("LOAD_CALL_TARGET") /\ execution_stage = "LOAD_CALL_TARGET"
  BY DEF LoadCallTarget, Edge
<1>2. /\ alu_func = "ADD" /\ alu_in_sel = "BR" /\ carry_in_select = "ZERO"
      /\ pc_write_enable
  BY <1>1 DEF alu_func, alu_in_sel, carry_in_select, pc_write_enable
<1>3. pc' = Plus(pc, SignExtend(offset))
  BY <1>1, <1>2, RelativeSum DEF IInv, Edge, NextPc
<1>4. execution_stage' = "FETCH_ADDRESS"
  BY <1>1 DEF Edge, NextStage, RetireStages
<1>5. IsaPc' = IsaPc
  BY <1>1, <1>3, <1>4 DEF IsaPc
<1> QED
  BY <1>1, <1>5, QuietEdge DEF Architecture!isaVars

-----------------------------------------------------------------------------
(* CALLA takes effect when it saves its return address: the call target is *)
(* then fixed by the program counter and the displacement.                 *)
LEMMA SaveReturnAddressCalls ==
  ASSUME IInv, SaveReturnAddress
  PROVE  Architecture!Call
<1> USE DEF Single, Second, Double, AdvancesPc, SelectsOperands
<1>1. Edge("SAVE_RETURN_ADDRESS") /\ execution_stage = "SAVE_RETURN_ADDRESS"
  BY DEF SaveReturnAddress, Edge
<1>2. opcode = CALLA /\ Fetched = 2
  BY <1>1 DEF IInv, PathFollowsInstruction, Fetched, CALLA, LDRR, STRR
<1>3. IsaPc = Minus(pc, 2) /\ mem[Cell(IsaPc)] = instruction
  BY <1>1, <1>2 DEF IsaPc, IInv, InstructionInFlight
<1>4. Architecture!op = CALLA /\ Architecture!Imm8(Architecture!ir) = Imm8(instruction)
  BY <1>2, <1>3, SameInstruction DEF opcode
<1>5. pc \in Word
  BY DEF IInv, TypeOK
<1>6. Plus(Plus(Minus(pc, 2), 1), 1) = pc
  BY <1>5 DEF Plus, Minus, Word, WordSize
<1>7. Architecture!Plus(Architecture!next, 1) = pc
  BY <1>3, <1>6, SameInstruction, SameWords
<1>8. /\ alu_func = "ADD" /\ alu_in_sel = "PC" /\ carry_in_select = "ZERO"
      /\ reg_write_enable /\ dest_reg = LinkRegister
      /\ sst = "HOLD" /\ wr = 1
  BY <1>1 DEF alu_func, alu_in_sel, carry_in_select, reg_write_enable, dest_reg, sst, wr
<1>9. alu_out = pc
  <2>1. operand_a = 0 /\ operand_b = pc /\ alu_cin = 0
    BY <1>8 DEF operand_a, operand_b, alu_cin, OperandA, OperandB
  <2> QED
    BY <1>5, <1>8, <2>1, AddressSums DEF alu_out
<1>10. /\ regs' = [regs EXCEPT ![LinkRegister] = pc]
       /\ flags' = flags /\ mem' = mem
  BY <1>1, <1>8, <1>9 DEF Edge, NextRegs, NextFlags, NextMem
<1>11. pc' = pc /\ instruction' = instruction
  BY <1>1, PcHeld, InstructionHeld
<1>12. execution_stage' = "LOAD_CALL_TARGET"
  BY <1>1 DEF Edge, NextStage, RetireStages
<1>13. offset' = Imm8(instruction)
  BY <1>11, <1>12 DEF offset
<1>14. IsaPc' = Plus(pc, SignExtend(Imm8(instruction)))
  BY <1>11, <1>12, <1>13 DEF IsaPc
<1> QED
  BY <1>4, <1>7, <1>10, <1>14, SameCodes, SameWords DEF Architecture!Call

-----------------------------------------------------------------------------
(* Single-word instructions.  What the instruction set sees of the cycle   *)
(* that executes one.                                                      *)
LEMMA SingleCycle ==
  ASSUME IInv, ExecuteSingle
  PROVE  /\ Architecture!op = opcode
         /\ Architecture!rd = DestReg(instruction)
         /\ Architecture!rs = SourReg(instruction)
         /\ Architecture!Imm8(Architecture!ir) = Imm8(instruction)
         /\ Architecture!next = pc
         /\ IsaPc' = pc' /\ mem' = mem
<1>1. Edge("EXECUTE_SINGLE") /\ execution_stage = "EXECUTE_SINGLE"
  BY DEF ExecuteSingle, Edge
<1>2. execution_stage' = "FETCH_ADDRESS"
  BY <1>1 DEF Edge, NextStage, RetireStages
<1>3. IsaPc = Minus(pc, 1) /\ IsaPc' = pc'
  BY <1>1, <1>2 DEF IsaPc
<1>4. mem[Cell(IsaPc)] = instruction
  BY <1>1, <1>3 DEF IInv, InstructionInFlight
<1>5. Plus(IsaPc, 1) = pc
  BY <1>3 DEF IInv, TypeOK, Plus, Minus, Word, WordSize
<1>6. mem' = mem
  BY <1>1, ReadingEdge DEF Double
<1> QED
  BY <1>3, <1>4, <1>5, <1>6, SameInstruction DEF opcode

(* An instruction on registers that has a result writes what the ALU says. *)
LEMMA RegisterWrite ==
  ASSUME IInv, ExecuteSingle, opcode \in RegisterOps \ {CMP, TEST}
  PROVE  Architecture!WriteResult(alu_out, NextFlags)
<1> USE DEF Single, Second, Double, AdvancesPc, SelectsOperands
<1>1. Edge("EXECUTE_SINGLE") /\ execution_stage = "EXECUTE_SINGLE"
  BY DEF ExecuteSingle, Edge
<1>2. reg_write_enable /\ dest_reg = DestReg(instruction)
  BY <1>1 DEF reg_write_enable, dest_reg
<1>3. ~ pc_write_enable
  BY <1>1 DEF pc_write_enable, RegisterOps, Branches, RET, JMPA, ADD, SUB, AND, CMP, XOR,
     TEST, OR, MVRR, DEC, INC, SHL, SHR, ADC, SBB, NOT, ASR, JR, JRS, JRNS, JRC, JRNC,
     JRZ, JRNZ
<1>4. /\ regs' = [regs EXCEPT ![DestReg(instruction)] = alu_out]
      /\ flags' = NextFlags /\ pc' = pc
  BY <1>1, <1>2, <1>3 DEF Edge, NextRegs, NextPc
<1> QED
  BY <1>4, SingleCycle DEF Architecture!WriteResult

(* What each opcode asks of the ALU.                                       *)
Computes(f, x, y, k) ==
  /\ alu_out = AluOut(f, x, y, k)
  /\ NextFlags = AluFlags(f, x, y, k)

LEMMA ArithmeticWires ==
  ASSUME execution_stage = "EXECUTE_SINGLE"
  PROVE  /\ opcode = ADD => Computes("ADD", sr, dr, 0)
         /\ opcode = ADC => Computes("ADD", sr, dr, flags.c)
         /\ opcode = INC => Computes("ADD", 0, dr, 1)
         /\ opcode \in {SUB, CMP} => Computes("SUB", sr, dr, 0)
         /\ opcode = SBB => Computes("SUB", sr, dr, flags.c)
         /\ opcode = DEC => Computes("SUB", 0, dr, 1)
<1> USE DEF Single, Second, Double, AdvancesPc, RegisterOps, Branches,
     ADD, SUB, AND, CMP, XOR, TEST, OR, MVRR, DEC, INC, SHL, SHR, ADC, SBB, NOT, ASR,
     JR, JRS, JRNS, JRC, JRNC, JRZ, JRNZ, CLC, STC, RET
<1>1. opcode \in {ADD, ADC, INC, SUB, CMP, SBB, DEC} =>
        /\ sst = "WRITE"
        /\ alu_func = IF opcode \in {ADD, ADC, INC} THEN "ADD" ELSE "SUB"
        /\ alu_in_sel = IF opcode \in {INC, DEC} THEN "DR" ELSE "REGS"
        /\ carry_in_select = IF opcode \in {INC, DEC} THEN "ONE"
                             ELSE IF opcode \in {ADC, SBB} THEN "FLAG_C" ELSE "ZERO"
  BY DEF sst, alu_func, alu_in_sel, carry_in_select
<1> QED
  BY <1>1 DEF Computes, alu_out, NextFlags, operand_a, operand_b, alu_cin, OperandA, OperandB

LEMMA BitWires ==
  ASSUME execution_stage = "EXECUTE_SINGLE"
  PROVE  /\ opcode \in {AND, TEST} => Computes("AND", sr, dr, 0)
         /\ opcode = OR  => Computes("OR", sr, dr, 0)
         /\ opcode = XOR => Computes("XOR", sr, dr, 0)
         /\ opcode = NOT => Computes("NOT", 0, dr, 0)
         /\ opcode = SHL => Computes("SHL", 0, dr, 0)
         /\ opcode = SHR => Computes("SHR", 0, dr, 0)
         /\ opcode = ASR => Computes("ASR", 0, dr, 0)
         /\ opcode = MVRR => /\ alu_out = AluOut("ADD", sr, 0, 0)
                             /\ NextFlags = flags
<1> USE DEF Single, Second, Double, AdvancesPc, RegisterOps, Branches,
     ADD, SUB, AND, CMP, XOR, TEST, OR, MVRR, DEC, INC, SHL, SHR, ADC, SBB, NOT, ASR,
     JR, JRS, JRNS, JRC, JRNC, JRZ, JRNZ, CLC, STC, RET
<1>1. opcode \in {AND, TEST, OR, XOR, NOT, SHL, SHR, ASR, MVRR} =>
        /\ sst = IF opcode = MVRR THEN "HOLD" ELSE "WRITE"
        /\ alu_in_sel = IF opcode = MVRR THEN "SR"
                        ELSE IF opcode \in {NOT, SHL, SHR, ASR} THEN "DR" ELSE "REGS"
        /\ carry_in_select = "ZERO"
  BY DEF sst, alu_in_sel, carry_in_select
<1>2. /\ opcode \in {AND, TEST} => alu_func = "AND"
      /\ opcode = OR  => alu_func = "OR"
      /\ opcode = XOR => alu_func = "XOR"
      /\ opcode = NOT => alu_func = "NOT"
      /\ opcode = SHL => alu_func = "SHL"
      /\ opcode = SHR => alu_func = "SHR"
      /\ opcode = ASR => alu_func = "ASR"
      /\ opcode = MVRR => alu_func = "ADD"
  BY DEF alu_func
<1> QED
  BY <1>1, <1>2 DEF Computes, alu_out, NextFlags, operand_a, operand_b, alu_cin, OperandA, OperandB

(* The source and destination registers as the instruction set reads them. *)
LEMMA RegisterOperands ==
  ASSUME IInv, ExecuteSingle, opcode \in RegisterOps
  PROVE  /\ sr = regs[Architecture!rs] /\ dr = regs[Architecture!rd]
         /\ sr \in Word /\ dr \in Word /\ flags.c \in {0, 1}
<1>1. execution_stage = "EXECUTE_SINGLE" /\ TypeOK
  BY DEF ExecuteSingle, Edge, IInv
<1>2. dest_reg = DestReg(instruction) /\ sour_reg = SourReg(instruction)
  BY <1>1 DEF dest_reg, sour_reg, SelectsOperands, Single, RegisterOps, RET, ADD, SUB,
     AND, CMP, XOR, TEST, OR, MVRR, DEC, INC, SHL, SHR, ADC, SBB, NOT, ASR
<1> QED
  BY <1>1, <1>2, SingleCycle, WiresTyped DEF sr, dr, TypeOK, Flags

LEMMA ArithmeticStep ==
  ASSUME IInv, ExecuteSingle, opcode \in {ADD, ADC, INC, SUB, SBB, DEC}
  PROVE  Architecture!Arithmetic
<1>1. execution_stage = "EXECUTE_SINGLE"
  BY DEF ExecuteSingle, Edge
<1>2. opcode \in RegisterOps \ {CMP, TEST}
  BY DEF RegisterOps, ADD, ADC, INC, SUB, SBB, DEC, CMP, TEST
<1>3. Architecture!op = opcode /\ Architecture!WordSize = WordSize
  BY SingleCycle DEF Architecture!WordSize, WordSize
<1> DEFINE a == regs[Architecture!rs]
           b == regs[Architecture!rd]
<1>4. a = sr /\ b = dr /\ a \in Word /\ b \in Word /\ flags.c \in {0, 1}
  BY <1>2, RegisterOperands
<1>5. Architecture!WriteResult(alu_out, NextFlags)
  BY <1>2, RegisterWrite
<1>6. a + 0 = a /\ b + 0 = b /\ b + a + 0 = b + a /\ b + 0 + 1 = b + 1 /\ b - a - 0 = b - a
  BY <1>4 DEF Word
<1>7. 0 \in Word
  BY DEF Word, WordSize
<1> HIDE DEF a, b
<1>8. CASE opcode = ADD
  <2>1. alu_out = (b + a) % WordSize /\ NextFlags = Architecture!AddFlags(a, b, 0)
    BY <1>1, <1>4, <1>6, <1>8, ArithmeticWires, SumFlags DEF Computes
  <2> QED
    BY <1>3, <1>5, <1>8, <2>1, SameCodes DEF Architecture!Arithmetic, a, b
<1>9. CASE opcode = ADC
  <2>1. /\ alu_out = (b + a + flags.c) % WordSize
        /\ NextFlags = Architecture!AddFlags(a, b, flags.c)
    BY <1>1, <1>4, <1>9, ArithmeticWires, SumFlags DEF Computes
  <2> QED
    BY <1>3, <1>5, <1>9, <2>1, SameCodes DEF Architecture!Arithmetic, a, b
<1>10. CASE opcode = INC
  <2>1. alu_out = (b + 1) % WordSize /\ NextFlags = Architecture!AddFlags(0, b, 1)
    BY <1>1, <1>4, <1>6, <1>7, <1>10, ArithmeticWires, SumFlags DEF Computes
  <2> QED
    BY <1>3, <1>5, <1>10, <2>1, SameCodes DEF Architecture!Arithmetic, a, b
<1>11. CASE opcode = SUB
  <2>1. alu_out = (b - a) % WordSize /\ NextFlags = Architecture!SubFlags(a, b, 0)
    BY <1>1, <1>4, <1>6, <1>11, ArithmeticWires, DifferenceFlags DEF Computes
  <2> QED
    BY <1>3, <1>5, <1>11, <2>1, SameCodes DEF Architecture!Arithmetic, a, b
<1>12. CASE opcode = SBB
  <2>1. /\ alu_out = (b - a - flags.c) % WordSize
        /\ NextFlags = Architecture!SubFlags(a, b, flags.c)
    BY <1>1, <1>4, <1>12, ArithmeticWires, DifferenceFlags DEF Computes
  <2> QED
    BY <1>3, <1>5, <1>12, <2>1, SameCodes DEF Architecture!Arithmetic, a, b
<1>13. CASE opcode = DEC
  <2>1. alu_out = (b - 1) % WordSize /\ NextFlags = Architecture!SubFlags(1, b, 0)
    BY <1>1, <1>4, <1>13, ArithmeticWires, DecrementFlags DEF Computes
  <2> QED
    BY <1>3, <1>5, <1>13, <2>1, SameCodes DEF Architecture!Arithmetic, a, b
<1> QED
  BY <1>8, <1>9, <1>10, <1>11, <1>12, <1>13

LEMMA LogicStep ==
  ASSUME IInv, ExecuteSingle, opcode \in {AND, OR, XOR, NOT}
  PROVE  Architecture!Logic
<1>1. execution_stage = "EXECUTE_SINGLE"
  BY DEF ExecuteSingle, Edge
<1>2. opcode \in RegisterOps \ {CMP, TEST}
  BY DEF RegisterOps, AND, OR, XOR, NOT, CMP, TEST
<1>3. Architecture!op = opcode
  BY SingleCycle
<1>4. sr = regs[Architecture!rs] /\ dr = regs[Architecture!rd]
  BY <1>2, RegisterOperands
<1>5. Architecture!WriteResult(alu_out, NextFlags)
  BY <1>2, RegisterWrite
<1>6. CASE opcode = AND
  <2>1. alu_out = BitAnd(sr, dr) /\ NextFlags = Architecture!LogicFlags(alu_out)
    BY <1>1, <1>6, BitWires, BitFlags DEF Computes, AluOut
  <2> QED
    BY <1>3, <1>4, <1>5, <1>6, <2>1, SameCodes, SameWords DEF Architecture!Logic
<1>7. CASE opcode = OR
  <2>1. alu_out = BitOr(sr, dr) /\ NextFlags = Architecture!LogicFlags(alu_out)
    BY <1>1, <1>7, BitWires, BitFlags DEF Computes, AluOut
  <2> QED
    BY <1>3, <1>4, <1>5, <1>7, <2>1, SameCodes, SameWords DEF Architecture!Logic
<1>8. CASE opcode = XOR
  <2>1. alu_out = BitXor(sr, dr) /\ NextFlags = Architecture!LogicFlags(alu_out)
    BY <1>1, <1>8, BitWires, BitFlags DEF Computes, AluOut
  <2> QED
    BY <1>3, <1>4, <1>5, <1>8, <2>1, SameCodes, SameWords DEF Architecture!Logic
<1>9. CASE opcode = NOT
  <2>1. alu_out = BitNot(dr) /\ NextFlags = Architecture!LogicFlags(alu_out)
    BY <1>1, <1>9, BitWires, BitFlags DEF Computes, AluOut
  <2> QED
    BY <1>3, <1>4, <1>5, <1>9, <2>1, SameCodes, SameWords DEF Architecture!Logic
<1> QED
  BY <1>6, <1>7, <1>8, <1>9

LEMMA ShiftStep ==
  ASSUME IInv, ExecuteSingle, opcode \in {SHL, SHR, ASR}
  PROVE  Architecture!Shift
<1>1. execution_stage = "EXECUTE_SINGLE"
  BY DEF ExecuteSingle, Edge
<1>2. opcode \in RegisterOps \ {CMP, TEST}
  BY DEF RegisterOps, SHL, SHR, ASR, CMP, TEST
<1>3. Architecture!op = opcode /\ Architecture!WordSize = WordSize
  BY SingleCycle DEF Architecture!WordSize, WordSize
<1>4. dr = regs[Architecture!rd] /\ dr \in Word
  BY <1>2, RegisterOperands
<1>5. Architecture!WriteResult(alu_out, NextFlags)
  BY <1>2, RegisterWrite
<1>6. CASE opcode = SHL
  <2>1. alu_out = (2 * dr) % WordSize
    BY <1>1, <1>6, BitWires DEF Computes, AluOut
  <2>2. NextFlags = Architecture!ShiftFlags(Sign(dr), alu_out)
    BY <1>1, <1>6, BitWires, ShiftedFlags DEF Computes, CarryOut
  <2> QED
    BY <1>3, <1>4, <1>5, <1>6, <2>1, <2>2, SameCodes, SameWords DEF Architecture!Shift
<1>7. CASE opcode = SHR
  <2>1. alu_out = dr \div 2
    BY <1>1, <1>7, BitWires DEF Computes, AluOut
  <2>2. NextFlags = Architecture!ShiftFlags(dr % 2, alu_out)
    BY <1>1, <1>7, BitWires, ShiftedFlags DEF Computes, CarryOut
  <2> QED
    BY <1>3, <1>4, <1>5, <1>7, <2>1, <2>2, SameCodes DEF Architecture!Shift
<1>8. CASE opcode = ASR
  <2>1. alu_out = ShiftRightArith(dr)
    BY <1>1, <1>8, BitWires DEF Computes, AluOut
  <2>2. NextFlags = Architecture!ShiftFlags(dr % 2, alu_out)
    BY <1>1, <1>8, BitWires, ShiftedFlags DEF Computes, CarryOut
  <2>3. ShiftRightArith(dr) = IF Sign(dr) = 1 THEN 32768 + dr \div 2 ELSE dr \div 2
    BY <1>4 DEF ShiftRightArith, Sign, Word
  <2> QED
    BY <1>3, <1>4, <1>5, <1>8, <2>1, <2>2, <2>3, SameCodes, SameWords
       DEF Architecture!Shift
<1> QED
  BY <1>6, <1>7, <1>8

LEMMA MoveStep ==
  ASSUME IInv, ExecuteSingle, opcode = MVRR
  PROVE  Architecture!Move
<1>1. execution_stage = "EXECUTE_SINGLE"
  BY DEF ExecuteSingle, Edge
<1>2. opcode \in RegisterOps \ {CMP, TEST}
  BY DEF RegisterOps, MVRR, CMP, TEST
<1>3. sr = regs[Architecture!rs] /\ sr \in Word
  BY <1>2, RegisterOperands
<1>4. alu_out = sr /\ NextFlags = flags
  BY <1>1, <1>3, BitWires, AddressSums
<1> QED
  BY <1>2, <1>3, <1>4, RegisterWrite, SingleCycle, SameCodes DEF Architecture!Move

(* The other single-word instructions write no register, and the program   *)
(* counter only when they jump.                                            *)
LEMMA NoRegisterWrite ==
  ASSUME IInv, ExecuteSingle, opcode \notin RegisterOps \ {CMP, TEST}
  PROVE  /\ regs' = regs /\ flags' = NextFlags
         /\ ~ (opcode \in Branches /\ BranchTaken) /\ opcode # RET => pc' = pc
<1> USE DEF Single, Second, Double, AdvancesPc
<1>1. Edge("EXECUTE_SINGLE") /\ execution_stage = "EXECUTE_SINGLE"
  BY DEF ExecuteSingle, Edge
<1>2. ~ reg_write_enable
  BY <1>1 DEF reg_write_enable
<1>3. ~ (opcode \in Branches /\ BranchTaken) /\ opcode # RET => ~ pc_write_enable
  BY <1>1 DEF pc_write_enable
<1> QED
  BY <1>1, <1>2, <1>3 DEF Edge, NextRegs, NextPc

LEMMA CompareStep ==
  ASSUME IInv, ExecuteSingle, opcode \in {CMP, TEST}
  PROVE  Architecture!Compare
<1>1. execution_stage = "EXECUTE_SINGLE"
  BY DEF ExecuteSingle, Edge
<1>2. opcode \in RegisterOps /\ opcode \notin Branches /\ opcode # RET
  BY DEF RegisterOps, Branches, RET, CMP, TEST, JR, JRS, JRNS, JRC, JRNC, JRZ, JRNZ
<1>3. regs' = regs /\ flags' = NextFlags /\ pc' = pc
  BY <1>2, NoRegisterWrite
<1>4. sr = regs[Architecture!rs] /\ dr = regs[Architecture!rd] /\ sr \in Word /\ dr \in Word
  BY <1>2, RegisterOperands
<1>5. opcode = CMP => NextFlags = Architecture!SubFlags(sr, dr, 0)
  BY <1>1, <1>4, ArithmeticWires, DifferenceFlags DEF Computes
<1>6. opcode = TEST => NextFlags = Architecture!LogicFlags(BitAnd(sr, dr))
  BY <1>1, BitWires, BitFlags DEF Computes, AluOut
<1> QED
  BY <1>3, <1>4, <1>5, <1>6, SingleCycle, SameCodes, SameWords DEF Architecture!Compare

(* Branches, CLC, STC, RET and the undefined words hold the flags or set   *)
(* the carry.                                                              *)
LEMMA ControlFlags ==
  ASSUME execution_stage = "EXECUTE_SINGLE", opcode \notin RegisterOps
  PROVE  NextFlags = CASE opcode = CLC -> [flags EXCEPT !.c = 0]
                       [] opcode = STC -> [flags EXCEPT !.c = 1]
                       [] OTHER        -> flags
<1>1. sst = CASE opcode = CLC -> "CLR_C"
              [] opcode = STC -> "SET_C"
              [] OTHER        -> "HOLD"
  BY DEF sst, Single, Double, CLC, STC
<1>2. CLC # STC
  BY DEF CLC, STC
<1> QED
  BY <1>1, <1>2 DEF NextFlags

LEMMA BranchStep ==
  ASSUME IInv, ExecuteSingle, opcode \in Branches
  PROVE  Architecture!Branch
<1> USE DEF Single, Second, Double, AdvancesPc
<1>1. Edge("EXECUTE_SINGLE") /\ execution_stage = "EXECUTE_SINGLE"
  BY DEF ExecuteSingle, Edge
<1>2. opcode \notin RegisterOps /\ opcode \notin {CLC, STC, RET}
  BY DEF Branches, RegisterOps, CLC, STC, RET, ADD, SUB, AND, CMP, XOR, TEST, OR, MVRR,
     DEC, INC, SHL, SHR, ADC, SBB, NOT, ASR, JR, JRS, JRNS, JRC, JRNC, JRZ, JRNZ
<1>3. regs' = regs /\ flags' = flags /\ (~ BranchTaken => pc' = pc)
  BY <1>1, <1>2, NoRegisterWrite, ControlFlags
<1>4. ASSUME BranchTaken PROVE pc' = Plus(pc, SignExtend(Imm8(instruction)))
  <2>1. opcode \notin {SUB, CMP, DEC, SBB, AND, TEST, OR, XOR, SHL, SHR, NOT, ASR,
                       MVRR, INC, ADC}
    BY <1>2 DEF RegisterOps
  <2>2. /\ alu_func = "ADD" /\ alu_in_sel = "BR" /\ carry_in_select = "ZERO"
        /\ offset = Imm8(instruction)
    BY <1>1, <1>2, <2>1 DEF alu_func, alu_in_sel, carry_in_select, offset
  <2>3. pc_write_enable
    BY <1>1, <1>4 DEF pc_write_enable
  <2> QED
    BY <1>1, <2>2, <2>3, RelativeSum DEF IInv, Edge, NextPc
<1>5. Architecture!op = opcode
  BY SingleCycle
<1>6. Architecture!Take <=> BranchTaken
  BY <1>5, SameCodes DEF Architecture!Take, BranchTaken
<1> QED
  BY <1>3, <1>4, <1>5, <1>6, SingleCycle, SameCodes, SameWords DEF Architecture!Branch

LEMMA SetCarryStep ==
  ASSUME IInv, ExecuteSingle, opcode \in {CLC, STC}
  PROVE  Architecture!SetCarry
<1>1. execution_stage = "EXECUTE_SINGLE"
  BY DEF ExecuteSingle, Edge
<1>2. /\ opcode \notin RegisterOps /\ opcode \notin Branches /\ opcode # RET
      /\ CLC # STC
  BY DEF Branches, RegisterOps, CLC, STC, RET, ADD, SUB, AND, CMP, XOR, TEST, OR, MVRR,
     DEC, INC, SHL, SHR, ADC, SBB, NOT, ASR, JR, JRS, JRNS, JRC, JRNC, JRZ, JRNZ
<1>3. regs' = regs /\ flags' = NextFlags /\ pc' = pc
  BY <1>2, NoRegisterWrite
<1>4. NextFlags = IF opcode = CLC THEN [flags EXCEPT !.c = 0] ELSE [flags EXCEPT !.c = 1]
  BY <1>1, <1>2, ControlFlags
<1> QED
  BY <1>2, <1>3, <1>4, SingleCycle, SameCodes DEF Architecture!SetCarry

LEMMA ReturnStep ==
  ASSUME IInv, ExecuteSingle, opcode = RET
  PROVE  Architecture!Return
<1> USE DEF Single, Second, Double, AdvancesPc, SelectsOperands
<1>1. Edge("EXECUTE_SINGLE") /\ execution_stage = "EXECUTE_SINGLE"
  BY DEF ExecuteSingle, Edge
<1>2. opcode \notin RegisterOps /\ opcode \notin Branches \cup {CLC, STC}
  BY DEF Branches, RegisterOps, CLC, STC, RET, ADD, SUB, AND, CMP, XOR, TEST, OR, MVRR,
     DEC, INC, SHL, SHR, ADC, SBB, NOT, ASR, JR, JRS, JRNS, JRC, JRNC, JRZ, JRNZ
<1>3. regs' = regs /\ flags' = flags
  BY <1>1, <1>2, NoRegisterWrite, ControlFlags
<1>4. opcode \notin {SUB, CMP, DEC, SBB, AND, TEST, OR, XOR, SHL, SHR, NOT, ASR, INC, ADC}
  BY <1>2 DEF RegisterOps
<1>5. /\ alu_func = "ADD" /\ alu_in_sel = "SR" /\ carry_in_select = "ZERO"
      /\ sour_reg = LinkRegister /\ pc_write_enable
  BY <1>1, <1>2, <1>4 DEF alu_func, alu_in_sel, carry_in_select, sour_reg, pc_write_enable
<1>6. operand_a = sr /\ operand_b = 0 /\ alu_cin = 0
  BY <1>5 DEF operand_a, operand_b, alu_cin, OperandA, OperandB
<1>7. alu_out = regs[LinkRegister]
  BY <1>5, <1>6, WiresTyped, AddressSums DEF alu_out, sr, IInv
<1>8. pc' = regs[LinkRegister]
  BY <1>1, <1>5, <1>7 DEF Edge, NextPc
<1> QED
  BY <1>3, <1>8, SingleCycle, SameCodes DEF Architecture!Return

LEMMA UndefinedStep ==
  ASSUME IInv, ExecuteSingle, opcode \notin Defined
  PROVE  Architecture!Undefined
<1>1. execution_stage = "EXECUTE_SINGLE"
  BY DEF ExecuteSingle, Edge
<1>2. opcode \notin RegisterOps \cup Branches \cup {CLC, STC, RET}
  BY DEF Defined
<1>3. regs' = regs /\ flags' = flags /\ pc' = pc
  BY <1>1, <1>2, NoRegisterWrite, ControlFlags
<1> QED
  BY <1>3, SingleCycle, SameCodes DEF Architecture!Undefined

(* The edge that ends EXECUTE_SINGLE is a step of the instruction set.     *)
LEMMA ExecuteSingleSteps ==
  ASSUME IInv, ExecuteSingle
  PROVE  Architecture!Step
<1>1. opcode \notin Extended \cup {LDRR, STRR}
  BY DEF IInv, PathFollowsInstruction, ExecuteSingle, Edge
<1>2. \/ opcode \in {ADD, ADC, INC, SUB, SBB, DEC}
      \/ opcode \in {AND, OR, XOR, NOT}
      \/ opcode \in {SHL, SHR, ASR}
      \/ opcode = MVRR
      \/ opcode \in {CMP, TEST}
      \/ opcode \in Branches
      \/ opcode \in {CLC, STC}
      \/ opcode = RET
      \/ opcode \notin Defined
  BY <1>1 DEF Defined, RegisterOps
<1> QED
  BY <1>2, ArithmeticStep, LogicStep, ShiftStep, MoveStep, CompareStep, BranchStep,
     SetCarryStep, ReturnStep, UndefinedStep DEF Architecture!Step

-----------------------------------------------------------------------------
(* Two-word instructions and memory accesses.  The address register, and   *)
(* so the bus, shows the word the instruction works on.                    *)
LEMMA DoubleCycle ==
  ASSUME IInv, ExecuteDouble
  PROVE  /\ Architecture!op = opcode
         /\ Architecture!rd = DestReg(instruction)
         /\ Architecture!rs = SourReg(instruction)
         /\ IsaPc' = pc'
         /\ opcode \in {LDRR, STRR} => Architecture!next = pc
         /\ opcode \in {MVRD, JMPA, ADDI, ANDI} =>
              /\ mem_data = Architecture!extension
              /\ Architecture!Plus(Architecture!next, 1) = pc
         /\ opcode = LDRR => mem_data = mem[Cell(regs[SourReg(instruction)])]
<1>1. execution_stage = "EXECUTE_DOUBLE" /\ Edge("EXECUTE_DOUBLE")
  BY DEF ExecuteDouble, Edge
<1>2. execution_stage' = "FETCH_ADDRESS"
  BY <1>1 DEF Edge, NextStage, RetireStages
<1>3. IsaPc = Minus(pc, Fetched) /\ IsaPc' = pc'
  BY <1>1, <1>2 DEF IsaPc
<1>4. mem[Cell(IsaPc)] = instruction
  BY <1>1, <1>3 DEF IInv, InstructionInFlight
<1>5. pc \in Word
  BY DEF IInv, TypeOK
<1>6. opcode \in {LDRR, STRR} => Plus(IsaPc, 1) = pc
  BY <1>3, <1>5 DEF Fetched, Plus, Minus, Word, WordSize
<1>7. opcode \in {MVRD, JMPA, ADDI, ANDI} => opcode \notin {LDRR, STRR}
  BY DEF LDRR, STRR, MVRD, JMPA, ADDI, ANDI
<1>8. opcode \in {MVRD, JMPA, ADDI, ANDI} =>
        /\ Plus(IsaPc, 1) = Minus(pc, 1)
        /\ Plus(Plus(IsaPc, 1), 1) = pc
  BY <1>3, <1>5, <1>7 DEF Fetched, Plus, Minus, Word, WordSize
<1>9. address_bus = CASE opcode = LDRR -> regs[SourReg(instruction)]
                      [] opcode = STRR -> regs[DestReg(instruction)]
                      [] OTHER         -> Minus(pc, 1)
  BY <1>1 DEF IInv, OperandPrepared
<1>10. LDRR # STRR
  BY DEF LDRR, STRR
<1>11. opcode \in {MVRD, JMPA, ADDI, ANDI} => mem_data = mem[Cell(Plus(IsaPc, 1))]
  BY <1>7, <1>8, <1>9 DEF mem_data
<1>12. opcode = LDRR => mem_data = mem[Cell(regs[SourReg(instruction)])]
  BY <1>9, <1>10 DEF mem_data
<1> QED
  BY <1>3, <1>4, <1>6, <1>8, <1>11, <1>12, SameInstruction, SameWords DEF opcode

(* The signals of the last cycle.                                          *)
LEMMA DoubleWires ==
  ASSUME execution_stage = "EXECUTE_DOUBLE",
         opcode \in {LDRR, STRR, MVRD, JMPA, ADDI, ANDI}
  PROVE  /\ dest_reg = DestReg(instruction) /\ sour_reg = SourReg(instruction)
         /\ reg_write_enable <=> opcode \in {LDRR, MVRD, ADDI, ANDI}
         /\ pc_write_enable <=> opcode = JMPA
         /\ opcode = ADDI => Computes("ADD", mem_data, dr, 0)
         /\ opcode = ANDI => Computes("AND", mem_data, dr, 0)
         /\ opcode \in {LDRR, MVRD, JMPA} => alu_out = AluOut("ADD", 0, mem_data, 0)
         /\ opcode \notin {ADDI, ANDI} => NextFlags = flags
<1> USE DEF Single, Second, Double, AdvancesPc, LDRR, STRR, MVRD, JMPA, ADDI, ANDI
<1>1. /\ dest_reg = DestReg(instruction) /\ sour_reg = SourReg(instruction)
      /\ reg_write_enable <=> opcode \in {LDRR, MVRD, ADDI, ANDI}
      /\ pc_write_enable <=> opcode = JMPA
  BY DEF dest_reg, sour_reg, SelectsOperands, reg_write_enable, pc_write_enable
<1>2. /\ sst = IF opcode \in {ADDI, ANDI} THEN "WRITE" ELSE "HOLD"
      /\ alu_func = IF opcode = ANDI THEN "AND" ELSE "ADD"
      /\ alu_in_sel = IF opcode \in {ADDI, ANDI} THEN "DR_MEM"
                      ELSE IF opcode = STRR THEN "SR" ELSE "MEM"
      /\ carry_in_select = "ZERO"
  BY DEF sst, alu_func, alu_in_sel, carry_in_select
<1> QED
  BY <1>1, <1>2 DEF Computes, alu_out, NextFlags, operand_a, operand_b, alu_cin,
                    OperandA, OperandB

LEMMA ExecuteDoubleSteps ==
  ASSUME IInv, ExecuteDouble
  PROVE  Architecture!Step
<1>1. execution_stage = "EXECUTE_DOUBLE" /\ Edge("EXECUTE_DOUBLE")
  BY DEF ExecuteDouble, Edge
<1>2. opcode \in {LDRR, STRR, MVRD, JMPA, ADDI, ANDI}
  BY <1>1 DEF IInv, PathFollowsInstruction, Extended
<1>3. /\ mem_data \in Word /\ dr \in Word /\ dr = regs[DestReg(instruction)]
      /\ pc \in Word
  BY <1>1, <1>2, WiresTyped, DoubleWires DEF IInv, TypeOK, dr
<1>4. /\ regs' = IF opcode \in {LDRR, MVRD, ADDI, ANDI}
                 THEN [regs EXCEPT ![DestReg(instruction)] = alu_out] ELSE regs
      /\ pc' = IF opcode = JMPA THEN alu_out ELSE pc
      /\ flags' = NextFlags
  BY <1>1, <1>2, DoubleWires DEF Edge, NextRegs, NextPc
<1>5. opcode # STRR => mem' = mem
  BY <1>1, ReadingEdge DEF Double
<1>6. opcode \in {LDRR, MVRD, JMPA} => alu_out = mem_data
  BY <1>1, <1>2, <1>3, DoubleWires, AddressSums
<1> DEFINE d == DestReg(instruction)
           s == SourReg(instruction)
<1>7. Architecture!op = opcode /\ Architecture!rd = d /\ Architecture!rs = s /\ IsaPc' = pc'
  BY DoubleCycle
<1> USE DEF LDRR, STRR, MVRD, JMPA, ADDI, ANDI
<1>8. CASE opcode = JMPA
  <2>1. Architecture!Jump
    BY <1>1, <1>2, <1>4, <1>5, <1>6, <1>8, DoubleCycle, DoubleWires, SameCodes
       DEF Architecture!Jump
  <2> QED
    BY <2>1 DEF Architecture!Step
<1>9. CASE opcode = LDRR
  <2>1. alu_out = mem[Architecture!IsaCell(regs[s])] /\ pc = Architecture!next
    BY <1>6, <1>9, DoubleCycle, SameWords
  <2>2. regs' = [regs EXCEPT ![d] = alu_out] /\ pc' = pc /\ flags' = flags /\ mem' = mem
    BY <1>1, <1>2, <1>4, <1>5, <1>9, DoubleWires
  <2>3. Architecture!Load
    BY <1>9, <1>7, <2>1, <2>2, SameCodes DEF Architecture!Load, Architecture!WriteResult
  <2> QED
    BY <2>3 DEF Architecture!Step
<1>10. CASE opcode = MVRD
  <2>1. Architecture!Immediate
    BY <1>1, <1>2, <1>4, <1>5, <1>6, <1>10, DoubleCycle, DoubleWires, SameCodes
       DEF Architecture!Immediate
  <2> QED
    BY <2>1 DEF Architecture!Step
<1>11. CASE opcode = ADDI
  <2>1. alu_out = Plus(regs[d], mem_data) /\ NextFlags = Architecture!AddFlags(mem_data, regs[d], 0)
    BY <1>1, <1>2, <1>3, <1>11, DoubleWires, SumFlags DEF Computes, Plus, Word
  <2>2. regs' = [regs EXCEPT ![d] = alu_out] /\ pc' = pc /\ flags' = NextFlags /\ mem' = mem
    BY <1>4, <1>5, <1>11
  <2>3. mem_data = Architecture!extension /\ Architecture!Plus(Architecture!next, 1) = pc
    BY <1>11, DoubleCycle
  <2>4. Architecture!Plus(regs[d], mem_data) = Plus(regs[d], mem_data)
    BY SameWords
  <2>5. Architecture!Immediate
    BY <1>11, <1>7, <2>1, <2>2, <2>3, <2>4, SameCodes DEF Architecture!Immediate
  <2> QED
    BY <2>5 DEF Architecture!Step
<1>12. CASE opcode = ANDI
  <2>1. alu_out = BitAnd(mem_data, regs[d]) /\ NextFlags = Architecture!LogicFlags(alu_out)
    BY <1>1, <1>2, <1>3, <1>12, DoubleWires, BitFlags DEF Computes, AluOut
  <2>2. regs' = [regs EXCEPT ![d] = alu_out] /\ pc' = pc /\ flags' = NextFlags /\ mem' = mem
    BY <1>4, <1>5, <1>12
  <2>3. mem_data = Architecture!extension /\ Architecture!Plus(Architecture!next, 1) = pc
    BY <1>12, DoubleCycle
  <2>4. Architecture!BitAnd(mem_data, regs[d]) = BitAnd(mem_data, regs[d])
    BY SameWords
  <2>5. Architecture!Immediate
    BY <1>12, <1>7, <2>1, <2>2, <2>3, <2>4, SameCodes DEF Architecture!Immediate
  <2> QED
    BY <2>5 DEF Architecture!Step
<1>13. CASE opcode = STRR
  <2>1. StoreRetires
    BY <1>1, <1>13, StoreEdge DEF Double
  <2>2. instruction = mem[Cell(Minus(pc, 1))]
    BY <1>1, <1>13 DEF IInv, InstructionInFlight, Fetched
  <2>3. mem' = [mem EXCEPT ![Cell(regs[d])] = regs[s]]
    BY <2>1, <2>2 DEF StoreRetires
  <2>4. regs' = regs /\ pc' = pc /\ flags' = flags
    BY <1>1, <1>2, <1>4, <1>13, DoubleWires
  <2>5. Architecture!IsaCell(regs[d]) = Cell(regs[d]) /\ pc = Architecture!next
    BY <1>13, DoubleCycle, SameWords
  <2>6. Architecture!Store
    BY <1>13, <1>7, <2>3, <2>4, <2>5, SameCodes DEF Architecture!Store
  <2> QED
    BY <2>6 DEF Architecture!Step
<1> QED
  BY <1>2, <1>8, <1>9, <1>10, <1>11, <1>12, <1>13

-----------------------------------------------------------------------------
LEMMA ResetResets ==
  ASSUME Reset
  PROVE  Architecture!IsaReset
<1>1. execution_stage' = "RESET_INIT" /\ pc' = 0
  BY DEF Reset, Cleared
<1>2. IsaPc' = 0
  BY <1>1 DEF IsaPc
<1> QED
  BY <1>2, SameCodes DEF Reset, Cleared, Architecture!IsaReset

LEMMA InitRefines == Init => Architecture!IsaInit
  BY SameCodes DEF Init, Cleared, IsaPc, Architecture!IsaInit

LEMMA StepRefines == IInv /\ [Next]_vars => [Architecture!IsaNext]_(Architecture!isaVars)
<1> SUFFICES ASSUME IInv, [Next]_vars
             PROVE  Architecture!IsaNext \/ UNCHANGED Architecture!isaVars
  OBVIOUS
<1>1. CASE ResetInit
  BY <1>1, ResetInitStutters
<1>2. CASE FetchAddress
  BY <1>2, FetchAddressStutters
<1>3. CASE FetchDecode
  BY <1>3, FetchDecodeStutters
<1>4. CASE ExecuteSingle
  BY <1>4, ExecuteSingleSteps DEF Architecture!IsaNext
<1>5. CASE FetchSecondWord
  BY <1>5, FetchSecondWordStutters
<1>6. CASE ExecuteDouble
  BY <1>6, ExecuteDoubleSteps DEF Architecture!IsaNext
<1>7. CASE SaveReturnAddress
  BY <1>7, SaveReturnAddressCalls DEF Architecture!IsaNext, Architecture!Step
<1>8. CASE LoadCallTarget
  BY <1>8, LoadCallTargetStutters
<1>9. CASE Reset
  BY <1>9, ResetResets DEF Architecture!IsaNext
<1>10. CASE UNCHANGED vars
  <2>1. IsaPc' = IsaPc
    BY <1>10 DEF vars, IsaPc, Fetched, opcode, offset, Single
  <2> QED
    BY <1>10, <2>1 DEF vars, Architecture!isaVars
<1> QED
  BY <1>1, <1>2, <1>3, <1>4, <1>5, <1>6, <1>7, <1>8, <1>9, <1>10 DEF Next, Clock

(* Every behaviour of the processor, on every program in every memory and  *)
(* whatever reset interrupts, is a behaviour of the instruction set.       *)
THEOREM RefinementCorrect == Spec => ImplementsIsa
  BY InitRefines, StepRefines, Invariance, PTL DEF Spec, ImplementsIsa, Architecture!IsaSpec

-----------------------------------------------------------------------------
(***************************************************************************)
(* The processor with the split bus takes the steps of the one with the    *)
(* shared bus, for every memory, every program and whatever floats on the  *)
(* incoming port; so it implements the instruction set too.                *)
(***************************************************************************)
(* While the memory is not written, both read the same word.               *)
LEMMA SameWiresReading ==
  ASSUME wr # 0, NEW data_bus_in \in DataBusIn
  PROVE  /\ data_bus_in = mem_data /\ data_bus_in = data_bus
         /\ pnr_operand_a(data_bus_in) = operand_a
         /\ pnr_operand_b(data_bus_in) = operand_b
  BY DEF DataBusIn, data_bus, pnr_operand_a, pnr_operand_b, operand_a, operand_b

(* While it is, the ALU passes on the source register.                     *)
LEMMA SameWiresWriting ==
  ASSUME wr = 0, NEW data_bus_in
  PROVE  /\ execution_stage = "EXECUTE_DOUBLE"
         /\ ~instruction_load_enable
         /\ pnr_operand_a(data_bus_in) = operand_a
         /\ pnr_operand_b(data_bus_in) = operand_b
<1>1. execution_stage = "EXECUTE_DOUBLE" /\ opcode = STRR
  BY DEF wr, Double
<1>2. STRR # LDRR /\ STRR \notin {ADDI, ANDI, MVRD, JMPA}
  BY DEF LDRR, STRR, JMPA, MVRD, ADDI, ANDI
<1>3. alu_in_sel = "SR"
  BY <1>1, <1>2 DEF alu_in_sel, AdvancesPc, Single, Second, Double
<1> QED
  BY <1>1, <1>3 DEF instruction_load_enable, pnr_operand_a, pnr_operand_b,
     operand_a, operand_b, OperandA, OperandB

LEMMA PnrEdgeIsEdge ==
  ASSUME NEW data_bus_in \in DataBusIn, PnrEdge(data_bus_in)
  PROVE  Edge(execution_stage)
<1>1. /\ pnr_operand_a(data_bus_in) = operand_a
      /\ pnr_operand_b(data_bus_in) = operand_b
  BY SameWiresReading, SameWiresWriting
<1>2. data_bus_out(data_bus_in) = alu_out
  BY <1>1 DEF data_bus_out, alu_out
<1>3. NextStage(execution_stage, data_bus_in) = NextStage(execution_stage, data_bus)
  BY SameWiresReading, SameWiresWriting DEF NextStage, RetireStages
<1>4. instruction' = NextInstruction
  BY SameWiresReading, SameWiresWriting DEF PnrEdge, NextInstruction
<1>5. flags' = NextFlags
  BY <1>1 DEF PnrEdge, pnr_flags, NextFlags
<1>6. mem' = NextMem
  BY <1>2 DEF PnrEdge, NextMem, data_bus
<1> QED
  BY <1>2, <1>3, <1>4, <1>5, <1>6 DEF PnrEdge, Edge, NextPc, NextRegs, NextAddress

(* The stage machine is in one of its stages, each of which has an edge.   *)
KnownStage == execution_stage \in Stages

LEMMA PnrStep == KnownStage /\ [PnrNext]_vars => [Next]_vars /\ KnownStage'
<1> SUFFICES ASSUME KnownStage, [PnrNext]_vars
             PROVE  [Next]_vars /\ KnownStage'
  OBVIOUS
<1> USE DEF KnownStage
<1>1. CASE PnrClock
  <2>1. PICK data_bus_in \in DataBusIn : PnrEdge(data_bus_in)
    BY <1>1 DEF PnrClock
  <2>2. Edge(execution_stage)
    BY <2>1, PnrEdgeIsEdge
  <2>3. Clock
    BY <2>2 DEF Stages, Clock, ResetInit, FetchAddress, FetchDecode, ExecuteSingle,
       FetchSecondWord, ExecuteDouble, SaveReturnAddress, LoadCallTarget
  <2>4. KnownStage'
    BY <2>2, NextStageType DEF Edge
  <2> QED
    BY <2>3, <2>4 DEF Next
<1>2. CASE Reset
  BY <1>2 DEF Reset, Cleared, Stages, Next
<1>3. CASE UNCHANGED vars
  BY <1>3 DEF vars
<1> QED
  BY <1>1, <1>2, <1>3 DEF PnrNext

(* What is built behaves, cycle for cycle, as what is simulated, although  *)
(* it does not see its own output on the bus.                              *)
THEOREM PnrCorrect == PnrSpec => PnrImplementsCore
<1>1. Init => KnownStage
  BY DEF KnownStage, Init, Cleared, Stages
<1> QED
  BY <1>1, PnrStep, PTL DEF PnrSpec, PnrImplementsCore, Spec

(* Hence what is built executes the instruction set as well.               *)
THEOREM PnrImplementsIsa == PnrSpec => ImplementsIsa
  BY PnrCorrect, RefinementCorrect DEF PnrImplementsCore

-----------------------------------------------------------------------------
(* What an instruction makes of the state is a function of it.             *)
ProcessorIsa == INSTANCE IsaProofs WITH pc <- IsaPc

LEMMA ProcessorSteps == Architecture!Step <=> ProcessorIsa!Step
  BY DEF Architecture!Step, Architecture!Arithmetic, Architecture!Logic, Architecture!Shift,
     Architecture!Move, Architecture!Compare, Architecture!Take, Architecture!Branch,
     Architecture!SetCarry, Architecture!Jump, Architecture!Immediate,
     Architecture!Load, Architecture!Store, Architecture!Call, Architecture!Return,
     Architecture!Undefined, Architecture!WriteResult, Architecture!IsaCell,
     Architecture!ir, Architecture!op, Architecture!rd, Architecture!rs,
     Architecture!next, Architecture!extension, Architecture!B, Architecture!LogicFlags,
     Architecture!ShiftFlags, Architecture!AddFlags, Architecture!SubFlags,
     Architecture!Opcode, Architecture!DestReg, Architecture!SourReg, Architecture!Imm8,
     Architecture!LinkRegister, Architecture!ADD, Architecture!SUB, Architecture!AND,
     Architecture!CMP, Architecture!XOR, Architecture!TEST, Architecture!OR,
     Architecture!MVRR, Architecture!DEC, Architecture!INC, Architecture!SHL,
     Architecture!SHR, Architecture!ADC, Architecture!SBB, Architecture!NOT,
     Architecture!ASR, Architecture!RegisterOps, Architecture!JR, Architecture!JRS,
     Architecture!JRNS, Architecture!JRC, Architecture!JRNC, Architecture!JRZ,
     Architecture!JRNZ, Architecture!Branches, Architecture!CLC, Architecture!STC,
     Architecture!RET, Architecture!JMPA, Architecture!MVRD, Architecture!LDRR,
     Architecture!STRR, Architecture!ADDI, Architecture!ANDI, Architecture!CALLA,
     Architecture!Extended, Architecture!Defined, Architecture!WordSize,
     Architecture!Bit, Architecture!Sign, Architecture!Plus, Architecture!LowByte,
     Architecture!HighByte, Architecture!Pack, Architecture!BitAnd, Architecture!BitOr,
     Architecture!BitXor, Architecture!BitNot, Architecture!SignExtend,
     ProcessorIsa!Step, ProcessorIsa!Arithmetic, ProcessorIsa!Logic, ProcessorIsa!Shift,
     ProcessorIsa!Move, ProcessorIsa!Compare, ProcessorIsa!Take, ProcessorIsa!Branch,
     ProcessorIsa!SetCarry, ProcessorIsa!Jump, ProcessorIsa!Immediate,
     ProcessorIsa!Load, ProcessorIsa!Store, ProcessorIsa!Call, ProcessorIsa!Return,
     ProcessorIsa!Undefined, ProcessorIsa!WriteResult, ProcessorIsa!IsaCell,
     ProcessorIsa!ir, ProcessorIsa!op, ProcessorIsa!rd, ProcessorIsa!rs,
     ProcessorIsa!next, ProcessorIsa!extension, ProcessorIsa!B, ProcessorIsa!LogicFlags,
     ProcessorIsa!ShiftFlags, ProcessorIsa!AddFlags, ProcessorIsa!SubFlags,
     ProcessorIsa!Opcode, ProcessorIsa!DestReg, ProcessorIsa!SourReg, ProcessorIsa!Imm8,
     ProcessorIsa!LinkRegister, ProcessorIsa!ADD, ProcessorIsa!SUB, ProcessorIsa!AND,
     ProcessorIsa!CMP, ProcessorIsa!XOR, ProcessorIsa!TEST, ProcessorIsa!OR,
     ProcessorIsa!MVRR, ProcessorIsa!DEC, ProcessorIsa!INC, ProcessorIsa!SHL,
     ProcessorIsa!SHR, ProcessorIsa!ADC, ProcessorIsa!SBB, ProcessorIsa!NOT,
     ProcessorIsa!ASR, ProcessorIsa!RegisterOps, ProcessorIsa!JR, ProcessorIsa!JRS,
     ProcessorIsa!JRNS, ProcessorIsa!JRC, ProcessorIsa!JRNC, ProcessorIsa!JRZ,
     ProcessorIsa!JRNZ, ProcessorIsa!Branches, ProcessorIsa!CLC, ProcessorIsa!STC,
     ProcessorIsa!RET, ProcessorIsa!JMPA, ProcessorIsa!MVRD, ProcessorIsa!LDRR,
     ProcessorIsa!STRR, ProcessorIsa!ADDI, ProcessorIsa!ANDI, ProcessorIsa!CALLA,
     ProcessorIsa!Extended, ProcessorIsa!Defined, ProcessorIsa!WordSize,
     ProcessorIsa!Bit, ProcessorIsa!Sign, ProcessorIsa!Plus, ProcessorIsa!LowByte,
     ProcessorIsa!HighByte, ProcessorIsa!Pack, ProcessorIsa!BitAnd, ProcessorIsa!BitOr,
     ProcessorIsa!BitXor, ProcessorIsa!BitNot, ProcessorIsa!SignExtend
=============================================================================
