---------------------------- MODULE ReferenceProofs --------------------------
(***************************************************************************)
(* The reference model beside a processor, for every memory depth and      *)
(* every program.                                                          *)
(*                                                                         *)
(* The instruction set is a function After of its states.  The reference   *)
(* run is a sequence of states, each After the one before it; its rows and *)
(* events are determined by that sequence, although the memories of it are *)
(* nowhere kept: the invariant says that such a sequence exists.  A        *)
(* processor that executes an instruction goes to the same state.          *)
(***************************************************************************)
EXTENDS ReferenceRun, CpuProofs

ReferenceIsa == INSTANCE IsaProofs WITH pc <- refPc, regs <- refRegs, flags <- refFlags,
                                        mem <- refMem

-----------------------------------------------------------------------------
(* The facts about the instruction set, for the reference model.           *)
LEMMA ReferenceSteps == Reference!Step <=> ReferenceIsa!Step
  BY DEF Reference!Step, Reference!Arithmetic, Reference!Logic, Reference!Shift,
     Reference!Move, Reference!Compare, Reference!Take, Reference!Branch,
     Reference!SetCarry, Reference!Jump, Reference!Immediate, Reference!Load,
     Reference!Store, Reference!Call, Reference!Return, Reference!Undefined,
     Reference!WriteResult, Reference!IsaCell, Reference!ir, Reference!op, Reference!rd,
     Reference!rs, Reference!next, Reference!extension, Reference!B,
     Reference!LogicFlags, Reference!ShiftFlags, Reference!AddFlags, Reference!SubFlags,
     Reference!Opcode, Reference!DestReg, Reference!SourReg, Reference!Imm8,
     Reference!LinkRegister, Reference!ADD, Reference!SUB, Reference!AND, Reference!CMP,
     Reference!XOR, Reference!TEST, Reference!OR, Reference!MVRR, Reference!DEC,
     Reference!INC, Reference!SHL, Reference!SHR, Reference!ADC, Reference!SBB,
     Reference!NOT, Reference!ASR, Reference!RegisterOps, Reference!JR, Reference!JRS,
     Reference!JRNS, Reference!JRC, Reference!JRNC, Reference!JRZ, Reference!JRNZ,
     Reference!Branches, Reference!CLC, Reference!STC, Reference!RET, Reference!JMPA,
     Reference!MVRD, Reference!LDRR, Reference!STRR, Reference!ADDI, Reference!ANDI,
     Reference!CALLA, Reference!Extended, Reference!Defined, Reference!WordSize,
     Reference!Bit, Reference!Sign, Reference!Plus, Reference!LowByte,
     Reference!HighByte, Reference!Pack, Reference!BitAnd, Reference!BitOr,
     Reference!BitXor, Reference!BitNot, Reference!SignExtend, ReferenceIsa!Step,
     ReferenceIsa!Arithmetic, ReferenceIsa!Logic, ReferenceIsa!Shift, ReferenceIsa!Move,
     ReferenceIsa!Compare, ReferenceIsa!Take, ReferenceIsa!Branch,
     ReferenceIsa!SetCarry, ReferenceIsa!Jump, ReferenceIsa!Immediate,
     ReferenceIsa!Load, ReferenceIsa!Store, ReferenceIsa!Call, ReferenceIsa!Return,
     ReferenceIsa!Undefined, ReferenceIsa!WriteResult, ReferenceIsa!IsaCell,
     ReferenceIsa!ir, ReferenceIsa!op, ReferenceIsa!rd, ReferenceIsa!rs,
     ReferenceIsa!next, ReferenceIsa!extension, ReferenceIsa!B, ReferenceIsa!LogicFlags,
     ReferenceIsa!ShiftFlags, ReferenceIsa!AddFlags, ReferenceIsa!SubFlags,
     ReferenceIsa!Opcode, ReferenceIsa!DestReg, ReferenceIsa!SourReg, ReferenceIsa!Imm8,
     ReferenceIsa!LinkRegister, ReferenceIsa!ADD, ReferenceIsa!SUB, ReferenceIsa!AND,
     ReferenceIsa!CMP, ReferenceIsa!XOR, ReferenceIsa!TEST, ReferenceIsa!OR,
     ReferenceIsa!MVRR, ReferenceIsa!DEC, ReferenceIsa!INC, ReferenceIsa!SHL,
     ReferenceIsa!SHR, ReferenceIsa!ADC, ReferenceIsa!SBB, ReferenceIsa!NOT,
     ReferenceIsa!ASR, ReferenceIsa!RegisterOps, ReferenceIsa!JR, ReferenceIsa!JRS,
     ReferenceIsa!JRNS, ReferenceIsa!JRC, ReferenceIsa!JRNC, ReferenceIsa!JRZ,
     ReferenceIsa!JRNZ, ReferenceIsa!Branches, ReferenceIsa!CLC, ReferenceIsa!STC,
     ReferenceIsa!RET, ReferenceIsa!JMPA, ReferenceIsa!MVRD, ReferenceIsa!LDRR,
     ReferenceIsa!STRR, ReferenceIsa!ADDI, ReferenceIsa!ANDI, ReferenceIsa!CALLA,
     ReferenceIsa!Extended, ReferenceIsa!Defined, ReferenceIsa!WordSize,
     ReferenceIsa!Bit, ReferenceIsa!Sign, ReferenceIsa!Plus, ReferenceIsa!LowByte,
     ReferenceIsa!HighByte, ReferenceIsa!Pack, ReferenceIsa!BitAnd, ReferenceIsa!BitOr,
     ReferenceIsa!BitXor, ReferenceIsa!BitNot, ReferenceIsa!SignExtend

(* Both machines obey the same function.                                   *)
LEMMA SameFunction ==
  ASSUME NEW p, NEW r, NEW f, NEW m
  PROVE  /\ ProcessorIsa!AfterPc(p, r, f, m) = ReferenceIsa!AfterPc(p, r, f, m)
         /\ ProcessorIsa!AfterRegs(p, r, f, m) = ReferenceIsa!AfterRegs(p, r, f, m)
         /\ ProcessorIsa!AfterFlags(p, r, f, m) = ReferenceIsa!AfterFlags(p, r, f, m)
         /\ ProcessorIsa!AfterMem(p, r, m) = ReferenceIsa!AfterMem(p, r, m)
<1>1. ASSUME NEW w, NEW x
      PROVE  /\ ProcessorIsa!IsaCell(w) = ReferenceIsa!IsaCell(w)
             /\ ProcessorIsa!Opcode(w) = ReferenceIsa!Opcode(w)
             /\ ProcessorIsa!DestReg(w) = ReferenceIsa!DestReg(w)
             /\ ProcessorIsa!SourReg(w) = ReferenceIsa!SourReg(w)
             /\ ProcessorIsa!Imm8(w) = ReferenceIsa!Imm8(w)
             /\ ProcessorIsa!Plus(w, x) = ReferenceIsa!Plus(w, x)
             /\ ProcessorIsa!SignExtend(w) = ReferenceIsa!SignExtend(w)
  BY DEF ProcessorIsa!IsaCell, ProcessorIsa!Opcode, ProcessorIsa!DestReg,
         ProcessorIsa!SourReg, ProcessorIsa!Imm8, ProcessorIsa!Plus,
         ProcessorIsa!SignExtend, ProcessorIsa!WordSize, ReferenceIsa!IsaCell,
         ReferenceIsa!Opcode, ReferenceIsa!DestReg, ReferenceIsa!SourReg, ReferenceIsa!Imm8,
         ReferenceIsa!Plus, ReferenceIsa!SignExtend, ReferenceIsa!WordSize
<1>2. ProcessorIsa!At(p, m) = ReferenceIsa!At(p, m) /\ ProcessorIsa!Second(p, m) = ReferenceIsa!Second(p, m)
  BY <1>1 DEF ProcessorIsa!At, ProcessorIsa!Second, ReferenceIsa!At, ReferenceIsa!Second
<1>3. ProcessorIsa!Operand(p, r, m) = ReferenceIsa!Operand(p, r, m)
  BY <1>1, <1>2 DEF ProcessorIsa!Operand, ProcessorIsa!MVRD, ProcessorIsa!ADDI, ProcessorIsa!ANDI,
         ProcessorIsa!LDRR, ReferenceIsa!Operand, ReferenceIsa!MVRD, ReferenceIsa!ADDI,
         ReferenceIsa!ANDI, ReferenceIsa!LDRR
<1>4. ASSUME NEW o, NEW a, NEW b
      PROVE  ProcessorIsa!Value(o, a, b, f) = ReferenceIsa!Value(o, a, b, f)
  BY DEF ProcessorIsa!Value, ProcessorIsa!WordSize, ProcessorIsa!BitAnd,
         ProcessorIsa!BitOr, ProcessorIsa!BitXor, ProcessorIsa!BitNot,
         ProcessorIsa!Pack, ProcessorIsa!Bit, ProcessorIsa!LowByte,
         ProcessorIsa!HighByte, ProcessorIsa!Sign, ProcessorIsa!B, ProcessorIsa!ADD,
         ProcessorIsa!SUB, ProcessorIsa!AND, ProcessorIsa!CMP, ProcessorIsa!XOR,
         ProcessorIsa!TEST, ProcessorIsa!OR, ProcessorIsa!MVRR, ProcessorIsa!DEC,
         ProcessorIsa!INC, ProcessorIsa!SHL, ProcessorIsa!SHR, ProcessorIsa!ADC,
         ProcessorIsa!SBB, ProcessorIsa!NOT, ProcessorIsa!ASR, ProcessorIsa!JR,
         ProcessorIsa!JRS, ProcessorIsa!JRNS, ProcessorIsa!JRC, ProcessorIsa!JRNC,
         ProcessorIsa!JRZ, ProcessorIsa!JRNZ, ProcessorIsa!CLC, ProcessorIsa!STC,
         ProcessorIsa!RET, ProcessorIsa!JMPA, ProcessorIsa!MVRD, ProcessorIsa!LDRR,
         ProcessorIsa!STRR, ProcessorIsa!ADDI, ProcessorIsa!ANDI, ProcessorIsa!CALLA,
         ReferenceIsa!Value, ReferenceIsa!WordSize, ReferenceIsa!BitAnd, ReferenceIsa!BitOr,
         ReferenceIsa!BitXor, ReferenceIsa!BitNot, ReferenceIsa!Pack, ReferenceIsa!Bit,
         ReferenceIsa!LowByte, ReferenceIsa!HighByte, ReferenceIsa!Sign, ReferenceIsa!B,
         ReferenceIsa!ADD, ReferenceIsa!SUB, ReferenceIsa!AND, ReferenceIsa!CMP, ReferenceIsa!XOR,
         ReferenceIsa!TEST, ReferenceIsa!OR, ReferenceIsa!MVRR, ReferenceIsa!DEC, ReferenceIsa!INC,
         ReferenceIsa!SHL, ReferenceIsa!SHR, ReferenceIsa!ADC, ReferenceIsa!SBB, ReferenceIsa!NOT,
         ReferenceIsa!ASR, ReferenceIsa!JR, ReferenceIsa!JRS, ReferenceIsa!JRNS, ReferenceIsa!JRC,
         ReferenceIsa!JRNC, ReferenceIsa!JRZ, ReferenceIsa!JRNZ, ReferenceIsa!CLC, ReferenceIsa!STC,
         ReferenceIsa!RET, ReferenceIsa!JMPA, ReferenceIsa!MVRD, ReferenceIsa!LDRR, ReferenceIsa!STRR,
         ReferenceIsa!ADDI, ReferenceIsa!ANDI, ReferenceIsa!CALLA
<1>5. ASSUME NEW o, NEW a, NEW b
      PROVE  ProcessorIsa!FlagsLeft(o, a, b, f) = ReferenceIsa!FlagsLeft(o, a, b, f)
  BY <1>4 DEF ProcessorIsa!FlagsLeft, ProcessorIsa!AddFlags, ProcessorIsa!SubFlags,
         ProcessorIsa!LogicFlags, ProcessorIsa!ShiftFlags, ProcessorIsa!B,
         ProcessorIsa!WordSize, ProcessorIsa!Sign, ProcessorIsa!B, ProcessorIsa!ADD,
         ProcessorIsa!SUB, ProcessorIsa!AND, ProcessorIsa!CMP, ProcessorIsa!XOR,
         ProcessorIsa!TEST, ProcessorIsa!OR, ProcessorIsa!MVRR, ProcessorIsa!DEC,
         ProcessorIsa!INC, ProcessorIsa!SHL, ProcessorIsa!SHR, ProcessorIsa!ADC,
         ProcessorIsa!SBB, ProcessorIsa!NOT, ProcessorIsa!ASR, ProcessorIsa!JR,
         ProcessorIsa!JRS, ProcessorIsa!JRNS, ProcessorIsa!JRC, ProcessorIsa!JRNC,
         ProcessorIsa!JRZ, ProcessorIsa!JRNZ, ProcessorIsa!CLC, ProcessorIsa!STC,
         ProcessorIsa!RET, ProcessorIsa!JMPA, ProcessorIsa!MVRD, ProcessorIsa!LDRR,
         ProcessorIsa!STRR, ProcessorIsa!ADDI, ProcessorIsa!ANDI, ProcessorIsa!CALLA,
         ReferenceIsa!FlagsLeft, ReferenceIsa!AddFlags, ReferenceIsa!SubFlags,
         ReferenceIsa!LogicFlags, ReferenceIsa!ShiftFlags, ReferenceIsa!B, ReferenceIsa!WordSize,
         ReferenceIsa!Sign, ReferenceIsa!B, ReferenceIsa!ADD, ReferenceIsa!SUB, ReferenceIsa!AND,
         ReferenceIsa!CMP, ReferenceIsa!XOR, ReferenceIsa!TEST, ReferenceIsa!OR, ReferenceIsa!MVRR,
         ReferenceIsa!DEC, ReferenceIsa!INC, ReferenceIsa!SHL, ReferenceIsa!SHR, ReferenceIsa!ADC,
         ReferenceIsa!SBB, ReferenceIsa!NOT, ReferenceIsa!ASR, ReferenceIsa!JR, ReferenceIsa!JRS,
         ReferenceIsa!JRNS, ReferenceIsa!JRC, ReferenceIsa!JRNC, ReferenceIsa!JRZ, ReferenceIsa!JRNZ,
         ReferenceIsa!CLC, ReferenceIsa!STC, ReferenceIsa!RET, ReferenceIsa!JMPA, ReferenceIsa!MVRD,
         ReferenceIsa!LDRR, ReferenceIsa!STRR, ReferenceIsa!ADDI, ReferenceIsa!ANDI, ReferenceIsa!CALLA
<1>6. ProcessorIsa!AfterPc(p, r, f, m) = ReferenceIsa!AfterPc(p, r, f, m)
  BY <1>1, <1>2 DEF ProcessorIsa!AfterPc, ProcessorIsa!Jumps, ProcessorIsa!Branches,
         ProcessorIsa!JR, ProcessorIsa!JRS, ProcessorIsa!JRNS, ProcessorIsa!JRC,
         ProcessorIsa!JRNC, ProcessorIsa!JRZ, ProcessorIsa!JRNZ, ProcessorIsa!JMPA,
         ProcessorIsa!MVRD, ProcessorIsa!ADDI, ProcessorIsa!ANDI, ProcessorIsa!CALLA,
         ProcessorIsa!RET, ProcessorIsa!LinkRegister, ReferenceIsa!AfterPc,
         ReferenceIsa!Jumps, ReferenceIsa!Branches, ReferenceIsa!JR, ReferenceIsa!JRS,
         ReferenceIsa!JRNS, ReferenceIsa!JRC, ReferenceIsa!JRNC, ReferenceIsa!JRZ, ReferenceIsa!JRNZ,
         ReferenceIsa!JMPA, ReferenceIsa!MVRD, ReferenceIsa!ADDI, ReferenceIsa!ANDI,
         ReferenceIsa!CALLA, ReferenceIsa!RET, ReferenceIsa!LinkRegister
<1>7. ProcessorIsa!AfterRegs(p, r, f, m) = ReferenceIsa!AfterRegs(p, r, f, m)
  <2>1. ProcessorIsa!Writing = ReferenceIsa!Writing
    BY DEF ProcessorIsa!Writing, ProcessorIsa!RegisterOps, ProcessorIsa!ADD,
           ProcessorIsa!SUB, ProcessorIsa!AND, ProcessorIsa!CMP, ProcessorIsa!XOR,
           ProcessorIsa!TEST, ProcessorIsa!OR, ProcessorIsa!MVRR, ProcessorIsa!DEC,
           ProcessorIsa!INC, ProcessorIsa!SHL, ProcessorIsa!SHR, ProcessorIsa!ADC,
           ProcessorIsa!SBB, ProcessorIsa!NOT, ProcessorIsa!ASR, ProcessorIsa!MVRD,
           ProcessorIsa!LDRR, ProcessorIsa!ADDI, ProcessorIsa!ANDI, ReferenceIsa!Writing,
           ReferenceIsa!RegisterOps, ReferenceIsa!ADD, ReferenceIsa!SUB, ReferenceIsa!AND,
           ReferenceIsa!CMP, ReferenceIsa!XOR, ReferenceIsa!TEST, ReferenceIsa!OR, ReferenceIsa!MVRR,
           ReferenceIsa!DEC, ReferenceIsa!INC, ReferenceIsa!SHL, ReferenceIsa!SHR, ReferenceIsa!ADC,
           ReferenceIsa!SBB, ReferenceIsa!NOT, ReferenceIsa!ASR, ReferenceIsa!MVRD, ReferenceIsa!LDRR,
           ReferenceIsa!ADDI, ReferenceIsa!ANDI
  <2>2. ProcessorIsa!CALLA = ReferenceIsa!CALLA /\ ProcessorIsa!LinkRegister = ReferenceIsa!LinkRegister
    BY DEF ProcessorIsa!CALLA, ProcessorIsa!LinkRegister, ReferenceIsa!CALLA,
           ReferenceIsa!LinkRegister
  <2> DEFINE w == ReferenceIsa!At(p, m)
             d == ReferenceIsa!DestReg(w)
             v == ReferenceIsa!Value(ReferenceIsa!Opcode(w), ReferenceIsa!Operand(p, r, m), r[d], f)
  <2>3. ProcessorIsa!Value(ProcessorIsa!Opcode(ProcessorIsa!At(p, m)), ProcessorIsa!Operand(p, r, m),
                           r[ProcessorIsa!DestReg(ProcessorIsa!At(p, m))], f) = v
    BY <1>1, <1>2, <1>3, <1>4
  <2>4. ProcessorIsa!Plus(ProcessorIsa!Plus(p, 1), 1) = ReferenceIsa!Plus(ReferenceIsa!Plus(p, 1), 1)
    BY <1>1
  <2> QED
    BY <1>1, <1>2, <2>1, <2>2, <2>3, <2>4 DEF ProcessorIsa!AfterRegs, ReferenceIsa!AfterRegs
<1>8. ProcessorIsa!AfterFlags(p, r, f, m) = ReferenceIsa!AfterFlags(p, r, f, m)
  BY <1>1, <1>2, <1>3, <1>5 DEF ProcessorIsa!AfterFlags, ReferenceIsa!AfterFlags
<1>9. ProcessorIsa!AfterMem(p, r, m) = ReferenceIsa!AfterMem(p, r, m)
  BY DEF ProcessorIsa!AfterMem, ProcessorIsa!At, ProcessorIsa!STRR,
         ProcessorIsa!IsaCell, ProcessorIsa!Opcode, ProcessorIsa!DestReg,
         ProcessorIsa!SourReg, ReferenceIsa!AfterMem, ReferenceIsa!At, ReferenceIsa!STRR,
         ReferenceIsa!IsaCell, ReferenceIsa!Opcode, ReferenceIsa!DestReg, ReferenceIsa!SourReg
<1> QED
  BY <1>6, <1>7, <1>8, <1>9

-----------------------------------------------------------------------------
(* States of the instruction set, and the one after s.                     *)
State == [pc : Word, regs : [Reg -> Word], flags : Flags, mem : [0 .. MemDepth - 1 -> Word]]

At(s) == s.mem[Cell(s.pc)]

After(s) ==
  [pc    |-> ReferenceIsa!AfterPc(s.pc, s.regs, s.flags, s.mem),
   regs  |-> ReferenceIsa!AfterRegs(s.pc, s.regs, s.flags, s.mem),
   flags |-> ReferenceIsa!AfterFlags(s.pc, s.regs, s.flags, s.mem),
   mem   |-> ReferenceIsa!AfterMem(s.pc, s.regs, s.mem)]

Initial(s) ==
  /\ s.pc = 0
  /\ s.regs = [i \in Reg |-> 0]
  /\ s.flags = [c |-> 0, z |-> 0, v |-> 0, s |-> 0]

(* The states the two machines are in.                                     *)
ReferenceState == [pc |-> refPc, regs |-> refRegs, flags |-> refFlags, mem |-> refMem]
Executing == [pc |-> IsaPc, regs |-> regs, flags |-> flags, mem |-> mem]

(* Words of the reference are those of the processor.                      *)
LEMMA ReferenceWords ==
  ASSUME NEW x, NEW y
  PROVE  /\ ReferenceIsa!Plus(x, y) = Plus(x, y)
         /\ ReferenceIsa!Sign(x) = Sign(x)
         /\ ReferenceIsa!BitNot(x) = BitNot(x)
         /\ ReferenceIsa!SignExtend(x) = SignExtend(x)
         /\ ReferenceIsa!BitAnd(x, y) = BitAnd(x, y)
         /\ ReferenceIsa!BitOr(x, y) = BitOr(x, y)
         /\ ReferenceIsa!BitXor(x, y) = BitXor(x, y)
         /\ ReferenceIsa!IsaCell(x) = Cell(x)
         /\ ReferenceIsa!Opcode(x) = Opcode(x)
         /\ ReferenceIsa!DestReg(x) = DestReg(x)
         /\ ReferenceIsa!SourReg(x) = SourReg(x)
         /\ ReferenceIsa!Imm8(x) = Imm8(x)
<1>1. /\ ReferenceIsa!Plus(x, y) = Plus(x, y)
      /\ ReferenceIsa!Sign(x) = Sign(x)
      /\ ReferenceIsa!BitNot(x) = BitNot(x)
      /\ ReferenceIsa!SignExtend(x) = SignExtend(x)
      /\ ReferenceIsa!IsaCell(x) = Cell(x)
      /\ ReferenceIsa!Opcode(x) = Opcode(x)
      /\ ReferenceIsa!DestReg(x) = DestReg(x)
      /\ ReferenceIsa!SourReg(x) = SourReg(x)
      /\ ReferenceIsa!Imm8(x) = Imm8(x)
  BY DEF ReferenceIsa!Plus, Plus, ReferenceIsa!Sign, Sign, ReferenceIsa!BitNot, BitNot,
         ReferenceIsa!SignExtend, SignExtend, ReferenceIsa!WordSize, WordSize,
         ReferenceIsa!IsaCell, Cell, ReferenceIsa!Opcode, Opcode, ReferenceIsa!DestReg,
         DestReg, ReferenceIsa!SourReg, SourReg, ReferenceIsa!Imm8, Imm8
<1>2. ReferenceIsa!BitAnd(x, y) = BitAnd(x, y)
  BY DEF ReferenceIsa!BitAnd, BitAnd, ReferenceIsa!Pack, Pack, ReferenceIsa!Bit, Bit,
         ReferenceIsa!LowByte, LowByte, ReferenceIsa!HighByte, HighByte
<1>3. ReferenceIsa!BitOr(x, y) = BitOr(x, y)
  BY DEF ReferenceIsa!BitOr, BitOr, ReferenceIsa!Pack, Pack, ReferenceIsa!Bit, Bit,
         ReferenceIsa!LowByte, LowByte, ReferenceIsa!HighByte, HighByte
<1>4. ReferenceIsa!BitXor(x, y) = BitXor(x, y)
  BY DEF ReferenceIsa!BitXor, BitXor, ReferenceIsa!Pack, Pack, ReferenceIsa!Bit, Bit,
         ReferenceIsa!LowByte, LowByte, ReferenceIsa!HighByte, HighByte
<1> QED
  BY <1>1, <1>2, <1>3, <1>4

(* The codes the proofs below look at, in all three readings of the        *)
(* encoding.                                                               *)
LEMMA ReferenceCodes ==
  /\ ReferenceIsa!JR = JR /\ ReferenceIsa!JRS = JRS /\ ReferenceIsa!JRNS = JRNS
  /\ ReferenceIsa!JRC = JRC /\ ReferenceIsa!JRNC = JRNC /\ ReferenceIsa!JRZ = JRZ
  /\ ReferenceIsa!JRNZ = JRNZ /\ ReferenceIsa!Branches = Branches
  /\ ReferenceIsa!LDRR = LDRR /\ ReferenceIsa!STRR = STRR /\ ReferenceIsa!JMPA = JMPA
  /\ ReferenceIsa!CALLA = CALLA /\ ReferenceIsa!RET = RET
  /\ ReferenceIsa!LinkRegister = LinkRegister
  BY DEF ReferenceIsa!JR, ReferenceIsa!JRS, ReferenceIsa!JRNS, ReferenceIsa!JRC,
     ReferenceIsa!JRNC, ReferenceIsa!JRZ, ReferenceIsa!JRNZ, ReferenceIsa!Branches,
     ReferenceIsa!LDRR, ReferenceIsa!STRR, ReferenceIsa!JMPA, ReferenceIsa!CALLA,
     ReferenceIsa!RET, ReferenceIsa!LinkRegister, JR, JRS, JRNS, JRC, JRNC, JRZ, JRNZ,
     Branches, LDRR, STRR, JMPA, CALLA, RET, LinkRegister

(* After stays within the widths.                                          *)
LEMMA ValueTyped ==
  ASSUME NEW o, NEW x \in Word, NEW y \in Word, NEW f \in Flags
  PROVE  ReferenceIsa!Value(o, x, y, f) \in Word
<1>1. f.c \in {0, 1}
  BY DEF Flags
<1>2. /\ (y + x) % 65536 \in Word /\ (y + x + f.c) % 65536 \in Word
      /\ (y + 1) % 65536 \in Word /\ (y - x) % 65536 \in Word
      /\ (y - x - f.c) % 65536 \in Word /\ (y - 1) % 65536 \in Word
      /\ (2 * y) % 65536 \in Word /\ y \div 2 \in Word
      /\ y \div 2 < 32768
  BY <1>1 DEF Word, WordSize
<1>3. 32768 + (y \div 2) \in Word
  BY <1>2 DEF Word, WordSize
<1>4. /\ ReferenceIsa!BitAnd(x, y) \in Word /\ ReferenceIsa!BitOr(x, y) \in Word
      /\ ReferenceIsa!BitXor(x, y) \in Word /\ ReferenceIsa!BitNot(y) \in Word
  BY ReferenceWords, BitwiseWord, NotWord
<1> QED
  BY <1>2, <1>3, <1>4 DEF ReferenceIsa!Value, ReferenceIsa!WordSize

LEMMA FlagsTyped ==
  ASSUME NEW o, NEW x \in Word, NEW y \in Word, NEW f \in Flags
  PROVE  ReferenceIsa!FlagsLeft(o, x, y, f) \in Flags
<1>1. \A w : ReferenceIsa!Sign(w) \in {0, 1} /\ ReferenceIsa!B(w) \in {0, 1}
  BY DEF ReferenceIsa!Sign, ReferenceIsa!B
<1>2. y % 2 \in {0, 1}
  BY DEF Word
<1>3. ASSUME NEW u, NEW w, NEW k
      PROVE  ReferenceIsa!AddFlags(u, w, k) \in Flags /\ ReferenceIsa!SubFlags(u, w, k) \in Flags
  BY <1>1 DEF ReferenceIsa!AddFlags, ReferenceIsa!SubFlags, ReferenceIsa!Sign,
     ReferenceIsa!B, Flags
<1>4. ASSUME NEW w, NEW k \in {0, 1}
      PROVE  ReferenceIsa!LogicFlags(w) \in Flags /\ ReferenceIsa!ShiftFlags(k, w) \in Flags
  BY <1>1 DEF ReferenceIsa!LogicFlags, ReferenceIsa!ShiftFlags, ReferenceIsa!Sign,
     ReferenceIsa!B, Flags
<1>5. [f EXCEPT !.c = 0] \in Flags /\ [f EXCEPT !.c = 1] \in Flags
  BY DEF Flags
<1> QED
  BY <1>1, <1>2, <1>3, <1>4, <1>5 DEF ReferenceIsa!FlagsLeft

LEMMA AfterTyped ==
  ASSUME NEW s \in State
  PROVE  After(s) \in State
<1>1. s.pc \in Word /\ s.regs \in [Reg -> Word] /\ s.flags \in Flags
      /\ s.mem \in [0 .. MemDepth - 1 -> Word]
  BY DEF State
<1>2. \A a \in Word : s.mem[Cell(a)] \in Word /\ Cell(a) \in 0 .. MemDepth - 1
  BY <1>1, CellRange
<1>3. 1 \in Word
  BY DEF Word, WordSize
<1> DEFINE w == ReferenceIsa!At(s.pc, s.mem)
           x == ReferenceIsa!Operand(s.pc, s.regs, s.mem)
<1>4. w \in Word
  BY <1>1, <1>2, ReferenceWords DEF ReferenceIsa!At
<1>5. /\ ReferenceIsa!DestReg(w) \in Reg /\ ReferenceIsa!SourReg(w) \in Reg
      /\ ReferenceIsa!SignExtend(ReferenceIsa!Imm8(w)) \in Word
  BY <1>4, FieldRanges, SignExtendWord, ReferenceWords
<1>6. \A u, v \in Word : ReferenceIsa!Plus(u, v) \in Word
  BY PlusMinusWord, ReferenceWords
<1>7. ReferenceIsa!Second(s.pc, s.mem) \in Word
  BY <1>1, <1>2, <1>3, <1>6, ReferenceWords DEF ReferenceIsa!Second
<1>8. LinkRegister \in Reg /\ ReferenceIsa!LinkRegister = LinkRegister
  BY ReferenceCodes DEF Reg, LinkRegister
<1>9. x \in Word
  BY <1>1, <1>2, <1>5, <1>7, ReferenceWords DEF ReferenceIsa!Operand
<1> HIDE DEF x
<1>10. After(s).pc \in Word
  BY <1>1, <1>3, <1>5, <1>6, <1>7, <1>8 DEF After, ReferenceIsa!AfterPc
<1>11. After(s).regs \in [Reg -> Word]
  <2>1. ReferenceIsa!Value(ReferenceIsa!Opcode(w), x, s.regs[ReferenceIsa!DestReg(w)], s.flags) \in Word
    BY <1>1, <1>5, <1>9, ValueTyped
  <2> QED
    BY <1>1, <1>3, <1>5, <1>6, <1>8, <2>1 DEF After, ReferenceIsa!AfterRegs, x
<1>12. After(s).flags \in Flags
  BY <1>1, <1>5, <1>9, FlagsTyped DEF After, ReferenceIsa!AfterFlags, x
<1>13. After(s).mem \in [0 .. MemDepth - 1 -> Word]
  BY <1>1, <1>2, <1>5, ReferenceWords DEF After, ReferenceIsa!AfterMem
<1> QED
  BY <1>10, <1>11, <1>12, <1>13 DEF After, State

(* Each machine, in its own time, goes from a state to the one after it.   *)
LEMMA ReferenceLands ==
  ASSUME Reference!Step
  PROVE  ReferenceState' = After(ReferenceState)
  BY ReferenceSteps, ReferenceIsa!StepIsFunction
     DEF ReferenceIsa!LandsWhereExpected, ReferenceState, After

LEMMA ProcessorLands ==
  ASSUME Architecture!Step
  PROVE  Executing' = After(Executing)
<1>1. ProcessorIsa!LandsWhereExpected
  BY ProcessorSteps, ProcessorIsa!StepIsFunction
<1> QED
  BY <1>1, SameFunction DEF ProcessorIsa!LandsWhereExpected, Executing, After

-----------------------------------------------------------------------------
(* What After does to the program counter and the memory.                  *)
Holds(w, f) ==
  \/ Opcode(w) = JRS  /\ f.s = 1
  \/ Opcode(w) = JRNS /\ f.s = 0
  \/ Opcode(w) = JRC  /\ f.c = 1
  \/ Opcode(w) = JRNC /\ f.c = 0
  \/ Opcode(w) = JRZ  /\ f.z = 1
  \/ Opcode(w) = JRNZ /\ f.z = 0

LEMMA AtIsWord ==
  ASSUME NEW s \in State
  PROVE  /\ At(s) \in Word
         /\ ReferenceIsa!At(s.pc, s.mem) = At(s)
         /\ Opcode(At(s)) \in Nat
         /\ DestReg(At(s)) \in Reg /\ SourReg(At(s)) \in Reg
         /\ Cell(s.regs[DestReg(At(s))]) \in 0 .. MemDepth - 1
         /\ Cell(s.regs[SourReg(At(s))]) \in 0 .. MemDepth - 1
         /\ s.regs[SourReg(At(s))] \in Word /\ s.regs[DestReg(At(s))] \in Word
<1>1. s.pc \in Word /\ s.regs \in [Reg -> Word] /\ s.mem \in [0 .. MemDepth - 1 -> Word]
  BY DEF State
<1>2. At(s) \in Word
  BY <1>1, CellRange DEF At
<1>3. ReferenceIsa!At(s.pc, s.mem) = At(s)
  BY ReferenceWords DEF ReferenceIsa!At, At
<1> QED
  BY <1>1, <1>2, <1>3, FieldRanges, CellRange

(* Stores, and nothing else, change the memory.                            *)
LEMMA MemoryAfter ==
  ASSUME NEW s \in State
  PROVE  After(s).mem = IF Opcode(At(s)) = STRR
                        THEN [s.mem EXCEPT ![Cell(s.regs[DestReg(At(s))])] = s.regs[SourReg(At(s))]]
                        ELSE s.mem
  BY AtIsWord, ReferenceWords, ReferenceCodes DEF After, ReferenceIsa!AfterMem

LEMMA StoreAfter ==
  ASSUME NEW s \in State, Opcode(At(s)) = STRR
  PROVE  After(s).pc = Plus(s.pc, 1) /\ After(s).regs = s.regs /\ After(s).flags = s.flags
<1> DEFINE w == ReferenceIsa!At(s.pc, s.mem)
           o == ReferenceIsa!Opcode(w)
<1>1. o = 131
  BY AtIsWord, ReferenceWords DEF STRR
<1> HIDE DEF o
<1>2. /\ o \notin ReferenceIsa!Branches /\ o \notin ReferenceIsa!Writing
      /\ o # ReferenceIsa!JMPA /\ o # ReferenceIsa!CALLA /\ o # ReferenceIsa!RET
      /\ o \notin {ReferenceIsa!MVRD, ReferenceIsa!ADDI, ReferenceIsa!ANDI}
  BY <1>1 DEF ReferenceIsa!Branches, ReferenceIsa!JR, ReferenceIsa!JRS, ReferenceIsa!JRNS,
     ReferenceIsa!JRC, ReferenceIsa!JRNC, ReferenceIsa!JRZ, ReferenceIsa!JRNZ,
     ReferenceIsa!Writing, ReferenceIsa!RegisterOps, ReferenceIsa!ADD, ReferenceIsa!SUB,
     ReferenceIsa!AND, ReferenceIsa!CMP, ReferenceIsa!XOR, ReferenceIsa!TEST,
     ReferenceIsa!OR, ReferenceIsa!MVRR, ReferenceIsa!DEC, ReferenceIsa!INC,
     ReferenceIsa!SHL, ReferenceIsa!SHR, ReferenceIsa!ADC, ReferenceIsa!SBB,
     ReferenceIsa!NOT, ReferenceIsa!ASR, ReferenceIsa!JMPA, ReferenceIsa!CALLA,
     ReferenceIsa!RET, ReferenceIsa!MVRD, ReferenceIsa!ADDI, ReferenceIsa!ANDI,
     ReferenceIsa!LDRR
<1>3. After(s).pc = Plus(s.pc, 1)
  BY <1>2, ReferenceWords DEF After, ReferenceIsa!AfterPc, o
<1>4. After(s).regs = s.regs
  BY <1>2 DEF After, ReferenceIsa!AfterRegs, o
<1>5. ASSUME NEW x, NEW y PROVE ReferenceIsa!FlagsLeft(o, x, y, s.flags) = s.flags
  BY <1>1 DEF ReferenceIsa!FlagsLeft, ReferenceIsa!ADD, ReferenceIsa!SUB,
     ReferenceIsa!AND, ReferenceIsa!CMP, ReferenceIsa!XOR, ReferenceIsa!TEST,
     ReferenceIsa!OR, ReferenceIsa!DEC, ReferenceIsa!INC,
     ReferenceIsa!SHL, ReferenceIsa!SHR, ReferenceIsa!ADC, ReferenceIsa!SBB,
     ReferenceIsa!NOT, ReferenceIsa!ASR, ReferenceIsa!ADDI, ReferenceIsa!ANDI,
     ReferenceIsa!CLC, ReferenceIsa!STC
<1>6. After(s).flags = s.flags
  BY <1>5 DEF After, ReferenceIsa!AfterFlags, o
<1> QED
  BY <1>3, <1>4, <1>6

(* A conditional branch leaves the line of execution when its condition    *)
(* holds, unless it leads to the next word.                                *)
LEMMA BranchAfter ==
  ASSUME NEW s \in State, Opcode(At(s)) \in Branches \ {JR}
  PROVE  After(s).pc # Plus(s.pc, 1) <=> Holds(At(s), s.flags) /\ Imm8(At(s)) # 0
<1> DEFINE w == At(s)
           d == SignExtend(Imm8(w))
<1>1. s.pc \in Word /\ w \in Word
  BY AtIsWord DEF State
<1>2. Imm8(w) \in Nat /\ Imm8(w) < 256
  BY <1>1, FieldRanges
<1>3. Plus(Plus(s.pc, 1), d) = Plus(s.pc, 1) <=> Imm8(w) = 0
  BY <1>1, <1>2 DEF Plus, SignExtend, Word, WordSize
<1>4. ReferenceIsa!Jumps(Opcode(w), s.flags) <=> Holds(w, s.flags)
  BY ReferenceCodes DEF ReferenceIsa!Jumps, Holds, Branches
<1>5. Opcode(w) \in Branches
  OBVIOUS
<1>6. Opcode(w) \notin {JMPA, MVRD, ADDI, ANDI, CALLA, RET}
  BY DEF Branches, JR, JRS, JRNS, JRC, JRNC, JRZ, JRNZ, JMPA, MVRD, ADDI, ANDI, CALLA, RET
<1>7. After(s).pc = IF Holds(w, s.flags) THEN Plus(Plus(s.pc, 1), d) ELSE Plus(s.pc, 1)
  BY <1>4, <1>5, <1>6, AtIsWord, ReferenceWords, ReferenceCodes
     DEF After, ReferenceIsa!AfterPc, ReferenceIsa!JMPA, ReferenceIsa!MVRD,
         ReferenceIsa!ADDI, ReferenceIsa!ANDI, ReferenceIsa!CALLA, ReferenceIsa!RET,
         JMPA, MVRD, ADDI, ANDI, CALLA, RET
<1> QED
  BY <1>3, <1>7

(* The branch to itself leaves everything as it is.                        *)
SelfLoop == \h40FF

LEMMA SelfLoopAfter ==
  ASSUME NEW s \in State, At(s) = SelfLoop
  PROVE  After(s).pc = s.pc /\ After(s).mem = s.mem
<1>1. Opcode(SelfLoop) = 64 /\ Imm8(SelfLoop) = 255
  BY DEF SelfLoop, Opcode, Imm8
<1>2. s.pc \in Word
  BY DEF State
<1>3. After(s).pc = Plus(Plus(s.pc, 1), SignExtend(255))
  BY <1>1, AtIsWord, ReferenceWords
     DEF After, ReferenceIsa!AfterPc, ReferenceIsa!Jumps, ReferenceIsa!Branches, ReferenceIsa!JR
<1>4. Plus(Plus(s.pc, 1), SignExtend(255)) = s.pc
  BY <1>2 DEF Plus, SignExtend, Word, WordSize
<1>5. After(s).mem = s.mem
  <2>1. Opcode(At(s)) # STRR
    BY <1>1 DEF STRR
  <2> QED
    BY <2>1, MemoryAfter
<1> QED
  BY <1>3, <1>4, <1>5

-----------------------------------------------------------------------------
(* The reference run.  H is the sequence of its states: H[i] after i       *)
(* instructions.  Row and event of an instruction that leads from s to t:  *)
RowOf(s, t) == [addr |-> s.pc, pc |-> t.pc, ir |-> At(s), regs |-> t.regs, flags |-> t.flags]

Recorded(e, s, t) ==
  /\ e.instr_addr = s.pc /\ e.pc_after = t.pc /\ e.ir = At(s)
  /\ e.flags_before = s.flags /\ e.flags_after = t.flags
  /\ Opcode(At(s)) \in Branches \ {JR} => (e.branch_taken <=> t.pc # Plus(s.pc, 1))
  /\ e.access.kind = "READ" <=> Opcode(At(s)) = LDRR
  /\ e.access.kind = "WRITE" <=> Opcode(At(s)) = STRR
  /\ Opcode(At(s)) = LDRR =>
       /\ e.access.addr = Cell(s.regs[SourReg(At(s))])
       /\ e.access.data = s.mem[Cell(s.regs[SourReg(At(s))])]
  /\ Opcode(At(s)) = STRR =>
       /\ e.access.addr = Cell(s.regs[DestReg(At(s))])
       /\ e.access.data = s.regs[SourReg(At(s))]

Rows == [addr : Word, pc : Word, ir : Word, regs : [Reg -> Word], flags : Flags]

Accesses == [kind : {"READ", "WRITE"}, addr : Nat, data : Word] \cup [kind : {"none"}]

Events == [instr_addr : Word, pc_after : Word, ir : Word, flags_before : Flags,
           flags_after : Flags, branch_taken : BOOLEAN, access : Accesses]

(* What the reference model decodes.                                       *)
LEMMA ReferenceDecodes ==
  ASSUME ReferenceState \in State
  PROVE  /\ Reference!ir = At(ReferenceState)
         /\ Reference!op = Opcode(At(ReferenceState))
         /\ Reference!rd = DestReg(At(ReferenceState))
         /\ Reference!rs = SourReg(At(ReferenceState))
         /\ \A a : Reference!IsaCell(a) = Cell(a)
         /\ Reference!LDRR = LDRR /\ Reference!STRR = STRR
         /\ Reference!Conditional = Branches \ {JR}
         /\ Reference!Extended = Extended
         /\ Reference!WordSize = WordSize
         /\ Reference!SelfLoop = SelfLoop
<1>1. \A a : Reference!IsaCell(a) = Cell(a)
  BY DEF Reference!IsaCell, Cell
<1>2. Reference!ir = At(ReferenceState)
  BY <1>1 DEF Reference!ir, At, ReferenceState
<1>3. /\ Reference!op = Opcode(At(ReferenceState))
      /\ Reference!rd = DestReg(At(ReferenceState))
      /\ Reference!rs = SourReg(At(ReferenceState))
  BY <1>2 DEF Reference!op, Reference!rd, Reference!rs, Reference!Opcode, Opcode,
     Reference!DestReg, DestReg, Reference!SourReg, SourReg
<1>4. /\ Reference!LDRR = LDRR /\ Reference!STRR = STRR
      /\ Reference!Conditional = Branches \ {JR} /\ Reference!Extended = Extended
      /\ Reference!WordSize = WordSize /\ Reference!SelfLoop = SelfLoop
  BY DEF Reference!LDRR, LDRR, Reference!STRR, STRR, Reference!Conditional,
     Reference!Branches, Branches, Reference!JR, JR, Reference!JRS, JRS, Reference!JRNS,
     JRNS, Reference!JRC, JRC, Reference!JRNC, JRNC, Reference!JRZ, JRZ, Reference!JRNZ,
     JRNZ, Reference!Extended, Extended, Reference!JMPA, JMPA, Reference!MVRD, MVRD,
     Reference!ADDI, ADDI, Reference!ANDI, ANDI, Reference!CALLA, CALLA,
     Reference!WordSize, WordSize, Reference!SelfLoop, SelfLoop
<1> QED
  BY <1>1, <1>2, <1>3, <1>4

LEMMA RowIsRecorded ==
  ASSUME ReferenceState \in State, Reference!Step
  PROVE  /\ Reference!Row = RowOf(ReferenceState, After(ReferenceState))
         /\ Reference!Row \in Rows
<1>1. ReferenceState' = After(ReferenceState)
  BY ReferenceLands
<1>2. Reference!Row = RowOf(ReferenceState, After(ReferenceState))
  BY <1>1, ReferenceDecodes DEF Reference!Row, RowOf, ReferenceState
<1>3. /\ refPc \in Word /\ refPc' \in Word /\ refRegs' \in [Reg -> Word] /\ refFlags' \in Flags
      /\ Reference!ir \in Word
  BY <1>1, AfterTyped, AtIsWord, ReferenceDecodes DEF ReferenceState, State
<1> QED
  BY <1>2, <1>3 DEF Reference!Row, Rows

LEMMA EventIsRecorded ==
  ASSUME ReferenceState \in State, Reference!Step
  PROVE  /\ Recorded(Reference!Event, ReferenceState, After(ReferenceState))
         /\ Reference!Event \in Events
<1> DEFINE s == ReferenceState
           o == Opcode(At(s))
           taken == Reference!branch_taken
           access == Reference!MemoryEvent
<1>1. /\ refPc' = After(s).pc /\ refFlags' = After(s).flags
      /\ refPc = s.pc /\ refFlags = s.flags /\ refRegs = s.regs /\ refMem = s.mem
  BY ReferenceLands DEF ReferenceState
<1>2. o \in Branches \ {JR} => (taken <=> After(s).pc # Plus(s.pc, 1))
  <2>1. o \in Branches \ {JR} => o \notin Extended
    BY DEF Branches, Extended, JR, JRS, JRNS, JRC, JRNC, JRZ, JRNZ, JMPA, MVRD, ADDI,
       ANDI, CALLA
  <2> QED
    BY <1>1, <2>1, ReferenceDecodes DEF Reference!branch_taken, Reference!Size, Plus
<1>3. LDRR # STRR
  BY DEF LDRR, STRR
<1>4. o = LDRR => access = [kind |-> "READ", addr |-> Cell(s.regs[SourReg(At(s))]),
                            data |-> s.mem[Cell(s.regs[SourReg(At(s))])]]
  BY <1>1, <1>3, ReferenceDecodes DEF Reference!MemoryEvent
<1>5. o = STRR => access = [kind |-> "WRITE", addr |-> Cell(s.regs[DestReg(At(s))]),
                            data |-> s.regs[SourReg(At(s))]]
  BY <1>1, <1>3, ReferenceDecodes DEF Reference!MemoryEvent
<1>6. o \notin {LDRR, STRR} => access = [kind |-> "none"]
  BY <1>1, ReferenceDecodes DEF Reference!MemoryEvent
<1>7. taken \in BOOLEAN
  <2>1. CASE Reference!op \in Reference!Conditional
    BY <2>1, Zenon DEF Reference!branch_taken
  <2>2. CASE Reference!op \notin Reference!Conditional
    <3>1. taken = (Reference!op \in {Reference!JR, Reference!JMPA, Reference!CALLA, Reference!RET})
      BY <2>2, Zenon DEF Reference!branch_taken
    <3>2. (Reference!op \in {Reference!JR, Reference!JMPA, Reference!CALLA, Reference!RET}) \in BOOLEAN
      OBVIOUS
    <3> QED
      BY <3>1, <3>2, Zenon
  <2> QED
    BY <2>1, <2>2
<1>8. access \in Accesses
  <2>1. /\ Cell(s.regs[SourReg(At(s))]) \in 0 .. MemDepth - 1
        /\ Cell(s.regs[DestReg(At(s))]) \in Nat
        /\ s.regs[SourReg(At(s))] \in Word
        /\ s.mem[Cell(s.regs[SourReg(At(s))])] \in Word
    BY AtIsWord, MemDepthAssumption DEF State
  <2> QED
    BY <1>4, <1>5, <1>6, <2>1 DEF Accesses
<1>9. /\ Reference!ir = At(s) /\ At(s) \in Word /\ refPc \in Word /\ refPc' \in Word
      /\ refFlags \in Flags /\ refFlags' \in Flags
  BY <1>1, AfterTyped, AtIsWord, ReferenceDecodes DEF State
<1>10. Reference!Event = [instr_addr |-> s.pc, pc_after |-> After(s).pc, ir |-> At(s),
                          flags_before |-> s.flags, flags_after |-> After(s).flags,
                          branch_taken |-> taken, access |-> access]
  BY <1>1, <1>9 DEF Reference!Event
<1> HIDE DEF taken, access
<1>11. Reference!Event \in Events
  BY <1>1, <1>7, <1>8, <1>9, <1>10 DEF Events
<1>12. Recorded(Reference!Event, s, After(s))
  BY <1>2, <1>3, <1>4, <1>5, <1>6, <1>10 DEF Recorded
<1> QED
  BY <1>11, <1>12

(* The rows and events so far are those of H.                              *)
RunIs(H) ==
  /\ steps \in Nat
  /\ trace \in Seq(Rows) /\ Len(trace) = steps
  /\ events \in Seq(Events) /\ Len(events) = steps
  /\ H \in [0 .. steps -> State] /\ Initial(H[0])
  /\ \A i \in 1 .. steps : /\ H[i] = After(H[i - 1])
                           /\ trace[i] = RowOf(H[i - 1], H[i])
                           /\ Recorded(events[i], H[i - 1], H[i])

(* An undefined opcode moves the program counter and nothing else.         *)
StandsAt(s) ==
  /\ refRegs = s.regs /\ refFlags = s.flags /\ refMem = s.mem
  /\ refOutcome # "error" => refPc = s.pc

(* What is written stays until it is overwritten.                          *)
Overwritten(i, j) ==
  \E k \in 1 .. steps : /\ i < k /\ k <= j
                        /\ events[k].access.kind = "WRITE"
                        /\ events[k].access.addr = events[i].access.addr

Remembered(H) ==
  \A i, j \in 1 .. steps :
    i <= j /\ events[i].access.kind = "WRITE" /\ ~ Overwritten(i, j) =>
      H[j].mem[events[i].access.addr] = events[i].access.data

(* The retirements of the branch to itself that were counted last.         *)
Looping ==
  /\ self_loop_retire_count \in 0 .. steps
  /\ refOutcome # "error" =>
       /\ \A i \in 0 .. self_loop_retire_count - 1 : trace[steps - i].pc = refPc
       /\ self_loop_retire_count > 0 => refMem[Cell(refPc)] = SelfLoop
  /\ refOutcome \in {"running", "halted", "error"}
  /\ refOutcome = "running" => self_loop_retire_count < halt_repeat_threshold
  /\ refOutcome = "halted" => self_loop_retire_count >= halt_repeat_threshold

FilesWritten ==
  files # <<>> =>
    /\ refOutcome = "halted"
    /\ files = [trace   |-> trace,
                events  |-> events,
                summary |-> [steps |-> steps, pc |-> refPc, regs |-> refRegs,
                             flags |-> refFlags]]

RunInv(H) == RunIs(H) /\ StandsAt(H[steps]) /\ Remembered(H) /\ Looping /\ FilesWritten

LEMMA AppendFacts ==
  ASSUME NEW S, NEW q \in Seq(S), NEW e \in S
  PROVE  /\ Append(q, e) \in Seq(S)
         /\ Len(Append(q, e)) = Len(q) + 1
         /\ Append(q, e)[Len(q) + 1] = e
         /\ \A i \in 1 .. Len(q) : Append(q, e)[i] = q[i]
  OBVIOUS

(* One more instruction extends the sequence.                              *)
LEMMA RunStepRuns ==
  ASSUME NEW H, RunInv(H), Reference!RunStep,
         NEW G, G = [i \in 0 .. steps + 1 |-> IF i = steps + 1 THEN After(H[steps]) ELSE H[i]]
  PROVE  /\ RunIs(G)' /\ StandsAt(G[steps])' /\ steps' = steps + 1
         /\ \A i \in 0 .. steps : G[i] = H[i]
         /\ \A i \in 1 .. steps : events'[i] = events[i] /\ trace'[i] = trace[i]
         /\ Recorded(events'[steps + 1], H[steps], After(H[steps]))
         /\ H[steps] \in State /\ At(H[steps]) = Reference!ir
         /\ trace'[steps + 1].pc = refPc' /\ refPc' = After(H[steps]).pc /\ refPc = H[steps].pc
<1>1. /\ steps \in Nat /\ steps' = steps + 1 /\ refOutcome = "running" /\ Reference!Step
      /\ trace' = Append(trace, Reference!Row) /\ events' = Append(events, Reference!Event)
  BY DEF RunInv, RunIs, Reference!RunStep
<1>2. /\ H \in [0 .. steps -> State] /\ H[steps] \in State /\ ReferenceState = H[steps]
      /\ refPc = H[steps].pc
  BY <1>1 DEF RunInv, RunIs, StandsAt, ReferenceState, State
<1>3. /\ trace' \in Seq(Rows) /\ Len(trace') = steps + 1
      /\ trace'[steps + 1] = RowOf(H[steps], After(H[steps]))
      /\ \A i \in 1 .. steps : trace'[i] = trace[i]
  BY <1>1, <1>2, RowIsRecorded, AppendFacts DEF RunInv, RunIs
<1>4. /\ events' \in Seq(Events) /\ Len(events') = steps + 1
      /\ Recorded(events'[steps + 1], H[steps], After(H[steps]))
      /\ \A i \in 1 .. steps : events'[i] = events[i]
  BY <1>1, <1>2, EventIsRecorded, AppendFacts DEF RunInv, RunIs
<1>5. After(H[steps]) \in State
  BY <1>2, AfterTyped
<1>6. /\ G \in [0 .. steps + 1 -> State] /\ G[steps + 1] = After(H[steps])
      /\ \A i \in 0 .. steps : G[i] = H[i]
  BY <1>1, <1>2, <1>5
<1>7. \A i \in 1 .. steps + 1 : /\ G[i] = After(G[i - 1])
                                /\ trace'[i] = RowOf(G[i - 1], G[i])
                                /\ Recorded(events'[i], G[i - 1], G[i])
  <2> SUFFICES ASSUME NEW i \in 1 .. steps + 1
               PROVE  /\ G[i] = After(G[i - 1])
                      /\ trace'[i] = RowOf(G[i - 1], G[i])
                      /\ Recorded(events'[i], G[i - 1], G[i])
    OBVIOUS
  <2>1. CASE i = steps + 1
    BY <1>1, <1>3, <1>4, <1>6, <2>1
  <2>2. CASE i \in 1 .. steps
    <3>1. G[i] = H[i] /\ G[i - 1] = H[i - 1]
      BY <1>1, <1>6, <2>2
    <3> QED
      BY <1>3, <1>4, <2>2, <3>1 DEF RunInv, RunIs
  <2>3. i = steps + 1 \/ i \in 1 .. steps
    BY <1>1
  <2> QED
    BY <2>1, <2>2, <2>3
<1>8. ReferenceState' = G[steps + 1]
  BY <1>1, <1>2, <1>6, ReferenceLands
<1>9. StandsAt(G[steps])'
  <2>1. /\ refRegs' = G[steps + 1].regs /\ refFlags' = G[steps + 1].flags
        /\ refMem' = G[steps + 1].mem /\ refPc' = G[steps + 1].pc
    BY <1>8 DEF ReferenceState
  <2> QED
    BY <1>1, <2>1 DEF StandsAt
<1>10. RunIs(G)'
  <2>1. /\ steps' \in Nat /\ Len(trace') = steps' /\ Len(events') = steps'
        /\ G \in [0 .. steps' -> State]
    BY <1>1, <1>3, <1>4, <1>6
  <2>2. Initial(G[0])
    <3>1. 0 \in 0 .. steps
      BY <1>1
    <3> QED
      BY <1>6, <3>1 DEF RunInv, RunIs
  <2>3. \A i \in 1 .. steps' : /\ G[i] = After(G[i - 1])
                              /\ trace'[i] = RowOf(G[i - 1], G[i])
                              /\ Recorded(events'[i], G[i - 1], G[i])
    BY <1>1, <1>7
  <2>4. trace' \in Seq(Rows) /\ events' \in Seq(Events)
    BY <1>3, <1>4
  <2> QED
    BY <2>1, <2>2, <2>3, <2>4, Zenon DEF RunIs, Initial
<1>11. trace'[steps + 1].pc = refPc' /\ refPc' = After(H[steps]).pc
  BY <1>3, <1>6, <1>8 DEF RowOf, ReferenceState
<1>12. At(H[steps]) = Reference!ir
  BY <1>2, ReferenceDecodes
<1> QED
  BY <1>1, <1>2, <1>4, <1>3, <1>6, <1>9, <1>10, <1>11, <1>12

LEMMA RunStepRemembers ==
  ASSUME NEW H, RunInv(H), Reference!RunStep,
         NEW G, G = [i \in 0 .. steps + 1 |-> IF i = steps + 1 THEN After(H[steps]) ELSE H[i]]
  PROVE  Remembered(G)'
<1> DEFINE n == steps
           s == H[n]
<1>1. /\ RunIs(G)' /\ n \in Nat /\ steps' = n + 1 /\ s \in State
      /\ \A i \in 0 .. n : G[i] = H[i]
      /\ \A i \in 1 .. n : events'[i] = events[i]
      /\ Recorded(events'[n + 1], s, After(s))
      /\ G[n + 1] = After(s)
  <2>1. n \in Nat
    BY DEF RunInv, RunIs
  <2>2. G[n + 1] = After(s)
    BY <2>1
  <2> QED
    BY <2>1, <2>2, RunStepRuns
<1> SUFFICES ASSUME NEW i \in 1 .. n + 1, NEW j \in 1 .. n + 1, i <= j,
                    events'[i].access.kind = "WRITE", ~ Overwritten(i, j)'
             PROVE  G[j].mem[events'[i].access.addr] = events'[i].access.data
  BY <1>1 DEF Remembered
<1>2. \A k \in 1 .. n + 1 : i < k /\ k <= j /\ events'[k].access.kind = "WRITE" =>
        events'[k].access.addr # events'[i].access.addr
  BY <1>1 DEF Overwritten
<1>3. ASSUME i <= n, NEW l \in 1 .. n, i <= l, l <= j
      PROVE  H[l].mem[events[i].access.addr] = events[i].access.data
  <2>1. ~ Overwritten(i, l)
    BY <1>1, <1>2, <1>3 DEF Overwritten
  <2> QED
    BY <1>1, <1>3, <2>1 DEF RunInv, Remembered
<1>4. CASE j <= n
  BY <1>1, <1>3, <1>4
<1>5. CASE j = n + 1 /\ i <= n
  <2>1. s.mem[events[i].access.addr] = events[i].access.data
    BY <1>1, <1>3, <1>5
  <2>2. events'[i] = events[i]
    BY <1>1, <1>5
  <2>3. ASSUME Opcode(At(s)) = STRR
        PROVE  Cell(s.regs[DestReg(At(s))]) # events[i].access.addr
    BY <1>1, <1>2, <1>5, <2>2, <2>3 DEF Recorded
  <2>4. After(s).mem[events[i].access.addr] = s.mem[events[i].access.addr]
    <3>1. s.mem \in [0 .. MemDepth - 1 -> Word]
      BY <1>1 DEF State
    <3>2. CASE Opcode(At(s)) = STRR
      <4>1. events[i].access.addr \in DOMAIN s.mem
        <5>1. Recorded(events[i], H[i - 1], H[i]) /\ H[i - 1] \in State
          BY <1>1, <1>5 DEF RunInv, RunIs
        <5>2. events[i].access.addr = Cell(H[i - 1].regs[DestReg(At(H[i - 1]))])
          BY <5>1, <2>2 DEF Recorded
        <5> QED
          BY <5>1, <5>2, <3>1, AtIsWord
      <4> QED
        BY <1>1, <2>3, <3>1, <3>2, <4>1, MemoryAfter
    <3>3. CASE Opcode(At(s)) # STRR
      BY <1>1, <3>3, MemoryAfter
    <3> QED
      BY <3>2, <3>3
  <2> QED
    BY <1>1, <1>5, <2>1, <2>2, <2>4
<1>6. CASE i = n + 1
  <2>1. /\ Opcode(At(s)) = STRR
        /\ events'[i].access.addr = Cell(s.regs[DestReg(At(s))])
        /\ events'[i].access.data = s.regs[SourReg(At(s))]
    BY <1>1, <1>6 DEF Recorded
  <2>2. /\ Cell(s.regs[DestReg(At(s))]) \in 0 .. MemDepth - 1
        /\ s.mem \in [0 .. MemDepth - 1 -> Word]
    BY <1>1, AtIsWord DEF State
  <2>3. After(s).mem[Cell(s.regs[DestReg(At(s))])] = s.regs[SourReg(At(s))]
    BY <1>1, <2>1, <2>2, MemoryAfter
  <2> QED
    BY <1>1, <1>6, <2>1, <2>3
<1> QED
  BY <1>1, <1>4, <1>5, <1>6

LEMMA RunStepLoops ==
  ASSUME NEW H, RunInv(H), Reference!RunStep
  PROVE  Looping' /\ FilesWritten'
<1> DEFINE n == steps
           c == self_loop_retire_count
<1>1. PICK G : G = [i \in 0 .. steps + 1 |-> IF i = steps + 1 THEN After(H[steps]) ELSE H[i]]
  OBVIOUS
<1>2. /\ n \in Nat /\ steps' = n + 1 /\ H[n] \in State /\ At(H[n]) = Reference!ir
      /\ \A i \in 1 .. n : trace'[i] = trace[i]
      /\ trace'[n + 1].pc = refPc' /\ refPc' = After(H[n]).pc /\ refPc = H[n].pc
  BY <1>1, RunStepRuns DEF RunInv, RunIs
<1>3. /\ refOutcome = "running" /\ files' = files
      /\ self_loop_retire_count' = IF Reference!ir = SelfLoop THEN c + 1 ELSE 0
      /\ refOutcome' = IF self_loop_retire_count' >= halt_repeat_threshold THEN "halted" ELSE "running"
  BY DEF Reference!RunStep, Reference!SelfLoopsInARow, Reference!SelfLoop, SelfLoop
<1>4. FilesWritten'
  BY <1>3 DEF RunInv, FilesWritten
<1>5. c \in 0 .. n /\ \A i \in 0 .. c - 1 : trace[n - i].pc = refPc
  BY <1>3 DEF RunInv, Looping
<1>6. CASE Reference!ir = SelfLoop
  <2>1. refPc' = refPc /\ refMem' = refMem
    <3>1. After(H[n]).pc = H[n].pc /\ After(H[n]).mem = H[n].mem
      BY <1>2, <1>6, SelfLoopAfter
    <3>2. ReferenceState = H[n] /\ Reference!Step
      BY <1>2, <1>3 DEF RunInv, StandsAt, ReferenceState, State, Reference!RunStep
    <3> QED
      BY <3>1, <3>2, ReferenceLands DEF ReferenceState
  <2>2. refMem[Cell(refPc)] = SelfLoop
    BY <1>6 DEF Reference!ir, Reference!IsaCell, Cell
  <2>3. ASSUME NEW i \in 0 .. c PROVE trace'[n + 1 - i].pc = refPc'
    <3>1. CASE i = 0
      BY <1>2, <3>1
    <3>2. CASE i > 0
      <4>1. i - 1 \in 0 .. c - 1 /\ n - (i - 1) \in 1 .. n /\ n + 1 - i = n - (i - 1)
        BY <1>2, <1>5, <3>2
      <4> QED
        BY <1>2, <1>5, <2>1, <4>1
    <3> QED
      BY <1>5, <3>1, <3>2
  <2>4. c + 1 \in 0 .. n + 1 /\ (c + 1) - 1 = c /\ refMem'[Cell(refPc')] = SelfLoop
    BY <1>2, <1>5, <2>1, <2>2
  <2> QED
    BY <1>2, <1>3, <1>4, <1>6, <2>3, <2>4, ThresholdAssumption DEF Looping, Cell
<1>7. CASE Reference!ir # SelfLoop
  BY <1>2, <1>3, <1>4, <1>7, ThresholdAssumption DEF Looping
<1> QED
  BY <1>6, <1>7

(* The reference model, whatever it does next, keeps to a sequence that    *)
(* goes on where the one so far ends.                                      *)
LEMMA ReferenceKeeps ==
  ASSUME NEW H, RunInv(H), Reference!ReferenceNext
  PROVE  \E G : RunInv(G)' /\ steps' >= steps /\ \A i \in 0 .. steps : G[i] = H[i]
<1>0. steps \in Nat
  BY DEF RunInv, RunIs
<1>1. CASE Reference!RunStep
  <2>1. PICK G : G = [i \in 0 .. steps + 1 |-> IF i = steps + 1 THEN After(H[steps]) ELSE H[i]]
    OBVIOUS
  <2>2. RunInv(G)'
    BY <1>1, <2>1, RunStepRuns, RunStepRemembers, RunStepLoops DEF RunInv
  <2> QED
    BY <1>0, <1>1, <2>1, <2>2, RunStepRuns
<1>2. CASE Reference!UnsupportedOpcode \/ Reference!ExceedMaxSteps \/ Reference!WriteFiles
  <2>1. UNCHANGED <<steps, trace, events, refRegs, refFlags, refMem, self_loop_retire_count>>
    BY <1>2 DEF Reference!UnsupportedOpcode, Reference!ExceedMaxSteps, Reference!WriteFiles,
       Reference!isaVars
  <2>2. RunIs(H)'
    BY <2>1 DEF RunInv, RunIs
  <2>4. Remembered(H)'
    BY <2>1 DEF RunInv, Remembered, Overwritten
  <2>3. StandsAt(H[steps])' /\ Looping' /\ FilesWritten'
    BY <1>2, <2>1 DEF RunInv, StandsAt, Looping, FilesWritten, Reference!UnsupportedOpcode,
       Reference!ExceedMaxSteps, Reference!WriteFiles, Reference!isaVars
  <2> QED
    BY <1>0, <2>1, <2>2, <2>3, <2>4 DEF RunInv
<1> QED
  BY <1>1, <1>2 DEF Reference!ReferenceNext

(* Then the reference rests.                                               *)
LEMMA RunRests ==
  ASSUME NEW H, RunInv(H),
         UNCHANGED <<refPc, refRegs, refFlags, refMem, steps, self_loop_retire_count, refOutcome,
                     trace, events, files>>
  PROVE  RunInv(H)'
<1>1. RunIs(H)'
  BY DEF RunInv, RunIs
<1>2. Remembered(H)'
  BY DEF RunInv, Remembered, Overwritten
<1>3. StandsAt(H[steps])' /\ Looping' /\ FilesWritten'
  BY DEF RunInv, StandsAt, Looping, FilesWritten
<1> QED
  BY <1>1, <1>2, <1>3 DEF RunInv
=============================================================================
