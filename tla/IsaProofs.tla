------------------------------ MODULE IsaProofs ----------------------------
(***************************************************************************)
(* The instruction set is a function: the state before an instruction      *)
(* determines the one after it.  So two machines that take a step of it    *)
(* from the same state, each in its own time, end in the same state.       *)
(* A state is given by p, r, f and m: program counter, registers, flags    *)
(* and memory.                                                             *)
(***************************************************************************)
EXTENDS Isa, TLAPS

(* Of an instruction of code o, whose operand is a and whose destination   *)
(* holds b: the value it writes and the flags it leaves.                   *)
Value(o, a, b, f) ==
  IF o \in {ADD, ADDI} THEN (b + a) % WordSize
  ELSE IF o = ADC THEN (b + a + f.c) % WordSize
  ELSE IF o = INC THEN (b + 1) % WordSize
  ELSE IF o = SUB THEN (b - a) % WordSize
  ELSE IF o = SBB THEN (b - a - f.c) % WordSize
  ELSE IF o = DEC THEN (b - 1) % WordSize
  ELSE IF o \in {AND, ANDI, TEST} THEN BitAnd(a, b)
  ELSE IF o = OR THEN BitOr(a, b)
  ELSE IF o = XOR THEN BitXor(a, b)
  ELSE IF o = NOT THEN BitNot(b)
  ELSE IF o = SHL THEN (2 * b) % WordSize
  ELSE IF o = SHR THEN b \div 2
  ELSE IF o = ASR THEN IF Sign(b) = 1 THEN 32768 + (b \div 2) ELSE b \div 2
  ELSE a

FlagsLeft(o, a, b, f) ==
  IF o \in {ADD, ADDI} THEN AddFlags(a, b, 0)
  ELSE IF o = ADC THEN AddFlags(a, b, f.c)
  ELSE IF o = INC THEN AddFlags(0, b, 1)
  ELSE IF o \in {SUB, CMP} THEN SubFlags(a, b, 0)
  ELSE IF o = SBB THEN SubFlags(a, b, f.c)
  ELSE IF o = DEC THEN SubFlags(1, b, 0)
  ELSE IF o \in {AND, ANDI, TEST, OR, XOR, NOT} THEN LogicFlags(Value(o, a, b, f))
  ELSE IF o = SHL THEN ShiftFlags(Sign(b), Value(o, a, b, f))
  ELSE IF o \in {SHR, ASR} THEN ShiftFlags(b % 2, Value(o, a, b, f))
  ELSE IF o = CLC THEN [f EXCEPT !.c = 0]
  ELSE IF o = STC THEN [f EXCEPT !.c = 1]
  ELSE f

Jumps(o, f) ==
  \/ o = JR
  \/ o = JRS  /\ f.s = 1
  \/ o = JRNS /\ f.s = 0
  \/ o = JRC  /\ f.c = 1
  \/ o = JRNC /\ f.c = 0
  \/ o = JRZ  /\ f.z = 1
  \/ o = JRNZ /\ f.z = 0

(* The instruction at p, its second word and its operand.                  *)
At(p, m) == m[IsaCell(p)]
Second(p, m) == m[IsaCell(Plus(p, 1))]

Operand(p, r, m) ==
  IF Opcode(At(p, m)) \in {MVRD, ADDI, ANDI} THEN Second(p, m)
  ELSE IF Opcode(At(p, m)) = LDRR THEN m[IsaCell(r[SourReg(At(p, m))])]
  ELSE r[SourReg(At(p, m))]

Writing == (RegisterOps \ {CMP, TEST}) \cup {MVRD, ADDI, ANDI, LDRR}

(* The state after the instruction.                                        *)
AfterPc(p, r, f, m) ==
  LET o == Opcode(At(p, m))
  IN  IF o \in Branches /\ Jumps(o, f) THEN Plus(Plus(p, 1), SignExtend(Imm8(At(p, m))))
      ELSE IF o = JMPA THEN Second(p, m)
      ELSE IF o \in {MVRD, ADDI, ANDI} THEN Plus(Plus(p, 1), 1)
      ELSE IF o = CALLA THEN Plus(Plus(Plus(p, 1), 1), SignExtend(Imm8(At(p, m))))
      ELSE IF o = RET THEN r[LinkRegister]
      ELSE Plus(p, 1)

AfterRegs(p, r, f, m) ==
  LET o == Opcode(At(p, m))
      d == DestReg(At(p, m))
  IN  IF o \in Writing THEN [r EXCEPT ![d] = Value(o, Operand(p, r, m), r[d], f)]
      ELSE IF o = CALLA THEN [r EXCEPT ![LinkRegister] = Plus(Plus(p, 1), 1)]
      ELSE r

AfterFlags(p, r, f, m) ==
  FlagsLeft(Opcode(At(p, m)), Operand(p, r, m), r[DestReg(At(p, m))], f)

AfterMem(p, r, m) ==
  LET w == At(p, m)
  IN  IF Opcode(w) = STRR THEN [m EXCEPT ![IsaCell(r[DestReg(w)])] = r[SourReg(w)]] ELSE m

LandsWhereExpected ==
  /\ pc' = AfterPc(pc, regs, flags, mem)
  /\ regs' = AfterRegs(pc, regs, flags, mem)
  /\ flags' = AfterFlags(pc, regs, flags, mem)
  /\ mem' = AfterMem(pc, regs, mem)

-----------------------------------------------------------------------------
(* What the decoded instruction means for each component.                  *)
LEMMA Decoded ==
  /\ At(pc, mem) = ir /\ Opcode(ir) = op /\ DestReg(ir) = rd /\ SourReg(ir) = rs
  /\ Second(pc, mem) = extension /\ Plus(pc, 1) = next
  BY DEF At, Second, ir, op, rd, rs, extension, next

(* One-word instructions on registers.                                     *)
LEMMA RegisterStep ==
  ASSUME op \in RegisterOps
  PROVE  /\ AfterPc(pc, regs, flags, mem) = next
         /\ AfterRegs(pc, regs, flags, mem)
              = IF op \in {CMP, TEST} THEN regs
                ELSE [regs EXCEPT ![rd] = Value(op, regs[rs], regs[rd], flags)]
         /\ AfterFlags(pc, regs, flags, mem) = FlagsLeft(op, regs[rs], regs[rd], flags)
         /\ AfterMem(pc, regs, mem) = mem
<1>1. /\ op \notin Branches \cup {JMPA, MVRD, ADDI, ANDI, CALLA, RET, LDRR, STRR, CLC, STC}
      /\ op \in Writing <=> op \notin {CMP, TEST}
  BY DEF RegisterOps, Branches, Writing, ADD, SUB, AND, CMP, XOR, TEST, OR, MVRR, DEC, INC,
     SHL, SHR, ADC, SBB, NOT, ASR, JR, JRS, JRNS, JRC, JRNC, JRZ, JRNZ, JMPA, MVRD, ADDI,
     ANDI, CALLA, RET, LDRR, STRR, CLC, STC
<1>2. Operand(pc, regs, mem) = regs[rs]
  BY <1>1, Decoded DEF Operand
<1> QED
  BY <1>1, <1>2, Decoded DEF AfterPc, AfterRegs, AfterFlags, AfterMem

LEMMA RegisterLands == Arithmetic \/ Logic \/ Shift \/ Move => LandsWhereExpected
<1> SUFFICES ASSUME Arithmetic \/ Logic \/ Shift \/ Move PROVE LandsWhereExpected
  OBVIOUS
<1> USE DEF ADD, SUB, AND, CMP, XOR, TEST, OR, MVRR, DEC, INC, SHL, SHR, ADC, SBB, NOT, ASR,
            ADDI, ANDI, CLC, STC
<1>1. op \in RegisterOps /\ op \notin {CMP, TEST}
  BY DEF Arithmetic, Logic, Shift, Move, RegisterOps
<1>2. WriteResult(Value(op, regs[rs], regs[rd], flags), FlagsLeft(op, regs[rs], regs[rd], flags))
  BY DEF Arithmetic, Logic, Shift, Move, Value, FlagsLeft
<1> QED
  BY <1>1, <1>2, RegisterStep DEF WriteResult, LandsWhereExpected

LEMMA CompareLands == Compare => LandsWhereExpected
<1> SUFFICES ASSUME Compare PROVE LandsWhereExpected
  OBVIOUS
<1> USE DEF ADD, SUB, AND, CMP, XOR, TEST, OR, MVRR, DEC, INC, SHL, SHR, ADC, SBB, NOT, ASR,
            ADDI, ANDI, CLC, STC
<1>1. op \in RegisterOps /\ op \in {CMP, TEST}
  BY DEF Compare, RegisterOps
<1>2. flags' = FlagsLeft(op, regs[rs], regs[rd], flags)
  BY DEF Compare, Value, FlagsLeft
<1> QED
  BY <1>1, <1>2, RegisterStep DEF Compare, LandsWhereExpected

(* The instructions that move the program counter or set the carry, and    *)
(* the words that do nothing.                                              *)
LEMMA ControlLands ==
  Branch \/ SetCarry \/ Jump \/ Call \/ Return \/ Undefined => LandsWhereExpected
<1> SUFFICES ASSUME Branch \/ SetCarry \/ Jump \/ Call \/ Return \/ Undefined
             PROVE  LandsWhereExpected
  OBVIOUS
<1> USE DEF RegisterOps, Branches, Writing, ADD, SUB, AND, CMP, XOR, TEST, OR, MVRR, DEC,
     INC, SHL, SHR, ADC, SBB, NOT, ASR, JR, JRS, JRNS, JRC, JRNC, JRZ, JRNZ, JMPA, MVRD,
     ADDI, ANDI, CALLA, RET, LDRR, STRR, CLC, STC
<1>1. op \notin Writing \cup {CMP, TEST, STRR}
  BY DEF Branch, SetCarry, Jump, Call, Return, Undefined, Defined, Extended
<1>2. flags' = AfterFlags(pc, regs, flags, mem)
  BY <1>1, Decoded DEF AfterFlags, FlagsLeft, Branch, SetCarry, Jump, Call, Return,
     Undefined, Defined, Extended
<1>3. mem' = AfterMem(pc, regs, mem)
  BY <1>1, Decoded DEF AfterMem, Branch, SetCarry, Jump, Call, Return, Undefined
<1>4. regs' = AfterRegs(pc, regs, flags, mem)
  BY <1>1, Decoded DEF AfterRegs, Branch, SetCarry, Jump, Call, Return, Undefined,
     Defined, Extended
<1>5. CASE Branch
  <2>1. Take <=> Jumps(op, flags)
    BY DEF Take, Jumps
  <2>2. pc' = AfterPc(pc, regs, flags, mem)
    BY <1>5, <2>1, Decoded DEF AfterPc, Branch
  <2> QED
    BY <1>2, <1>3, <1>4, <2>2 DEF LandsWhereExpected
<1>6. CASE SetCarry \/ Jump \/ Call \/ Return \/ Undefined
  <2>1. pc' = AfterPc(pc, regs, flags, mem)
    BY <1>6, Decoded DEF AfterPc, SetCarry, Jump, Call, Return, Undefined, Defined, Extended
  <2> QED
    BY <1>2, <1>3, <1>4, <2>1 DEF LandsWhereExpected
<1> QED
  BY <1>5, <1>6

(* Immediate operands and memory accesses.                                 *)
LEMMA DataLands == Immediate \/ Load \/ Store => LandsWhereExpected
<1> SUFFICES ASSUME Immediate \/ Load \/ Store PROVE LandsWhereExpected
  OBVIOUS
<1> USE DEF RegisterOps, Branches, Writing, ADD, SUB, AND, CMP, XOR, TEST, OR, MVRR, DEC,
     INC, SHL, SHR, ADC, SBB, NOT, ASR, JR, JRS, JRNS, JRC, JRNC, JRZ, JRNZ, JMPA, MVRD,
     ADDI, ANDI, CALLA, RET, LDRR, STRR, CLC, STC
<1>1. pc' = AfterPc(pc, regs, flags, mem) /\ mem' = AfterMem(pc, regs, mem)
  BY Decoded DEF AfterPc, AfterMem, Immediate, Load, Store, WriteResult
<1>2. CASE Immediate
  <2>1. Operand(pc, regs, mem) = extension
    BY <1>2, Decoded DEF Immediate, Operand
  <2>2. flags' = AfterFlags(pc, regs, flags, mem)
    BY <1>2, <2>1, Decoded DEF Immediate, AfterFlags, FlagsLeft, Value
  <2>3. regs' = AfterRegs(pc, regs, flags, mem)
    BY <1>2, <2>1, Decoded DEF Immediate, AfterRegs, Value, Plus
  <2> QED
    BY <1>1, <2>2, <2>3 DEF LandsWhereExpected
<1>3. CASE Load
  <2>1. Operand(pc, regs, mem) = mem[IsaCell(regs[rs])]
    BY <1>3, Decoded DEF Load, Operand
  <2>2. flags' = AfterFlags(pc, regs, flags, mem)
    BY <1>3, <2>1, Decoded DEF Load, WriteResult, AfterFlags, FlagsLeft
  <2>3. regs' = AfterRegs(pc, regs, flags, mem)
    BY <1>3, <2>1, Decoded DEF Load, WriteResult, AfterRegs, Value
  <2> QED
    BY <1>1, <2>2, <2>3 DEF LandsWhereExpected
<1>4. CASE Store
  <2>1. flags' = AfterFlags(pc, regs, flags, mem) /\ regs' = AfterRegs(pc, regs, flags, mem)
    BY <1>4, Decoded DEF Store, AfterFlags, FlagsLeft, AfterRegs
  <2> QED
    BY <1>1, <2>1 DEF LandsWhereExpected
<1> QED
  BY <1>2, <1>3, <1>4

(* Every instruction leads from a state to one state only.                 *)
THEOREM StepIsFunction == Step => LandsWhereExpected
  BY RegisterLands, CompareLands, ControlLands, DataLands DEF Step
=============================================================================
