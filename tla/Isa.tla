-------------------------------- MODULE Isa --------------------------------
(***************************************************************************)
(* The instruction set: one step is one instruction, as in GoldenIsa::step *)
(* of the Verilator environment and in CpuModel.run of the Python          *)
(* reference model (which also has RET).  It knows nothing of cycles,      *)
(* stages, the instruction register or the address bus.                    *)
(***************************************************************************)
EXTENDS Encoding

CONSTANTS MemDepth, Programs

VARIABLES pc, regs, flags, mem

isaVars == <<pc, regs, flags, mem>>

IsaCell(address) == address % MemDepth

ir       == mem[IsaCell(pc)]
op       == Opcode(ir)
rd       == DestReg(ir)
rs       == SourReg(ir)
next     == Plus(pc, 1)              \* the word after the opcode
extension == mem[IsaCell(next)]       \* the second word, where there is one

B(condition) == IF condition THEN 1 ELSE 0

IsaInit ==
  /\ pc = 0
  /\ regs = [i \in Reg |-> 0]
  /\ flags = [c |-> 0, z |-> 0, v |-> 0, s |-> 0]
  /\ mem \in Programs

(***************************************************************************)
(* Flags.  The operands of an addition or subtraction are a and b, its     *)
(* result r; overflow is read off the three signs.                         *)
(***************************************************************************)
LogicFlags(r) ==
  [c |-> 0, z |-> B(r = 0), v |-> 0, s |-> Sign(r)]

ShiftFlags(carry, r) ==
  [c |-> carry, z |-> B(r = 0), v |-> 0, s |-> Sign(r)]

AddFlags(a, b, carry) ==
  LET r == (b + a + carry) % WordSize
  IN  [c |-> B(b + a + carry >= WordSize),
       z |-> B(r = 0),
       v |-> B(Sign(a) # Sign(r) /\ Sign(b) # Sign(r)),
       s |-> Sign(r)]

SubFlags(a, b, borrow) ==
  LET r == (b - a - borrow) % WordSize
  IN  [c |-> B(b < a + borrow),
       z |-> B(r = 0),
       v |-> B(Sign(a) # Sign(b) /\ Sign(r) # Sign(b)),
       s |-> Sign(r)]

(* A one-word instruction that writes result to rd. *)
WriteResult(result, newFlags) ==
  /\ pc' = next
  /\ regs' = [regs EXCEPT ![rd] = result]
  /\ flags' = newFlags
  /\ UNCHANGED mem

(***************************************************************************)
(* One action per group of opcodes.                                        *)
(***************************************************************************)
Arithmetic ==
  LET a == regs[rs]
      b == regs[rd]
      c == flags.c
  IN  \/ op = ADD /\ WriteResult((b + a) % WordSize, AddFlags(a, b, 0))
      \/ op = ADC /\ WriteResult((b + a + c) % WordSize, AddFlags(a, b, c))
      \/ op = INC /\ WriteResult((b + 1) % WordSize, AddFlags(0, b, 1))
      \/ op = SUB /\ WriteResult((b - a) % WordSize, SubFlags(a, b, 0))
      \/ op = SBB /\ WriteResult((b - a - c) % WordSize, SubFlags(a, b, c))
      \/ op = DEC /\ WriteResult((b - 1) % WordSize, SubFlags(1, b, 0))

Logic ==
  LET a == regs[rs]
      b == regs[rd]
  IN  \/ op = AND /\ WriteResult(BitAnd(a, b), LogicFlags(BitAnd(a, b)))
      \/ op = OR  /\ WriteResult(BitOr(a, b), LogicFlags(BitOr(a, b)))
      \/ op = XOR /\ WriteResult(BitXor(a, b), LogicFlags(BitXor(a, b)))
      \/ op = NOT /\ WriteResult(BitNot(b), LogicFlags(BitNot(b)))

Shift ==
  LET b == regs[rd]
      left  == (2 * b) % WordSize
      right == b \div 2
      arithmetic == IF Sign(b) = 1 THEN 32768 + right ELSE right
  IN  \/ op = SHL /\ WriteResult(left, ShiftFlags(Sign(b), left))
      \/ op = SHR /\ WriteResult(right, ShiftFlags(b % 2, right))
      \/ op = ASR /\ WriteResult(arithmetic, ShiftFlags(b % 2, arithmetic))

Move == op = MVRR /\ WriteResult(regs[rs], flags)

(* CMP and TEST only set the flags. *)
Compare ==
  /\ \/ op = CMP /\ flags' = SubFlags(regs[rs], regs[rd], 0)
     \/ op = TEST /\ flags' = LogicFlags(BitAnd(regs[rs], regs[rd]))
  /\ pc' = next
  /\ UNCHANGED <<regs, mem>>

Take ==
  \/ op = JR
  \/ op = JRS  /\ flags.s = 1
  \/ op = JRNS /\ flags.s = 0
  \/ op = JRC  /\ flags.c = 1
  \/ op = JRNC /\ flags.c = 0
  \/ op = JRZ  /\ flags.z = 1
  \/ op = JRNZ /\ flags.z = 0

Branch ==
  /\ op \in Branches
  /\ pc' = IF Take THEN Plus(next, SignExtend(Imm8(ir))) ELSE next
  /\ UNCHANGED <<regs, flags, mem>>

SetCarry ==
  /\ \/ op = CLC /\ flags' = [flags EXCEPT !.c = 0]
     \/ op = STC /\ flags' = [flags EXCEPT !.c = 1]
  /\ pc' = next
  /\ UNCHANGED <<regs, mem>>

Jump ==
  /\ op = JMPA
  /\ pc' = extension
  /\ UNCHANGED <<regs, flags, mem>>

Immediate ==
  /\ \/ /\ op = MVRD
        /\ regs' = [regs EXCEPT ![rd] = extension]
        /\ UNCHANGED flags
     \/ /\ op = ADDI
        /\ regs' = [regs EXCEPT ![rd] = Plus(@, extension)]
        /\ flags' = AddFlags(extension, regs[rd], 0)
     \/ /\ op = ANDI
        /\ regs' = [regs EXCEPT ![rd] = BitAnd(extension, @)]
        /\ flags' = LogicFlags(BitAnd(extension, regs[rd]))
  /\ pc' = Plus(next, 1)
  /\ UNCHANGED mem

Load == op = LDRR /\ WriteResult(mem[IsaCell(regs[rs])], flags)

Store ==
  /\ op = STRR
  /\ pc' = next
  /\ mem' = [mem EXCEPT ![IsaCell(regs[rd])] = regs[rs]]
  /\ UNCHANGED <<regs, flags>>

(* The second word of CALLA is reserved: skipped and never used. *)
Call ==
  LET return == Plus(next, 1)
  IN  /\ op = CALLA
      /\ regs' = [regs EXCEPT ![LinkRegister] = return]
      /\ pc' = Plus(return, SignExtend(Imm8(ir)))
      /\ UNCHANGED <<flags, mem>>

Return ==
  /\ op = RET
  /\ pc' = regs[LinkRegister]
  /\ UNCHANGED <<regs, flags, mem>>

(* Any other word does nothing for one word: the controller's default.     *)
(* (Both software models stop with an error there instead.)                *)
Undefined ==
  /\ op \notin Defined
  /\ pc' = next
  /\ UNCHANGED <<regs, flags, mem>>

(* Reset clears everything but the memory. *)
IsaReset ==
  /\ pc' = 0
  /\ regs' = [i \in Reg |-> 0]
  /\ flags' = [c |-> 0, z |-> 0, v |-> 0, s |-> 0]
  /\ UNCHANGED mem

Step ==
  \/ Arithmetic
  \/ Logic
  \/ Shift
  \/ Move
  \/ Compare
  \/ Branch
  \/ SetCarry
  \/ Jump
  \/ Immediate
  \/ Load
  \/ Store
  \/ Call
  \/ Return
  \/ Undefined

IsaNext == Step \/ IsaReset

IsaSpec == IsaInit /\ [][IsaNext]_isaVars
=============================================================================
