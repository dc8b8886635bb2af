-------------------------------- MODULE Alu --------------------------------
(***************************************************************************)
(* The arithmetic and logic unit: combinational, two operands chosen by    *)
(* alu_in_sel, one of nine functions chosen by alu_func, and the values    *)
(* the flags would take.  In a subtraction C is a borrow.                  *)
(***************************************************************************)
EXTENDS Words

AluFuncs  == {"ADD", "SUB", "AND", "OR", "XOR", "SHL", "SHR", "NOT", "ASR"}
AluInputs == {"REGS", "SR", "DR", "BR", "PC", "MEM", "DR_MEM"}

Flags == [c : {0, 1}, z : {0, 1}, v : {0, 1}, s : {0, 1}]

OperandA(sel, memory_data, offset_value, source_reg_value) ==
    CASE sel \in {"REGS", "SR"} -> source_reg_value
      [] sel = "BR"             -> offset_value
      [] sel = "DR_MEM"         -> memory_data
      [] OTHER                  -> 0

OperandB(sel, memory_data, pc_value, dest_reg_value) ==
    CASE sel \in {"REGS", "DR", "DR_MEM"} -> dest_reg_value
      [] sel \in {"BR", "PC"}             -> pc_value
      [] sel = "MEM"                      -> memory_data
      [] OTHER                            -> 0

(* As if the sum or the difference were computed in sixteen bits only. *)
AddResultTruncated(a, b, cin) == (b + a + cin) % WordSize
SubResultTruncated(a, b, cin) == (b - a - cin) % WordSize

(* Seventeen bits: bit 16 is the carry, or the borrow. *)
AddResult(a, b, cin) == b + a + cin
SubResult(a, b, cin) == (b - a - cin) % (2 * WordSize)

(* As if the operand of >>> were unsigned. *)
ShiftRightLogical(b) == b \div 2
ShiftRightArith(b)   == 32768 * Sign(b) + b \div 2

AluOut(func, a, b, cin) ==
    CASE func = "ADD" -> AddResult(a, b, cin) % WordSize
      [] func = "SUB" -> SubResult(a, b, cin) % WordSize
      [] func = "AND" -> BitAnd(a, b)
      [] func = "OR"  -> BitOr(a, b)
      [] func = "XOR" -> BitXor(a, b)
      [] func = "SHL" -> (2 * b) % WordSize
      [] func = "SHR" -> b \div 2
      [] func = "NOT" -> BitNot(b)
      [] func = "ASR" -> ShiftRightArith(b)
      [] OTHER        -> 0

(* As if subtraction left C set when there is no borrow. *)
CarryOutNoBorrow(func, a, b, cin) ==
    CASE func = "ADD" -> AddResult(a, b, cin) \div WordSize
      [] func = "SUB" -> 1 - SubResult(a, b, cin) \div WordSize
      [] func = "SHL" -> Sign(b)
      [] func \in {"SHR", "ASR"} -> b % 2
      [] OTHER        -> 0

CarryOut(func, a, b, cin) ==
    CASE func = "ADD" -> AddResult(a, b, cin) \div WordSize
      [] func = "SUB" -> SubResult(a, b, cin) \div WordSize
      [] func = "SHL" -> Sign(b)
      [] func \in {"SHR", "ASR"} -> b % 2
      [] OTHER        -> 0

(* As if overflow in a subtraction were judged like overflow in a sum. *)
OverflowOutAsSum(func, a, b, cin) ==
    LET result == AluOut(func, a, b, cin)
    IN  IF /\ func \in {"ADD", "SUB"}
           /\ Sign(a) = Sign(b)
           /\ Sign(result) # Sign(b)
        THEN 1 ELSE 0

OverflowOut(func, a, b, cin) ==
    LET result == AluOut(func, a, b, cin)
        overflow ==
          \/ func = "ADD" /\ Sign(a) = Sign(b) /\ Sign(result) # Sign(b)
          \/ func = "SUB" /\ Sign(a) # Sign(b) /\ Sign(result) # Sign(b)
    IN  IF overflow THEN 1 ELSE 0

AluFlags(func, a, b, cin) ==
    LET result == AluOut(func, a, b, cin)
    IN  [c |-> CarryOut(func, a, b, cin),
         z |-> IF result = 0 THEN 1 ELSE 0,
         v |-> OverflowOut(func, a, b, cin),
         s |-> Sign(result)]
=============================================================================
