------------------------------ MODULE AluMeaning ---------------------------
(***************************************************************************)
(* What the ALU's results and flags mean as arithmetic: exact sums and     *)
(* differences, comparisons of signed and unsigned numbers, halving and    *)
(* doubling.  The ALU is combinational, so its inputs are the state, and   *)
(* a step is a change of one of them.                                      *)
(***************************************************************************)
EXTENDS Alu

CONSTANT Operands   \* the words put on the ALU's inputs

ASSUME OperandsAssumption == Operands \subseteq Word

VARIABLES func, a, b, cin

aluVars == <<func, a, b, cin>>

AluInit ==
  /\ func = "ADD"
  /\ a \in Operands
  /\ b \in Operands
  /\ cin = 0

SelectFunction ==
  /\ func' \in AluFuncs
  /\ UNCHANGED <<a, b, cin>>

DriveA ==
  /\ a' \in Operands
  /\ UNCHANGED <<func, b, cin>>

DriveB ==
  /\ b' \in Operands
  /\ UNCHANGED <<func, a, cin>>

DriveCarry ==
  /\ cin' \in {0, 1}
  /\ UNCHANGED <<func, a, b>>

AluNext == SelectFunction \/ DriveA \/ DriveB \/ DriveCarry

AluSpec == AluInit /\ [][AluNext]_aluVars

Result == AluOut(func, a, b, cin)
Raised == AluFlags(func, a, b, cin)

(* The inputs have the width and the functions the ALU declares.           *)
AluInputsOK ==
  /\ func \in AluFuncs
  /\ a \in Word
  /\ b \in Word
  /\ cin \in {0, 1}

-----------------------------------------------------------------------------
(* ADD, ADC, INC, ADDI: C completes the result to the exact unsigned sum,  *)
(* and V is clear exactly when the result is the exact signed sum.         *)
AdditionMeaning ==
  func = "ADD" =>
    /\ Result + WordSize * Raised.c = a + b + cin
    /\ Raised.v = 0 <=> Signed(Result) = Signed(a) + Signed(b) + cin

(* SUB, SBB, DEC: C is the borrow of the exact unsigned difference, and V  *)
(* is clear exactly when the result is the exact signed difference.        *)
SubtractionMeaning ==
  func = "SUB" =>
    /\ Result - WordSize * Raised.c = b - a - cin
    /\ Raised.v = 0 <=> Signed(Result) = Signed(b) - Signed(a) - cin

(* CMP: the flags order the operands, as signed and as unsigned numbers,   *)
(* although the difference itself may not fit a word.                      *)
ComparisonMeaning ==
  func = "SUB" /\ cin = 0 =>
    /\ Raised.z = 1 <=> b = a
    /\ Raised.c = 1 <=> b < a
    /\ Raised.s # Raised.v <=> Signed(b) < Signed(a)

(* SHL doubles, SHR halves an unsigned and ASR a signed number; the bit    *)
(* shifted out is in C, so that nothing is lost.                           *)
ShiftMeaning ==
  /\ func = "SHL" => Result + WordSize * Raised.c = 2 * b
  /\ func = "SHR" => 2 * Result + Raised.c = b
  /\ func = "ASR" => 2 * Signed(Result) + Raised.c = Signed(b)
=============================================================================
