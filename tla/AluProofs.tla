------------------------------ MODULE AluProofs ----------------------------
(***************************************************************************)
(* The meaning of the ALU's results and flags, for all pairs of words.     *)
(***************************************************************************)
EXTENDS AluMeaning, TLAPS

-----------------------------------------------------------------------------
(* The inputs keep their widths.                                           *)
LEMMA InputsInvariant == AluSpec => []AluInputsOK
<1> USE OperandsAssumption DEF AluInputsOK
<1>1. AluInit => AluInputsOK
  BY DEF AluInit, AluFuncs
<1>2. AluInputsOK /\ [AluNext]_aluVars => AluInputsOK'
  BY DEF AluNext, aluVars, SelectFunction, DriveA, DriveB, DriveCarry
<1> QED
  BY <1>1, <1>2, PTL DEF AluSpec

(* Addition is exact, with C as a seventeenth bit or with V clear.         *)
LEMMA AdditionExact == AluInputsOK => AdditionMeaning
<1> SUFFICES ASSUME AluInputsOK, func = "ADD"
             PROVE  /\ Result + WordSize * Raised.c = a + b + cin
                    /\ Raised.v = 0 <=> Signed(Result) = Signed(a) + Signed(b) + cin
  BY DEF AdditionMeaning
<1>1. /\ a \in Nat /\ a < 65536
      /\ b \in Nat /\ b < 65536
      /\ cin \in Int /\ 0 <= cin /\ cin <= 1
  BY DEF AluInputsOK, Word, WordSize
<1>2. Result = (b + a + cin) % 65536
  BY DEF Result, AluOut, AddResult, WordSize
<1>3. Raised.c = (b + a + cin) \div 65536
  BY DEF Raised, AluFlags, CarryOut, AddResult, WordSize
<1>4. Raised.v = IF Sign(a) = Sign(b) /\ Sign(Result) # Sign(b) THEN 1 ELSE 0
  BY DEF Raised, AluFlags, OverflowOut, Result
<1> HIDE DEF Result, Raised
<1>5. Result + WordSize * Raised.c = a + b + cin
  BY <1>1, <1>2, <1>3 DEF WordSize
<1>6. Raised.v = 0 <=> Signed(Result) = Signed(a) + Signed(b) + cin
  BY <1>1, <1>2, <1>4 DEF Sign, Signed, WordSize
<1> QED
  BY <1>5, <1>6

(* Subtraction is exact, with C as a borrow or with V clear.               *)
LEMMA SubtractionExact == AluInputsOK => SubtractionMeaning
<1> SUFFICES ASSUME AluInputsOK, func = "SUB"
             PROVE  /\ Result - WordSize * Raised.c = b - a - cin
                    /\ Raised.v = 0 <=> Signed(Result) = Signed(b) - Signed(a) - cin
  BY DEF SubtractionMeaning
<1>1. /\ a \in Nat /\ a < 65536
      /\ b \in Nat /\ b < 65536
      /\ cin \in Int /\ 0 <= cin /\ cin <= 1
  BY DEF AluInputsOK, Word, WordSize
<1>2. Result = ((b - a - cin) % 131072) % 65536
  BY DEF Result, AluOut, SubResult, WordSize
<1>3. Raised.c = ((b - a - cin) % 131072) \div 65536
  BY DEF Raised, AluFlags, CarryOut, SubResult, WordSize
<1>4. Raised.v = IF Sign(a) # Sign(b) /\ Sign(Result) # Sign(b) THEN 1 ELSE 0
  BY DEF Raised, AluFlags, OverflowOut, Result
<1> HIDE DEF Result, Raised
<1>5. Result - WordSize * Raised.c = b - a - cin
  BY <1>1, <1>2, <1>3 DEF WordSize
<1>6. Raised.v = 0 <=> Signed(Result) = Signed(b) - Signed(a) - cin
  BY <1>1, <1>2, <1>4 DEF Sign, Signed, WordSize
<1> QED
  BY <1>5, <1>6

(* The flags of a difference order its operands.                           *)
LEMMA ComparisonExact == AluInputsOK => ComparisonMeaning
<1> SUFFICES ASSUME AluInputsOK, func = "SUB", cin = 0
             PROVE  /\ Raised.z = 1 <=> b = a
                    /\ Raised.c = 1 <=> b < a
                    /\ Raised.s # Raised.v <=> Signed(b) < Signed(a)
  BY DEF ComparisonMeaning
<1>1. /\ a \in Nat /\ a < 65536
      /\ b \in Nat /\ b < 65536
  BY DEF AluInputsOK, Word, WordSize
<1>2. Result = ((b - a - 0) % 131072) % 65536
  BY DEF Result, AluOut, SubResult, WordSize
<1>3. Raised.c = ((b - a - 0) % 131072) \div 65536
  BY DEF Raised, AluFlags, CarryOut, SubResult, WordSize
<1>4. /\ Raised.v = IF Sign(a) # Sign(b) /\ Sign(Result) # Sign(b) THEN 1 ELSE 0
      /\ Raised.z = IF Result = 0 THEN 1 ELSE 0
      /\ Raised.s = Sign(Result)
  BY DEF Raised, AluFlags, OverflowOut, Result
<1> HIDE DEF Result, Raised
<1>5. Raised.z = 1 <=> b = a
  BY <1>1, <1>2, <1>4
<1>6. Raised.c = 1 <=> b < a
  BY <1>1, <1>3
<1>7. Raised.s # Raised.v <=> Signed(b) < Signed(a)
  BY <1>1, <1>2, <1>4 DEF Sign, Signed, WordSize
<1> QED
  BY <1>5, <1>6, <1>7

(* Shifts lose nothing: the bit that leaves the word is C.                 *)
LEMMA ShiftExact == AluInputsOK => ShiftMeaning
<1> SUFFICES ASSUME AluInputsOK PROVE ShiftMeaning
  OBVIOUS
<1>1. b \in Nat /\ b < 65536
  BY DEF AluInputsOK, Word, WordSize
<1>2. func = "SHL" => Result + WordSize * Raised.c = 2 * b
  BY <1>1 DEF Result, Raised, AluOut, AluFlags, CarryOut, Sign, WordSize
<1>3. func = "SHR" => 2 * Result + Raised.c = b
  BY <1>1 DEF Result, Raised, AluOut, AluFlags, CarryOut
<1>4. func = "ASR" => 2 * Signed(Result) + Raised.c = Signed(b)
  BY <1>1 DEF Result, Raised, AluOut, AluFlags, CarryOut, ShiftRightArith,
              Sign, Signed, WordSize
<1> QED
  BY <1>2, <1>3, <1>4 DEF ShiftMeaning

-----------------------------------------------------------------------------
(* Sums of the ALU are exact for all words and either carry in.            *)
THEOREM AdditionCorrect == AluSpec => []AdditionMeaning
  BY InputsInvariant, AdditionExact, PTL

(* Differences of the ALU are exact for all words and either borrow in.    *)
THEOREM SubtractionCorrect == AluSpec => []SubtractionMeaning
  BY InputsInvariant, SubtractionExact, PTL

(* After CMP the flags order all pairs of words, signed and unsigned.      *)
THEOREM ComparisonCorrect == AluSpec => []ComparisonMeaning
  BY InputsInvariant, ComparisonExact, PTL

(* SHL, SHR and ASR double and halve every word without loss.              *)
THEOREM ShiftCorrect == AluSpec => []ShiftMeaning
  BY InputsInvariant, ShiftExact, PTL
=============================================================================
