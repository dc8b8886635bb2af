-------------------------------- MODULE MCAlu ------------------------------
(***************************************************************************)
(* Operands at the edges of the unsigned and of the signed range, and a    *)
(* pair of complementary bit patterns.                                     *)
(***************************************************************************)
EXTENDS AluMeaning

MCOperands == {0, 1, 2, 21845, 32766, 32767, 32768, 32769, 43690, 65534, 65535}
=============================================================================
