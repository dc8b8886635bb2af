---------------------------- MODULE MCOperations ---------------------------
(***************************************************************************)
(* Programs that run one operation on operands at the edges of the range,  *)
(* and programs that run over words no instruction has.                    *)
(***************************************************************************)
EXTENDS MCPrograms

Operand == {0, 1, 255, 21845, 32767, 32768, 65535}

(* R1 <- x, R2 <- y, C <- 0 or 1, then R1 <- R1 op R2. *)
OnRegisters ==
  { Image(<<Ins(MVRD, 1, 0), x, Ins(MVRD, 2, 0), y, Ins(carry, 0, 0), Ins(opc, 1, 2)>>) :
      x \in Operand, y \in Operand, carry \in {CLC, STC}, opc \in RegisterOps }

(* R1 <- x, then R1 <- R1 op imm, then a branch on the flags. *)
OnImmediate ==
  { Image(<<Ins(MVRD, 1, 0), x, Ins(opc, 1, 0), y, Rel(branch, 1)>>) :
      x \in Operand, y \in Operand, opc \in {ADDI, ANDI}, branch \in Branches }

OperationPrograms == OnRegisters \cup OnImmediate

(* One opcode from each gap of the table, in front of a call and a store.   *)
OnUndefined ==
  { Image(<<Ins(opc, 1, 2), Ins(STRR, 1, 2), Ins(opc, 3, 4), Rel(CALLA, 0), y, Ins(opc, 15, 0)>>) :
      opc \in {\h10, \h42, \h48, \h79, \h86, \h90, \hF2, \hFF}, y \in Operand }

ShortPrograms == CallPrograms \cup OperationPrograms \cup OnUndefined
=============================================================================
