----------------------------- MODULE Encoding ------------------------------
(***************************************************************************)
(* The instruction encoding: the opcode in bits 15-8, the destination      *)
(* register in bits 7-4, the source register in bits 3-0 and, in branches  *)
(* and CALLA, a signed 8-bit displacement in bits 7-0.                     *)
(***************************************************************************)
EXTENDS Words

Opcode(w)  == w \div 256
DestReg(w) == (w \div 16) % 16
SourReg(w) == w % 16
Imm8(w)    == w % 256

Reg == 0 .. 15
LinkRegister == 15

(* Single-word instructions on registers. *)
ADD  == \h00
SUB  == \h01
AND  == \h02
CMP  == \h03
XOR  == \h04
TEST == \h05
OR   == \h06
MVRR == \h07
DEC  == \h08
INC  == \h09
SHL  == \h0A
SHR  == \h0B
ADC  == \h0C
SBB  == \h0D
NOT  == \h0E
ASR  == \h0F
RegisterOps == {ADD, SUB, AND, CMP, XOR, TEST, OR, MVRR,
                DEC, INC, SHL, SHR, ADC, SBB, NOT, ASR}

(* Relative branches. *)
JR   == \h40
JRS  == \h41
JRNS == \h43
JRC  == \h44
JRNC == \h45
JRZ  == \h46
JRNZ == \h47
Branches == {JR, JRS, JRNS, JRC, JRNC, JRZ, JRNZ}

(* Carry flag, return. *)
CLC == \h78
STC == \h7A
RET == \hF1

(* Instructions that take the fetch-second-word cycle. *)
JMPA  == \h80
MVRD  == \h81
LDRR  == \h82
STRR  == \h83
ADDI  == \h84
ANDI  == \h85
CALLA == \hF0

(* Those of them followed by an extension word in memory. *)
Extended == {JMPA, MVRD, ADDI, ANDI, CALLA}

Defined == RegisterOps \cup Branches \cup {CLC, STC, RET}
             \cup Extended \cup {LDRR, STRR}
=============================================================================
