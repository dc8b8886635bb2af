-------------------------- MODULE AssembledProgram ---------------------------
(***************************************************************************)
(* The words of the assembler, loaded from address 0 and executed by the   *)
(* instruction set, against the text they came from.                       *)
(***************************************************************************)
EXTENDS Assembler, Isa

ASSUME MemoryAssumption == MemDepth \in Nat \ {0}

asmIsaVars == <<asmVars, isaVars>>

Machine == <<pc, regs, flags>>

(* Nothing is loaded before the assembler has written its file. *)
RunInit ==
  /\ AsmInit
  /\ pc = 0
  /\ regs = [i \in Reg |-> 0]
  /\ flags = [c |-> 0, z |-> 0, v |-> 0, s |-> 0]
  /\ mem = [a \in 0 .. MemDepth - 1 |-> 0]

load_hex ==
  /\ phase' = "loaded"
  /\ mem' = [a \in DOMAIN mem |-> IF a < Len(words) THEN words[a + 1] ELSE 0]
  /\ UNCHANGED <<source, address, encoded, words, Machine>>

(* The program runs until it leaves its text. *)
Execute ==
  /\ phase = "loaded"
  /\ pc < Len(words)
  /\ Step
  /\ UNCHANGED asmVars

RunNext ==
  \/ Assemble /\ UNCHANGED isaVars
  \/ phase = "written" /\ load_hex
  \/ Execute

RunSpec == RunInit /\ [][RunNext]_asmIsaVars

(* The line whose instruction starts at an address: 0 where none does. *)
LineAt(a) ==
  IF a >= Ends(address)
  THEN Len(source) + 1
  ELSE LET there == {i \in DOMAIN source : address[i] = a /\ source[i].mnemonic # NoMnemonic}
       IN  IF there = {} THEN 0 ELSE Least(there)

FirstLine == InstructionFrom(source, 1)

CurrentLine == IF phase = "loaded" THEN LineAt(pc) ELSE FirstLine
ReturnLine  == IF phase = "loaded" THEN LineAt(regs[LinkRegister]) ELSE FirstLine

Text == INSTANCE SourceProgram WITH running <- (phase = "loaded"),
                                    line <- CurrentLine, link <- ReturnLine

(***************************************************************************)
(* The program does what its text says: it is always at the first word of  *)
(* a line, falls from line to line, branches and calls to the line that    *)
(* bears the label (the right one of several that share it) and returns    *)
(* to the line after the call.                                             *)
(***************************************************************************)
ImplementsText == Text!TextSpec
=============================================================================
