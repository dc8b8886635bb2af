--------------------------- MODULE MCTestbenches ----------------------------
(***************************************************************************)
(* The debugger: sessions over three programs: a call that returns into    *)
(* the halt loop, a loop that never halts and writes memory, and three     *)
(* branches in a row.  Breakpoints at the head of an instruction and       *)
(* behind an opcode.                                                       *)
(*                                                                         *)
(* basic_cpu_tb: memories of three words over a pool with a call to itself.*)
(*                                                                         *)
(* cpu_core_tb: programs of eight words that load the expected product, or *)
(* another word, and go on with two words of a pool.                       *)
(*                                                                         *)
(* diff_main: these programs, and memories of eight words whose halves are *)
(* alike, over a pool with calls, stores over code, words the golden model *)
(* does not know, and the halt loop.                                       *)
(***************************************************************************)
EXTENDS Testbenches

Depth == 8

HaltAfter(words) ==
  [a \in 0 .. Depth - 1 |-> IF a < Len(words) THEN words[a + 1] ELSE \h40FF]

DebuggerMemories ==
  { HaltAfter(<<256 * CALLA, 0>>),
    HaltAfter(<<256 * MVRD + 32, 7, 256 * NOT + 16, 256 * STRR + 33, 256 * JR + 253>>),
    HaltAfter(<<256 * JR, 256 * JR, 256 * JR, 256 * NOT>>) }

(* Only instructions of one word, for the run about the step command.      *)
OneWordMemories == {HaltAfter(<<256 * JR, 256 * JR, 256 * JR, 256 * NOT>>)}

BasicPool == { 256 * MVRD + 16, 256 * STRR + 18, 256 * CALLA + 254, 256 * CALLA,
               256 * JRZ + 1, 256 * NOT, \h40FF }

BasicMemories == [0 .. 2 -> BasicPool]

CorePool == { 256 * MVRD + 16, 256 * STRR + 18, 256 * LDRR + 33, 256 * CALLA + 255, 256 * CALLA,
              256 * JRZ + 1, 256 * JRNZ + 254, 256 * INC + 16, 256 * SBB + 50, 256 * ASR + 32,
              \h40FF, \h9000 }

ProductThen(product, first, second) ==
  [a \in 0 .. Depth - 1 |->
     CASE a = 0 -> 256 * MVRD + 32
       [] a = 1 -> product
       [] a = 2 -> first
       [] a = 3 -> second
       [] a > 3 -> \h40FF]

CoreMemories ==
  {ProductThen(product, first, second) :
     product \in {150, 151}, first \in CorePool, second \in CorePool}

DiffPool == { 256 * MVRD + 16, 256 * STRR + 18, 256 * LDRR + 33, 256 * CALLA + 255,
              256 * INC + 32, 256 * JRZ + 1, 256 * RET, 256 * JR, \h40FF }

Mirrored(words) == [a \in 0 .. Depth - 1 |-> words[a % 4]]

DiffMemories == {Mirrored(words) : words \in [0 .. 3 -> DiffPool]}

(* TLC computes a constant definition once, but not what a cfg names.      *)
AllMemories == DebuggerMemories \cup CoreMemories \cup DiffMemories

Memories == AllMemories
=============================================================================
