---------------------------- MODULE MCAssembly -------------------------------
(***************************************************************************)
(* Written texts: up to three lines over a pool, in which labels repeat,   *)
(* stand alone or share a line, and a branch or call just in and just out  *)
(* of its range.  Nothing in them stores over the program or writes R15    *)
(* other than by a call.  Branches and calls to numbers are followed by a  *)
(* line that is refused, for the text would mean nothing line by line.     *)
(*                                                                         *)
(* Generated texts: bodies of two blocks, with two registers, one of them  *)
(* drawn for data that looks like a jump; every branch of the targeted     *)
(* generator.                                                              *)
(***************************************************************************)
EXTENDS RandomTests

Bodies ==
  { Plain({}, NoMnemonic, 0, 0), Plain({}, LDRR, 2, 1), Plain({}, RET, 0, 0),
    Line({}, JR, 0, 0, Forward("1")), Line({}, JR, 0, 0, Backward("1")),
    Line({}, JRNZ, 0, 0, Name("L")), Line({}, CALLA, 0, 0, Name("L")),
    Line({}, CALLA, 0, 0, Forward("1")), Line({}, JMPA, 0, 0, Name("L")) }

PoolLines ==
  {[body EXCEPT !.labels = labels] : body \in Bodies, labels \in {{}, {"1"}}}
    \cup { Plain({"L"}, LDRR, 2, 1), Plain({"L"}, NoMnemonic, 0, 0),
           Line({}, MVRD, 1, 0, Number(-2)), Plain({}, \h90, 0, 0),
           [Plain({}, ADD, 1, 1) EXCEPT !.wellFormed = FALSE] }

ShortTexts == [1 .. 3 -> PoolLines]

Filler(n) == [i \in 1 .. n |-> Plain({}, MVRR, 3, 4)]

FarTexts ==
  LET ahead(mn, n) ==
        <<Line({}, mn, 0, 0, Name("L"))>> \o Filler(n) \o <<Plain({"L"}, INC, 1, 0)>>
      behind(mn, n) ==
        <<Line({}, JMPA, 0, 0, Forward("1")), Plain({"L"}, RET, 0, 0)>>
          \o Filler(n) \o <<Line({"1"}, mn, 0, 0, Name("L"))>>
  IN  {ahead(mn, n) : mn \in {JR, JRNZ, CALLA}, n \in 126 .. 129}
        \cup {behind(mn, n) : mn \in {JR, JRNZ, CALLA}, n \in 124 .. 128}

(* Both sides of every limit of the displacement, near and round the top.  *)
Distances == {-65409, -65408, -129, -128, -2, 127, 128, 65407, 65408, 65534}

NumberTexts ==
  LET text(mn, target) ==
        <<Line({}, mn, 0, 0, Number(target)), [Plain({}, ADD, 1, 1) EXCEPT !.wellFormed = FALSE]>>
  IN  {text(JR, 1 + d) : d \in Distances} \cup {text(CALLA, 2 + d) : d \in Distances}

WrittenTexts == ShortTexts \cup FarTexts \cup NumberTexts

(* The three addresses that are stored to are beyond every program.        *)
AssemblyDepth == 288
NoPrograms    == {}

RandomTargets ==
  { {}, {"jrz_taken", "mvrd_imm_zero"}, {"jrnz_taken", "mem_addr_high"},
    {"jrc_taken", "add_overflow"}, {"jrnc_taken", "shl_sets_carry"},
    {"jrs_taken", "adc_carry_in_set"}, {"jrns_taken", "shr_sets_carry", "mvrd_imm_high"} }

RandomImmediates == {[r \in 0 .. 9 |-> IF r = 1 THEN \h40FF ELSE IF r = 9 THEN \h8000 ELSE r]}

RandomArith    == {SBB, CMP}
RandomBranches == {JRNS}
=============================================================================
