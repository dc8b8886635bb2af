----------------------------- MODULE RandomTests -----------------------------
(***************************************************************************)
(* model/generate_random_tests.py: emits a program, block by block; then   *)
(* the assembler translates it and it runs.  A random choice is any        *)
(* choice; weights and densities only change how likely it is.             *)
(***************************************************************************)
EXTENDS AssembledProgram

CONSTANTS
  body_ops,      \* blocks in the loop: 8, or 10 when targeted
  TargetSets,    \* sets of uncovered bins the generator may be given
  LoopCounts,    \* values of R12, among 2 .. max_loop_depth + 2
  Immediates,    \* initial values of R0-R9
  Registers,     \* bound: the registers of REGISTER_POOL that are drawn
  ArithOps,      \* bound: the operations of ARITH_OPS that are drawn
  BranchOps      \* bound: the conditions of BRANCH_OPS that are drawn

ASSUME GeneratorAssumption ==
  /\ body_ops \in Nat
  /\ LoopCounts \subseteq Int
  /\ Immediates \subseteq [0 .. 9 -> Word]
  /\ ArithOps \subseteq RegisterOps
  /\ BranchOps \subseteq Branches

(* No program reaches the addresses that are stored to: it has 29 lines    *)
(* and six a block at most, and a line at most two words (178 words for    *)
(* ten blocks, below 100 hexadecimal).                                     *)
ASSUME RoomAssumption ==
  /\ body_ops > 0
  /\ \A a \in {\h100, \h101, \hFF10} : a % MemDepth >= 2 * (29 + 6 * body_ops)

VARIABLES
  targeted_bins,
  blocks           \* emitted so far

randomVars == <<asmIsaVars, targeted_bins, blocks>>

REGISTER_POOL == 0 .. 9
Drawn == Registers \cap REGISTER_POOL
UNARY_OPS == {DEC, INC, SHL, SHR}

Mvrd(r, imm)   == Line({}, MVRD, r, 0, Number(imm))
Op(mn, d, s)   == Plain({}, mn, d, s)
To(mn, label)  == Line({}, mn, 0, 0, Name(label))
Label(label)   == Plain({label}, NoMnemonic, 0, 0)

Loop == <<"LOOP", 0>>
Exit == <<"EXIT", 0>>
Halt == <<"HALT", 0>>
Skip == <<"SKIP", blocks>>

Targeted(bins) == targeted_bins \cap bins # {}

If(condition, lines) == IF condition THEN lines ELSE <<>>

Pairs == Drawn \X Drawn

(* Operands of CMP and TEST are never the same register. *)
DistinctPairs == {p \in Pairs : p[1] # p[2]}

-----------------------------------------------------------------------------
GenInit ==
  /\ targeted_bins \in TargetSets
  /\ blocks = 0
  /\ source = <<>>
  /\ phase = "generate"
  /\ address = <<0>>
  /\ encoded = 0
  /\ words = <<>>
  /\ pc = 0
  /\ regs = [i \in Reg |-> 0]
  /\ flags = [c |-> 0, z |-> 0, v |-> 0, s |-> 0]
  /\ mem = [a \in 0 .. MemDepth - 1 |-> 0]

(* The bins whose name starts with mem_.                                    *)
MemoryBins ==
  {"mem_addr_low", "mem_addr_mid", "mem_addr_high", "mem_store_then_load",
   "mem_read_after_write_same_addr", "mem_addr_from_r10", "mem_addr_from_r11"}

TargetedSetup ==
  If(Targeted({"mvrd_imm_zero", "test_zero", "cmp_zero"}), <<Mvrd(0, 0)>>)
    \o If(Targeted({"mvrd_imm_high", "add_overflow", "shl_sets_carry"}), <<Mvrd(9, \h8001)>>)
    \o If(Targeted(MemoryBins), <<Mvrd(13, \hFF10)>>)

Imm(r, imm) ==
  IF Targeted({"mvrd_imm_zero"}) /\ r = 0 THEN 0
  ELSE IF Targeted({"mvrd_imm_high"}) /\ r = 9 THEN \hF123
  ELSE imm[r]

(* As if the two stores came before their address registers are set. *)
AddressSetupLate(n) == <<Op(STRR, 10, 1), Op(STRR, 11, 2)>> \o <<Mvrd(10, \h100), Mvrd(11, \h101), Mvrd(12, n)>>

AddressSetup(n) == <<Mvrd(10, \h100), Mvrd(11, \h101), Mvrd(12, n)>>

RegisterSetup(imm) ==
  <<Mvrd(0, Imm(0, imm)), Mvrd(1, Imm(1, imm)), Op(STRR, 10, 1),
    Mvrd(2, Imm(2, imm)), Op(STRR, 11, 2)>>
    \o [i \in 1 .. 7 |-> Mvrd(i + 2, Imm(i + 2, imm))]

Setup(n, imm) ==
  AddressSetup(n) \o TargetedSetup \o RegisterSetup(imm)
    \o If(Targeted({"mem_addr_high"}),
          <<Mvrd(13, \hFF10), Op(STRR, 13, 3), Op(LDRR, 4, 13)>>)
    \o <<Label(Loop)>>

EmitSetup ==
  /\ phase = "generate"
  /\ source = <<>>
  /\ \E n \in LoopCounts, imm \in Immediates : source' = Setup(n, imm)
  /\ UNCHANGED <<phase, address, encoded, words, isaVars, targeted_bins, blocks>>

WithCarry(mn, p) == <<Op(STC, 0, 0), Op(mn, p[1], p[2])>>

Binary(mn) ==
  {<<Op(mn, p[1], p[2])>> : p \in IF mn \in {CMP, TEST} THEN DistinctPairs ELSE Pairs}

ArithBlocks ==
  IF Targeted({"add_overflow"}) /\ blocks = 0
  THEN {<<Mvrd(0, \h7FFF), Mvrd(1, 1), Op(ADD, 0, 1)>>}
  ELSE IF Targeted({"adc_carry_in_set"}) /\ blocks = 1
  THEN {WithCarry(ADC, p) : p \in Pairs}
  ELSE IF Targeted({"sbb_carry_in_set"}) /\ blocks = 2
  THEN {WithCarry(SBB, p) : p \in Pairs}
  ELSE UNION {Binary(mn) : mn \in ArithOps}

UnaryBlocks ==
  IF Targeted({"shl_sets_carry"}) /\ blocks = 0
  THEN {<<Mvrd(9, \h8001), Op(SHL, 9, 0)>>}
  ELSE IF Targeted({"shr_sets_carry"}) /\ blocks = 1
  THEN {<<Mvrd(8, 1), Op(SHR, 8, 0)>>}
  ELSE {<<Op(mn, d, 0)>> : mn \in UNARY_OPS, d \in Drawn}

MemBlocks ==
  LET address_registers == {10, 11} \cup (IF Targeted({"mem_addr_high"}) THEN {13} ELSE {})
  IN  {<<Op(STRR, a, r)>> : a \in address_registers, r \in Drawn}
        \cup {<<Op(LDRR, r, a)>> : a \in address_registers, r \in Drawn}

ComparedTo(p, jump) == <<Op(CMP, p[1], p[2]), To(jump, Skip)>>

(* The first condition of the list that is still to be covered is forced.  *)
Condition ==
  IF Targeted({"jrz_taken"}) THEN {ComparedTo(<<d, d>>, JRZ) : d \in Drawn}
  ELSE IF Targeted({"jrnz_taken"}) THEN {ComparedTo(p, JRNZ) : p \in DistinctPairs}
  ELSE IF Targeted({"jrc_taken", "jrnc_not_taken"}) THEN {<<Op(STC, 0, 0), To(JRC, Skip)>>}
  ELSE IF Targeted({"jrnc_taken", "jrc_not_taken"}) THEN {<<Op(CLC, 0, 0), To(JRNC, Skip)>>}
  ELSE IF Targeted({"jrs_taken"}) THEN {<<Mvrd(0, 0), Mvrd(1, 1), Op(SUB, 0, 1), To(JRS, Skip)>>}
  ELSE IF Targeted({"jrns_taken"}) THEN {<<Mvrd(0, 1), Mvrd(1, 1), Op(CMP, 0, 1), To(JRNS, Skip)>>}
  ELSE {ComparedTo(p, mn) : p \in DistinctPairs, mn \in BranchOps}

(* The label that is branched to, after an instruction that is passed over. *)
PassedOver(mn) == <<Op(mn, 0, 0), Label(Skip)>>

FlagBranchBlocks == {lines \o PassedOver(mn) : lines \in Condition, mn \in {CLC, STC}}

EmitBlock ==
  /\ phase = "generate"
  /\ source # <<>>
  /\ blocks < body_ops
  /\ \E lines \in ArithBlocks \cup UnaryBlocks \cup MemBlocks \cup FlagBranchBlocks :
       source' = source \o lines
  /\ blocks' = blocks + 1
  /\ UNCHANGED <<phase, address, encoded, words, isaVars, targeted_bins>>

(* As if the label were not emitted. *)
EndingWithoutExit(imm) ==
  <<Op(DEC, 12, 0), To(JRNZ, Loop), Mvrd(13, imm), To(JMPA, Exit), Mvrd(13, \hDEAD),
    Line({Halt}, JR, 0, 0, Name(Halt))>>

Ending(imm) ==
  <<Op(DEC, 12, 0), To(JRNZ, Loop), Mvrd(13, imm), To(JMPA, Exit), Mvrd(13, \hDEAD),
    Label(Exit), Line({Halt}, JR, 0, 0, Name(Halt))>>

EmitEnd ==
  /\ phase = "generate"
  /\ source # <<>>
  /\ blocks = body_ops
  /\ \E imm \in Immediates : source' = source \o Ending(imm[0])
  /\ phase' = "place"
  /\ UNCHANGED <<address, encoded, words, isaVars, targeted_bins, blocks>>

Translate == RunNext /\ UNCHANGED <<targeted_bins, blocks>>

(* A text somebody has written goes the same way. *)
Written ==
  /\ RunInit
  /\ targeted_bins = {}
  /\ blocks = 0

RandomInit == GenInit \/ Written

RandomNext == EmitSetup \/ EmitBlock \/ EmitEnd \/ Translate

(* Generator, assembler and program run on until they end. *)
RandomSpec == RandomInit /\ [][RandomNext]_randomVars /\ WF_randomVars(RandomNext)

-----------------------------------------------------------------------------
Generated == blocks = body_ops

(***************************************************************************)
(* A generated program never stores into itself: what runs is what was     *)
(* generated, and the targets in it stay where the assembler put them.     *)
(***************************************************************************)
ProgramStaysIntact ==
  Generated /\ phase = "loaded" => \A a \in 1 .. Len(words) : mem[a - 1] = words[a]

(***************************************************************************)
(* Bounded random assembly tests (its own description): every generated    *)
(* program is accepted by the assembler and comes to its halt loop,        *)
(* whatever was drawn; otherwise the assembler or the reference model      *)
(* would end with an error, and the regression with it.                    *)
(***************************************************************************)
GeneratedHalts ==
  Generated ~> phase = "loaded" /\ pc = Len(words) - 1 /\ words[Len(words)] = \h40FF
=============================================================================
