------------------------------- MODULE DiffTb -------------------------------
(***************************************************************************)
(* verilator_tb/diff_main.cpp: the processor and the golden instruction    *)
(* set in lock step.  Each turn of the main loop looks at the stage,       *)
(* lets the golden model follow when an instruction has just retired,      *)
(* compares the two snapshots, and then ticks the clock once.              *)
(***************************************************************************)
EXTENDS CpuRefinesIsa

CONSTANTS
  kMaxCycles,      \* bound of the loop: 200000
  kMaxRetires,     \* bound on the comparisons: 4000
  kMaxMismatches   \* bound on the failed ones: 5

VARIABLES
  goldenPc, goldenRegs, goldenFlags, goldenMem,   \* GoldenIsa
  was_retire,                                     \* seen before the last tick
  retires, mismatches, halt_streak, cyc,
  outcome   \* "none" while it runs; "exception"; "abort"; "settled", "capped"

golden == <<goldenPc, goldenRegs, goldenFlags, goldenMem>>
loop == <<was_retire, retires, mismatches, halt_streak, cyc, outcome>>
diffVars == <<vars, golden, loop>>

Golden == INSTANCE Isa WITH pc <- goldenPc, regs <- goldenRegs,
                            flags <- goldenFlags, mem <- goldenMem

(* apply_reset ends with the tick that leaves RESET_INIT. *)
DiffInit ==
  /\ execution_stage = "FETCH_ADDRESS"
  /\ Cleared("RESET_INIT", instruction, flags, pc, regs, address_bus)
  /\ mem \in Programs
  /\ goldenMem = mem
  /\ Golden!IsaInit
  /\ was_retire = FALSE
  /\ retires = 0
  /\ mismatches = 0
  /\ halt_streak = 0
  /\ cyc = 0
  /\ outcome = "none"

(* As if the last stage of a call were an ordinary second execute stage. *)
is_retire_stage_without_calls(stage, inst) ==
  IF Opcode(inst) \in Extended \cup {LDRR, STRR}
  THEN stage = "EXECUTE_DOUBLE"
  ELSE stage = "EXECUTE_SINGLE"

is_retire_stage(stage, inst) ==
  CASE Opcode(inst) = CALLA -> stage = "LOAD_CALL_TARGET"
    [] Opcode(inst) \in (Extended \ {CALLA}) \cup {LDRR, STRR} -> stage = "EXECUTE_DOUBLE"
    [] Opcode(inst) \notin Extended \cup {LDRR, STRR} -> stage = "EXECUTE_SINGLE"

cur_retire == is_retire_stage(execution_stage, instruction)

JustRetired == was_retire /\ ~cur_retire

(* GoldenIsa::step throws on everything else. *)
GoldenKnows == Golden!op \in Defined \ {RET}

(* snapshots_equal, after the golden model has stepped: memory is not seen. *)
snapshots_equal ==
  /\ regs = goldenRegs'
  /\ pc = goldenPc'
  /\ flags = goldenFlags'

Tick ==
  /\ Clock
  /\ was_retire' = cur_retire
  /\ cyc' = cyc + 1

(* A turn in which nothing has retired. *)
Wait ==
  /\ outcome = "none"
  /\ cyc < kMaxCycles
  /\ ~JustRetired
  /\ Tick
  /\ UNCHANGED <<golden, retires, mismatches, halt_streak, outcome>>

(* As if every unconditional branch were the halt loop. *)
NextHaltStreakByOpcode == IF Golden!op = JR THEN halt_streak + 1 ELSE 0

NextHaltStreak == IF Golden!ir = \h40FF THEN halt_streak + 1 ELSE 0

(* What a comparison leads to; the order of the tests is that of the loop. *)
NextOutcome ==
  IF ~snapshots_equal /\ mismatches + 1 >= kMaxMismatches THEN "abort"
  ELSE IF NextHaltStreak >= 3 THEN "settled"
  ELSE IF retires + 1 >= kMaxRetires THEN "capped"
  ELSE "none"

Follow ==
  /\ outcome = "none"
  /\ cyc < kMaxCycles
  /\ JustRetired
  /\ GoldenKnows
  /\ Golden!Step
  /\ mismatches' = IF snapshots_equal THEN mismatches ELSE mismatches + 1
  /\ outcome' = NextOutcome
  /\ halt_streak' = NextHaltStreak
  /\ retires' = IF outcome' \in {"abort", "settled"} THEN retires ELSE retires + 1
  /\ IF outcome' = "none" THEN Tick ELSE UNCHANGED <<vars, was_retire, cyc>>

GoldenThrows ==
  /\ outcome = "none"
  /\ cyc < kMaxCycles
  /\ JustRetired
  /\ ~GoldenKnows
  /\ outcome' = "exception"
  /\ UNCHANGED <<vars, golden, was_retire, retires, mismatches, halt_streak, cyc>>

CycleCap ==
  /\ outcome = "none"
  /\ cyc = kMaxCycles
  /\ outcome' = "capped"
  /\ UNCHANGED <<vars, golden, was_retire, retires, mismatches, halt_streak, cyc>>

DiffNext == Wait \/ Follow \/ GoldenThrows \/ CycleCap

DiffSpec == DiffInit /\ [][DiffNext]_diffVars

-----------------------------------------------------------------------------
(***************************************************************************)
(* The comparison raises no false alarm: each retirement of the processor  *)
(* is one step of the golden model, neither counted twice nor missed, so a *)
(* correct processor never differs, whatever the program.  Memory is not   *)
(* compared, and need not be: while the opcode of the next instruction is  *)
(* fetched, nothing is left of the previous one that the golden model has  *)
(* not done too, in memory as well as in the registers.                    *)
(***************************************************************************)
NoFalseAlarm == mismatches = 0

SameMachine ==
  execution_stage = "FETCH_DECODE" /\ outcome = "none" =>
    /\ goldenPc = IsaPc
    /\ goldenRegs = regs
    /\ goldenFlags = flags
    /\ goldenMem = mem

LockStep == NoFalseAlarm /\ SameMachine

(***************************************************************************)
(* A run that settles has reached its end in the processor too: it stands  *)
(* in front of the branch to itself with which the golden model stopped,   *)
(* with the same memory, and has met no word the golden model throws at.   *)
(***************************************************************************)
SettledAtHalt ==
  outcome = "settled" =>
    /\ execution_stage = "FETCH_ADDRESS"
    /\ mem[Cell(pc)] = \h40FF
    /\ goldenMem = mem
=============================================================================
