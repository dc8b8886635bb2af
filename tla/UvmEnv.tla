------------------------------- MODULE UvmEnv -------------------------------
(***************************************************************************)
(* A UVM test of uvm_tb/, from run_single_test.sh on: the reference model  *)
(* writes its files, then the environment runs the processor against them. *)
(* One cycle is the rising edge and what driver, monitor, scoreboard and   *)
(* coverage collector do in the time steps after it.  The monitor samples  *)
(* the stage at the falling edge before, while it cannot change.           *)
(***************************************************************************)
EXTENDS ReferenceRun, FiniteSets

CONSTANT max_cycles   \* of the test: 2000

ASSUME LimitAssumption == max_cycles \in Nat

VARIABLES
  posedges,           \* rising edges since the test started
  current_seq_pc,     \* of the monitor
  observed_steps, mismatch_count,                \* of the scoreboard
  last_item,          \* what the monitor sent last; <<>> before
  hits, last_store,   \* of the coverage collector; last_store = {} before
  outcome             \* of the test: "none", "timeout", "failed", "passed"

testbench == <<posedges, current_seq_pc, observed_steps, mismatch_count, last_item,
               hits, last_store, outcome>>
uvmVars == <<vars, reference, testbench>>

(* Both load the same file; reset is released after two edges. *)
UvmInit ==
  /\ Init
  /\ refMem = mem
  /\ Reference!ReferenceInit
  /\ posedges = 2
  /\ current_seq_pc = 0
  /\ observed_steps = 0
  /\ mismatch_count = 0
  /\ last_item = <<>>
  /\ hits = {}
  /\ last_store = {}
  /\ outcome = "none"

(* run_reference.sh; an error ends the script there. *)
RunReference ==
  /\ Reference!ReferenceNext
  /\ UNCHANGED <<vars, testbench>>

(***************************************************************************)
(* The driver.  It writes after the edge that enters the store cycle, what *)
(* the processor then drives on the bus: the memory of the interface has   *)
(* no clock.                                                               *)
(***************************************************************************)
(* As if it used the address the bus had before that edge. *)
commit_write_before ==
  mem' = IF wr' = 0 THEN [mem EXCEPT ![Cell(address_bus)] = alu_out'] ELSE mem

commit_write_if_needed ==
  mem' = IF wr' = 0 THEN [mem EXCEPT ![Cell(address_bus')] = alu_out'] ELSE mem

PosEdge ==
  /\ execution_stage' = NextStage(execution_stage, data_bus)
  /\ instruction' = NextInstruction
  /\ flags' = NextFlags
  /\ pc' = NextPc
  /\ regs' = NextRegs
  /\ address_bus' = NextAddress
  /\ commit_write_if_needed

(***************************************************************************)
(* The monitor.                                                            *)
(***************************************************************************)
NextSeqPc ==
  IF execution_stage' \in {"FETCH_DECODE", "FETCH_SECOND_WORD"} THEN pc' ELSE current_seq_pc

(* As if the last stage of a call were forgotten. *)
SamplesWithoutCalls == execution_stage \in {"EXECUTE_SINGLE", "EXECUTE_DOUBLE"}

Samples == execution_stage \in {"EXECUTE_SINGLE", "EXECUTE_DOUBLE", "LOAD_CALL_TARGET"}

instr_words(inst) == IF Opcode(inst) \in Extended THEN 2 ELSE 1

(* sample_retire *)
Item ==
  [instr_addr |-> Minus(current_seq_pc, instr_words(instruction')),
   pc         |-> pc',
   ir         |-> instruction',
   regs       |-> regs',
   flags      |-> flags']

(* emit_mem: every read of the bus, instructions and second words too. *)
Access ==
  CASE execution_stage' = "FETCH_DECODE" \/ (execution_stage' = "EXECUTE_DOUBLE" /\ wr' = 1) -> "READ"
    [] execution_stage' = "EXECUTE_DOUBLE" /\ wr' = 0                                        -> "WRITE"
    [] execution_stage' \notin {"FETCH_DECODE", "EXECUTE_DOUBLE"}                            -> "none"

(***************************************************************************)
(* The coverage collector, the bins of loads and stores.                   *)
(***************************************************************************)
RetireHits ==
  CASE Opcode(instruction') = LDRR -> {"opcode_LDRR"}
    [] Opcode(instruction') = STRR -> {"opcode_STRR"}
    [] Opcode(instruction') \notin {LDRR, STRR} -> {}

MemHits ==
  CASE Access = "READ"  -> {"ldrr_read"} \cup
                           (IF address_bus' \in last_store THEN {"mem_store_then_load"} ELSE {})
    [] Access = "WRITE" -> {"strr_write"}
    [] Access = "none"  -> {}

(* As if the address were the one the bus had before the edge. *)
LastStoreBefore == IF Access = "WRITE" THEN {address_bus} ELSE last_store

LastStore == IF Access = "WRITE" THEN {address_bus'} ELSE last_store

Collect ==
  /\ hits' = hits \cup MemHits \cup (IF Samples THEN RetireHits ELSE {})
  /\ last_store' = LastStore

(***************************************************************************)
(* The scoreboard, on the expected queue read from the files.              *)
(***************************************************************************)
expected_q == files.trace
expected_steps == files.summary.steps

(* compare_item: the address of the instruction is not compared. *)
SameItem(got, exp) ==
  /\ got.pc = exp.pc
  /\ got.ir = exp.ir
  /\ got.flags = exp.flags
  /\ got.regs = exp.regs

FinalMismatches(item) ==
  Cardinality({r \in Reg : item.regs[r] # files.summary.regs[r]})
    + (IF item.pc # files.summary.pc \/ item.flags # files.summary.flags THEN 1 ELSE 0)

B01(condition) == IF condition THEN 1 ELSE 0

(* write; with the last expected item the test is told that it is over. *)
Score(item) ==
  IF observed_steps >= Len(expected_q)
  THEN /\ mismatch_count' = mismatch_count + 1
       /\ UNCHANGED observed_steps
  ELSE /\ observed_steps' = observed_steps + 1
       /\ mismatch_count' = mismatch_count
            + B01(~SameItem(item, expected_q[observed_steps + 1]))
            + (IF observed_steps' = Len(expected_q) THEN FinalMismatches(item) ELSE 0)

(* As if the queue were always as long as the reference may run. *)
DoneAtStepLimit == Samples /\ observed_steps' = max_steps

Done == Samples /\ observed_steps' = Len(expected_q)

Passed == mismatch_count' = 0 /\ observed_steps' = expected_steps

(* The test is still running: its last edge ends it before any sample. *)
Cycle ==
  /\ files # <<>>
  /\ outcome = "none"
  /\ posedges + 1 < max_cycles
  /\ posedges' = posedges + 1
  /\ PosEdge
  /\ current_seq_pc' = NextSeqPc
  /\ Collect
  /\ IF Samples
     THEN last_item' = Item /\ Score(Item)
     ELSE UNCHANGED <<last_item, observed_steps, mismatch_count>>
  /\ outcome' = IF ~Done THEN "none" ELSE IF Passed THEN "passed" ELSE "failed"
  /\ UNCHANGED reference

TimeOut ==
  /\ files # <<>>
  /\ outcome = "none"
  /\ posedges + 1 >= max_cycles
  /\ outcome' = "timeout"
  /\ posedges' = posedges + 1
  /\ UNCHANGED <<vars, reference, current_seq_pc, observed_steps, mismatch_count, last_item,
                 hits, last_store>>

UvmNext == RunReference \/ Cycle \/ TimeOut

(* The scripts go on and the clock of the interface toggles.               *)
UvmSpec == UvmInit /\ [][UvmNext]_uvmVars /\ WF_uvmVars(UvmNext)

-----------------------------------------------------------------------------
(***************************************************************************)
(* What the environment relies on, stated in ReferenceModel: files exist   *)
(* only for a program that has come to rest, and end with its state.       *)
(***************************************************************************)
FilesOfHaltedProgram == Reference!FilesOfHaltedProgram

(* See ReferenceModel: the events tell the whole run.                      *)
EventsTellTheRun == Reference!EventsTellTheRun

(***************************************************************************)
(* Every retirement is compared with its own row of the reference, so a    *)
(* correct processor never mismatches: none is sampled twice or missed.    *)
(* The address the monitor rebuilds for the messages, from the program     *)
(* counter it saw on entering two states, is that of the instruction, or   *)
(* the one before it for an instruction of two words (the second of which  *)
(* the program counter does not count yet).                                *)
(***************************************************************************)
RebuiltAddress ==
  observed_steps > 0 =>
    LET exp == expected_q[observed_steps]
    IN  last_item.instr_addr = Minus(exp.addr, instr_words(exp.ir) - 1)

NoMismatch == mismatch_count = 0 /\ RebuiltAddress

(***************************************************************************)
(* The scoreboard sees registers, flags and program counter.  A test that  *)
(* passes has nevertheless done everything the reference has: all its      *)
(* steps, and the same memory at the end.                                  *)
(***************************************************************************)
PassedIsTheReferenceRun ==
  outcome = "passed" =>
    /\ observed_steps = expected_steps
    /\ mem = refMem
    /\ pc = refPc

(***************************************************************************)
(* The limits fit together: with reset, five cycles for each instruction   *)
(* and the edge that ends the wait, no accepted program runs into the time *)
(* limit while the scoreboard waits for its last retirement.               *)
(***************************************************************************)
TimeoutOnlyBeyondBudget ==
  outcome = "timeout" => max_cycles < 2 + 1 + 5 * expected_steps + 1

(***************************************************************************)
(* Every test ends, whatever the program: the reference model gives up, or *)
(* the environment comes to a verdict.                                     *)
(***************************************************************************)
TestEnds == <>(refOutcome = "error" \/ outcome # "none")

(***************************************************************************)
(* With the memory of the interface, written an edge earlier than that of  *)
(* the other benches, the processor still implements the instruction set;  *)
(* a store takes effect when its last cycle begins.                        *)
(***************************************************************************)
UvmIsaPc ==
  IF execution_stage = "EXECUTE_DOUBLE" /\ opcode = STRR THEN pc ELSE IsaPc

UvmArchitecture == INSTANCE Isa WITH pc <- UvmIsaPc

EarlyWriteImplementsIsa == UvmArchitecture!IsaSpec

(***************************************************************************)
(* The collector misses no access of a test that passes: a store is in its *)
(* bin exactly when the reference has executed one, and a load from where  *)
(* the last store went is in the bin of the pair, although the collector   *)
(* is only shown the bus and its stages.                                   *)
(***************************************************************************)
StoredAt(i) == expected_q[i].regs[DestReg(expected_q[i].ir)]
LoadedFrom(i) == expected_q[i - 1].regs[SourReg(expected_q[i].ir)]
Of(opc) == {i \in DOMAIN expected_q : Opcode(expected_q[i].ir) = opc}

BinsMissNothing ==
  outcome = "passed" =>
    /\ "strr_write" \in hits <=> Of(STRR) # {}
    /\ \A i \in Of(STRR), j \in Of(LDRR) :
         /\ i < j
         /\ StoredAt(i) = LoadedFrom(j)
         /\ Of(STRR) \cap (i + 1 .. j - 1) = {}
         => "mem_store_then_load" \in hits

(* cpu_coverage_collector.sv:284: the bin belongs to the instruction LDRR. *)
LdrrReadMeansLoad == "ldrr_read" \in hits /\ outcome = "passed" => "opcode_LDRR" \in hits
=============================================================================
