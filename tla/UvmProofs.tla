------------------------------ MODULE UvmProofs -----------------------------
(***************************************************************************)
(* The UVM environment judges every processor run rightly, for every       *)
(* memory depth, every program and all limits.  The processor walks along  *)
(* the sequence of states of the reference run, one state behind the next  *)
(* row.                                                                    *)
(***************************************************************************)
EXTENDS UvmEnv, ReferenceProofs, WellFoundedInduction, FiniteSetTheorems

(* The state of the instruction set the processor is in.                   *)
Processor == [pc |-> UvmIsaPc, regs |-> regs, flags |-> flags, mem |-> mem]

(* It goes from a state to the one after it.                               *)
LEMMA UvmLands ==
  ASSUME Architecture!Step, UvmIsaPc = IsaPc, UvmIsaPc' = IsaPc'
  PROVE  Processor' = After(Processor)
  BY ProcessorLands DEF Processor, Executing

-----------------------------------------------------------------------------
(* What the rows and the events tell.                                      *)
LEMMA RunChains ==
  ASSUME NEW H, RunInv(H)
  PROVE  Reference!EventsAreChained
<1> SUFFICES ASSUME NEW i \in 1 .. Len(events) - 1
             PROVE  /\ events[i + 1].instr_addr = events[i].pc_after
                    /\ events[i + 1].flags_before = events[i].flags_after
  BY DEF Reference!EventsAreChained
<1>1. Recorded(events[i], H[i - 1], H[i]) /\ Recorded(events[i + 1], H[i + 1 - 1], H[i + 1])
  BY DEF RunInv, RunIs
<1>2. H[i + 1 - 1] = H[i]
  BY DEF RunInv, RunIs
<1> QED
  BY <1>1, <1>2 DEF Recorded

LEMMA RunTakes ==
  ASSUME NEW H, RunInv(H)
  PROVE  Reference!TakenAsConditionHeld
<1> SUFFICES ASSUME NEW i \in DOMAIN events,
                    Reference!Opcode(events[i].ir) \in Reference!Conditional
             PROVE  events[i].branch_taken
                      <=> Reference!Held(events[i]) /\ Reference!Imm8(events[i].ir) # 0
  BY DEF Reference!TakenAsConditionHeld
<1> DEFINE e == events[i]
           s == H[i - 1]
<1>1. i \in 1 .. steps /\ s \in State /\ H[i] = After(s) /\ Recorded(e, s, After(s))
  BY DEF RunInv, RunIs
<1>2. e.ir = At(s) /\ e.flags_before = s.flags
  BY <1>1 DEF Recorded
<1>3. /\ Reference!Opcode(e.ir) = Opcode(At(s)) /\ Reference!Imm8(e.ir) = Imm8(At(s))
      /\ Reference!Conditional = Branches \ {JR}
  BY <1>2 DEF Reference!Opcode, Opcode, Reference!Imm8, Imm8, Reference!Conditional,
     Reference!Branches, Branches, Reference!JR, JR, Reference!JRS, JRS, Reference!JRNS,
     JRNS, Reference!JRC, JRC, Reference!JRNC, JRNC, Reference!JRZ, JRZ, Reference!JRNZ, JRNZ
<1>4. Reference!Held(e) <=> Holds(At(s), s.flags)
  BY <1>2, <1>3 DEF Reference!Held, Holds, Reference!JRS, JRS, Reference!JRNS,
     JRNS, Reference!JRC, JRC, Reference!JRNC, JRNC, Reference!JRZ, JRZ, Reference!JRNZ, JRNZ
<1>5. e.branch_taken <=> After(s).pc # Plus(s.pc, 1)
  BY <1>1, <1>3 DEF Recorded
<1> QED
  BY <1>1, <1>3, <1>4, <1>5, BranchAfter

LEMMA SmallestOf ==
  ASSUME NEW S \in SUBSET Nat, S # {}
  PROVE  \E x \in S : \A y \in S : x <= y
<1>1. PICK x \in S : \A y \in S : ~ (<<y, x>> \in OpToRel(<, Nat))
  BY NatLessThanWellFounded, WFMin
<1>2. \A y \in S : ~ (y < x)
  BY <1>1, Zenon DEF OpToRel
<1> QED
  BY <1>2

LEMMA RunReturns ==
  ASSUME NEW H, RunInv(H)
  PROVE  Reference!ReadsReturnWrites
<1> SUFFICES ASSUME NEW i \in Reference!Writes(Len(events))
             PROVE  LET a == events[i].access.addr
                        later == {j \in Reference!Writes(Len(events)) :
                                    j > i /\ events[j].access.addr = a}
                        upto  == IF later = {} THEN Len(events)
                                 ELSE CHOOSE j \in later : \A k \in later : j <= k
                    IN  /\ later = {} => refMem[a] = events[i].access.data
                        /\ \A j \in i + 1 .. upto :
                             events[j].access.kind = "READ" /\ events[j].access.addr = a =>
                               events[j].access.data = events[i].access.data
  BY DEF Reference!ReadsReturnWrites
<1> DEFINE a == events[i].access.addr
           later == {j \in Reference!Writes(Len(events)) : j > i /\ events[j].access.addr = a}
           upto  == IF later = {} THEN Len(events)
                    ELSE CHOOSE j \in later : \A k \in later : j <= k
<1>1. /\ steps \in Nat /\ Len(events) = steps /\ i \in 1 .. steps
      /\ events[i].access.kind = "WRITE"
      /\ later = {j \in 1 .. steps : /\ events[j].access.kind = "WRITE"
                                     /\ j > i /\ events[j].access.addr = a}
  BY DEF Reference!Writes, RunInv, RunIs
<1>2. /\ upto \in 1 .. steps
      /\ \A k \in later : upto <= k
  <2>1. CASE later = {}
    BY <1>1, <2>1
  <2>2. CASE later # {}
    <3>1. later \in SUBSET Nat
      BY <1>1
    <3>2. \E x \in later : \A y \in later : x <= y
      BY <2>2, <3>1, SmallestOf
    <3>3. upto \in later /\ \A k \in later : upto <= k
      BY <2>2, <3>2
    <3> QED
      BY <1>1, <3>3
  <2> QED
    BY <2>1, <2>2
<1>3. ASSUME later = {} PROVE refMem[a] = events[i].access.data
  <2>1. ~ Overwritten(i, steps)
    BY <1>1, <1>3 DEF Overwritten
  <2> QED
    BY <1>1, <2>1 DEF RunInv, Remembered, StandsAt
<1>4. ASSUME NEW j \in i + 1 .. upto, events[j].access.kind = "READ", events[j].access.addr = a
      PROVE  events[j].access.data = events[i].access.data
  <2>1. j \in 1 .. steps /\ j - 1 \in 1 .. steps /\ i <= j - 1
    BY <1>1, <1>2
  <2>2. ~ Overwritten(i, j - 1)
    <3> SUFFICES ASSUME Overwritten(i, j - 1) PROVE FALSE
      OBVIOUS
    <3>1. PICK k \in 1 .. steps : /\ i < k /\ k <= j - 1 /\ events[k].access.kind = "WRITE"
                                 /\ events[k].access.addr = a
      BY DEF Overwritten
    <3>2. k \in later
      BY <1>1, <3>1
    <3>3. upto <= k /\ j <= upto /\ j \in Int /\ upto \in Int
      BY <1>2, <2>1, <3>2
    <3> QED
      BY <3>1, <3>3
  <2>3. H[j - 1].mem[a] = events[i].access.data
    BY <1>1, <2>1, <2>2 DEF RunInv, Remembered
  <2>4. Recorded(events[j], H[j - 1], H[j])
    BY <2>1 DEF RunInv, RunIs
  <2> QED
    BY <1>4, <2>3, <2>4 DEF Recorded
<1> QED
  BY <1>3, <1>4

LEMMA RunTells ==
  ASSUME NEW H, RunInv(H)
  PROVE  EventsTellTheRun
  BY RunChains, RunTakes, RunReturns DEF EventsTellTheRun, Reference!EventsTellTheRun

(* The files end with the state the program rests in.                      *)
LEMMA FilesTell ==
  ASSUME NEW H, RunInv(H)
  PROVE  FilesOfHaltedProgram
<1> SUFFICES ASSUME files # <<>> PROVE FilesOfHaltedProgram
  BY DEF FilesOfHaltedProgram, Reference!FilesOfHaltedProgram
<1>1. /\ refOutcome = "halted" /\ files.trace = trace /\ files.summary.steps = steps
      /\ files.summary.pc = refPc /\ files.summary.regs = refRegs
      /\ files.summary.flags = refFlags
  BY DEF RunInv, FilesWritten
<1>2. self_loop_retire_count >= halt_repeat_threshold /\ self_loop_retire_count \in 0 .. steps
  BY <1>1 DEF RunInv, Looping
<1>3. /\ refMem[Cell(refPc)] = SelfLoop
      /\ \A i \in 0 .. halt_repeat_threshold - 1 : trace[steps - i].pc = refPc
  BY <1>1, <1>2, ThresholdAssumption DEF RunInv, Looping
<1>4. steps \in Nat /\ steps > 0 /\ Len(trace) = steps
  BY <1>2, ThresholdAssumption DEF RunInv, RunIs
<1>5. trace[steps] = RowOf(H[steps - 1], H[steps]) /\ StandsAt(H[steps])
  BY <1>4 DEF RunInv, RunIs
<1>6. /\ trace[steps].pc = refPc /\ trace[steps].regs = refRegs
      /\ trace[steps].flags = refFlags
  BY <1>1, <1>5 DEF RowOf, StandsAt
<1> QED
  BY <1>1, <1>3, <1>4, <1>6
     DEF FilesOfHaltedProgram, Reference!FilesOfHaltedProgram, Reference!Last,
         Reference!IsaCell, Cell, Reference!SelfLoop, SelfLoop

-----------------------------------------------------------------------------
(***************************************************************************)
(* The processor in this environment.  Its memory is written when a store  *)
(* begins its last cycle, so that in this cycle, and in it only, it is not *)
(* the processor of CpuCore: it has executed the instruction already.      *)
(***************************************************************************)
Storing == execution_stage = "EXECUTE_DOUBLE" /\ opcode = STRR

Ahead == execution_stage = "LOAD_CALL_TARGET" \/ Storing

CoreInv == TypeOK /\ (~ Storing => IInv)

(* The wires of the last cycle of a store.                                 *)
LEMMA StoreWires ==
  Storing /\ instruction \in Word /\ regs \in [Reg -> Word] =>
    /\ wr = 0 /\ alu_out = regs[SourReg(instruction)]
    /\ NextPc = pc /\ NextRegs = regs /\ NextFlags = flags /\ NextInstruction = instruction
<1> SUFFICES ASSUME Storing, instruction \in Word, regs \in [Reg -> Word]
             PROVE  /\ wr = 0 /\ alu_out = regs[SourReg(instruction)]
                    /\ NextPc = pc /\ NextRegs = regs /\ NextFlags = flags
                    /\ NextInstruction = instruction
  OBVIOUS
<1> USE DEF AdvancesPc, Single, Second, Double, SelectsOperands, Storing
<1>1. STRR # LDRR /\ STRR \notin {ADDI, ANDI, MVRD, JMPA}
  BY DEF LDRR, STRR, JMPA, MVRD, ADDI, ANDI
<1>2. /\ alu_func = "ADD" /\ alu_in_sel = "SR" /\ carry_in_select = "ZERO"
      /\ sour_reg = SourReg(instruction) /\ wr = 0
      /\ ~ pc_write_enable /\ ~ reg_write_enable /\ sst = "HOLD" /\ ~ instruction_load_enable
  BY <1>1 DEF alu_func, alu_in_sel, carry_in_select, sour_reg, wr, pc_write_enable,
     reg_write_enable, sst, instruction_load_enable
<1>3. alu_cin = 0 /\ operand_a = sr /\ operand_b = 0
  BY <1>2 DEF alu_cin, operand_a, operand_b, OperandA, OperandB
<1>4. sr \in Word /\ sr = regs[SourReg(instruction)]
  BY <1>2, FieldRanges DEF sr
<1> QED
  BY <1>2, <1>3, <1>4, AddressSums DEF alu_out, NextPc, NextRegs, NextFlags, NextInstruction

(* Outside it, an edge is one of CpuCore.                                  *)
LEMMA OrdinaryEdge ==
  ASSUME IInv, ~ Storing, ~ (execution_stage = "FETCH_SECOND_WORD" /\ opcode = STRR), PosEdge
  PROVE  Edge(execution_stage) /\ ~ Storing' /\ IInv'
<1>1. wr # 0
  BY DEF wr, Double, Storing
<1>2. execution_stage' = "EXECUTE_DOUBLE" =>
        execution_stage = "FETCH_SECOND_WORD" /\ instruction' = instruction
  BY DEF IInv, TypeOK, Stages, PosEdge, NextStage, RetireStages, NextInstruction, instruction_load_enable
<1>3. ~ Storing'
  BY <1>2 DEF Storing, opcode
<1>4. wr' # 0
  BY <1>3 DEF wr, Double, Storing
<1>5. Edge(execution_stage)
  BY <1>1, <1>4 DEF PosEdge, commit_write_if_needed, Edge, NextMem
<1>6. Clock
  BY <1>5 DEF IInv, TypeOK, Stages, Clock, ResetInit, FetchAddress, FetchDecode, ExecuteSingle,
     FetchSecondWord, ExecuteDouble, SaveReturnAddress, LoadCallTarget
<1> QED
  BY <1>3, <1>5, <1>6, InvStep DEF Next

(* The edge that begins the last cycle of a store executes it.             *)
LEMMA StoreBegins ==
  ASSUME IInv, execution_stage = "FETCH_SECOND_WORD", opcode = STRR, PosEdge
  PROVE  /\ Storing' /\ TypeOK' /\ instruction' = instruction
         /\ address_bus' = regs[DestReg(instruction)]
         /\ regs' = regs /\ flags' = flags /\ pc' = pc
         /\ Processor' = After(Processor)
<1> USE DEF PosEdge
<1>1. STRR # CALLA /\ STRR # LDRR /\ STRR \notin Extended
  BY DEF STRR, CALLA, LDRR, Extended, JMPA, MVRD, ADDI, ANDI
<1>2. instruction' = instruction /\ opcode' = opcode
  BY DEF NextInstruction, instruction_load_enable, opcode
<1>3. pc' = pc /\ flags' = flags
  BY <1>1 DEF NextPc, pc_write_enable, NextFlags, sst, AdvancesPc, Single, Second, Double
<1>4. address_bus' = regs[DestReg(instruction)] /\ regs' = regs
  BY <1>1, IndirectWires DEF IInv
<1>5. mem[Cell(Minus(pc, 1))] = instruction /\ address_bus = Minus(pc, 1)
  BY DEF IInv, InstructionInFlight
<1>6. data_bus = instruction
  BY <1>5, <1>1 DEF data_bus, mem_data, wr, Double
<1>7. execution_stage' = "EXECUTE_DOUBLE" /\ Storing'
  BY <1>1, <1>2, <1>6 DEF NextStage, RetireStages, is_complex_instruction, opcode, Storing
<1>8. /\ instruction \in Word /\ regs \in [Reg -> Word] /\ mem \in [0 .. MemDepth - 1 -> Word]
      /\ pc \in Word /\ flags \in Flags
  BY DEF IInv, TypeOK
<1>9. (Storing /\ instruction \in Word /\ regs \in [Reg -> Word] =>
         wr = 0 /\ alu_out = regs[SourReg(instruction)])'
  BY StoreWires, PTL
<1>10. wr' = 0 /\ alu_out' = regs[SourReg(instruction)]
  BY <1>2, <1>4, <1>7, <1>8, <1>9
<1>11. mem' = [mem EXCEPT ![Cell(regs[DestReg(instruction)])] = regs[SourReg(instruction)]]
  BY <1>4, <1>10 DEF commit_write_if_needed, Cell
<1>12. /\ regs[SourReg(instruction)] \in Word /\ regs[DestReg(instruction)] \in Word
       /\ Cell(regs[DestReg(instruction)]) \in 0 .. MemDepth - 1
  BY <1>8, FieldRanges, CellRange
<1>13. TypeOK'
  BY <1>2, <1>3, <1>4, <1>7, <1>8, <1>11, <1>12 DEF TypeOK, Stages
<1>14. Processor = [pc |-> Minus(pc, 1), regs |-> regs, flags |-> flags, mem |-> mem]
  BY DEF Processor, UvmIsaPc, IsaPc
<1>15. Processor' = [pc |-> pc, regs |-> regs, flags |-> flags, mem |-> mem']
  BY <1>3, <1>4, <1>7 DEF Processor, UvmIsaPc, Storing
<1>16. Processor \in State /\ At(Processor) = instruction
  <2>1. 1 \in Word
    BY DEF Word, WordSize
  <2>2. Minus(pc, 1) \in Word
    BY <1>8, <2>1, PlusMinusWord
  <2> QED
    BY <1>5, <1>8, <1>14, <2>2 DEF State, At
<1>17. After(Processor).mem = mem'
  BY <1>11, <1>14, <1>16, MemoryAfter DEF opcode
<1>18. /\ After(Processor).pc = pc /\ After(Processor).regs = regs
       /\ After(Processor).flags = flags
  <2>1. Opcode(At(Processor)) = STRR
    BY <1>16 DEF opcode
  <2>2. Plus(Minus(pc, 1), 1) = pc
    BY <1>8 DEF Plus, Minus, Word, WordSize
  <2> QED
    BY <1>14, <1>16, <2>1, <2>2, StoreAfter
<1> QED
  BY <1>2, <1>3, <1>4, <1>7, <1>13, <1>15, <1>17, <1>18 DEF After

(* The edge that ends it only counts.                                      *)
LEMMA StoreEnds ==
  ASSUME TypeOK, Storing, PosEdge
  PROVE  /\ execution_stage' = "FETCH_ADDRESS" /\ instruction' = instruction
         /\ Processor' = Processor /\ IInv'
<1> USE DEF PosEdge
<1>1. execution_stage' = "FETCH_ADDRESS"
  BY DEF NextStage, RetireStages, Storing
<1>2. instruction' = instruction /\ pc' = pc /\ regs' = regs /\ flags' = flags
  BY StoreWires DEF TypeOK
<1>3. address_bus' = address_bus
  BY DEF NextAddress, address_write_select, AdvancesPc, Second, Storing
<1>4. wr' # 0
  BY <1>1 DEF wr, Double
<1>5. mem' = mem
  BY <1>4 DEF commit_write_if_needed
<1>6. TypeOK'
  BY <1>1, <1>2, <1>3, <1>5 DEF TypeOK, Stages
<1>7. UvmIsaPc = pc /\ UvmIsaPc' = pc
  BY <1>1, <1>2 DEF UvmIsaPc, IsaPc, Storing
<1> QED
  BY <1>1, <1>2, <1>5, <1>6, <1>7, NothingInFlight DEF Processor, IInv

(* An instruction is fetched without any effect, ...                       *)
LEMMA Fetches ==
  ASSUME CoreInv, PosEdge,
         \/ execution_stage \in {"RESET_INIT", "FETCH_ADDRESS", "FETCH_DECODE"}
         \/ execution_stage = "FETCH_SECOND_WORD" /\ opcode # STRR
  PROVE  Processor' = Processor /\ IInv' /\ ~ Storing'
<1>1. IInv /\ ~ Storing
  BY DEF CoreInv, Storing
<1>2. Edge(execution_stage) /\ ~ Storing' /\ IInv'
  BY <1>1, OrdinaryEdge
<1>3. UNCHANGED Architecture!isaVars
  BY <1>1, <1>2, ResetInitStutters, FetchAddressStutters, FetchDecodeStutters,
     FetchSecondWordStutters DEF ResetInit, FetchAddress, FetchDecode, FetchSecondWord
<1> QED
  BY <1>1, <1>2, <1>3 DEF Processor, UvmIsaPc, Storing, Architecture!isaVars

(* ... takes effect one edge before it retires, if it is a call or a store *)
LEMMA TakesEffectEarly ==
  ASSUME CoreInv, PosEdge,
         \/ execution_stage = "SAVE_RETURN_ADDRESS"
         \/ execution_stage = "FETCH_SECOND_WORD" /\ opcode = STRR
  PROVE  Processor' = After(Processor) /\ CoreInv' /\ instruction' = instruction /\ Ahead'
<1>1. IInv /\ ~ Storing
  BY DEF CoreInv, Storing
<1>2. CASE execution_stage = "SAVE_RETURN_ADDRESS"
  <2>1. Edge(execution_stage) /\ ~ Storing' /\ IInv'
    BY <1>1, <1>2, OrdinaryEdge
  <2>2. Architecture!Step
    BY <1>1, <1>2, <2>1, SaveReturnAddressCalls DEF SaveReturnAddress, Architecture!Step
  <2>3. UvmIsaPc = IsaPc /\ UvmIsaPc' = IsaPc'
    BY <1>1, <2>1 DEF UvmIsaPc, Storing
  <2>4. execution_stage' = "LOAD_CALL_TARGET" /\ instruction' = instruction
    BY <1>2, <2>1, InstructionHeld DEF Edge, NextStage, RetireStages
  <2> QED
    BY <2>1, <2>2, <2>3, <2>4, UvmLands DEF CoreInv, IInv, Ahead
<1>3. CASE execution_stage = "FETCH_SECOND_WORD" /\ opcode = STRR
  BY <1>1, <1>3, StoreBegins DEF CoreInv, Ahead
<1> QED
  BY <1>2, <1>3

(* and at the edge that retires it otherwise.                              *)
LEMMA Retires ==
  ASSUME CoreInv, PosEdge, Samples
  PROVE  /\ Processor' = IF Ahead THEN Processor ELSE After(Processor)
         /\ IInv' /\ instruction' = instruction /\ execution_stage' = "FETCH_ADDRESS"
<1>1. CASE Storing
  BY <1>1, StoreEnds DEF CoreInv, Ahead
<1>2. CASE ~ Storing
  <2>1. IInv /\ execution_stage # "FETCH_SECOND_WORD"
    BY <1>2 DEF CoreInv, Samples
  <2>2. Edge(execution_stage) /\ ~ Storing' /\ IInv'
    BY <1>2, <2>1, OrdinaryEdge
  <2>3. execution_stage' = "FETCH_ADDRESS" /\ instruction' = instruction
    BY <2>2, InstructionHeld DEF Samples, Edge, NextStage, RetireStages
  <2>4. UvmIsaPc = IsaPc /\ UvmIsaPc' = IsaPc'
    BY <1>2, <2>2 DEF UvmIsaPc, Storing
  <2>5. CASE execution_stage = "LOAD_CALL_TARGET"
    <3>1. UNCHANGED Architecture!isaVars
      BY <2>1, <2>2, <2>5, LoadCallTargetStutters DEF LoadCallTarget
    <3> QED
      BY <2>2, <2>3, <2>4, <2>5, <3>1 DEF Processor, Ahead, Architecture!isaVars
  <2>6. CASE execution_stage \in {"EXECUTE_SINGLE", "EXECUTE_DOUBLE"}
    <3>1. Architecture!Step
      BY <2>1, <2>2, <2>6, ExecuteSingleSteps, ExecuteDoubleSteps
         DEF ExecuteSingle, ExecuteDouble
    <3> QED
      BY <1>2, <2>2, <2>3, <2>4, <2>6, <3>1, UvmLands DEF Ahead
  <2> QED
    BY <2>5, <2>6 DEF Samples
<1> QED
  BY <1>1, <1>2

-----------------------------------------------------------------------------
(* The processor walks along the states of the reference.  It is observed  *)
(* after each instruction, and may by then have executed the next.         *)
Position(H) ==
  /\ observed_steps \in 0 .. steps
  /\ Ahead => observed_steps < steps
  /\ Processor = H[IF Ahead THEN observed_steps + 1 ELSE observed_steps]
  /\ execution_stage \notin {"RESET_INIT", "FETCH_ADDRESS", "FETCH_DECODE"} =>
       instruction = At(H[observed_steps])
  /\ execution_stage \notin {"RESET_INIT", "FETCH_ADDRESS"} =>
       current_seq_pc = Plus(H[observed_steps].pc, 1)

Scored ==
  /\ mismatch_count = 0
  /\ observed_steps > 0 =>
       last_item.instr_addr
         = Minus(trace[observed_steps].addr, instr_words(trace[observed_steps].ir) - 1)

(* It starts when the files are there.                                     *)
Waiting ==
  files = <<>> =>
    /\ execution_stage = "RESET_INIT" /\ outcome = "none"
    /\ observed_steps = 0 /\ hits = {} /\ last_store = {}

(* Cycles since the instruction began.                                     *)
Depth ==
  IF execution_stage = "RESET_INIT" THEN -1
  ELSE IF execution_stage = "FETCH_ADDRESS" THEN 0
  ELSE IF execution_stage = "FETCH_DECODE" THEN 1
  ELSE IF execution_stage \in {"EXECUTE_SINGLE", "FETCH_SECOND_WORD"} THEN 2
  ELSE IF execution_stage \in {"EXECUTE_DOUBLE", "SAVE_RETURN_ADDRESS"} THEN 3
  ELSE 4

OnTime ==
  /\ posedges \in Nat
  /\ outcome = "none" => posedges <= 3 + 5 * observed_steps + Depth

Judged ==
  /\ outcome \in {"none", "timeout", "passed"}
  /\ outcome = "none" /\ files # <<>> => observed_steps < steps
  /\ outcome = "passed" => observed_steps = steps /\ execution_stage = "FETCH_ADDRESS"
  /\ outcome = "timeout" => max_cycles < 2 + 1 + 5 * steps + 1

(* What the collector has seen: the stores executed, and of the loads also *)
(* the one in its last cycle.                                              *)
Stores(i) == Opcode(trace[i].ir) = STRR
Loads(i) == Opcode(trace[i].ir) = LDRR
Target(i) == trace[i].regs[DestReg(trace[i].ir)]
Source(i) == trace[i - 1].regs[SourReg(trace[i].ir)]

Newest(i, n) == Stores(i) /\ \A m \in i + 1 .. n : ~ Stores(m)

StoresSeen == IF Storing THEN observed_steps + 1 ELSE observed_steps
LoadsSeen == IF execution_stage = "EXECUTE_DOUBLE" THEN observed_steps + 1 ELSE observed_steps

CollectedBy(n, l, found, newest) ==
  /\ "strr_write" \in found <=> \E i \in 1 .. n : Stores(i)
  /\ \A i \in 1 .. n : Newest(i, n) => newest = {Target(i)}
  /\ \A i, j \in 1 .. l :
       i < j /\ Newest(i, j - 1) /\ Loads(j) /\ Target(i) = Source(j) =>
         "mem_store_then_load" \in found

Collected == CollectedBy(StoresSeen, LoadsSeen, hits, last_store)

ProcInv(H) ==
  CoreInv /\ Position(H) /\ Scored /\ Waiting /\ OnTime /\ Judged /\ Collected

(* What holds while a test runs.                                           *)
LEMMA Running ==
  ASSUME NEW H, RunInv(H), ProcInv(H), files # <<>>, outcome = "none"
  PROVE  /\ observed_steps \in Nat /\ steps \in Nat /\ observed_steps < steps
         /\ files.trace = trace /\ Len(trace) = steps
         /\ files.summary = [steps |-> steps, pc |-> refPc, regs |-> refRegs, flags |-> refFlags]
         /\ refPc = H[steps].pc /\ refRegs = H[steps].regs /\ refFlags = H[steps].flags
         /\ H[observed_steps] \in State
         /\ H[observed_steps + 1] = After(H[observed_steps])
         /\ trace[observed_steps + 1] = RowOf(H[observed_steps], H[observed_steps + 1])
<1>1. observed_steps \in Nat /\ steps \in Nat /\ observed_steps < steps
  BY DEF ProcInv, Position, Judged, RunInv, RunIs
<1>2. refOutcome = "halted" /\ StandsAt(H[steps])
  BY DEF RunInv, FilesWritten
<1>3. observed_steps + 1 \in 1 .. steps /\ observed_steps + 1 - 1 = observed_steps
  BY <1>1
<1>4. /\ H[observed_steps] \in State
      /\ H[observed_steps + 1] = After(H[observed_steps])
      /\ trace[observed_steps + 1] = RowOf(H[observed_steps], H[observed_steps + 1])
  BY <1>1, <1>3 DEF RunInv, RunIs
<1> QED
  BY <1>1, <1>2, <1>4 DEF RunInv, RunIs, FilesWritten, StandsAt

(* The program counter and the instruction register ahead of the state.    *)
LEMMA FetchedAhead ==
  IInv /\ ~ Storing =>
    /\ execution_stage \in {"FETCH_DECODE", "EXECUTE_SINGLE", "FETCH_SECOND_WORD"} =>
         pc = Plus(Processor.pc, 1)
    /\ execution_stage \in {"EXECUTE_SINGLE", "FETCH_SECOND_WORD"} =>
         instruction = At(Processor)
<1> SUFFICES ASSUME IInv, ~ Storing,
                    execution_stage \in {"FETCH_DECODE", "EXECUTE_SINGLE", "FETCH_SECOND_WORD"}
             PROVE  /\ pc = Plus(Processor.pc, 1)
                    /\ execution_stage \in {"EXECUTE_SINGLE", "FETCH_SECOND_WORD"} =>
                         instruction = At(Processor)
  OBVIOUS
<1>1. Processor.pc = Minus(pc, 1) /\ Processor.mem = mem
  BY DEF Processor, UvmIsaPc, IsaPc, Storing
<1>2. pc \in Word
  BY DEF IInv, TypeOK
<1> QED
  BY <1>1, <1>2 DEF IInv, InstructionInFlight, At, Plus, Minus, Word, WordSize

(* The successor of each stage.                                            *)
LEMMA StageFollows ==
  ASSUME PosEdge
  PROVE  /\ execution_stage = "RESET_INIT" => execution_stage' = "FETCH_ADDRESS"
         /\ execution_stage = "FETCH_ADDRESS" => execution_stage' = "FETCH_DECODE"
         /\ execution_stage = "FETCH_DECODE" =>
              execution_stage' \in {"EXECUTE_SINGLE", "FETCH_SECOND_WORD"}
         /\ execution_stage = "FETCH_SECOND_WORD" =>
              execution_stage' \in {"EXECUTE_DOUBLE", "SAVE_RETURN_ADDRESS"}
         /\ execution_stage = "SAVE_RETURN_ADDRESS" => execution_stage' = "LOAD_CALL_TARGET"
         /\ execution_stage # "FETCH_DECODE" => instruction' = instruction
  BY DEF PosEdge, NextStage, RetireStages, NextInstruction, instruction_load_enable

(* Every retirement is observed, and matches its row.                      *)
LEMMA RetirementMatches ==
  ASSUME NEW H, RunInv(H), ProcInv(H), Cycle, Samples
  PROVE  /\ CoreInv' /\ Position(H)' /\ Scored'
         /\ observed_steps' = observed_steps + 1
         /\ execution_stage' = "FETCH_ADDRESS"
         /\ outcome' = IF observed_steps + 1 = steps THEN "passed" ELSE "none"
<1> DEFINE k == observed_steps
<1>1. /\ k \in Nat /\ steps \in Nat /\ k < steps /\ Len(files.trace) = steps
      /\ files.trace = trace
      /\ files.summary = [steps |-> steps, pc |-> refPc, regs |-> refRegs, flags |-> refFlags]
      /\ refPc = H[steps].pc /\ refRegs = H[steps].regs /\ refFlags = H[steps].flags
      /\ H[k] \in State /\ H[k + 1] = After(H[k])
      /\ trace[k + 1] = RowOf(H[k], H[k + 1])
  BY Running DEF Cycle
<1>2. PosEdge /\ CoreInv /\ Position(H) /\ mismatch_count = 0
  BY DEF Cycle, ProcInv, Scored
<1>3. instruction = At(H[k]) /\ current_seq_pc = Plus(H[k].pc, 1)
  BY <1>2 DEF Position, Samples
<1>4. /\ Processor' = H[k + 1] /\ IInv' /\ instruction' = instruction
      /\ execution_stage' = "FETCH_ADDRESS"
  BY <1>1, <1>2, Retires DEF Position
<1>5. pc' = H[k + 1].pc /\ regs' = H[k + 1].regs /\ flags' = H[k + 1].flags
  BY <1>4 DEF Processor, UvmIsaPc, IsaPc
<1>6. SameItem(Item, expected_q[k + 1])
  BY <1>1, <1>3, <1>4, <1>5 DEF SameItem, Item, expected_q, RowOf
<1>7. k + 1 = steps => FinalMismatches(Item) = 0
  <2>1. SUFFICES ASSUME k + 1 = steps PROVE FinalMismatches(Item) = 0
    OBVIOUS
  <2>2. {r \in Reg : Item.regs[r] # files.summary.regs[r]} = {}
    BY <1>1, <1>5, <2>1 DEF Item
  <2>3. ~ (Item.pc # files.summary.pc \/ Item.flags # files.summary.flags)
    BY <1>1, <1>5, <2>1 DEF Item
  <2> QED
    BY <2>2, <2>3, FS_EmptySet DEF FinalMismatches
<1>8. Score(Item) /\ last_item' = Item
  BY DEF Cycle
<1>9. observed_steps' = k + 1 /\ mismatch_count' = 0
  BY <1>1, <1>2, <1>6, <1>7, <1>8 DEF Score, expected_q, B01
<1>10. outcome' = IF k + 1 = steps THEN "passed" ELSE "none"
  BY <1>1, <1>9 DEF Cycle, Done, Passed, expected_q, expected_steps
<1>11. ~ Storing' /\ ~ Ahead'
  BY <1>4 DEF Storing, Ahead
<1>12. steps' = steps /\ trace' = trace
  BY DEF Cycle, reference
<1>13. CoreInv' /\ Position(H)'
  BY <1>1, <1>4, <1>9, <1>11, <1>12 DEF CoreInv, IInv, Position
<1>14. Scored'
  <2>1. trace[k + 1].addr = H[k].pc /\ trace[k + 1].ir = instruction
    BY <1>1, <1>3 DEF RowOf
  <2>2. H[k].pc \in Word
    BY <1>1 DEF State
  <2>3. Minus(Plus(H[k].pc, 1), instr_words(instruction))
          = Minus(H[k].pc, instr_words(instruction) - 1)
    BY <2>2 DEF instr_words, Plus, Minus, Word, WordSize
  <2> QED
    BY <1>1, <1>3, <1>4, <1>8, <1>9, <1>12, <2>1, <2>3 DEF Scored, Item
<1> QED
  BY <1>4, <1>9, <1>10, <1>13, <1>14

(* Between retirements nothing is observed.                                *)
LEMMA BetweenRetirements ==
  ASSUME NEW H, RunInv(H), ProcInv(H), Cycle, ~ Samples
  PROVE  /\ CoreInv' /\ Position(H)' /\ Scored'
         /\ observed_steps' = observed_steps /\ outcome' = "none"
<1> DEFINE k == observed_steps
<1>1. /\ k \in Nat /\ k < steps /\ H[k] \in State /\ H[k + 1] = After(H[k])
  BY Running DEF Cycle
<1>2. PosEdge /\ CoreInv /\ Position(H) /\ Scored /\ execution_stage \in Stages
  BY DEF Cycle, ProcInv, CoreInv, TypeOK
<1>3. /\ observed_steps' = k /\ last_item' = last_item /\ mismatch_count' = mismatch_count
      /\ steps' = steps /\ trace' = trace /\ outcome' = "none"
      /\ current_seq_pc' = NextSeqPc
  BY DEF Cycle, Done, reference
<1>4. Scored'
  BY <1>2, <1>3 DEF Scored
<1>5. ~ Ahead /\ Processor = H[k]
  BY <1>2 DEF Ahead, Storing, Samples, Position
<1>6. CASE \/ execution_stage \in {"RESET_INIT", "FETCH_ADDRESS", "FETCH_DECODE"}
           \/ execution_stage = "FETCH_SECOND_WORD" /\ opcode # STRR
  <2>1. Processor' = H[k] /\ IInv' /\ ~ Storing'
    BY <1>2, <1>5, <1>6, Fetches
  <2>2. (IInv /\ ~ Storing =>
          /\ execution_stage \in {"FETCH_DECODE", "EXECUTE_SINGLE", "FETCH_SECOND_WORD"} =>
               pc = Plus(Processor.pc, 1)
          /\ execution_stage \in {"EXECUTE_SINGLE", "FETCH_SECOND_WORD"} =>
               instruction = At(Processor))'
    BY FetchedAhead, PTL
  <2>3. /\ execution_stage' \in {"FETCH_DECODE", "FETCH_SECOND_WORD"} => pc' = Plus(H[k].pc, 1)
        /\ execution_stage' \in {"EXECUTE_SINGLE", "FETCH_SECOND_WORD"} => instruction' = At(H[k])
    BY <2>1, <2>2 DEF At, Cell
  <2>4. execution_stage' # "LOAD_CALL_TARGET" /\ ~ Ahead'
    BY <1>2, <1>6, <2>1, StageFollows DEF Ahead
  <2>5. execution_stage' \notin {"RESET_INIT", "FETCH_ADDRESS", "FETCH_DECODE"} =>
          instruction' = At(H[k])
    BY <1>2, <1>6, <2>3, StageFollows DEF Position
  <2>6. execution_stage' \notin {"RESET_INIT", "FETCH_ADDRESS"} =>
          current_seq_pc' = Plus(H[k].pc, 1)
    BY <1>2, <1>3, <1>6, <2>3, StageFollows DEF Position, NextSeqPc
  <2> QED
    BY <1>2, <1>3, <1>4, <2>1, <2>4, <2>5, <2>6 DEF CoreInv, IInv, Position
<1>7. CASE \/ execution_stage = "SAVE_RETURN_ADDRESS"
           \/ execution_stage = "FETCH_SECOND_WORD" /\ opcode = STRR
  <2>1. /\ Processor' = H[k + 1] /\ CoreInv' /\ instruction' = instruction /\ Ahead'
    BY <1>1, <1>2, <1>5, <1>7, TakesEffectEarly
  <2>2. instruction = At(H[k]) /\ current_seq_pc = Plus(H[k].pc, 1)
    BY <1>2, <1>7 DEF Position
  <2>3. current_seq_pc' = current_seq_pc
    BY <1>2, <1>3, <1>7, StageFollows DEF NextSeqPc
  <2> QED
    BY <1>1, <1>2, <1>3, <1>4, <2>1, <2>2, <2>3 DEF Position
<1> QED
  BY <1>2, <1>6, <1>7 DEF Stages, Samples

(* No stage takes the test beyond its five cycles an instruction.          *)
LEMMA TimeGoesOn ==
  ASSUME NEW H, RunInv(H), ProcInv(H), Cycle
  PROVE  OnTime'
<1>1. /\ PosEdge /\ execution_stage \in Stages /\ posedges' = posedges + 1
      /\ posedges \in Nat /\ posedges <= 3 + 5 * observed_steps + Depth
      /\ observed_steps \in Nat
  BY DEF Cycle, ProcInv, CoreInv, TypeOK, OnTime, Position
<1>2. CASE Samples
  <2>1. observed_steps' = observed_steps + 1 /\ Depth' = 0 /\ Depth <= 4 /\ Depth \in Int
    BY <1>2, RetirementMatches DEF Depth
  <2> QED
    BY <1>1, <2>1 DEF OnTime
<1>3. CASE ~ Samples
  <2>1. observed_steps' = observed_steps
    BY <1>3, BetweenRetirements
  <2>2. Depth' = Depth + 1 /\ Depth \in Int
    BY <1>1, <1>3, StageFollows DEF Depth, Samples, Stages
  <2> QED
    BY <1>1, <2>1, <2>2 DEF OnTime
<1> QED
  BY <1>2, <1>3

(* What an edge shows the collector.                                       *)
LEMMA Shown ==
  ASSUME Collect
  PROVE  /\ last_store' = IF Storing' THEN {address_bus'} ELSE last_store
         /\ hits \subseteq hits'
         /\ "strr_write" \in hits' <=> "strr_write" \in hits \/ Storing'
         /\ execution_stage' = "EXECUTE_DOUBLE" /\ ~ Storing' /\ address_bus' \in last_store =>
              "mem_store_then_load" \in hits'
<1>1. wr' = IF Storing' THEN 0 ELSE 1
  BY DEF wr, Double, Storing
<1>2. Storing' => execution_stage' = "EXECUTE_DOUBLE"
  BY DEF Storing
<1>3. /\ Storing' => Access = "WRITE"
      /\ execution_stage' = "EXECUTE_DOUBLE" /\ ~ Storing' => Access = "READ"
      /\ ~ Storing' => Access \in {"READ", "none"}
  BY <1>1, <1>2 DEF Access
<1>4. /\ Access = "WRITE" => MemHits = {"strr_write"}
      /\ Access = "READ" =>
           MemHits = {"ldrr_read"} \cup
                     (IF address_bus' \in last_store THEN {"mem_store_then_load"} ELSE {})
      /\ Access = "none" => MemHits = {}
  BY DEF MemHits
<1>5. "strr_write" \notin (IF Samples THEN RetireHits ELSE {})
  BY DEF RetireHits
<1> QED
  BY <1>3, <1>4, <1>5 DEF Collect, LastStore

(* The collector misses no store and no load.                              *)
LEMMA NothingMissed ==
  ASSUME NEW H, RunInv(H), ProcInv(H), Cycle
  PROVE  Collected'
<1> DEFINE k == observed_steps
<1>1. /\ k \in Nat /\ steps \in Nat /\ k < steps /\ H[k] \in State
      /\ H[k + 1] = After(H[k]) /\ trace[k + 1] = RowOf(H[k], H[k + 1])
  BY Running DEF Cycle
<1>2. /\ PosEdge /\ CoreInv /\ Position(H) /\ execution_stage \in Stages
      /\ CollectedBy(StoresSeen, LoadsSeen, hits, last_store)
  BY DEF Cycle, ProcInv, CoreInv, TypeOK, Collected
<1>3. Collect /\ trace' = trace
  BY DEF Cycle, reference
<1>4. SUFFICES CollectedBy(StoresSeen', LoadsSeen', hits', last_store')
  BY <1>3 DEF Collected, CollectedBy, Newest, Stores, Loads, Target, Source
<1>5. STRR # LDRR
  BY DEF STRR, LDRR
<1>6. CASE execution_stage' = "EXECUTE_DOUBLE"
  <2>1. execution_stage = "FETCH_SECOND_WORD" /\ ~ Samples
    BY <1>2, <1>6, StageFollows DEF Stages, Samples, PosEdge, NextStage, RetireStages
  <2>2. observed_steps' = k /\ instruction' = instruction /\ opcode' = opcode
    BY <1>2, <2>1, BetweenRetirements, StageFollows DEF opcode
  <2>3. ~ Storing /\ ~ Ahead /\ Processor = H[k] /\ instruction = At(H[k]) /\ IInv
    BY <1>2, <2>1 DEF Storing, Ahead, Position, CoreInv
  <2>4. trace[k + 1].ir = instruction /\ trace[k + 1].regs = H[k + 1].regs /\ regs = H[k].regs
    BY <1>1, <2>3 DEF RowOf, Processor
  <2>5. StoresSeen = k /\ LoadsSeen = k /\ LoadsSeen' = k + 1
    BY <1>6, <2>1, <2>2, <2>3 DEF StoresSeen, LoadsSeen
  <2>6. CASE opcode = STRR
    <3>1. Storing' /\ address_bus' = regs[DestReg(instruction)]
      BY <1>2, <2>1, <2>3, <2>6, StoreBegins
    <3>2. Stores(k + 1) /\ ~ Loads(k + 1)
      BY <1>5, <2>4, <2>6 DEF Stores, Loads, opcode
    <3>3. Target(k + 1) = regs[DestReg(instruction)]
      BY <1>1, <2>3, <2>4, <2>6, StoreAfter DEF Target, opcode
    <3>4. /\ StoresSeen' = k + 1 /\ last_store' = {Target(k + 1)}
          /\ "strr_write" \in hits' /\ hits \subseteq hits'
      BY <1>3, <2>2, <3>1, <3>3, Shown DEF StoresSeen
    <3>5. ASSUME NEW i \in 1 .. k + 1, Newest(i, k + 1) PROVE i = k + 1
      BY <1>1, <3>2, <3>5 DEF Newest
    <3> QED
      BY <1>1, <1>2, <2>5, <3>2, <3>4, <3>5 DEF CollectedBy
  <2>7. CASE opcode # STRR
    <3>1. ~ Storing'
      BY <2>2, <2>7 DEF Storing
    <3>2. /\ StoresSeen' = k /\ last_store' = last_store /\ hits \subseteq hits'
          /\ "strr_write" \in hits' <=> "strr_write" \in hits
          /\ address_bus' \in last_store => "mem_store_then_load" \in hits'
      BY <1>3, <1>6, <2>2, <3>1, Shown DEF StoresSeen
    <3>3. ASSUME NEW i \in 1 .. k, Newest(i, k), Loads(k + 1), Target(i) = Source(k + 1)
          PROVE  "mem_store_then_load" \in hits'
      <4>1. opcode = LDRR
        BY <2>4, <3>3 DEF Loads, opcode
      <4>2. address_bus' = regs[SourReg(instruction)]
        BY <1>2, <2>1, <2>3, <4>1, IndirectWires DEF IInv, PosEdge
      <4>3. trace[k].regs = H[k].regs /\ k + 1 - 1 = k
        BY <1>1, <3>3 DEF RunInv, RunIs, RowOf
      <4>4. Source(k + 1) = regs[SourReg(instruction)]
        BY <1>1, <2>4, <4>3 DEF Source
      <4>5. last_store = {Target(i)}
        BY <1>2, <2>5, <3>3 DEF CollectedBy
      <4> QED
        BY <3>2, <3>3, <4>2, <4>4, <4>5
    <3> QED
      BY <1>1, <1>2, <2>5, <3>2, <3>3 DEF CollectedBy
  <2> QED
    BY <2>6, <2>7
<1>7. CASE execution_stage' # "EXECUTE_DOUBLE"
  <2>1. ~ Storing'
    BY <1>7 DEF Storing
  <2>2. /\ StoresSeen' = observed_steps' /\ LoadsSeen' = observed_steps'
        /\ last_store' = last_store /\ hits \subseteq hits'
        /\ "strr_write" \in hits' <=> "strr_write" \in hits
    BY <1>3, <1>7, <2>1, Shown DEF StoresSeen, LoadsSeen
  <2>3. CASE ~ Samples
    <3>1. observed_steps' = k /\ StoresSeen = k /\ LoadsSeen = k
      BY <2>3, BetweenRetirements DEF Samples, Storing, StoresSeen, LoadsSeen
    <3> QED
      BY <1>1, <1>2, <2>2, <3>1 DEF CollectedBy
  <2>4. CASE Samples
    <3>1. observed_steps' = k + 1
      BY <2>4, RetirementMatches
    <3>2. instruction = At(H[k]) /\ trace[k + 1].ir = instruction
      BY <1>1, <1>2, <2>4 DEF Position, Samples, RowOf
    <3>3. execution_stage # "EXECUTE_DOUBLE" => opcode \notin {LDRR, STRR}
      BY <1>2, <2>4 DEF Samples, CoreInv, Storing, IInv, PathFollowsInstruction, CALLA, LDRR, STRR
    <3>4. (Stores(k + 1) <=> opcode = STRR) /\ (Loads(k + 1) <=> opcode = LDRR)
      BY <3>2 DEF Stores, Loads, opcode
    <3>5. StoresSeen = k + 1 \/ (StoresSeen = k /\ ~ Stores(k + 1))
      BY <3>3, <3>4 DEF StoresSeen, Storing
    <3>6. LoadsSeen = k + 1 \/ (LoadsSeen = k /\ ~ Loads(k + 1))
      BY <3>3, <3>4 DEF LoadsSeen
    <3>7. ASSUME NEW i \in 1 .. k + 1, ~ Stores(k + 1), Newest(i, k + 1)
          PROVE  i \in 1 .. k /\ Newest(i, k)
      BY <1>1, <3>7 DEF Newest
    <3> QED
      BY <1>1, <1>2, <2>2, <3>1, <3>5, <3>6, <3>7 DEF CollectedBy
  <2> QED
    BY <2>3, <2>4
<1> QED
  BY <1>6, <1>7

-----------------------------------------------------------------------------
(* The invariant: there is a run of the instruction set that the reference *)
(* has recorded and the processor is following.                            *)
UvmInv == \E H : RunInv(H) /\ ProcInv(H)

LEMMA UvmStarts == UvmInit => UvmInv
<1> SUFFICES ASSUME UvmInit PROVE UvmInv
  OBVIOUS
<1>1. IInv /\ refMem = mem /\ Reference!ReferenceInit
  BY InvInit DEF UvmInit
<1>2. /\ execution_stage = "RESET_INIT" /\ pc = 0 /\ regs = [i \in Reg |-> 0]
      /\ flags = [c |-> 0, z |-> 0, v |-> 0, s |-> 0]
  BY DEF UvmInit, Init, Cleared
<1>3. /\ refPc = 0 /\ refRegs = [i \in Reg |-> 0] /\ refFlags = [c |-> 0, z |-> 0, v |-> 0, s |-> 0]
      /\ steps = 0 /\ self_loop_retire_count = 0 /\ refOutcome = "running"
      /\ trace = <<>> /\ events = <<>> /\ files = <<>>
  BY <1>1 DEF Reference!ReferenceInit, Reference!IsaInit, Reference!Reg, Reg
<1>4. PICK H : H = [i \in 0 .. 0 |-> ReferenceState]
  OBVIOUS
<1>5. Processor = ReferenceState
  BY <1>1, <1>2, <1>3 DEF Processor, UvmIsaPc, IsaPc, ReferenceState
<1>6. Processor \in State
  BY <1>1, <1>2 DEF Processor, UvmIsaPc, IsaPc, State, IInv, TypeOK
<1>7. H \in [0 .. steps -> State] /\ H[steps] = ReferenceState /\ H[0] = ReferenceState
  BY <1>3, <1>4, <1>5, <1>6
<1>8. RunIs(H) /\ StandsAt(H[steps])
  BY <1>3, <1>7 DEF RunIs, Initial, StandsAt, ReferenceState
<1>9. Remembered(H) /\ Looping /\ FilesWritten
  BY <1>3, ThresholdAssumption DEF Remembered, Looping, FilesWritten
<1>10. ~ Storing /\ ~ Ahead
  BY <1>2 DEF Storing, Ahead
<1>11. CoreInv /\ Position(H)
  BY <1>1, <1>2, <1>3, <1>5, <1>7, <1>10 DEF CoreInv, IInv, Position, UvmInit
<1>12. Scored /\ Waiting /\ OnTime /\ Judged
  BY <1>2, <1>3 DEF UvmInit, Scored, Waiting, OnTime, Depth, Judged
<1>13. Collected
  BY <1>2, <1>10 DEF UvmInit, Collected, CollectedBy, StoresSeen, LoadsSeen
<1> QED
  BY <1>8, <1>9, <1>11, <1>12, <1>13 DEF UvmInv, RunInv, ProcInv

(* While the reference runs, the processor waits.                          *)
LEMMA ReferenceFirst ==
  ASSUME NEW H, RunInv(H), ProcInv(H), RunReference
  PROVE  UvmInv'
<1>1. PICK G : RunInv(G)' /\ steps' >= steps /\ \A i \in 0 .. steps : G[i] = H[i]
  BY ReferenceKeeps DEF RunReference
<1>2. files = <<>>
  BY DEF RunInv, FilesWritten, RunReference, Reference!ReferenceNext, Reference!RunStep,
     Reference!UnsupportedOpcode, Reference!ExceedMaxSteps, Reference!WriteFiles
<1>3. UNCHANGED <<vars, testbench>>
  BY DEF RunReference
<1>4. /\ execution_stage = "RESET_INIT" /\ outcome = "none"
      /\ observed_steps = 0 /\ hits = {} /\ last_store = {}
  BY <1>2 DEF ProcInv, Waiting
<1>5. CoreInv' /\ Processor' = Processor /\ ~ Storing /\ ~ Storing' /\ ~ Ahead /\ ~ Ahead'
  BY <1>3, <1>4 DEF ProcInv, vars, CoreInv, TypeOK, IInv, InstructionInFlight,
     PathFollowsInstruction, OperandPrepared, Processor, UvmIsaPc, IsaPc, Storing, Ahead
<1>6. steps \in Nat /\ steps' \in Nat /\ G[0] = H[0]
  BY <1>1 DEF RunInv, RunIs
<1>7. Position(G)'
  BY <1>3, <1>4, <1>5, <1>6 DEF ProcInv, vars, testbench, Position
<1>8. Scored' /\ Waiting' /\ OnTime'
  BY <1>3, <1>4 DEF ProcInv, vars, testbench, Scored, Waiting, OnTime, Depth
<1>9. files' # <<>> => steps' > 0
  <2>1. Looping' /\ FilesWritten'
    BY <1>1 DEF RunInv
  <2>2. files' # <<>> => self_loop_retire_count' >= halt_repeat_threshold
    BY <2>1 DEF Looping, FilesWritten
  <2>3. self_loop_retire_count' \in 0 .. steps'
    BY <2>1 DEF Looping
  <2> QED
    BY <1>6, <2>2, <2>3, ThresholdAssumption
<1>10. Judged'
  BY <1>3, <1>4, <1>9 DEF vars, testbench, Judged
<1>11. Collected'
  BY <1>3, <1>4, <1>5 DEF vars, testbench, Collected, CollectedBy, StoresSeen, LoadsSeen
<1> QED
  BY <1>1, <1>5, <1>7, <1>8, <1>10, <1>11 DEF UvmInv, ProcInv

LEMMA CycleKeeps ==
  ASSUME NEW H, RunInv(H), ProcInv(H), Cycle
  PROVE  UvmInv'
<1>1. UNCHANGED <<refPc, refRegs, refFlags, refMem, steps, self_loop_retire_count, refOutcome,
                  trace, events, files>>
  BY DEF Cycle, reference
<1>2. RunInv(H)'
  BY <1>1, RunRests
<1>3. /\ observed_steps \in Nat /\ steps \in Nat /\ observed_steps < steps /\ files # <<>>
  BY Running DEF Cycle
<1>4. CoreInv' /\ Position(H)' /\ Scored'
  BY RetirementMatches, BetweenRetirements
<1>5. Waiting'
  BY <1>1, <1>3 DEF Waiting
<1>6. Judged'
  BY <1>1, <1>3, RetirementMatches, BetweenRetirements DEF Judged
<1> QED
  BY <1>2, <1>4, <1>5, <1>6, TimeGoesOn, NothingMissed DEF UvmInv, ProcInv

(* The time limit is only met by a run that is over it.                    *)
LEMMA TimeOutKeeps ==
  ASSUME NEW H, RunInv(H), ProcInv(H), TimeOut
  PROVE  UvmInv'
<1>1. UNCHANGED <<refPc, refRegs, refFlags, refMem, steps, self_loop_retire_count, refOutcome,
                  trace, events, files>>
  BY DEF TimeOut, reference
<1>2. RunInv(H)'
  BY <1>1, RunRests
<1>3. /\ UNCHANGED <<execution_stage, instruction, flags, pc, regs, address_bus, mem>>
      /\ UNCHANGED <<current_seq_pc, observed_steps, mismatch_count, last_item, hits, last_store>>
  BY DEF TimeOut, vars
<1>4. /\ observed_steps \in Nat /\ steps \in Nat /\ observed_steps < steps /\ files # <<>>
  BY Running DEF TimeOut
<1>5. CoreInv'
  BY <1>3 DEF ProcInv, CoreInv, TypeOK, IInv, InstructionInFlight, PathFollowsInstruction,
     OperandPrepared, Storing, Fetched, opcode, Cell
<1>6. Storing' = Storing /\ Ahead' = Ahead /\ Processor' = Processor
  BY <1>3 DEF Storing, Ahead, Processor, UvmIsaPc, IsaPc, opcode, Fetched, offset, Single
<1>7. Position(H)'
  BY <1>1, <1>3, <1>6 DEF ProcInv, Position, At, Cell
<1>8. Scored' /\ Waiting'
  BY <1>1, <1>3, <1>4 DEF ProcInv, Scored, Waiting
<1>9. posedges \in Nat /\ posedges <= 3 + 5 * observed_steps + Depth /\ Depth \in Int /\ Depth <= 4
  BY DEF TimeOut, ProcInv, OnTime, Depth
<1>10. posedges' = posedges + 1 /\ posedges + 1 >= max_cycles /\ outcome' = "timeout"
  BY DEF TimeOut
<1>11. Judged' /\ OnTime'
  BY <1>1, <1>4, <1>9, <1>10, LimitAssumption DEF Judged, OnTime
<1>12. Collected'
  BY <1>1, <1>3, <1>6 DEF ProcInv, Collected, CollectedBy, StoresSeen, LoadsSeen, Newest,
     Stores, Loads, Target, Source
<1> QED
  BY <1>2, <1>5, <1>7, <1>8, <1>11, <1>12 DEF UvmInv, ProcInv

LEMMA UvmStep == UvmInv /\ [UvmNext]_uvmVars => UvmInv'
<1> SUFFICES ASSUME UvmInv, [UvmNext]_uvmVars PROVE UvmInv'
  OBVIOUS
<1>1. PICK H : RunInv(H) /\ ProcInv(H)
  BY DEF UvmInv
<1>2. CASE RunReference
  BY <1>1, <1>2, ReferenceFirst
<1>3. CASE Cycle
  BY <1>1, <1>3, CycleKeeps
<1>4. CASE TimeOut
  BY <1>1, <1>4, TimeOutKeeps
<1>5. CASE UNCHANGED uvmVars
  <2>1. UNCHANGED <<refPc, refRegs, refFlags, refMem, steps, self_loop_retire_count, refOutcome,
                    trace, events, files>>
    BY <1>5 DEF uvmVars, reference
  <2>2. /\ UNCHANGED <<execution_stage, instruction, flags, pc, regs, address_bus, mem>>
        /\ UNCHANGED <<posedges, current_seq_pc, observed_steps, mismatch_count, last_item,
                       hits, last_store, outcome>>
    BY <1>5 DEF uvmVars, vars, testbench
  <2>3. CoreInv'
    BY <1>1, <2>2 DEF ProcInv, CoreInv, TypeOK, IInv, InstructionInFlight,
       PathFollowsInstruction, OperandPrepared, Storing, Fetched, opcode, Cell
  <2>4. Storing' = Storing /\ Ahead' = Ahead /\ Processor' = Processor
    BY <2>2 DEF Storing, Ahead, Processor, UvmIsaPc, IsaPc, opcode, Fetched, offset, Single
  <2>5. Position(H)'
    BY <1>1, <2>1, <2>2, <2>4 DEF ProcInv, Position, At, Cell
  <2>6. Scored' /\ Waiting' /\ OnTime' /\ Judged'
    BY <1>1, <2>1, <2>2 DEF ProcInv, Scored, Waiting, OnTime, Depth, Judged
  <2>7. Collected'
    BY <1>1, <2>1, <2>2, <2>4 DEF ProcInv, Collected, CollectedBy, StoresSeen, LoadsSeen,
       Newest, Stores, Loads, Target, Source
  <2> QED
    BY <1>1, <2>1, <2>3, <2>5, <2>6, <2>7, RunRests DEF UvmInv, ProcInv
<1> QED
  BY <1>2, <1>3, <1>4, <1>5 DEF UvmNext

LEMMA UvmInvariance == UvmSpec => []UvmInv
  BY UvmStarts, UvmStep, PTL DEF UvmSpec

-----------------------------------------------------------------------------
(* Files exist only for a program that has come to rest, and end with the  *)
(* state it rests in.                                                      *)
THEOREM FilesCorrect == UvmSpec => []FilesOfHaltedProgram
<1>1. UvmInv => FilesOfHaltedProgram
  BY FilesTell DEF UvmInv
<1> QED
  BY <1>1, UvmInvariance, PTL

(* The events of the reference tell its whole run.                         *)
THEOREM EventsCorrect == UvmSpec => []EventsTellTheRun
<1>1. UvmInv => EventsTellTheRun
  BY RunTells DEF UvmInv
<1> QED
  BY <1>1, UvmInvariance, PTL

(* No retirement of the processor is ever called a mismatch, and each is   *)
(* reported at the right address.                                          *)
THEOREM NoMismatchCorrect == UvmSpec => []NoMismatch
<1>1. UvmInv => NoMismatch
  <2> SUFFICES ASSUME NEW H, RunInv(H), ProcInv(H) PROVE NoMismatch
    BY DEF UvmInv
  <2>1. Scored
    BY DEF ProcInv
  <2>2. observed_steps > 0 => files # <<>>
    BY DEF ProcInv, Waiting
  <2>3. files # <<>> => files.trace = trace
    BY DEF RunInv, FilesWritten
  <2> QED
    BY <2>1, <2>2, <2>3 DEF Scored, NoMismatch, RebuiltAddress, expected_q
<1> QED
  BY <1>1, UvmInvariance, PTL

(* A test that passes has executed the run of the reference, whose memory  *)
(* nobody compared.                                                        *)
THEOREM PassedCorrect == UvmSpec => []PassedIsTheReferenceRun
<1>1. UvmInv => PassedIsTheReferenceRun
  <2> SUFFICES ASSUME NEW H, RunInv(H), ProcInv(H), outcome = "passed"
               PROVE  observed_steps = expected_steps /\ mem = refMem /\ pc = refPc
    BY DEF UvmInv, PassedIsTheReferenceRun
  <2>1. observed_steps = steps /\ execution_stage = "FETCH_ADDRESS"
    BY DEF ProcInv, Judged
  <2>2. files # <<>>
    BY DEF ProcInv, Waiting
  <2>3. expected_steps = steps /\ refOutcome = "halted"
    BY <2>2 DEF RunInv, FilesWritten, expected_steps
  <2>4. refMem = H[steps].mem /\ refPc = H[steps].pc
    BY <2>3 DEF RunInv, StandsAt
  <2>5. Processor = H[steps] /\ Processor.mem = mem /\ Processor.pc = pc
    BY <2>1 DEF ProcInv, Position, Ahead, Storing, Processor, UvmIsaPc, IsaPc
  <2> QED
    BY <2>1, <2>3, <2>4, <2>5
<1> QED
  BY <1>1, UvmInvariance, PTL

(* Five cycles for each instruction are enough.                            *)
THEOREM BudgetCorrect == UvmSpec => []TimeoutOnlyBeyondBudget
<1>1. UvmInv => TimeoutOnlyBeyondBudget
  <2> SUFFICES ASSUME NEW H, RunInv(H), ProcInv(H), outcome = "timeout"
               PROVE  max_cycles < 2 + 1 + 5 * expected_steps + 1
    BY DEF UvmInv, TimeoutOnlyBeyondBudget
  <2>1. max_cycles < 2 + 1 + 5 * steps + 1 /\ files # <<>>
    BY DEF ProcInv, Judged, Waiting
  <2>2. expected_steps = steps
    BY <2>1 DEF RunInv, FilesWritten, expected_steps
  <2> QED
    BY <2>1, <2>2
<1> QED
  BY <1>1, UvmInvariance, PTL

(***************************************************************************)
(* Steps left before a verdict: those of the reference within its limit,   *)
(* the writing of its files, and the cycles within the limit of the test.  *)
(***************************************************************************)
ReferenceLeft == IF refOutcome = "running" THEN max_steps - steps + 1 ELSE 0

FilesLeft == IF files = <<>> /\ refOutcome # "error" THEN 1 ELSE 0

CyclesLeft ==
  IF outcome = "none" THEN (IF posedges < max_cycles THEN max_cycles - posedges ELSE 0) + 1 ELSE 0

TurnsLeft == ReferenceLeft + FilesLeft + CyclesLeft

WithinLimits == UvmInv /\ steps <= max_steps /\ posedges \in Nat

LEMMA TurnsAreFinite ==
  ASSUME WithinLimits
  PROVE  /\ steps \in Nat /\ refOutcome \in {"running", "halted", "error"}
         /\ files # <<>> => refOutcome = "halted"
         /\ ReferenceLeft \in Nat /\ FilesLeft \in Nat /\ CyclesLeft \in Nat
<1>1. /\ steps \in Nat /\ refOutcome \in {"running", "halted", "error"}
      /\ files # <<>> => refOutcome = "halted"
  BY DEF WithinLimits, UvmInv, RunInv, RunIs, Looping, FilesWritten
<1> QED
  BY <1>1, StepLimitAssumption, LimitAssumption
     DEF WithinLimits, ReferenceLeft, FilesLeft, CyclesLeft

LEMMA ReferenceTurn ==
  ASSUME WithinLimits, RunReference
  PROVE  TurnsLeft' < TurnsLeft /\ steps' <= max_steps /\ posedges' \in Nat
<1>1. UNCHANGED <<posedges, outcome>> /\ posedges \in Nat /\ steps <= max_steps
  BY DEF RunReference, testbench, WithinLimits
<1>2. CyclesLeft' = CyclesLeft
  BY <1>1 DEF CyclesLeft
<1>3. CASE Reference!RunStep \/ Reference!UnsupportedOpcode \/ Reference!ExceedMaxSteps
  <2>1. /\ refOutcome = "running" /\ files' = files
        /\ \/ steps < max_steps /\ steps' = steps + 1 /\ refOutcome' \in {"halted", "running"}
           \/ steps' = steps /\ refOutcome' = "error"
    BY <1>3 DEF Reference!RunStep, Reference!UnsupportedOpcode, Reference!ExceedMaxSteps
  <2>2. ReferenceLeft' < ReferenceLeft /\ ReferenceLeft' \in Nat /\ steps' <= max_steps
    BY <1>1, <2>1, TurnsAreFinite, StepLimitAssumption DEF ReferenceLeft
  <2>3. FilesLeft' <= FilesLeft /\ FilesLeft' \in Nat
    BY <2>1 DEF FilesLeft
  <2>4. ReferenceLeft \in Nat /\ FilesLeft \in Nat /\ CyclesLeft \in Nat
    BY TurnsAreFinite
  <2>5. TurnsLeft' = ReferenceLeft' + FilesLeft' + CyclesLeft
    BY <1>2 DEF TurnsLeft
  <2>6. TurnsLeft' < TurnsLeft
    BY <2>2, <2>3, <2>4, <2>5 DEF TurnsLeft
  <2> QED
    BY <1>1, <2>2, <2>6
<1>4. CASE Reference!WriteFiles
  <2>1. /\ refOutcome = "halted" /\ refOutcome' = "halted"
        /\ steps' = steps /\ files = <<>> /\ "trace" \in DOMAIN files'
    BY <1>4 DEF Reference!WriteFiles
  <2>2. files' # <<>>
    BY <2>1
  <2>3. ReferenceLeft' = 0 /\ ReferenceLeft = 0 /\ FilesLeft' = 0 /\ FilesLeft = 1
    BY <2>1, <2>2 DEF ReferenceLeft, FilesLeft
  <2> QED
    BY <1>1, <1>2, <2>1, <2>3, TurnsAreFinite DEF TurnsLeft
<1> QED
  BY <1>3, <1>4 DEF RunReference, Reference!ReferenceNext

LEMMA CycleTurn ==
  ASSUME WithinLimits, Cycle \/ TimeOut
  PROVE  TurnsLeft' < TurnsLeft /\ steps' <= max_steps /\ posedges' \in Nat
<1>1. /\ UNCHANGED <<steps, refOutcome, files>> /\ steps <= max_steps /\ posedges \in Nat
      /\ outcome = "none" /\ posedges' = posedges + 1
      /\ outcome' = "none" => posedges + 1 < max_cycles
  BY DEF WithinLimits, Cycle, TimeOut, reference
<1>2. ReferenceLeft' = ReferenceLeft /\ FilesLeft' = FilesLeft
  BY <1>1 DEF ReferenceLeft, FilesLeft
<1>3. CyclesLeft' < CyclesLeft /\ CyclesLeft' \in Nat
  BY <1>1, LimitAssumption DEF CyclesLeft
<1> QED
  BY <1>1, <1>2, <1>3, TurnsAreFinite DEF TurnsLeft

(***************************************************************************)
(* Every step of a test takes some of a number fixed by the two limits,    *)
(* whatever the program: no test goes on for ever.                         *)
(***************************************************************************)
THEOREM TurnsFall ==
  UvmSpec => [](TurnsLeft \in Nat) /\ [][TurnsLeft' < TurnsLeft]_uvmVars
<1> DEFINE Falls == TurnsLeft' < TurnsLeft
<1>1. UvmInit => steps <= max_steps /\ posedges \in Nat
  BY StepLimitAssumption DEF UvmInit, Reference!ReferenceInit
<1>2. WithinLimits /\ [UvmNext]_uvmVars =>
        /\ (steps <= max_steps /\ posedges \in Nat)'
        /\ [Falls]_uvmVars
  <2>1. CASE UNCHANGED uvmVars
    BY <2>1 DEF WithinLimits, uvmVars, reference, testbench
  <2> QED
    BY <2>1, ReferenceTurn, CycleTurn DEF UvmNext
<1>3. (UvmInit => WithinLimits) /\ (WithinLimits => TurnsLeft \in Nat)
  BY <1>1, UvmStarts, TurnsAreFinite DEF WithinLimits, TurnsLeft
<1>4. WithinLimits /\ [UvmNext]_uvmVars => WithinLimits'
  BY <1>2, UvmStep DEF WithinLimits
<1> QED
  BY <1>2, <1>3, <1>4, PTL DEF UvmSpec

(* The collector misses no store, and no load of what was stored last.     *)
THEOREM CollectorCorrect == UvmSpec => []BinsMissNothing
<1>1. UvmInv => BinsMissNothing
  <2> SUFFICES ASSUME NEW H, RunInv(H), ProcInv(H), outcome = "passed"
               PROVE  /\ "strr_write" \in hits <=> Of(STRR) # {}
                      /\ \A i \in Of(STRR), j \in Of(LDRR) :
                           /\ i < j
                           /\ StoredAt(i) = LoadedFrom(j)
                           /\ Of(STRR) \cap (i + 1 .. j - 1) = {}
                           => "mem_store_then_load" \in hits
    BY DEF UvmInv, BinsMissNothing
  <2>1. observed_steps = steps /\ execution_stage = "FETCH_ADDRESS" /\ files # <<>>
    BY DEF ProcInv, Judged, Waiting
  <2>2. expected_q = trace /\ steps \in Nat /\ DOMAIN expected_q = 1 .. steps
    BY <2>1 DEF RunInv, RunIs, FilesWritten, expected_q
  <2>3. CollectedBy(steps, steps, hits, last_store)
    BY <2>1 DEF ProcInv, Collected, StoresSeen, LoadsSeen, Storing
  <2>4. \A i : /\ i \in Of(STRR) <=> i \in 1 .. steps /\ Stores(i)
               /\ i \in Of(LDRR) <=> i \in 1 .. steps /\ Loads(i)
               /\ StoredAt(i) = Target(i) /\ LoadedFrom(i) = Source(i)
    BY <2>2 DEF Of, Stores, Loads, StoredAt, Target, LoadedFrom, Source
  <2>5. "strr_write" \in hits <=> Of(STRR) # {}
    BY <2>3, <2>4 DEF CollectedBy
  <2>6. ASSUME NEW i \in Of(STRR), NEW j \in Of(LDRR),
               i < j, StoredAt(i) = LoadedFrom(j), Of(STRR) \cap (i + 1 .. j - 1) = {}
        PROVE  "mem_store_then_load" \in hits
    <3>1. i \in 1 .. steps /\ j \in 1 .. steps /\ Stores(i) /\ Loads(j) /\ Target(i) = Source(j)
      BY <2>4, <2>6
    <3>2. ASSUME NEW m \in i + 1 .. j - 1, Stores(m) PROVE FALSE
      <4>1. m \in 1 .. steps
        BY <2>2, <3>1
      <4> QED
        BY <2>4, <2>6, <3>2, <4>1
    <3>3. Newest(i, j - 1)
      BY <3>1, <3>2 DEF Newest
    <3> QED
      BY <2>3, <2>6, <3>1, <3>3 DEF CollectedBy
  <2> QED
    BY <2>5, <2>6
<1> QED
  BY <1>1, UvmInvariance, PTL

-----------------------------------------------------------------------------
(* The instruction set read off at the program counter of this environment *)
(* is that of CpuRefinesIsa, except while a store retires.                 *)
LEMMA SameArchitecture ==
  ASSUME UvmIsaPc = IsaPc, UvmIsaPc' = IsaPc', Architecture!Step
  PROVE  UvmArchitecture!Step
<1>1. /\ UvmArchitecture!ADD = Architecture!ADD
      /\ UvmArchitecture!SUB = Architecture!SUB
      /\ UvmArchitecture!AND = Architecture!AND
      /\ UvmArchitecture!CMP = Architecture!CMP
      /\ UvmArchitecture!XOR = Architecture!XOR
      /\ UvmArchitecture!TEST = Architecture!TEST
      /\ UvmArchitecture!OR = Architecture!OR
      /\ UvmArchitecture!MVRR = Architecture!MVRR
      /\ UvmArchitecture!DEC = Architecture!DEC
      /\ UvmArchitecture!INC = Architecture!INC
      /\ UvmArchitecture!SHL = Architecture!SHL
      /\ UvmArchitecture!SHR = Architecture!SHR
      /\ UvmArchitecture!ADC = Architecture!ADC
      /\ UvmArchitecture!SBB = Architecture!SBB
      /\ UvmArchitecture!NOT = Architecture!NOT
      /\ UvmArchitecture!ASR = Architecture!ASR
      /\ UvmArchitecture!JR = Architecture!JR
      /\ UvmArchitecture!JRS = Architecture!JRS
      /\ UvmArchitecture!JRNS = Architecture!JRNS
      /\ UvmArchitecture!JRC = Architecture!JRC
      /\ UvmArchitecture!JRNC = Architecture!JRNC
      /\ UvmArchitecture!JRZ = Architecture!JRZ
      /\ UvmArchitecture!JRNZ = Architecture!JRNZ
      /\ UvmArchitecture!CLC = Architecture!CLC
      /\ UvmArchitecture!STC = Architecture!STC
      /\ UvmArchitecture!RET = Architecture!RET
      /\ UvmArchitecture!JMPA = Architecture!JMPA
      /\ UvmArchitecture!MVRD = Architecture!MVRD
      /\ UvmArchitecture!LDRR = Architecture!LDRR
      /\ UvmArchitecture!STRR = Architecture!STRR
      /\ UvmArchitecture!ADDI = Architecture!ADDI
      /\ UvmArchitecture!ANDI = Architecture!ANDI
      /\ UvmArchitecture!CALLA = Architecture!CALLA
      /\ UvmArchitecture!RegisterOps = Architecture!RegisterOps
      /\ UvmArchitecture!Branches = Architecture!Branches
      /\ UvmArchitecture!Extended = Architecture!Extended
      /\ UvmArchitecture!Defined = Architecture!Defined
      /\ UvmArchitecture!LinkRegister = Architecture!LinkRegister
      /\ UvmArchitecture!WordSize = Architecture!WordSize
  BY DEF Architecture!ADD, UvmArchitecture!ADD, Architecture!SUB,
         UvmArchitecture!SUB, Architecture!AND, UvmArchitecture!AND,
         Architecture!CMP, UvmArchitecture!CMP, Architecture!XOR,
         UvmArchitecture!XOR, Architecture!TEST, UvmArchitecture!TEST,
         Architecture!OR, UvmArchitecture!OR, Architecture!MVRR,
         UvmArchitecture!MVRR, Architecture!DEC, UvmArchitecture!DEC,
         Architecture!INC, UvmArchitecture!INC, Architecture!SHL,
         UvmArchitecture!SHL, Architecture!SHR, UvmArchitecture!SHR,
         Architecture!ADC, UvmArchitecture!ADC, Architecture!SBB,
         UvmArchitecture!SBB, Architecture!NOT, UvmArchitecture!NOT,
         Architecture!ASR, UvmArchitecture!ASR, Architecture!JR, UvmArchitecture!JR,
         Architecture!JRS, UvmArchitecture!JRS, Architecture!JRNS,
         UvmArchitecture!JRNS, Architecture!JRC, UvmArchitecture!JRC,
         Architecture!JRNC, UvmArchitecture!JRNC, Architecture!JRZ,
         UvmArchitecture!JRZ, Architecture!JRNZ, UvmArchitecture!JRNZ,
         Architecture!CLC, UvmArchitecture!CLC, Architecture!STC,
         UvmArchitecture!STC, Architecture!RET, UvmArchitecture!RET,
         Architecture!JMPA, UvmArchitecture!JMPA, Architecture!MVRD,
         UvmArchitecture!MVRD, Architecture!LDRR, UvmArchitecture!LDRR,
         Architecture!STRR, UvmArchitecture!STRR, Architecture!ADDI,
         UvmArchitecture!ADDI, Architecture!ANDI, UvmArchitecture!ANDI,
         Architecture!CALLA, UvmArchitecture!CALLA, Architecture!RegisterOps,
         UvmArchitecture!RegisterOps, Architecture!Branches,
         UvmArchitecture!Branches, Architecture!Extended, UvmArchitecture!Extended,
         Architecture!Defined, UvmArchitecture!Defined, Architecture!LinkRegister,
         UvmArchitecture!LinkRegister, Architecture!WordSize,
         UvmArchitecture!WordSize
<1>2. ASSUME NEW x, NEW y, NEW k
      PROVE  /\ UvmArchitecture!Plus(x, y) = Architecture!Plus(x, y)
             /\ UvmArchitecture!Sign(x) = Architecture!Sign(x)
             /\ UvmArchitecture!BitNot(x) = Architecture!BitNot(x)
             /\ UvmArchitecture!SignExtend(x) = Architecture!SignExtend(x)
             /\ UvmArchitecture!IsaCell(x) = Architecture!IsaCell(x)
             /\ UvmArchitecture!Opcode(x) = Architecture!Opcode(x)
             /\ UvmArchitecture!DestReg(x) = Architecture!DestReg(x)
             /\ UvmArchitecture!SourReg(x) = Architecture!SourReg(x)
             /\ UvmArchitecture!Imm8(x) = Architecture!Imm8(x)
             /\ UvmArchitecture!B(x) = Architecture!B(x)
  BY DEF Architecture!Plus, UvmArchitecture!Plus, Architecture!Sign,
         UvmArchitecture!Sign, Architecture!BitNot, UvmArchitecture!BitNot,
         Architecture!SignExtend, UvmArchitecture!SignExtend, Architecture!IsaCell,
         UvmArchitecture!IsaCell, Architecture!Opcode, UvmArchitecture!Opcode,
         Architecture!DestReg, UvmArchitecture!DestReg, Architecture!SourReg,
         UvmArchitecture!SourReg, Architecture!Imm8, UvmArchitecture!Imm8,
         Architecture!B, UvmArchitecture!B, Architecture!WordSize,
         UvmArchitecture!WordSize
<1>3. ASSUME NEW x, NEW y
      PROVE  /\ UvmArchitecture!BitAnd(x, y) = Architecture!BitAnd(x, y)
             /\ UvmArchitecture!BitOr(x, y) = Architecture!BitOr(x, y)
             /\ UvmArchitecture!BitXor(x, y) = Architecture!BitXor(x, y)
  <2>1. UvmArchitecture!BitAnd(x, y) = Architecture!BitAnd(x, y)
    BY DEF Architecture!BitAnd, UvmArchitecture!BitAnd, Architecture!Pack,
           UvmArchitecture!Pack, Architecture!Bit, UvmArchitecture!Bit,
           Architecture!LowByte, UvmArchitecture!LowByte, Architecture!HighByte,
           UvmArchitecture!HighByte
  <2>2. UvmArchitecture!BitOr(x, y) = Architecture!BitOr(x, y)
    BY DEF Architecture!BitOr, UvmArchitecture!BitOr, Architecture!Pack,
           UvmArchitecture!Pack, Architecture!Bit, UvmArchitecture!Bit,
           Architecture!LowByte, UvmArchitecture!LowByte, Architecture!HighByte,
           UvmArchitecture!HighByte
  <2>3. UvmArchitecture!BitXor(x, y) = Architecture!BitXor(x, y)
    BY DEF Architecture!BitXor, UvmArchitecture!BitXor, Architecture!Pack,
           UvmArchitecture!Pack, Architecture!Bit, UvmArchitecture!Bit,
           Architecture!LowByte, UvmArchitecture!LowByte, Architecture!HighByte,
           UvmArchitecture!HighByte
  <2> QED
    BY <2>1, <2>2, <2>3
<1>4. ASSUME NEW x, NEW y, NEW k
      PROVE  /\ UvmArchitecture!LogicFlags(x) = Architecture!LogicFlags(x)
             /\ UvmArchitecture!ShiftFlags(k, x) = Architecture!ShiftFlags(k, x)
             /\ UvmArchitecture!AddFlags(x, y, k) = Architecture!AddFlags(x, y, k)
             /\ UvmArchitecture!SubFlags(x, y, k) = Architecture!SubFlags(x, y, k)
  BY <1>1, <1>2
     DEF Architecture!LogicFlags, UvmArchitecture!LogicFlags,
         Architecture!ShiftFlags, UvmArchitecture!ShiftFlags, Architecture!AddFlags,
         UvmArchitecture!AddFlags, Architecture!SubFlags, UvmArchitecture!SubFlags
<1>5. /\ UvmArchitecture!ir = Architecture!ir
      /\ UvmArchitecture!op = Architecture!op
      /\ UvmArchitecture!rd = Architecture!rd
      /\ UvmArchitecture!rs = Architecture!rs
      /\ UvmArchitecture!next = Architecture!next
      /\ UvmArchitecture!extension = Architecture!extension
  BY <1>2
     DEF Architecture!ir, UvmArchitecture!ir, Architecture!op, UvmArchitecture!op,
         Architecture!rd, UvmArchitecture!rd, Architecture!rs, UvmArchitecture!rs,
         Architecture!next, UvmArchitecture!next, Architecture!extension,
         UvmArchitecture!extension
<1>6. ASSUME NEW x, NEW f PROVE Architecture!WriteResult(x, f) <=> UvmArchitecture!WriteResult(x, f)
  BY <1>5
     DEF Architecture!WriteResult, UvmArchitecture!WriteResult
<1>7. CASE Architecture!Arithmetic
  <2>1. UvmArchitecture!Arithmetic
    BY <1>1, <1>2, <1>3, <1>4, <1>5, <1>6, <1>7
       DEF Architecture!Arithmetic, UvmArchitecture!Arithmetic
  <2> QED
    BY <2>1 DEF UvmArchitecture!Step
<1>8. CASE Architecture!Logic
  <2>1. UvmArchitecture!Logic
    BY <1>1, <1>2, <1>3, <1>4, <1>5, <1>6, <1>8
       DEF Architecture!Logic, UvmArchitecture!Logic
  <2> QED
    BY <2>1 DEF UvmArchitecture!Step
<1>9. CASE Architecture!Shift
  <2>1. UvmArchitecture!Shift
    BY <1>1, <1>2, <1>3, <1>4, <1>5, <1>6, <1>9
       DEF Architecture!Shift, UvmArchitecture!Shift
  <2> QED
    BY <2>1 DEF UvmArchitecture!Step
<1>10. CASE Architecture!Move
  <2>1. UvmArchitecture!Move
    BY <1>1, <1>2, <1>3, <1>4, <1>5, <1>6, <1>10
       DEF Architecture!Move, UvmArchitecture!Move
  <2> QED
    BY <2>1 DEF UvmArchitecture!Step
<1>11. CASE Architecture!Compare
  <2>1. UvmArchitecture!Compare
    BY <1>1, <1>2, <1>3, <1>4, <1>5, <1>6, <1>11
       DEF Architecture!Compare, UvmArchitecture!Compare
  <2> QED
    BY <2>1 DEF UvmArchitecture!Step
<1>12. CASE Architecture!Branch
  <2>1. UvmArchitecture!Branch
    BY <1>1, <1>2, <1>3, <1>4, <1>5, <1>6, <1>12
       DEF Architecture!Branch, UvmArchitecture!Branch, Architecture!Take,
           UvmArchitecture!Take
  <2> QED
    BY <2>1 DEF UvmArchitecture!Step
<1>13. CASE Architecture!SetCarry
  <2>1. UvmArchitecture!SetCarry
    BY <1>1, <1>2, <1>3, <1>4, <1>5, <1>6, <1>13
       DEF Architecture!SetCarry, UvmArchitecture!SetCarry
  <2> QED
    BY <2>1 DEF UvmArchitecture!Step
<1>14. CASE Architecture!Jump
  <2>1. UvmArchitecture!Jump
    BY <1>1, <1>2, <1>3, <1>4, <1>5, <1>6, <1>14
       DEF Architecture!Jump, UvmArchitecture!Jump
  <2> QED
    BY <2>1 DEF UvmArchitecture!Step
<1>15. CASE Architecture!Immediate
  <2>1. UvmArchitecture!Immediate
    BY <1>1, <1>2, <1>3, <1>4, <1>5, <1>6, <1>15
       DEF Architecture!Immediate, UvmArchitecture!Immediate
  <2> QED
    BY <2>1 DEF UvmArchitecture!Step
<1>16. CASE Architecture!Load
  <2>1. UvmArchitecture!Load
    BY <1>1, <1>2, <1>3, <1>4, <1>5, <1>6, <1>16
       DEF Architecture!Load, UvmArchitecture!Load
  <2> QED
    BY <2>1 DEF UvmArchitecture!Step
<1>17. CASE Architecture!Store
  <2>1. UvmArchitecture!Store
    BY <1>1, <1>2, <1>3, <1>4, <1>5, <1>6, <1>17
       DEF Architecture!Store, UvmArchitecture!Store
  <2> QED
    BY <2>1 DEF UvmArchitecture!Step
<1>18. CASE Architecture!Call
  <2>1. UvmArchitecture!Call
    BY <1>1, <1>2, <1>3, <1>4, <1>5, <1>6, <1>18
       DEF Architecture!Call, UvmArchitecture!Call
  <2> QED
    BY <2>1 DEF UvmArchitecture!Step
<1>19. CASE Architecture!Return
  <2>1. UvmArchitecture!Return
    BY <1>1, <1>2, <1>3, <1>4, <1>5, <1>6, <1>19
       DEF Architecture!Return, UvmArchitecture!Return
  <2> QED
    BY <2>1 DEF UvmArchitecture!Step
<1>20. CASE Architecture!Undefined
  <2>1. UvmArchitecture!Undefined
    BY <1>1, <1>2, <1>3, <1>4, <1>5, <1>6, <1>20
       DEF Architecture!Undefined, UvmArchitecture!Undefined
  <2> QED
    BY <2>1 DEF UvmArchitecture!Step
<1> QED
  BY <1>7, <1>8, <1>9, <1>10, <1>11, <1>12, <1>13, <1>14, <1>15, <1>16, <1>17, <1>18, <1>19, <1>20 DEF Architecture!Step

LEMMA EarlyStoreSteps ==
  ASSUME IInv, execution_stage = "FETCH_SECOND_WORD", opcode = STRR, PosEdge
  PROVE  UvmArchitecture!Store
<1>1. Processor' = After(Processor)
  BY StoreBegins
<1>2. Processor \in State /\ At(Processor) = instruction
  <2>1. ~ Storing
    BY DEF Storing
  <2>2. At(Processor) = instruction
    BY <2>1, FetchedAhead
  <2>3. pc \in Word /\ 1 \in Word
    BY DEF IInv, TypeOK, Word, WordSize
  <2>4. UvmIsaPc \in Word
    BY <2>3, PlusMinusWord DEF UvmIsaPc, IsaPc
  <2> QED
    BY <2>2, <2>4 DEF IInv, TypeOK, Processor, State
<1>3. /\ After(Processor).pc = Plus(UvmIsaPc, 1) /\ After(Processor).regs = regs
      /\ After(Processor).flags = flags
      /\ After(Processor).mem
           = [mem EXCEPT ![Cell(regs[DestReg(instruction)])] = regs[SourReg(instruction)]]
  BY <1>2, StoreAfter, MemoryAfter DEF Processor, opcode
<1>4. /\ UvmIsaPc' = Plus(UvmIsaPc, 1) /\ regs' = regs /\ flags' = flags
      /\ mem' = [mem EXCEPT ![Cell(regs[DestReg(instruction)])] = regs[SourReg(instruction)]]
  BY <1>1, <1>3 DEF Processor
<1>5. mem[Cell(UvmIsaPc)] = instruction
  BY <1>2 DEF At, Processor
<1>6. UvmArchitecture!ir = instruction
  BY <1>5 DEF UvmArchitecture!ir, UvmArchitecture!IsaCell, Cell
<1>7. /\ UvmArchitecture!op = STRR /\ UvmArchitecture!STRR = STRR
      /\ UvmArchitecture!rd = DestReg(instruction) /\ UvmArchitecture!rs = SourReg(instruction)
  BY <1>6 DEF UvmArchitecture!op, UvmArchitecture!rd, UvmArchitecture!rs,
     UvmArchitecture!Opcode, Opcode, UvmArchitecture!STRR, STRR, opcode,
     UvmArchitecture!DestReg, DestReg, UvmArchitecture!SourReg, SourReg
<1>8. UvmArchitecture!next = Plus(UvmIsaPc, 1) /\ \A x : UvmArchitecture!IsaCell(x) = Cell(x)
  BY DEF UvmArchitecture!next, UvmArchitecture!Plus, Plus, UvmArchitecture!WordSize, WordSize,
     UvmArchitecture!IsaCell, Cell
<1> QED
  BY <1>4, <1>7, <1>8 DEF UvmArchitecture!Store

LEMMA UvmStepRefines ==
  CoreInv /\ [UvmNext]_uvmVars => [UvmArchitecture!IsaNext]_(UvmArchitecture!isaVars)
<1> SUFFICES ASSUME CoreInv, [UvmNext]_uvmVars
             PROVE  UvmArchitecture!Step \/ UNCHANGED UvmArchitecture!isaVars
  BY DEF UvmArchitecture!IsaNext
<1>1. CASE Processor' = Processor
  BY <1>1 DEF Processor, UvmArchitecture!isaVars
<1>2. CASE UNCHANGED vars
  BY <1>2 DEF vars, UvmArchitecture!isaVars, UvmIsaPc, IsaPc, opcode, Fetched, offset, Single
<1>3. CASE PosEdge /\ Processor' # Processor
  <2>1. execution_stage \in Stages
    BY DEF CoreInv, TypeOK
  <2>2. CASE Samples
    <3>1. ~ Ahead
      BY <1>3, <2>2, Retires
    <3>2. IInv /\ ~ Storing /\ execution_stage \in {"EXECUTE_SINGLE", "EXECUTE_DOUBLE"}
      BY <2>2, <3>1 DEF Ahead, CoreInv, Samples
    <3>3. Edge(execution_stage) /\ ~ Storing'
      BY <1>3, <3>2, OrdinaryEdge
    <3>4. Architecture!Step
      BY <3>2, <3>3, ExecuteSingleSteps, ExecuteDoubleSteps DEF ExecuteSingle, ExecuteDouble
    <3> QED
      BY <3>2, <3>3, <3>4, SameArchitecture DEF UvmIsaPc, Storing
  <2>3. CASE execution_stage = "SAVE_RETURN_ADDRESS"
    <3>1. IInv /\ ~ Storing
      BY <2>3 DEF Storing, CoreInv
    <3>2. Edge(execution_stage) /\ ~ Storing'
      BY <1>3, <2>3, <3>1, OrdinaryEdge
    <3>3. Architecture!Step
      BY <2>3, <3>1, <3>2, SaveReturnAddressCalls DEF SaveReturnAddress, Architecture!Step
    <3> QED
      BY <3>1, <3>2, <3>3, SameArchitecture DEF UvmIsaPc, Storing
  <2>4. CASE execution_stage = "FETCH_SECOND_WORD" /\ opcode = STRR
    <3>1. IInv
      BY <2>4 DEF Storing, CoreInv
    <3> QED
      BY <1>3, <2>4, <3>1, EarlyStoreSteps DEF UvmArchitecture!Step
  <2> QED
    BY <1>3, <2>1, <2>2, <2>3, <2>4, Fetches DEF Stages, Samples
<1> QED
  BY <1>1, <1>2, <1>3 DEF UvmNext, RunReference, Cycle, TimeOut, uvmVars

(* With the memory of the interface, written one edge early, the processor *)
(* still implements the instruction set.                                   *)
THEOREM EarlyWriteCorrect == UvmSpec => EarlyWriteImplementsIsa
<1>1. UvmInit => UvmArchitecture!IsaInit
  BY SameCodes DEF UvmInit, Init, Cleared, UvmIsaPc, IsaPc, UvmArchitecture!IsaInit,
     UvmArchitecture!Reg, Reg
<1>2. UvmInv => CoreInv
  BY DEF UvmInv, ProcInv
<1> QED
  BY <1>1, <1>2, UvmStepRefines, UvmInvariance, PTL
     DEF UvmSpec, EarlyWriteImplementsIsa, UvmArchitecture!IsaSpec
=============================================================================
