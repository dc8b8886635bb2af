--------------------------- MODULE ReferenceModel ----------------------------
(***************************************************************************)
(* model/reference_model.py as a program: CpuModel.run with its step limit *)
(* and halt detection, the trace and the events it keeps, and the files    *)
(* main writes after a run that ended well.  The instructions are those of *)
(* Isa; a word it does not define ends the run with an error.              *)
(***************************************************************************)
EXTENDS Isa, Sequences

CONSTANTS
  max_steps,               \* bound of the run: 2048 in run_reference.sh
  halt_repeat_threshold    \* retirements of 40FF that end it: 3

VARIABLES
  steps,
  self_loop_retire_count,
  outcome,   \* "running", "halted", "error"
  trace,     \* one row per retired instruction
  events,    \* one event per retired instruction
  files      \* trace, events and summary on disk; <<>> before

runVars == <<steps, self_loop_retire_count, outcome, trace, events, files>>
referenceVars == <<isaVars, runVars>>

SelfLoop == \h40FF

ReferenceInit ==
  /\ IsaInit
  /\ steps = 0
  /\ self_loop_retire_count = 0
  /\ outcome = "running"
  /\ trace = <<>>
  /\ events = <<>>
  /\ files = <<>>

(* _trace, called when the instruction has been executed. *)
Row == [addr |-> pc, pc |-> pc', ir |-> ir, regs |-> regs', flags |-> flags']

Conditional == Branches \ {JR}

Size(opc) == IF opc \in Extended THEN 2 ELSE 1

(* A conditional branch is called taken when it did not fall through. *)
branch_taken ==
  IF op \in Conditional
  THEN pc' # (pc + Size(op)) % WordSize
  ELSE op \in {JR, JMPA, CALLA, RET}

MemoryEvent ==
  CASE op = LDRR -> [kind |-> "READ", addr |-> IsaCell(regs[rs]), data |-> mem[IsaCell(regs[rs])]]
    [] op = STRR -> [kind |-> "WRITE", addr |-> IsaCell(regs[rd]), data |-> regs[rs]]
    [] op \notin {LDRR, STRR} -> [kind |-> "none"]

(* As if the flags before it were the register itself. *)
EventOfAlias ==
  [instr_addr   |-> pc,
   pc_after     |-> pc',
   ir           |-> ir,
   flags_before |-> flags',
   flags_after  |-> flags',
   branch_taken |-> branch_taken,
   access       |-> MemoryEvent]

(* _emit_event: the flags before it are a copy taken at the fetch. *)
Event ==
  [instr_addr   |-> pc,
   pc_after     |-> pc',
   ir           |-> ir,
   flags_before |-> flags,
   flags_after  |-> flags',
   branch_taken |-> branch_taken,
   access       |-> MemoryEvent]

(* As if every unconditional branch were the halt loop. *)
SelfLoopsByOpcode == IF op = JR THEN self_loop_retire_count + 1 ELSE 0

SelfLoopsInARow == IF ir = SelfLoop THEN self_loop_retire_count + 1 ELSE 0

(* One turn of the loop of run. *)
RunStep ==
  /\ outcome = "running"
  /\ steps < max_steps
  /\ op \in Defined
  /\ Step
  /\ trace' = Append(trace, Row)
  /\ events' = Append(events, Event)
  /\ steps' = steps + 1
  /\ self_loop_retire_count' = SelfLoopsInARow
  /\ outcome' = IF self_loop_retire_count' >= halt_repeat_threshold THEN "halted" ELSE "running"
  /\ UNCHANGED files

UnsupportedOpcode ==
  /\ outcome = "running"
  /\ steps < max_steps
  /\ op \notin Defined
  /\ pc' = next
  /\ outcome' = "error"
  /\ UNCHANGED <<regs, flags, mem, steps, self_loop_retire_count, trace, events, files>>

(* As if a program in its halt loop were given more time. *)
ExceedMaxStepsUnlessLooping ==
  /\ outcome = "running"
  /\ steps = max_steps
  /\ ir # SelfLoop
  /\ outcome' = "error"
  /\ UNCHANGED <<isaVars, steps, self_loop_retire_count, trace, events, files>>

ExceedMaxSteps ==
  /\ outcome = "running"
  /\ steps = max_steps
  /\ outcome' = "error"
  /\ UNCHANGED <<isaVars, steps, self_loop_retire_count, trace, events, files>>

(* main: an error has ended the program before this. *)
WriteFiles ==
  /\ outcome = "halted"
  /\ files = <<>>
  /\ files' = [trace   |-> trace,
               events  |-> events,
               summary |-> [steps |-> steps, pc |-> pc, regs |-> regs, flags |-> flags]]
  /\ UNCHANGED <<isaVars, steps, self_loop_retire_count, outcome, trace, events>>

ReferenceNext ==
  \/ RunStep
  \/ UnsupportedOpcode
  \/ ExceedMaxSteps
  \/ WriteFiles

(* The interpreter runs until main returns. *)
ReferenceSpec ==
  ReferenceInit /\ [][ReferenceNext]_referenceVars /\ WF_referenceVars(ReferenceNext)

-----------------------------------------------------------------------------
Last(s) == s[Len(s)]

(***************************************************************************)
(* What the scoreboard relies on: the files exist only for a program that  *)
(* has come to rest (executing on would change nothing any more), and the  *)
(* summary is the state after the last row of the trace.                   *)
(***************************************************************************)
FilesOfHaltedProgram ==
  files # <<>> =>
    /\ mem[IsaCell(pc)] = SelfLoop
    /\ \A i \in 0 .. halt_repeat_threshold - 1 :
         files.trace[Len(files.trace) - i].pc = pc
    /\ Len(files.trace) = files.summary.steps
    /\ Last(files.trace).pc = files.summary.pc
    /\ Last(files.trace).regs = files.summary.regs
    /\ Last(files.trace).flags = files.summary.flags

(***************************************************************************)
(* The events alone tell the run: each starts where the previous one ended *)
(* with the flags it left, a read returns what was last written there, and *)
(* a conditional branch is reported as taken exactly when its condition    *)
(* held, unless it leads to the next instruction anyway.                   *)
(***************************************************************************)
Writes(n) == {i \in 1 .. n : events[i].access.kind = "WRITE"}

EventsAreChained ==
  \A i \in 1 .. Len(events) - 1 :
    /\ events[i + 1].instr_addr = events[i].pc_after
    /\ events[i + 1].flags_before = events[i].flags_after

ReadsReturnWrites ==
  \A i \in Writes(Len(events)) :
    LET a == events[i].access.addr
        later == {j \in Writes(Len(events)) : j > i /\ events[j].access.addr = a}
        upto  == IF later = {} THEN Len(events) ELSE CHOOSE j \in later : \A k \in later : j <= k
    IN  /\ later = {} => mem[a] = events[i].access.data
        /\ \A j \in i + 1 .. upto :
             events[j].access.kind = "READ" /\ events[j].access.addr = a =>
               events[j].access.data = events[i].access.data

Held(e) ==
  LET opc == Opcode(e.ir)
      f == e.flags_before
  IN  \/ opc = JRS  /\ f.s = 1
      \/ opc = JRNS /\ f.s = 0
      \/ opc = JRC  /\ f.c = 1
      \/ opc = JRNC /\ f.c = 0
      \/ opc = JRZ  /\ f.z = 1
      \/ opc = JRNZ /\ f.z = 0

TakenAsConditionHeld ==
  \A i \in DOMAIN events :
    LET e == events[i]
    IN  Opcode(e.ir) \in Conditional => (e.branch_taken <=> Held(e) /\ Imm8(e.ir) # 0)

EventsTellTheRun == EventsAreChained /\ ReadsReturnWrites /\ TakenAsConditionHeld
=============================================================================
