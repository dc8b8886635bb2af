------------------------------- MODULE CoreTb --------------------------------
(***************************************************************************)
(* tb/cpu_core_tb.sv: runs a program to its halt loop, logs a row for each *)
(* instruction it sees retire and writes a summary; and what is made of    *)
(* both by model/compare_results.py with the files of the reference model, *)
(* which ran on the same program before.                                   *)
(***************************************************************************)
EXTENDS ReferenceRun, BenchCounters

CONSTANTS
  CoreTbPrograms,   \* the programs it is given
  MAX_CYCLES,       \* 300
  NoFile

ASSUME CoreTbProgramsAssumption == CoreTbPrograms \subseteq Programs
ASSUME SameThresholdAssumption == halt_repeat_threshold = HALT_REPEAT_THRESHOLD

VARIABLES
  tb_trace,      \* rows logged so far
  tb_summary,    \* <<>> until the simulation ends
  report         \* of compare_results.py; <<>> before

tbVars == <<cycle_count, halt_repeat_count, tb_trace, tb_summary>>
coreTbVars == <<vars, reference, tbVars, report>>

(* Names in the files: registers, and the others. *)
Register(i) == <<"r", i>>
Field(name) == <<name, 0>>

Registers == {Register(i) : i \in Reg}
StateNames == {Field(name) : name \in {"pc", "c", "z", "v", "s"}}

Comparison == INSTANCE CompareResults WITH Keys   <- Registers \cup StateNames,
                                           Fields <- Registers \cup StateNames
                                                       \cup {Field("addr"), Field("ir")}

(* The values of the state after an instruction, under their names. *)
Named(names, p, r, f) ==
  [name \in names |->
    CASE name \in Registers                 -> r[name[2]]
      [] name = Field("pc")                  -> p
      [] name \in StateNames \ {Field("pc")} -> f[name[1]]]

(* The same, with a value under one more name. *)
With(values, name, value) ==
  [n \in DOMAIN values \cup {name} |-> IF n \in DOMAIN values THEN values[n] ELSE value]

(* A word as four hexadecimal digits, of which some may be letters. *)
Digits(w) == {(w \div 4096) % 16, (w \div 256) % 16, (w \div 16) % 16, w % 16}

Hex(w, letters) == <<w, IF \E digit \in Digits(w) : digit > 9 THEN letters ELSE "none">>

(* A summary writes words in hexadecimal and flags as they are. *)
Written(values, letters) ==
  [name \in DOMAIN values |->
    IF name \in Registers \cup {Field("pc")} THEN Hex(values[name], letters)
    ELSE <<values[name], "none">>]

-----------------------------------------------------------------------------
(* Reset is raised at an edge that stage machine and counter see or not.   *)
CoreTbInit ==
  /\ execution_stage \in {"RESET_INIT", "FETCH_ADDRESS"}
  /\ Cleared("RESET_INIT", instruction, flags, pc, regs, address_bus)
  /\ mem \in CoreTbPrograms
  /\ refMem = mem
  /\ Reference!ReferenceInit
  /\ cycle_count \in {0, 1}
  /\ halt_repeat_count = 0
  /\ tb_trace = <<>>
  /\ tb_summary = <<>>
  /\ report = <<>>

RunReference ==
  /\ Reference!ReferenceNext
  /\ UNCHANGED <<vars, tbVars, report>>

(* As if the edge that enters an execute stage retired it. *)
RetiredOnEntry == execution_stage' \in {"EXECUTE_SINGLE", "EXECUTE_DOUBLE"}

(* The stage at the falling edge before. *)
Retired == execution_stage \in {"EXECUTE_SINGLE", "EXECUTE_DOUBLE"}

(* What log_trace prints: five registers, and no address. *)
Logged == {Register(i) : i \in 0 .. 4} \cup StateNames

Row == With(Named(Logged, pc', regs', flags'), Field("ir"), instruction')

log_trace == tb_trace' = IF Retired THEN Append(tb_trace, Row) ELSE tb_trace

NextRepeats ==
  IF ~Retired THEN halt_repeat_count
  ELSE IF instruction' = \h40FF THEN halt_repeat_count + 1 ELSE 0

HaltSeen == Retired /\ NextRepeats >= HALT_REPEAT_THRESHOLD

TimedOut == cycle_count' >= MAX_CYCLES

(* finish_pass expects the product of the one program it was written for.  *)
AsExpected == regs'[2] = 150 /\ regs'[1] = 0 /\ regs'[3] = 0

(* finish_pass takes until after the next edge and then asks for the end;  *)
(* the simulator may look at the time limit once more and write FAIL over. *)
Results ==
  IF HaltSeen /\ AsExpected
  THEN {"PASS"} \cup (IF cycle_count' + 1 >= MAX_CYCLES THEN {"FAIL"} ELSE {})
  ELSE {"FAIL"}

(* write_summary repeats the last row that was logged. *)
Summary(rows, result) ==
  LET last == rows[Len(rows)]
      values == IF rows = <<>> THEN Named(Logged, pc', regs', flags') ELSE [n \in Logged |-> last[n]]
  IN  With(Written(values, "lower"), Field("result"), result)

TbCycle ==
  /\ refOutcome # "running"
  /\ tb_summary = <<>>
  /\ Clock
  /\ cycle_count' = cycle_count + 1
  /\ log_trace
  /\ halt_repeat_count' = NextRepeats
  /\ IF HaltSeen \/ TimedOut
     THEN \E result \in Results : tb_summary' = Summary(tb_trace', result)
     ELSE UNCHANGED tb_summary
  /\ UNCHANGED <<reference, report>>

(* The rows and the summary of reference_model.py. *)
ReferenceRows ==
  [i \in DOMAIN files.trace |->
    With(With(Named(Registers \cup StateNames, files.trace[i].pc, files.trace[i].regs,
                    files.trace[i].flags),
              Field("addr"), files.trace[i].addr),
         Field("ir"), files.trace[i].ir)]

ReferenceSummary ==
  Written(Named(Registers \cup StateNames, files.summary.pc, files.summary.regs,
                files.summary.flags), "upper")

Compare ==
  /\ tb_summary # <<>>
  /\ files # <<>>
  /\ report = <<>>
  /\ report' = Comparison!Report(tb_summary, ReferenceSummary, tb_trace, ReferenceRows)
  /\ UNCHANGED <<vars, reference, tbVars>>

CoreTbNext == RunReference \/ TbCycle \/ Compare

CoreTbSpec == CoreTbInit /\ [][CoreTbNext]_coreTbVars

-----------------------------------------------------------------------------
(* The rows the bench can log of a trace: it does not see calls retire. *)
Visible ==
  LET seen[n \in 0 .. Len(trace)] ==
        IF n = 0 THEN <<>>
        ELSE IF Opcode(trace[n].ir) = CALLA THEN seen[n - 1]
        ELSE Append(seen[n - 1], trace[n])
  IN  seen[Len(trace)]

Agrees(row, ref) ==
  row = With(Named(Logged, ref.pc, ref.regs, ref.flags), Field("ir"), ref.ir)

(***************************************************************************)
(* The bench logs what the reference did, in its order, with nothing left  *)
(* out but the calls; a simulation that passes has gone exactly as far as  *)
(* a reference that halts; and compare_results.py finds no value of it     *)
(* that differs: what it reports are the registers the bench does not      *)
(* write and words whose digits the bench writes in lower case.            *)
(***************************************************************************)
RowsAgree ==
  LET rows == Visible
  IN  \A i \in 1 .. Len(tb_trace) : i <= Len(rows) => Agrees(tb_trace[i], rows[i])

ReportsNoValue ==
  report # <<>> =>
    \A key \in report.mismatch_fields :
      key \in DOMAIN tb_summary => tb_summary[key][2] = "lower"

RowsOfReference ==
  /\ RowsAgree
  /\ tb_summary # <<>> /\ tb_summary[Field("result")] = "PASS" =>
       /\ refOutcome = "halted" => Len(tb_trace) = Len(Visible)
       /\ ReportsNoValue
=============================================================================
