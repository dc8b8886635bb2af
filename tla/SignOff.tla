------------------------------- MODULE SignOff -------------------------------
(***************************************************************************)
(* scripts/generate_signoff_reports.py: reads what a regression has left   *)
(* on disk and writes five reports, one file after the other.  A bin is    *)
(* either hit or not; wording and layout are left out.                     *)
(***************************************************************************)
EXTENDS Sequences, FiniteSets, Integers

CONSTANTS
  SIGNOFF_ISA,   \* the instructions that are signed off
  INSTR_BINS,    \* the bins each of them needs
  Bins,          \* all bins of the coverage collector
  Listed,        \* the tests of testlist.txt
  Kind,          \* "directed", "corner" or "smoke", by listed test
  Opcodes        \* the instructions that occur in the text of each test

VARIABLES
  coverage,        \* reports/coverage/*.json: the bins hit, by test
  random_dir,      \* the generated rand_*.asm files
  results,         \* lines of regression_summary.txt
  history,         \* closure_history.json
  code_coverage,   \* status in code_coverage/summary.json, "absent" if no file
  loaded,          \* what the script has read, Nothing while it does not run
  reports          \* the reports on disk, by name

inputs       == <<coverage, random_dir, results, history, code_coverage>>
signOffVars  == <<inputs, loaded, reports>>

Nothing == [running |-> FALSE]

(* In the order they are written. *)
ReportOrder == <<"aggregate_bins", "coverage_summary", "coverage_closure",
                 "instruction_verification_matrix", "final_verification_summary">>

(* Mentions of a test in a set of entries, by the opcodes of its text. *)
Mentioning(tests, instruction) == {t \in tests : instruction \in Opcodes[t]}

(* A file is written, or written again. *)
Put(files, name, content) ==
  [n \in DOMAIN files \cup {name} |-> IF n = name THEN content ELSE files[n]]

Entries(kind) == {t \in Listed : Kind[t] = kind}

(* The bins with a hit in any report. *)
Aggregate(cov) == UNION {cov[t] : t \in DOMAIN cov}

(* load_*: the other *.json files of the directory have no "bins" and are  *)
(* left out.                                                               *)
Read ==
  [running |-> TRUE,
   written |-> 0,
   tests   |-> DOMAIN coverage,
   covered |-> IF coverage = <<>> THEN {} ELSE Aggregate(coverage),
   total   |-> IF coverage = <<>> THEN {} ELSE Bins,
   randoms |-> random_dir,
   results |-> results,
   history |-> history,
   code    |-> IF code_coverage = "absent" THEN "not_run" ELSE code_coverage]

(* Hundredths of a percent; a hundred percent of nothing. *)
functional_coverage(r) ==
  IF r.total = {} THEN 10000 ELSE (10000 * Cardinality(r.covered)) \div Cardinality(r.total)

Uncovered(r) == r.total \ r.covered

(* As if the corner tests counted as directed ones. *)
FinalStatusAnyTest(r, i) ==
  IF INSTR_BINS[i] \subseteq r.covered /\ Mentioning(Listed \cup r.randoms, i) # {}
  THEN "PASS" ELSE "PARTIAL"

FinalStatus(r, i) ==
  IF INSTR_BINS[i] \subseteq r.covered /\ Mentioning(Entries("directed"), i) # {}
  THEN "PASS" ELSE "PARTIAL"

MatrixRow(r, i) ==
  [directed |-> Mentioning(Entries("directed"), i),
   corners  |-> Mentioning(Entries("corner"), i),
   randoms  |-> Mentioning(r.randoms, i),
   hit_bins |-> INSTR_BINS[i] \cap r.covered,
   status   |-> FinalStatus(r, i)]

Passed(lines) == {i \in DOMAIN lines : lines[i].verdict = "PASS"}

(* What main writes into a report. *)
Content(r, name) ==
  CASE name = "aggregate_bins" ->
         [covered |-> r.covered, total |-> r.total, uncovered |-> Uncovered(r)]
    [] name = "coverage_summary" ->
         [tests |-> r.tests, covered |-> r.covered, total |-> r.total,
          percent |-> functional_coverage(r)]
    [] name = "coverage_closure" ->
         [percent |-> functional_coverage(r), history |-> r.history,
          uncovered |-> Uncovered(r), code |-> r.code]
    [] name = "instruction_verification_matrix" ->
         [i \in SIGNOFF_ISA |-> MatrixRow(r, i)]
    [] name = "final_verification_summary" ->
         [entries |-> Len(r.results), passed |-> Cardinality(Passed(r.results)),
          percent |-> functional_coverage(r), code |-> r.code]

(* The file the script is about to write. *)
Current == ReportOrder[loaded.written + 1]

(* The script starts: all inputs but the texts of the tests are read now.  *)
StartSignOff ==
  /\ ~loaded.running
  /\ loaded' = Read
  /\ UNCHANGED <<inputs, reports>>

WriteReport ==
  /\ loaded.running
  /\ loaded.written < Len(ReportOrder)
  /\ reports' = Put(reports, Current, Content(loaded, Current))
  /\ loaded' = [loaded EXCEPT !.written = @ + 1]
  /\ UNCHANGED inputs

EndSignOff ==
  /\ loaded.running
  /\ loaded.written = Len(ReportOrder)
  /\ loaded' = Nothing
  /\ UNCHANGED <<inputs, reports>>

SignOffStep ==
  \/ StartSignOff
  \/ WriteReport
  \/ EndSignOff
=============================================================================
