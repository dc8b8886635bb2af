----------------------------- MODULE Regression ------------------------------
(***************************************************************************)
(* scripts/run_regression.sh around run_single_test.sh, the sign-off and   *)
(* merge_code_coverage.sh.  The shell runs with set -euo pipefail: the     *)
(* first failing command ends it and leaves the disk as it is.  It may be  *)
(* interrupted anywhere and started again with other counts.               *)
(***************************************************************************)
EXTENDS SignOff, Functions

CONSTANTS
  TestOrder,       \* testlist.txt, a sequence of the tests in Listed
  RandomRuns,      \* names of generated tests, by RANDOM_COUNT: sequences
  TargetedRuns,    \* the same for TARGETED_RANDOM_COUNT
  Hits,            \* the sets of bins a run of a test may hit, by test
  rg_installed,    \* the command that searches the logs is there
  MaxRegressions   \* bound on how often the script is started

VARIABLES
  phase,      \* where the script is
  queue,      \* tests still to run in this phase
  clean,      \* what was really run without errors, and the bins it hit
  starts      \* how often the script was started

scriptVars == <<phase, queue, clean, starts>>
regressionVars == <<signOffVars, scriptVars>>

AtRest == {"idle", "completed", "aborted"}

(***************************************************************************)
(* testlist.txt names every test once, and the generated names rand_<seed> *)
(* and rand_cov_<seed> differ by their seeds and from those listed: a name *)
(* that came twice would have two lines and one coverage file.  A test     *)
(* hits bins of the collector.                                             *)
(***************************************************************************)
ASSUME TestsAssumption ==
  /\ TestOrder \in Seq(Listed)
  /\ TestOrder # <<>>
  /\ Range(TestOrder) = Listed
  /\ IsInjective(TestOrder)

ASSUME GeneratedAssumption ==
  /\ \A s \in RandomRuns \cup TargetedRuns :
       /\ s \in Seq(Range(s))
       /\ IsInjective(s)
       /\ Range(s) \cap Listed = {}
  /\ \A s \in RandomRuns, t \in TargetedRuns : Range(s) \cap Range(t) = {}

RegressionTests == Listed \cup UNION {Range(s) : s \in RandomRuns \cup TargetedRuns}

ASSUME HitsAssumption == \A t \in RegressionTests : Hits[t] \subseteq SUBSET Bins

RegressionInit ==
  /\ coverage = <<>>
  /\ random_dir = {}
  /\ results = <<>>
  /\ history = <<>>
  /\ code_coverage = "absent"
  /\ loaded = Nothing
  /\ reports = <<>>
  /\ phase = "idle"
  /\ queue = <<>>
  /\ clean = <<>>
  /\ starts = 0

(* As if the coverage of earlier runs were not removed. *)
CoverageKept == coverage

CoverageAfterCleaning == <<>>

(* rm of the results and of every json file, the aggregate included; the   *)
(* generated tests and the other reports stay.                             *)
Start ==
  /\ phase \in AtRest
  /\ ~loaded.running
  /\ starts < MaxRegressions
  /\ starts' = starts + 1
  /\ coverage' = CoverageAfterCleaning
  /\ results' = <<>>
  /\ history' = <<>>
  /\ code_coverage' = "absent"
  /\ reports' = [name \in DOMAIN reports \ {"aggregate_bins"} |-> reports[name]]
  /\ clean' = <<>>
  /\ phase' = "generate"
  /\ UNCHANGED <<random_dir, loaded, queue>>

GenerateAndCompile ==
  /\ phase = "generate"
  /\ \E randoms \in RandomRuns :
       /\ random_dir' = random_dir \cup Range(randoms)
       /\ queue' = TestOrder \o randoms
  /\ phase' = "tests"
  /\ UNCHANGED <<coverage, results, history, code_coverage, loaded, reports, clean, starts>>

(* As if the log were not searched. *)
VerdictWithoutSearch(errors) == "PASS"

(* A search that cannot run counts as one that finds nothing.              *)
Verdict(errors) == IF rg_installed /\ errors THEN "FAIL" ELSE "PASS"

Testing == phase \in {"tests", "targeted_tests"} /\ queue # <<>>

(* A simulation that ends.  A FAIL makes run_single_test.sh fail, and with *)
(* it the pipe, before the line is recorded; its coverage may be on disk.  *)
RunOneTest ==
  /\ Testing
  /\ \E hits \in Hits[Head(queue)], errors \in BOOLEAN :
       LET test == Head(queue)
           line == [test |-> test, verdict |-> Verdict(errors)]
       IN  \/ /\ line.verdict = "PASS"
              /\ coverage' = Put(coverage, test, hits)
              /\ results' = Append(results, line)
              /\ clean' = IF errors THEN clean ELSE Put(clean, test, hits)
              /\ queue' = Tail(queue)
              /\ UNCHANGED phase
           \/ /\ line.verdict = "FAIL"
              /\ coverage' \in {coverage, Put(coverage, test, hits)}
              /\ phase' = "aborted"
              /\ UNCHANGED <<results, clean, queue>>
  /\ UNCHANGED <<random_dir, history, code_coverage, loaded, reports, starts>>

(* A command fails (the assembler, the reference model, the compiler) or   *)
(* the script is interrupted, also while the sign-off writes.              *)
Abort ==
  /\ phase \notin AtRest
  /\ phase' = "aborted"
  /\ loaded' = Nothing
  /\ UNCHANGED <<inputs, reports, queue, clean, starts>>

TestsDone ==
  /\ queue = <<>>
  /\ \/ phase = "tests" /\ phase' = "baseline_report"
     \/ phase = "targeted_tests" /\ phase' = "targeted_report"
  /\ UNCHANGED <<signOffVars, queue, clean, starts>>

ReportPhases == {"baseline_report", "targeted_report", "final_report"}

AfterReport ==
  CASE phase = "baseline_report" -> "baseline"
    [] phase = "targeted_report" -> "targeted_random"
    [] phase = "final_report"    -> "completed"

Report ==
  /\ phase \in ReportPhases
  /\ \/ StartSignOff /\ UNCHANGED phase
     \/ WriteReport /\ UNCHANGED phase
     \/ EndSignOff /\ phase' = AfterReport
  /\ UNCHANGED <<queue, clean, starts>>

(* record_history, from the aggregate on disk; then the targeted tests, at *)
(* most once.                                                              *)
RecordHistory ==
  /\ phase \in {"baseline", "targeted_random"}
  /\ history' = Append(history, [name |-> phase, covered |-> reports["aggregate_bins"].covered])
  /\ phase' = IF phase = "baseline" THEN "decide" ELSE "merge"
  /\ UNCHANGED <<coverage, random_dir, results, code_coverage, loaded, reports,
                 queue, clean, starts>>

GenerateTargeted ==
  /\ phase = "decide"
  /\ \E randoms \in TargetedRuns :
       IF reports["aggregate_bins"].uncovered # {} /\ randoms # <<>>
       THEN /\ random_dir' = random_dir \cup Range(randoms)
            /\ queue' = randoms
            /\ phase' = "targeted_tests"
       ELSE /\ phase' = "merge"
            /\ UNCHANGED <<random_dir, queue>>
  /\ UNCHANGED <<coverage, results, history, code_coverage, loaded, reports, clean, starts>>

(* As if closure were waited for. *)
MergeWhenClosed ==
  /\ phase = "merge"
  /\ reports["aggregate_bins"].uncovered = {}
  /\ code_coverage' \in {"not_run", "environment_limited", "available"}
  /\ phase' = "final_report"
  /\ UNCHANGED <<coverage, random_dir, results, history, loaded, reports, queue, clean, starts>>

MergeCodeCoverage ==
  /\ phase = "merge"
  /\ code_coverage' \in {"not_run", "environment_limited", "available"}
  /\ phase' = "final_report"
  /\ UNCHANGED <<coverage, random_dir, results, history, loaded, reports, queue, clean, starts>>

Script ==
  \/ GenerateAndCompile
  \/ RunOneTest
  \/ TestsDone
  \/ Report
  \/ RecordHistory
  \/ GenerateTargeted
  \/ MergeCodeCoverage

RegressionNext ==
  \/ Start
  \/ Script
  \/ Abort

(* Every simulation ends by its own time-out, so that the script goes on.  *)
RegressionSpec ==
  RegressionInit /\ [][RegressionNext]_regressionVars /\ WF_regressionVars(Script)

-----------------------------------------------------------------------------
(***************************************************************************)
(* A line of the results, and coverage in a report, exist only for tests   *)
(* of this start of the script whose simulation reported no error.         *)
(***************************************************************************)
OnlyCleanTestsCount ==
  phase \notin AtRest =>
    /\ \A i \in DOMAIN results : results[i].verdict = "PASS"
    /\ {results[i].test : i \in DOMAIN results} = DOMAIN clean
    /\ loaded.running => loaded.tests \subseteq DOMAIN clean

(***************************************************************************)
(* When the script has completed, its five reports were written from one   *)
(* state of the disk, and that is the state this start of it produced:     *)
(* nothing of an earlier, failed or interrupted regression is counted, the *)
(* uncovered bins are those no clean test has hit (the bins that belong to *)
(* no instruction included), and no entry of the closure history covers    *)
(* less than an earlier one.                                               *)
(***************************************************************************)
CoverageNeverShrinks ==
  \A i, j \in DOMAIN history : i <= j => history[i].covered \subseteq history[j].covered

CompletedReportsOfThisRun ==
  phase = "completed" =>
    /\ reports["coverage_summary"].tests = DOMAIN clean
    /\ reports["coverage_summary"].covered = Aggregate(clean)
    /\ reports["aggregate_bins"].uncovered = Bins \ Aggregate(clean)
    /\ reports["coverage_closure"].uncovered = Bins \ Aggregate(clean)
    /\ reports["coverage_closure"].history = history
    /\ CoverageNeverShrinks
    /\ reports["final_verification_summary"].entries = Cardinality(DOMAIN clean)
    /\ reports["final_verification_summary"].passed = Cardinality(DOMAIN clean)
    /\ reports["final_verification_summary"].code = code_coverage

(***************************************************************************)
(* An instruction is signed off only if a directed test that mentions it   *)
(* passed in this start of the script and its tests hit all its bins;      *)
(* generated tests left behind by earlier starts do not count.             *)
(***************************************************************************)
SignedOffWasTested ==
  phase = "completed" =>
    \A i \in SIGNOFF_ISA :
      reports["instruction_verification_matrix"][i].status = "PASS" =>
        /\ \E t \in DOMAIN clean \cap Entries("directed") : i \in Opcodes[t]
        /\ INSTR_BINS[i] \subseteq Aggregate(clean)

(* A regression that was started ends, also when some bin cannot be hit.   *)
RegressionEnds == phase \notin AtRest ~> phase \in AtRest
=============================================================================
