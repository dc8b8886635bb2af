---------------------------- MODULE Testbenches -----------------------------
(***************************************************************************)
(* A simulation elaborates one of the benches around the processor: the    *)
(* debugger tb/tb_top.sv, tb/basic_cpu_tb.sv, tb/cpu_core_tb.sv or the     *)
(* lock-step comparison verilator_tb/diff_main.cpp; or no processor at     *)
(* all, when model/compare_results.py is given the files of another        *)
(* simulation.  The variables of the other benches then keep their values. *)
(***************************************************************************)
EXTENDS Debugger, DiffTb, CoreTb

CONSTANTS
  Benches,                                       \* the benches that are run
  BasicDepth, BasicPrograms, StepTargets,
  Values, MaxRows                                \* of files given for comparison

VARIABLES
  bench,
  step_mode, step_target, retired, stopped,               \* basic_cpu_tb
  compared                                                \* the given files

Basic == INSTANCE BasicTb WITH MemDepth <- BasicDepth, Programs <- BasicPrograms

basicOnly == <<step_mode, step_target, retired, stopped>>
coreOnly  == <<reference, tb_trace, tb_summary>>
diffOnly  == <<golden, loop>>
debuggerOnly == <<clk, prev_stage, breakpoints, halted, last_stop_reason, command>>
benchesVars ==
  <<bench, debuggerVars, basicOnly, coreOnly, report, diffOnly, compared>>

-----------------------------------------------------------------------------
(* The variables of a bench that is not there.                             *)
NoDebugger ==
  /\ clk = 0
  /\ prev_stage = "RESET_INIT"
  /\ breakpoints = {}
  /\ halted = FALSE
  /\ last_stop_reason = "NONE"
  /\ command = Idle

NoBasic ==
  /\ step_mode = "none" /\ step_target = 0
  /\ retired = 0
  /\ stopped = "not run"

NoCore ==
  /\ refPc = 0 /\ refRegs = <<>> /\ refFlags = <<>> /\ refMem = <<>>
  /\ steps = 0 /\ self_loop_retire_count = 0
  /\ refOutcome = "not run"
  /\ trace = <<>> /\ events = <<>> /\ files = <<>>
  /\ tb_trace = <<>> /\ tb_summary = <<>>

NoDiff ==
  /\ goldenPc = 0 /\ goldenRegs = <<>> /\ goldenFlags = <<>> /\ goldenMem = <<>>
  /\ was_retire = FALSE
  /\ retires = 0 /\ mismatches = 0 /\ halt_streak = 0 /\ cyc = 0
  /\ outcome = "not run"

NoProcessor ==
  /\ execution_stage = "RESET_INIT"
  /\ Cleared(execution_stage, instruction, flags, pc, regs, address_bus)
  /\ mem = <<>>

(***************************************************************************)
(* Files given for comparison: a summary that may lack a value and a trace *)
(* that may be absent, lack fields of a row or have too few or too many of *)
(* them, against those of the reference, which leaves out nothing.         *)
(***************************************************************************)
Names == {"r0", "pc"}
Given == INSTANCE CompareResults WITH Keys <- Names, Fields <- Names

GivenRows == [Names -> Values] \cup [{"pc"} -> Values]
Lists(rows, from) == UNION {[1 .. n -> rows] : n \in from .. MaxRows}

(* An absent trace is not mistaken for one that is there.                  *)
ASSUME FilesAssumption == MaxRows \in Nat /\ NoFile \notin Lists(GivenRows, 0)

GivenFiles ==
  [rtl_summary : UNION {[names -> Values] : names \in SUBSET Names},
   ref_summary : [Names -> Values],
   rtl_trace   : {<<NoFile>>} \cup Lists(GivenRows, 0),
   ref_trace   : Lists([Names -> Values], 1)]

File(rows) == IF rows = <<NoFile>> THEN NoFile ELSE rows

CompareGiven ==
  /\ report = <<>>
  /\ report' = Given!Report(compared.rtl_summary, compared.ref_summary,
                            File(compared.rtl_trace), compared.ref_trace)
  /\ UNCHANGED <<bench, debuggerVars, basicOnly, coreOnly, diffOnly, compared>>

-----------------------------------------------------------------------------
Elaborate(b) == bench = b /\ b \in Benches

NoCounts == cycle_count = 0 /\ instruction_count = 0 /\ halt_repeat_count = 0

BenchesInit ==
  \/ /\ Elaborate("tb_top")
     /\ DebuggerInit
     /\ NoBasic /\ NoCore /\ NoDiff /\ report = <<>> /\ compared = <<>>
  \/ /\ Elaborate("basic_cpu_tb")
     /\ Basic!BasicInit
     /\ halt_repeat_count = 0
     /\ NoDebugger /\ NoCore /\ NoDiff /\ report = <<>> /\ compared = <<>>
  \/ /\ Elaborate("cpu_core_tb")
     /\ CoreTbInit
     /\ instruction_count = 0
     /\ NoDebugger /\ NoBasic /\ NoDiff /\ compared = <<>>
  \/ /\ Elaborate("diff_main")
     /\ DiffInit
     /\ NoCounts
     /\ NoDebugger /\ NoBasic /\ NoCore /\ report = <<>> /\ compared = <<>>
  \/ /\ Elaborate("compare_results")
     /\ compared \in GivenFiles
     /\ NoProcessor /\ NoCounts
     /\ NoDebugger /\ NoBasic /\ NoCore /\ NoDiff /\ report = <<>>

TbTop ==
  /\ bench = "tb_top"
  /\ DebuggerNext
  /\ UNCHANGED <<bench, basicOnly, coreOnly, report, diffOnly, compared>>

BasicCpuTb ==
  /\ bench = "basic_cpu_tb"
  /\ Basic!OneCycle
  /\ UNCHANGED <<bench, debuggerOnly, halt_repeat_count, coreOnly, report, diffOnly, compared>>

CpuCoreTb ==
  /\ bench = "cpu_core_tb"
  /\ CoreTbNext
  /\ UNCHANGED <<bench, debuggerOnly, instruction_count, basicOnly, diffOnly, compared>>

DiffMain ==
  /\ bench = "diff_main"
  /\ DiffNext
  /\ UNCHANGED <<bench, debuggerOnly, counters, basicOnly, coreOnly, report, compared>>

CompareResultsMain ==
  /\ bench = "compare_results"
  /\ CompareGiven

BenchesNext ==
  \/ TbTop
  \/ BasicCpuTb
  \/ CpuCoreTb
  \/ DiffMain
  \/ CompareResultsMain

(* The clock generators toggle as long as the simulation advances; the     *)
(* prompt of the debugger need not give a command.                         *)
BenchesSpec ==
  /\ BenchesInit
  /\ [][BenchesNext]_benchesVars
  /\ WF_benchesVars(TbTop /\ ClockRuns)
  /\ WF_benchesVars(BasicCpuTb)

-----------------------------------------------------------------------------
(* See BasicTb: what is dumped after a number of instructions is never the *)
(* middle of one.                                                          *)
StopsBetweenInstructions == Basic!StopsBetweenInstructions

(* See BasicTb: every simulation ends, whatever the program.               *)
SimulationEnds == Basic!SimulationEnds

(***************************************************************************)
(* compare_results.py reports success only for a simulation that left out  *)
(* nothing of the final state, and whose trace, if there is one, has a row *)
(* for every step of the reference, in its order, whatever stands between  *)
(* those rows.                                                             *)
(***************************************************************************)
ZeroMeansAgreement ==
  compared # <<>> /\ report # <<>> /\ report.exit = 0 =>
    LET rtl == compared.rtl_trace
        ref == compared.ref_trace
    IN  /\ compared.rtl_summary = compared.ref_summary
        /\ rtl # <<NoFile>> =>
             \E at \in [1 .. Len(ref) -> 1 .. Len(rtl)] :
               /\ \A i \in 1 .. Len(ref) : rtl[at[i]] = ref[i]
               /\ \A i, j \in 1 .. Len(ref) : i < j => at[i] < at[j]
               /\ \A k \in 1 .. Len(rtl) :
                    Names \subseteq DOMAIN rtl[k] => \E i \in 1 .. Len(ref) : at[i] = k
=============================================================================
