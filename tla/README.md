# A verified model of the 16-bit multi-cycle processor

This directory holds TLA+ modules, model-checking configurations and
machine-checked proofs for the processor of this repository and for what
surrounds it: the SystemVerilog design in `vsrc/`, the instruction set its
software models define, the assembler and the generator of random programs, the
five environments that simulate the processor, and the regression that signs it
off. Paths below are relative to the repository.

The central statement is that **the cycle-level processor implements the
instruction set**: whatever the program, every instruction takes effect exactly
once, in order, as one step of the software model, although in the hardware it
is spread over three to six clock cycles, its path is chosen from one copy of
the opcode and its control from another, and reset may cut it anywhere.

Around it stand three more: **a program does what its assembly text says**;
**every bench sees what the processor did**, neither missing a retirement nor
seeing one twice, although each samples another signal at another edge; and **a
sign-off counts only what this regression tested**, wherever the last one was cut.

## The system

| Component | State | Operations | Interacts with |
| --- | --- | --- | --- |
| stage machine `vsrc/execution_stage_fsm.sv` | current stage | clock edge, asynchronous reset | reads the *data bus*; its stage drives the controller and every bench |
| controller `vsrc/controller.sv` | none | control signals by stage and opcode | reads stage, *instruction register*, flags |
| ALU `vsrc/alu.sv` | none | nine functions, seven operand routes, four flags | also forms addresses, branch targets, write data |
| data path `vsrc/cpu_core.sv` and its registers | PC, IR, R0-R15, flags, address register | load at the clock edge, asynchronous reset | tri-state data bus |
| place-and-route core `vsrc/cpu_pnr_core.sv` | the same | the same | one bus in, one bus out |
| memory `tb/memory_model.sv` | 65536 words | combinational read, clocked write, load | address register, bus, `wr` |
| instruction set `golden_isa.h`, `reference_model.py` | PC, registers, flags, memory | `step()` | compared with the hardware at retirements |
| reference program `model/reference_model.py` | the same, steps, halt count, rows | run, give up, write files | its files are what the UVM scoreboard expects |
| assembler `model/assembler.py` | addresses, labels, words | two passes, errors | text in, memory image out |
| random generator `model/generate_random_tests.py` | targets, lines so far | set-up, blocks, ending | assembler; aims at uncovered bins |
| lock step `verilator_tb/diff_main.cpp` | golden model, streak, caps | tick, detect retirement, compare | core and golden model |
| debugger `tb/tb_top.sv` | breakpoints, counters, stop reason | step, run, breakpoints, reset, load, quit | core |
| `tb/basic_cpu_tb.sv`, `tb/cpu_core_tb.sv` | counters, rows, summary | run, count, log, time out | core; the rows go to `compare_results.py` |
| UVM environment `uvm_tb/` | interface memory, monitor, queue, bins | respond, sample, compare, cover, time out | core, reference files |
| regression `scripts/run_regression.sh` and the scripts it calls | files on disk | tests, reports, targeted rerun | everything above |
| sign-off `scripts/generate_signoff_reports.py` | what it has read, five reports | read, write one after the other | coverage, results, history |

What is hard to get right here, and what the properties are for:

* **Two copies of the opcode.** The stage machine decides from the bus, the
  controller from the instruction register. They are loaded and consulted in
  different cycles and a store may change the word in between.
* **Everything arrives a cycle late.** The address register is loaded one edge
  before it is used, the program counter has moved on before an instruction
  executes, and a call writes two registers in two cycles.
* **Reset is asynchronous and partial**: it clears registers in the middle of
  any instruction and leaves the memory.
* **Arithmetic at the edges**: borrow as bit 16 of a seventeen-bit
  difference, signed comparison where the difference does not fit, wrapping
  addresses, sign-extended displacements.
* **Five definitions of "an instruction has retired"**, from a stage sampled at a
  falling edge, before an edge, or after a tick, combined with registers read
  after the edge. A call, which ends in a stage of its own, is the odd case in each.
* **Ending.** A program ends by branching to itself three times, a simulation
  by that, by a count or by a limit, and the events may coincide.
* **Two passes that count words by different tables**, labels that may repeat, and a
  generator whose random blocks must neither overwrite the code nor the loop counter.
* **Scripts that are cut anywhere** and leave coverage, results, generated
  programs and half of the reports for the next start.

`PROJECT.json` lists these hazards with the line where each bites.

## Modules

| Module | Models | Remarks |
| --- | --- | --- |
| `Words`, `Encoding` | 16-bit words, instruction fields and opcodes | every operation wraps |
| `StageFsm`, `Controller`, `Alu` | the files of those names | one definition per output signal, under its name |
| `CpuCore` | `cpu_core.sv`, its registers, `memory_model.sv` | one action per stage, and `Reset` |
| `CpuPnr` | `cpu_pnr_core.sv` | the same edge, with `data_bus_in` as an input |
| `Isa` | `golden_isa.h`, `reference_model.py` | one action per group of opcodes |
| `CpuRefinesIsa` | the refinement mapping | `IsaPc` recovers the architectural PC |
| `AluMeaning` | the ALU with its inputs as state | arithmetic meaning of results and flags |
| `ReferenceModel` | `CpuModel.run` and `main` | EXTENDS `Isa` |
| `SourceLines`, `SourceProgram` | parsed lines; what a text *means*: control moves between lines, no words, no addresses | the abstract specification of the assembler |
| `Assembler` | both passes, every error | a step per line and pass |
| `AssembledProgram` | its words loaded and executed | mapped to `SourceProgram` |
| `RandomTests` | the generator, block by block | EXTENDS `AssembledProgram` |
| `ReferenceRun` | `run_reference.sh`: the reference model on the program of a bench | INSTANCEs `ReferenceModel` beside `CpuCore` |
| `BenchCounters` | the counters `tb_top.sv` and `cpu_core_tb.sv` have in common | |
| `DiffTb`, `Debugger`, `BasicTb`, `CoreTb` | the four benches outside UVM | each EXTENDS `CpuCore`, `CoreTb` with `ReferenceRun` |
| `CompareResults` | `compare_results.py` | parameterised by the names of values |
| `Testbenches` | one of these benches, or the comparison of given files | EXTENDS `Debugger`, `DiffTb` and `CoreTb`, INSTANCEs the rest |
| `UvmEnv` | reference run, driver, monitor, scoreboard, collector, time-out | EXTENDS `ReferenceRun`; one action per clock cycle |
| `SignOff`, `Regression` | the reports; the script around them | |
| `MCBounded` | a processor stopped after `MaxCycles` edges | |
| `MCPrograms`, `MCOperations`, `MCControlFlow`, `MCCpuTb`, `MCAlu`, `MCAssembly`, `MCUvmEnv`, `MCTestbenches`, `MCRegression` | programs, texts, files | constants for TLC |
| `AluProofs`, `IsaProofs`, `CpuProofs`, `ReferenceProofs`, `BenchProofs`, `UvmProofs`, `AssemblerProofs`, `RegressionProofs` | lemmas and theorems | see Proofs |

A definition whose comment begins "As if" is not the code: it is a plausible
mistake at that place, used to show that a property would notice it.

**The processor.** A clock edge is one step: `Edge(stage)` updates every register
at once from the wires as they are before it, as non-blocking assignments do.
Wires are definitions: `alu_out`, `data_bus`, `NextAddress`, and the controller's
`dest_reg`, `sst`, `wr`, ... The source writes the controller as defaults
overridden in a nested `case`; `Controller` turns this inside out and lists for
each signal the stages and opcodes that override it. `mem_data` is the word the
memory drives; while `wr = 0` the processor drives the bus itself (`data_bus`).
`Cell` drops upper address bits, as `cpu_tb.sv` does with its 256 words; with
`MemDepth = 65536` it is the identity. Opcodes that no table defines do nothing for
one word in the hardware (`Undefined` of `Isa`); both software models stop with an
error there. `golden_isa.h` also stops at RET, which the Python model and the
hardware implement; `Return` is the Python model's.

**Benches.** The processor samples nothing of a bench, so each bench module adds
variables to `CpuCore` and one action per turn of its loop. What matters is
which copy of a signal is read: a *primed* variable is the value after the edge, an
unprimed one the value before it. The debugger's cycle is two actions
(`SampleStage`, `execute_one_cycle`) because it keeps the stage of the falling edge in
a variable that commands and resets in between might leave stale. A race of two
processes at one edge (reset raised at a rising edge; a verdict written twice when
the halt coincides with the time limit) is a choice among the outcomes.

**UVM.** `Cycle` is a rising edge and everything driver, monitor, scoreboard and
collector do with it, in the order of the time steps. The driver writes the
memory after the edge that *enters* the store cycle, an edge before `memory_model`
would.

**Assembler.** A text is a sequence of records; splitting lines is not modelled, but
a line whose operands do not parse is (`wellFormed`). `ImplementsText` maps the
program counter back to the line it is in.

**Generator.** Everything `random` may draw is drawn; weights are left out.

**Regression.** The disk is the state: coverage files, generated tests, result
lines, closure history, reports. `Abort` may end the script anywhere, also in the
middle of the reports (`set -euo pipefail`, or an interrupt), and `Start` finds what
is left. A test either completes or dies with or without its coverage file.
`clean` is the only ghost variable: what was really run without errors.

## Properties and runs

| Run | Question | States |
| --- | --- | --- |
| `alu_meaning` | do C, Z, V, S and the result mean what the instructions need? | 2 178 |
| `programs` | does each operation on edge operands, and each call program of the directed tests, do what `step()` does, and is the next instruction always fetched? | 43 268 |
| `control_flow` | do all programs of four words over a pool of thirteen keep the pipeline invariants, and does the split bus change nothing? | 929 598 |
| `assembly` | do texts, written and generated, become programs that do what they say, stay intact and halt? | 445 491 |
| `uvm` | does the UVM environment judge the processor rightly, and is its reference run what the files say? | 202 678 |
| `testbenches` | do the four other benches and the comparison see what happens, and end? | 277 220 |
| `regression` | does a regression count and sign off only what it tested, and end? | 34 398 |
| `bit15`, `cpu_tb`, `halt_loop`, `debugger_si`, `uvm_ldrr_bin` | do five statements of the repository hold? (they do not) | |

**Processor.** `InstructionInFlight`: until an instruction retires, the
instruction register equals the word in memory at the instruction's address, and
while the stage machine still looks at the bus, the bus shows that word.
`PathFollowsInstruction`: the stage reached is one whose control knows the opcode.
`OperandPrepared`: the address register holds the operand's address in the execute
cycle, and R15 the return address when the call jumps. `OnlyStoresWrite`: memory
changes only at the edge that retires a store, in the cell and to the value its
registers name. The four `...Meaning` properties: results and flags as exact
arithmetic. `ImplementsIsa` is `Isa`'s specification with its program counter
replaced by `IsaPc`; an instruction takes effect at the edge that retires it, CALLA
one edge earlier. `PnrImplementsCore`: the core with the split bus takes the steps of
the other, whatever floats on its input during a write.

**Programs.** `WordsWherePlaced`, `RelativeTargetsReached`,
`OnlyUnreachableRejected`: the passes agree, every emitted displacement leads to its
target by the processor's rule, and a well-formed line is refused only where its label is
dangling or no displacement leads to the line it denotes, round the top of memory
included. What a token denotes is the independent `Denoted`, the processor's rule is
`LandsBy`. Two exceptions are part of the property: numbers at the other end of the
address space (`RoundTheTop`), which the assembler refuses because it subtracts integers,
and texts of more than 65408 words, whose two ends are near each other round the top.
`ImplementsText`: a refinement of `SourceProgram`. `ProgramStaysIntact`,
`GeneratedHalts`: a generated program never stores into itself and comes to its halt
loop, whatever was drawn.

**UVM.** `FilesOfHaltedProgram`, `EventsTellTheRun`: reference files exist only for a
program at rest; the events are chained, reads return what was written, and
branches are reported taken as their condition held. `NoMismatch`: every
retirement meets its own row; the address rebuilt for messages is that of the
instruction, or one below it for two words. `PassedIsTheReferenceRun`: a passing
test has done all the reference did, the memory included, which the scoreboard does
not see. `BinsMissNothing`: stores and store-load pairs are in their bins.
`TimeoutOnlyBeyondBudget`: five cycles per instruction always suffice.
`EarlyWriteImplementsIsa`: the early write is invisible to the instruction set.

**Benches.** `LockStep`: no false alarm, and the golden model is the same machine,
memory included, at every opcode fetch. `SettledAtHalt`: a settled run stands at its
halt loop. `StepsWholeInstructions`: the debugger sees a retirement exactly when the
next fetch begins. `HaltedIsFinal`: what it reports halted has come to rest.
`BreakpointNeverPassed`. `StopsBetweenInstructions`: what `basic_cpu_tb` dumps after
n instructions is never the middle of one. `RowsOfReference`: `cpu_core_tb` logs what
the reference did but for calls. `ZeroMeansAgreement`: exit code 0 of the comparison
means that nothing of the final state is missing and every reference step has its
row, in order, although malformed rows are dropped silently.

**Regression.** `OnlyCleanTestsCount`, `CompletedReportsOfThisRun`,
`SignedOffWasTested`: nothing left by an earlier, failed or interrupted start is
counted, the five reports speak of one state of the disk, history never shrinks.

**Liveness and fairness.** `KeepsFetching`, `CommandsReturn`, `SimulationEnds`: weak
fairness of the clock, which every bench generates with a free-running
`always #5 clk = ~clk` or ticks in a loop; nothing is assumed of `Reset` or of the
debugger's prompt. `TestEnds`, `GeneratedHalts`: weak fairness of the next step of one
sequential process (script, interpreter, simulation), which has no reason to stall.
`RegressionEnds`: weak fairness of the script, each simulation ending by its own
time-out; `Abort` and `Start` are not fair.

**Bounds.** `programs` puts seven operands at the edges of the unsigned and signed
ranges, and one alternating pattern, through each of the eighteen operations with
both carries; the ALU theorems extend the arithmetic to all words. It also runs each of
eight undefined opcodes before a call and a store, so that `KeepsFetching` meets them. `control_flow` takes
all 13^4 memories; addresses wrap modulo four in memory while the program counter keeps
sixteen bits, so that stores hit code, jumps land in extension words and execution
passes the top of memory. `MaxCycles = 30` is five to ten instructions. `assembly`
takes all texts of up to three lines over a pool (labels repeated, alone, dangling,
shared), branches and calls from 124 to 129 words away, targets that are numbers at both
sides of every limit and round the top of memory, and bodies of two blocks with
two registers, one of which draws data that is a jump; the real ten blocks of at most
seven words still leave the loop's branch in range. `uvm` takes all memories of four
words over two pools, with a step limit of 8 and a time limit of 24 cycles so that both
are reached (2048 and 2000 in the scripts; time limits below the budget are why
`TimeoutOnlyBeyondBudget` is stated with it). `testbenches` elaborates one bench in each
initial state, as a simulation does, so that the variables of the others rest (the
programs of `diff_main` are words of four mirrored in the memory of eight the others
use; `HexFiles` are those the debugger's prompt may load); cycle
limits are two or three times what the programs need, and `CountCap` lets counters
saturate above the limit. `regression` takes two instructions that share a bin, one bin
of neither, two listed tests and two generated ones, and two starts.

**Runs that disagree with the repository's text.**

* `bit15`: `README.md:80-81` sends words to the one-word or two-word path by
  bit 15. The code lists opcodes; RET has bit 15 set and takes one cycle.
* `cpu_tb`: `vsrc/cpu_tb.sv:87-89` waits sixty edges and expects R0 = 0001. The
  program has no halt, cleared memory is ADD R0, R0, and R0 has become 0200.
* `halt_loop`: `verilator_tb/sim_main.cpp:256` and similar lines call 40FE a loop on
  itself. It branches to the word before it; 40FF is the loop.
* `debugger_si`: `tb/tb_top.sv:97` says `si` stops on a retirement boundary. The
  program counter is incremented on the edge that leaves `FETCH_ADDRESS`, and the
  breakpoints are compared after every edge: one at the address behind the opcode ends
  `si` in its first cycle, with nothing executed. That is an ordinary breakpoint on
  the next instruction; the run has instructions of one word only. (Behind the opcode of
  a two-word instruction is its second word, with the same effect.)
* `uvm_ldrr_bin`: `cpu_coverage_collector.sv:284` lists the bin `ldrr_read` under LDRR.
  Every opcode fetch hits it.

Seen with the same models, without a run of their own:

* The address the UVM monitor rebuilds is one too low for an instruction of two
  words (`RebuiltAddress` pins what it is). Nothing compares it.
* `basic_cpu_tb` never counts a CALLA, which ends in a stage its test leaves out
  (`basic_cpu_tb.sv:113`); `SimulationEnds` then rests on the cycle limit alone.
* `compare_results.py` reports differences for a simulation of `cpu_core_tb` that
  agrees: R5-R15 are not written, digits are lower-case, rows lack an address.
* Run by hand with no coverage files, the sign-off says that all bins were hit
  (a hundred percent of nothing).
* `JR 0xFFFF` at address 0 is refused although displacement FE leads there; the assembler
  subtracts integers and does not go round. `OnlyUnreachableRejected` excepts these numbers by name (`RoundTheTop`).
* Where the command `rg` is missing, every test counts as passed: a search that
  cannot run looks like one that finds nothing (`run_single_test.sh:52`). The run
  assumes it is installed; with `rg_installed = FALSE`, `OnlyCleanTestsCount` fails.
* `README.md:408-409` says the reference model lacks the extension instructions. It has
  them.

## Proofs

`CpuProofs` proves, for every `MemDepth` and every set of programs, that
`Spec` implies always `TypeOK`, `InstructionInFlight`, `PathFollowsInstruction`
and `OperandPrepared`, and `OnlyStoresWrite`. The assumptions are those of
`CpuCore`: the memory has at least one word and the programs are images of it.

`TypeOK` is inductive by itself. None of the other three is: the agreement of
path and instruction needs that the bus shows the instruction's own word when
CALLA is recognised, which is `InstructionInFlight`; the operand address needs
the right path; and that the instruction still equals its word needs that only
EXECUTE_DOUBLE of a store writes, after which nothing is in flight. `IInv` is the
conjunction of the four and is inductive. The argument has one lemma per
stage that leaves an instruction in flight (`FetchAddressStep`,
`FetchDecodeStep`, `FetchSecondWordStep`, `SaveReturnAddressStep`); the edges that retire, and
reset, leave nothing to prove (`RetireStep`). Below them are lemmas on what the
control signals make of an edge (`AdvanceEdge`, `IndirectEdge`,
`ReturnAddressEdge`, `ReadingEdge`, `InstructionHeld`, `PcHeld`), and below those
lemmas on words and on the ALU, of which the one that carries the argument is
`StepBack`: going back from an incremented program counter undoes the
increment, also across FFFF.

`AluProofs` proves the four meaning properties for all pairs of words and
both carries.

It proves that `Spec` implies `ImplementsIsa`, for every `MemDepth` and
every set of programs: the initial states map to initial states and, under
`IInv`, every step maps to a step or a stutter. Five edges are stutters
(`ResetInitStutters`, ..., `LoadCallTargetStutters`): they change no register, flag or
memory word, and `IsaPc` stays put while the program counter moves on.
EXECUTE_SINGLE and EXECUTE_DOUBLE map to the instruction with the opcode in the
instruction register, one lemma per group (`ArithmeticStep`, `LogicStep`, ...,
`ExecuteDoubleSteps`), SAVE_RETURN_ADDRESS maps to `Call`, `Reset` to `IsaReset`. What IInv
contributes is that this opcode is the one the instruction set reads at `IsaPc`
and that the bus shows its operand. `SumFlags`, `DifferenceFlags` and `DecrementFlags`
show that the ALU's flags, bits of a seventeen-bit result, are those of the
software model, which compares numbers; DEC is 0 with a borrow in the one and
1 without in the other. `SameCodes` and `SameWords` identify the encodings and word
operations that both specifications take from `Encoding` and `Words`.

It also proves that `PnrSpec` implies `Spec`, for every set of values that may
float on the incoming bus: while `wr = 1` both cores read the same word
(`SameWiresReading`); `wr = 0` only in the last cycle of a store, in which the ALU
passes on the source register, the next stage is fixed and nothing loads the bus
(`SameWiresWriting`). That the stage is one of the eight is the only invariant needed.
With `RefinementCorrect` it follows that what is built implements the instruction set.

`IsaProofs` proves that the instruction set is deterministic (`StepIsFunction`):
whatever the state, a step of it ends in the state that `AfterPc`, `AfterRegs`, `AfterFlags`
and `AfterMem` name. It is instantiated for each machine that takes such steps, and is what
turns "both implement the instruction set" into "both are in the same state".

`BenchProofs` proves, for every program, memory depth and limit:

* `LockStep` and `SettledAtHalt` of the Verilator comparison. Added to `IInv` is where the
  golden model stands (`InStep`): in the state of the instruction set the processor is in
  (`Same`), or, between the edge at which an instruction takes effect and the turn after its
  retirement, exactly one instruction behind it (`Ahead`). An edge that is a stutter keeps
  either; one that is an instruction turns `Same` into `Ahead` (`GetsAhead`); the golden
  model's step turns `Ahead` into `Same` (`CatchesUp`), both by `StepIsFunction`. That
  the harness recognises exactly the retiring edges is `RetirementRecognised`.
* `StepsWholeInstructions` and `HaltedIsFinal` of the debugger, in every session of commands.
  The invariant adds two facts to `IInv`, which the prompt cannot disturb because it
  leaves the processor alone or resets it: while the clock is low the sampled stage is the
  current one (`SampleInTime`), so the cycle that retires is the one that counts; and once
  `halted`, the word at `IsaPc` is 40FF (`AtRest`). The cycle that reports the halt executes
  that word in EXECUTE_SINGLE, because no other retiring stage can hold a JR
  (`HaltingEdge`, by `PathFollowsInstruction`); from then on every edge is a stutter or the
  branch to itself (`RestingEdge`).
* `StopsBetweenInstructions` of `basic_cpu_tb`: its count, which misses calls, never exceeds
  the retirements. The theorem takes the limit and the targets to be natural numbers, as
  the plusargs are.
* `ZeroMeansAgreement` of the trace comparison, for files of any length. What `load_trace` keeps is the
  complete rows in their order (`Picked`), by induction over the rows; the comparison of kept
  rows, index by index, then gives each complete reference row its own.
  Assumed is that the number of rows is a number and that a missing file is not a file
  (`FilesAssumption`).
* `RowsOfReference` of `cpu_core_tb`. As in `UvmProofs` a sequence H of states exists, each `After` the
  one before it, along which the reference has gone when the bench starts (`CoreTbInv`); L[n] is the
  rows of its first n instructions, calls left out. The processor stands at a state of H and the
  bench has logged the rows up to there (`Following`), until it goes on where the reference gave up
  with an error (`Overtaken`). That it can neither stop early nor run past the end of a reference that
  halted is an argument about counts: both count the branches to themselves (`Loops`), after one
  nothing else follows (`LoopStays`), so that equal counts mean equal positions (`LoopsDiffer`), and
  a simulation that passes ends in the state the reference ended in (`Passed`).
  What `compare_results.py` then reports are the missing registers and the letters of its digits
  (`Reported`, `ReportsLetters`). Assumed is that both have the same threshold, 3 in either file
  (`SameThresholdAssumption`), that the programs are images of the memory (`CoreTbProgramsAssumption`) and
  that the step limit and the threshold are numbers, the threshold not 0 (`StepLimitAssumption`,
  `ThresholdAssumption`).
* `BreakpointNeverPassed` of the debugger, and that `si` ends elsewhere than its comment says only for
  a time-out or a breakpoint (`BoundaryCorrect`): the run `debugger_si` shows the breakpoint, and
  there is no other way.

`UvmProofs` proves every safety property of the UVM environment, for every memory depth, every
program, every halt threshold above zero and all limits (`ThresholdAssumption`,
`LimitAssumption`). What a run *is* cannot be read off a state: the reference model keeps rows
and events but no memories, and its present state may be thousands of instructions ahead of the
processor. So the invariant `UvmInv` says that a sequence of states exists, each `After` the one
before it, of which the two machines show different parts:

* `RunInv(H)` (in `ReferenceProofs`, which `BenchProofs` also uses): row i and event i are those of the instruction between H[i - 1] and H[i]
  (`RunIs`), the reference stands at the last state (`StandsAt`), what an event has written is in
  every later memory until it is overwritten (`Remembered`), the retirements of 40FF it
  counts are its last rows (`Looping`), and the files hold what the variables do (`FilesWritten`).
  `FilesOfHaltedProgram` and `EventsTellTheRun` follow from this part alone.
* `ProcInv(H)`: the processor is in the state of H whose index is the number of retirements the
  scoreboard has seen, or in the next one while an instruction that takes effect early, a call or here
  also a store, is in its last cycle (`Position`); its instruction is the one at that state and the
  monitor's program counter one above; every comparison so far was equal (`Scored`); each
  instruction began at most five cycles after the one before it (`OnTime`); the bins are those of
  the stores and loads so far (`Collected`).

The environment writes the memory an edge early, so its edge is not one of `CpuCore`'s in
the last cycle of a store: there `IInv` does not hold (the store may have overwritten its own word),
and the lemmas `StoreBegins` and `StoreEnds` take the place of those of `CpuProofs`.
Everywhere else an edge is one of `CpuCore`'s (`OrdinaryEdge`), and `Fetches`, `TakesEffectEarly` and
`Retires` say how it moves the processor along H. `EarlyWriteImplementsIsa` follows from the
same three.

`AssemblerProofs` proves `WordsWherePlaced`, `RelativeTargetsReached` and
`OnlyUnreachableRejected`, for every text that is written or generated. The invariant
`AsmInv` says that the source is a text (`IsText`: any sequence of lines whatsoever, with opcodes and
register fields in their ranges), that the addresses so far are the sums of the sizes (`AddressesAddUp`),
that the second pass starts after the first is over (`PassesInOrder`), that every line encoded so far
has the words of `encode_line` at its address (`WordsInPlace`), and that an error is one of the
code's (`ErrorIsRejection`). The arithmetic is in two lemmas: a displacement that fits survives the cut to eight
bits and the sign extension of the processor (`Displacement`), and a target whose distance
does not fit is reached by no byte even round the top (`OutOfReach`), which needs that the
distance is not near 2^16: so it is for a line of the same text, up to 65408 words (`WithinText`).
That `resolve_target` finds the line the token denotes, or nothing where there is none, is
`TargetDenoted`, one case per kind of token, each over all candidates; together they give
`RejectionCorrect`.
The generator keeps the invariant because every block it emits is a text. Assumed of the constants is
what `parse_lines` and the argument parser yield (`SourcesAssumption`, `GeneratorAssumption`).

It goes on to what the program does.

* `ImplementsText` (`TextCorrect`), for every written text in which no jump has a number for a
  target and R15 is written by calls alone (`Structured`: other texts mean nothing line by line),
  as long as the program is where it was loaded (`ProgramKept`). The invariant added to `AsmInv` is
  that the program counter and R15 are addresses of lines (`OnALine`). From it, the instruction fetched
  is the one of the current line (`CurrentInstruction`, `Fetched`), which needs that no two
  instructions share an address (`AddressesGrow`, `LineAtAddress`); the address a jump computes
  is that of the line its token denotes (`TargetDenoted` again), and the one after the instruction is that of the next line
  (`LineFollows`).
* `ProgramStaysIntact` (`IntactCorrect`), for every program of the generator. A generated text has a
  shape (`Shaped`): moves to R10 and R11, then to R0-R9 and R12, and to R13 where high addresses are a target;
  then lines that store only through R10, R11 and R13, do not change these (but for the same move to
  R13) and jump only to `LOOP` and `SKIP`; then an ending that stores nothing and jumps only to `EXIT` and `HALT`.
  `SetupShaped`, `MidBlocks` and `EndingShaped` show that whatever is drawn has it. The invariant says
  what the three registers hold at each line (`InRegisters`); it is needed because a jump back
  past the moves, or out of the ending, would store anywhere. The two results lean on each other,
  step by step: the text says where the program goes only while its words are kept, and they are
  kept only if it goes where the text says. So `IntactInv` carries both.
* For the programs of the generator `ImplementsText` therefore holds with no condition
  (`GeneratedTextCorrect`).

The new assumptions are that memory has a word and that the addresses that are stored to are beyond
the longest program (`RoomAssumption`: 178 words for ten blocks, and the lowest address is 256).

`RegressionProofs` proves `OnlyCleanTestsCount`, `CompletedReportsOfThisRun` and
`SignedOffWasTested` for every list of tests, every set of instructions and bins, and aborts and
starts anywhere, if `rg_installed`: without that command the first is false (above). The
invariant `RegressionInv` follows the script: the coverage on disk is that of the tests
run without errors and each has its result line (`CoverageIsClean`), no test is run twice or left
out (`QueueIsFresh`), and since nothing changes what the sign-off has read until its last
report is written, the reports between two sign-offs are of one piece (`ReportsAreOfOnePiece`).

Of the liveness properties the part is proved that does not speak of fairness: a measure that
every step lowers, so that the system cannot go on for ever without getting there.

* `FetchesAgain`: for every memory, whatever the words in it, each edge comes nearer to the
  next fetch, which is at most five edges away (for `KeepsFetching`).
* `BudgetFalls`: while a command of the debugger runs, every half cycle lowers `BudgetLeft`, a natural
  number by `CountCapAssumption`, and nothing but the clock acts (for `CommandsReturn`).
* `BasicLimitFalls`: every cycle of `basic_cpu_tb` lowers what is left of its limit, whatever it
  counts (for `SimulationEnds`).
* `TurnsFall`: every step of a UVM test, of its reference run, of the writing of the files and of the
  simulation, lowers `TurnsLeft` (for `TestEnds`).
* `GeneratedAccepted` and `GeneratedDescends` (for `GeneratedHalts`): the assembler accepts every
  program of the generator, for at most ten blocks (`body_ops <= 10`; `run_regression.sh` asks
  by default for 8, and for 10 when it closes coverage; many more would put `LOOP` out of reach). A loaded one never leaves its text, and every
  instruction outside the halt loop lowers `StepsLeft`, a natural number that is 0 at the halt
  loop only. A text consists of the opening, the blocks of the loop and the ending (`LoopText`,
  `Closed`, in `LoopInv`): each label is on one line, and only the JRNZ that ends the loop goes back.
  R12 counts the rounds (`CountInv`): what is left is the rounds to come times the lines of the
  text, plus the lines to the end.
* `RegressionNears`: every step of a started regression lowers `PhasesLeft`, or keeps it and lowers
  `WorkLeft`; an abort ends it (for `RegressionEnds`).

Only model-checked are the liveness properties themselves (`KeepsFetching`, `CommandsReturn`,
`SimulationEnds`, `TestEnds`, `GeneratedHalts`, `RegressionEnds`): what is missing is that the next
step is enabled and therefore taken, and the proof system has no rule for ENABLED or fairness.

Inductions over rows, lines and words are by the least number for which a claim would fail
(`NumberInduction`, from `WellFoundedInduction`), so that no theorem takes an operator.

## Not modelled

Not modelled: the debug multiplexer and trace register (nothing reads them), the
wrappers, the back-end flow, the scripts that only call a simulator, the older Quartus
copy in `cpu/`, the wave dump. Of the UVM environment: the plumbing of the class library, the
reading of event files (only their number is used), the coverage bins other than those
of loads and stores, which count what the retired item shows, and the assertions of
`cpu_core_if.sv`. Those look for X and Z, which the model does not have, and compare the
flags of CALLA and RET with flags sampled one edge too early, before the cycle that
could change them, so that they would not notice a change.
Of the sign-off: the association of bugs with instructions and the wording of reasons.
`scripts/testlist.txt` and the shell of the debugger in `sw/` are not in the repository;
they are parameters (`TestOrder`, `Listed`) and arbitrary commands (`Prompt`).
Reset is modelled between clock edges; its exact coincidence with an edge, a race in
simulation, is not.
