------------------------------- MODULE MCCpuTb -----------------------------
(***************************************************************************)
(* vsrc/cpu_tb.sv: its program, on its memory of 256 words, and what it    *)
(* expects to find; and the programs of sim_main.cpp it does not run long  *)
(* enough to see where they go.                                            *)
(***************************************************************************)
EXTENDS MCBounded

CpuTbProgram ==
  Patches(Merge(At(0, <<\h8100, \h0001, \h0E00, \h0F00, \h8400, \h0002,
                        \h8500, \h00FF, \hF006, \hCAFE>>),
                At(\h10, <<\h8110, \h0003, \h8410, \h0004>>)))

CpuTbPrograms == {CpuTbProgram}

(* cpu_tb.sv:87-96: sixty clock edges after reset R0 = 0001, R1 = 0007,    *)
(* R15 = 000A and all four flags are clear.                                *)
CpuTbExpectation ==
  cycle = 60 =>
    /\ regs[0] = 1
    /\ regs[1] = 7
    /\ regs[15] = \h000A
    /\ flags = [c |-> 0, z |-> 0, v |-> 0, s |-> 0]

SetupPrograms == {CallaAfterSetup}

(* sim_main.cpp:256: the word 40FE (JR -2) at the call target 0040 is a    *)
(* halt loop: after the call every instruction is fetched from there.      *)
HaltLoopAtTarget ==
  execution_stage = "FETCH_ADDRESS" /\ regs[15] = 5 => pc = \h0040
=============================================================================
