---------------------------- MODULE MCControlFlow --------------------------
(***************************************************************************)
(* Memories whose words are drawn freely from a pool, so that extension    *)
(* words are also reached as instructions, stores overwrite code, calls    *)
(* and jumps land in the middle of instructions, and execution runs over   *)
(* the top of the address space.  Every cycle is one of the processor with *)
(* the shared bus or one of that with the split bus, on which a call, a    *)
(* store or nothing may float during a write.                              *)
(***************************************************************************)
EXTENDS MCBounded, CpuPnr

Pool == { Ins(MVRD, 1, 0), Ins(STRR, 1, 2), Ins(LDRR, 2, 1), Ins(JMPA, 0, 0),
          Rel(CALLA, -3), Ins(RET, 0, 0), Rel(JRNC, -2), Ins(STC, 0, 0),
          Ins(TEST, 1, 2), Rel(JRZ, 1), Ins(\h90, 1, 2), Ins(ADDI, 15, 0),
          65535 }

ControlPrograms == [0 .. MCDepth - 1 -> Pool]

AnyBus == {Rel(CALLA, -3), Ins(STRR, 1, 2), 0}

EitherBoundedNext ==
  \/ /\ cycle < MaxCycles
     /\ Clock \/ PnrClock
     /\ cycle' = cycle + 1
  \/ /\ Reset
     /\ cycle' = 0

EitherBoundedSpec == BoundedInit /\ [][EitherBoundedNext]_<<vars, cycle>>
=============================================================================
