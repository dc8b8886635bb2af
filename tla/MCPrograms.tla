----------------------------- MODULE MCPrograms ----------------------------
(***************************************************************************)
(* Writing small programs for the model checker, and the call tests of     *)
(* verilator_tb/sim_main.cpp.                                              *)
(***************************************************************************)
EXTENDS CpuRefinesIsa, Sequences

(* Instruction words. *)
Ins(opc, d, s) == 256 * opc + 16 * d + s
Rel(opc, displacement) == 256 * opc + (displacement % 256)

(* A branch to itself: the word 40FF with which the repository's programs  *)
(* and test benches mark their end.                                        *)
Halt == Rel(JR, -1)

(* A memory image with a sequence of words from address 0, Halt elsewhere. *)
Image(words) ==
  [a \in 0 .. MemDepth - 1 |-> IF a < Len(words) THEN words[a + 1] ELSE Halt]

(* A memory image given by the words that are not zero, as load_program.   *)
Patches(word) ==
  [a \in 0 .. MemDepth - 1 |-> IF a \in DOMAIN word THEN word[a] ELSE 0]

At(a, words) == [i \in a .. a + Len(words) - 1 |-> words[i - a + 1]]

Merge(f, g) == [i \in DOMAIN f \cup DOMAIN g |-> IF i \in DOMAIN f THEN f[i] ELSE g[i]]

MCDepth   == 4
MCMemDepth == 8
MCPageDepth == 256

ForwardCalla  == Patches(Merge(At(0, <<\hF04E, \hBEEF>>), At(\h50, <<\h40FE>>)))
CallaAfterSetup ==
  Patches(Merge(At(0, <<\h8100, \h002A, \h7A00, \hF03B, \h1234>>), At(\h40, <<\h40FE>>)))
BackwardCalla == Patches(At(0, <<\h8100, 7, \h7A00, \hF0FB, \hCAFE>>))
NestedCalla   ==
  Patches(Merge(At(0, <<\hF04E>>), Merge(At(\h50, <<\hF02E, \hFFFF>>), At(\h80, <<\h40FE>>))))
CallaKeepsFlags == Patches(Merge(At(0, <<\h7A00, \hF03D, \hAAAA>>), At(\h40, <<\h40FE>>)))

(* A subroutine called twice, with RET, and a store over its first word.   *)
CallAndReturn ==
  Patches(Merge(At(0, <<Rel(CALLA, 14), 0, Ins(MVRD, 3, 0), Halt, Ins(MVRD, 4, 0), \h10,
                        Ins(STRR, 4, 3), Rel(CALLA, 7), 0, Halt>>),
                At(\h10, <<Ins(STC, 0, 0), Ins(RET, 0, 0)>>)))

CallPrograms == {ForwardCalla, CallaAfterSetup, BackwardCalla, NestedCalla,
                 CallaKeepsFlags, CallAndReturn}
=============================================================================
