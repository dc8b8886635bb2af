---------------------------- MODULE MCRegression -----------------------------
(***************************************************************************)
(* Two instructions that share a bin, as CLC and STC share                 *)
(* carry_control_chain; CLC has a directed test, STC only a corner test;   *)
(* one bin that belongs to neither and that only a targeted test may hit.  *)
(***************************************************************************)
EXTENDS Regression, TLC

MCIsa  == {"CLC", "STC"}
MCBins == {"opcode_CLC", "opcode_STC", "carry_control_chain", "ret_link_return"}
MCInstrBins == [i \in MCIsa |-> {"carry_control_chain"}
                                  \cup (IF i = "CLC" THEN {"opcode_CLC"} ELSE {"opcode_STC"})]

MCTestOrder == <<"carry_signoff", "carry_corner">>
MCListed    == {"carry_signoff", "carry_corner"}
MCKind      == ("carry_signoff" :> "directed") @@ ("carry_corner" :> "corner")
MCRandomRuns   == {<<>>, <<"rand_100">>}
MCTargetedRuns == {<<>>, <<"rand_cov_500">>}

MCOpcodes ==
  ("carry_signoff" :> {"CLC"}) @@ ("carry_corner" :> {"STC", "CLC"})
    @@ ("rand_100" :> {"STC"}) @@ ("rand_cov_500" :> {"STC"})

MCHits ==
  ("carry_signoff" :> {{"opcode_CLC"}, {}})
    @@ ("carry_corner" :> {{"opcode_STC"}, {"opcode_STC", "opcode_CLC", "carry_control_chain"}})
    @@ ("rand_100" :> {{}, {"carry_control_chain"}})
    @@ ("rand_cov_500" :> {{"opcode_STC", "carry_control_chain", "ret_link_return"}, {}})
=============================================================================
