------------------------------- MODULE CpuPnr -------------------------------
(***************************************************************************)
(* cpu_pnr_core.sv: the processor that goes to place and route.  It is     *)
(* cpu_core with the shared bus split in two: data_bus_out always shows    *)
(* the output of the ALU, and what comes in while wr = 0 is up to the      *)
(* memory outside, which nothing in the repository describes; here it is   *)
(* memory_model with separate ports, whose output floats during a write.   *)
(***************************************************************************)
EXTENDS CpuRefinesIsa

CONSTANT Floating   \* what data_bus_in may show while the memory is written

ASSUME FloatingAssumption == Floating \subseteq Word

DataBusIn == IF wr = 0 THEN Floating ELSE {mem_data}

(* The wires that differ from those of cpu_core: mem_data is data_bus_in.  *)
pnr_operand_a(data_bus_in) == OperandA(alu_in_sel, data_bus_in, SignExtend(offset), sr)
pnr_operand_b(data_bus_in) == OperandB(alu_in_sel, data_bus_in, pc, dr)

data_bus_out(data_bus_in) ==
  AluOut(alu_func, pnr_operand_a(data_bus_in), pnr_operand_b(data_bus_in), alu_cin)

pnr_flags(data_bus_in) ==
  AluFlags(alu_func, pnr_operand_a(data_bus_in), pnr_operand_b(data_bus_in), alu_cin)

PnrEdge(data_bus_in) ==
  /\ execution_stage' = NextStage(execution_stage, data_bus_in)
  /\ instruction' = IF instruction_load_enable THEN data_bus_in ELSE instruction
  /\ flags' = CASE sst = "WRITE" -> pnr_flags(data_bus_in)
                [] sst = "CLR_C" -> [flags EXCEPT !.c = 0]
                [] sst = "SET_C" -> [flags EXCEPT !.c = 1]
                [] sst = "HOLD"  -> flags
  /\ pc' = IF pc_write_enable THEN data_bus_out(data_bus_in) ELSE pc
  /\ regs' = IF reg_write_enable THEN [regs EXCEPT ![dest_reg] = data_bus_out(data_bus_in)] ELSE regs
  /\ address_bus' = CASE address_write_select = "FROM_PC"  -> pc
                      [] address_write_select = "FROM_ALU" -> data_bus_out(data_bus_in)
                      [] address_write_select = "HOLD"     -> address_bus
  /\ mem' = IF wr = 0 THEN [mem EXCEPT ![Cell(address_bus)] = data_bus_out(data_bus_in)] ELSE mem

PnrClock == \E data_bus_in \in DataBusIn : PnrEdge(data_bus_in)

PnrNext == PnrClock \/ Reset

PnrSpec == Init /\ [][PnrNext]_vars

-----------------------------------------------------------------------------
(***************************************************************************)
(* The processor with the split bus does cycle for cycle what the one that *)
(* is simulated does, which sees its own output on the bus while it        *)
(* writes: no register and no decision depends on the incoming bus then.   *)
(* (backend_flow/README.md:7: the bidirectional bus has been dealt with.)  *)
(***************************************************************************)
PnrImplementsCore == Spec
=============================================================================
