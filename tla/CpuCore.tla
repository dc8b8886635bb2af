------------------------------ MODULE CpuCore ------------------------------
(***************************************************************************)
(* cpu_core and the memory_model on its bus, clock edge by clock edge.     *)
(* The registers of the design are the variables; its combinational wires  *)
(* are definitions over them.  Each action is the clock edge that ends one *)
(* stage: all registers load together what the wires show before the edge. *)
(* Reset is asynchronous and may fall between any two edges; the memory    *)
(* has no reset.                                                           *)
(***************************************************************************)
EXTENDS Controller, StageFsm, Alu

CONSTANTS
  MemDepth,   \* words of memory behind the address bus
  Programs    \* the memory images the processor is started on

ASSUME MemDepthAssumption == MemDepth \in Nat \ {0}
ASSUME ProgramsAssumption == Programs \subseteq [0 .. MemDepth - 1 -> Word]

VARIABLES
  pc,            \* program counter
  regs,          \* register file
  address_bus,   \* address register in front of the memory
  mem            \* memory_model

vars == <<execution_stage, instruction, flags, pc, regs, address_bus, mem>>

(* A memory shallower than the address space drops the upper address bits. *)
Cell(address) == address % MemDepth

(***************************************************************************)
(* Wires.                                                                  *)
(***************************************************************************)
(* What the memory drives on the bus while wr = 1. *)
mem_data == mem[Cell(address_bus)]

sr == regs[sour_reg]
dr == regs[dest_reg]

alu_cin == CASE carry_in_select = "ZERO"   -> 0
             [] carry_in_select = "ONE"    -> 1
             [] carry_in_select = "FLAG_C" -> flags.c

operand_a == OperandA(alu_in_sel, mem_data, SignExtend(offset), sr)
operand_b == OperandB(alu_in_sel, mem_data, pc, dr)
alu_out   == AluOut(alu_func, operand_a, operand_b, alu_cin)

(* The shared tri-state bus: the processor drives it when it writes. *)
data_bus == IF wr = 0 THEN alu_out ELSE mem_data

NextFlags ==
  CASE sst = "WRITE" -> AluFlags(alu_func, operand_a, operand_b, alu_cin)
    [] sst = "CLR_C" -> [flags EXCEPT !.c = 0]
    [] sst = "SET_C" -> [flags EXCEPT !.c = 1]
    [] sst = "HOLD"  -> flags

(* As if the address register loaded the incremented program counter. *)
NextAddressIncremented ==
  CASE address_write_select \in {"FROM_PC", "FROM_ALU"} -> alu_out
    [] address_write_select = "HOLD"                    -> address_bus

NextAddress ==
  CASE address_write_select = "FROM_PC"  -> pc
    [] address_write_select = "FROM_ALU" -> alu_out
    [] address_write_select = "HOLD"     -> address_bus

NextInstruction == IF instruction_load_enable THEN mem_data ELSE instruction

NextPc == IF pc_write_enable THEN alu_out ELSE pc

NextRegs == IF reg_write_enable THEN [regs EXCEPT ![dest_reg] = alu_out] ELSE regs

NextMem == IF wr = 0 THEN [mem EXCEPT ![Cell(address_bus)] = data_bus] ELSE mem

(***************************************************************************)
(* The state after power-on reset.                                         *)
(***************************************************************************)
Cleared(stage, ir, f, p, r, a) ==
  /\ stage = "RESET_INIT"
  /\ ir = 0
  /\ f = [c |-> 0, z |-> 0, v |-> 0, s |-> 0]
  /\ p = 0
  /\ r = [i \in Reg |-> 0]
  /\ a = 0

Init ==
  /\ Cleared(execution_stage, instruction, flags, pc, regs, address_bus)
  /\ mem \in Programs

(***************************************************************************)
(* A rising clock edge in a given stage, reset being high.                 *)
(***************************************************************************)
Edge(stage) ==
  /\ execution_stage = stage
  /\ execution_stage' = NextStage(stage, data_bus)
  /\ instruction' = NextInstruction
  /\ flags' = NextFlags
  /\ pc' = NextPc
  /\ regs' = NextRegs
  /\ address_bus' = NextAddress
  /\ mem' = NextMem

ResetInit         == Edge("RESET_INIT")
FetchAddress      == Edge("FETCH_ADDRESS")
FetchDecode       == Edge("FETCH_DECODE")
ExecuteSingle     == Edge("EXECUTE_SINGLE")
FetchSecondWord   == Edge("FETCH_SECOND_WORD")
ExecuteDouble     == Edge("EXECUTE_DOUBLE")
SaveReturnAddress == Edge("SAVE_RETURN_ADDRESS")
LoadCallTarget    == Edge("LOAD_CALL_TARGET")

(* Reset goes low and high again, between two edges or across several. *)
Reset ==
  /\ Cleared(execution_stage', instruction', flags', pc', regs', address_bus')
  /\ UNCHANGED mem

(* As if the stage machine had no transition out of its last call stage. *)
ClockWithoutCallTarget ==
  \/ ResetInit
  \/ FetchAddress
  \/ FetchDecode
  \/ ExecuteSingle
  \/ FetchSecondWord
  \/ ExecuteDouble
  \/ SaveReturnAddress

Clock ==
  \/ ResetInit
  \/ FetchAddress
  \/ FetchDecode
  \/ ExecuteSingle
  \/ FetchSecondWord
  \/ ExecuteDouble
  \/ SaveReturnAddress
  \/ LoadCallTarget

Next == Clock \/ Reset

Spec == Init /\ [][Next]_vars

(* The clock generators of the benches toggle for ever. *)
LiveSpec == Spec /\ WF_vars(Clock)

-----------------------------------------------------------------------------
(* Every register holds a value of its width.                              *)
TypeOK ==
  /\ execution_stage \in Stages
  /\ instruction \in Word
  /\ flags \in Flags
  /\ pc \in Word
  /\ regs \in [Reg -> Word]
  /\ address_bus \in Word
  /\ mem \in [0 .. MemDepth - 1 -> Word]

(* Words the program counter is ahead of an instruction that has finished  *)
(* its fetch-second-word cycle: LDRR and STRR have no second word.         *)
Fetched == IF opcode \in {LDRR, STRR} THEN 1 ELSE 2

(***************************************************************************)
(* The instruction register is never stale.  Until an instruction retires  *)
(* the register equals the word in memory at the instruction's address,    *)
(* which can be recovered from the program counter; and as long as the     *)
(* stage machine still consults the data bus, the bus shows that word.     *)
(***************************************************************************)
InstructionInFlight ==
  /\ execution_stage \in {"FETCH_DECODE", "EXECUTE_SINGLE", "FETCH_SECOND_WORD"}
       => address_bus = Minus(pc, 1)
  /\ execution_stage \in {"EXECUTE_SINGLE", "FETCH_SECOND_WORD"}
       => instruction = mem[Cell(Minus(pc, 1))]
  /\ execution_stage \in {"EXECUTE_DOUBLE", "SAVE_RETURN_ADDRESS", "LOAD_CALL_TARGET"}
       => instruction = mem[Cell(Minus(pc, Fetched))]

(***************************************************************************)
(* The stage machine chooses the path of an instruction from the data bus, *)
(* the controller decodes the instruction register.  They always agree:    *)
(* no opcode is executed in a stage whose control does not know it.        *)
(***************************************************************************)
PathFollowsInstruction ==
  /\ execution_stage = "EXECUTE_SINGLE"
       => opcode \notin Extended \cup {LDRR, STRR}
  /\ execution_stage = "FETCH_SECOND_WORD"
       => opcode \in Extended \cup {LDRR, STRR}
  /\ execution_stage = "EXECUTE_DOUBLE"
       => opcode \in (Extended \ {CALLA}) \cup {LDRR, STRR}
  /\ execution_stage \in {"SAVE_RETURN_ADDRESS", "LOAD_CALL_TARGET"}
       => opcode = CALLA

(***************************************************************************)
(* What an instruction prepares in one cycle is what it uses in the next:  *)
(* the address of its memory operand, and the return address of a call     *)
(* before the program counter leaves it.                                   *)
(***************************************************************************)
OperandPrepared ==
  /\ execution_stage = "EXECUTE_DOUBLE" =>
       address_bus = CASE opcode = LDRR -> regs[SourReg(instruction)]
                       [] opcode = STRR -> regs[DestReg(instruction)]
                       [] OTHER         -> Minus(pc, 1)
  /\ execution_stage = "LOAD_CALL_TARGET" => regs[LinkRegister] = pc

(* The edge that ends a store: the word at the address of the instruction. *)
StoreRetires ==
  LET word == mem[Cell(Minus(pc, 1))]
  IN  /\ execution_stage = "EXECUTE_DOUBLE"
      /\ Opcode(word) = STRR
      /\ mem' = [mem EXCEPT ![Cell(regs[DestReg(word)])] = regs[SourReg(word)]]

(***************************************************************************)
(* Memory changes only when a store retires, and then only in the cell its *)
(* destination register names, to the value of its source register.        *)
(***************************************************************************)
OnlyStoresWrite == [][mem' # mem => StoreRetires]_vars

(***************************************************************************)
(* Once reset stays high, the processor fetches for ever: no instruction   *)
(* and no undefined word can trap the stage machine.                       *)
(***************************************************************************)
KeepsFetching ==
  <>[][Clock]_vars => []<>(execution_stage = "FETCH_ADDRESS")

(***************************************************************************)
(* README.md 1.2: the last cycle of the fetch sends a word with bit 15     *)
(* clear to EXECUTE_SINGLE and a word with bit 15 set to the two-word path.*)
(***************************************************************************)
Bit15SelectsPath ==
  execution_stage = "EXECUTE_SINGLE" => Sign(instruction) = 0
=============================================================================
