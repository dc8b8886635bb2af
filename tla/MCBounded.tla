------------------------------ MODULE MCBounded ----------------------------
(***************************************************************************)
(* The processor stopped, like the test benches, after a number of cycles. *)
(***************************************************************************)
EXTENDS MCPrograms

CONSTANT MaxCycles   \* bound on the clock edges since the last reset

VARIABLE cycle       \* clock edges since the last reset

BoundedInit == Init /\ cycle = 0

BoundedNext ==
  \/ /\ cycle < MaxCycles
     /\ Clock
     /\ cycle' = cycle + 1
  \/ /\ Reset
     /\ cycle' = 0

BoundedSpec == BoundedInit /\ [][BoundedNext]_<<vars, cycle>>
=============================================================================
