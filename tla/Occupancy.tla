----------------------------- MODULE Occupancy -----------------------------
(***************************************************************************)
(* The blocking discipline of a bounded buffer, with the contents left     *)
(* out: the number of stored items moves by one and stays within the       *)
(* capacity.  It is what the two counting semaphores of array.c are for.   *)
(***************************************************************************)
EXTENDS Naturals

CONSTANT Capacity

VARIABLE stored

Init == stored = 0

Add    == stored < Capacity /\ stored' = stored + 1
Remove == stored > 0        /\ stored' = stored - 1

Next == Add \/ Remove

Spec == Init /\ [][Next]_stored
=============================================================================
