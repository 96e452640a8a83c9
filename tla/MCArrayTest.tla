---------------------------- MODULE MCArrayTest ----------------------------
(***************************************************************************)
(* Small instances of ArrayTest: the even threads produce, the odd ones    *)
(* consume, more items than the array has slots.                           *)
(***************************************************************************)
EXTENDS ArrayTest

MCThreads == 0 .. NUM_THREADS - 1
AnyFailure == {"slot_malloc", "args_malloc", "pthread_create"}
None       == {}
Faults     == {"faults"}
Either     == {"faults", "lands"}
=============================================================================
