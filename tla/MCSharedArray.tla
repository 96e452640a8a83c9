--------------------------- MODULE MCSharedArray ---------------------------
(***************************************************************************)
(* Small instances of SharedArray: three threads that call put and get in  *)
(* any order and for ever on an array of two or three slots.               *)
(***************************************************************************)
EXTENDS SharedArray, TLC

CONSTANTS a, b, long    \* hostnames; the last one is too long to store

MCHostnames == {a, b, long}
MCLongNames == {long}

\* Enough where the contents of the slots play no part.
OneName == {a, long}

Symmetry == Permutations(Threads) \cup Permutations({a, b})
=============================================================================
