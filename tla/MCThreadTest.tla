---------------------------- MODULE MCThreadTest ---------------------------
(***************************************************************************)
(* Small instances of ThreadTest.                                          *)
(***************************************************************************)
EXTENDS ThreadTest
=============================================================================
