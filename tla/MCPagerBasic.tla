---------------------------- MODULE MCPagerBasic ---------------------------
(***************************************************************************)
(* Small instances of PagerBasic, with the programs of MCPageSim.          *)
(***************************************************************************)
EXTENDS PagerBasic, MCPageSim
=============================================================================
