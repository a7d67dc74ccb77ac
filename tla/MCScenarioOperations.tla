------------------------ MODULE MCScenarioOperations ------------------------
(***************************************************************************)
(* Two operations, which may be two runs of one scenario, one of them      *)
(* blind, and two faults.                                                  *)
(***************************************************************************)
EXTENDS ScenarioOperations, TLC
=============================================================================
