--------------------------- MODULE MCEventStream ----------------------------
(***************************************************************************)
(* Small instances of EventStream.                                         *)
(***************************************************************************)
EXTENDS EventStream

NoFaults == {}
AllFaults == {"drop", "fetch", "restart", "malformed"}
=============================================================================
