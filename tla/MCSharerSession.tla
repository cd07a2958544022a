--------------------------- MODULE MCSharerSession ---------------------------
(***************************************************************************)
(* SharerSession within the budget of MCSharerNetwork.                     *)
(***************************************************************************)
EXTENDS SharerSession, MCSharerNetwork
=============================================================================
