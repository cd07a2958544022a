--------------------------- MODULE MCQueuedPrompts ---------------------------
(***************************************************************************)
(* QueuedPrompts with calls that do not use the terminal.                  *)
(***************************************************************************)
EXTENDS QueuedPrompts

KindOf == [a \in Actions |-> "read"]
=============================================================================
