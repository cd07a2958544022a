---------------------------- MODULE MCAgentTurn ----------------------------
(***************************************************************************)
(* AgentTurn with commands and reads.                                      *)
(***************************************************************************)
EXTENDS AgentTurn

CONSTANTS Commands, Reads  \* sets of model values

AllCalls == Commands \cup Reads
KindOf == [a \in AllCalls |-> IF a \in Commands THEN "command" ELSE "read"]

CallSymmetry == Permutations(Commands) \cup Permutations(Reads)
=============================================================================
