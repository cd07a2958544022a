-------------------------- MODULE MCRemoteServer --------------------------
(***************************************************************************)
(* RemoteServer with sessions, hosts and requests that are alike.          *)
(***************************************************************************)
EXTENDS RemoteServer

Alike == Permutations(Sessions) \cup Permutations(Hosts)
=============================================================================
