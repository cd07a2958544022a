---------------------------- MODULE MCSyncQueue ----------------------------
(* SyncQueue for TLC: the preferences, which differ in nothing, may be     *)
(* exchanged.  What is made of a set of objects one by one comes out the   *)
(* same in every order, or every order is tried.                           *)
EXTENDS SyncQueue

Symmetry == Permutations(Preferences)
=============================================================================
