--------------------------- MODULE MCViewerSession ---------------------------
(***************************************************************************)
(* ViewerSession within a budget: events, role changes and input updates   *)
(* compete for one, reconnects and reauthentications for another.          *)
(***************************************************************************)
EXTENDS ViewerSession, FiniteSets

CONSTANTS
    MaxActivity,    \* events, role changes and input updates in all
    MaxDisruption   \* reconnects and reauthentications in all

Activity == events + role_changes + next_buffer_seq_no.block + next_buffer_seq_no.op

Disruption == reauths + Cardinality({c \in Conn \ {1} : sock[c] # "none"})

\* The states TLC goes on from.
Budget == Activity <= MaxActivity /\ Disruption <= MaxDisruption
=============================================================================
