--------------------------- MODULE MCSharerNetwork ---------------------------
(***************************************************************************)
(* The bound the runs of SharerNetwork and SharerSession share: the        *)
(* features of one session (events, input updates, prompt changes) compete *)
(* for a budget, and so do the faults (startup attempts that failed,       *)
(* connections that broke).  Every pair of them meets within it.           *)
(***************************************************************************)
EXTENDS SharerNetwork, FiniteSets

CONSTANTS
    MaxActivity,    \* events, input updates and prompt changes in all
    MaxDisruption   \* startup attempts given up and reconnects in all

Activity == event_no + prompt + next_buffer_seq_no.block + next_buffer_seq_no.op

Disruption == (current_attempt - 1) + Cardinality({c \in Reconnect : sock[c] # "none"})

\* The states TLC goes on from.
Budget == Activity <= MaxActivity /\ Disruption <= MaxDisruption
=============================================================================
