----------------------------- MODULE OrderedLog -----------------------------
(***************************************************************************)
(* What a shared session promises of its ordered terminal events: they are *)
(* numbered as they happen, and the other side gets exactly them, in that  *)
(* order, each once, until the session is over.  How connections fail and  *)
(* what is sent again does not show.                                       *)
(***************************************************************************)
EXTENDS Integers, Sequences

VARIABLES
    recorded,    \* how many events have been numbered
    delivered,   \* the numbers the other side has got
    over         \* the session has ended on this side

vars == <<recorded, delivered, over>>

Init == recorded = 0 /\ delivered = <<>> /\ over = FALSE

Record ==
    /\ recorded' = recorded + 1
    /\ UNCHANGED <<delivered, over>>

\* The next event, or the next few, are delivered.
Deliver ==
    /\ \E n \in 1..(recorded - Len(delivered)) :
          delivered' = delivered \o [i \in 1..n |-> Len(delivered) + i - 1]
    /\ UNCHANGED <<recorded, over>>

\* The session ends.
End ==
    /\ over' = TRUE
    /\ UNCHANGED <<recorded, delivered>>

Next == Record \/ Deliver \/ End

Spec == Init /\ [][Next]_vars

\* Every recorded event is delivered while the session lasts.
LiveSpec == Spec /\ WF_vars(~over /\ Deliver)
=============================================================================
