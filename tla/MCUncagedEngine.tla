-------------------------- MODULE MCUncagedEngine --------------------------
(***************************************************************************)
(* UncagedEngine with one call, in the first turn, of an unknown tool.     *)
(* The model of a stopped turn says nothing more until it ends: nobody     *)
(* would read it.  What a CLI agent says is read by a later turn if the    *)
(* lock fails, and is not bounded.                                         *)
(***************************************************************************)
EXTENDS UncagedEngine

AllButOne == (Turns \X Calls) \ {<<1, 2>>}

SilentOnceStopped ==
    \A t \in Turns : outcome[t] = "stopped" /\ Http(t) =>
        /\ said' # said => events'[t] = events[t]
        /\ accum'[t] # accum[t] => events'[t] # events[t]
=============================================================================
