----------------------------- MODULE MCTraceScan -----------------------------
(***************************************************************************)
(* A short trace: the captures start together, less than a block apart,    *)
(* almost a pulse apart, more than one, or half a pulse, which a loss      *)
(* makes more than one.                                                    *)
(***************************************************************************)
EXTENDS TraceScan

MCStarts == {[LO |-> 0, HI |-> 0], [LO |-> 0, HI |-> 2],
             [LO |-> 4, HI |-> 0], [LO |-> 0, HI |-> 6],
             [LO |-> 4, HI |-> 1]}
MCLosses == {0, 1, 3}
MCOtherTimes == {7}
MCFoundAfter == {0, 4, 9}
=============================================================================
