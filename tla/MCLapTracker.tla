---------------------------- MODULE MCLapTracker ----------------------------
(***************************************************************************)
(* A small piconet for LapTracker: a whitening clock of 16 values instead  *)
(* of 64 and so 8 candidates instead of 32.  The candidate table has the   *)
(* shape module Hec finds in the code: changing the UAP by d changes the   *)
(* fitting clock by the xor with d.                                        *)
(***************************************************************************)
EXTENDS LapTracker, Bitwise, TLC

CONSTANT MCClocks

MCCand == 0 .. (MCClocks \div 2) - 1
\* (f @@ <<>> is f, tabulated: TLC computes Xors once, and MCTable only looks it up.)
Xors == [c \in 0 .. MCClocks - 1 |->
           [u \in MCCand |-> c ^^ (u ^^ TrueUap)] @@ <<>>] @@ <<>>
MCTable == [c \in 0 .. MCClocks - 1 |-> Xors[c]]
MCTwin == [u \in MCCand |-> u ^^ (MCClocks \div 2 - 1)]
MCAdvances == {-1, 0, 1, 8}
Zero == {0}
MCJitters == {0, 40}
All == 0 .. MCClocks - 1
Data  == [empty |-> {}, anchor |-> {}, crc |-> TRUE]
Null  == [empty |-> {0}, anchor |-> {}, crc |-> FALSE]
Poll  == [empty |-> {0}, anchor |-> {0}, crc |-> FALSE]
\* A payload that is no NULL or POLL, but reads as one under every other clock.
Ghost == [empty |-> All \ {0}, anchor |-> All \ {0}, crc |-> FALSE]
MCPayloads == {Data, Null, Poll, Ghost}

=============================================================================
