--------------------------- MODULE MCTargetSearch ---------------------------
(***************************************************************************)
(* A piconet with a clock of 8 values and so 4 candidates, in the shape    *)
(* module Hec finds in the code, and two files: aligned, half a slot       *)
(* apart, or three whole slots and a few us.                               *)
(***************************************************************************)
EXTENDS TargetSearch, Bitwise, TLC

MCCand == 0 .. (N \div 2) - 1
Xors == [c \in 0 .. N - 1 |-> [u \in MCCand |-> c ^^ (u ^^ TrueUap)] @@ <<>>] @@ <<>>
MCTable == [c \in 0 .. N - 1 |-> Xors[c]]
MCTwin == [u \in MCCand |-> u ^^ (N \div 2 - 1)]
MCAdvances == {0, 1, 4}
MCSkews == {[slots |-> 0, us |-> 0], [slots |-> 0, us |-> 300], [slots |-> 3, us |-> 12]}
MCJitters == {0, 10}
MCStrangers == {2}
Find(l) == [lap |-> l, list |-> {}, number |-> 0]
FindList(list, n) == [lap |-> NoLap, list |-> list, number |-> n]
MCArguments == {Find(Target), FindList({Target, "second"}, 1), FindList(Lap, 2)}
=============================================================================
