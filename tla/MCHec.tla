------------------------------- MODULE MCHec -------------------------------
(***************************************************************************)
(* Headers for Hec.  Everything in the brute force is linear over GF(2) in *)
(* the bits of header, UAP and clock, so a base of each is representative: *)
(* every data bit, every clock bit and every UAP bit once, and a mix.      *)
(***************************************************************************)
EXTENDS Hec

Packet(u, c, d) == [uap |-> u, clk |-> c, data |-> d]
MCSenders ==
  {Packet(71, 0, {i}) : i \in 0 .. 9} \cup {Packet(71, 2 ^ i, {}) : i \in 0 .. 5}
  \cup {Packet(2 ^ i, 37, {0, 4}) : i \in 0 .. 7} \cup {Packet(0, 63, {2, 3, 9})}
=============================================================================
