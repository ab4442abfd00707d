--------------------------- MODULE UapElimination ---------------------------
(***************************************************************************)
(* What btsniffer.cpp and btdecoder.cpp have in common: the candidate      *)
(* slots of a lap_node and the test of one of them against a new header.   *)
(*                                                                         *)
(* A header that passes the 1/3 FEC check fits, for every UAP of one coset *)
(* of 32, exactly two clock values whose bits are complementary (module    *)
(* Hec has the code's LFSRs, and TrackersTable in HecProofs that their     *)
(* table satisfies the assumptions below).  Table is that relation: when a *)
(* header was whitened with clock c, candidate u fits Table[c][u] and      *)
(* N - 1 - Table[c][u].                                                    *)
(***************************************************************************)
EXTENDS Integers, FiniteSets

CONSTANTS
  N,            \* clock values of the whitening register: 64 in the code
  Cand,         \* the candidates of one coset, numbered in UAP order: 32 in the code
  Table,        \* Table[c][u]: a clock u fits when the header was whitened with c
  Twin,         \* Twin[u]: the candidate half a clock period away from u
  TrueUap       \* the piconet's own UAP

Clock == 0 .. N - 1
Comp(c) == N - 1 - c

\* Mutant: the clocks are stored as found, not in increasing order.
SortedNot(x) == <<x, Comp(x)>>
Sorted(x) == IF x < Comp(x) THEN <<x, Comp(x)>> ELSE <<Comp(x), x>>
FitClks == [c \in Clock |-> [u \in Cand |-> Sorted(Table[c][u])]]

ASSUME ClockAssumption == N \in Nat /\ N > 1 /\ N % 2 = 0

ASSUME TableAssumption ==
  /\ Cand \subseteq Nat /\ IsFiniteSet(Cand) /\ Cardinality(Cand) > 2
  /\ Table \in [Clock -> [Cand -> Clock]]
  /\ TrueUap \in Cand
  /\ \A c \in Clock : Table[c][TrueUap] = c

ASSUME TwinAssumption ==
  /\ Twin \in [Cand -> Cand]
  /\ \A u \in Cand : Twin[u] # u /\ Twin[Twin[u]] = u
  /\ \A c \in Clock, u \in Cand :
       \/ Table[c][Twin[u]] = (Table[c][u] + N \div 2) % N
       \/ Table[c][Twin[u]] = Comp((Table[c][u] + N \div 2) % N)

\* Clock indices count from 1 here, and 0 is INVALID_CLK_INDEX.
INVALID_CLK_INDEX == 0
DELTA_TS_SAME_THRESHOLD == 40
DELTA_TS_SLOT_THRESHOLD == 620

Slot == [uap_valid : BOOLEAN, clk : Clock \X Clock, clk_index : 0 .. 2]
NoSlot == [uap_valid |-> FALSE, clk |-> <<0, 0>>, clk_index |-> INVALID_CLK_INDEX]

FreshUaps == [u \in Cand |-> NoSlot]

\* The nearest whole number of slots to d microseconds.
Periods(d) == (2 * d + 625) \div 1250

(***************************************************************************)
(* The test of one candidate slot s against its clocks new in this header, *)
(* slot slots later.  The same two clocks confirm it untouched.  Otherwise *)
(* an old clock (only the indexed one, once there is an index) must reach  *)
(* a new one; each old clock reaches at most one, so the code's matched    *)
(* is the number of new clocks reached.                                    *)
(***************************************************************************)
OldToCheck(s) == IF s.clk_index = INVALID_CLK_INDEX THEN 1 .. 2 ELSE {s.clk_index}
\* Mutant: the difference is signed, so that a clock that wrapped around is missed.
ReachedSigned(s, new, slot) ==
  {q \in 1 .. 2 : \E o \in OldToCheck(s) : new[q] - s.clk[o] = slot}
Reached(s, new, slot) ==
  {q \in 1 .. 2 : \E o \in OldToCheck(s) : (new[q] - s.clk[o]) % N = slot}

Retest(s, new, slot) ==
  CASE ~s.uap_valid -> s
    [] s.uap_valid /\ new = s.clk -> s
    [] s.uap_valid /\ new # s.clk ->
         LET reached == Reached(s, new, slot)
         IN  CASE reached = {} -> NoSlot
               [] reached = {1} -> [uap_valid |-> TRUE, clk |-> new, clk_index |-> 1]
               [] reached = {2} -> [uap_valid |-> TRUE, clk |-> new, clk_index |-> 2]
               [] reached = {1, 2} -> [uap_valid |-> TRUE, clk |-> new,
                                       clk_index |-> INVALID_CLK_INDEX]

(***************************************************************************)
(* Types.  A slot that is valid holds two complementary clocks in order.   *)
(***************************************************************************)
SlotOK(s) == /\ s \in Slot
             /\ s.uap_valid => s.clk[1] < s.clk[2] /\ s.clk[2] = Comp(s.clk[1])
             /\ ~s.uap_valid => s = NoSlot
=============================================================================
