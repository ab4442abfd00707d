-------------------------------- MODULE Hec --------------------------------
(***************************************************************************)
(* The brute force over one packet header: extract_header_bf tries the 64  *)
(* whitening clocks for one UAP, and the LAP_STATE_NEW branch of           *)
(* proc_routine calls it for all 256 UAPs and files those that fit.        *)
(*                                                                         *)
(* A word is the set of positions of its 1 bits, so that xor is symmetric  *)
(* difference and a shift adds one to every position.  The header is what  *)
(* the FEC left of 54 samples: 18 bits, LT_ADDR and type in 0..9 and the   *)
(* HEC in 10..17.                                                          *)
(***************************************************************************)
EXTENDS Integers, FiniteSets, Sequences

CONSTANTS
  Senders,     \* sets of [uap, clk, data]: the packets whose headers are tried
  NSlots       \* size of the candidate table, lap_node::uaps: 32

ASSUME SenderAssumption ==
  Senders \subseteq [uap : 0 .. 255, clk : 0 .. 63, data : SUBSET (0 .. 9)]
ASSUME SlotsAssumption == NSlots = 32

Weight == <<1, 2, 4, 8, 16, 32, 64, 128>>
\* (s \o <<>> is s, which TLC computes once instead of at every use.)
BitTable == [k \in 1 .. 256 |-> {i \in 0 .. 7 : ((k - 1) \div Weight[i + 1]) % 2 = 1}] \o <<>>
Bits(n) == BitTable[n + 1]
Xor(a, b) == (a \ b) \cup (b \ a)
Shift(w, width) == {i + 1 : i \in w} \cap 0 .. width - 1

-----------------------------------------------------------------------------
(***************************************************************************)
(* The whitener: seven bits, seeded with the clock and a leading 1, whose  *)
(* top bit goes out and is fed back into bits 0 and 4.                     *)
(***************************************************************************)
\* Mutant: seeded with the next clock.
SeedNext(clk) == Bits((clk + 1) % 64) \cup {6}
Seed(clk) == Bits(clk) \cup {6}
Clocked(w) == Xor(Shift(w, 7), IF 6 \in w THEN {0, 4} ELSE {})

\* Whitener(seed)[i]: the register after i header bits; and the bits that went out.
Whitener(seed) == LET w[i \in 0 .. 18] == IF i = 0 THEN seed ELSE Clocked(w[i - 1]) IN w
Output(seed) == LET w == Whitener(seed) IN {i \in 0 .. 17 : 6 \in w[i]}
StreamTable == [k \in 1 .. 64 |-> Output(Seed(k - 1))] \o <<>>
Stream(clk) == StreamTable[clk + 1]

\* dewhiten_header_with_clk, and its inverse: whitening twice is the identity.
Dewhiten(h, clk) == Xor(h, Stream(clk))

(***************************************************************************)
(* The HEC register, seeded with the UAP, after the ten data bits of d.    *)
(***************************************************************************)
\* Mutant: a term of the polynomial left out.
HecTapsShort == {7, 5, 2, 1}
HecTaps == {7, 5, 2, 1, 0}
HecStep(l, in) == Xor(Shift(l, 8), IF (7 \in l) # in THEN HecTaps ELSE {})
HecRegister(seed, d) ==
  LET l[i \in 0 .. 10] == IF i = 0 THEN seed ELSE HecStep(l[i - 1], i - 1 \in d)
  IN  l[10]

\* The check bits a header carries, the last register bit first.
HecBits(u, d) ==
  LET l == HecRegister(Bits(u), d) IN {10 + k : k \in {j \in 0 .. 7 : 7 - j \in l}}

\* The HEC of u is right in the header w.
Checks(w, u) == w \cap 10 .. 17 = HecBits(u, w \cap 0 .. 9)

\* Mutant: the last clock is never tried.
FittingClksShort(h, u) == {clk \in 0 .. 62 : Checks(Dewhiten(h, clk), u)}
\* clk_table of extract_header_bf: the clocks under which the HEC of u is right.
FittingClks(h, u) == {clk \in 0 .. 63 : Checks(Dewhiten(h, clk), u)}

\* The header a piconet sends.
Sent(s) == Dewhiten(s.data \cup HecBits(s.uap, s.data), s.clk)

-----------------------------------------------------------------------------
VARIABLES
  sender,      \* whose header is tried
  header,      \* what was received
  perfect_rx,  \* whether the three samples of all its bits agree
  uap,         \* the loop variable: the next UAP to try
  uaps,        \* the slots filled so far: a sequence in UAP order
  status,      \* lap_status_t
  stopsig      \* set when a UAP fits neither 0 nor 2 clocks
vars == <<sender, header, perfect_rx, uap, uaps, status, stopsig>>

Init ==
  /\ sender \in Senders
  /\ header = Sent(sender)
  /\ perfect_rx \in BOOLEAN
  /\ uap = 0
  /\ uaps = <<>>
  /\ status = "NEW"
  /\ stopsig = FALSE

\* Mutant: the loop variable is advanced before the slot is filed.
TryUapAhead ==
  /\ uap < 256
  /\ uap' = uap + 1
  /\ LET clks == IF perfect_rx THEN FittingClks(header, uap) ELSE {}
     IN  /\ stopsig' = (stopsig \/ Cardinality(clks) \notin {0, 2})
         /\ uaps' = IF Cardinality(clks) = 2
                    THEN Append(uaps, [uap |-> uap', clks |-> clks]) ELSE uaps
  /\ UNCHANGED <<sender, header, perfect_rx, status>>

TryUap ==
  /\ uap < 256
  /\ uap' = uap + 1
  /\ LET clks == IF perfect_rx THEN FittingClks(header, uap) ELSE {}
     IN  /\ stopsig' = (stopsig \/ Cardinality(clks) \notin {0, 2})
         /\ uaps' = IF Cardinality(clks) = 2
                    THEN Append(uaps, [uap |-> uap, clks |-> clks]) ELSE uaps
  /\ UNCHANGED <<sender, header, perfect_rx, status>>

\* "Initialized" with all the slots filled; else "Init failed", and the LAP stays new.
Finish ==
  /\ uap = 256 /\ Len(uaps) = NSlots
  /\ status' = "BRUTE_FORCING"
  /\ UNCHANGED <<sender, header, perfect_rx, uap, uaps, stopsig>>

Next == TryUap \/ Finish
Spec == Init /\ [][Next]_vars

-----------------------------------------------------------------------------
\* Slots are filed in UAP order, each with clocks of six bits.
TypeOK ==
  /\ sender \in Senders /\ header \subseteq 0 .. 17 /\ perfect_rx \in BOOLEAN
  /\ uap \in 0 .. 256 /\ stopsig \in BOOLEAN /\ status \in {"NEW", "BRUTE_FORCING"}
  /\ \A j \in 1 .. Len(uaps) :
       /\ uaps[j].uap < (IF j < Len(uaps) THEN uaps[j + 1].uap ELSE uap)
       /\ uaps[j].clks \subseteq 0 .. 63

(***************************************************************************)
(* "This should never happen": no UAP fits any number of clocks but none   *)
(* and two, so the branch that would stop the whole sniffer is dead.       *)
(***************************************************************************)
NeverStops == ~stopsig

(***************************************************************************)
(* A header whose FEC is perfect fits exactly as many UAPs as there are    *)
(* slots, and any other fits none.  set_uap_data's bound lets index 32     *)
(* through; the loop never asks for it.                                    *)
(***************************************************************************)
FillsTheSlots ==
  /\ Len(uaps) <= NSlots
  /\ uap = 256 => Len(uaps) = IF perfect_rx THEN NSlots ELSE 0

(***************************************************************************)
(* What LapTracker takes from here: which UAPs fit, and how far from the   *)
(* sender's clock, depends neither on the clock nor on the data, only on   *)
(* how the UAP differs from the sender's.  Differences are bitwise; the    *)
(* header of UAP 0 at clock 0 shows which.  The two clocks of a UAP are    *)
(* complements, and the sender's own UAP fits the sender's clock.          *)
(***************************************************************************)
ZeroHeader == Sent([uap |-> 0, clk |-> 0, data |-> {}])
DifferenceSet == {<<Bits(u), {Bits(c) : c \in FittingClks(ZeroHeader, u)}>> : u \in 0 .. 255}

\* slot, seen from the sender's UAP and clock.
Difference(slot) == <<Xor(Bits(slot.uap), Bits(sender.uap)),
                      {Xor(Bits(c), Bits(sender.clk)) : c \in slot.clks}>>

ClksAreShifted ==
  uap = 256 => \A j \in 1 .. Len(uaps) : Difference(uaps[j]) \in DifferenceSet
Complements ==
  /\ uap = 256 => \A j \in 1 .. Len(uaps) : \A c \in uaps[j].clks : 63 - c \in uaps[j].clks
  /\ perfect_rx /\ uap > sender.uap => \E j \in 1 .. Len(uaps) :
       uaps[j].uap = sender.uap /\ sender.clk \in uaps[j].clks

(***************************************************************************)
(* Every slot has a twin, the UAP that fits half a clock period away: any  *)
(* whole number of slots advances both alike.                              *)
(***************************************************************************)
TwinsFit ==
  uap = 256 => \A j \in 1 .. Len(uaps) : \E k \in 1 .. Len(uaps) :
                 uaps[k].clks = {(c + 32) % 64 : c \in uaps[j].clks}

=============================================================================
