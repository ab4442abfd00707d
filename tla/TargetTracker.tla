---------------------------- MODULE TargetTracker ----------------------------
(***************************************************************************)
(* One entry of the lap_map of btdecoder.cpp, the off-line decoder of the  *)
(* full-band sniffer.  It is the same elimination as btsniffer's, but one  *)
(* table of entries serves 79 channels of two files: a block of samples is *)
(* read from each, and the channels are searched one after the other, the  *)
(* LO file's before the HI file's.  The second file is skew behind the     *)
(* first, as far as the delay given on the command line was wrong.         *)
(*                                                                         *)
(* DetectPreamble is what the tool is for and what its scripts expect of   *)
(* it, but at this commit Receiver fills the ring buffer and does not call *)
(* it.  The module is DetectPreamble as called once per sample.            *)
(*                                                                         *)
(* A block is far shorter than a slot.  off is where in its slot the block *)
(* is, and only blocks in which a slot of either file starts are of        *)
(* interest.  age is the number of slots from ts to the block: counted on  *)
(* modulo N once it is large, as only that and "less than a slot" are      *)
(* tested, and only while the entry is in the state that reads ts.         *)
(***************************************************************************)
EXTENDS UapElimination

CONSTANTS
  Coset, Own,   \* cosets of UAPs, and the piconet's own
  Advances,     \* slots from one block of interest to the next
  Skews,        \* how far the HI file is behind: whole slots, and us
  Jitters,      \* sub-slot offsets of a packet, in us
  Strangers,    \* clock offsets of another piconet with the same LAP
  MaxAge        \* age is counted modulo N from here

Band == {"LO", "HI"}

ASSUME InputAssumption ==
  /\ Own \in Coset /\ "none" \notin Coset
  /\ Advances \subseteq Nat /\ Jitters \subseteq 0 .. 300 /\ Strangers \subseteq Clock
  /\ Skews \subseteq [slots : Nat, us : 0 .. 600]
  /\ MaxAge \in Nat /\ MaxAge > N /\ \A adv \in Advances : adv <= N

VARIABLES
  lapstate,     \* lap_status_t, "ABSENT" while lap_map has no entry
  uaps,         \* the 32 candidate slots
  coset,        \* the coset those slots were filled from
  age, tsjit,   \* ts, relative to the start of the block's slot
  off, half,    \* the block: where it is in its slot, and the file searched
  pclk,         \* the piconet's clock in the LO file, at this block
  skew

entry == <<lapstate, uaps, coset>>
block == <<off, pclk, skew>>
vars == <<entry, age, tsjit, half, block>>

(***************************************************************************)
(* A packet whose access word is sound and whose LAP is the target's.  It  *)
(* is found where a slot starts in its file, while that file's channels    *)
(* are searched.  hdr is the coset its header fits, "none" when the 18    *)
(* triples are not unanimous; err is only another piconet's.               *)
(***************************************************************************)
Packet == {p \in [band : Band, jit : Jitters, hdr : Coset \cup {"none"},
                  err : Strangers \cup {0}] :
             p.err \in (IF p.hdr \in {Own, "none"} THEN {0} ELSE Strangers)}

Searchable(p) == half = p.band /\ off = (IF p.band = "LO" THEN 0 ELSE skew.us)

BandClk(b) == IF b = "LO" THEN pclk ELSE (pclk - skew.slots) % N
HeaderClk(p) == (BandClk(p.band) + p.err) % N

\* ExtractHeaderBruteForce: the clocks with which the header passes u's HEC.
ClkTable(p, u) == FitClks[HeaderClk(p)][u]

\* timenow_sec_us - get_ts(), and the error test: 0.03 of a slot.
Delta(p) == 625 * age + off + p.jit - tsjit
OffSlot(d) == LET e == d - 625 * Periods(d) IN 100 * e > 1875 \/ 100 * e < -1875

Survivors == {u \in Cand : uaps[u].uap_valid}

Init ==
  /\ lapstate = "ABSENT" /\ uaps = FreshUaps /\ coset = Own
  /\ age = 0 /\ tsjit = 0
  /\ off = 0 /\ half = "none"
  /\ pclk \in Clock /\ skew \in Skews

-----------------------------------------------------------------------------
(***************************************************************************)
(* The next block of interest: later in the same slot or slots later.      *)
(***************************************************************************)
Counted(a) == IF a > MaxAge THEN a - N ELSE a
Aged(adv) == IF lapstate = "BRUTE_FORCING" THEN Counted(age + adv) ELSE age

ReadBlock ==
  /\ half # "LO"
  /\ \E adv \in Advances, o \in {0, skew.us} :
       /\ adv > 0 \/ o > off
       /\ age' = Aged(adv)
       /\ pclk' = (pclk + adv) % N
       /\ off' = o
  /\ half' = "LO"
  /\ UNCHANGED <<entry, tsjit, skew>>

\* The channels of the LO file are done.
SearchHi ==
  /\ half = "LO"
  /\ half' = "HI"
  /\ UNCHANGED <<entry, age, tsjit, block>>

Detect(p) == Searchable(p) /\ UNCHANGED <<half, block>>

\* set_ts(timenow_sec_us), and the handlers that leave ts alone.
SetTs(p) == age' = 0 /\ tsjit' = off + p.jit
KeepTs == UNCHANGED <<age, tsjit>>

Erase ==
  /\ lapstate' = "ABSENT"
  /\ uaps' = FreshUaps /\ coset' = Own
  /\ age' = 0 /\ tsjit' = 0

-----------------------------------------------------------------------------
(***************************************************************************)
(* LAP_STATE_NEW: all 256 UAPs are tried.  Unless exactly 32 fit, the      *)
(* entry stays new; ts has been set before.                                *)
(***************************************************************************)
InitCandidates(p) ==
  /\ lapstate \in {"ABSENT", "NEW"} /\ p.hdr # "none"
  /\ Detect(p)
  /\ lapstate' = "BRUTE_FORCING"
  /\ coset' = p.hdr
  /\ uaps' = [u \in Cand |-> [uap_valid |-> TRUE, clk |-> ClkTable(p, u),
                              clk_index |-> INVALID_CLK_INDEX]]
  /\ SetTs(p)

CannotInit(p) ==
  /\ lapstate \in {"ABSENT", "NEW"} /\ p.hdr = "none"
  /\ Detect(p)
  /\ lapstate' = "NEW"
  /\ SetTs(p)
  /\ UNCHANGED <<uaps, coset>>

(***************************************************************************)
(* LAP_STATE_BRUTE_FORCING.  Packets in the past and copies on other       *)
(* channels ("not doing anything on it") change nothing, not even ts.      *)
(***************************************************************************)
Ignored(p) ==
  \/ lapstate = "RESOLVED"
  \/ lapstate = "BRUTE_FORCING" /\ Delta(p) < DELTA_TS_SAME_THRESHOLD
Ignore(p) ==
  /\ Ignored(p)
  /\ Detect(p)
  /\ KeepTs
  /\ UNCHANGED entry

\* Less than a slot away, or too far from a whole number of slots.
AbortSession(p) ==
  /\ lapstate = "BRUTE_FORCING"
  /\ Delta(p) >= DELTA_TS_SAME_THRESHOLD
  /\ Delta(p) < DELTA_TS_SLOT_THRESHOLD \/ OffSlot(Delta(p))
  /\ Detect(p)
  /\ Erase

Tested(p) ==
  /\ lapstate = "BRUTE_FORCING"
  /\ Delta(p) >= DELTA_TS_SLOT_THRESHOLD /\ ~OffSlot(Delta(p))

\* Mutant: a broken frame moves ts.
SkipBrokenMovesTs(p) ==
  /\ Tested(p) /\ p.hdr # coset
  /\ Detect(p)
  /\ SetTs(p)
  /\ UNCHANGED entry
\* No candidate fits the header: "likely broken, ... do not update ts".
SkipBroken(p) ==
  /\ Tested(p) /\ p.hdr # coset
  /\ Detect(p)
  /\ KeepTs
  /\ UNCHANGED entry

Retested(p, u) == Retest(uaps[u], ClkTable(p, u), Periods(Delta(p)) % N)
Left(p) == {u \in Cand : Retested(p, u).uap_valid}

\* "No more valid uap for this lap, restarting".
Unresolved(p) ==
  /\ Tested(p) /\ p.hdr = coset /\ Left(p) = {}
  /\ Detect(p)
  /\ Erase

Resolves(p) == Cardinality(Left(p)) <= 2

TestCandidates(p) ==
  /\ Tested(p) /\ p.hdr = coset /\ Left(p) # {}
  /\ Detect(p)
  /\ uaps' = [u \in Cand |-> Retested(p, u)]
  /\ lapstate' = IF Resolves(p) THEN "RESOLVED" ELSE "BRUTE_FORCING"
  /\ SetTs(p)
  /\ UNCHANGED coset

DetectPreamble == \E p \in Packet :
  \/ InitCandidates(p) \/ CannotInit(p) \/ Ignore(p) \/ AbortSession(p)
  \/ SkipBroken(p) \/ Unresolved(p) \/ TestCandidates(p)

Next == ReadBlock \/ SearchHi \/ DetectPreamble
Spec == Init /\ [][Next]_vars

-----------------------------------------------------------------------------
\* Every variable keeps its type, and every slot of the candidate table its shape.
TypeOK ==
  /\ lapstate \in {"ABSENT", "NEW", "BRUTE_FORCING", "RESOLVED"}
  /\ DOMAIN uaps = Cand /\ \A u \in Cand : SlotOK(uaps[u])
  /\ coset \in Coset
  /\ age \in 0 .. MaxAge /\ tsjit \in 0 .. 900
  /\ off \in 0 .. 600 /\ half \in Band \cup {"none"}
  /\ pclk \in Clock /\ skew \in Skews

(***************************************************************************)
(* The UAPs printed as resolved are exactly two, half a clock period       *)
(* apart: what is left to the reader of "RES" is one bit.  A test never    *)
(* leaves one UAP, nor three, even of a header read at a wrong time.       *)
(***************************************************************************)
ResolvedIsPair ==
  lapstate = "RESOLVED" => \E u \in Cand : Survivors = {u, Twin[u]}

\* Once narrowed to one clock, the slot of the real UAP names the wrong one.
StaleIndex ==
  /\ uaps[TrueUap].clk_index # INVALID_CLK_INDEX
  /\ (uaps[TrueUap].clk[uaps[TrueUap].clk_index] + age) % N # pclk

(***************************************************************************)
(* Whatever packet of the piconet comes next, in either file, the test     *)
(* keeps the real UAP unless its index has gone stale: copies on other     *)
(* channels, broken frames and packets in the past move neither ts nor the *)
(* clocks.  It does not take a perfect delay: an HI file that is up to     *)
(* half a slot late costs the entry, never the UAP.  One that is late by   *)
(* whole slots costs the UAP.                                              *)
(***************************************************************************)
TrueUapKept ==
  /\ lapstate = "BRUTE_FORCING" /\ coset = Own
  /\ uaps[TrueUap].uap_valid /\ ~StaleIndex
  /\ skew.slots = 0 /\ skew.us <= 300
  => \A p \in Packet :
       Searchable(p) /\ Tested(p) /\ p.hdr = Own => Retested(p, TrueUap).uap_valid
=============================================================================
