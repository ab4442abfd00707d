----------------------------- MODULE LapTracker -----------------------------
(***************************************************************************)
(* One entry of lap_map: the tracker that btsniffer.cpp keeps for a LAP it *)
(* hears, from the first packet, through the elimination of UAP candidates *)
(* by their whitening clock, to the lock on one UAP and the per-packet     *)
(* clock prediction that follows.  Entries of different LAPs share         *)
(* nothing, so one is enough.                                              *)
(*                                                                         *)
(* Time is kept relative to the entry's ts: age is the number of whole     *)
(* slots, as the timestamps measure them, from ts to the last packet, and  *)
(* tsjit the sub-slot offset of ts.  pclk is the piconet's real clock at   *)
(* the last packet.  The two are apart when samples were lost (Slips).     *)
(***************************************************************************)
EXTENDS UapElimination, Sequences

CONSTANTS
  ZeroUap,      \* the candidate whose UAP is 0, or -1 when the coset has none
  Coset, Own,   \* cosets of UAPs, and the piconet's own
  Advances,     \* slots from one packet to the next, as measured
  Slips,        \* slots the piconet advanced that the timestamps did not
  Jitters,      \* sub-slot offsets of a packet, in us
  HeaderErrs,   \* offset of the clock a header fits from the real one (0: genuine)
  Payloads,     \* what a PDU looks like under each clock, see Payload
  MaxAge        \* bound on age

(***************************************************************************)
(* empty and anchor hold clocks relative to the header's own: those under  *)
(* which the dewhitened header reads as NULL or POLL, and as POLL or       *)
(* LT_ADDR 0.  crc says whether the payload verifies under the real UAP    *)
(* and clock; under any other pair a CRC-16 match is left out.             *)
(***************************************************************************)
Payload == [empty : SUBSET Clock, anchor : SUBSET Clock, crc : BOOLEAN]

ASSUME InputAssumption ==
  /\ Own \in Coset /\ "none" \notin Coset
  /\ ZeroUap \in Int
  /\ Advances \subseteq Int /\ Slips \subseteq Int
  /\ Jitters \subseteq 0 .. 300
  /\ HeaderErrs \subseteq Clock
  /\ Payloads \subseteq Payload
  /\ MaxAge \in Nat

VARIABLES
  status,       \* lap_status_t, "ABSENT" while lap_map has no entry
  uaps,         \* the 32 candidate slots
  coset,        \* the coset those slots were filled from
  two_uap_stage, uap_pair,
  locked_uap, last_clk,
  last_role, master_clk_parity,
  age, tsjit,   \* ts, relative to the last packet
  pclk          \* the piconet's clock at the last packet

entry == <<uaps, coset, two_uap_stage, uap_pair, locked_uap, last_clk,
           last_role, master_clk_parity>>
vars == <<status, entry, age, tsjit, pclk>>

(***************************************************************************)
(* Packets.  hdr is the coset the header fits, or "none" when its FEC is   *)
(* not perfect and nothing can be read from it.  The payload, pay below,   *)
(* only matters to the handlers that try to extract a PDU.                 *)
(***************************************************************************)
Packet == [adv : Advances, slip : Slips, jit : Jitters, hdr : Coset \cup {"none"},
           err : HeaderErrs]

\* The real clock when p is received, and the clock its header was whitened with.
PacketClk(p) == (pclk + p.adv + p.slip) % N
HeaderClk(p) == (PacketClk(p) + p.err) % N

Genuine(p) == p.hdr = Own /\ p.err = 0

\* POLL and broadcast packets are the master's, in its even slots.
Carries(p, pay) == Genuine(p) /\ 0 \in pay.anchor => PacketClk(p) % 2 = 0

(***************************************************************************)
(* extract_header_bf: the clocks, in increasing order, with which p's      *)
(* header passes the HEC of candidate u of coset k; none when the FEC is   *)
(* not perfect or u is not a UAP this header can have.                     *)
(***************************************************************************)
ClkTable(p, u) == FitClks[HeaderClk(p)][u]

\* timenow_sec_us - get_ts(), in us, and the error test: 0.05 of a slot.
Delta(p) == 625 * (age + p.adv) + p.jit - tsjit
OffSlot(d) == LET e == d - 625 * Periods(d) IN 20 * e > 625 \/ 20 * e < -625

Survivors == {u \in Cand : uaps[u].uap_valid}

-----------------------------------------------------------------------------
NoPair == <<TrueUap, TrueUap>>

Init ==
  /\ status = "ABSENT"
  /\ uaps = FreshUaps /\ coset = Own
  /\ two_uap_stage = FALSE /\ uap_pair = NoPair
  /\ locked_uap = TrueUap /\ last_clk = 0
  /\ last_role = "UNKNOWN" /\ master_clk_parity = 0
  /\ age = 0 /\ tsjit = 0
  /\ pclk \in Clock

\* Time passes until p: every handler starts with it.
Arrive(p) ==
  /\ age + p.adv \in -1 .. MaxAge
  /\ pclk' = PacketClk(p)

\* set_ts(timenow_sec_us), and the handlers that leave ts alone.
SetTs(p) == age' = 0 /\ tsjit' = p.jit
KeepTs(p) == age' = age + p.adv /\ tsjit' = tsjit

\* Mutant: the entry is cleared by hand, and the two-UAP stage forgotten.
EraseForgetsPair ==
  /\ status' = "ABSENT"
  /\ uaps' = FreshUaps /\ coset' = Own
  /\ UNCHANGED <<two_uap_stage, uap_pair>>
  /\ locked_uap' = TrueUap /\ last_clk' = 0
  /\ last_role' = "UNKNOWN" /\ master_clk_parity' = 0
  /\ age' = 0 /\ tsjit' = 0

Erase ==
  /\ status' = "ABSENT"
  /\ uaps' = FreshUaps /\ coset' = Own
  /\ two_uap_stage' = FALSE /\ uap_pair' = NoPair
  /\ locked_uap' = TrueUap /\ last_clk' = 0
  /\ last_role' = "UNKNOWN" /\ master_clk_parity' = 0
  /\ age' = 0 /\ tsjit' = 0

-----------------------------------------------------------------------------
(***************************************************************************)
(* LAP_STATE_NEW.  A first packet inserts the entry, then all 256 UAPs are *)
(* tried: the 32 of the header's coset fill the slots.                     *)
(***************************************************************************)
InitCandidates(p) ==
  /\ status \in {"ABSENT", "NEW"} /\ p.hdr # "none"
  /\ Arrive(p)
  /\ status' = "BRUTE_FORCING"
  /\ coset' = p.hdr
  /\ uaps' = [u \in Cand |-> [uap_valid |-> TRUE, clk |-> ClkTable(p, u),
                              clk_index |-> INVALID_CLK_INDEX]]
  /\ SetTs(p)
  /\ UNCHANGED <<two_uap_stage, uap_pair, locked_uap, last_clk, last_role,
                 master_clk_parity>>

InitFails(p) ==
  /\ status \in {"ABSENT", "NEW"} /\ p.hdr = "none"
  /\ Arrive(p)
  /\ status' = "NEW"
  /\ SetTs(p)
  /\ UNCHANGED entry

-----------------------------------------------------------------------------
(***************************************************************************)
(* LAP_STATE_BRUTE_FORCING: the packets that are not tested.  Blocks are   *)
(* searched channel by channel, so a packet may be up to a slot in the     *)
(* past.  A packet too close to the last one moves ts but tests nothing.   *)
(***************************************************************************)
SkipInThePast(p) ==
  /\ status = "BRUTE_FORCING" /\ Delta(p) < 0
  /\ Arrive(p)
  /\ KeepTs(p)
  /\ UNCHANGED <<status, entry>>

SkipTooClose(p) ==
  /\ status = "BRUTE_FORCING" /\ Delta(p) \in 0 .. DELTA_TS_SAME_THRESHOLD - 1
  /\ Arrive(p)
  /\ SetTs(p)
  /\ UNCHANGED <<status, entry>>

\* Less than a slot away, or too far from a whole number of slots: LAP removed.
EraseBadTiming(p) ==
  /\ status = "BRUTE_FORCING"
  /\ Delta(p) >= DELTA_TS_SAME_THRESHOLD
  /\ Delta(p) < DELTA_TS_SLOT_THRESHOLD \/ OffSlot(Delta(p))
  /\ Arrive(p)
  /\ Erase

\* What is left is on the slot grid and every valid candidate is tested.
Tested(p) ==
  /\ status = "BRUTE_FORCING"
  /\ Delta(p) >= DELTA_TS_SLOT_THRESHOLD /\ ~OffSlot(Delta(p))

\* Mutant: a broken frame moves ts.
SkipBrokenMovesTs(p) ==
  /\ Tested(p) /\ p.hdr # coset /\ Survivors # {}
  /\ Arrive(p)
  /\ SetTs(p)
  /\ UNCHANGED <<status, entry>>

\* No valid candidate fits the header at all: "Frame likely broken, skipped".
SkipBroken(p) ==
  /\ Tested(p) /\ p.hdr # coset /\ Survivors # {}
  /\ Arrive(p)
  /\ KeepTs(p)
  /\ UNCHANGED <<status, entry>>

Retested(p, u) == Retest(uaps[u], ClkTable(p, u), Periods(Delta(p)) % N)

EraseNoCandidate(p) ==
  /\ Tested(p) /\ p.hdr = coset
  /\ Arrive(p)
  /\ \A u \in Cand : ~Retested(p, u).uap_valid
  /\ Erase

\* Some candidate is left: the slots are updated, then one of the outcomes below.
TestAll(p) ==
  /\ Tested(p) /\ p.hdr = coset
  /\ Arrive(p)
  /\ uaps' = [u \in Cand |-> Retested(p, u)]
  /\ SetTs(p)

Narrow ==
  /\ Cardinality(Survivors') > 2
  /\ UNCHANGED <<status, coset, two_uap_stage, uap_pair, locked_uap, last_clk,
                 last_role, master_clk_parity>>

-----------------------------------------------------------------------------
(***************************************************************************)
(* extract_pdu_debug for candidate u and clock x, x a clock it has a       *)
(* header for.  NULL and POLL carry no CRC and pass whenever allowed.      *)
(***************************************************************************)
Decodes(p, pay, u, x, allow_null_poll) ==
  IF (x - HeaderClk(p)) % N \in pay.empty
  THEN allow_null_poll
  ELSE pay.crc /\ p.hdr = Own /\ u = TrueUap /\ x = PacketClk(p)

\* The role bookkeeping for a packet resolved at clock x.
\* Mutant: a NULL, which slaves send too, is taken for the master's.
AnchorsNull(p, pay, x) == (x - HeaderClk(p)) % N \in pay.empty
Anchors(p, pay, x) == (x - HeaderClk(p)) % N \in pay.anchor
RecordRole(p, pay, x) ==
  /\ master_clk_parity' = IF Anchors(p, pay, x) THEN x % 2 ELSE master_clk_parity
  /\ last_role' = IF x % 2 = master_clk_parity' THEN "MASTER" ELSE "SLAVE"

\* At most two candidates are left: the first time two are, they are the pair.
EnterPair ==
  /\ Cardinality(Survivors') \in 1 .. 2
  /\ UNCHANGED coset
  /\ IF ~two_uap_stage /\ Cardinality(Survivors') = 2
     THEN /\ two_uap_stage' = TRUE
          /\ \E a, b \in Survivors' : a < b /\ uap_pair' = <<a, b>>
     ELSE UNCHANGED <<two_uap_stage, uap_pair>>

(***************************************************************************)
(* The two-UAP stage tries UAP uap_pair[i] with the q-th clock stored for  *)
(* it.  get_uap_data_by_uap compares UAP numbers only, and the slot of a   *)
(* discarded candidate holds UAP 0.                                        *)
(***************************************************************************)
LockTry(p, pay, i, q) ==
  LET u == uap_pair'[i]
      x == uaps'[u].clk[q]
  IN  /\ uaps'[u].uap_valid \/ u = ZeroUap
      /\ x \in {ClkTable(p, u)[1], ClkTable(p, u)[2]}
      /\ Decodes(p, pay, u, x, TRUE)
Before(i, q) == {t \in (1 .. 2) \X (1 .. 2) : t[1] < i \/ (t[1] = i /\ t[2] < q)}

Lock(p, pay, i, q) ==
  /\ two_uap_stage'
  /\ LockTry(p, pay, i, q)
  /\ \A t \in Before(i, q) : ~LockTry(p, pay, t[1], t[2])
  /\ status' = "UAP_LOCKED"
  /\ locked_uap' = uap_pair'[i]
  /\ last_clk' = uaps'[uap_pair'[i]].clk[q]
  /\ RecordRole(p, pay, last_clk')

LockFails(p, pay) ==
  /\ two_uap_stage' => \A i, q \in 1 .. 2 : ~LockTry(p, pay, i, q)
  /\ UNCHANGED <<status, locked_uap, last_clk, last_role, master_clk_parity>>

TryPair(p, pay) ==
  /\ Carries(p, pay)
  /\ LockFails(p, pay) \/ \E i, q \in 1 .. 2 : Lock(p, pay, i, q)

TestCandidates(p) ==
  /\ TestAll(p)
  /\ \/ Narrow
     \/ EnterPair /\ \E pay \in Payloads : TryPair(p, pay)

-----------------------------------------------------------------------------
(***************************************************************************)
(* LAP_STATE_UAP_LOCKED: extract_pdu_with_locked_uap.  The predicted clock *)
(* first, then even offsets around it, each only if it is one of the two   *)
(* clocks the header fits; then every clock further than 5 away, with the  *)
(* header merely dewhitened, where only a CRC counts.                      *)
(***************************************************************************)
Predicted(p) == (last_clk + Periods(Delta(p))) % N
Offsets == <<0, -4, -2, 2, 4>>

NearClk(p, k) == (Predicted(p) + Offsets[k]) % N
NearTry(p, pay, k) ==
  LET x == NearClk(p, k)
  IN  /\ x \in {ClkTable(p, locked_uap)[1], ClkTable(p, locked_uap)[2]}
      /\ Decodes(p, pay, locked_uap, x, TRUE)
FarTry(p, pay, x) ==
  /\ x - Predicted(p) > 5 \/ Predicted(p) - x > 5
  /\ Decodes(p, pay, locked_uap, x, FALSE)

\* The clock the extraction settles on, if any: the first try that succeeds.
Least(S) == {k \in S : \A j \in S : k <= j}
Resolves(p, pay) ==
  LET near == {k \in 1 .. 5 : NearTry(p, pay, k)}
  IN  IF near # {} THEN {NearClk(p, k) : k \in Least(near)}
                   ELSE Least({x \in Clock : FarTry(p, pay, x)})

LockedOk(p, pay, x) ==
  /\ last_clk' = x
  /\ RecordRole(p, pay, x)
  /\ SetTs(p)
  /\ UNCHANGED <<status, uaps, coset, two_uap_stage, uap_pair, locked_uap>>

\* Mutant: a packet that does not resolve moves ts.
LockedFailsMovesTs(p) == SetTs(p) /\ UNCHANGED <<status, entry>>
\* Neither ts nor last_clk move: the next prediction spans the missed packet.
LockedFails(p) == KeepTs(p) /\ UNCHANGED <<status, entry>>

Follow(p) ==
  /\ status = "UAP_LOCKED"
  /\ Arrive(p)
  /\ \/ p.hdr # coset /\ LockedFails(p)
     \/ /\ p.hdr = coset
        /\ \E pay \in Payloads :
             /\ Carries(p, pay)
             /\ \/ Resolves(p, pay) = {} /\ LockedFails(p)
                \/ \E x \in Resolves(p, pay) : LockedOk(p, pay, x)

-----------------------------------------------------------------------------
BruteForce(p) ==
  \/ SkipInThePast(p) \/ SkipTooClose(p) \/ EraseBadTiming(p) \/ SkipBroken(p)
  \/ EraseNoCandidate(p) \/ TestCandidates(p)

Next == \E p \in Packet :
  InitCandidates(p) \/ InitFails(p) \/ BruteForce(p) \/ Follow(p)

Spec == Init /\ [][Next]_vars

-----------------------------------------------------------------------------
\* Every variable keeps its type, and every slot of the candidate table its shape.
TypeOK ==
  /\ status \in {"ABSENT", "NEW", "BRUTE_FORCING", "UAP_LOCKED"}
  /\ DOMAIN uaps = Cand /\ \A u \in Cand : SlotOK(uaps[u])
  /\ coset \in Coset
  /\ two_uap_stage \in BOOLEAN /\ uap_pair \in Cand \X Cand
  /\ locked_uap \in Cand /\ last_clk \in Clock
  /\ last_role \in {"UNKNOWN", "MASTER", "SLAVE"} /\ master_clk_parity \in {0, 1}
  /\ age \in -1 .. MaxAge /\ tsjit \in Jitters \cup {0}
  /\ pclk \in Clock

(***************************************************************************)
(* A clock stored with ts is the piconet's when, advanced by the measured  *)
(* slots since ts, it is the clock the piconet has now.                    *)
(***************************************************************************)
AtPclk(c) == (c + age) % N = pclk

\* No samples are lost, and a header that fits a candidate fits its real clock.
HonestTime == Slips = {0} /\ HeaderErrs = {0}

\* Once narrowed to one clock, the slot of the real UAP names the wrong one.
StaleIndex ==
  /\ uaps[TrueUap].clk_index # INVALID_CLK_INDEX
  /\ ~AtPclk(uaps[TrueUap].clk[uaps[TrueUap].clk_index])

(***************************************************************************)
(* A candidate and its twin, half a clock period away, are discarded in    *)
(* the same test: their clock differences agree modulo N.  So the count of *)
(* survivors is even, "Only two UAP left" never stands for one, and        *)
(* uap_found[1] is never read uninitialised.                               *)
(***************************************************************************)
TwinsTogether == \A u \in Cand : uaps[u].uap_valid = uaps[Twin[u]].uap_valid

(***************************************************************************)
(* From the first packet that leaves two candidates on, uap_pair is those  *)
(* two: the frozen copy never outlives the slots it was taken from, and    *)
(* get_uap_data_by_uap never meets the zeroed slot of a discarded UAP.     *)
(***************************************************************************)
PairIsSurvivors ==
  IF two_uap_stage THEN Survivors = {uap_pair[1], uap_pair[2]}
                   ELSE status = "BRUTE_FORCING" => Cardinality(Survivors) > 2

(***************************************************************************)
(* Whatever genuine packet comes next, the test keeps the real UAP, unless *)
(* its index has gone stale: through broken frames, duplicates on side     *)
(* channels and packets in the past, the stored clocks and ts stay those   *)
(* of one and the same moment.                                             *)
(***************************************************************************)
TrueUapKept ==
  status = "BRUTE_FORCING" /\ coset = Own /\ uaps[TrueUap].uap_valid /\ ~StaleIndex
  => \A p \in Packet :
       Tested(p) /\ Genuine(p) => Retested(p, TrueUap).uap_valid

(***************************************************************************)
(* "test only the valid one": the clock the index selects is the one the   *)
(* piconet had at ts.  The code breaks this: a packet that fits the same   *)
(* two clocks, but whose own clock is the other one, leaves the index.     *)
(***************************************************************************)
IndexIsTheClock ==
  status = "BRUTE_FORCING" /\ coset = Own /\ uaps[TrueUap].uap_valid => ~StaleIndex

(***************************************************************************)
(* A lock is on the piconet's own UAP.  The code breaks this: the stage    *)
(* that locks accepts NULL and POLL, which "prove nothing".                *)
(***************************************************************************)
LockIsProven == status = "UAP_LOCKED" => coset = Own /\ locked_uap = TrueUap

InSync ==
  status = "UAP_LOCKED" /\ coset = Own /\ locked_uap = TrueUap /\ AtPclk(last_clk)

(***************************************************************************)
(* A lock on the real UAP and clock is never lost to a wrong one: not by   *)
(* missed packets, by packets out of order or by NULL and POLL seen under  *)
(* a wrong clock, because the clocks tried around the prediction have the  *)
(* parity the real clock's complement has not.                             *)
(***************************************************************************)
LockStaysInSync == [][InSync => InSync']_vars

(***************************************************************************)
(* While in sync, the role reported last is that of the transmitter of the *)
(* packet that set ts, and no packet moves the master's clock parity.      *)
(***************************************************************************)
RoleTrue ==
  /\ master_clk_parity = 0
  /\ last_role = IF last_clk % 2 = 0 THEN "MASTER" ELSE "SLAVE"
RolesStayTrue == [][InSync /\ RoleTrue => InSync' /\ RoleTrue']_vars
=============================================================================
