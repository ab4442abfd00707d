------------------------ MODULE TargetSearchProofs ------------------------
(***************************************************************************)
(* Proofs about TargetTracker, for every clock period, candidate table, set*)
(* of skews and packet inputs; and, in the last part, about TargetSearch, for*)
(* every set of LAPs, every list and every number of LAPs asked for.  Its  *)
(* runs are runs of TargetTracker, so that what is proved of the entry holds*)
(* in them; the count of LAPs to find is an invariant of its own.          *)
(***************************************************************************)
EXTENDS TargetSearch, UapEliminationProofs

-----------------------------------------------------------------------------
\* A packet's clocks are clocks.
LEMMA PacketClocks ==
  ASSUME TypeOK, NEW p \in Packet
  PROVE  /\ BandClk(p.band) \in Clock /\ HeaderClk(p) \in Clock
         /\ p.jit \in 0 .. 300 /\ p.hdr \in Coset \cup {"none"} /\ p.err \in Clock
<1>1. /\ p.jit \in 0 .. 300 /\ p.hdr \in Coset \cup {"none"} /\ p.err \in Clock
      /\ p.band \in Band
  <2>1. p \in [band : Band, jit : Jitters, hdr : Coset \cup {"none"}, err : Strangers \cup {0}]
    BY DEF Packet
  <2>2. 0 \in Clock
    BY ClockAssumption DEF Clock
  <2> QED
    BY <2>1, <2>2, InputAssumption, ZenonT(60)
<1>2. skew.slots \in Nat /\ pclk \in Clock /\ pclk \in Int
  BY InputAssumption, ClockAssumption DEF TypeOK, Clock
<1>3. BandClk(p.band) \in Clock
  BY <1>2, ModIsClock DEF BandClk
<1>4. BandClk(p.band) + p.err \in Int
  BY <1>1, <1>3, ClockAssumption DEF Clock
<1> QED
  BY <1>1, <1>3, <1>4, ModIsClock DEF HeaderClk

\* The header brute force returns a good pair for every candidate of the coset.
LEMMA ClkTableIsGood ==
  ASSUME TypeOK, NEW p \in Packet, NEW u \in Cand
  PROVE  /\ ClkTable(p, u) = Sorted(Table[HeaderClk(p)][u])
         /\ GoodPair(ClkTable(p, u))
  BY PacketClocks, FitClksAreGood DEF ClkTable

-----------------------------------------------------------------------------
(***************************************************************************)
(* Type correctness.                                                       *)
(***************************************************************************)

\* The values of an entry that is not there.
LEMMA FreshTypes ==
  /\ DOMAIN FreshUaps = Cand /\ \A u \in Cand : SlotOK(FreshUaps[u])
  /\ Own \in Coset /\ 0 \in 0 .. MaxAge
<1>1. SlotOK(NoSlot)
  BY ClockAssumption DEF SlotOK, NoSlot, Slot, Clock, INVALID_CLK_INDEX
<1> QED
  BY <1>1, InputAssumption DEF FreshUaps

\* Age stays within its bound however far the next block is.
LEMMA AgedType ==
  ASSUME TypeOK, NEW adv \in Advances
  PROVE  Aged(adv) \in 0 .. MaxAge
<1>1. adv \in Nat /\ adv <= N /\ N \in Nat /\ MaxAge \in Nat /\ MaxAge > N
      /\ age \in 0 .. MaxAge
  BY InputAssumption, ClockAssumption DEF TypeOK
<1> QED
  BY <1>1 DEF Aged, Counted

\* The absent entry is well typed.
LEMMA InitTypes == Init => TypeOK
  BY FreshTypes DEF Init, TypeOK

\* One step per action.
LEMMA NextTypes == TypeOK /\ [Next]_vars => TypeOK'
<1> SUFFICES ASSUME TypeOK, [Next]_vars PROVE TypeOK'
  OBVIOUS
<1>1. CASE UNCHANGED vars
  BY <1>1 DEF TypeOK, vars, entry, block
<1>2. CASE ReadBlock
  <2> PICK adv \in Advances, o \in {0, skew.us} :
           age' = Aged(adv) /\ pclk' = (pclk + adv) % N /\ off' = o
    BY <1>2 DEF ReadBlock
  <2>1. skew.us \in 0 .. 600
    BY InputAssumption DEF TypeOK
  <2>2. pclk + adv \in Int
    BY InputAssumption, ClockAssumption DEF TypeOK, Clock
  <2> QED
    BY <1>2, <2>1, <2>2, AgedType, ModIsClock, SMTT(30) DEF ReadBlock, entry, Band, TypeOK
<1>3. CASE SearchHi
  BY <1>3 DEF SearchHi, entry, block, Band, TypeOK
<1>4. CASE DetectPreamble
  <2> PICK p \in Packet :
         \/ InitCandidates(p) \/ CannotInit(p) \/ Ignore(p) \/ AbortSession(p)
         \/ SkipBroken(p) \/ Unresolved(p) \/ TestCandidates(p)
    BY <1>4 DEF DetectPreamble
  <2>1. Detect(p) => off' \in 0 .. 600 /\ half' \in Band \cup {"none"}
                     /\ pclk' \in Clock /\ skew' \in Skews
    BY DEF Detect, block, TypeOK
  <2>2. SetTs(p) => age' \in 0 .. MaxAge /\ tsjit' \in 0 .. 900
    <3>1. p.jit \in 0 .. 300 /\ off \in 0 .. 600
      BY PacketClocks DEF TypeOK
    <3>2. off + p.jit >= 0 /\ off + p.jit <= 900
      BY <3>1, SMTT(30)
    <3>3. off + p.jit \in Int
      BY <3>1, SMTT(30)
    <3>4. 0 \in 0 .. MaxAge
      BY InputAssumption
    <3>5. \A t \in Int : t >= 0 /\ t <= 900 => t \in 0 .. 900
      OBVIOUS
    <3> QED
      BY <3>2, <3>3, <3>4, <3>5, SMTT(30) DEF SetTs
  <2>3. KeepTs => age' \in 0 .. MaxAge /\ tsjit' \in 0 .. 900
    BY DEF KeepTs, TypeOK
  <2>4. CASE InitCandidates(p)
    <3>1. \A u \in Cand : SlotOK([uap_valid |-> TRUE, clk |-> ClkTable(p, u),
                                  clk_index |-> INVALID_CLK_INDEX])
      BY ClkTableIsGood DEF SlotOK, Slot, GoodPair, INVALID_CLK_INDEX
    <3>2. p.hdr \in Coset
      BY <2>4, PacketClocks DEF InitCandidates
    <3> QED
      BY <2>1, <2>2, <2>4, <3>1, <3>2 DEF InitCandidates, TypeOK
  <2>5. CASE CannotInit(p)
    BY <2>1, <2>2, <2>5 DEF CannotInit, TypeOK
  <2>6. CASE Ignore(p) \/ SkipBroken(p)
    BY <2>1, <2>3, <2>6 DEF Ignore, SkipBroken, entry, TypeOK
  <2>7. CASE AbortSession(p) \/ Unresolved(p)
    BY <2>1, <2>7, FreshTypes DEF AbortSession, Unresolved, Erase, TypeOK
  <2>8. CASE TestCandidates(p)
    <3>1. \A u \in Cand : SlotOK(Retested(p, u))
      BY ClkTableIsGood, RetestKeepsSlot DEF TypeOK, Retested
    <3> QED
      BY <2>1, <2>2, <2>8, <3>1 DEF TestCandidates, TypeOK
  <2> QED
    BY <2>4, <2>5, <2>6, <2>7, <2>8
<1> QED
  BY <1>1, <1>2, <1>3, <1>4 DEF Next

(***************************************************************************)
(* The entry stays well-formed, and the bounds on age and tsjit are never  *)
(* left: counting age modulo N loses nothing.                              *)
(***************************************************************************)
THEOREM TypeCorrect == Spec => []TypeOK
  BY InitTypes, NextTypes, PTL DEF Spec

-----------------------------------------------------------------------------
(***************************************************************************)
(* What is resolved are two twins.                                         *)
(***************************************************************************)
TwinInv == \A u \in Cand : TwinSlots(uaps[u], uaps[Twin[u]])

\* One header fits a candidate and its twin with twin pairs.
LEMMA ClkTableTwins ==
  ASSUME TypeOK, NEW p \in Packet, NEW u \in Cand
  PROVE  Twin[u] \in Cand /\ TwinPairs(ClkTable(p, u), ClkTable(p, Twin[u]))
  BY PacketClocks, FitClksOfTwins DEF ClkTable

\* Testing keeps or discards both of two twins.
LEMMA TwinRetested ==
  ASSUME TypeOK, TwinInv, NEW p \in Packet, NEW u \in Cand
  PROVE  Twin[u] \in Cand /\ TwinSlots(Retested(p, u), Retested(p, Twin[u]))
<1>1. Twin[u] \in Cand /\ TwinPairs(ClkTable(p, u), ClkTable(p, Twin[u]))
  BY ClkTableTwins
<1>2. GoodPair(ClkTable(p, u)) /\ GoodPair(ClkTable(p, Twin[u]))
  BY <1>1, ClkTableIsGood
<1>3. SlotOK(uaps[u]) /\ SlotOK(uaps[Twin[u]]) /\ TwinSlots(uaps[u], uaps[Twin[u]])
  BY <1>1 DEF TypeOK, TwinInv
<1> QED
  BY <1>1, <1>2, <1>3, RetestTwins DEF Retested

\* A test that leaves at most two candidates leaves two twins.
LEMMA LeftArePair ==
  ASSUME TypeOK, TwinInv, NEW p \in Packet, Left(p) # {}, Resolves(p)
  PROVE  \E u \in Cand : Left(p) = {u, Twin[u]}
<1>1. Left(p) \subseteq Cand /\ IsFiniteSet(Left(p)) /\ Cardinality(Left(p)) \in Nat
  BY TableAssumption, FS_Subset, FS_CardinalityType DEF Left
<1> PICK u \in Left(p) : TRUE
  OBVIOUS
<1>2. u \in Cand /\ Twin[u] # u
  BY <1>1, TwinAssumption
<1>3. Twin[u] \in Left(p)
  BY <1>2, TwinRetested DEF TwinSlots, Left
<1>4. Cardinality({u, Twin[u]}) = 2 /\ {u, Twin[u]} \in SUBSET Left(p)
  BY <1>2, <1>3, CardinalityPair
<1>5. Cardinality({u, Twin[u]}) <= Cardinality(Left(p)) /\ Cardinality(Left(p)) <= 2
  BY <1>1, <1>4, FS_Subset DEF Resolves
<1>6. Left(p) = {u, Twin[u]}
  BY <1>1, <1>4, <1>5, FS_Subset
<1> QED
  BY <1>2, <1>6

\* Nothing is resolved, and the slots are twins, before the first packet.
LEMMA PairInit == Init => TwinInv /\ ResolvedIsPair
  BY FreshTwins DEF Init, TwinInv, ResolvedIsPair

\* No packet parts two twins, and what is resolved stays as it was.
LEMMA PairNext ==
  TypeOK /\ TwinInv /\ ResolvedIsPair /\ [Next]_vars => (TwinInv /\ ResolvedIsPair)'
<1> SUFFICES ASSUME TypeOK, TwinInv, ResolvedIsPair, [Next]_vars
             PROVE  TwinInv' /\ ResolvedIsPair'
  OBVIOUS
<1>1. CASE UNCHANGED entry
  BY <1>1 DEF entry, TwinInv, ResolvedIsPair, Survivors
<1>2. CASE UNCHANGED vars \/ ReadBlock \/ SearchHi
  BY <1>1, <1>2 DEF vars, ReadBlock, SearchHi
<1>3. CASE DetectPreamble
  <2> PICK p \in Packet :
         \/ InitCandidates(p) \/ CannotInit(p) \/ Ignore(p) \/ AbortSession(p)
         \/ SkipBroken(p) \/ Unresolved(p) \/ TestCandidates(p)
    BY <1>3 DEF DetectPreamble
  <2>1. CASE InitCandidates(p)
    <3>1. \A u \in Cand : TwinSlots(uaps'[u], uaps'[Twin[u]])
      BY <2>1, ClkTableTwins DEF InitCandidates, TwinSlots, INVALID_CLK_INDEX
    <3> QED
      BY <2>1, <3>1 DEF InitCandidates, TwinInv, ResolvedIsPair
  <2>2. CASE CannotInit(p)
    BY <2>2 DEF CannotInit, TwinInv, ResolvedIsPair
  <2>3. CASE Ignore(p) \/ SkipBroken(p)
    BY <1>1, <2>3 DEF Ignore, SkipBroken
  <2>4. CASE AbortSession(p) \/ Unresolved(p)
    BY <2>4, FreshTwins DEF AbortSession, Unresolved, Erase, TwinInv, ResolvedIsPair
  <2>5. CASE TestCandidates(p)
    <3>1. \A u \in Cand : TwinSlots(uaps'[u], uaps'[Twin[u]])
      BY <2>5, TwinRetested DEF TestCandidates
    <3>2. Survivors' = Left(p)
      BY <2>5 DEF TestCandidates, Survivors, Left
    <3>3. lapstate' = "RESOLVED" => \E u \in Cand : Survivors' = {u, Twin[u]}
      BY <2>5, <3>2, LeftArePair DEF TestCandidates
    <3> QED
      BY <3>1, <3>3 DEF TwinInv, ResolvedIsPair
  <2> QED
    BY <2>1, <2>2, <2>3, <2>4, <2>5
<1> QED
  BY <1>2, <1>3 DEF Next

(***************************************************************************)
(* Resolved means two UAPs half a clock period apart, for any candidate    *)
(* table, any skew of the files and any packets.                           *)
(***************************************************************************)
THEOREM ResolvedIsTwinPair == Spec => []ResolvedIsPair
<1>1. Init => TypeOK /\ TwinInv /\ ResolvedIsPair
  BY InitTypes, PairInit
<1>2. TypeOK /\ TwinInv /\ ResolvedIsPair /\ [Next]_vars
      => (TypeOK /\ TwinInv /\ ResolvedIsPair)'
  BY NextTypes, PairNext
<1> QED
  BY <1>1, <1>2, PTL DEF Spec

-----------------------------------------------------------------------------
(***************************************************************************)
(* The elimination keeps the real UAP.                                     *)
(***************************************************************************)

\* A clock stored with ts is the piconet's when it has come to be that now.
AtPclk(c) == (c + age) % N = pclk
SmallSkew == skew.slots = 0 /\ skew.us <= 300

\* The inductive invariant: blocks are where a slot starts, ts is where a packet
\* was, and one of the two clocks stored is the piconet's at ts.
StoredClock ==
  /\ off \in {0, skew.us}
  /\ tsjit <= skew.us + 300
  /\ SmallSkew /\ lapstate = "BRUTE_FORCING" /\ coset = Own /\ uaps[TrueUap].uap_valid
     => \E q \in 1 .. 2 : AtPclk(uaps[TrueUap].clk[q])

\* Up to half a slot of skew, the rounded time is the number of slots.
LEMMA PeriodsExact ==
  ASSUME TypeOK, StoredClock, SmallSkew, NEW p \in Packet, Tested(p)
  PROVE  Periods(Delta(p)) = age
<1>1. /\ p.jit \in 0 .. 300 /\ age \in Int /\ tsjit \in 0 .. 600 /\ off \in 0 .. 300
  <2>1. skew.us \in 0 .. 300
    BY InputAssumption, SMTT(30) DEF TypeOK, SmallSkew
  <2>2. tsjit \in 0 .. 900 /\ tsjit <= skew.us + 300 /\ off \in {0, skew.us} /\ age \in 0 .. MaxAge
    BY DEF TypeOK, StoredClock
  <2>3. tsjit \in 0 .. 600 /\ off \in 0 .. 300
    BY <2>1, <2>2, SMTT(30)
  <2>4. age \in Int
    BY <2>2, InputAssumption
  <2> QED
    BY <2>3, <2>4, PacketClocks
<1> DEFINE d == Delta(p)
           n == Periods(d)
           x == off + p.jit - tsjit
<1>2. d = 625 * age + x /\ x \in Int /\ x >= -600 /\ x <= 600 /\ d \in Int
  <2>1. x \in Int
    BY <1>1, SMTT(30)
  <2>2. x >= -600 /\ x <= 600
    BY <1>1, SMTT(30)
  <2>3. d \in Int
    BY <1>1, SMTT(30) DEF Delta
  <2>4. d = 625 * age + x
    BY <1>1, SMTT(30) DEF Delta
  <2> QED
    BY <2>1, <2>2, <2>3, <2>4
<1>3. n \in Int
  BY <1>2 DEF Periods
<1>4. 100 * (d - 625 * n) <= 1875 /\ 100 * (d - 625 * n) >= -1875
  <2>1. ~OffSlot(d)
    BY DEF Tested
  <2> HIDE DEF d, n
  <2> QED
    BY <1>2, <1>3, <2>1 DEF OffSlot, n
<1> HIDE DEF d, n, x
<1>5. 625 * (age - n) <= 618 /\ 625 * (age - n) >= -618
  BY <1>1, <1>2, <1>3, <1>4
<1>6. age - n = 0
  BY <1>1, <1>3, <1>5
<1> QED
  BY <1>1, <1>3, <1>6 DEF n, d

\* The piconet's header was whitened with the clock it has at the block.
LEMMA OwnHeader ==
  ASSUME TypeOK, SmallSkew, NEW p \in Packet, p.hdr = Own
  PROVE  ClkTable(p, TrueUap) = Sorted(pclk) /\ pclk \in Clock
<1>1. pclk \in Clock /\ pclk \in Int /\ skew.slots = 0
  BY ClockAssumption DEF TypeOK, SmallSkew, Clock
<1>2. p.err = 0
  BY DEF Packet
<1>3. pclk % N = pclk
  BY <1>1, ClockMod
<1>4. BandClk(p.band) = pclk /\ HeaderClk(p) = pclk
  BY <1>1, <1>2, <1>3 DEF BandClk, HeaderClk
<1> QED
  BY <1>1, <1>4, ClkTableIsGood, TableAssumption

\* A real UAP stored with the clock of ts passes the next test of its own header.
LEMMA StoredImpliesKept ==
  ASSUME TypeOK, StoredClock
  PROVE  TrueUapKept
<1> SUFFICES ASSUME lapstate = "BRUTE_FORCING", coset = Own, uaps[TrueUap].uap_valid,
                    ~StaleIndex, SmallSkew, NEW p \in Packet, Tested(p), p.hdr = Own
             PROVE  Retested(p, TrueUap).uap_valid
  BY DEF TrueUapKept, SmallSkew
<1> DEFINE s == uaps[TrueUap]
           new == ClkTable(p, TrueUap)
           slot == Periods(Delta(p)) % N
<1>1. SlotOK(s) /\ s.clk_index \in 0 .. 2 /\ \A o \in 1 .. 2 : s.clk[o] \in Clock
  BY TableAssumption DEF TypeOK, SlotOK, Slot
<1>2. PICK o \in OldToCheck(s) : o \in 1 .. 2 /\ AtPclk(s.clk[o])
  <2>1. CASE s.clk_index = 0
    BY <2>1 DEF StoredClock, OldToCheck, INVALID_CLK_INDEX
  <2>2. CASE s.clk_index # 0
    BY <1>1, <2>2 DEF StaleIndex, AtPclk, OldToCheck, INVALID_CLK_INDEX
  <2> QED
    BY <2>1, <2>2
<1>3. PICK q \in 1 .. 2 : new[q] = pclk
  BY OwnHeader, SortedIsGood
<1>4. (new[q] - s.clk[o]) % N = slot
  <2>1. pclk = (s.clk[o] + age) % N
    BY <1>2 DEF AtPclk
  <2>2. s.clk[o] \in Int /\ age \in Int /\ pclk \in Int /\ -s.clk[o] \in Int
    BY <1>1, <1>2, ClockAssumption DEF TypeOK, Clock
  <2>3. (pclk + (-s.clk[o])) % N = ((s.clk[o] + age) + (-s.clk[o])) % N
    <3>1. s.clk[o] + age \in Int
      BY <2>2
    <3>2. \A a, b \in Int : ((a % N) + b) % N = (a + b) % N
      BY ModAdd
    <3> QED
      BY <2>1, <2>2, <3>1, <3>2
  <2>4. (s.clk[o] + age) + (-s.clk[o]) = age /\ pclk + (-s.clk[o]) = pclk - s.clk[o]
    BY <2>2
  <2> QED
    BY <1>3, <2>3, <2>4, PeriodsExact
<1>5. q \in Reached(s, new, slot)
  BY <1>2, <1>3, <1>4 DEF Reached
<1>6. Reached(s, new, slot) \in {{1}, {2}, {1, 2}}
  BY <1>5 DEF Reached
<1> HIDE DEF new, slot
<1>7. Retest(s, new, slot).uap_valid
  BY <1>6 DEF Retest
<1> QED
  BY <1>7 DEF Retested, new, slot

\* A clock in step stays in step from block to block, counted modulo N or not.
LEMMA BlockInStep ==
  ASSUME TypeOK, NEW adv \in Advances, NEW c \in Clock, AtPclk(c),
         lapstate = "BRUTE_FORCING"
  PROVE  (c + Aged(adv)) % N = (pclk + adv) % N
<1>1. c \in Int /\ adv \in Int /\ age \in Int /\ N \in Int
  BY InputAssumption, ClockAssumption DEF TypeOK, Clock
<1> DEFINE a == c + age
           b == c + (age + adv)
<1>a. a \in Int /\ b \in Int
  BY <1>1
<1>2. (pclk + adv) % N = ((c + age) + adv) % N
  <2>1. ((a % N) + adv) % N = (a + adv) % N
    <3> HIDE DEF a
    <3> QED
      BY <1>1, <1>a, ModAdd
  <2> QED
    BY <2>1 DEF AtPclk
<1>3. (c + age) + adv = c + (age + adv) /\ c + (age + adv - N) = (c + (age + adv)) - N
  BY <1>1
<1>4. ((c + (age + adv)) - N) % N = (c + (age + adv)) % N
  <2>1. (b - N) % N = b % N
    <3> HIDE DEF b
    <3> QED
      BY <1>a, ModPeriod
  <2> QED
    BY <2>1
<1>5. Aged(adv) = age + adv \/ Aged(adv) = age + adv - N
  BY <1>1 DEF Aged, Counted
<1> QED
  BY <1>2, <1>3, <1>4, <1>5

\* Nothing is stored before the first packet.
LEMMA StoredInit == Init => StoredClock
<1> SUFFICES ASSUME Init PROVE StoredClock
  OBVIOUS
<1>1. skew.us \in 0 .. 600
  BY InputAssumption DEF Init
<1> QED
  BY <1>1 DEF Init, StoredClock

\* The clocks of a header of the piconet's that is heard now hold its clock.
LEMMA HeardNow ==
  ASSUME TypeOK, SmallSkew, NEW p \in Packet, p.hdr = Own
  PROVE  \E q \in 1 .. 2 : (ClkTable(p, TrueUap)[q] + 0) % N = pclk
<1>1. ClkTable(p, TrueUap) = Sorted(pclk) /\ pclk \in Clock
  BY OwnHeader
<1>2. PICK q \in 1 .. 2 : Sorted(pclk)[q] = pclk
  BY <1>1, SortedIsGood
<1>3. (pclk + 0) % N = pclk
  BY <1>1, ClockMod
<1> QED
  BY <1>1, <1>2, <1>3

\* No step loses the clock: blocks age it, and a test that passes replaces it.
LEMMA StoredNext == TypeOK /\ StoredClock /\ [Next]_vars => StoredClock'
<1> SUFFICES ASSUME TypeOK, StoredClock, [Next]_vars PROVE StoredClock'
  OBVIOUS
<1>1. skew.us \in 0 .. 600 /\ tsjit \in 0 .. 900 /\ off \in 0 .. 600 /\ 0 <= skew.us + 300
  BY InputAssumption, SMTT(30) DEF TypeOK
<1>2. CASE UNCHANGED vars
  BY <1>2 DEF vars, entry, block, StoredClock, SmallSkew, AtPclk
<1>3. CASE ReadBlock
  <2> PICK adv \in Advances, o \in {0, skew.us} :
           age' = Aged(adv) /\ pclk' = (pclk + adv) % N /\ off' = o
    BY <1>3 DEF ReadBlock
  <2>1. UNCHANGED <<lapstate, uaps, coset, tsjit, skew>>
    BY <1>3 DEF ReadBlock, entry
  <2>2. ASSUME SmallSkew, lapstate = "BRUTE_FORCING", NEW q \in 1 .. 2,
               AtPclk(uaps[TrueUap].clk[q])
        PROVE  (uaps[TrueUap].clk[q] + age') % N = pclk'
    <3>1. uaps[TrueUap].clk[q] \in Clock
      BY TableAssumption DEF TypeOK, SlotOK, Slot
    <3> QED
      BY <2>2, <3>1, BlockInStep
  <2> QED
    BY <2>1, <2>2 DEF StoredClock, SmallSkew, AtPclk
<1>4. CASE SearchHi
  BY <1>4 DEF SearchHi, entry, block, StoredClock, SmallSkew, AtPclk
<1>5. CASE DetectPreamble
  <2> PICK p \in Packet :
         \/ InitCandidates(p) \/ CannotInit(p) \/ Ignore(p) \/ AbortSession(p)
         \/ SkipBroken(p) \/ Unresolved(p) \/ TestCandidates(p)
    BY <1>5 DEF DetectPreamble
  <2>1. Detect(p) => Searchable(p) /\ UNCHANGED <<off, pclk, skew>>
    BY DEF Detect, block
  <2>2. Detect(p) /\ SetTs(p) => age' = 0 /\ tsjit' <= skew.us + 300
    <3>1. p.jit \in 0 .. 300
      BY PacketClocks
    <3>2. off <= skew.us
      BY <1>1, SMTT(30) DEF StoredClock
    <3>a. \A o, u, j \in Int : o <= u /\ j <= 300 => o + j <= u + 300
      OBVIOUS
    <3>b. off \in Int
      BY <1>1
    <3>d. skew.us \in Int
      BY <1>1, SMTT(30)
    <3>e. p.jit \in Int
      BY <3>1
    <3>c. p.jit <= 300
      BY <3>1
    <3>3. off + p.jit <= skew.us + 300
      BY <3>2, <3>a, <3>b, <3>c, <3>d, <3>e
    <3> QED
      BY <3>3 DEF SetTs
  <2>3. CASE InitCandidates(p)
    <3>1. /\ age' = 0 /\ tsjit' <= skew.us + 300 /\ UNCHANGED <<off, pclk, skew>>
          /\ coset' = p.hdr /\ uaps'[TrueUap].clk = ClkTable(p, TrueUap)
      BY <2>1, <2>2, <2>3, TableAssumption DEF InitCandidates
    <3>2. SmallSkew' <=> SmallSkew
      BY <3>1 DEF SmallSkew
    <3>3. SmallSkew /\ p.hdr = Own => \E q \in 1 .. 2 : (ClkTable(p, TrueUap)[q] + 0) % N = pclk
      BY HeardNow
    <3> QED
      BY <3>1, <3>2, <3>3 DEF StoredClock, AtPclk
  <2>4. CASE CannotInit(p)
    BY <2>1, <2>2, <2>4 DEF CannotInit, StoredClock
  <2>5. CASE Ignore(p) \/ SkipBroken(p)
    BY <2>1, <2>5 DEF Ignore, SkipBroken, KeepTs, entry, StoredClock, SmallSkew, AtPclk
  <2>6. CASE AbortSession(p) \/ Unresolved(p)
    BY <1>1, <2>1, <2>6 DEF AbortSession, Unresolved, Erase, StoredClock
  <2>7. CASE TestCandidates(p)
    <3>1. /\ age' = 0 /\ tsjit' <= skew.us + 300 /\ UNCHANGED <<off, pclk, skew, coset>>
          /\ uaps'[TrueUap] = Retested(p, TrueUap) /\ p.hdr = coset
      BY <2>1, <2>2, <2>7, TableAssumption DEF TestCandidates
    <3>2. SmallSkew' <=> SmallSkew
      BY <3>1 DEF SmallSkew
    <3>3. Retested(p, TrueUap).uap_valid => Retested(p, TrueUap).clk = ClkTable(p, TrueUap)
      BY RetestTakesNew, TableAssumption DEF TypeOK, Retested
    <3>4. SmallSkew /\ p.hdr = Own => \E q \in 1 .. 2 : (ClkTable(p, TrueUap)[q] + 0) % N = pclk
      BY HeardNow
    <3> QED
      BY <3>1, <3>2, <3>3, <3>4 DEF StoredClock, AtPclk
  <2> QED
    BY <2>3, <2>4, <2>5, <2>6, <2>7
<1> QED
  BY <1>2, <1>3, <1>4, <1>5 DEF Next

(***************************************************************************)
(* The real UAP survives every packet of its piconet, in both files, for   *)
(* any skew of up to half a slot, unless its clock index has gone stale.   *)
(***************************************************************************)
THEOREM TrueUapIsKept == Spec => []TrueUapKept
<1>1. Init => TypeOK /\ StoredClock
  BY InitTypes, StoredInit
<1>2. TypeOK /\ StoredClock /\ [Next]_vars => (TypeOK /\ StoredClock)'
  BY NextTypes, StoredNext
<1>3. TypeOK /\ StoredClock => TrueUapKept
  BY StoredImpliesKept
<1> QED
  BY <1>1, <1>2, <1>3, PTL DEF Spec


-----------------------------------------------------------------------------
(***************************************************************************)
(* TargetSearch: the decoder's runs, over one file of a list or all of it. *)
(***************************************************************************)

\* A step of the run moves the entry as TargetTracker does, or not at all.
LEMMA SearchStepsTrack == [SearchNext]_allvars => [Next]_vars
  BY DEF SearchNext, Block, NextFile, HearTarget, ResolveOther, Handler, End, Next, allvars

(***************************************************************************)
(* What is proved of TargetTracker holds in every run of the decoder.      *)
(***************************************************************************)
THEOREM SearchTracks == SearchSpec => []ResolvedIsPair /\ []TrueUapKept
<1>1. SearchInit => Init
  BY DEF SearchInit
<1>2. SearchSpec => Spec
  BY <1>1, SearchStepsTrack, PTL DEF SearchSpec, Spec
<1> QED
  BY <1>2, ResolvedIsTwinPair, TrueUapIsKept, PTL

-----------------------------------------------------------------------------
\* What main has been asked for, and the LAPs resolved, are of their types.
ArgumentsOK ==
  /\ argv \in Arguments
  /\ resolved \subseteq OtherLaps /\ Preset \in resolved
  /\ lap_to_find \in [argv.list -> {0, 1}] /\ number_of_lap_to_find \in Int

SearchInv == ArgumentsOK /\ TallyIsExact /\ StopsWhenFound

\* An argument is a LAP, or a number of the LAPs of a list.
LEMMA ArgumentKinds ==
  ASSUME ArgumentsOK
  PROVE  /\ \/ argv.list = {} /\ argv.number = 0
            \/ argv.lap = NoLap /\ argv.list # {} /\ argv.number \in Nat /\ argv.number >= 1
         /\ argv.lap # NoLap => argv.list = {}
         /\ argv.number \in Int
         /\ argv.list \subseteq Lap /\ DOMAIN lap_to_find = argv.list
<1>1. DOMAIN lap_to_find = argv.list
  BY DEF ArgumentsOK
<1>2. CASE argv.list = {} /\ argv.number = 0
  BY <1>1, <1>2
<1>3. CASE argv.lap = NoLap /\ argv.list \subseteq Lap /\ argv.number \in 1 .. Cardinality(argv.list)
  <2>1. IsFiniteSet(Lap)
    BY LapAssumption, FS_AddElement DEF Lap
  <2>2. IsFiniteSet(argv.list) /\ Cardinality(argv.list) \in Nat
    BY <1>3, <2>1, FS_Subset, FS_CardinalityType
  <2>3. argv.number \in Nat /\ argv.number >= 1
    BY <1>3, <2>2
  <2>4. argv.list # {}
    <3>1. Cardinality({}) = 0
      BY FS_EmptySet
    <3> QED
      BY <1>3, <2>2, <3>1
  <2> QED
    BY <1>1, <1>3, <2>3, <2>4
<1> QED
  BY <1>2, <1>3, ArgumentsAssumption DEF ArgumentsOK

\* The LAPs found are finitely many LAPs, the preset one not among them.
LEMMA FoundType ==
  ASSUME ArgumentsOK
  PROVE  /\ Found \subseteq Lap /\ Preset \notin Found /\ NoLap \notin Found
         /\ IsFiniteSet(ListFound) /\ Cardinality(ListFound) \in Nat
<1>1. Found \subseteq Lap /\ Preset \notin Found
  BY LapAssumption DEF ArgumentsOK, Found, Lap
<1>2. IsFiniteSet(Lap)
  BY LapAssumption, FS_AddElement DEF Lap
<1>3. IsFiniteSet(ListFound)
  BY <1>1, <1>2, FS_Subset DEF ListFound
<1> QED
  BY <1>1, <1>3, LapAssumption, FS_CardinalityType

\* One LAP more is found: it is counted once, if it is on the list.
LEMMA AnnouncedIsCounted ==
  ASSUME SearchInv, ArgumentsOK', NEW l \in Lap, l \notin Found, Announce(l),
         Found' = Found \cup {l}, UNCHANGED <<argv, sigint>>, ended = "no"
  PROVE  TallyIsExact' /\ StopsWhenFound'
<1> DEFINE k == Cardinality(ListFound)
<1>1. /\ k \in Nat /\ IsFiniteSet(ListFound) /\ NoLap \notin Found /\ NoLap \notin Found'
      /\ number_of_lap_to_find = argv.number - k
  BY FoundType, LapAssumption DEF SearchInv, TallyIsExact
<1>2. /\ DOMAIN lap_to_find = argv.list /\ DOMAIN lap_to_find' = argv.list
      /\ argv.number \in Int
  BY ArgumentKinds DEF SearchInv, ArgumentsOK
<1>3. \A o \in argv.list : lap_to_find[o] = 0 <=> o \in Found
  BY <1>2 DEF SearchInv, TallyIsExact
<1>4. running <=> ~Goal /\ ~sigint
  BY DEF SearchInv, StopsWhenFound
<1>5. CASE l \notin argv.list
  <2>1. ListFound' = ListFound
    BY <1>2, <1>5 DEF ListFound
  <2>2. UNCHANGED <<lap_to_find, number_of_lap_to_find, ended>>
    BY <1>2, <1>5 DEF Announce, IsTarget, StrikeOff, AlreadyFound, NotAskedFor, search
  <2>3. TallyIsExact'
    BY <1>1, <1>2, <1>3, <1>5, <2>1, <2>2 DEF TallyIsExact, SearchInv
  <2>4. CASE l = argv.lap
    <3>1. running' = FALSE
      BY <1>2, <1>5, <2>4 DEF Announce, IsTarget, StrikeOff, AlreadyFound, NotAskedFor
    <3>2. Goal'
      BY <2>4 DEF Goal
    <3> QED
      BY <2>3, <3>1, <3>2 DEF StopsWhenFound
  <2>5. CASE l # argv.lap
    <3>1. running' = running
      BY <1>2, <1>5, <2>5 DEF Announce, IsTarget, StrikeOff, AlreadyFound, NotAskedFor, search
    <3>2. Goal' <=> Goal
      BY <2>1, <2>5 DEF Goal, find_list
    <3> QED
      BY <1>4, <2>3, <3>1, <3>2 DEF StopsWhenFound
  <2> QED
    BY <2>4, <2>5
<1>6. CASE l \in argv.list
  <2>1. argv.lap = NoLap /\ argv.list # {} /\ find_list /\ find_list'
    BY <1>6, ArgumentKinds DEF SearchInv, find_list
  <2>2. lap_to_find[l] = 1
    BY <1>3, <1>6 DEF SearchInv, ArgumentsOK
  <2>3. /\ lap_to_find' = [lap_to_find EXCEPT ![l] = 0]
        /\ number_of_lap_to_find' = number_of_lap_to_find - 1
        /\ running' = (running /\ number_of_lap_to_find' # 0)
        /\ UNCHANGED ended
    BY <1>2, <1>6, <2>1, <2>2, LapAssumption
       DEF Announce, IsTarget, StrikeOff, AlreadyFound, NotAskedFor
  <2>4. ListFound' = ListFound \cup {l} /\ l \notin ListFound
    BY <1>2, <1>6 DEF ListFound
  <2>5. Cardinality(ListFound') = k + 1
    BY <1>1, <2>4, FS_AddElement
  <2>6. number_of_lap_to_find' = argv.number - Cardinality(ListFound')
    BY <1>1, <1>2, <2>3, <2>5
  <2>7. \A o \in argv.list : lap_to_find'[o] = 0 <=> o \in Found'
    BY <1>2, <1>3, <1>6, <2>3
  <2>8. TallyIsExact'
    BY <1>2, <2>3, <2>6, <2>7 DEF TallyIsExact, SearchInv
  <2>9. (Goal <=> k >= argv.number) /\ (Goal' <=> k + 1 >= argv.number)
    BY <1>1, <2>1, <2>5 DEF Goal
  <2>10. /\ ~(k >= argv.number) => (number_of_lap_to_find' # 0 <=> ~(k + 1 >= argv.number))
         /\ k >= argv.number => k + 1 >= argv.number
    BY <1>1, <1>2, <2>5, <2>6
  <2>11. running' <=> running /\ number_of_lap_to_find' # 0
    BY <2>3
  <2>12. running' <=> ~Goal' /\ ~sigint
    BY <1>4, <2>9, <2>10, <2>11
  <2> QED
    BY <2>8, <2>12 DEF StopsWhenFound
<1> QED
  BY <1>5, <1>6

\* Nothing is found when the search begins.
LEMMA SearchInvInit == SearchInit => SearchInv
<1> SUFFICES ASSUME SearchInit PROVE SearchInv
  OBVIOUS
<1>1. Found = {} /\ ListFound = {} /\ Cardinality(ListFound) = 0
  <2>1. Found = {}
    BY DEF SearchInit, Init, Found
  <2> QED
    BY <2>1, FS_EmptySet DEF ListFound
<1>2. ArgumentsOK
  <2>1. lap_to_find \in [argv.list -> {0, 1}]
    BY DEF SearchInit
  <2>2. argv.number \in Int
    <3>1. CASE argv.list = {} /\ argv.number = 0
      BY <3>1
    <3>2. CASE argv.number \in 1 .. Cardinality(argv.list)
      BY <3>2
    <3> QED
      BY <3>1, <3>2, ArgumentsAssumption DEF SearchInit
  <2> QED
    BY <2>1, <2>2, LapAssumption DEF ArgumentsOK, SearchInit
<1>3. number_of_lap_to_find = argv.number - Cardinality(ListFound)
  BY <1>1, <1>2, ArgumentKinds DEF SearchInit
<1>4. TallyIsExact
  BY <1>1, <1>3 DEF TallyIsExact, SearchInit
<1>5. ~Goal
  <2>1. ~(find_list /\ Cardinality(ListFound) >= argv.number)
    BY <1>1, <1>2, ArgumentKinds DEF find_list
  <2> QED
    BY <1>1, <2>1 DEF Goal
<1> QED
  BY <1>2, <1>4, <1>5 DEF SearchInv, StopsWhenFound, SearchInit

\* No step of the run miscounts.
LEMMA SearchInvNext == SearchInv /\ [SearchNext]_allvars => SearchInv'
<1> SUFFICES ASSUME SearchInv, [SearchNext]_allvars PROVE SearchInv'
  OBVIOUS
<1>0. ended # "exit(1)"
  BY DEF SearchInv, TallyIsExact
<1>1. ASSUME UNCHANGED <<argv, resolved, search, sigint>>,
             lapstate' = "RESOLVED" <=> lapstate = "RESOLVED", ended' # "exit(1)"
      PROVE  SearchInv'
  <2>1. Found' = Found
    BY <1>1 DEF Found
  <2>2. ListFound' = ListFound /\ (Goal' <=> Goal)
    BY <1>1, <2>1 DEF search, ListFound, Goal, find_list
  <2>3. ArgumentsOK' /\ TallyIsExact'
    BY <1>1, <2>1, <2>2 DEF search, SearchInv, ArgumentsOK, TallyIsExact
  <2>4. StopsWhenFound'
    BY <1>1, <2>2 DEF search, SearchInv, StopsWhenFound
  <2> QED
    BY <2>3, <2>4 DEF SearchInv
<1>2. CASE UNCHANGED allvars
  BY <1>0, <1>1, <1>2 DEF allvars, vars, entry, searchvars
<1>3. CASE Block \/ NextFile
  BY <1>0, <1>1, <1>3 DEF Block, NextFile, ReadBlock, SearchHi, entry, searchvars
<1>4. CASE HearTarget
  <2>1. lapstate = "RESOLVED" => lapstate' = "RESOLVED"
    BY <1>4 DEF HearTarget, DetectPreamble, InitCandidates, CannotInit, Ignore, AbortSession,
       SkipBroken, Unresolved, TestCandidates, Tested, entry
  <2>2. CASE lapstate # "RESOLVED" /\ lapstate' = "RESOLVED"
    <3>1. Announce(Target) /\ UNCHANGED <<argv, resolved, sigint>> /\ ended = "no"
      BY <1>4, <2>2 DEF HearTarget
    <3>2. Found' = Found \cup {Target} /\ Target \notin Found
      BY <2>2, <3>1, LapAssumption DEF Found, SearchInv, ArgumentsOK
    <3>3. ArgumentsOK'
      BY <3>1 DEF SearchInv, ArgumentsOK, Announce, IsTarget, StrikeOff, AlreadyFound,
         NotAskedFor, search
    <3> QED
      BY <3>1, <3>2, <3>3, AnnouncedIsCounted DEF SearchInv, Lap
  <2>3. CASE ~(lapstate # "RESOLVED" /\ lapstate' = "RESOLVED")
    BY <1>0, <1>1, <1>4, <2>1, <2>3 DEF HearTarget
  <2> QED
    BY <2>2, <2>3
<1>5. CASE \E l \in OtherLaps : ResolveOther(l)
  <2> PICK l \in OtherLaps : ResolveOther(l)
    BY <1>5
  <2>1. /\ Announce(l) /\ UNCHANGED <<argv, sigint, lapstate>> /\ ended = "no"
        /\ resolved' = resolved \cup {l} /\ l \notin resolved
    BY DEF ResolveOther, vars, entry
  <2>2. Found' = Found \cup {l} /\ l \notin Found
    BY <2>1, LapAssumption DEF Found, SearchInv, ArgumentsOK
  <2>3. ArgumentsOK'
    BY <2>1 DEF SearchInv, ArgumentsOK, Announce, IsTarget, StrikeOff, AlreadyFound,
       NotAskedFor, search
  <2> QED
    BY <2>1, <2>2, <2>3, AnnouncedIsCounted DEF SearchInv, Lap
<1>6. CASE Handler
  <2>1. Found' = Found /\ ListFound' = ListFound
    BY <1>6 DEF Handler, vars, entry, Found, ListFound
  <2> QED
    BY <1>6, <2>1 DEF Handler, SearchInv, ArgumentsOK, TallyIsExact, StopsWhenFound
<1>7. CASE End
  BY <1>1, <1>7 DEF End, vars, entry
<1> QED
  BY <1>2, <1>3, <1>4, <1>5, <1>6, <1>7 DEF SearchNext

(***************************************************************************)
(* The LAPs to find are counted exactly, each once, and "already found" is *)
(* not reached, for any list and any order of resolving.                   *)
(***************************************************************************)
THEOREM TallyIsAlwaysExact == SearchSpec => []TallyIsExact
<1>1. SearchInv => TallyIsExact
  BY DEF SearchInv
<1> QED
  BY <1>1, SearchInvInit, SearchInvNext, PTL DEF SearchSpec

(***************************************************************************)
(* The decoder stops exactly when it has found what it was asked for, or   *)
(* at an interrupt.                                                        *)
(***************************************************************************)
THEOREM StopsExactlyWhenFound == SearchSpec => []StopsWhenFound
<1>1. SearchInv => StopsWhenFound
  BY DEF SearchInv
<1> QED
  BY <1>1, SearchInvInit, SearchInvNext, PTL DEF SearchSpec

-----------------------------------------------------------------------------
\* Whether main runs, was interrupted or has ended.
RunOK ==
  /\ running \in BOOLEAN /\ sigint \in BOOLEAN
  /\ ended \in {"no", "exit(0)", "exit(1)", "crashed"}

\* No step of the run gives them another value.
LEMMA RunStaysOK == RunOK /\ [SearchNext]_allvars => RunOK'
<1> SUFFICES ASSUME RunOK, [SearchNext]_allvars PROVE RunOK'
  OBVIOUS
<1>1. ASSUME UNCHANGED <<running, sigint, ended>> PROVE RunOK'
  BY <1>1 DEF RunOK
<1>2. ASSUME NEW l, Announce(l), UNCHANGED sigint PROVE RunOK'
  <2>1. running' \in BOOLEAN
    BY <1>2 DEF RunOK, Announce, IsTarget, StrikeOff, AlreadyFound, NotAskedFor, search
  <2>2. ended' = ended \/ ended' = "exit(1)"
    BY <1>2 DEF Announce, IsTarget, StrikeOff, AlreadyFound, NotAskedFor
  <2> QED
    BY <1>2, <2>1, <2>2 DEF RunOK
<1>3. CASE HearTarget
  BY <1>1, <1>2, <1>3 DEF HearTarget, search
<1>4. CASE \E l \in OtherLaps : ResolveOther(l)
  BY <1>2, <1>4 DEF ResolveOther
<1>5. CASE Handler
  BY <1>5 DEF Handler, RunOK
<1>6. CASE End
  BY <1>6 DEF End, RunOK, search
<1> QED
  BY <1>1, <1>3, <1>4, <1>5, <1>6
     DEF SearchNext, Block, NextFile, allvars, searchvars, search

(***************************************************************************)
(* Type correctness of a run of the decoder.                               *)
(***************************************************************************)
THEOREM SearchTypeCorrect == SearchSpec => []SearchTypeOK
<1>1. SearchInit => Init /\ RunOK
  BY DEF SearchInit, RunOK
<1>2. TypeOK /\ SearchInv /\ RunOK => SearchTypeOK
  BY DEF SearchTypeOK, SearchInv, ArgumentsOK, RunOK
<1>3. SearchSpec => Spec
  BY <1>1, SearchStepsTrack, PTL DEF SearchSpec, Spec
<1> QED
  BY <1>1, <1>2, <1>3, TypeCorrect, SearchInvInit, SearchInvNext, RunStaysOK, PTL DEF SearchSpec
=============================================================================
