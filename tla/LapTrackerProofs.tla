-------------------------- MODULE LapTrackerProofs --------------------------
(***************************************************************************)
(* Proofs about LapTracker, for every clock period N and every candidate   *)
(* table with the shape that module Hec finds in the code.                 *)
(***************************************************************************)
EXTENDS LapTracker, UapEliminationProofs

-----------------------------------------------------------------------------
\* A packet's clocks are clocks.
LEMMA PacketClocks ==
  ASSUME NEW p \in Packet, pclk \in Clock
  PROVE  /\ PacketClk(p) \in Clock /\ HeaderClk(p) \in Clock
         /\ p.adv \in Int /\ p.slip \in Int /\ p.jit \in 0 .. 300 /\ p.err \in Clock
         /\ p.jit \in Jitters /\ p.hdr \in Coset \cup {"none"}
<1>1. /\ p.adv \in Int /\ p.slip \in Int /\ p.jit \in 0 .. 300 /\ p.err \in Clock
      /\ p.jit \in Jitters /\ p.hdr \in Coset \cup {"none"}
  BY InputAssumption, ZenonT(60) DEF Packet
<1>2. PacketClk(p) \in Clock
  BY <1>1, ModIsClock, ClockAssumption, SMTT(30) DEF Clock, PacketClk
<1>3. HeaderClk(p) \in Clock
  BY <1>1, <1>2, ModIsClock, ClockAssumption DEF Clock, HeaderClk
<1> QED
  BY <1>1, <1>2, <1>3

\* extract_header_bf returns a good pair for every candidate of the coset.
LEMMA ClkTableIsGood ==
  ASSUME NEW p \in Packet, pclk \in Clock, NEW u \in Cand
  PROVE  /\ ClkTable(p, u) = Sorted(Table[HeaderClk(p)][u])
         /\ Table[HeaderClk(p)][u] \in Clock
         /\ GoodPair(ClkTable(p, u))
  BY PacketClocks, FitClksAreGood DEF ClkTable

-----------------------------------------------------------------------------
(***************************************************************************)
(* Type correctness.                                                       *)
(***************************************************************************)

\* The measured distance and the slots it rounds to are integers.
LEMMA TimeTypes ==
  ASSUME TypeOK, NEW p \in Packet
  PROVE  Delta(p) \in Int /\ Periods(Delta(p)) \in Int /\ tsjit \in 0 .. 300 /\ age \in Int
<1>1. tsjit \in 0 .. 300 /\ age \in Int
  BY InputAssumption DEF TypeOK
<1>2. Delta(p) \in Int
  BY <1>1, PacketClocks, SMTT(30) DEF TypeOK, Delta
<1>3. \A d \in Int : Periods(d) \in Int
  BY DEF Periods
<1> QED
  BY <1>1, <1>2, <1>3

\* Whatever the extraction settles on is a clock.
LEMMA ResolvesIsClock ==
  ASSUME TypeOK, NEW p \in Packet, NEW pay \in Payloads
  PROVE  Resolves(p, pay) \subseteq Clock
<1>1. last_clk + Periods(Delta(p)) \in Int
  BY TimeTypes, ClockAssumption DEF TypeOK, Clock
<1>2. Predicted(p) \in Clock
  BY <1>1, ModIsClock DEF Predicted
<1>3. \A k \in 1 .. 5 : NearClk(p, k) \in Clock
  <2>1. \A k \in 1 .. 5 : Offsets[k] \in Int
    BY DEF Offsets
  <2>2. \A k \in 1 .. 5 : Predicted(p) + Offsets[k] \in Int
    BY <1>2, <2>1, ClockAssumption DEF Clock
  <2> QED
    BY <2>2, ModIsClock DEF NearClk
<1>4. \A S : Least(S) \subseteq S
  BY DEF Least
<1> DEFINE near == {k \in 1 .. 5 : NearTry(p, pay, k)}
<1>5. {NearClk(p, k) : k \in Least(near)} \subseteq Clock
  BY <1>3, <1>4
<1>6. Least({x \in Clock : FarTry(p, pay, x)}) \subseteq Clock
  BY <1>4
<1> QED
  BY <1>5, <1>6 DEF Resolves

\* The role bookkeeping at a clock keeps its types.
LEMMA RoleTypes ==
  ASSUME TypeOK, NEW p \in Packet, NEW pay \in Payloads, NEW x \in Clock,
         RecordRole(p, pay, x)
  PROVE  master_clk_parity' \in {0, 1} /\ last_role' \in {"MASTER", "SLAVE"}
<1>1. x % 2 \in {0, 1}
  BY ClockAssumption DEF Clock
<1> QED
  BY <1>1 DEF RecordRole, TypeOK

\* The values of an entry that is not there.
LEMMA FreshTypes ==
  /\ DOMAIN FreshUaps = Cand /\ \A u \in Cand : SlotOK(FreshUaps[u])
  /\ NoPair \in Cand \X Cand /\ TrueUap \in Cand /\ Own \in Coset
  /\ 0 \in Clock /\ 0 \in -1 .. MaxAge
<1>1. SlotOK(NoSlot)
  BY ClockAssumption DEF SlotOK, NoSlot, Slot, Clock, INVALID_CLK_INDEX
<1>2. DOMAIN FreshUaps = Cand /\ \A u \in Cand : SlotOK(FreshUaps[u])
  BY <1>1 DEF FreshUaps
<1>3. NoPair \in Cand \X Cand /\ TrueUap \in Cand /\ Own \in Coset
  BY TableAssumption, InputAssumption DEF NoPair
<1>4. 0 \in Clock /\ 0 \in -1 .. MaxAge
  BY ClockAssumption, InputAssumption DEF Clock
<1> QED
  BY <1>2, <1>3, <1>4

\* Erasing the entry leaves a well-typed one.
LEMMA EraseTypes ==
  ASSUME TypeOK, NEW p \in Packet, Arrive(p), Erase
  PROVE  TypeOK'
<1>1. pclk' \in Clock
  BY PacketClocks DEF TypeOK, Arrive
<1> QED
  BY <1>1, FreshTypes DEF TypeOK, Erase

\* The table after a test of all candidates.
LEMMA TestAllTypes ==
  ASSUME TypeOK, NEW p \in Packet, TestAll(p)
  PROVE  /\ DOMAIN uaps' = Cand /\ \A u \in Cand : SlotOK(uaps'[u])
         /\ age' \in -1 .. MaxAge /\ tsjit' \in Jitters \cup {0}
         /\ pclk' \in Clock
<1>1. \A u \in Cand : SlotOK(Retested(p, u))
  BY ClkTableIsGood, RetestKeepsSlot DEF TypeOK, Retested
<1>2. pclk' \in Clock
  BY PacketClocks DEF TypeOK, Arrive, TestAll
<1> QED
  BY <1>1, <1>2, PacketClocks, InputAssumption DEF TypeOK, TestAll, SetTs

\* The pair is made of candidates.
LEMMA EnterPairTypes ==
  ASSUME TypeOK, EnterPair
  PROVE  two_uap_stage' \in BOOLEAN /\ uap_pair' \in Cand \X Cand /\ coset' \in Coset
<1>1. Survivors' \subseteq Cand
  BY DEF Survivors
<1>2. coset' \in Coset
  BY DEF EnterPair, TypeOK
<1>3. CASE ~two_uap_stage /\ Cardinality(Survivors') = 2
  <2>1. two_uap_stage' = TRUE /\ \E a, b \in Survivors' : uap_pair' = <<a, b>>
    BY <1>3 DEF EnterPair
  <2> QED
    BY <1>1, <1>2, <2>1
<1>4. CASE ~(~two_uap_stage /\ Cardinality(Survivors') = 2)
  BY <1>2, <1>4 DEF EnterPair, TypeOK
<1> QED
  BY <1>3, <1>4

\* The absent entry is well typed.
LEMMA InitTypes == Init => TypeOK
  BY FreshTypes DEF Init, TypeOK

\* One step per handler.
LEMMA NextTypes == TypeOK /\ [Next]_vars => TypeOK'
<1> SUFFICES ASSUME TypeOK, [Next]_vars PROVE TypeOK'
  OBVIOUS
<1>1. CASE UNCHANGED vars
  BY <1>1 DEF TypeOK, vars, entry
<1>2. CASE Next
  <2> PICK p \in Packet : InitCandidates(p) \/ InitFails(p) \/ BruteForce(p) \/ Follow(p)
    BY <1>2 DEF Next
  <2>1. Arrive(p) => pclk' \in Clock /\ age + p.adv \in -1 .. MaxAge
    BY PacketClocks DEF TypeOK, Arrive
  <2>2. SetTs(p) => age' \in -1 .. MaxAge /\ tsjit' \in Jitters \cup {0}
    BY PacketClocks, InputAssumption DEF SetTs, TypeOK
  <2>3. Arrive(p) /\ KeepTs(p) => age' \in -1 .. MaxAge /\ tsjit' \in Jitters \cup {0}
    BY <2>1 DEF KeepTs, TypeOK
  <2>4. CASE InitCandidates(p)
    <3>1. \A u \in Cand : SlotOK([uap_valid |-> TRUE, clk |-> ClkTable(p, u),
                                  clk_index |-> INVALID_CLK_INDEX])
      BY ClkTableIsGood DEF SlotOK, Slot, GoodPair, INVALID_CLK_INDEX, TypeOK
    <3>2. p.hdr \in Coset
      BY <2>4, PacketClocks DEF InitCandidates, TypeOK
    <3> QED
      BY <2>1, <2>2, <2>4, <3>1, <3>2 DEF InitCandidates, TypeOK
  <2>5. CASE InitFails(p)
    BY <2>1, <2>2, <2>5 DEF InitFails, entry, TypeOK
  <2>6. CASE SkipInThePast(p) \/ SkipTooClose(p) \/ SkipBroken(p)
    BY <2>1, <2>2, <2>3, <2>6 DEF SkipInThePast, SkipTooClose, SkipBroken, entry, TypeOK
  <2>7. CASE EraseBadTiming(p) \/ EraseNoCandidate(p)
    BY <2>7, EraseTypes DEF EraseBadTiming, EraseNoCandidate
  <2>8. CASE TestCandidates(p)
    <3>1. TestAll(p)
      BY <2>8 DEF TestCandidates
    <3>2. CASE Narrow
      BY <3>1, <3>2, TestAllTypes DEF Narrow, TypeOK
    <3>3. CASE EnterPair /\ \E pay \in Payloads : TryPair(p, pay)
      <4>1. PICK pay \in Payloads : TryPair(p, pay)
        BY <3>3
      <4>2. two_uap_stage' \in BOOLEAN /\ uap_pair' \in Cand \X Cand /\ coset' \in Coset
        BY <3>3, EnterPairTypes
      <4>3. CASE LockFails(p, pay)
        BY <3>1, <4>2, <4>3, TestAllTypes DEF LockFails, TypeOK
      <4>4. CASE \E i, q \in 1 .. 2 : Lock(p, pay, i, q)
        <5> PICK i \in 1 .. 2, q \in 1 .. 2 : Lock(p, pay, i, q)
          BY <4>4
        <5>1. uap_pair'[i] \in Cand
          BY <4>2
        <5>2. uaps'[uap_pair'[i]].clk[q] \in Clock
          BY <3>1, <5>1, TestAllTypes DEF SlotOK, Slot
        <5>3. last_clk' \in Clock /\ locked_uap' \in Cand /\ status' = "UAP_LOCKED"
          BY <5>1, <5>2 DEF Lock
        <5>4. master_clk_parity' \in {0, 1} /\ last_role' \in {"MASTER", "SLAVE"}
          BY <5>3, RoleTypes DEF Lock
        <5> QED
          BY <3>1, <4>2, <5>3, <5>4, TestAllTypes DEF TypeOK
      <4> QED
        BY <4>1, <4>3, <4>4 DEF TryPair
    <3> QED
      BY <2>8, <3>2, <3>3 DEF TestCandidates
  <2>9. CASE Follow(p)
    <3>1. CASE LockedFails(p)
      BY <2>1, <2>3, <2>9, <3>1 DEF Follow, LockedFails, entry, TypeOK
    <3>2. CASE \E pay \in Payloads : \E x \in Resolves(p, pay) : LockedOk(p, pay, x)
      <4> PICK pay \in Payloads : \E x \in Resolves(p, pay) : LockedOk(p, pay, x)
        BY <3>2
      <4> PICK x \in Resolves(p, pay) : LockedOk(p, pay, x)
        OBVIOUS
      <4>1. x \in Clock
        BY ResolvesIsClock
      <4>2. master_clk_parity' \in {0, 1} /\ last_role' \in {"MASTER", "SLAVE"}
        BY <4>1, RoleTypes DEF LockedOk
      <4> QED
        BY <2>1, <2>2, <2>9, <4>1, <4>2 DEF Follow, LockedOk, TypeOK
    <3> QED
      BY <2>9, <3>1, <3>2 DEF Follow
  <2> QED
    BY <2>4, <2>5, <2>6, <2>7, <2>8, <2>9 DEF BruteForce
<1> QED
  BY <1>1, <1>2

(***************************************************************************)
(* The entry of a LAP stays well-formed: every valid candidate slot holds  *)
(* two complementary clocks in order, every other one is all zero, and the *)
(* clock a lock predicts from is a clock.                                  *)
(***************************************************************************)
THEOREM TypeCorrect == Spec => []TypeOK
  BY InitTypes, NextTypes, PTL DEF Spec

-----------------------------------------------------------------------------
\* The inductive invariant behind TwinsTogether.
TwinInv == \A u \in Cand : TwinSlots(uaps[u], uaps[Twin[u]])

\* One header fits a candidate and its twin with twin pairs.
LEMMA ClkTableTwins ==
  ASSUME NEW p \in Packet, pclk \in Clock, NEW u \in Cand
  PROVE  Twin[u] \in Cand /\ TwinPairs(ClkTable(p, u), ClkTable(p, Twin[u]))
  BY PacketClocks, FitClksOfTwins DEF ClkTable

\* The slots of an absent entry are twins.
LEMMA TwinInit == Init => TwinInv
  BY FreshTwins DEF Init, TwinInv

\* Removing a LAP leaves slots that are twins.
LEMMA TwinErase == Erase => TwinInv'
  BY FreshTwins DEF Erase, TwinInv

\* Testing all candidates keeps or discards both of two twins.
LEMMA TwinTestAll ==
  ASSUME TypeOK, TwinInv, NEW p \in Packet, TestAll(p)
  PROVE  TwinInv'
<1> SUFFICES ASSUME NEW u \in Cand PROVE TwinSlots(uaps'[u], uaps'[Twin[u]])
  BY DEF TwinInv
<1>1. Twin[u] \in Cand /\ TwinPairs(ClkTable(p, u), ClkTable(p, Twin[u]))
  BY ClkTableTwins DEF TypeOK
<1>2. GoodPair(ClkTable(p, u)) /\ GoodPair(ClkTable(p, Twin[u]))
  BY <1>1, ClkTableIsGood DEF TypeOK
<1>3. SlotOK(uaps[u]) /\ SlotOK(uaps[Twin[u]]) /\ TwinSlots(uaps[u], uaps[Twin[u]])
  BY <1>1 DEF TypeOK, TwinInv
<1>4. TwinSlots(Retested(p, u), Retested(p, Twin[u]))
  BY <1>1, <1>2, <1>3, RetestTwins DEF Retested
<1> QED
  BY <1>1, <1>4 DEF TestAll

\* No packet parts two twins.
LEMMA TwinNext == TypeOK /\ TwinInv /\ [Next]_vars => TwinInv'
<1> SUFFICES ASSUME TypeOK, TwinInv, [Next]_vars PROVE TwinInv'
  OBVIOUS
<1>1. CASE UNCHANGED uaps
  BY <1>1 DEF TwinInv
<1>2. CASE UNCHANGED vars
  BY <1>1, <1>2 DEF vars, entry
<1>3. CASE Next
  <2> PICK p \in Packet : InitCandidates(p) \/ InitFails(p) \/ BruteForce(p) \/ Follow(p)
    BY <1>3 DEF Next
  <2>1. CASE InitCandidates(p)
    <3> SUFFICES ASSUME NEW u \in Cand PROVE TwinSlots(uaps'[u], uaps'[Twin[u]])
      BY DEF TwinInv
    <3>1. Twin[u] \in Cand /\ TwinPairs(ClkTable(p, u), ClkTable(p, Twin[u]))
      BY ClkTableTwins DEF TypeOK
    <3> QED
      BY <2>1, <3>1 DEF InitCandidates, TwinSlots, INVALID_CLK_INDEX
  <2>2. CASE InitFails(p) \/ SkipInThePast(p) \/ SkipTooClose(p) \/ SkipBroken(p)
    BY <1>1, <2>2 DEF InitFails, SkipInThePast, SkipTooClose, SkipBroken, entry
  <2>3. CASE EraseBadTiming(p) \/ EraseNoCandidate(p)
    BY <2>3, TwinErase DEF EraseBadTiming, EraseNoCandidate
  <2>4. CASE TestCandidates(p)
    BY <2>4, TwinTestAll DEF TestCandidates
  <2>5. CASE Follow(p)
    BY <1>1, <2>5 DEF Follow, LockedFails, LockedOk, entry
  <2> QED
    BY <2>1, <2>2, <2>3, <2>4, <2>5 DEF BruteForce
<1> QED
  BY <1>2, <1>3

\* Twin slots are both valid or both discarded.
LEMMA TwinInvImplies == TwinInv => TwinsTogether
  BY DEF TwinInv, TwinSlots, TwinsTogether

(***************************************************************************)
(* Two candidates half a clock period apart are discarded together, for    *)
(* every header, every loss of samples and every order of packets: the     *)
(* elimination by slot distances cannot go below two.                      *)
(***************************************************************************)
THEOREM TwinsStayTogether == Spec => []TwinsTogether
<1>1. TypeOK /\ TwinInv /\ [Next]_vars => (TypeOK /\ TwinInv)'
  BY NextTypes, TwinNext
<1>2. Init => TypeOK /\ TwinInv
  BY InitTypes, TwinInit
<1> QED
  BY <1>1, <1>2, TwinInvImplies, PTL DEF Spec

-----------------------------------------------------------------------------
(***************************************************************************)
(* The pair of the two-UAP stage.                                          *)
(***************************************************************************)
PairInv ==
  /\ PairIsSurvivors
  /\ status \in {"ABSENT", "NEW"} => ~two_uap_stage

\* There are finitely many survivors.
LEMMA SurvivorsFinite ==
  /\ IsFiniteSet(Survivors) /\ IsFiniteSet(Survivors')
  /\ Cardinality(Survivors) \in Nat /\ Cardinality(Survivors') \in Nat
<1>1. Survivors \subseteq Cand /\ Survivors' \subseteq Cand
  BY DEF Survivors
<1> QED
  BY <1>1, TableAssumption, FS_Subset, FS_CardinalityType

\* A test discards candidates and brings none back.
LEMMA TestShrinks ==
  ASSUME TypeOK, NEW p \in Packet, TestAll(p)
  PROVE  Survivors' \subseteq Survivors
<1> SUFFICES ASSUME NEW u \in Cand, uaps'[u].uap_valid, ~uaps[u].uap_valid PROVE FALSE
  BY DEF Survivors
<1>1. uaps'[u] = uaps[u]
  BY DEF TestAll, Retested, Retest
<1> QED
  BY <1>1

\* Survivors come in pairs, so one is never alone.
LEMMA SurvivorHasTwin ==
  ASSUME TwinInv', NEW u \in Survivors'
  PROVE  Twin[u] \in Survivors' /\ Twin[u] # u
  BY TwinAssumption DEF TwinInv, TwinSlots, Survivors

\* A test leaves the frozen pair the survivors, or freezes what it leaves.
LEMMA PairTest ==
  ASSUME TypeOK, TwinInv, PairInv, NEW p \in Packet, TestCandidates(p)
  PROVE  PairInv'
<1>1. TestAll(p) /\ TwinInv' /\ Survivors' \subseteq Survivors
  BY TwinTestAll, TestShrinks DEF TestCandidates
<1>2. status = "BRUTE_FORCING" /\ status' \in {"BRUTE_FORCING", "UAP_LOCKED"}
  BY DEF TestCandidates, TestAll, Tested, Narrow, TryPair, LockFails, Lock
<1>3. CASE two_uap_stage
  <2> DEFINE a == uap_pair[1]
             b == uap_pair[2]
  <2>1. Survivors' \subseteq {a, b}
    BY <1>1, <1>3 DEF PairInv, PairIsSurvivors
  <2>2. Cardinality(Survivors') <= 2
    <3>1. IsFiniteSet({a, b}) /\ Cardinality({a, b}) <= 2
      BY CardinalityPair
    <3>2. Cardinality(Survivors') <= Cardinality({a, b}) /\ Cardinality({a, b}) \in Nat
      BY <2>1, <3>1, FS_Subset, FS_CardinalityType
    <3> QED
      BY <3>1, <3>2, SurvivorsFinite
  <2>3. EnterPair
    BY <2>2, SurvivorsFinite DEF TestCandidates, Narrow
  <2>4. two_uap_stage' = two_uap_stage /\ uap_pair' = uap_pair
    BY <1>3, <2>3 DEF EnterPair
  <2>5. Survivors' # {}
    BY <2>3, FS_EmptySet DEF EnterPair
  <2>6. a \in Survivors' /\ b \in Survivors'
    BY <1>1, <2>1, <2>5, SurvivorHasTwin
  <2> QED
    BY <1>2, <1>3, <2>1, <2>4, <2>6 DEF PairInv, PairIsSurvivors
<1>4. CASE ~two_uap_stage
  <2>1. CASE Narrow
    BY <1>2, <1>4, <2>1 DEF Narrow, PairInv, PairIsSurvivors
  <2>2. CASE EnterPair
    <3>1. Cardinality(Survivors') # 1
      BY <1>1, SurvivorHasTwin, FS_Singleton, SurvivorsFinite
    <3>2. Cardinality(Survivors') = 2
      BY <2>2, <3>1 DEF EnterPair
    <3>3. two_uap_stage' = TRUE /\ \E a, b \in Survivors' : a < b /\ uap_pair' = <<a, b>>
      BY <1>4, <2>2, <3>2 DEF EnterPair
    <3> PICK a \in Survivors', b \in Survivors' : a < b /\ uap_pair' = <<a, b>>
      BY <3>3
    <3>4. a \in Nat /\ b \in Nat
      BY TableAssumption DEF Survivors
    <3>5. Survivors' = {a, b}
      <4>1. a # b /\ {a, b} \in SUBSET Survivors'
        BY <3>4
      <4>2. Cardinality({a, b}) = 2
        BY <4>1, CardinalityPair
      <4> QED
        BY <3>2, <4>1, <4>2, FS_Subset, SurvivorsFinite
    <3> QED
      BY <1>2, <3>3, <3>5 DEF PairInv, PairIsSurvivors
  <2> QED
    BY <2>1, <2>2 DEF TestCandidates
<1> QED
  BY <1>3, <1>4

\* Before the first packet there is no pair.
LEMMA PairInit == Init => PairInv
  BY DEF Init, PairInv, PairIsSurvivors

\* No packet parts the frozen pair from the survivors.
LEMMA PairNext == TypeOK /\ TwinInv /\ PairInv /\ [Next]_vars => PairInv'
<1> SUFFICES ASSUME TypeOK, TwinInv, PairInv, [Next]_vars PROVE PairInv'
  OBVIOUS
<1>1. CASE UNCHANGED <<status, uaps, two_uap_stage, uap_pair>>
  BY <1>1 DEF PairInv, PairIsSurvivors, Survivors
<1>2. CASE UNCHANGED vars
  BY <1>1, <1>2 DEF vars, entry
<1>3. CASE Next
  <2> PICK p \in Packet : InitCandidates(p) \/ InitFails(p) \/ BruteForce(p) \/ Follow(p)
    BY <1>3 DEF Next
  <2>1. CASE InitCandidates(p)
    <3>1. Survivors' = Cand
      BY <2>1 DEF InitCandidates, Survivors
    <3>2. ~two_uap_stage'
      BY <2>1 DEF InitCandidates, PairInv
    <3> QED
      BY <2>1, <3>1, <3>2, TableAssumption DEF InitCandidates, PairInv, PairIsSurvivors
  <2>2. CASE InitFails(p)
    BY <2>2 DEF InitFails, entry, PairInv, PairIsSurvivors
  <2>3. CASE SkipInThePast(p) \/ SkipTooClose(p) \/ SkipBroken(p)
    BY <1>1, <2>3 DEF SkipInThePast, SkipTooClose, SkipBroken, entry
  <2>4. CASE EraseBadTiming(p) \/ EraseNoCandidate(p)
    BY <2>4 DEF EraseBadTiming, EraseNoCandidate, Erase, PairInv, PairIsSurvivors
  <2>5. CASE TestCandidates(p)
    BY <2>5, PairTest
  <2>6. CASE Follow(p)
    BY <1>1, <2>6 DEF Follow, LockedFails, LockedOk, entry
  <2> QED
    BY <2>1, <2>2, <2>3, <2>4, <2>5, <2>6 DEF BruteForce
<1> QED
  BY <1>2, <1>3

(***************************************************************************)
(* The pair copied when two candidates are left stays the pair of slots    *)
(* that are valid, for as long as the entry lives.                         *)
(***************************************************************************)
THEOREM PairStaysSurvivors == Spec => []PairIsSurvivors
<1> DEFINE Inv == TypeOK /\ TwinInv /\ PairInv
<1>1. Init => Inv
  BY InitTypes, TwinInit, PairInit
<1>2. Inv /\ [Next]_vars => Inv'
  BY NextTypes, TwinNext, PairNext
<1>3. Inv => PairIsSurvivors
  BY DEF PairInv
<1> QED
  BY <1>1, <1>2, <1>3, PTL DEF Spec

-----------------------------------------------------------------------------
(***************************************************************************)
(* Honest time: what holds while no samples are lost between two packets.  *)
(***************************************************************************)

\* Jitter is less than half a slot, so that it never changes the slots counted.
LEMMA PeriodsExact ==
  ASSUME TypeOK, NEW p \in Packet
  PROVE  Periods(Delta(p)) = age + p.adv
<1>1. p.jit \in 0 .. 300 /\ p.adv \in Int /\ tsjit \in 0 .. 300 /\ age \in Int
  BY PacketClocks, TimeTypes DEF TypeOK
<1> DEFINE k == age + p.adv
           e == 2 * (p.jit - tsjit) + 625
<1>3. k \in Int /\ e \in Int /\ 25 <= e /\ e <= 1225
  BY <1>1, SMTT(30)
<1>4. 2 * Delta(p) + 625 = 1250 * k + e
  BY <1>1, SMTT(30) DEF Delta
<1> HIDE DEF k, e
<1>5. \A m, n \in Int : 25 <= n /\ n <= 1225 => (1250 * m + n) \div 1250 = m
  OBVIOUS
<1>6. (1250 * k + e) \div 1250 = k
  BY <1>3, <1>5
<1>7. Periods(Delta(p)) = k
  BY <1>4, <1>6 DEF Periods
<1> QED
  BY <1>7 DEF k

\* The packet's clock, counted from a clock that was the piconet's at ts.
LEMMA HonestClock ==
  ASSUME TypeOK, HonestTime, NEW p \in Packet, NEW c \in Clock, AtPclk(c)
  PROVE  PacketClk(p) = (c + (age + p.adv)) % N
<1>1. p.slip = 0 /\ p.adv \in Int /\ age \in Int /\ c \in Int
  BY PacketClocks, TimeTypes, ClockAssumption DEF TypeOK, HonestTime, Packet, Clock
<1>2. PacketClk(p) = (((c + age) % N) + p.adv) % N
  BY <1>1, ModIsClock, ClockAssumption, SMTT(30) DEF PacketClk, AtPclk, Clock
<1>3. c + age \in Int /\ (c + age) + p.adv = c + (age + p.adv)
  BY <1>1
<1>4. (((c + age) % N) + p.adv) % N = ((c + age) + p.adv) % N
  BY <1>1, <1>3, ModAdd
<1> QED
  BY <1>2, <1>3, <1>4

\* The header was whitened with the packet's own clock.
LEMMA HonestHeader ==
  ASSUME TypeOK, HonestTime, NEW p \in Packet
  PROVE  /\ HeaderClk(p) = PacketClk(p) /\ PacketClk(p) \in Clock
         /\ ClkTable(p, TrueUap) = Sorted(PacketClk(p))
<1>1. p.err = 0 /\ PacketClk(p) \in Clock
  BY PacketClocks DEF TypeOK, HonestTime, Packet
<1>2. HeaderClk(p) = PacketClk(p)
  BY <1>1, ClockMod DEF HeaderClk
<1>3. ClkTable(p, TrueUap) = Sorted(Table[HeaderClk(p)][TrueUap])
  BY ClkTableIsGood, TableAssumption DEF TypeOK
<1> QED
  BY <1>1, <1>2, <1>3, TableAssumption

\* Leaving ts alone keeps a clock in step; setting it when no slot has passed does too.
LEMMA KeepInStep ==
  ASSUME TypeOK, HonestTime, NEW p \in Packet, Arrive(p), NEW c \in Clock, AtPclk(c),
         KeepTs(p) \/ (SetTs(p) /\ age + p.adv = 0)
  PROVE  (c + age') % N = pclk'
<1>1. age' = age + p.adv
  BY DEF KeepTs, SetTs
<1>2. pclk' = PacketClk(p)
  BY DEF Arrive
<1> QED
  BY <1>1, <1>2, HonestClock

-----------------------------------------------------------------------------
(***************************************************************************)
(* The elimination keeps the real UAP.                                     *)
(***************************************************************************)

\* The inductive invariant: one of the two clocks stored is the piconet's at ts.
StoredClock ==
  status = "BRUTE_FORCING" /\ coset = Own /\ uaps[TrueUap].uap_valid
  => \E q \in 1 .. 2 : AtPclk(uaps[TrueUap].clk[q])

\* An index in order is the piconet's clock; so some old clock the test checks is.
LEMMA CheckedClock ==
  ASSUME TypeOK, StoredClock, status = "BRUTE_FORCING", coset = Own,
         uaps[TrueUap].uap_valid, ~StaleIndex
  PROVE  \E o \in OldToCheck(uaps[TrueUap]) : o \in 1 .. 2 /\ AtPclk(uaps[TrueUap].clk[o])
<1>1. uaps[TrueUap].clk_index \in 0 .. 2
  BY TableAssumption DEF TypeOK, SlotOK, Slot
<1>2. CASE uaps[TrueUap].clk_index = 0
  BY <1>2 DEF StoredClock, OldToCheck, INVALID_CLK_INDEX
<1>3. CASE uaps[TrueUap].clk_index # 0
  BY <1>1, <1>3 DEF StaleIndex, OldToCheck, INVALID_CLK_INDEX
<1> QED
  BY <1>2, <1>3

\* A real UAP stored with the clock of ts passes the next genuine test.
LEMMA StoredImpliesKept ==
  ASSUME TypeOK, StoredClock, HonestTime
  PROVE  TrueUapKept
<1> SUFFICES ASSUME status = "BRUTE_FORCING", coset = Own, uaps[TrueUap].uap_valid,
                    ~StaleIndex, NEW p \in Packet
             PROVE  Retested(p, TrueUap).uap_valid
  BY DEF TrueUapKept
<1> DEFINE s == uaps[TrueUap]
           c == PacketClk(p)
           new == ClkTable(p, TrueUap)
           slot == Periods(Delta(p)) % N
<1>1. PICK o \in OldToCheck(s) : o \in 1 .. 2 /\ AtPclk(s.clk[o])
  BY CheckedClock
<1>2. s.clk[o] \in Clock
  BY <1>1, TableAssumption DEF TypeOK, SlotOK, Slot
<1>3. PICK q \in 1 .. 2 : new[q] = c
  BY HonestHeader, SortedIsGood
<1>4. (new[q] - s.clk[o]) % N = slot
  <2>1. c = (s.clk[o] + (age + p.adv)) % N
    BY <1>1, <1>2, HonestClock
  <2>2. s.clk[o] \in Int /\ age + p.adv \in Int /\ c \in Int /\ -s.clk[o] \in Int
    BY <1>2, HonestHeader, PacketClocks, TimeTypes, ClockAssumption DEF TypeOK, Clock
  <2>3. (c + (-s.clk[o])) % N = ((s.clk[o] + (age + p.adv)) + (-s.clk[o])) % N
    BY <2>1, <2>2, ModAdd
  <2>4. (s.clk[o] + (age + p.adv)) + (-s.clk[o]) = age + p.adv /\ c + (-s.clk[o]) = c - s.clk[o]
    BY <2>2
  <2> QED
    BY <1>3, <2>3, <2>4, PeriodsExact
<1>5. q \in Reached(s, new, slot)
  BY <1>1, <1>3, <1>4 DEF Reached
<1>6. Reached(s, new, slot) \in {{1}, {2}, {1, 2}}
  BY <1>5 DEF Reached
<1> HIDE DEF new, slot
<1>7. Retest(s, new, slot).uap_valid
  BY <1>6 DEF Retest
<1> QED
  BY <1>7 DEF Retested, new, slot

\* Nothing is stored before the first packet.
LEMMA StoredInit == Init => StoredClock
  BY DEF Init, StoredClock

\* Every packet leaves the real UAP with the clock the piconet had at ts.
LEMMA StoredNext == TypeOK /\ HonestTime /\ StoredClock /\ [Next]_vars => StoredClock'
<1> SUFFICES ASSUME TypeOK, HonestTime, StoredClock, [Next]_vars,
                    status' = "BRUTE_FORCING", coset' = Own, uaps'[TrueUap].uap_valid
             PROVE  \E q \in 1 .. 2 : (uaps'[TrueUap].clk[q] + age') % N = pclk'
  BY DEF StoredClock, AtPclk
<1>1. CASE UNCHANGED vars
  BY <1>1 DEF vars, entry, StoredClock, AtPclk
<1>2. CASE Next
  <2> PICK p \in Packet : InitCandidates(p) \/ InitFails(p) \/ BruteForce(p) \/ Follow(p)
    BY <1>2 DEF Next
  \* A header just stored, or the same clocks confirmed: its own clock is among them.
  <2>1. ASSUME uaps'[TrueUap].clk = ClkTable(p, TrueUap), Arrive(p), SetTs(p)
        PROVE  \E q \in 1 .. 2 : (uaps'[TrueUap].clk[q] + age') % N = pclk'
    <3>1. PICK q \in 1 .. 2 : uaps'[TrueUap].clk[q] = PacketClk(p)
      BY <2>1, HonestHeader, SortedIsGood
    <3>2. (PacketClk(p) + 0) % N = PacketClk(p)
      BY HonestHeader, ClockMod
    <3> QED
      BY <2>1, <3>1, <3>2 DEF Arrive, SetTs
  \* The slots as they were, in step.
  <2>2. ASSUME UNCHANGED <<status, entry>>, Arrive(p),
               KeepTs(p) \/ (SetTs(p) /\ age + p.adv = 0)
        PROVE  \E q \in 1 .. 2 : (uaps'[TrueUap].clk[q] + age') % N = pclk'
    <3>1. PICK q \in 1 .. 2 : AtPclk(uaps[TrueUap].clk[q])
      BY <2>2 DEF entry, StoredClock
    <3>2. uaps[TrueUap].clk[q] \in Clock
      BY TableAssumption DEF TypeOK, SlotOK, Slot
    <3>3. (uaps[TrueUap].clk[q] + age') % N = pclk'
      BY <2>2, <3>1, <3>2, KeepInStep
    <3> QED
      BY <2>2, <3>3 DEF entry
  <2>3. CASE InitCandidates(p)
    <3>1. uaps'[TrueUap].clk = ClkTable(p, TrueUap)
      BY <2>3, TableAssumption DEF InitCandidates
    <3> QED
      BY <2>1, <2>3, <3>1 DEF InitCandidates
  <2>4. CASE InitFails(p) \/ EraseBadTiming(p) \/ EraseNoCandidate(p)
    BY <2>4 DEF InitFails, EraseBadTiming, EraseNoCandidate, Erase
  <2>5. CASE SkipInThePast(p) \/ SkipBroken(p)
    BY <2>2, <2>5 DEF SkipInThePast, SkipBroken
  <2>6. CASE SkipTooClose(p)
    <3>1. age + p.adv = 0
      <4>1. Delta(p) \in 0 .. 39
        BY <2>6 DEF SkipTooClose, DELTA_TS_SAME_THRESHOLD
      <4>2. Periods(Delta(p)) = 0
        BY <4>1 DEF Periods
      <4> QED
        BY <4>2, PeriodsExact
    <3> QED
      BY <2>2, <2>6, <3>1 DEF SkipTooClose
  <2>7. CASE TestCandidates(p)
    <3>1. TestAll(p)
      BY <2>7 DEF TestCandidates
    <3>2. uaps'[TrueUap] = Retested(p, TrueUap)
      BY <3>1, TableAssumption DEF TestAll
    <3>3. uaps'[TrueUap].clk = ClkTable(p, TrueUap)
      BY <3>2, RetestTakesNew, TableAssumption DEF Retested, TypeOK
    <3> QED
      BY <2>1, <3>1, <3>3 DEF TestAll
  <2>8. CASE Follow(p)
    BY <2>8 DEF Follow, LockedFails, LockedOk
  <2> QED
    BY <2>3, <2>4, <2>5, <2>6, <2>7, <2>8 DEF BruteForce
<1> QED
  BY <1>1, <1>2

(***************************************************************************)
(* The test keeps the piconet's own UAP whatever genuine packet comes      *)
(* next, except when its index is stale (which the code lets happen).      *)
(***************************************************************************)
THEOREM TrueUapIsKept == ASSUME HonestTime PROVE Spec => []TrueUapKept
<1>1. Init => TypeOK /\ StoredClock
  BY InitTypes, StoredInit
<1>2. TypeOK /\ StoredClock /\ [Next]_vars => (TypeOK /\ StoredClock)'
  BY NextTypes, StoredNext
<1>3. TypeOK /\ StoredClock => TrueUapKept
  BY StoredImpliesKept
<1> QED
  BY <1>1, <1>2, <1>3, PTL DEF Spec

-----------------------------------------------------------------------------
(***************************************************************************)
(* Following a lock.                                                       *)
(***************************************************************************)

\* The prediction is the packet's clock.
LEMMA PredictionIsTrue ==
  ASSUME TypeOK, HonestTime, InSync, NEW p \in Packet
  PROVE  Predicted(p) = PacketClk(p)
  BY HonestClock, PeriodsExact DEF InSync, TypeOK, Predicted

\* The clocks tried near it have its parity, which its complement has not.
LEMMA NearIsPrediction ==
  ASSUME NEW c \in Clock, NEW off \in {-4, -2, 0, 2, 4}, NEW x,
         x = (c + off) % N, x \in {c, Comp(c)}
  PROVE  x = c
<1>1. c \in Int /\ c + off \in Int
  BY ClockAssumption DEF Clock
<1>2. x % 2 = (c + off) % 2
  BY <1>1, ModParity
<1>3. (c + off) % 2 = c % 2
  BY <1>1
<1>4. Comp(c) % 2 # c % 2
  BY <1>1, ClockAssumption DEF Comp
<1> QED
  BY <1>2, <1>3, <1>4

\* So nothing but the packet's own clock is ever settled on.
LEMMA ResolvesTrue ==
  ASSUME TypeOK, HonestTime, InSync, NEW p \in Packet, p.hdr = coset, NEW pay \in Payloads
  PROVE  Resolves(p, pay) \subseteq {PacketClk(p)}
<1> DEFINE c == PacketClk(p)
           near == {k \in 1 .. 5 : NearTry(p, pay, k)}
<1>1. c \in Clock /\ HeaderClk(p) = c /\ Predicted(p) = c
  BY HonestHeader, PredictionIsTrue
<1>2. locked_uap = TrueUap /\ \A q \in 1 .. 2 : ClkTable(p, locked_uap)[q] \in {c, Comp(c)}
  BY HonestHeader, SortedIsGood DEF InSync
<1>3. \A k \in 1 .. 5 : NearTry(p, pay, k) => NearClk(p, k) = c
  <2> SUFFICES ASSUME NEW k \in 1 .. 5, NearTry(p, pay, k) PROVE NearClk(p, k) = c
    OBVIOUS
  <2>1. NearClk(p, k) \in {c, Comp(c)}
    BY <1>2 DEF NearTry
  <2>2. Offsets[k] \in {-4, -2, 0, 2, 4} /\ NearClk(p, k) = (c + Offsets[k]) % N
    BY <1>1 DEF Offsets, NearClk
  <2> QED
    BY <1>1, <2>1, <2>2, NearIsPrediction
<1>4. \A x \in Clock : FarTry(p, pay, x) => x = c
  BY DEF FarTry, Decodes
<1>5. \A S : Least(S) \subseteq S
  BY DEF Least
<1>6. {NearClk(p, k) : k \in Least(near)} \subseteq {c}
  BY <1>3, <1>5
<1>7. Least({x \in Clock : FarTry(p, pay, x)}) \subseteq {c}
  BY <1>4, <1>5
<1> QED
  BY <1>6, <1>7 DEF Resolves

\* A packet that does not resolve leaves the lock in step.
LEMMA SyncFails ==
  ASSUME TypeOK, HonestTime, InSync, NEW p \in Packet, Arrive(p), LockedFails(p)
  PROVE  InSync' /\ (RoleTrue => RoleTrue')
<1>1. (last_clk + age') % N = pclk'
  BY KeepInStep DEF InSync, LockedFails, TypeOK
<1> QED
  BY <1>1 DEF InSync, AtPclk, LockedFails, RoleTrue, entry

\* A packet that resolves puts it in step again, with its sender's role.
LEMMA SyncOk ==
  ASSUME TypeOK, HonestTime, InSync, NEW p \in Packet, Arrive(p), p.hdr = coset,
         NEW pay \in Payloads, Carries(p, pay),
         NEW x \in Resolves(p, pay), LockedOk(p, pay, x)
  PROVE  InSync' /\ (RoleTrue => RoleTrue')
<1>1. x = PacketClk(p) /\ x \in Clock /\ HeaderClk(p) = x
  BY ResolvesTrue, HonestHeader
<1>2. last_clk' = x /\ age' = 0 /\ pclk' = x
  BY <1>1 DEF LockedOk, SetTs, Arrive
<1>3. InSync'
  BY <1>1, <1>2, ClockMod DEF InSync, AtPclk, LockedOk
<1>4. ASSUME RoleTrue PROVE RoleTrue'
  <2>1. Anchors(p, pay, x) => x % 2 = 0
    <3>1. Anchors(p, pay, x) => 0 \in pay.anchor
      BY <1>1, ClockMod DEF Anchors
    <3>2. Genuine(p)
      BY DEF Genuine, HonestTime, Packet, InSync
    <3> QED
      BY <1>1, <3>1, <3>2 DEF Carries
  <2> QED
    BY <1>2, <1>4, <2>1 DEF RoleTrue, LockedOk, RecordRole
<1> QED
  BY <1>3, <1>4

\* No packet takes a tracker in sync out of it, or its roles.
LEMMA SyncNext ==
  ASSUME TypeOK, HonestTime, InSync, [Next]_vars
  PROVE  InSync' /\ (RoleTrue => RoleTrue')
<1>1. CASE UNCHANGED vars
  BY <1>1 DEF vars, entry, InSync, AtPclk, RoleTrue
<1>2. CASE Next
  <2> PICK p \in Packet : InitCandidates(p) \/ InitFails(p) \/ BruteForce(p) \/ Follow(p)
    BY <1>2 DEF Next
  <2>1. Follow(p)
    BY DEF InSync, InitCandidates, InitFails, BruteForce, SkipInThePast, SkipTooClose,
           EraseBadTiming, SkipBroken, EraseNoCandidate, TestCandidates, TestAll, Tested
  <2>2. Arrive(p)
    BY <2>1 DEF Follow
  <2>3. CASE LockedFails(p)
    BY <2>2, <2>3, SyncFails
  <2>4. CASE ~LockedFails(p)
    <3>1. PICK pay \in Payloads :
            /\ p.hdr = coset /\ Carries(p, pay)
            /\ \E x \in Resolves(p, pay) : LockedOk(p, pay, x)
      BY <2>1, <2>4 DEF Follow
    <3>2. PICK x \in Resolves(p, pay) : LockedOk(p, pay, x)
      BY <3>1
    <3> QED
      BY <2>2, <3>1, <3>2, SyncOk
  <2> QED
    BY <2>3, <2>4
<1> QED
  BY <1>1, <1>2

(***************************************************************************)
(* A lock on the piconet's UAP and clock stays on them: every packet after *)
(* it is either resolved at its own clock or leaves the prediction exact.  *)
(***************************************************************************)
THEOREM LockIsKeptInSync == ASSUME HonestTime PROVE Spec => LockStaysInSync
<1>1. TypeOK /\ [Next]_vars => [InSync => InSync']_vars
  BY SyncNext
<1> QED
  BY <1>1, InitTypes, NextTypes, PTL DEF Spec, LockStaysInSync

(***************************************************************************)
(* And the role reported with every packet is that of its sender.          *)
(***************************************************************************)
THEOREM RolesAreKeptTrue == ASSUME HonestTime PROVE Spec => RolesStayTrue
<1>1. TypeOK /\ [Next]_vars => [InSync /\ RoleTrue => InSync' /\ RoleTrue']_vars
  BY SyncNext
<1> QED
  BY <1>1, InitTypes, NextTypes, PTL DEF Spec, RolesStayTrue
=============================================================================
