------------------------ MODULE UapEliminationProofs ------------------------
(***************************************************************************)
(* Lemmas about the test of one candidate slot, on which the proofs about  *)
(* both trackers rest: arithmetic modulo N, pairs of clocks, twins.        *)
(***************************************************************************)
EXTENDS UapElimination, FiniteSetTheorems, TLAPS

-----------------------------------------------------------------------------
(***************************************************************************)
(* Arithmetic modulo N.                                                    *)
(***************************************************************************)

\* % N brings every integer into Clock: the code's % 64 yields six bits.
LEMMA ModIsClock == ASSUME NEW a \in Int PROVE a % N \in Clock
  BY ClockAssumption DEF Clock

\* The quotient that % N drops.
LEMMA ModQuotient ==
  ASSUME NEW a \in Int PROVE \E q \in Int : a = N * q + (a % N)
<1>1. a \div N \in Int /\ a = N * (a \div N) + (a % N)
  BY ClockAssumption
<1> QED
  BY <1>1

\* A remainder is the only number in Clock that differs by a multiple of N.
LEMMA ModUnique ==
  ASSUME NEW a \in Int, NEW r \in Clock, NEW q \in Int, a = N * q + r
  PROVE  a % N = r
  BY ClockAssumption DEF Clock

\* Reducing a term first makes no difference to a sum.
LEMMA ModAdd ==
  ASSUME NEW a \in Int, NEW b \in Int
  PROVE  ((a % N) + b) % N = (a + b) % N
<1>1. PICK q \in Int : a = N * q + (a % N)
  BY ModQuotient
<1>2. PICK r \in Int : (a % N) + b = N * r + (((a % N) + b) % N)
  BY ModQuotient, ModIsClock DEF Clock
<1>3. a + b = N * (q + r) + (((a % N) + b) % N)
  <2>1. N * (q + r) = N * q + N * r
    BY ClockAssumption
  <2>2. N * q \in Int /\ N * r \in Int /\ a % N \in Int /\ ((a % N) + b) % N \in Int
    BY ModIsClock, ClockAssumption DEF Clock
  <2> QED
    BY <1>1, <1>2, <2>1, <2>2
<1>4. ((a % N) + b) % N \in Clock
  BY ModIsClock, ClockAssumption DEF Clock
<1> QED
  BY <1>3, <1>4, ModUnique

\* N is even, so that % N keeps the parity.
LEMMA ModParity == ASSUME NEW a \in Int PROVE (a % N) % 2 = a % 2
<1>1. PICK q \in Int : a = N * q + (a % N)
  BY ModQuotient
<1>2. PICK h \in Int : N = 2 * h
  BY ClockAssumption
<1>3. N * q = 2 * (h * q)
  BY <1>2
<1>4. h * q \in Int /\ a % N \in Int
  BY <1>2, ModIsClock, ClockAssumption DEF Clock
<1>5. \A m, r \in Int : (2 * m + r) % 2 = r % 2
  OBVIOUS
<1> QED
  BY <1>1, <1>3, <1>4, <1>5

\* A clock is its own remainder.
LEMMA ClockMod == ASSUME NEW c \in Clock PROVE c % N = c /\ (c + 0) % N = c /\ (c - c) % N = 0
<1>1. c \in Int /\ c = N * 0 + c /\ 0 \in Clock /\ c - c = N * 0 + 0
  BY ClockAssumption DEF Clock
<1> QED
  BY <1>1, ModUnique

-----------------------------------------------------------------------------
(***************************************************************************)
(* Clock pairs and candidate slots.                                        *)
(***************************************************************************)
GoodPair(c) == c \in Clock \X Clock /\ c[1] < c[2] /\ c[2] = Comp(c[1])

\* A clock and its complement differ, because N is even.
LEMMA CompProperties ==
  ASSUME NEW x \in Clock
  PROVE  Comp(x) \in Clock /\ Comp(x) # x /\ Comp(Comp(x)) = x
  BY ClockAssumption DEF Clock, Comp

\* Sorted is x and its complement, in order: what clk_table holds for a UAP.
LEMMA SortedIsGood ==
  ASSUME NEW x \in Clock
  PROVE  /\ GoodPair(Sorted(x))
         /\ x \in {Sorted(x)[1], Sorted(x)[2]}
         /\ \A q \in 1 .. 2 : Sorted(x)[q] \in {x, Comp(x)}
<1>1. CASE x < Comp(x)
  BY <1>1, CompProperties DEF Sorted, GoodPair
<1>2. CASE ~(x < Comp(x))
  <2>1. Comp(x) < x
    BY <1>2, CompProperties, ClockAssumption DEF Clock
  <2> QED
    BY <1>2, <2>1, CompProperties DEF Sorted, GoodPair
<1> QED
  BY <1>1, <1>2

\* extract_header_bf returns a good pair for every candidate of the coset.
LEMMA FitClksAreGood ==
  ASSUME NEW c \in Clock, NEW u \in Cand
  PROVE  /\ FitClks[c][u] = Sorted(Table[c][u])
         /\ Table[c][u] \in Clock
         /\ GoodPair(FitClks[c][u])
<1>1. FitClks[c][u] = Sorted(Table[c][u])
  BY DEF FitClks
<1>2. Table[c][u] \in Clock
  BY TableAssumption
<1> QED
  BY <1>1, <1>2, SortedIsGood

\* The test of a candidate leaves its slot well-formed.
LEMMA RetestKeepsSlot ==
  ASSUME NEW s, SlotOK(s), NEW new, GoodPair(new), NEW slot
  PROVE  SlotOK(Retest(s, new, slot))
<1> DEFINE reached == Reached(s, new, slot)
<1>1. reached \in {{}, {1}, {2}, {1, 2}}
  BY DEF Reached
<1>2. SlotOK(NoSlot)
  BY ClockAssumption DEF SlotOK, NoSlot, Slot, Clock, INVALID_CLK_INDEX
<1>3. \A k \in 0 .. 2 : SlotOK([uap_valid |-> TRUE, clk |-> new, clk_index |-> k])
  BY DEF SlotOK, Slot, GoodPair
<1>4. s.uap_valid \in BOOLEAN
  BY DEF SlotOK, Slot
<1> HIDE DEF reached
<1>5. CASE ~s.uap_valid \/ new = s.clk
  BY <1>4, <1>5 DEF Retest
<1>6. CASE s.uap_valid /\ new # s.clk
  <2>1. Retest(s, new, slot) =
          CASE reached = {} -> NoSlot
            [] reached = {1} -> [uap_valid |-> TRUE, clk |-> new, clk_index |-> 1]
            [] reached = {2} -> [uap_valid |-> TRUE, clk |-> new, clk_index |-> 2]
            [] reached = {1, 2} -> [uap_valid |-> TRUE, clk |-> new,
                                    clk_index |-> INVALID_CLK_INDEX]
    BY <1>6 DEF Retest, reached
  <2>2. CASE reached = {}
    BY <2>1, <2>2, <1>2
  <2>3. CASE reached = {1}
    BY <2>1, <2>3, <1>3
  <2>4. CASE reached = {2}
    BY <2>1, <2>4, <1>3
  <2>5. CASE reached = {1, 2}
    BY <2>1, <2>5, <1>3 DEF INVALID_CLK_INDEX
  <2> QED
    BY <1>1, <2>2, <2>3, <2>4, <2>5
<1> QED
  BY <1>4, <1>5, <1>6

\* The clocks of a slot that passes the test are those of the new header.
LEMMA RetestTakesNew ==
  ASSUME NEW s, SlotOK(s), NEW new, NEW slot, Retest(s, new, slot).uap_valid
  PROVE  Retest(s, new, slot).clk = new
<1> DEFINE r == Reached(s, new, slot)
<1>1. s.uap_valid \in BOOLEAN
  BY DEF SlotOK, Slot
<1>2. CASE ~s.uap_valid
  BY <1>2 DEF Retest
<1>3. CASE s.uap_valid /\ new = s.clk
  BY <1>3 DEF Retest
<1>4. CASE s.uap_valid /\ new # s.clk
  <2>1. r \in {{}, {1}, {2}, {1, 2}}
    BY DEF Reached
  <2>2. Retest(s, new, slot) =
          CASE r = {} -> NoSlot
            [] r = {1} -> [uap_valid |-> TRUE, clk |-> new, clk_index |-> 1]
            [] r = {2} -> [uap_valid |-> TRUE, clk |-> new, clk_index |-> 2]
            [] r = {1, 2} -> [uap_valid |-> TRUE, clk |-> new, clk_index |-> INVALID_CLK_INDEX]
    BY <1>4 DEF Retest
  <2> HIDE DEF r
  <2> QED
    BY <2>1, <2>2 DEF NoSlot
<1> QED
  BY <1>1, <1>2, <1>3, <1>4

-----------------------------------------------------------------------------
(***************************************************************************)
(* Twins.  A candidate's clocks are a and N-1-a, its twin's are a+N/2 and  *)
(* N-1-a-N/2 modulo N; in increasing order they change places, so that the *)
(* clock q of one is half a period from the clock 3-q of the other.        *)
(***************************************************************************)
Half == N \div 2

TwinPairs(c, d) == d[1] = Half - 1 - c[1]
TwinSlots(s, t) ==
  /\ s.uap_valid = t.uap_valid
  /\ s.uap_valid => /\ TwinPairs(s.clk, t.clk)
                    /\ t.clk_index = IF s.clk_index = 0 THEN 0 ELSE 3 - s.clk_index

\* Half a period is a number, since the clocks come in pairs.
LEMMA HalfType == Half \in Nat /\ N = 2 * Half
  BY ClockAssumption DEF Half

\* A whole period more makes no difference.
LEMMA ModPeriod ==
  ASSUME NEW a \in Int
  PROVE  (a + N) % N = a % N /\ (a - N) % N = a % N
<1>1. PICK q \in Int : a = N * q + (a % N)
  BY ModQuotient
<1>2. a % N \in Clock /\ a % N \in Int /\ N * q \in Int /\ N \in Int
  BY ModIsClock, ClockAssumption DEF Clock
<1>3. N * (q + 1) = N * q + N /\ N * (q - 1) = N * q - N
  BY ClockAssumption
<1>4. \A m, r \in Int : a = m + r => a + N = (m + N) + r /\ a - N = (m - N) + r
  BY <1>2
<1>5. a + N = N * (q + 1) + (a % N) /\ a - N = N * (q - 1) + (a % N)
  BY <1>1, <1>2, <1>3, <1>4
<1>6. a + N \in Int /\ a - N \in Int /\ q + 1 \in Int /\ q - 1 \in Int
  BY <1>2
<1>7. (a + N) % N = a % N
  BY <1>2, <1>5, <1>6, ModUnique
<1>8. (a - N) % N = a % N
  BY <1>2, <1>5, <1>6, ModUnique
<1> QED
  BY <1>7, <1>8

\* Clocks half a period apart, each put in order with its complement, are twins.
LEMMA SortedTwins ==
  ASSUME NEW x \in Clock, NEW y \in Clock,
         y = (x + Half) % N \/ y = Comp((x + Half) % N)
  PROVE  TwinPairs(Sorted(x), Sorted(y))
<1>1. (x + Half) % N = IF x < Half THEN x + Half ELSE x - Half
  <2>1. CASE x < Half
    <3>1. x + Half \in Clock /\ x + Half = N * 0 + (x + Half)
      BY <2>1, HalfType, ClockAssumption DEF Clock
    <3> QED
      BY <2>1, <3>1, ModUnique, ClockAssumption, HalfType DEF Clock
  <2>2. CASE ~(x < Half)
    <3>1. x - Half \in Clock /\ x + Half = N * 1 + (x - Half)
      BY <2>2, HalfType, ClockAssumption DEF Clock
    <3> QED
      BY <2>2, <3>1, ModUnique, ClockAssumption, HalfType DEF Clock
  <2> QED
    BY <2>1, <2>2
<1>2. Sorted(x)[1] = IF x < Half THEN x ELSE N - 1 - x
  BY HalfType, ClockAssumption DEF Sorted, Comp, Clock
<1>3. Sorted(y)[1] = IF y < Half THEN y ELSE N - 1 - y
  BY HalfType, ClockAssumption DEF Sorted, Comp, Clock
<1> QED
  BY <1>1, <1>2, <1>3, HalfType, ClockAssumption DEF TwinPairs, Comp, Clock

\* One header fits a candidate and its twin with twin pairs.
LEMMA FitClksOfTwins ==
  ASSUME NEW c \in Clock, NEW u \in Cand
  PROVE  Twin[u] \in Cand /\ TwinPairs(FitClks[c][u], FitClks[c][Twin[u]])
<1>1. Twin[u] \in Cand
  BY TwinAssumption
<1> DEFINE x == Table[c][u]
           y == Table[c][Twin[u]]
<1>2. x \in Clock /\ y \in Clock
  BY <1>1, FitClksAreGood
<1>3. y = (x + Half) % N \/ y = Comp((x + Half) % N)
  BY TwinAssumption DEF Half
<1>4. FitClks[c][u] = Sorted(x) /\ FitClks[c][Twin[u]] = Sorted(y)
  BY <1>1, FitClksAreGood
<1> QED
  BY <1>1, <1>2, <1>3, <1>4, SortedTwins

\* The same test of two twin slots reaches twin clocks.
LEMMA ReachedTwins ==
  ASSUME NEW s, SlotOK(s), NEW t, SlotOK(t), TwinSlots(s, t), s.uap_valid,
         NEW a, GoodPair(a), NEW b, GoodPair(b), TwinPairs(a, b), NEW slot
  PROVE  \A q \in 1 .. 2 : q \in Reached(s, a, slot) <=> 3 - q \in Reached(t, b, slot)
<1>1. /\ a[1] \in Clock /\ a[2] = N - 1 - a[1]
      /\ b[1] = Half - 1 - a[1] /\ b[2] = N - 1 - b[1] /\ b[1] \in Clock
  BY DEF GoodPair, Comp, TwinPairs
<1>2. /\ s.clk[1] \in Clock /\ s.clk[2] = N - 1 - s.clk[1]
      /\ t.clk[1] = Half - 1 - s.clk[1] /\ t.clk[2] = N - 1 - t.clk[1] /\ t.clk[1] \in Clock
  BY DEF SlotOK, Slot, Comp, TwinPairs, TwinSlots
<1>3. \A q, o \in 1 .. 2 : (b[3 - q] - t.clk[3 - o]) % N = (a[q] - s.clk[o]) % N
  <2> TAKE q \in 1 .. 2, o \in 1 .. 2
  <2> DEFINE z == a[q] - s.clk[o]
             y == b[3 - q] - t.clk[3 - o]
  <2>1. z \in Int /\ (y = z \/ y = z + N \/ y = z - N)
    <3>1. CASE q = 1 /\ o = 1
      BY <1>1, <1>2, <3>1, HalfType DEF Clock
    <3>2. CASE q = 1 /\ o = 2
      BY <1>1, <1>2, <3>2, HalfType DEF Clock
    <3>3. CASE q = 2 /\ o = 1
      BY <1>1, <1>2, <3>3, HalfType DEF Clock
    <3>4. CASE q = 2 /\ o = 2
      BY <1>1, <1>2, <3>4, HalfType DEF Clock
    <3> QED
      BY <3>1, <3>2, <3>3, <3>4
  <2> QED
    BY <2>1, ModPeriod
<1>4. \A o \in 1 .. 2 : o \in OldToCheck(s) <=> 3 - o \in OldToCheck(t)
  BY DEF OldToCheck, TwinSlots, SlotOK, Slot, INVALID_CLK_INDEX
<1>5. OldToCheck(s) \subseteq 1 .. 2 /\ OldToCheck(t) \subseteq 1 .. 2
  BY DEF OldToCheck, SlotOK, Slot, INVALID_CLK_INDEX
<1> TAKE q \in 1 .. 2
<1>6. ASSUME q \in Reached(s, a, slot) PROVE 3 - q \in Reached(t, b, slot)
  <2>1. PICK o \in OldToCheck(s) : (a[q] - s.clk[o]) % N = slot
    BY <1>6 DEF Reached
  <2>2. 3 - o \in OldToCheck(t) /\ (b[3 - q] - t.clk[3 - o]) % N = slot
    BY <2>1, <1>3, <1>4, <1>5
  <2> QED
    BY <2>2 DEF Reached
<1>7. ASSUME 3 - q \in Reached(t, b, slot) PROVE q \in Reached(s, a, slot)
  <2>1. PICK o \in OldToCheck(t) : (b[3 - q] - t.clk[o]) % N = slot
    BY <1>7 DEF Reached
  <2>2. 3 - o \in 1 .. 2 /\ 3 - (3 - o) = o
    BY <2>1, <1>5
  <2>3. 3 - o \in OldToCheck(s) /\ (a[q] - s.clk[3 - o]) % N = slot
    BY <2>1, <2>2, <1>3, <1>4
  <2> QED
    BY <2>3 DEF Reached
<1> QED
  BY <1>6, <1>7

\* The same test keeps twin slots twins.
LEMMA RetestTwins ==
  ASSUME NEW s, SlotOK(s), NEW t, SlotOK(t), TwinSlots(s, t),
         NEW a, GoodPair(a), NEW b, GoodPair(b), TwinPairs(a, b), NEW slot
  PROVE  TwinSlots(Retest(s, a, slot), Retest(t, b, slot))
<1>1. s.uap_valid \in BOOLEAN /\ t.uap_valid \in BOOLEAN
  BY DEF SlotOK, Slot
<1>2. CASE ~s.uap_valid
  BY <1>1, <1>2 DEF TwinSlots, Retest
<1>3. CASE s.uap_valid /\ a = s.clk
  <2>1. b = t.clk
    BY <1>3, HalfType DEF SlotOK, Slot, GoodPair, Comp, TwinPairs, TwinSlots, Clock
  <2>2. Retest(s, a, slot) = s /\ Retest(t, b, slot) = t
    BY <1>1, <1>3, <2>1 DEF Retest, TwinSlots
  <2> QED
    BY <2>2
<1>4. CASE s.uap_valid /\ a # s.clk
  <2>1. t.uap_valid /\ b # t.clk
    BY <1>4, HalfType DEF SlotOK, Slot, GoodPair, Comp, TwinPairs, TwinSlots, Clock
  <2> DEFINE r == Reached(s, a, slot)
             k == Reached(t, b, slot)
  <2>2. r \in {{}, {1}, {2}, {1, 2}} /\ k \in {{}, {1}, {2}, {1, 2}}
    BY DEF Reached
  <2>3. (1 \in r <=> 2 \in k) /\ (2 \in r <=> 1 \in k)
    BY <1>4, ReachedTwins
  <2>4. Retest(s, a, slot) =
          CASE r = {} -> NoSlot
            [] r = {1} -> [uap_valid |-> TRUE, clk |-> a, clk_index |-> 1]
            [] r = {2} -> [uap_valid |-> TRUE, clk |-> a, clk_index |-> 2]
            [] r = {1, 2} -> [uap_valid |-> TRUE, clk |-> a, clk_index |-> INVALID_CLK_INDEX]
    BY <1>4 DEF Retest
  <2>5. Retest(t, b, slot) =
          CASE k = {} -> NoSlot
            [] k = {1} -> [uap_valid |-> TRUE, clk |-> b, clk_index |-> 1]
            [] k = {2} -> [uap_valid |-> TRUE, clk |-> b, clk_index |-> 2]
            [] k = {1, 2} -> [uap_valid |-> TRUE, clk |-> b, clk_index |-> INVALID_CLK_INDEX]
    BY <2>1 DEF Retest
  <2> HIDE DEF r, k
  <2>6. CASE r = {}
    <3>1. k = {}
      BY <2>2, <2>3, <2>6
    <3>2. Retest(s, a, slot) = NoSlot
      BY <2>4, <2>6
    <3>3. Retest(t, b, slot) = NoSlot
      BY <2>5, <3>1
    <3> QED
      BY <3>2, <3>3 DEF TwinSlots, NoSlot
  <2>7. CASE r = {1}
    <3>1. k = {2}
      BY <2>2, <2>3, <2>7
    <3>2. Retest(s, a, slot) = [uap_valid |-> TRUE, clk |-> a, clk_index |-> 1]
      BY <2>4, <2>7
    <3>3. Retest(t, b, slot) = [uap_valid |-> TRUE, clk |-> b, clk_index |-> 2]
      BY <2>5, <3>1
    <3> QED
      BY <3>2, <3>3 DEF TwinSlots
  <2>8. CASE r = {2}
    <3>1. k = {1}
      BY <2>2, <2>3, <2>8
    <3>2. Retest(s, a, slot) = [uap_valid |-> TRUE, clk |-> a, clk_index |-> 2]
      BY <2>4, <2>8
    <3>3. Retest(t, b, slot) = [uap_valid |-> TRUE, clk |-> b, clk_index |-> 1]
      BY <2>5, <3>1
    <3> QED
      BY <3>2, <3>3 DEF TwinSlots
  <2>9. CASE r = {1, 2}
    <3>1. k = {1, 2}
      BY <2>2, <2>3, <2>9
    <3>2. Retest(s, a, slot) = [uap_valid |-> TRUE, clk |-> a, clk_index |-> INVALID_CLK_INDEX]
      BY <2>4, <2>9
    <3>3. Retest(t, b, slot) = [uap_valid |-> TRUE, clk |-> b, clk_index |-> INVALID_CLK_INDEX]
      BY <2>5, <3>1
    <3> QED
      BY <3>2, <3>3 DEF TwinSlots, INVALID_CLK_INDEX
  <2> QED
    BY <2>2, <2>6, <2>7, <2>8, <2>9
<1> QED
  BY <1>1, <1>2, <1>3, <1>4

\* An entry that is not there has nothing but empty slots.
LEMMA FreshTwins == \A u \in Cand : TwinSlots(FreshUaps[u], FreshUaps[Twin[u]])
<1>1. \A u \in Cand : FreshUaps[u] = NoSlot /\ FreshUaps[Twin[u]] = NoSlot
  BY TwinAssumption DEF FreshUaps
<1> QED
  BY <1>1 DEF TwinSlots, NoSlot

\* Two elements are two.
LEMMA CardinalityPair ==
  ASSUME NEW a, NEW b
  PROVE  /\ IsFiniteSet({a, b}) /\ Cardinality({a, b}) <= 2
         /\ a # b => Cardinality({a, b}) = 2
<1>1. IsFiniteSet({a}) /\ Cardinality({a}) = 1
  BY FS_Singleton
<1>2. {a, b} = {a} \cup {b}
  OBVIOUS
<1>3. b \in {a} <=> a = b
  OBVIOUS
<1> QED
  BY <1>1, <1>2, <1>3, FS_AddElement
=============================================================================
