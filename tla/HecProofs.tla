------------------------------ MODULE HecProofs ------------------------------
(***************************************************************************)
(* Proofs about Hec, for every sender: the whitener and the HEC register   *)
(* are linear, so which clocks fit a UAP depends only on how the two       *)
(* differ from the sender's, and that dependence has a kernel of two.      *)
(***************************************************************************)
EXTENDS Hec, SequenceTheorems, FiniteSetTheorems, WellFoundedInduction, TLAPS

-----------------------------------------------------------------------------
(***************************************************************************)
(* Numbers and their bits.                                                 *)
(***************************************************************************)
\* The eight bits' weights.
LEMMA Weights ==
  /\ Weight[1] = 1 /\ Weight[2] = 2 /\ Weight[3] = 4 /\ Weight[4] = 8
  /\ Weight[5] = 16 /\ Weight[6] = 32 /\ Weight[7] = 64 /\ Weight[8] = 128
  BY DEF Weight

\* The table gives the bits of a number.
LEMMA BitsAre ==
  ASSUME NEW n \in 0 .. 255
  PROVE  Bits(n) = {i \in 0 .. 7 : (n \div Weight[i + 1]) % 2 = 1}
<1> DEFINE b(k) == {i \in 0 .. 7 : ((k - 1) \div Weight[i + 1]) % 2 = 1}
           t == [k \in 1 .. 256 |-> b(k)]
<1>1. t \in Seq(SUBSET (0 .. 7))
  <2>1. \A k \in 1 .. 256 : b(k) \in SUBSET (0 .. 7)
    OBVIOUS
  <2> HIDE DEF b
  <2> QED
    BY <2>1, SMTT(30)
<1>2. BitTable = t \o <<>>
  BY DEF BitTable
<1>3. BitTable = t
  BY <1>1, <1>2, ConcatEmptySeq, ZenonT(60)
<1>4. n + 1 \in 1 .. 256 /\ (n + 1) - 1 = n
  OBVIOUS
<1>5. Bits(n) = b(n + 1)
  BY <1>3, <1>4 DEF Bits
<1> QED
  BY <1>4, <1>5

\* The digit of weight w of n.
Digit(n, w) == (n \div w) % 2

\* w has the positions of the digits of n that are 1.
Positions(w, n) ==
  /\ w \subseteq 0 .. 7
  /\ 0 \in w <=> Digit(n, 1) = 1
  /\ 1 \in w <=> Digit(n, 2) = 1
  /\ 2 \in w <=> Digit(n, 4) = 1
  /\ 3 \in w <=> Digit(n, 8) = 1
  /\ 4 \in w <=> Digit(n, 16) = 1
  /\ 5 \in w <=> Digit(n, 32) = 1
  /\ 6 \in w <=> Digit(n, 64) = 1
  /\ 7 \in w <=> Digit(n, 128) = 1

\* The table holds the positions of a byte's digits.
LEMMA BitIs ==
  ASSUME NEW n \in 0 .. 255
  PROVE  Positions(Bits(n), n)
<1>1. Bits(n) = {i \in 0 .. 7 : Digit(n, Weight[i + 1]) = 1}
  BY BitsAre DEF Digit
<1>2. \A i \in 0 .. 7 : i \in Bits(n) <=> Digit(n, Weight[i + 1]) = 1
  BY <1>1
<1>3. /\ 0 \in 0 .. 7 /\ 0 + 1 = 1 /\ 1 \in 0 .. 7 /\ 1 + 1 = 2
      /\ 2 \in 0 .. 7 /\ 2 + 1 = 3 /\ 3 \in 0 .. 7 /\ 3 + 1 = 4
      /\ 4 \in 0 .. 7 /\ 4 + 1 = 5 /\ 5 \in 0 .. 7 /\ 5 + 1 = 6
      /\ 6 \in 0 .. 7 /\ 6 + 1 = 7 /\ 7 \in 0 .. 7 /\ 7 + 1 = 8
  OBVIOUS
<1>4. Bits(n) \subseteq 0 .. 7
  BY <1>1
<1> QED
  BY <1>2, <1>3, <1>4, Weights DEF Positions

\* Digits are 0 or 1.
LEMMA DigitIs ==
  ASSUME NEW n \in 0 .. 255
  PROVE  /\ Digit(n, 1) \in {0, 1} /\ Digit(n, 2) \in {0, 1} /\ Digit(n, 4) \in {0, 1}
         /\ Digit(n, 8) \in {0, 1} /\ Digit(n, 16) \in {0, 1} /\ Digit(n, 32) \in {0, 1}
         /\ Digit(n, 64) \in {0, 1} /\ Digit(n, 128) \in {0, 1}
  BY DEF Digit

Number(a, b, c, d, e, f, g, h) == a + 2*b + 4*c + 8*d + 16*e + 32*f + 64*g + 128*h

\* A byte is the sum of its digits.
LEMMA Digits ==
  ASSUME NEW n \in 0 .. 255
  PROVE  n = Number(Digit(n, 1), Digit(n, 2), Digit(n, 4), Digit(n, 8),
                    Digit(n, 16), Digit(n, 32), Digit(n, 64), Digit(n, 128))
  BY SMTT(60) DEF Number, Digit

\* The positions of a number determine its digits, and are determined by it.
LEMMA DigitsOf ==
  ASSUME NEW n \in 0 .. 255, NEW w, Positions(w, n)
  PROVE  /\ Digit(n, 1) = (IF 0 \in w THEN 1 ELSE 0)
         /\ Digit(n, 2) = (IF 1 \in w THEN 1 ELSE 0)
         /\ Digit(n, 4) = (IF 2 \in w THEN 1 ELSE 0)
         /\ Digit(n, 8) = (IF 3 \in w THEN 1 ELSE 0)
         /\ Digit(n, 16) = (IF 4 \in w THEN 1 ELSE 0)
         /\ Digit(n, 32) = (IF 5 \in w THEN 1 ELSE 0)
         /\ Digit(n, 64) = (IF 6 \in w THEN 1 ELSE 0)
         /\ Digit(n, 128) = (IF 7 \in w THEN 1 ELSE 0)
  BY DigitIs, SMTT(30) DEF Positions

LEMMA SamePositions ==
  ASSUME NEW n, NEW w, NEW x, Positions(w, n), Positions(x, n)
  PROVE  w = x
<1>1. w \subseteq 0 .. 7 /\ x \subseteq 0 .. 7
  BY DEF Positions
<1>2. /\ 0 \in w <=> 0 \in x
      /\ 1 \in w <=> 1 \in x
      /\ 2 \in w <=> 2 \in x
      /\ 3 \in w <=> 3 \in x
      /\ 4 \in w <=> 4 \in x
      /\ 5 \in w <=> 5 \in x
      /\ 6 \in w <=> 6 \in x
      /\ 7 \in w <=> 7 \in x
  BY DEF Positions
<1>3. \A i \in 0 .. 7 : i = 0 \/ i = 1 \/ i = 2 \/ i = 3 \/ i = 4 \/ i = 5 \/ i = 6 \/ i = 7
  OBVIOUS
<1>4. \A i \in 0 .. 7 : i \in w <=> i \in x
  BY <1>2, <1>3, ZenonT(60)
<1>5. \A i : i \in w <=> i \in x
  BY <1>1, <1>4, Zenon
<1> QED
  BY <1>1, <1>5, Zenon

\* Every set of positions is that of some number,
LEMMA BitsOnto ==
  ASSUME NEW w \in SUBSET (0 .. 7)
  PROVE  \E n \in 0 .. 255 : Bits(n) = w
<1>1. \A i : \E a \in {0, 1} : a = 1 <=> i \in w
  OBVIOUS
<1>2. PICK a \in {0, 1} : a = 1 <=> 0 \in w
  BY <1>1
<1>3. PICK b \in {0, 1} : b = 1 <=> 1 \in w
  BY <1>1
<1>4. PICK c \in {0, 1} : c = 1 <=> 2 \in w
  BY <1>1
<1>5. PICK d \in {0, 1} : d = 1 <=> 3 \in w
  BY <1>1
<1>6. PICK e \in {0, 1} : e = 1 <=> 4 \in w
  BY <1>1
<1>7. PICK f \in {0, 1} : f = 1 <=> 5 \in w
  BY <1>1
<1>8. PICK g \in {0, 1} : g = 1 <=> 6 \in w
  BY <1>1
<1>9. PICK h \in {0, 1} : h = 1 <=> 7 \in w
  BY <1>1
<1> DEFINE n == Number(a, b, c, d, e, f, g, h)
<1>10. /\ n \in 0 .. 255
       /\ Digit(n, 1) = a /\ Digit(n, 2) = b /\ Digit(n, 4) = c /\ Digit(n, 8) = d
       /\ Digit(n, 16) = e /\ Digit(n, 32) = f /\ Digit(n, 64) = g /\ Digit(n, 128) = h
  BY SMTT(60) DEF Number, Digit
<1> HIDE DEF n
<1>11. Positions(Bits(n), n)
  BY <1>10, BitIs
<1>12. Positions(w, n)
  BY <1>2, <1>3, <1>4, <1>5, <1>6, <1>7, <1>8, <1>9, <1>10 DEF Positions
<1>13. Bits(n) = w
  BY <1>11, <1>12, SamePositions
<1> QED
  BY <1>10, <1>13

\* and of no other.
LEMMA BitsInjective ==
  ASSUME NEW m \in 0 .. 255, NEW n \in 0 .. 255, Bits(m) = Bits(n)
  PROVE  m = n
<1>1. Positions(Bits(m), m) /\ Positions(Bits(m), n)
  BY BitIs
<1>2. /\ Digit(m, 1) = Digit(n, 1) /\ Digit(m, 2) = Digit(n, 2)
      /\ Digit(m, 4) = Digit(n, 4) /\ Digit(m, 8) = Digit(n, 8)
      /\ Digit(m, 16) = Digit(n, 16) /\ Digit(m, 32) = Digit(n, 32)
      /\ Digit(m, 64) = Digit(n, 64) /\ Digit(m, 128) = Digit(n, 128)
  <2> DEFINE v(i) == IF i \in Bits(m) THEN 1 ELSE 0
  <2>1. /\ Digit(m, 1) = v(0) /\ Digit(m, 2) = v(1) /\ Digit(m, 4) = v(2)
        /\ Digit(m, 8) = v(3) /\ Digit(m, 16) = v(4) /\ Digit(m, 32) = v(5)
        /\ Digit(m, 64) = v(6) /\ Digit(m, 128) = v(7)
    BY <1>1, DigitsOf, ZenonT(60)
  <2>2. /\ Digit(n, 1) = v(0) /\ Digit(n, 2) = v(1) /\ Digit(n, 4) = v(2)
        /\ Digit(n, 8) = v(3) /\ Digit(n, 16) = v(4) /\ Digit(n, 32) = v(5)
        /\ Digit(n, 64) = v(6) /\ Digit(n, 128) = v(7)
    BY <1>1, DigitsOf, ZenonT(60)
  <2> HIDE DEF v
  <2> QED
    BY <2>1, <2>2, ZenonT(60)
<1> QED
  BY <1>2, Digits

\* A clock has six bits, and six bits make a clock.
LEMMA ClockBits ==
  ASSUME NEW n \in 0 .. 255
  PROVE  n \in 0 .. 63 <=> Bits(n) \subseteq 0 .. 5
<1>1. n \in 0 .. 63 <=> Digit(n, 64) = 0 /\ Digit(n, 128) = 0
  BY DEF Digit
<1>2. Digit(n, 64) \in {0, 1} /\ Digit(n, 128) \in {0, 1}
  BY SMTT(30), DigitIs
<1>3. Bits(n) \subseteq 0 .. 5 <=> 6 \notin Bits(n) /\ 7 \notin Bits(n)
  BY BitIs DEF Positions
<1> QED
  BY <1>1, <1>2, <1>3, BitIs DEF Positions

\* 63 - c has the other six bits,
LEMMA ComplementBits ==
  ASSUME NEW c \in 0 .. 63
  PROVE  Bits(63 - c) = Xor(Bits(c), 0 .. 5)
<1> DEFINE m == 63 - c
<1>1. c \in 0 .. 255 /\ m \in 0 .. 255 /\ m \in 0 .. 63
  OBVIOUS
<1>2. /\ Digit(m, 1) = 1 <=> ~(Digit(c, 1) = 1)
      /\ Digit(m, 2) = 1 <=> ~(Digit(c, 2) = 1)
      /\ Digit(m, 4) = 1 <=> ~(Digit(c, 4) = 1)
      /\ Digit(m, 8) = 1 <=> ~(Digit(c, 8) = 1)
      /\ Digit(m, 16) = 1 <=> ~(Digit(c, 16) = 1)
      /\ Digit(m, 32) = 1 <=> ~(Digit(c, 32) = 1)
  BY DEF Digit
<1> HIDE DEF m
<1>3. Bits(c) \subseteq 0 .. 5 /\ Bits(m) \subseteq 0 .. 5
  BY <1>1, ClockBits
<1>4. /\ 0 \in Bits(m) <=> 0 \notin Bits(c)
      /\ 1 \in Bits(m) <=> 1 \notin Bits(c)
      /\ 2 \in Bits(m) <=> 2 \notin Bits(c)
      /\ 3 \in Bits(m) <=> 3 \notin Bits(c)
      /\ 4 \in Bits(m) <=> 4 \notin Bits(c)
      /\ 5 \in Bits(m) <=> 5 \notin Bits(c)
  BY <1>1, <1>2, BitIs DEF Positions
<1>5. Bits(m) = Xor(Bits(c), 0 .. 5)
  BY <1>3, <1>4 DEF Xor
<1> QED
  BY <1>5 DEF m

\* and half a clock period flips the last.
LEMMA HalfBits ==
  ASSUME NEW c \in 0 .. 63
  PROVE  Bits((c + 32) % 64) = Xor(Bits(c), {5})
<1> DEFINE m == (c + 32) % 64
<1>1. c \in 0 .. 255 /\ m \in 0 .. 255 /\ m \in 0 .. 63
  OBVIOUS
<1>2. m = IF c < 32 THEN c + 32 ELSE c - 32
  OBVIOUS
<1> HIDE DEF m
<1>3. /\ Digit(m, 1) = Digit(c, 1)
      /\ Digit(m, 2) = Digit(c, 2)
      /\ Digit(m, 4) = Digit(c, 4)
      /\ Digit(m, 8) = Digit(c, 8)
      /\ Digit(m, 16) = Digit(c, 16)
      /\ Digit(m, 32) = 1 <=> ~(Digit(c, 32) = 1)
  BY <1>1, <1>2 DEF Digit
<1>4. Bits(c) \subseteq 0 .. 5 /\ Bits(m) \subseteq 0 .. 5
  BY <1>1, ClockBits
<1> Positions(Bits(m), m) /\ Positions(Bits(c), c)
  BY <1>1, BitIs
<1>5. /\ 0 \in Bits(m) <=> 0 \in Bits(c)
      /\ 1 \in Bits(m) <=> 1 \in Bits(c)
      /\ 2 \in Bits(m) <=> 2 \in Bits(c)
      /\ 3 \in Bits(m) <=> 3 \in Bits(c)
      /\ 4 \in Bits(m) <=> 4 \in Bits(c)
      /\ 5 \in Bits(m) <=> 5 \notin Bits(c)
  BY <1>3 DEF Positions
<1>6. Bits(m) = Xor(Bits(c), {5})
  BY <1>4, <1>5 DEF Xor
<1> QED
  BY <1>6 DEF m

-----------------------------------------------------------------------------
(***************************************************************************)
(* The registers, step by step.                                            *)
(***************************************************************************)
LEMMA InXor ==
  ASSUME NEW a, NEW b, NEW i
  PROVE  i \in Xor(a, b) <=> ~(i \in a <=> i \in b)
  BY DEF Xor

\* A set of natural numbers that is not empty has a least element.
LEMMA Least ==
  ASSUME NEW S \in SUBSET Nat, S # {}
  PROVE  \E n \in S : \A m \in S : n <= m
<1> DEFINE R == {ss \in Nat \X Nat : ss[1] < ss[2]}
<1>1. IsWellFoundedOn(R, Nat)
  BY NatLessThanWellFounded DEF OpToRel
<1>2. \A m, n \in Nat : <<m, n>> \in R <=> m < n
  OBVIOUS
<1> HIDE DEF R
<1>3. PICK n \in S : \A m \in S : <<m, n>> \notin R
  BY <1>1, WFMin
<1>4. \A m \in S : ~(m < n)
  BY <1>2, <1>3
<1> QED
  BY <1>4

\* Induction: numbers closed under adding one, 0 among them, are all numbers.
LEMMA Closed ==
  ASSUME NEW S \in SUBSET Nat, 0 \in S, \A n \in S : n + 1 \in S
  PROVE  S = Nat
<1> SUFFICES ASSUME Nat \ S # {} PROVE FALSE
  OBVIOUS
<1>1. PICK n \in Nat \ S : \A m \in Nat \ S : n <= m
  BY Least
<1>2. n - 1 \in Nat /\ ~(n <= n - 1) /\ (n - 1) + 1 = n
  BY <1>1
<1>3. n - 1 \in S
  BY <1>1, <1>2, SMTT(30)
<1> QED
  BY <1>1, <1>2, <1>3

\* The whitener's registers exist,
LEMMA WhitenerIs ==
  ASSUME NEW seed
  PROVE  Whitener(seed) =
           [i \in 0 .. 18 |-> IF i = 0 THEN seed ELSE Clocked(Whitener(seed)[i - 1])]
<1> DEFINE Runs(n, f) == f = [i \in 0 .. n |-> IF i = 0 THEN seed ELSE Clocked(f[i - 1])]
           S == {n \in Nat : \E f : Runs(n, f)}
<1>1. 0 \in S
  <2>1. Runs(0, [i \in 0 .. 0 |-> seed])
    OBVIOUS
  <2> QED
    BY <2>1
<1>2. \A n \in S : n + 1 \in S
  <2> TAKE n \in S
  <2>1. PICK f : Runs(n, f)
    OBVIOUS
  <2> DEFINE g == [i \in 0 .. n + 1 |-> IF i <= n THEN f[i] ELSE Clocked(f[n])]
  <2>2. \A i \in 0 .. n + 1 : g[i] = IF i = 0 THEN seed ELSE Clocked(g[i - 1])
    <3> TAKE i \in 0 .. n + 1
    <3>1. CASE i = 0
      BY <2>1, <3>1
    <3>2. CASE i \in 1 .. n
      <4>1. i - 1 \in 0 .. n + 1 /\ i - 1 <= n /\ i \in 0 .. n /\ i <= n /\ i # 0
        BY <3>2
      <4>2. g[i] = f[i] /\ g[i - 1] = f[i - 1]
        BY <4>1
      <4>3. f[i] = Clocked(f[i - 1])
        BY <2>1, <4>1
      <4> QED
        BY <4>1, <4>2, <4>3
    <3>3. CASE i = n + 1
      <4>1. i - 1 = n /\ n \in 0 .. n + 1 /\ ~(i <= n) /\ n <= n /\ i # 0
        BY <3>3
      <4> QED
        BY <4>1
    <3> QED
      BY <3>1, <3>2, <3>3
  <2>3. Runs(n + 1, g)
    <3>1. g = [i \in 0 .. n + 1 |-> g[i]]
      OBVIOUS
    <3> HIDE DEF g
    <3> QED
      BY <2>2, <3>1
  <2> HIDE DEF Runs, g
  <2>4. n + 1 \in Nat
    OBVIOUS
  <2> QED
    BY <2>3, <2>4
<1>3. S = Nat
  <2> HIDE DEF Runs
  <2>1. S \in SUBSET Nat
    OBVIOUS
  <2> HIDE DEF S
  <2> QED
    BY <1>1, <1>2, <2>1, Closed
<1>4. \E f : Runs(18, f)
  <2>1. 18 \in S
    BY <1>3
  <2> QED
    BY <2>1
<1> QED
  BY <1>4 DEF Whitener

\* and so do those of the HEC.
LEMMA HecRunIs ==
  ASSUME NEW seed, NEW d
  PROVE  \E l : /\ l = [i \in 0 .. 10 |-> IF i = 0 THEN seed ELSE HecStep(l[i - 1], i - 1 \in d)]
               /\ HecRegister(seed, d) = l[10]
<1> DEFINE Runs(n, f) == f = [i \in 0 .. n |-> IF i = 0 THEN seed ELSE HecStep(f[i - 1], i - 1 \in d)]
           S == {n \in Nat : \E f : Runs(n, f)}
<1>1. 0 \in S
  <2>1. Runs(0, [i \in 0 .. 0 |-> seed])
    OBVIOUS
  <2> QED
    BY <2>1
<1>2. \A n \in S : n + 1 \in S
  <2> TAKE n \in S
  <2>1. PICK f : Runs(n, f)
    OBVIOUS
  <2> DEFINE g == [i \in 0 .. n + 1 |-> IF i <= n THEN f[i] ELSE HecStep(f[n], n \in d)]
  <2>2. \A i \in 0 .. n + 1 : g[i] = IF i = 0 THEN seed ELSE HecStep(g[i - 1], i - 1 \in d)
    <3> TAKE i \in 0 .. n + 1
    <3>1. CASE i = 0
      BY <2>1, <3>1
    <3>2. CASE i \in 1 .. n
      <4>1. i - 1 \in 0 .. n + 1 /\ i - 1 <= n /\ i \in 0 .. n /\ i <= n /\ i # 0
        BY <3>2
      <4>2. g[i] = f[i] /\ g[i - 1] = f[i - 1]
        BY <4>1
      <4>3. f[i] = HecStep(f[i - 1], i - 1 \in d)
        BY <2>1, <4>1
      <4> QED
        BY <4>1, <4>2, <4>3
    <3>3. CASE i = n + 1
      <4>1. i - 1 = n /\ n \in 0 .. n + 1 /\ ~(i <= n) /\ n <= n /\ i # 0
        BY <3>3
      <4> QED
        BY <4>1
    <3> QED
      BY <3>1, <3>2, <3>3
  <2>3. Runs(n + 1, g)
    <3>1. g = [i \in 0 .. n + 1 |-> g[i]]
      OBVIOUS
    <3> HIDE DEF g
    <3> QED
      BY <2>2, <3>1
  <2> HIDE DEF Runs, g
  <2>4. n + 1 \in Nat
    OBVIOUS
  <2> QED
    BY <2>3, <2>4
<1>3. S = Nat
  <2> HIDE DEF Runs
  <2>1. S \in SUBSET Nat
    OBVIOUS
  <2> HIDE DEF S
  <2> QED
    BY <1>1, <1>2, <2>1, Closed
<1>4. \E f : Runs(10, f)
  <2>1. 10 \in S
    BY <1>3
  <2> QED
    BY <2>1
<1> QED
  BY <1>4 DEF HecRegister

\* One step of the whitener.
LEMMA WhitenerStep ==
  ASSUME NEW seed \in SUBSET (0 .. 6), NEW i \in 0 .. 17
  PROVE  LET w == Whitener(seed)
         IN  /\ w[0] = seed /\ w[i] \in SUBSET (0 .. 6) /\ w[i + 1] = Clocked(w[i])
<1> DEFINE w == Whitener(seed)
<1>1. w = [j \in 0 .. 18 |-> IF j = 0 THEN seed ELSE Clocked(w[j - 1])]
  BY WhitenerIs
<1> HIDE DEF w
<1>2. w[0] = seed
  BY <1>1
<1>3. w[i + 1] = Clocked(w[i])
  <2>1. i + 1 \in 0 .. 18 /\ i + 1 # 0 /\ (i + 1) - 1 = i
    OBVIOUS
  <2> QED
    BY <1>1, <2>1
<1>4. w[i] \in SUBSET (0 .. 6)
  <2>1. CASE i = 0
    BY <1>2, <2>1
  <2>2. CASE i # 0
    <3>1. w[i] = Clocked(w[i - 1])
      BY <1>1, <2>2
    <3>2. \A x : Clocked(x) \in SUBSET (0 .. 6)
      BY DEF Clocked, Shift, Xor
    <3> QED
      BY <3>1, <3>2
  <2> QED
    BY <2>1, <2>2
<1> QED
  BY <1>2, <1>3, <1>4 DEF w

\* What a step does to each bit.
LEMMA ClockedBits ==
  ASSUME NEW x \in SUBSET (0 .. 6)
  PROVE  /\ 0 \in Clocked(x) <=> 6 \in x
         /\ 1 \in Clocked(x) <=> 0 \in x
         /\ 2 \in Clocked(x) <=> 1 \in x
         /\ 3 \in Clocked(x) <=> 2 \in x
         /\ 4 \in Clocked(x) <=> ~(3 \in x <=> 6 \in x)
         /\ 5 \in Clocked(x) <=> 4 \in x
         /\ 6 \in Clocked(x) <=> 5 \in x
<1>1. \A k \in 0 .. 6 : k \in Shift(x, 7) <=> k - 1 \in x
  BY DEF Shift
<1>2. \A k : k \in (IF 6 \in x THEN {0, 4} ELSE {}) <=> 6 \in x /\ (k = 0 \/ k = 4)
  OBVIOUS
<1>3. \A k \in 0 .. 6 :
         k \in Clocked(x) <=> ~(k - 1 \in x <=> (6 \in x /\ (k = 0 \/ k = 4)))
  BY <1>1, <1>2, InXor DEF Clocked
<1> QED
  BY <1>3

\* The first seven bits that go out are those of the seed, from the top, with
\* what feeds back; each later one is the sum of the seventh and third before it.
GoesOut(o, seed) ==
  /\ 0 \in o <=> 6 \in seed
  /\ 1 \in o <=> 5 \in seed
  /\ 2 \in o <=> 4 \in seed
  /\ 3 \in o <=> ~(3 \in seed <=> 6 \in seed)
  /\ 4 \in o <=> ~(2 \in seed <=> 5 \in seed)
  /\ 5 \in o <=> ~(1 \in seed <=> 4 \in seed)
  /\ 6 \in o <=> ~(0 \in seed <=> ~(3 \in seed <=> 6 \in seed))
  /\ \A i \in 0 .. 10 : i + 7 \in o <=> ~(i \in o <=> i + 4 \in o)

\* That is what the whitener's register does.
LEMMA OutputIs ==
  ASSUME NEW seed \in SUBSET (0 .. 6)
  PROVE  GoesOut(Output(seed), seed)
<1> DEFINE w == Whitener(seed)
<1>1. w[0] = seed
  BY WhitenerStep
<1>2. \A i \in 0 .. 17 :
        /\ 0 \in w[i + 1] <=> 6 \in w[i]
        /\ 1 \in w[i + 1] <=> 0 \in w[i]
        /\ 2 \in w[i + 1] <=> 1 \in w[i]
        /\ 3 \in w[i + 1] <=> 2 \in w[i]
        /\ 4 \in w[i + 1] <=> ~(3 \in w[i] <=> 6 \in w[i])
        /\ 5 \in w[i + 1] <=> 4 \in w[i]
        /\ 6 \in w[i + 1] <=> 5 \in w[i]
  <2> TAKE i \in 0 .. 17
  <2>1. w[i] \in SUBSET (0 .. 6) /\ w[i + 1] = Clocked(w[i])
    BY WhitenerStep
  <2> HIDE DEF w
  <2> QED
    BY <2>1, ClockedBits
<1>3. \A i \in 0 .. 17 : i \in Output(seed) <=> 6 \in w[i]
  BY DEF Output
<1> HIDE DEF w
\* A bit goes up one place at each step, from 3 to 4 through the feedback.
<1>4. \A i \in 0 .. 15 : 6 \in w[i + 2] <=> 4 \in w[i]
  <2> TAKE i \in 0 .. 15
  <2>1. i \in 0 .. 17 /\ i + 1 \in 0 .. 17 /\ (i + 1) + 1 = i + 2
    OBVIOUS
  <2> QED
    BY <1>2, <2>1
<1>5. \A i \in 0 .. 14 : 6 \in w[i + 3] <=> ~(3 \in w[i] <=> 6 \in w[i])
  <2> TAKE i \in 0 .. 14
  <2>1. i \in 0 .. 17 /\ i + 1 \in 0 .. 15 /\ (i + 1) + 2 = i + 3
    OBVIOUS
  <2> QED
    BY <1>2, <1>4, <2>1
<1>6. \A i \in 0 .. 13 : 6 \in w[i + 4] <=> ~(2 \in w[i] <=> 5 \in w[i])
  <2> TAKE i \in 0 .. 13
  <2>1. i \in 0 .. 17 /\ i + 1 \in 0 .. 14 /\ (i + 1) + 3 = i + 4
    OBVIOUS
  <2> QED
    BY <1>2, <1>5, <2>1
<1>7. \A i \in 0 .. 12 : 6 \in w[i + 5] <=> ~(1 \in w[i] <=> 4 \in w[i])
  <2> TAKE i \in 0 .. 12
  <2>1. i \in 0 .. 17 /\ i + 1 \in 0 .. 13 /\ (i + 1) + 4 = i + 5
    OBVIOUS
  <2> QED
    BY <1>2, <1>6, <2>1
<1>8. \A i \in 0 .. 11 : 6 \in w[i + 6] <=> ~(0 \in w[i] <=> ~(3 \in w[i] <=> 6 \in w[i]))
  <2> TAKE i \in 0 .. 11
  <2>1. i \in 0 .. 17 /\ i + 1 \in 0 .. 12 /\ (i + 1) + 5 = i + 6
    OBVIOUS
  <2> QED
    BY <1>2, <1>7, <2>1
<1>9. \A i \in 0 .. 10 : 6 \in w[i + 7] <=> ~(6 \in w[i] <=> 6 \in w[i + 4])
  <2> TAKE i \in 0 .. 10
  <2>1. i \in 0 .. 17 /\ i + 1 \in 0 .. 11 /\ (i + 1) + 6 = i + 7 /\ i \in 0 .. 13
    OBVIOUS
  <2> QED
    BY <1>2, <1>6, <1>8, <2>1
<1>10. \A i \in 0 .. 10 : i + 7 \in Output(seed) <=> ~(i \in Output(seed) <=> i + 4 \in Output(seed))
  <2> TAKE i \in 0 .. 10
  <2>1. i \in 0 .. 17 /\ i + 4 \in 0 .. 17 /\ i + 7 \in 0 .. 17
    OBVIOUS
  <2> QED
    BY <1>3, <1>9, <2>1
<1>11. /\ 6 \in w[1] <=> 5 \in seed
       /\ 6 \in w[2] <=> 4 \in seed
       /\ 6 \in w[3] <=> ~(3 \in seed <=> 6 \in seed)
       /\ 6 \in w[4] <=> ~(2 \in seed <=> 5 \in seed)
       /\ 6 \in w[5] <=> ~(1 \in seed <=> 4 \in seed)
       /\ 6 \in w[6] <=> ~(0 \in seed <=> ~(3 \in seed <=> 6 \in seed))
  <2>1. /\ 0 + 1 = 1 /\ 0 + 2 = 2 /\ 0 + 3 = 3 /\ 0 + 4 = 4 /\ 0 + 5 = 5 /\ 0 + 6 = 6
        /\ 0 \in 0 .. 17 /\ 0 \in 0 .. 15 /\ 0 \in 0 .. 14 /\ 0 \in 0 .. 13
        /\ 0 \in 0 .. 12 /\ 0 \in 0 .. 11
    OBVIOUS
  <2> QED
    BY <1>1, <1>2, <1>4, <1>5, <1>6, <1>7, <1>8, <2>1
<1>12. /\ 0 \in 0 .. 17 /\ 1 \in 0 .. 17 /\ 2 \in 0 .. 17 /\ 3 \in 0 .. 17
       /\ 4 \in 0 .. 17 /\ 5 \in 0 .. 17 /\ 6 \in 0 .. 17
  OBVIOUS
<1> QED
  BY <1>1, <1>3, <1>10, <1>11, <1>12 DEF GoesOut

\* The stream of a clock is the output of its seed.
LEMMA StreamIs ==
  ASSUME NEW c \in 0 .. 63
  PROVE  Stream(c) = Output(Bits(c) \cup {6}) /\ Bits(c) \cup {6} \in SUBSET (0 .. 6)
<1> DEFINE t == [k \in 1 .. 64 |-> Output(Seed(k - 1))]
<1>1. t \in Seq(SUBSET (0 .. 17))
  <2>1. \A k \in 1 .. 64 : Output(Seed(k - 1)) \in SUBSET (0 .. 17)
    BY DEF Output
  <2> QED
    BY <2>1
<1>2. StreamTable = t
  BY <1>1, ConcatEmptySeq DEF StreamTable
<1>3. c + 1 \in 1 .. 64 /\ (c + 1) - 1 = c /\ c \in 0 .. 255
  OBVIOUS
<1>4. Stream(c) = Output(Seed(c))
  BY <1>2, <1>3 DEF Stream
<1>5. Bits(c) \subseteq 0 .. 5
  BY <1>3, ClockBits
<1>6. Bits(c) \cup {6} \in SUBSET (0 .. 6)
  BY <1>5
<1> QED
  BY <1>4, <1>6 DEF Seed

\* What two streams differ in depends on what their clocks differ in.
LEMMA StreamDifference ==
  ASSUME NEW c \in 0 .. 63, NEW d \in 0 .. 63
  PROVE  GoesOut(Xor(Stream(c), Stream(d)), Xor(Bits(c), Bits(d)))
<1> DEFINE p == Bits(c) \cup {6}
           q == Bits(d) \cup {6}
           b == Xor(Bits(c), Bits(d))
           o == Xor(Stream(c), Stream(d))
<1>1. GoesOut(Stream(c), p) /\ GoesOut(Stream(d), q)
  BY StreamIs, OutputIs, ZenonT(60)
<1>2. 6 \in p /\ 6 \in q /\ 6 \notin b
  <2>1. c \in 0 .. 255 /\ d \in 0 .. 255
    OBVIOUS
  <2>2. 6 \notin Bits(c) /\ 6 \notin Bits(d)
    BY <2>1, ClockBits
  <2> QED
    BY <2>2, InXor
<1>3. \A i \in 0 .. 5 : i \in b <=> ~(i \in p <=> i \in q)
  BY InXor
<1>4. \A i : i \in o <=> ~(i \in Stream(c) <=> i \in Stream(d))
  BY InXor
<1> HIDE DEF p, q, b, o
<1>5. /\ 0 \in b <=> ~(0 \in p <=> 0 \in q)
      /\ 1 \in b <=> ~(1 \in p <=> 1 \in q)
      /\ 2 \in b <=> ~(2 \in p <=> 2 \in q)
      /\ 3 \in b <=> ~(3 \in p <=> 3 \in q)
      /\ 4 \in b <=> ~(4 \in p <=> 4 \in q)
      /\ 5 \in b <=> ~(5 \in p <=> 5 \in q)
  BY <1>3
<1>6. /\ 0 \in o <=> 6 \in b
      /\ 1 \in o <=> 5 \in b
      /\ 2 \in o <=> 4 \in b
      /\ 3 \in o <=> ~(3 \in b <=> 6 \in b)
      /\ 4 \in o <=> ~(2 \in b <=> 5 \in b)
      /\ 5 \in o <=> ~(1 \in b <=> 4 \in b)
      /\ 6 \in o <=> ~(0 \in b <=> ~(3 \in b <=> 6 \in b))
  BY <1>1, <1>2, <1>4, <1>5 DEF GoesOut
<1>7. \A i \in 0 .. 10 : i + 7 \in o <=> ~(i \in o <=> i + 4 \in o)
  BY <1>1, <1>4 DEF GoesOut
<1>8. GoesOut(o, b)
  BY <1>6, <1>7 DEF GoesOut
<1> QED
  BY <1>8 DEF o, b

\* What a step of the HEC register does to each bit: y is x after the input e.
Steps(x, e, y) ==
  LET fb == ~(7 \in x <=> e)
  IN  /\ 0 \in y <=> fb
      /\ 1 \in y <=> ~(0 \in x <=> fb)
      /\ 2 \in y <=> ~(1 \in x <=> fb)
      /\ 3 \in y <=> 2 \in x
      /\ 4 \in y <=> 3 \in x
      /\ 5 \in y <=> ~(4 \in x <=> fb)
      /\ 6 \in y <=> 5 \in x
      /\ 7 \in y <=> ~(6 \in x <=> fb)

\* That is what HecStep does.
LEMMA HecStepBits ==
  ASSUME NEW x \in SUBSET (0 .. 7), NEW d, NEW i
  PROVE  HecStep(x, i \in d) \in SUBSET (0 .. 7) /\ Steps(x, i \in d, HecStep(x, i \in d))
<1> DEFINE fb == ~(7 \in x <=> i \in d)
           taps == IF fb THEN HecTaps ELSE {}
           y == HecStep(x, i \in d)
<1>1. y = Xor(Shift(x, 8), taps)
  BY DEF HecStep
<1>2. \A k \in 0 .. 7 : k \in Shift(x, 8) <=> k - 1 \in x
  BY DEF Shift
<1>3. \A k : k \in taps <=> fb /\ (k = 7 \/ k = 5 \/ k = 2 \/ k = 1 \/ k = 0)
  BY DEF HecTaps
<1>4. Shift(x, 8) \subseteq 0 .. 7 /\ taps \subseteq 0 .. 7
  BY DEF Shift, HecTaps
<1> HIDE DEF taps, y
<1>5. \A k \in 0 .. 7 :
         k \in y <=> ~(k - 1 \in x <=> fb /\ (k = 7 \/ k = 5 \/ k = 2 \/ k = 1 \/ k = 0))
  BY <1>1, <1>2, <1>3, InXor
<1>6. y \in SUBSET (0 .. 7)
  BY <1>1, <1>4 DEF Xor
<1>7. /\ 0 \in y <=> fb
      /\ 1 \in y <=> ~(0 \in x <=> fb)
      /\ 2 \in y <=> ~(1 \in x <=> fb)
      /\ 3 \in y <=> 2 \in x
      /\ 4 \in y <=> 3 \in x
      /\ 5 \in y <=> ~(4 \in x <=> fb)
      /\ 6 \in y <=> 5 \in x
      /\ 7 \in y <=> ~(6 \in x <=> fb)
  <2> HIDE DEF fb
  <2>1. -1 \notin x
    OBVIOUS
  <2> QED
    BY <1>5, <2>1
<1> QED
  BY <1>6, <1>7 DEF y, Steps

\* The step is linear: registers that differ step to what their difference steps to.
LEMMA HecStepDifference ==
  ASSUME NEW x \in SUBSET (0 .. 7), NEW y \in SUBSET (0 .. 7), NEW d, NEW e, NEW i
  PROVE  Xor(HecStep(x, i \in d), HecStep(y, i \in e)) = HecStep(Xor(x, y), i \in Xor(d, e))
<1> DEFINE z == Xor(x, y)
           p == HecStep(x, i \in d)
           q == HecStep(y, i \in e)
           r == HecStep(z, i \in Xor(d, e))
<1>1. z \in SUBSET (0 .. 7)
  BY DEF Xor
<1>2. /\ \A k : k \in z <=> ~(k \in x <=> k \in y)
      /\ i \in Xor(d, e) <=> ~(i \in d <=> i \in e)
  BY InXor
<1>3. p \in SUBSET (0 .. 7) /\ Steps(x, i \in d, p)
  BY HecStepBits
<1>4. q \in SUBSET (0 .. 7) /\ Steps(y, i \in e, q)
  BY HecStepBits
<1>5. r \in SUBSET (0 .. 7) /\ Steps(z, i \in Xor(d, e), r)
  BY <1>1, HecStepBits
<1> HIDE DEF p, q, r, z
<1>6. /\ r \in SUBSET (0 .. 7) /\ p \in SUBSET (0 .. 7) /\ q \in SUBSET (0 .. 7)
      /\ 0 \in r <=> ~(0 \in p <=> 0 \in q)
      /\ 1 \in r <=> ~(1 \in p <=> 1 \in q)
      /\ 2 \in r <=> ~(2 \in p <=> 2 \in q)
      /\ 3 \in r <=> ~(3 \in p <=> 3 \in q)
      /\ 4 \in r <=> ~(4 \in p <=> 4 \in q)
      /\ 5 \in r <=> ~(5 \in p <=> 5 \in q)
      /\ 6 \in r <=> ~(6 \in p <=> 6 \in q)
      /\ 7 \in r <=> ~(7 \in p <=> 7 \in q)
  BY <1>2, <1>3, <1>4, <1>5 DEF Steps
<1>7. Xor(p, q) = r
  <2>1. \A j \in 0 .. 7 : j \in r <=> ~(j \in p <=> j \in q)
    BY <1>6
  <2>2. \A j : j \in Xor(p, q) <=> j \in r
    BY <1>6, <2>1, InXor
  <2> QED
    BY <2>2 DEF Xor
<1> QED
  BY <1>7 DEF p, q, r, z

\* r is the register run on the difference of two seeds and of two data fields.
DifferenceRun(r, u, d, v, e) ==
  /\ r[0] = Xor(u, v)
  /\ r[10] = Xor(HecRegister(u, d), HecRegister(v, e))
  /\ \A i \in 0 .. 9 : r[i] \in SUBSET (0 .. 7) /\ r[i + 1] = HecStep(r[i], i \in Xor(d, e))

\* What two HEC registers differ in is a run of the register too.
LEMMA HecDifference ==
  ASSUME NEW u \in SUBSET (0 .. 7), NEW v \in SUBSET (0 .. 7), NEW d, NEW e
  PROVE  \E r : DifferenceRun(r, u, d, v, e)
<1>1. PICK l : /\ l = [i \in 0 .. 10 |-> IF i = 0 THEN u ELSE HecStep(l[i - 1], i - 1 \in d)]
               /\ HecRegister(u, d) = l[10]
  BY HecRunIs
<1>2. PICK m : /\ m = [i \in 0 .. 10 |-> IF i = 0 THEN v ELSE HecStep(m[i - 1], i - 1 \in e)]
               /\ HecRegister(v, e) = m[10]
  BY HecRunIs
<1>3. l[0] = u /\ m[0] = v
  BY <1>1, <1>2
<1>4. \A i \in 0 .. 9 : l[i + 1] = HecStep(l[i], i \in d) /\ m[i + 1] = HecStep(m[i], i \in e)
  <2> TAKE i \in 0 .. 9
  <2>1. i + 1 \in 0 .. 10 /\ i + 1 # 0 /\ (i + 1) - 1 = i
    OBVIOUS
  <2> QED
    BY <1>1, <1>2, <2>1
<1>5. \A i \in 0 .. 9 : l[i] \in SUBSET (0 .. 7) /\ m[i] \in SUBSET (0 .. 7)
  <2>1. \A x, b : HecStep(x, b) \in SUBSET (0 .. 7)
    BY DEF HecStep, HecTaps, Xor, Shift
  <2> TAKE i \in 0 .. 9
  <2>2. CASE i = 0
    BY <1>3, <2>2
  <2>3. CASE i # 0
    <3>1. i - 1 \in 0 .. 9 /\ (i - 1) + 1 = i
      BY <2>3
    <3>2. l[i] = HecStep(l[i - 1], i - 1 \in d) /\ m[i] = HecStep(m[i - 1], i - 1 \in e)
      BY <1>4, <3>1
    <3> QED
      BY <2>1, <3>2
  <2> QED
    BY <2>2, <2>3
<1> DEFINE r == [i \in 0 .. 10 |-> Xor(l[i], m[i])]
<1>6. r[0] = Xor(u, v) /\ r[10] = Xor(HecRegister(u, d), HecRegister(v, e))
  BY <1>1, <1>2, <1>3
<1>7. \A i \in 0 .. 9 : r[i] \in SUBSET (0 .. 7)
  BY <1>5 DEF Xor
<1>8. \A i \in 0 .. 9 : r[i + 1] = HecStep(r[i], i \in Xor(d, e))
  <2> TAKE i \in 0 .. 9
  <2>1. r[i] = Xor(l[i], m[i]) /\ r[i + 1] = Xor(l[i + 1], m[i + 1])
    OBVIOUS
  <2>2. l[i + 1] = HecStep(l[i], i \in d) /\ m[i + 1] = HecStep(m[i], i \in e)
    BY <1>4
  <2> QED
    BY <1>5, <2>1, <2>2, HecStepDifference, SMTT(30)
<1> QED
  BY <1>6, <1>7, <1>8 DEF DifferenceRun

-----------------------------------------------------------------------------
(***************************************************************************)
(* Which clocks fit.                                                       *)
(***************************************************************************)
\* By how much a UAP differs from the sender's when it fits a clock that
\* differs from the sender's by b.
Offset(b) ==
  LET odd2(i, j) == ~(i \in b <=> j \in b)
      odd4(i, j, k, l) == ~((i \in b <=> j \in b) <=> (k \in b <=> l \in b))
  IN  {k \in 0 .. 7 : \/ k = 0 /\ odd4(0, 1, 2, 4)
                      \/ k = 1 /\ odd4(0, 3, 4, 5)
                      \/ k = 2 /\ odd2(2, 5)
                      \/ k = 3 /\ odd4(0, 1, 2, 4)
                      \/ k = 4 /\ odd4(1, 2, 3, 5)
                      \/ k = 5 /\ odd2(2, 4)
                      \/ k = 6 /\ odd4(1, 2, 4, 5)
                      \/ k = 7 /\ odd2(2, 5)}

OffsetBits(a, b) ==
  /\ 0 \in a <=> ~((0 \in b <=> 1 \in b) <=> (2 \in b <=> 4 \in b))
  /\ 1 \in a <=> ~((0 \in b <=> 3 \in b) <=> (4 \in b <=> 5 \in b))
  /\ 2 \in a <=> ~(2 \in b <=> 5 \in b)
  /\ 3 \in a <=> ~((0 \in b <=> 1 \in b) <=> (2 \in b <=> 4 \in b))
  /\ 4 \in a <=> ~((1 \in b <=> 2 \in b) <=> (3 \in b <=> 5 \in b))
  /\ 5 \in a <=> ~(2 \in b <=> 4 \in b)
  /\ 6 \in a <=> ~((1 \in b <=> 2 \in b) <=> (4 \in b <=> 5 \in b))
  /\ 7 \in a <=> ~(2 \in b <=> 5 \in b)

\* The offset, bit by bit,
LEMMA OffsetIs ==
  ASSUME NEW b
  PROVE  Offset(b) \in SUBSET (0 .. 7) /\ OffsetBits(Offset(b), b)
  BY DEF Offset, OffsetBits

\* and nothing else has these bits.
LEMMA OffsetOnly ==
  ASSUME NEW b, NEW a \in SUBSET (0 .. 7), OffsetBits(a, b)
  PROVE  a = Offset(b)
<1>1. \A k \in 0 .. 7 : k = 0 \/ k = 1 \/ k = 2 \/ k = 3 \/ k = 4 \/ k = 5 \/ k = 6 \/ k = 7
  OBVIOUS
<1>2. /\ 0 \in a <=> 0 \in Offset(b)
      /\ 1 \in a <=> 1 \in Offset(b)
      /\ 2 \in a <=> 2 \in Offset(b)
      /\ 3 \in a <=> 3 \in Offset(b)
      /\ 4 \in a <=> 4 \in Offset(b)
      /\ 5 \in a <=> 5 \in Offset(b)
      /\ 6 \in a <=> 6 \in Offset(b)
      /\ 7 \in a <=> 7 \in Offset(b)
  BY OffsetIs DEF OffsetBits
<1>3. \A k \in 0 .. 7 : k \in a <=> k \in Offset(b)
  BY <1>1, <1>2, ZenonT(60)
<1>4. a \subseteq 0 .. 7 /\ Offset(b) \subseteq 0 .. 7
  BY OffsetIs
<1> QED
  BY <1>3, <1>4, Zenon

\* The check closes - the register ends with the difference of the check bits -
\* exactly when the UAPs differ by the offset of the clocks.
LEMMA CheckCloses ==
  ASSUME NEW b, 6 \notin b, NEW o, GoesOut(o, b), NEW r,
         \A i \in 0 .. 9 : r[i] \in SUBSET (0 .. 7) /\ r[i + 1] = HecStep(r[i], i \in o)
  PROVE  (\A k \in 0 .. 7 : 17 - k \in o <=> k \in r[10]) <=> OffsetBits(r[0], b)
<1>1. \A i \in 0 .. 9 : Steps(r[i], i \in o, r[i + 1])
  BY HecStepBits
<1>2. /\ Steps(r[0], 0 \in o, r[1]) /\ Steps(r[1], 1 \in o, r[2])
      /\ Steps(r[2], 2 \in o, r[3]) /\ Steps(r[3], 3 \in o, r[4])
      /\ Steps(r[4], 4 \in o, r[5]) /\ Steps(r[5], 5 \in o, r[6])
      /\ Steps(r[6], 6 \in o, r[7]) /\ Steps(r[7], 7 \in o, r[8])
      /\ Steps(r[8], 8 \in o, r[9]) /\ Steps(r[9], 9 \in o, r[10])
  <2>1. /\ 0 \in 0 .. 9 /\ 0 + 1 = 1 /\ 1 \in 0 .. 9 /\ 1 + 1 = 2
        /\ 2 \in 0 .. 9 /\ 2 + 1 = 3 /\ 3 \in 0 .. 9 /\ 3 + 1 = 4
        /\ 4 \in 0 .. 9 /\ 4 + 1 = 5 /\ 5 \in 0 .. 9 /\ 5 + 1 = 6
        /\ 6 \in 0 .. 9 /\ 6 + 1 = 7 /\ 7 \in 0 .. 9 /\ 7 + 1 = 8
        /\ 8 \in 0 .. 9 /\ 8 + 1 = 9 /\ 9 \in 0 .. 9 /\ 9 + 1 = 10
    OBVIOUS
  <2> QED
    BY <1>1, <2>1
<1>3. /\ 0 \notin o
      /\ 1 \in o <=> 5 \in b
      /\ 2 \in o <=> 4 \in b
      /\ 3 \in o <=> 3 \in b
      /\ 4 \in o <=> ~(2 \in b <=> 5 \in b)
      /\ 5 \in o <=> ~(1 \in b <=> 4 \in b)
      /\ 6 \in o <=> ~(0 \in b <=> 3 \in b)
  BY DEF GoesOut
<1>4. /\ 7 \in o <=> ~(0 \in o <=> 4 \in o)
      /\ 8 \in o <=> ~(1 \in o <=> 5 \in o)
      /\ 9 \in o <=> ~(2 \in o <=> 6 \in o)
      /\ 10 \in o <=> ~(3 \in o <=> 7 \in o)
      /\ 11 \in o <=> ~(4 \in o <=> 8 \in o)
      /\ 12 \in o <=> ~(5 \in o <=> 9 \in o)
      /\ 13 \in o <=> ~(6 \in o <=> 10 \in o)
      /\ 14 \in o <=> ~(7 \in o <=> 11 \in o)
      /\ 15 \in o <=> ~(8 \in o <=> 12 \in o)
      /\ 16 \in o <=> ~(9 \in o <=> 13 \in o)
      /\ 17 \in o <=> ~(10 \in o <=> 14 \in o)
  <2>1. \A i \in 0 .. 10 : i + 7 \in o <=> ~(i \in o <=> i + 4 \in o)
    BY DEF GoesOut
  <2> QED
    BY <2>1
<1>5. (\A k \in 0 .. 7 : 17 - k \in o <=> k \in r[10])
        <=> /\ 17 \in o <=> 0 \in r[10]
            /\ 16 \in o <=> 1 \in r[10]
            /\ 15 \in o <=> 2 \in r[10]
            /\ 14 \in o <=> 3 \in r[10]
            /\ 13 \in o <=> 4 \in r[10]
            /\ 12 \in o <=> 5 \in r[10]
            /\ 11 \in o <=> 6 \in r[10]
            /\ 10 \in o <=> 7 \in r[10]
  <2>1. \A k \in 0 .. 7 : k = 0 \/ k = 1 \/ k = 2 \/ k = 3 \/ k = 4 \/ k = 5 \/ k = 6 \/ k = 7
    OBVIOUS
  <2>2. /\ 17 - 0 = 17 /\ 17 - 1 = 16 /\ 17 - 2 = 15 /\ 17 - 3 = 14
        /\ 17 - 4 = 13 /\ 17 - 5 = 12 /\ 17 - 6 = 11 /\ 17 - 7 = 10
        /\ 0 \in 0 .. 7 /\ 1 \in 0 .. 7 /\ 2 \in 0 .. 7 /\ 3 \in 0 .. 7
        /\ 4 \in 0 .. 7 /\ 5 \in 0 .. 7 /\ 6 \in 0 .. 7 /\ 7 \in 0 .. 7
    OBVIOUS
  <2> QED
    BY <2>1, <2>2
<1> QED
  BY <1>2, <1>3, <1>4, <1>5, SMTT(60) DEF Steps, OffsetBits

\* The check bits are the register's, the last one first.
LEMMA InHecBits ==
  ASSUME NEW u, NEW d, NEW i
  PROVE  i \in HecBits(u, d) <=> i \in 10 .. 17 /\ 17 - i \in HecRegister(Bits(u), d)
<1> DEFINE l == HecRegister(Bits(u), d)
<1>1. HecBits(u, d) = {10 + k : k \in {j \in 0 .. 7 : 7 - j \in l}}
  BY DEF HecBits
<1> HIDE DEF l
<1>2. ASSUME i \in HecBits(u, d) PROVE i \in 10 .. 17 /\ 17 - i \in l
  <2>1. PICK k \in 0 .. 7 : 7 - k \in l /\ i = 10 + k
    BY <1>1, <1>2
  <2> QED
    BY <2>1
<1>3. ASSUME i \in 10 .. 17, 17 - i \in l PROVE i \in HecBits(u, d)
  <2>1. i - 10 \in 0 .. 7 /\ 7 - (i - 10) = 17 - i /\ i = 10 + (i - 10)
    BY <1>3
  <2> QED
    BY <1>1, <1>3, <2>1
<1> QED
  BY <1>2, <1>3 DEF l

\* A UAP fits a clock exactly when it differs from the sender's by the offset of
\* what the clock differs from the sender's: the data does not matter.
LEMMA FitsWhen ==
  ASSUME NEW s \in [uap : 0 .. 255, clk : 0 .. 63, data : SUBSET (0 .. 9)],
         NEW u \in 0 .. 255, NEW c \in 0 .. 63
  PROVE  Checks(Dewhiten(Sent(s), c), u)
           <=> Xor(Bits(u), Bits(s.uap)) = Offset(Xor(Bits(c), Bits(s.clk)))
<1> DEFINE w0 == s.data \cup HecBits(s.uap, s.data)
           w == Dewhiten(Sent(s), c)
           o == Xor(Stream(c), Stream(s.clk))
           b == Xor(Bits(c), Bits(s.clk))
           l == HecRegister(Bits(s.uap), s.data)
           m == HecRegister(Bits(u), w \cap 0 .. 9)
<1>1. s.uap \in 0 .. 255 /\ s.clk \in 0 .. 63 /\ s.data \in SUBSET (0 .. 9)
  OBVIOUS
<1>2. \A i : i \in w <=> ~(i \in w0 <=> i \in o)
  <2>1. \A i : i \in w <=> ~(~(i \in w0 <=> i \in Stream(s.clk)) <=> i \in Stream(c))
    BY InXor DEF Dewhiten, Sent
  <2>2. \A i : i \in o <=> ~(i \in Stream(c) <=> i \in Stream(s.clk))
    BY InXor
  <2> HIDE DEF w, w0, o
  <2> QED
    BY <2>1, <2>2
<1>3. /\ \A i \in 0 .. 9 : i \in w0 <=> i \in s.data
      /\ \A i \in 10 .. 17 : i \in w0 <=> 17 - i \in l
  <2>1. \A i : i \in w0 <=> i \in s.data \/ (i \in 10 .. 17 /\ 17 - i \in l)
    BY InHecBits
  <2>2. \A i \in 0 .. 9 : i \notin 10 .. 17
    OBVIOUS
  <2>3. \A i \in 10 .. 17 : i \notin s.data
    BY <1>1
  <2> QED
    BY <2>1, <2>2, <2>3
<1>4. GoesOut(o, b) /\ 6 \notin b
  <2>1. GoesOut(o, b)
    BY <1>1, StreamDifference
  <2>2. s.clk \in 0 .. 255 /\ c \in 0 .. 255
    BY <1>1
  <2>3. 6 \notin Bits(c) /\ 6 \notin Bits(s.clk)
    BY <1>1, <2>2, ClockBits
  <2> QED
    BY <2>1, <2>3, InXor, SMTT(30)
<1>5. Bits(u) \in SUBSET (0 .. 7) /\ Bits(s.uap) \in SUBSET (0 .. 7)
  BY <1>1, BitIs DEF Positions
<1>6. PICK r : DifferenceRun(r, Bits(u), w \cap 0 .. 9, Bits(s.uap), s.data)
  BY <1>5, HecDifference
<1>7. \A i \in 0 .. 9 : r[i] \in SUBSET (0 .. 7) /\ r[i + 1] = HecStep(r[i], i \in o)
  <2> TAKE i \in 0 .. 9
  <2>1. i \in Xor(w \cap 0 .. 9, s.data) <=> i \in o
    <3> HIDE DEF w, w0, o
    <3>1. i \in Xor(w \cap 0 .. 9, s.data) <=> ~(i \in w <=> i \in s.data)
      BY InXor
    <3> QED
      BY <1>2, <1>3, <3>1
  <2>2. (i \in Xor(w \cap 0 .. 9, s.data)) = (i \in o)
    BY <2>1
  <2> QED
    BY <1>6, <2>2 DEF DifferenceRun
<1>8. Checks(w, u) <=> \A i \in 10 .. 17 : i \in w <=> 17 - i \in m
  <2>1. \A i : i \in HecBits(u, w \cap 0 .. 9) <=> i \in 10 .. 17 /\ 17 - i \in m
    BY InHecBits
  <2>2. Checks(w, u) <=> w \cap 10 .. 17 = HecBits(u, w \cap 0 .. 9)
    BY DEF Checks
  <2> HIDE DEF w, m
  <2>3. w \cap 10 .. 17 = HecBits(u, w \cap 0 .. 9)
          <=> \A i : i \in w \cap 10 .. 17 <=> i \in HecBits(u, w \cap 0 .. 9)
    BY Zenon
  <2> QED
    BY <2>1, <2>2, <2>3
<1>9. r[0] = Xor(Bits(u), Bits(s.uap)) /\ r[10] = Xor(m, l)
  BY <1>6 DEF DifferenceRun
<1> HIDE DEF w, w0, o, b, l, m
<1>10. (\A i \in 10 .. 17 : i \in w <=> 17 - i \in m) <=> (\A k \in 0 .. 7 : 17 - k \in o <=> k \in r[10])
  <2>1. \A i \in 10 .. 17 : (i \in w <=> 17 - i \in m) <=> (i \in o <=> 17 - i \in r[10])
    BY <1>2, <1>3, <1>9, InXor
  <2>2. \A i \in 10 .. 17 : 17 - i \in 0 .. 7 /\ 17 - (17 - i) = i
    OBVIOUS
  <2>3. \A k \in 0 .. 7 : 17 - k \in 10 .. 17 /\ 17 - (17 - k) = k
    OBVIOUS
  <2> QED
    BY <2>1, <2>2, <2>3
<1>11. (\A k \in 0 .. 7 : 17 - k \in o <=> k \in r[10]) <=> OffsetBits(r[0], b)
  BY <1>4, <1>7, CheckCloses
<1>12. OffsetBits(r[0], b) <=> r[0] = Offset(b)
  <2>1. r[0] \in SUBSET (0 .. 7)
    BY <1>7
  <2> QED
    BY <2>1, OffsetIs, OffsetOnly
<1> QED
  BY <1>9, <1>8, <1>10, <1>11, <1>12 DEF w, b

-----------------------------------------------------------------------------
(***************************************************************************)
(* A UAP that fits has two clocks, a clock has one UAP.                    *)
(***************************************************************************)
\* Adding the same twice changes nothing.
LEMMA XorCancels ==
  ASSUME NEW a, NEW b, NEW c
  PROVE  Xor(a, c) = Xor(b, c) <=> \A i : i \in a <=> i \in b
<1>1. Xor(a, c) = Xor(b, c) <=> \A i : i \in Xor(a, c) <=> i \in Xor(b, c)
  BY Zenon DEF Xor
<1> QED
  BY <1>1, InXor

\* Adding the same again takes it back.
LEMMA XorTwice ==
  ASSUME NEW W, NEW a \in SUBSET W, NEW b
  PROVE  Xor(Xor(a, b), b) = a
  BY DEF Xor

\* The offset forgets one thing only, whether all six bits are flipped.
LEMMA OffsetKernel ==
  ASSUME NEW b \in SUBSET (0 .. 5), NEW d \in SUBSET (0 .. 5)
  PROVE  Offset(b) = Offset(d) <=> d = b \/ d = Xor(b, 0 .. 5)
<1>1. Offset(b) = Offset(d) <=> OffsetBits(Offset(b), d)
  BY OffsetIs, OffsetOnly
<1>2. OffsetBits(Offset(b), b)
  BY OffsetIs
<1>3. OffsetBits(Offset(b), d)
        <=> \/ /\ 0 \in d <=> 0 \in b
               /\ 1 \in d <=> 1 \in b
               /\ 2 \in d <=> 2 \in b
               /\ 3 \in d <=> 3 \in b
               /\ 4 \in d <=> 4 \in b
               /\ 5 \in d <=> 5 \in b
            \/ /\ 0 \in d <=> 0 \notin b
               /\ 1 \in d <=> 1 \notin b
               /\ 2 \in d <=> 2 \notin b
               /\ 3 \in d <=> 3 \notin b
               /\ 4 \in d <=> 4 \notin b
               /\ 5 \in d <=> 5 \notin b
  BY <1>2 DEF OffsetBits
<1>4. \A i \in 0 .. 5 : i = 0 \/ i = 1 \/ i = 2 \/ i = 3 \/ i = 4 \/ i = 5
  OBVIOUS
<1>5. d = b <=> \A i \in 0 .. 5 : i \in d <=> i \in b
  OBVIOUS
<1>6. d = Xor(b, 0 .. 5) <=> \A i \in 0 .. 5 : i \in d <=> i \notin b
  <2>1. Xor(b, 0 .. 5) = {i \in 0 .. 5 : i \notin b}
    BY DEF Xor
  <2> QED
    BY <2>1
<1>7. (\A i \in 0 .. 5 : i \in d <=> i \in b)
        <=> /\ 0 \in d <=> 0 \in b
            /\ 1 \in d <=> 1 \in b
            /\ 2 \in d <=> 2 \in b
            /\ 3 \in d <=> 3 \in b
            /\ 4 \in d <=> 4 \in b
            /\ 5 \in d <=> 5 \in b
  BY <1>4
<1>8. (\A i \in 0 .. 5 : i \in d <=> i \notin b)
        <=> /\ 0 \in d <=> 0 \notin b
            /\ 1 \in d <=> 1 \notin b
            /\ 2 \in d <=> 2 \notin b
            /\ 3 \in d <=> 3 \notin b
            /\ 4 \in d <=> 4 \notin b
            /\ 5 \in d <=> 5 \notin b
  BY <1>4
<1> QED
  BY <1>1, <1>3, <1>5, <1>6, <1>7, <1>8, Zenon

Sender == [uap : 0 .. 255, clk : 0 .. 63, data : SUBSET (0 .. 9)]
ClkOffset(s, c) == Xor(Bits(c), Bits(s.clk))
UapOffset(s, u) == Xor(Bits(u), Bits(s.uap))

\* Clocks differ in six bits, UAPs in eight.
LEMMA OffsetTypes ==
  ASSUME NEW s \in Sender
  PROVE  /\ \A c \in 0 .. 63 : Bits(c) \in SUBSET (0 .. 5) /\ ClkOffset(s, c) \in SUBSET (0 .. 5)
         /\ \A u \in 0 .. 255 : Bits(u) \in SUBSET (0 .. 7) /\ UapOffset(s, u) \in SUBSET (0 .. 7)
         /\ Bits(s.clk) \in SUBSET (0 .. 5) /\ Bits(s.uap) \in SUBSET (0 .. 7)
<1>1. s.clk \in 0 .. 63 /\ s.uap \in 0 .. 255 /\ \A c \in 0 .. 63 : c \in 0 .. 255
  BY DEF Sender
<1>2. \A c \in 0 .. 63 : Bits(c) \in SUBSET (0 .. 5)
  BY <1>1, ClockBits
<1>3. \A u \in 0 .. 255 : Bits(u) \in SUBSET (0 .. 7)
  BY BitIs, SMTT(30) DEF Positions
<1>4. \A n, a, b : a \in SUBSET (0 .. n) /\ b \in SUBSET (0 .. n) => Xor(a, b) \in SUBSET (0 .. n)
  BY DEF Xor
<1> QED
  BY <1>1, <1>2, <1>3, <1>4, ZenonT(60) DEF ClkOffset, UapOffset

\* c is one of the clocks of u.
LEMMA FitsBy ==
  ASSUME NEW s \in Sender, NEW u \in 0 .. 255, NEW c \in 0 .. 63
  PROVE  c \in FittingClks(Sent(s), u) <=> UapOffset(s, u) = Offset(ClkOffset(s, c))
  BY FitsWhen DEF FittingClks, Sender, UapOffset, ClkOffset

\* Two clocks differ from a sender's as much only when they are one,
LEMMA ClkOffsetInjective ==
  ASSUME NEW s \in Sender, NEW c \in 0 .. 63, NEW d \in 0 .. 63
  PROVE  /\ ClkOffset(s, d) = ClkOffset(s, c) <=> d = c
         /\ ClkOffset(s, d) = Xor(ClkOffset(s, c), 0 .. 5) <=> d = 63 - c
<1>0. \A x, y, z : Xor(x, z) = Xor(y, z) <=> \A i : i \in x <=> i \in y
  BY XorCancels
<1>1. /\ Bits(c) \in SUBSET (0 .. 5) /\ Bits(d) \in SUBSET (0 .. 5)
      /\ Bits(63 - c) \in SUBSET (0 .. 5)
      /\ c \in 0 .. 255 /\ d \in 0 .. 255 /\ 63 - c \in 0 .. 255
  BY OffsetTypes
<1>2. ClkOffset(s, d) = ClkOffset(s, c) <=> Bits(d) = Bits(c)
  <2>1. ClkOffset(s, d) = ClkOffset(s, c) <=> \A i : i \in Bits(d) <=> i \in Bits(c)
    BY <1>0 DEF ClkOffset
  <2>2. (\A i : i \in Bits(d) <=> i \in Bits(c)) <=> Bits(d) = Bits(c)
    BY <1>1
  <2> QED
    BY <2>1, <2>2
<1>3. Bits(d) = Bits(c) <=> d = c
  BY <1>1, BitsInjective
<1>4. Xor(ClkOffset(s, c), 0 .. 5) = Xor(Bits(63 - c), Bits(s.clk))
  <2>1. Bits(63 - c) = Xor(Bits(c), 0 .. 5)
    BY ComplementBits
  <2>2. \A x, y, z : Xor(Xor(x, y), z) = Xor(Xor(x, z), y)
    BY DEF Xor
  <2> QED
    BY <2>1, <2>2 DEF ClkOffset
<1>5. ClkOffset(s, d) = Xor(Bits(63 - c), Bits(s.clk)) <=> Bits(d) = Bits(63 - c)
  <2>1. ClkOffset(s, d) = Xor(Bits(63 - c), Bits(s.clk)) <=> \A i : i \in Bits(d) <=> i \in Bits(63 - c)
    BY <1>0 DEF ClkOffset
  <2>2. (\A i : i \in Bits(d) <=> i \in Bits(63 - c)) <=> Bits(d) = Bits(63 - c)
    BY <1>1, SMTT(30)
  <2> QED
    BY <2>1, <2>2
<1>6. Bits(d) = Bits(63 - c) <=> d = 63 - c
  BY <1>1, BitsInjective, ZenonT(60)
<1> QED
  BY <1>2, <1>3, <1>4, <1>5, <1>6

\* and the clocks of a UAP are complements.
LEMMA ClkPair ==
  ASSUME NEW s \in Sender, NEW u \in 0 .. 255, NEW c \in FittingClks(Sent(s), u)
  PROVE  c \in 0 .. 63 /\ FittingClks(Sent(s), u) = {c, 63 - c}
<1>1. c \in 0 .. 63 /\ 63 - c \in 0 .. 63
  BY DEF FittingClks
<1>2. \A d \in 0 .. 63 : d \in FittingClks(Sent(s), u) <=> d = c \/ d = 63 - c
  <2> TAKE d \in 0 .. 63
  <2>1. UapOffset(s, u) = Offset(ClkOffset(s, c))
    BY <1>1, FitsBy, ZenonT(60)
  <2>2. d \in FittingClks(Sent(s), u) <=> Offset(ClkOffset(s, c)) = Offset(ClkOffset(s, d))
    BY <2>1, FitsBy
  <2>3. ClkOffset(s, c) \in SUBSET (0 .. 5) /\ ClkOffset(s, d) \in SUBSET (0 .. 5)
    BY <1>1, OffsetTypes
  <2>4. Offset(ClkOffset(s, c)) = Offset(ClkOffset(s, d))
          <=> ClkOffset(s, d) = ClkOffset(s, c) \/ ClkOffset(s, d) = Xor(ClkOffset(s, c), 0 .. 5)
    BY <2>3, OffsetKernel
  <2> QED
    BY <1>1, <2>2, <2>4, ClkOffsetInjective, SMTT(30)
<1>3. FittingClks(Sent(s), u) \subseteq 0 .. 63
  BY DEF FittingClks
<1> QED
  BY <1>1, <1>2, <1>3

\* Every offset is that of some UAP.
LEMMA UapAt ==
  ASSUME NEW s \in Sender, NEW a \in SUBSET (0 .. 7)
  PROVE  \E u \in 0 .. 255 : UapOffset(s, u) = a
<1>1. Xor(a, Bits(s.uap)) \in SUBSET (0 .. 7)
  BY OffsetTypes DEF Xor
<1>2. PICK u \in 0 .. 255 : Bits(u) = Xor(a, Bits(s.uap))
  BY <1>1, BitsOnto
<1>3. UapOffset(s, u) = a
  BY <1>2, XorTwice, SMTT(30) DEF UapOffset
<1> QED
  BY <1>3

\* A clock fits one UAP,
LEMMA OneUap ==
  ASSUME NEW s \in Sender, NEW c \in 0 .. 63
  PROVE  /\ \E u \in 0 .. 255 : c \in FittingClks(Sent(s), u)
         /\ \A u, v \in 0 .. 255 :
              c \in FittingClks(Sent(s), u) /\ c \in FittingClks(Sent(s), v) => u = v
<1>1. \E u \in 0 .. 255 : c \in FittingClks(Sent(s), u)
  <2>1. PICK u \in 0 .. 255 : UapOffset(s, u) = Offset(ClkOffset(s, c))
    BY UapAt, OffsetIs
  <2> QED
    BY <2>1, FitsBy
<1>2. ASSUME NEW u \in 0 .. 255, NEW v \in 0 .. 255,
             c \in FittingClks(Sent(s), u), c \in FittingClks(Sent(s), v)
      PROVE  u = v
  <2>1. Xor(Bits(u), Bits(s.uap)) = Xor(Bits(v), Bits(s.uap))
    BY <1>2, FitsBy, ZenonT(60) DEF UapOffset
  <2>2. Bits(u) \in SUBSET (0 .. 7) /\ Bits(v) \in SUBSET (0 .. 7)
    BY OffsetTypes
  <2>3. Bits(u) = Bits(v)
    BY <2>1, <2>2, XorCancels
  <2> QED
    BY <2>3, BitsInjective, ZenonT(60)
<1> QED
  BY <1>1, <1>2, ZenonT(60)

\* so a UAP for each of the lower 32 clocks.
LEMMA FittingCount ==
  ASSUME NEW s \in Sender
  PROVE  LET F == {u \in 0 .. 255 : FittingClks(Sent(s), u) # {}}
         IN  IsFiniteSet(F) /\ Cardinality(F) = 32
<1> DEFINE Low == 0 .. 31
           fits(u) == FittingClks(Sent(s), u)
           F == {u \in 0 .. 255 : fits(u) # {}}
           f == [c \in Low |-> CHOOSE u \in 0 .. 255 : c \in fits(u)]
<1>1. \A c \in Low : f[c] \in 0 .. 255 /\ c \in fits(f[c])
  <2> TAKE c \in Low
  <2>1. c \in 0 .. 63
    BY SMTT(30)
  <2>2. \E u \in 0 .. 255 : c \in fits(u)
    BY <2>1, OneUap, ZenonT(60)
  <2> QED
    BY <2>2, ZenonT(60)
<1>2. f \in [Low -> F]
  BY <1>1
<1> HIDE DEF f, fits
<1>3. \A c, d \in Low : f[c] = f[d] => c = d
  <2> SUFFICES ASSUME NEW c \in Low, NEW d \in Low, f[c] = f[d] PROVE c = d
    OBVIOUS
  <2>1. f[c] \in 0 .. 255 /\ c \in fits(f[c]) /\ d \in fits(f[c])
    BY <1>1
  <2>2. fits(f[c]) = {c, 63 - c}
    BY <2>1, ClkPair DEF fits
  <2>3. d = c \/ d = 63 - c
    BY <2>1, <2>2
  <2>4. c \in 0 .. 31 /\ d \in 0 .. 31
    OBVIOUS
  <2> QED
    BY <2>3, <2>4
<1>4. \A u \in F : \E c \in Low : f[c] = u
  <2> TAKE u \in F
  <2>1. PICK c : c \in fits(u)
    OBVIOUS
  <2>2. u \in 0 .. 255 /\ c \in 0 .. 63 /\ fits(u) = {c, 63 - c}
    BY <2>1, ClkPair, SMTT(30) DEF fits
  <2>3. PICK d \in Low : d \in fits(u)
    <3>1. c \in Low \/ 63 - c \in Low
      BY <2>2
    <3> QED
      BY <2>2, <3>1
  <2>4. f[d] = u
    <3>1. d \in 0 .. 63 /\ f[d] \in 0 .. 255 /\ d \in fits(f[d])
      BY <1>1
    <3> QED
      BY <2>2, <2>3, <3>1, OneUap, ZenonT(60) DEF fits
  <2> QED
    BY <2>4
<1> HIDE DEF F
<1>5. f \in Bijection(Low, F)
  BY <1>2, <1>3, <1>4 DEF Bijection, Injection, Surjection, IsInjective
<1>6. IsFiniteSet(Low) /\ Cardinality(Low) = 32
  <2>1. \A a, b \in Int : /\ IsFiniteSet(a .. b)
                          /\ Cardinality(a .. b) = IF a > b THEN 0 ELSE b - a + 1
    BY FS_Interval, Zenon
  <2>2. /\ IsFiniteSet(0 .. 31)
        /\ Cardinality(0 .. 31) = IF 0 > 31 THEN 0 ELSE 31 - 0 + 1
    <3>1. 0 \in Int /\ 31 \in Int
      OBVIOUS
    <3> QED
      BY <2>1, <3>1, Zenon
  <2> QED
    BY <2>2
<1>7. ExistsBijection(Low, F)
  BY <1>5 DEF ExistsBijection
<1>8. IsFiniteSet(F) /\ Cardinality(F) = 32
  BY <1>6, <1>7, FS_Bijection
<1> QED
  BY <1>8 DEF F, fits

\* A UAP fits two clocks or none.
LEMMA TwoOrNone ==
  ASSUME NEW s \in Sender, NEW u \in 0 .. 255
  PROVE  LET clks == FittingClks(Sent(s), u)
         IN  clks \in SUBSET (0 .. 63) /\ Cardinality(clks) = IF clks = {} THEN 0 ELSE 2
<1> DEFINE clks == FittingClks(Sent(s), u)
<1>1. clks \in SUBSET (0 .. 63)
  BY DEF FittingClks
<1>2. CASE clks = {}
  BY <1>1, <1>2, FS_EmptySet
<1>3. CASE clks # {}
  <2>1. PICK c : c \in clks
    BY <1>3
  <2>2. c \in 0 .. 63 /\ clks = {c, 63 - c}
    BY <2>1, ClkPair
  <2> HIDE DEF clks
  <2>3. 63 - c \notin {c} /\ clks = {c} \cup {63 - c}
    BY <2>2
  <2>4. Cardinality({c}) = 1 /\ IsFiniteSet({c})
    BY FS_Singleton
  <2>5. Cardinality(clks) = 2
    BY <2>3, <2>4, FS_AddElement
  <2> QED
    BY <1>1, <1>3, <2>5 DEF clks
<1> QED
  BY <1>2, <1>3

-----------------------------------------------------------------------------
(***************************************************************************)
(* The loop files exactly the UAPs that fit.                               *)
(***************************************************************************)
\* The UAPs below n that fit a header.
Below(h, n) == {u \in 0 .. n - 1 : FittingClks(h, u) # {}}

StateOK ==
  /\ sender \in Senders /\ header = Sent(sender) /\ perfect_rx \in BOOLEAN
  /\ uap \in 0 .. 256 /\ stopsig = FALSE /\ status \in {"NEW", "BRUTE_FORCING"}

\* The slots are those of the UAPs tried so far that fit, in order and once each.
SlotsOK ==
  /\ uaps \in Seq([uap : 0 .. 255, clks : SUBSET (0 .. 63)])
  /\ \A j \in 1 .. Len(uaps) :
       /\ uaps[j].uap < uap
       /\ uaps[j].clks = FittingClks(header, uaps[j].uap) /\ uaps[j].clks # {}
  /\ \A j, k \in 1 .. Len(uaps) : j < k => uaps[j].uap < uaps[k].uap
  /\ perfect_rx => \A u \in Below(header, uap) : \E j \in 1 .. Len(uaps) : uaps[j].uap = u
  /\ Len(uaps) = IF perfect_rx THEN Cardinality(Below(header, uap)) ELSE 0

IInv == StateOK /\ SlotsOK

LEMMA SenderIs ==
  ASSUME StateOK
  PROVE  sender \in Sender
  BY SenderAssumption DEF StateOK, Sender

LEMMA InitInv == Init => IInv
<1> SUFFICES ASSUME Init PROVE IInv
  OBVIOUS
<1>1. StateOK
  BY DEF Init, StateOK
<1>2. uaps \in Seq([uap : 0 .. 255, clks : SUBSET (0 .. 63)]) /\ Len(uaps) = 0
  BY DEF Init
<1>3. Below(header, uap) = {}
  BY DEF Init, Below
<1>4. Cardinality(Below(header, uap)) = 0
  BY <1>3, FS_EmptySet
<1> QED
  BY <1>1, <1>2, <1>3, <1>4 DEF IInv, SlotsOK

\* The UAPs below n are finitely many; the next one is added when it fits.
LEMMA BelowNext ==
  ASSUME NEW h, NEW n \in 0 .. 255
  PROVE  /\ IsFiniteSet(Below(h, n)) /\ Cardinality(Below(h, n)) \in Nat
         /\ Below(h, n + 1) = Below(h, n) \cup (IF FittingClks(h, n) # {} THEN {n} ELSE {})
         /\ Cardinality(Below(h, n + 1))
              = Cardinality(Below(h, n)) + IF FittingClks(h, n) # {} THEN 1 ELSE 0
<1>1. IsFiniteSet(0 .. n - 1) /\ Below(h, n) \in SUBSET (0 .. n - 1)
  BY FS_Interval DEF Below
<1>2. IsFiniteSet(Below(h, n)) /\ Cardinality(Below(h, n)) \in Nat
  BY <1>1, FS_Subset, FS_CardinalityType
<1>3. Below(h, n + 1) = Below(h, n) \cup (IF FittingClks(h, n) # {} THEN {n} ELSE {})
  <2>1. 0 .. (n + 1) - 1 = (0 .. n - 1) \cup {n}
    OBVIOUS
  <2> QED
    BY <2>1 DEF Below
<1>4. n \notin Below(h, n)
  BY DEF Below
<1>5. CASE FittingClks(h, n) # {}
  BY <1>2, <1>3, <1>4, <1>5, FS_AddElement
<1>6. CASE FittingClks(h, n) = {}
  BY <1>2, <1>3, <1>6
<1> QED
  BY <1>2, <1>3, <1>5, <1>6

\* One UAP more: a slot is filed when it fits, with two clocks.
LEMMA TryKeeps ==
  ASSUME IInv, TryUap
  PROVE  IInv'
<1> DEFINE Slot == [uap : 0 .. 255, clks : SUBSET (0 .. 63)]
           fits == FittingClks(header, uap)
           clks == IF perfect_rx THEN fits ELSE {}
<1>1. /\ sender \in Sender /\ uap \in 0 .. 255 /\ uap' = uap + 1
      /\ sender' = sender /\ header' = header /\ perfect_rx' = perfect_rx /\ status' = status
  <2>1. sender \in Sender
    BY SenderIs DEF IInv
  <2>2. uap \in 0 .. 256 /\ uap < 256
    BY DEF IInv, StateOK, TryUap
  <2> QED
    BY <2>1, <2>2 DEF TryUap
<1>2. clks \in SUBSET (0 .. 63) /\ Cardinality(clks) = IF clks = {} THEN 0 ELSE 2
  <2>1. header = Sent(sender)
    BY DEF IInv, StateOK
  <2>2. fits \in SUBSET (0 .. 63) /\ Cardinality(fits) = IF fits = {} THEN 0 ELSE 2
    BY <1>1, <2>1, TwoOrNone
  <2>3. Cardinality({}) = 0
    BY FS_EmptySet
  <2> HIDE DEF fits
  <2> QED
    BY <2>2, <2>3
<1>3. StateOK'
  <2>1. stopsig' = FALSE
    BY <1>2 DEF TryUap, IInv, StateOK
  <2> QED
    BY <1>1, <2>1 DEF IInv, StateOK
<1>4. uaps' = IF clks # {} THEN Append(uaps, [uap |-> uap, clks |-> clks]) ELSE uaps
  BY <1>2 DEF TryUap
<1> DEFINE slot == [uap |-> uap, clks |-> clks]
<1>5. slot \in Slot
  BY <1>1, <1>2
<1>6. uaps \in Seq(Slot) /\ Len(uaps) \in Nat
  BY LenProperties DEF IInv, SlotsOK
<1>7. /\ Cardinality(Below(header, uap)) \in Nat
      /\ Below(header, uap + 1) = Below(header, uap) \cup (IF fits # {} THEN {uap} ELSE {})
      /\ Cardinality(Below(header, uap + 1))
           = Cardinality(Below(header, uap)) + IF fits # {} THEN 1 ELSE 0
  BY <1>1, BelowNext
<1>8. CASE clks = {}
  <2>1. uaps' = uaps
    BY <1>4, <1>8
  <2>2. perfect_rx => fits = {}
    BY <1>8
  <2>3. perfect_rx => /\ Below(header', uap') = Below(header, uap)
                      /\ Cardinality(Below(header', uap')) = Cardinality(Below(header, uap))
    <3> HIDE DEF fits, clks, slot
    <3> QED
      BY <1>1, <1>7, <2>2
  <2>4. SlotsOK'
    <3> HIDE DEF fits, clks, slot
    <3>1. \A j \in 1 .. Len(uaps) : uaps[j] \in Slot
      <4> HIDE DEF Slot
      <4> QED
        BY <1>6
    <3>2. \A j \in 1 .. Len(uaps) : uaps[j].uap < uap'
      <4> TAKE j \in 1 .. Len(uaps)
      <4>1. uaps[j].uap \in 0 .. 255
        BY <3>1, SMTT(30)
      <4>2. uaps[j].uap < uap
        BY DEF IInv, SlotsOK
      <4> DEFINE x == uaps[j].uap
      <4>3. x \in 0 .. 255 /\ x < uap
        BY <4>1, <4>2
      <4> HIDE DEF x
      <4>4. x < uap'
        BY <1>1, <4>3
      <4> QED
        BY <4>4 DEF x
    <3> QED
      BY <1>1, <2>1, <2>3, <3>2 DEF IInv, SlotsOK
  <2> QED
    BY <1>3, <2>4 DEF IInv
<1>9. CASE clks # {}
  <2>1. perfect_rx /\ clks = fits /\ fits # {}
    BY <1>9 DEF IInv, StateOK
  <2> DEFINE n == Len(uaps)
  <2>2. uaps' = Append(uaps, slot)
    BY <1>4, <1>9
  <2> HIDE DEF fits, clks
  <2>3. /\ uaps' \in Seq(Slot) /\ Len(uaps') = n + 1
        /\ \A j \in 1 .. n : uaps'[j] = uaps[j]
        /\ uaps'[n + 1] = slot
    <3> HIDE DEF slot, Slot
    <3> QED
      BY <1>5, <1>6, <2>2, AppendProperties
  <2>4. slot.uap = uap /\ slot.clks = fits
    BY <2>1
  <2> HIDE DEF slot, Slot
  <2>5. n \in Nat
    BY <1>6
  <2> HIDE DEF n
  <2>6. \A j \in 1 .. n + 1 : j \in 1 .. n \/ j = n + 1
    BY <2>5
  <2>7. \A j \in 1 .. n : /\ uaps[j].uap \in 0 .. 255 /\ uaps[j].uap < uap
                          /\ uaps[j].clks = FittingClks(header, uaps[j].uap)
                          /\ uaps[j].clks # {}
    <3>1. \A j \in 1 .. n : uaps[j] \in Slot
      BY <1>6 DEF n
    <3> QED
      BY <3>1, SMTT(30) DEF IInv, SlotsOK, n, Slot
  <2>8. \A j \in 1 .. n + 1 : /\ uaps'[j].uap < uap'
                              /\ uaps'[j].clks = FittingClks(header', uaps'[j].uap)
                              /\ uaps'[j].clks # {}
    <3>1. \A j \in 1 .. n : /\ uaps'[j].uap < uap'
                            /\ uaps'[j].clks = FittingClks(header', uaps'[j].uap)
                            /\ uaps'[j].clks # {}
      <4> TAKE j \in 1 .. n
      <4>1. uaps'[j] = uaps[j]
        BY <2>3
      <4>2. /\ uaps[j].uap \in 0 .. 255 /\ uaps[j].uap < uap
            /\ uaps[j].clks = FittingClks(header, uaps[j].uap) /\ uaps[j].clks # {}
        BY <2>7
      <4> QED
        BY <1>1, <4>1, <4>2, SMTT(30)
    <3>2. /\ uaps'[n + 1].uap < uap'
          /\ uaps'[n + 1].clks = FittingClks(header', uaps'[n + 1].uap)
          /\ uaps'[n + 1].clks # {}
      BY <1>1, <2>1, <2>3, <2>4 DEF fits
    <3> QED
      BY <2>6, <3>1, <3>2
  <2>9. \A j, k \in 1 .. n + 1 : j < k => uaps'[j].uap < uaps'[k].uap
    <3> SUFFICES ASSUME NEW j \in 1 .. n + 1, NEW k \in 1 .. n + 1, j < k
                 PROVE  uaps'[j].uap < uaps'[k].uap
      OBVIOUS
    <3>1. j \in 1 .. n
      BY <2>5
    <3>2. CASE k \in 1 .. n
      BY <2>3, <3>1, <3>2 DEF IInv, SlotsOK, n
    <3>3. CASE k = n + 1
      BY <2>3, <2>4, <2>7, <3>1, <3>3
    <3> QED
      BY <2>6, <3>2, <3>3
  <2>10. \A u \in Below(header', uap') : \E j \in 1 .. n + 1 : uaps'[j].uap = u
    <3> SUFFICES ASSUME NEW u \in Below(header, uap + 1)
                 PROVE  \E j \in 1 .. n + 1 : uaps'[j].uap = u
      BY <1>1
    <3>1. u \in Below(header, uap) \/ u = uap
      BY <1>7
    <3>2. CASE u = uap
      <4>1. n + 1 \in 1 .. n + 1
        BY <2>5
      <4> QED
        BY <2>3, <2>4, <3>2, <4>1
    <3>3. CASE u \in Below(header, uap)
      <4>1. PICK j \in 1 .. n : uaps[j].uap = u
        BY <2>1, <3>3 DEF IInv, SlotsOK, n
      <4>2. j \in 1 .. n + 1 /\ uaps'[j].uap = u
        BY <2>3, <2>5, <4>1
      <4> QED
        BY <4>2
    <3> QED
      BY <3>1, <3>2, <3>3
  <2>11. Len(uaps') = Cardinality(Below(header', uap'))
    <3>1. n = Cardinality(Below(header, uap))
      BY <2>1 DEF IInv, SlotsOK, n
    <3> QED
      BY <1>1, <1>7, <2>1, <2>3, <3>1
  <2>12. SlotsOK'
    BY <1>1, <2>1, <2>3, <2>8, <2>9, <2>10, <2>11 DEF SlotsOK, Slot
  <2> QED
    BY <1>3, <2>12 DEF IInv
<1> QED
  BY <1>8, <1>9

LEMMA NextInv == IInv /\ [Next]_vars => IInv'
<1> SUFFICES ASSUME IInv, [Next]_vars PROVE IInv'
  OBVIOUS
<1>1. CASE TryUap
  BY <1>1, TryKeeps
<1>2. CASE Finish
  BY <1>2 DEF Finish, IInv, StateOK, SlotsOK
<1>3. CASE UNCHANGED vars
  BY <1>3 DEF vars, IInv, StateOK, SlotsOK
<1> QED
  BY <1>1, <1>2, <1>3 DEF Next

(***************************************************************************)
(* At every step of the loop the table holds exactly the UAPs tried that   *)
(* fit, in order, each with its two clocks.                                *)
(***************************************************************************)
THEOREM Invariance == Spec => []IInv
  BY InitInv, NextInv, PTL DEF Spec

-----------------------------------------------------------------------------
(***************************************************************************)
(* What the table holds.                                                   *)
(***************************************************************************)
LEMMA HeaderBits ==
  ASSUME NEW s \in Sender
  PROVE  Sent(s) \subseteq 0 .. 17
<1>1. s.clk \in 0 .. 63 /\ s.data \subseteq 0 .. 9
  BY DEF Sender
<1>2. Stream(s.clk) \subseteq 0 .. 17
  BY <1>1, StreamIs DEF Output
<1>3. HecBits(s.uap, s.data) \subseteq 10 .. 17
  BY InHecBits
<1>4. \A a, b \in SUBSET (0 .. 17) : Xor(a, b) \subseteq 0 .. 17
  BY DEF Xor
<1>5. s.data \cup HecBits(s.uap, s.data) \in SUBSET (0 .. 17)
  BY <1>1, <1>3
<1> QED
  BY <1>2, <1>4, <1>5 DEF Sent, Dewhiten

\* A slot is that of a UAP below uap and of the clocks it fits; then the header is perfect.
LEMMA SlotIs ==
  ASSUME IInv, NEW j \in 1 .. Len(uaps)
  PROVE  /\ uaps[j].uap \in 0 .. 255 /\ uaps[j].uap < uap
         /\ uaps[j].clks = FittingClks(Sent(sender), uaps[j].uap) /\ uaps[j].clks # {}
         /\ perfect_rx
<1> DEFINE Slot == [uap : 0 .. 255, clks : SUBSET (0 .. 63)]
<1>1. uaps \in Seq(Slot)
  BY DEF IInv, SlotsOK
<1>2. uaps[j] \in Slot
  <2> HIDE DEF Slot
  <2> QED
    BY <1>1
<1>3. header = Sent(sender) /\ perfect_rx \in BOOLEAN
  BY DEF IInv, StateOK
<1>4. Len(uaps) # 0
  BY <1>1, LenProperties
<1>5. perfect_rx
  BY <1>3, <1>4 DEF IInv, SlotsOK
<1> QED
  BY <1>2, <1>3, <1>5 DEF IInv, SlotsOK

\* What the invariant says of types.
LEMMA InvType == IInv => TypeOK
<1> SUFFICES ASSUME IInv PROVE TypeOK
  OBVIOUS
<1>1. header \subseteq 0 .. 17
  BY SenderIs, HeaderBits DEF IInv, StateOK
<1>2. \A j \in 1 .. Len(uaps) :
        /\ uaps[j].uap < (IF j < Len(uaps) THEN uaps[j + 1].uap ELSE uap)
        /\ uaps[j].clks \subseteq 0 .. 63
  <2> TAKE j \in 1 .. Len(uaps)
  <2>1. uaps[j].uap < uap /\ uaps[j].clks \subseteq 0 .. 63
    <3>1. uaps[j].uap < uap /\ uaps[j].clks = FittingClks(Sent(sender), uaps[j].uap)
      BY SlotIs, Zenon
    <3> QED
      BY <3>1 DEF FittingClks
  <2>2. Len(uaps) \in Nat
    BY LenProperties DEF IInv, SlotsOK
  <2>3. ASSUME j < Len(uaps) PROVE uaps[j].uap < uaps[j + 1].uap
    <3>1. j + 1 \in 1 .. Len(uaps) /\ j < j + 1
      BY <2>2, <2>3
    <3> QED
      BY <3>1 DEF IInv, SlotsOK
  <2> QED
    BY <2>1, <2>3
<1> QED
  BY <1>1, <1>2 DEF TypeOK, IInv, StateOK

\* The UAPs of the slots are among the 32 that fit, and in the end all of them.
LEMMA InvFills == IInv => FillsTheSlots
<1> SUFFICES ASSUME IInv PROVE FillsTheSlots
  OBVIOUS
<1> DEFINE F == {u \in 0 .. 255 : FittingClks(header, u) # {}}
<1>1. IsFiniteSet(F) /\ Cardinality(F) = 32
  <2>1. sender \in Sender /\ header = Sent(sender)
    BY SenderIs DEF IInv, StateOK
  <2> QED
    BY <2>1, FittingCount, ZenonT(60)
<1>2. uap \in 0 .. 256 /\ Below(header, uap) \in SUBSET F
  BY DEF IInv, StateOK, Below
<1>3. uap = 256 => Below(header, uap) = F
  BY DEF Below
<1> HIDE DEF F
<1>4. Cardinality(Below(header, uap)) <= 32
  BY <1>1, <1>2, FS_Subset
<1>5. perfect_rx \in BOOLEAN /\ Len(uaps) = IF perfect_rx THEN Cardinality(Below(header, uap)) ELSE 0
  BY DEF IInv, StateOK, SlotsOK
<1>6. Len(uaps) <= 32
  BY <1>4, <1>5
<1>7. uap = 256 => Len(uaps) = IF perfect_rx THEN 32 ELSE 0
  BY <1>1, <1>3, <1>5
<1> QED
  BY <1>6, <1>7, SlotsAssumption DEF FillsTheSlots

\* Every difference of clocks is that of some clock,
LEMMA ClkAt ==
  ASSUME NEW s \in Sender, NEW b \in SUBSET (0 .. 5)
  PROVE  \E c \in 0 .. 63 : ClkOffset(s, c) = b
<1>1. Xor(b, Bits(s.clk)) \in SUBSET (0 .. 5)
  BY OffsetTypes DEF Xor
<1>2. PICK c \in 0 .. 255 : Bits(c) = Xor(b, Bits(s.clk))
  <2>1. Xor(b, Bits(s.clk)) \in SUBSET (0 .. 7)
    BY <1>1
  <2> QED
    BY <2>1, BitsOnto
<1>3. c \in 0 .. 63
  BY <1>1, <1>2, ClockBits
<1>4. ClkOffset(s, c) = b
  BY <1>2, XorTwice DEF ClkOffset
<1> QED
  BY <1>3, <1>4

\* so the clocks of a UAP, seen from the sender's, are those its own difference gives.
LEMMA ClkOffsets ==
  ASSUME NEW s \in Sender, NEW u \in 0 .. 255
  PROVE  {ClkOffset(s, c) : c \in FittingClks(Sent(s), u)}
           = {b \in SUBSET (0 .. 5) : Offset(b) = UapOffset(s, u)}
<1>1. \A c \in FittingClks(Sent(s), u) :
        /\ ClkOffset(s, c) \in SUBSET (0 .. 5)
        /\ Offset(ClkOffset(s, c)) = UapOffset(s, u)
  <2> TAKE c \in FittingClks(Sent(s), u)
  <2>1. c \in 0 .. 63
    BY DEF FittingClks
  <2> QED
    BY <2>1, OffsetTypes, FitsBy, ZenonT(60)
<1>2. \A b \in SUBSET (0 .. 5) : Offset(b) = UapOffset(s, u) =>
        \E c \in FittingClks(Sent(s), u) : ClkOffset(s, c) = b
  <2> SUFFICES ASSUME NEW b \in SUBSET (0 .. 5), Offset(b) = UapOffset(s, u)
               PROVE  \E c \in FittingClks(Sent(s), u) : ClkOffset(s, c) = b
    OBVIOUS
  <2>1. PICK c \in 0 .. 63 : ClkOffset(s, c) = b
    BY ClkAt
  <2>2. c \in FittingClks(Sent(s), u)
    BY <2>1, FitsBy
  <2> QED
    BY <2>1, <2>2
<1> QED
  BY <1>1, <1>2, SMTT(30)

\* Seen from UAP 0 at clock 0, differences are the bits themselves.
LEMMA ZeroSender ==
  LET z == [uap |-> 0, clk |-> 0, data |-> {}]
  IN  /\ z \in Sender /\ ZeroHeader = Sent(z)
      /\ \A u \in 0 .. 255 : UapOffset(z, u) = Bits(u)
      /\ \A c \in 0 .. 63 : ClkOffset(z, c) = Bits(c)
<1>1. Bits(0) = {}
  <2>1. Positions(Bits(0), 0)
    BY BitIs
  <2>2. Positions({}, 0)
    BY DEF Positions, Digit
  <2> QED
    BY <2>1, <2>2, SamePositions
<1>3. /\ \A u \in 0 .. 255 : Bits(u) \in SUBSET (0 .. 7)
      /\ \A c \in 0 .. 63 : Bits(c) \in SUBSET (0 .. 7)
  BY BitIs DEF Positions
<1>4. \A w \in SUBSET (0 .. 7) : Xor(w, {}) = w
  BY DEF Xor
<1> DEFINE z == [uap |-> 0, clk |-> 0, data |-> {}]
<1>5. z \in Sender /\ z.uap = 0 /\ z.clk = 0 /\ ZeroHeader = Sent(z)
  BY DEF Sender, ZeroHeader
<1> HIDE DEF z
<1>6. \A u \in 0 .. 255 : UapOffset(z, u) = Bits(u)
  BY <1>1, <1>3, <1>4, <1>5, ZenonT(60) DEF UapOffset
<1>7. \A c \in 0 .. 63 : ClkOffset(z, c) = Bits(c)
  BY <1>1, <1>3, <1>4, <1>5 DEF ClkOffset
<1> QED
  BY <1>5, <1>6, <1>7 DEF z

\* A slot's difference is one the zero header has.
LEMMA InvShifted == IInv => ClksAreShifted
<1> SUFFICES ASSUME IInv, NEW j \in 1 .. Len(uaps)
             PROVE  Difference(uaps[j]) \in DifferenceSet
  BY DEF ClksAreShifted
<1> DEFINE z == [uap |-> 0, clk |-> 0, data |-> {}]
           u == uaps[j].uap
           Clks == {ClkOffset(sender, c) : c \in FittingClks(Sent(sender), u)}
<1>1. sender \in Sender
  BY SenderIs DEF IInv
<1>2. u \in 0 .. 255 /\ uaps[j].clks = FittingClks(Sent(sender), u)
  BY SlotIs
<1>3. Difference(uaps[j]) = <<UapOffset(sender, u), Clks>>
  BY <1>2 DEF Difference, UapOffset, ClkOffset
<1> HIDE DEF z, u
<1>4. /\ z \in Sender /\ ZeroHeader = Sent(z)
      /\ \A v \in 0 .. 255 : UapOffset(z, v) = Bits(v)
      /\ \A c \in 0 .. 63 : ClkOffset(z, c) = Bits(c)
  BY ZeroSender DEF z
<1>5. PICK v \in 0 .. 255 : UapOffset(z, v) = UapOffset(sender, u)
  <2>1. UapOffset(sender, u) \in SUBSET (0 .. 7)
    BY <1>1, <1>2, OffsetTypes
  <2> QED
    BY <1>4, <2>1, UapAt, ZenonT(60)
<1>6. {ClkOffset(z, c) : c \in FittingClks(Sent(z), v)} = Clks
  BY <1>1, <1>2, <1>4, <1>5, ClkOffsets, ZenonT(60)
<1>7. {ClkOffset(z, c) : c \in FittingClks(Sent(z), v)} = {Bits(c) : c \in FittingClks(ZeroHeader, v)}
  BY <1>4 DEF FittingClks
<1>8. Bits(v) = UapOffset(sender, u)
  BY <1>4, <1>5
<1> HIDE DEF Clks
<1> QED
  BY <1>3, <1>6, <1>7, <1>8 DEF DifferenceSet

\* A slot's clocks are complements, and the sender's slot is filed.
LEMMA InvComplements == IInv => Complements
<1> SUFFICES ASSUME IInv PROVE Complements
  OBVIOUS
<1>1. sender \in Sender /\ header = Sent(sender)
  BY SenderIs DEF IInv, StateOK
<1>2. \A j \in 1 .. Len(uaps) : \A c \in uaps[j].clks : 63 - c \in uaps[j].clks
  <2> TAKE j \in 1 .. Len(uaps)
  <2> TAKE c \in uaps[j].clks
  <2>1. uaps[j].uap \in 0 .. 255 /\ uaps[j].clks = FittingClks(Sent(sender), uaps[j].uap)
    BY SlotIs, Zenon
  <2>2. c \in FittingClks(Sent(sender), uaps[j].uap)
    BY <2>1
  <2>3. c \in 0 .. 63 /\ uaps[j].clks = {c, 63 - c}
    BY <1>1, <2>1, <2>2, ClkPair, ZenonT(60)
  <2> QED
    BY <2>3
<1>3. ASSUME perfect_rx, uap > sender.uap
      PROVE  \E j \in 1 .. Len(uaps) : uaps[j].uap = sender.uap /\ sender.clk \in uaps[j].clks
  <2>1. sender.uap \in 0 .. 255 /\ sender.clk \in 0 .. 63
    BY <1>1 DEF Sender
  <2>2. UapOffset(sender, sender.uap) = Offset(ClkOffset(sender, sender.clk))
    <3>1. UapOffset(sender, sender.uap) = {} /\ ClkOffset(sender, sender.clk) = {}
      BY DEF UapOffset, ClkOffset, Xor
    <3>2. OffsetBits({}, {})
      BY DEF OffsetBits
    <3> QED
      BY <3>1, <3>2, OffsetOnly
  <2>3. sender.clk \in FittingClks(header, sender.uap)
    BY <1>1, <2>1, <2>2, FitsBy
  <2>4. sender.uap \in Below(header, uap)
    BY <1>3, <2>1, <2>3 DEF Below, IInv, StateOK
  <2>5. PICK j \in 1 .. Len(uaps) : uaps[j].uap = sender.uap
    BY <1>3, <2>4 DEF IInv, SlotsOK
  <2>6. uaps[j].clks = FittingClks(header, sender.uap)
    BY <2>5 DEF IInv, SlotsOK
  <2> QED
    BY <2>3, <2>5, <2>6
<1> QED
  BY <1>2, <1>3 DEF Complements

\* Half a period on from a slot's clock is another slot's.
LEMMA InvTwins == IInv => TwinsFit
<1> SUFFICES ASSUME IInv, uap = 256, NEW j \in 1 .. Len(uaps)
             PROVE  \E k \in 1 .. Len(uaps) : uaps[k].clks = {(c + 32) % 64 : c \in uaps[j].clks}
  BY DEF TwinsFit
<1>1. sender \in Sender /\ header = Sent(sender)
  BY SenderIs DEF IInv, StateOK
<1>2. /\ uaps[j].uap \in 0 .. 255 /\ uaps[j].clks = FittingClks(Sent(sender), uaps[j].uap)
      /\ uaps[j].clks # {} /\ perfect_rx
  BY SlotIs, Zenon
<1>3. PICK c \in 0 .. 63 : uaps[j].clks = {c, 63 - c}
  <2>1. PICK c : c \in FittingClks(Sent(sender), uaps[j].uap)
    BY <1>2
  <2>2. c \in 0 .. 63 /\ uaps[j].clks = {c, 63 - c}
    BY <1>1, <1>2, <2>1, ClkPair, ZenonT(60)
  <2> QED
    BY <2>2
<1> DEFINE d == (c + 32) % 64
<1>4. d \in 0 .. 63 /\ (63 - c + 32) % 64 = 63 - d
  OBVIOUS
<1> HIDE DEF d
<1>5. PICK v \in 0 .. 255 : d \in FittingClks(header, v)
  BY <1>1, <1>4, OneUap, ZenonT(60)
<1>6. FittingClks(header, v) = {d, 63 - d}
  BY <1>1, <1>5, ClkPair
<1>7. PICK k \in 1 .. Len(uaps) : uaps[k].uap = v
  <2>1. v \in Below(header, uap) /\ perfect_rx
    BY <1>2, <1>5 DEF Below
  <2> QED
    BY <2>1 DEF IInv, SlotsOK
<1>8. uaps[k].clks = {d, 63 - d}
  BY <1>6, <1>7 DEF IInv, SlotsOK
<1>9. {(x + 32) % 64 : x \in uaps[j].clks} = {d, 63 - d}
  BY <1>3, <1>4 DEF d
<1> QED
  BY <1>8, <1>9

(***************************************************************************)
(* Slots are filed in UAP order, each with clocks of six bits.             *)
(***************************************************************************)
THEOREM TypeCorrect == Spec => []TypeOK
  BY Invariance, InvType, PTL

(***************************************************************************)
(* "This should never happen", and never does: no header of any sender     *)
(* fits a UAP under any number of clocks but none and two.                 *)
(***************************************************************************)
THEOREM StopIsDead == Spec => []NeverStops
<1>1. IInv => NeverStops
  BY DEF IInv, StateOK, NeverStops
<1> QED
  BY <1>1, Invariance, PTL

(***************************************************************************)
(* Every perfect header fills the 32 slots, and none asks for a 33rd.      *)
(***************************************************************************)
THEOREM SlotsFill == Spec => []FillsTheSlots
  BY Invariance, InvFills, PTL

(***************************************************************************)
(* Which UAPs fit, and how far from the sender's clock, depends only on    *)
(* how the UAP differs from the sender's.                                  *)
(***************************************************************************)
THEOREM PatternShifts == Spec => []ClksAreShifted
  BY Invariance, InvShifted, PTL

(***************************************************************************)
(* The two clocks of a slot are complements, and the sender's UAP has the  *)
(* sender's clock.                                                         *)
(***************************************************************************)
THEOREM ClocksComplement == Spec => []Complements
  BY Invariance, InvComplements, PTL

(***************************************************************************)
(* Every slot has a twin half a clock period away.                         *)
(***************************************************************************)
THEOREM TwinsAreThere == Spec => []TwinsFit
  BY Invariance, InvTwins, PTL

-----------------------------------------------------------------------------
(***************************************************************************)
(* The candidate table of the trackers.  UapElimination and what extends   *)
(* it are about any table that satisfies its assumptions; this is the      *)
(* table of the code, and it does.                                         *)
(***************************************************************************)
UapRange == 0 .. 255
ClkRange == 0 .. 63
DataRange == SUBSET (0 .. 9)

Packet(t, c, d) == [uap |-> t, clk |-> c, data |-> d]
Fits(t, c, d, u) == FittingClks(Sent(Packet(t, c, d)), u)
Half(k) == (k + 32) % 64

\* The coset of t; a clock that each fits when the header was whitened with c,
\* for t itself the one the header was whitened with; and the other of each pair.
CandOf(t) == {u \in UapRange : Fits(t, 0, {}, u) # {}}
TableOf(t) == [c \in ClkRange |-> [u \in CandOf(t) |->
                 IF u = t THEN c ELSE CHOOSE k \in ClkRange : k \in Fits(t, c, {}, u)]]
IsTwin(t, u, v) == \E k \in Fits(t, 0, {}, u) : Half(k) \in Fits(t, 0, {}, v)
TwinOf(t) == [u \in CandOf(t) |-> CHOOSE v \in CandOf(t) : IsTwin(t, u, v)]

\* What the ranges hold, and that half a period twice is none.
LEMMA Ranges ==
  /\ 0 \in ClkRange /\ {} \in DataRange
  /\ \A k \in ClkRange : Half(k) \in ClkRange /\ Half(Half(k)) = k
  /\ \A t : CandOf(t) \subseteq UapRange
  BY DEF ClkRange, DataRange, Half, CandOf

LEMMA Packets ==
  ASSUME NEW t \in UapRange, NEW c \in ClkRange, NEW d \in DataRange
  PROVE  Packet(t, c, d) \in Sender /\ Packet(t, c, d).uap = t /\ Packet(t, c, d).clk = c
  BY DEF Packet, Sender, UapRange, ClkRange, DataRange

\* k fits u when the header was whitened with c, in terms of the differences alone.
LEMMA InFits ==
  ASSUME NEW t \in UapRange, NEW c \in ClkRange, NEW d \in DataRange,
         NEW u \in UapRange, NEW k \in ClkRange
  PROVE  k \in Fits(t, c, d, u)
           <=> Xor(Bits(u), Bits(t)) = Offset(Xor(Bits(k), Bits(c)))
<1> DEFINE s == Packet(t, c, d)
<1>1. s \in Sender /\ s.uap = t /\ s.clk = c
  BY Packets, SMTT(30)
<1> HIDE DEF s
<1>2. k \in FittingClks(Sent(s), u) <=> UapOffset(s, u) = Offset(ClkOffset(s, k))
  BY <1>1, FitsBy DEF UapRange, ClkRange
<1> QED
  BY <1>1, <1>2 DEF UapOffset, ClkOffset, Fits, s

\* What fits is a clock and its complement.
LEMMA FitsPair ==
  ASSUME NEW t \in UapRange, NEW c \in ClkRange, NEW d \in DataRange, NEW u \in UapRange,
         NEW k \in Fits(t, c, d, u)
  PROVE  k \in ClkRange /\ Fits(t, c, d, u) = {k, 63 - k}
<1> DEFINE s == Packet(t, c, d)
<1>1. s \in Sender
  BY Packets
<1> HIDE DEF s
<1>2. \A i \in FittingClks(Sent(s), u) : i \in 0 .. 63 /\ FittingClks(Sent(s), u) = {i, 63 - i}
  BY <1>1, ClkPair DEF UapRange
<1> QED
  BY <1>2 DEF Fits, s, ClkRange

\* A UAP fits some clock when its difference from the sender's is the offset of six bits.
LEMMA FitsSome ==
  ASSUME NEW t \in UapRange, NEW c \in ClkRange, NEW d \in DataRange, NEW u \in UapRange
  PROVE  Fits(t, c, d, u) # {} <=> \E b \in SUBSET (0 .. 5) : Offset(b) = Xor(Bits(u), Bits(t))
<1> DEFINE s == Packet(t, c, d)
           F == FittingClks(Sent(s), u)
           a == Xor(Bits(u), Bits(t))
<1>1. s \in Sender /\ UapOffset(s, u) = a
  BY Packets DEF UapOffset
<1>2. Fits(t, c, d, u) = F
  BY DEF Fits
<1> HIDE DEF s
<1>3. {ClkOffset(s, k) : k \in F} = {b \in SUBSET (0 .. 5) : Offset(b) = UapOffset(s, u)}
  BY <1>1, ClkOffsets DEF UapRange
<1> HIDE DEF F, a
<1>4. ASSUME NEW k \in F PROVE \E b \in SUBSET (0 .. 5) : Offset(b) = a
  <2>1. ClkOffset(s, k) \in {b \in SUBSET (0 .. 5) : Offset(b) = UapOffset(s, u)}
    BY <1>3
  <2> QED
    BY <1>1, <2>1
<1>5. ASSUME NEW b \in SUBSET (0 .. 5), Offset(b) = a PROVE \E k : k \in F
  <2>1. b \in {ClkOffset(s, k) : k \in F}
    BY <1>1, <1>3, <1>5
  <2> QED
    BY <2>1
<1>6. F # {} <=> \E b \in SUBSET (0 .. 5) : Offset(b) = a
  BY <1>4, <1>5
<1> QED
  BY <1>2, <1>6 DEF a

\* So whether a UAP fits depends neither on the clock nor on the ten bits.
LEMMA FitsAlways ==
  ASSUME NEW t \in UapRange, NEW c \in ClkRange, NEW d \in DataRange, NEW u \in UapRange
  PROVE  u \in CandOf(t) <=> Fits(t, c, d, u) # {}
<1>1. u \in CandOf(t) <=> Fits(t, 0, {}, u) # {}
  BY DEF CandOf
<1>2. Fits(t, c, d, u) # {} <=> \E b \in SUBSET (0 .. 5) : Offset(b) = Xor(Bits(u), Bits(t))
  BY FitsSome
<1>3. Fits(t, 0, {}, u) # {} <=> \E b \in SUBSET (0 .. 5) : Offset(b) = Xor(Bits(u), Bits(t))
  BY Ranges, FitsSome
<1> QED
  BY <1>1, <1>2, <1>3

\* OneUap, with the ranges named.
LEMMA OneUapInRange ==
  ASSUME NEW s \in Sender, NEW k \in ClkRange
  PROVE  /\ \E u \in UapRange : k \in FittingClks(Sent(s), u)
         /\ \A u, v \in UapRange :
              k \in FittingClks(Sent(s), u) /\ k \in FittingClks(Sent(s), v) => u = v
<1>1. k \in 0 .. 63
  BY DEF ClkRange
<1>2. \E u \in 0 .. 255 : k \in FittingClks(Sent(s), u)
  BY <1>1, OneUap, ZenonT(60)
<1>3. ASSUME NEW u \in UapRange, NEW v \in UapRange,
             k \in FittingClks(Sent(s), u), k \in FittingClks(Sent(s), v)
      PROVE  u = v
  <2>1. u \in 0 .. 255 /\ v \in 0 .. 255
    BY DEF UapRange
  <2> QED
    BY <1>1, <1>3, <2>1, OneUap, ZenonT(60)
<1>4. \E u \in UapRange : k \in FittingClks(Sent(s), u)
  BY <1>2 DEF UapRange
<1> QED
  BY <1>3, <1>4

\* Every clock fits one UAP.
LEMMA OneFits ==
  ASSUME NEW t \in UapRange, NEW k \in ClkRange
  PROVE  /\ \E u \in CandOf(t) : k \in Fits(t, 0, {}, u)
         /\ \A u, v \in CandOf(t) :
              k \in Fits(t, 0, {}, u) /\ k \in Fits(t, 0, {}, v) => u = v
<1> DEFINE s == Packet(t, 0, {})
<1>1. s \in Sender
  BY Packets, Ranges
<1>2. \A w : Fits(t, 0, {}, w) = FittingClks(Sent(s), w)
  BY DEF Fits
<1> HIDE DEF s
<1>3. /\ \E u \in UapRange : k \in FittingClks(Sent(s), u)
      /\ \A u, v \in UapRange :
           k \in FittingClks(Sent(s), u) /\ k \in FittingClks(Sent(s), v) => u = v
  BY <1>1, OneUapInRange
<1>4. \A u \in UapRange : u \in CandOf(t) <=> Fits(t, 0, {}, u) # {}
  BY DEF CandOf
<1> QED
  BY <1>2, <1>3, <1>4, Ranges

\* The clock of the table is one that fits.
LEMMA TableIs ==
  ASSUME NEW t \in UapRange, NEW c \in ClkRange, NEW u \in CandOf(t)
  PROVE  /\ t \in CandOf(t) /\ TableOf(t)[c][t] = c
         /\ TableOf(t)[c][u] \in ClkRange /\ TableOf(t)[c][u] \in Fits(t, c, {}, u)
<1>1. u \in UapRange /\ {} \in DataRange
  BY Ranges
<1>2. c \in Fits(t, c, {}, t)
  <2>1. Xor(Bits(t), Bits(t)) = {} /\ Xor(Bits(c), Bits(c)) = {}
    BY DEF Xor
  <2>2. OffsetBits({}, {})
    BY DEF OffsetBits
  <2>3. Offset({}) = {}
    BY <2>2, OffsetOnly
  <2> QED
    BY <1>1, <2>1, <2>3, InFits
<1>3. t \in CandOf(t)
  BY <1>1, <1>2, FitsAlways
<1>4. \E k \in ClkRange : k \in Fits(t, c, {}, u)
  BY <1>1, FitsAlways, FitsPair
<1>5. TableOf(t)[c][u] = IF u = t THEN c ELSE CHOOSE k \in ClkRange : k \in Fits(t, c, {}, u)
  BY DEF TableOf
<1>6. TableOf(t)[c][t] = c
  BY <1>3 DEF TableOf
<1>7. (CHOOSE k \in ClkRange : k \in Fits(t, c, {}, u)) \in ClkRange \cap Fits(t, c, {}, u)
  BY <1>4
<1> QED
  BY <1>2, <1>3, <1>5, <1>6, <1>7

\* Half a period is one bit, so the offset of a clock gives that of its half-period partner.
LEMMA HalfOffset ==
  ASSUME NEW b \in SUBSET (0 .. 5), NEW d \in SUBSET (0 .. 5), Offset(b) = Offset(d)
  PROVE  /\ Xor(b, {5}) \in SUBSET (0 .. 5) /\ Xor(Xor(b, {5}), {5}) = b
         /\ Offset(Xor(b, {5})) = Offset(Xor(d, {5}))
         /\ Offset(Xor(b, {5})) # Offset(b)
<1>1. Xor(b, {5}) \in SUBSET (0 .. 5) /\ Xor(d, {5}) \in SUBSET (0 .. 5)
  BY DEF Xor
<1>2. Xor(Xor(b, {5}), {5}) = b
  BY XorTwice
<1>3. d = b \/ d = Xor(b, 0 .. 5)
  BY OffsetKernel
<1>4. Xor(Xor(b, 0 .. 5), {5}) = Xor(Xor(b, {5}), 0 .. 5)
  BY DEF Xor
<1>5. Offset(Xor(b, {5})) = Offset(Xor(d, {5}))
  BY <1>1, <1>3, <1>4, OffsetKernel
<1>6. Xor(b, {5}) # b /\ Xor(b, {5}) # Xor(b, 0 .. 5)
  <2>1. /\ 5 \in Xor(b, {5}) <=> 5 \notin b
        /\ 0 \in Xor(b, {5}) <=> 0 \in b
        /\ 0 \in Xor(b, 0 .. 5) <=> 0 \notin b
    BY InXor
  <2> QED
    BY <2>1
<1>7. Offset(Xor(b, {5})) # Offset(b)
  BY <1>1, <1>6, OffsetKernel
<1> QED
  BY <1>1, <1>2, <1>5, <1>7

\* Twins fit clocks half a period apart whatever the header, and no UAP is its own twin.
LEMMA TwinsFitHalfApart ==
  ASSUME NEW t \in UapRange, NEW u \in CandOf(t), NEW v \in CandOf(t), IsTwin(t, u, v)
  PROVE  /\ u # v
         /\ \A c \in ClkRange : \A d \in DataRange : \A k \in Fits(t, c, d, u) :
              Half(k) \in Fits(t, c, d, v)
<1> DEFINE from(k, c) == Xor(Bits(k), Bits(c))
           of(w) == Xor(Bits(w), Bits(t))
<1>1. u \in UapRange /\ v \in UapRange
  BY Ranges
<1>2. \A k, c \in ClkRange : /\ Half(k) \in ClkRange
                             /\ from(k, c) \in SUBSET (0 .. 5)
                             /\ from(Half(k), c) = Xor(from(k, c), {5})
  <2> TAKE k, c \in ClkRange
  <2>1. k \in 0 .. 255 /\ c \in 0 .. 255 /\ k \in 0 .. 63 /\ c \in 0 .. 63
    BY DEF ClkRange
  <2>2. Bits(k) \in SUBSET (0 .. 5) /\ Bits(c) \in SUBSET (0 .. 5)
    BY <2>1, ClockBits
  <2>3. Bits(Half(k)) = Xor(Bits(k), {5})
    BY <2>1, HalfBits DEF Half
  <2>4. Xor(Xor(Bits(k), {5}), Bits(c)) = Xor(Xor(Bits(k), Bits(c)), {5})
    BY DEF Xor
  <2>5. Xor(Bits(k), Bits(c)) \in SUBSET (0 .. 5)
    BY <2>2 DEF Xor
  <2> QED
    BY <2>3, <2>4, <2>5, Ranges
<1>3. PICK m \in Fits(t, 0, {}, u) : Half(m) \in Fits(t, 0, {}, v)
  BY DEF IsTwin
<1>4. m \in ClkRange
  BY <1>1, Ranges, FitsPair
<1> HIDE DEF from, of
<1>5. \A w \in UapRange : \A c, k \in ClkRange : \A d \in DataRange :
         k \in Fits(t, c, d, w) <=> of(w) = Offset(from(k, c))
  BY InFits DEF from, of
<1>6. from(m, 0) \in SUBSET (0 .. 5) /\ from(Half(m), 0) = Xor(from(m, 0), {5})
  BY <1>2, <1>4, Ranges
<1>7. of(u) = Offset(from(m, 0)) /\ of(v) = Offset(Xor(from(m, 0), {5}))
  <2>1. of(u) = Offset(from(m, 0))
    BY <1>1, <1>3, <1>4, <1>5, Ranges
  <2>2. of(v) = Offset(from(Half(m), 0))
    BY <1>1, <1>3, <1>4, <1>5, Ranges
  <2> QED
    BY <1>6, <2>1, <2>2
<1>8. u # v
  BY <1>6, <1>7, HalfOffset
<1>9. ASSUME NEW c \in ClkRange, NEW d \in DataRange, NEW k \in Fits(t, c, d, u)
      PROVE  Half(k) \in Fits(t, c, d, v)
  <2>1. k \in ClkRange
    BY <1>1, FitsPair
  <2>2. from(k, c) \in SUBSET (0 .. 5) /\ from(Half(k), c) = Xor(from(k, c), {5})
    BY <1>2, <2>1
  <2>3. Offset(from(k, c)) = Offset(from(m, 0))
    BY <1>1, <1>5, <1>7, <2>1
  <2>4. Offset(Xor(from(k, c), {5})) = Offset(Xor(from(m, 0), {5}))
    BY <1>6, <2>2, <2>3, HalfOffset
  <2>5. of(v) = Offset(from(Half(k), c))
    BY <1>7, <2>2, <2>4
  <2> QED
    BY <1>1, <1>5, <2>1, <2>5, Ranges
<1> QED
  BY <1>8, <1>9

\* Every UAP of the coset has one twin there, whose twin it is.
LEMMA TwinIs ==
  ASSUME NEW t \in UapRange, NEW u \in CandOf(t)
  PROVE  /\ TwinOf(t)[u] \in CandOf(t)
         /\ IsTwin(t, u, TwinOf(t)[u])
         /\ \A v \in CandOf(t) : IsTwin(t, v, u) => TwinOf(t)[u] = v
<1>1. \A w \in CandOf(t) : \A k \in Fits(t, 0, {}, w) : k \in ClkRange
  BY Ranges, FitsPair
<1>2. PICK k : k \in Fits(t, 0, {}, u)
  BY DEF CandOf
<1>3. Half(k) \in ClkRange
  BY <1>1, <1>2, Ranges
<1>4. PICK v \in CandOf(t) : Half(k) \in Fits(t, 0, {}, v)
  BY <1>3, OneFits
<1>5. IsTwin(t, u, v)
  BY <1>2, <1>4 DEF IsTwin
<1>6. TwinOf(t)[u] \in CandOf(t) /\ IsTwin(t, u, TwinOf(t)[u])
  BY <1>5 DEF TwinOf
<1>7. ASSUME NEW w \in CandOf(t), IsTwin(t, w, u)
      PROVE  TwinOf(t)[u] = w
  <2> DEFINE x == TwinOf(t)[u]
  <2>1. PICK m \in Fits(t, 0, {}, w) : Half(m) \in Fits(t, 0, {}, u)
    BY <1>7 DEF IsTwin
  <2>2. Half(Half(m)) = m /\ m \in ClkRange
    BY <1>1, <2>1, Ranges
  <2>3. x \in CandOf(t) /\ IsTwin(t, u, x)
    BY <1>6
  <2> HIDE DEF x
  <2>4. m \in Fits(t, 0, {}, x)
    BY <2>1, <2>2, <2>3, TwinsFitHalfApart, Ranges
  <2>5. x = w
    BY <2>1, <2>2, <2>3, <2>4, OneFits
  <2> QED
    BY <2>5 DEF x
<1> QED
  BY <1>6, <1>7

\* A clock that fits does so whatever the ten bits say.
LEMMA TableFits ==
  ASSUME NEW t \in UapRange, NEW c \in ClkRange, NEW u \in CandOf(t), NEW d \in DataRange
  PROVE  Fits(t, c, d, u) = {TableOf(t)[c][u], 63 - TableOf(t)[c][u]}
<1> DEFINE k == TableOf(t)[c][u]
<1>1. u \in UapRange /\ {} \in DataRange
  BY Ranges
<1>2. k \in ClkRange /\ k \in Fits(t, c, {}, u)
  BY TableIs
<1> HIDE DEF k
<1>3. k \in Fits(t, c, d, u)
  BY <1>1, <1>2, InFits
<1>4. Fits(t, c, d, u) = {k, 63 - k}
  BY <1>1, <1>3, FitsPair
<1> QED
  BY <1>4 DEF k

\* The table find_matches fills for the headers of one UAP satisfies, with a period of 64,
\* what UapElimination assumes of its Table, its candidates and their twins: the coset is
\* the same 32 UAPs for every clock and every ten bits, each fits the table's clock and
\* its complement and nothing else, the sender's UAP fits the clock it was whitened with,
\* and the candidates pair off half a period apart.
THEOREM TrackersTable ==
  ASSUME NEW t \in UapRange
  PROVE  /\ CandOf(t) \subseteq Nat /\ IsFiniteSet(CandOf(t)) /\ Cardinality(CandOf(t)) = 32
         /\ TableOf(t) \in [ClkRange -> [CandOf(t) -> ClkRange]]
         /\ t \in CandOf(t) /\ \A c \in ClkRange : TableOf(t)[c][t] = c
         /\ \A c \in ClkRange : \A d \in DataRange : \A u \in UapRange :
              FittingClks(Sent(Packet(t, c, d)), u) =
                IF u \in CandOf(t) THEN {TableOf(t)[c][u], 63 - TableOf(t)[c][u]} ELSE {}
         /\ TwinOf(t) \in [CandOf(t) -> CandOf(t)]
         /\ \A u \in CandOf(t) : TwinOf(t)[u] # u /\ TwinOf(t)[TwinOf(t)[u]] = u
         /\ \A c \in ClkRange : \A u \in CandOf(t) :
              LET h == (TableOf(t)[c][u] + 32) % 64
              IN  TableOf(t)[c][TwinOf(t)[u]] \in {h, 63 - h}
<1>1. CandOf(t) \subseteq Nat /\ IsFiniteSet(CandOf(t)) /\ Cardinality(CandOf(t)) = 32
  <2> DEFINE s == Packet(t, 0, {})
  <2>1. s \in Sender
    BY Packets, Ranges
  <2>2. CandOf(t) = {u \in 0 .. 255 : FittingClks(Sent(s), u) # {}}
    BY DEF CandOf, Fits, UapRange
  <2> HIDE DEF s
  <2>3. IsFiniteSet(CandOf(t)) /\ Cardinality(CandOf(t)) = 32
    BY <2>1, <2>2, FittingCount, SMTT(30)
  <2>4. CandOf(t) \subseteq Nat
    BY DEF CandOf, UapRange
  <2> QED
    BY <2>3, <2>4
<1>2. PICK r : r \in CandOf(t)
  BY <1>1, FS_EmptySet
<1>3. t \in CandOf(t) /\ \A c \in ClkRange : TableOf(t)[c][t] = c
  BY <1>2, TableIs, Ranges
<1>4. TableOf(t) \in [ClkRange -> [CandOf(t) -> ClkRange]]
  <2>1. \A c \in ClkRange : \A u \in CandOf(t) : TableOf(t)[c][u] \in ClkRange
    BY TableIs
  <2> QED
    BY <2>1 DEF TableOf
<1>5. ASSUME NEW c \in ClkRange, NEW d \in DataRange, NEW u \in UapRange
      PROVE  FittingClks(Sent(Packet(t, c, d)), u) =
               IF u \in CandOf(t) THEN {TableOf(t)[c][u], 63 - TableOf(t)[c][u]} ELSE {}
  <2>1. Fits(t, c, d, u) =
          IF u \in CandOf(t) THEN {TableOf(t)[c][u], 63 - TableOf(t)[c][u]} ELSE {}
    BY TableFits, FitsAlways
  <2> QED
    BY <2>1 DEF Fits
<1>6. TwinOf(t) \in [CandOf(t) -> CandOf(t)]
  <2>1. \A u \in CandOf(t) : TwinOf(t)[u] \in CandOf(t)
    BY TwinIs
  <2> QED
    BY <2>1 DEF TwinOf
<1>7. ASSUME NEW u \in CandOf(t)
      PROVE  TwinOf(t)[u] # u /\ TwinOf(t)[TwinOf(t)[u]] = u
  <2> DEFINE v == TwinOf(t)[u]
  <2>1. v \in CandOf(t) /\ IsTwin(t, u, v)
    BY TwinIs
  <2> HIDE DEF v
  <2>2. v # u
    BY <2>1, TwinsFitHalfApart
  <2>3. TwinOf(t)[v] = u
    BY <2>1, TwinIs
  <2> QED
    BY <2>2, <2>3 DEF v
<1>8. ASSUME NEW c \in ClkRange, NEW u \in CandOf(t)
      PROVE  LET h == Half(TableOf(t)[c][u])
             IN  TableOf(t)[c][TwinOf(t)[u]] \in {h, 63 - h}
  <2> DEFINE v == TwinOf(t)[u]
             k == TableOf(t)[c][u]
             n == TableOf(t)[c][v]
  <2>1. v \in CandOf(t) /\ IsTwin(t, u, v)
    BY TwinIs
  <2>2. k \in Fits(t, c, {}, u)
    BY TableIs
  <2> HIDE DEF v, k
  <2>3. n \in Fits(t, c, {}, v)
    BY <2>1, TableIs
  <2> HIDE DEF n
  <2>4. Half(k) \in Fits(t, c, {}, v)
    BY <2>1, <2>2, TwinsFitHalfApart, Ranges
  <2>5. Fits(t, c, {}, v) = {Half(k), 63 - Half(k)}
    BY <2>1, <2>4, FitsPair, Ranges
  <2> QED
    BY <2>3, <2>5 DEF n, v, k
<1> QED
  BY <1>1, <1>3, <1>4, <1>5, <1>6, <1>7, <1>8 DEF Half
=============================================================================
