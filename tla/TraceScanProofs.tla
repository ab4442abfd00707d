-------------------------- MODULE TraceScanProofs --------------------------
(***************************************************************************)
(* Proofs about SyncCalibration, for any number of pulses, whatever the    *)
(* captures' starts, losses and misses; and, in the last part, about       *)
(* TraceScan, for any trace and however often the target is found:         *)
(* processing a trace implements the synchronisation by itself, so that what*)
(* is proved of the log holds of it, and the decoder is started where it has*)
(* something to read.                                                      *)
(***************************************************************************)
EXTENDS TraceScan, SequenceTheorems, NaturalsInduction, WellFoundedInduction, TLAPS

-----------------------------------------------------------------------------
(***************************************************************************)
(* Times and counters.                                                     *)
(***************************************************************************)
AirOK ==
  /\ start \in [Capture -> Nat]
  /\ restart \in 2 .. Pulses + 1
  /\ loss \in [cap : Capture, pulse : Pulse, amount : Nat]

\* A remainder is what whole multiples leave.
LEMMA Remainder ==
  ASSUME NEW a \in Int, NEW m \in Nat \ {0}
  PROVE  a \div m \in Int /\ m * (a \div m) \in Int /\ a % m = a - m * (a \div m)
  OBVIOUS

\* The int that counts samples holds the position less its wraps.
LEMMA TimenowIs ==
  ASSUME NEW pos \in Int
  PROVE  /\ Wraps(pos) \in Int
         /\ (2 * HalfRange) * Wraps(pos) \in Int
         /\ Timenow(pos) = pos - (2 * HalfRange) * Wraps(pos)
<1>1. HalfRange \in Int /\ 2 * HalfRange \in Nat \ {0} /\ pos + HalfRange \in Int
  BY SizeAssumption
<1> DEFINE x == pos + HalfRange
           m == 2 * HalfRange
<1>2. Wraps(pos) = x \div m /\ Timenow(pos) = (x % m) - HalfRange
  BY DEF Wraps, Timenow
<1>3. x \div m \in Int /\ m * (x \div m) \in Int /\ x % m = x - m * (x \div m)
  BY <1>1, Remainder
<1>4. m * Wraps(pos) \in Int /\ Timenow(pos) = (x - m * Wraps(pos)) - HalfRange
  <2> HIDE DEF x, m
  <2> QED  BY <1>2, <1>3
<1>5. x = pos + HalfRange
  OBVIOUS
<1> DEFINE mw == m * Wraps(pos)
<1>6. mw \in Int /\ Timenow(pos) = (x - mw) - HalfRange
  BY <1>4
<1>7. mw = (2 * HalfRange) * Wraps(pos)
  BY Zenon
<1> HIDE DEF x, m, mw
<1>8. Timenow(pos) = pos - mw
  BY <1>1, <1>5, <1>6
<1> QED
  BY <1>2, <1>3, <1>6, <1>7, <1>8

\* Where a pulse is, and which counter it carries.
LEMMA PulseTypes ==
  ASSUME AirOK, NEW c \in Capture, NEW i \in Pulse
  PROVE  /\ i \in Nat /\ Position(c, i) \in Int
         /\ Sn(i) \in 0 .. Pulses
         /\ Timenow(Position(c, i)) \in Int
<1>1. i \in Nat /\ i >= 1 /\ i <= Pulses /\ Pulses \in Nat /\ Spacing \in Nat
  BY SizeAssumption DEF Pulse
<1>2. Lost(c, i) \in Nat
  BY DEF AirOK, Lost
<1>3. start[c] \in Nat /\ restart \in Nat /\ restart >= 2
  BY <1>1 DEF AirOK
<1>4. Position(c, i) \in Int
  BY <1>1, <1>2, <1>3 DEF Position
<1>5. Sn(i) \in 0 .. Pulses
  BY <1>1, <1>3 DEF Sn
<1>6. Timenow(Position(c, i)) \in Int
  BY <1>4, TimenowIs
<1> QED
  BY <1>1, <1>4, <1>5, <1>6

\* Unless the transmitter restarts, a counter belongs to one pulse.
LEMMA SnIdentifies ==
  ASSUME AirOK, ~Restarted, NEW i \in Pulse, NEW j \in Pulse, Sn(i) = Sn(j)
  PROVE  i = j
<1>1. Pulses \in Nat /\ i \in 1 .. Pulses /\ j \in 1 .. Pulses
  BY SizeAssumption DEF Pulse
<1>2. restart = Pulses + 1
  BY <1>1 DEF AirOK, Restarted, Pulse
<1>3. Sn(i) = i - 1 /\ Sn(j) = j - 1
  BY <1>1, <1>2 DEF Sn
<1>4. \A x, y \in Int : x - 1 = y - 1 => x = y
  OBVIOUS
<1>5. i \in Int /\ j \in Int
  BY <1>1
<1> QED
  BY <1>3, <1>4, <1>5

-----------------------------------------------------------------------------
(***************************************************************************)
(* The decoder's last counter and time of a capture are those of the       *)
(* latest pulse it received; and every entry of the log was made of two    *)
(* pulses with the same counter.                                           *)
(***************************************************************************)
LastOf(c, i) ==
  /\ i \in heard[c] /\ \A j \in heard[c] : j <= i
  /\ syncsn[c] = Sn(i) /\ syncts[c] = Timenow(Position(c, i))

CountersOK == \A c \in Capture :
  /\ \A j \in heard[c] : j < next[c]
  /\ heard[c] = {} => syncsn[c] = -1
  /\ heard[c] # {} => \E i \in Pulse : LastOf(c, i)

EntryOK(e) ==
  /\ Sn(e.lo) = Sn(e.hi)
  /\ e.delay = Timenow(Position("LO", e.lo)) - Timenow(Position("HI", e.hi))
LogOK == \A k \in 1 .. Len(log) : EntryOK(log[k])

IInv == TypeOK /\ CountersOK /\ LogOK

\* The part of the type invariant that the positions rest on.
LEMMA TypeAir == TypeOK => AirOK
  BY DEF TypeOK, AirOK

\* Latest is the largest pulse of a set that has one.
LEMMA LatestIs ==
  ASSUME NEW S \in SUBSET Pulse, NEW i \in S, \A j \in S : j <= i
  PROVE  Latest(S) = i
<1>1. \A j \in Pulse : j \in Int
  BY DEF Pulse
<1>2. \A j \in S : (\A k \in S : k <= j) => j = i
  BY <1>1
<1> QED
  BY <1>2 DEF Latest

\* Nothing has been received when the decoder starts.
LEMMA InitInv == Init => IInv
<1> SUFFICES ASSUME Init PROVE IInv
  OBVIOUS
<1>1. Pulses \in Nat /\ Blocks \in Nat
  BY SizeAssumption
<1>2. Losses \subseteq Nat
  BY AirAssumption, SizeAssumption
<1>3. TypeOK
  <2>1. AirOK
    BY <1>2, AirAssumption DEF Init, AirOK
  <2>2. log \in Seq(Entry)
    BY DEF Init
  <2>3. turn \in Capture /\ blk \in 0 .. Blocks /\ next \in [Capture -> 1 .. Pulses + 1]
    BY <1>1 DEF Init, Capture
  <2>4. syncsn \in [Capture -> -1 .. Pulses] /\ syncts \in [Capture -> Int]
    BY <1>1 DEF Init
  <2>5. delay \in Int /\ lastpos \in [Capture -> Nat] /\ printed \in Nat
    BY DEF Init
  <2>6. calibrated \in BOOLEAN /\ foreign \in BOOLEAN
    BY Zenon DEF Init
  <2>7. heard \in [Capture -> SUBSET Pulse]
    BY DEF Init
  <2> QED
    BY <2>1, <2>2, <2>3, <2>4, <2>5, <2>6, <2>7 DEF TypeOK, AirOK
<1>4. CountersOK
  BY DEF Init, CountersOK
<1>5. LogOK
  BY DEF Init, LogOK
<1> QED
  BY <1>3, <1>4, <1>5 DEF IInv

-----------------------------------------------------------------------------
(***************************************************************************)
(* The pulse that is received is the latest of its capture, and the other  *)
(* capture's latest is what it was.                                        *)
(***************************************************************************)
LEMMA PulseIsLatest ==
  ASSUME IInv, NEW c \in Capture, ReceivePulse(c)
  PROVE  /\ next[c] \in Pulse
         /\ heard' \in [Capture -> SUBSET Pulse]
         /\ heard'[c] = heard[c] \cup {next[c]} /\ heard'[Other(c)] = heard[Other(c)]
         /\ \A j \in heard'[c] : j <= next[c]
         /\ Latest(heard'[c]) = next[c]
<1>1. TypeOK /\ CountersOK
  BY DEF IInv
<1>2. next[c] \in Pulse /\ heard' = [heard EXCEPT ![c] = @ \cup {next[c]}]
  BY DEF ReceivePulse
<1>3. heard \in [Capture -> SUBSET Pulse] /\ Other(c) \in Capture /\ Other(c) # c
  BY <1>1 DEF TypeOK, Capture, Other
<1>4. /\ heard' \in [Capture -> SUBSET Pulse]
      /\ heard'[c] = heard[c] \cup {next[c]} /\ heard'[Other(c)] = heard[Other(c)]
  BY <1>2, <1>3
<1>5. \A j \in heard'[c] : j <= next[c]
  <2>1. \A j \in heard[c] : j < next[c]
    BY <1>1 DEF CountersOK
  <2>2. \A j \in Pulse : j \in Int
    BY DEF Pulse
  <2> QED
    BY <1>2, <1>3, <1>4, <2>1, <2>2
<1>6. Latest(heard'[c]) = next[c]
  BY <1>2, <1>4, <1>5, LatestIs
<1> QED
  BY <1>2, <1>4, <1>5, <1>6

\* The counters and times after the pulse has been received.
LEMMA CountersAfter ==
  ASSUME IInv, NEW c \in Capture, ReceivePulse(c)
  PROVE  /\ syncsn'[c] = Sn(next[c]) /\ syncts'[c] = Timenow(Position(c, next[c]))
         /\ syncsn'[Other(c)] = syncsn[Other(c)] /\ syncts'[Other(c)] = syncts[Other(c)]
         /\ syncsn' \in [Capture -> -1 .. Pulses] /\ syncts' \in [Capture -> Int]
<1>1. TypeOK /\ AirOK
  BY TypeAir DEF IInv
<1>2. Calibrate(c, next[c]) /\ next[c] \in Pulse
  BY DEF ReceivePulse
<1>3. /\ Sn(next[c]) \in 0 .. Pulses /\ Pulses \in Nat
      /\ Timenow(Position(c, next[c])) \in Int
  BY <1>1, <1>2, PulseTypes, SizeAssumption
<1>4. /\ syncsn' = [syncsn EXCEPT ![c] = Sn(next[c])]
      /\ syncts' = [syncts EXCEPT ![c] = Timenow(Position(c, next[c]))]
  BY <1>2 DEF Calibrate
<1>5. Other(c) \in Capture /\ Other(c) # c
  BY DEF Capture, Other
<1>6. syncsn \in [Capture -> -1 .. Pulses] /\ syncts \in [Capture -> Int]
  BY <1>1 DEF TypeOK
<1>7. Sn(next[c]) \in -1 .. Pulses
  BY <1>3
<1> QED
  BY <1>3, <1>4, <1>5, <1>6, <1>7

(***************************************************************************)
(* When the counters meet, the times subtracted are those of two pulses    *)
(* that carry the same counter.                                            *)
(***************************************************************************)
LEMMA DelayMatches ==
  ASSUME IInv, NEW c \in Capture, ReceivePulse(c), syncsn[Other(c)] = Sn(next[c]),
         NEW t \in Nat
  PROVE  LET e == [ts |-> t, delay |-> delay',
                   lo |-> Latest(heard'["LO"]), hi |-> Latest(heard'["HI"])]
         IN  e \in Entry /\ EntryOK(e)
<1> DEFINE e == [ts |-> t, delay |-> delay',
                 lo |-> Latest(heard'["LO"]), hi |-> Latest(heard'["HI"])]
           d == Other(c)
<1>1. TypeOK /\ CountersOK /\ AirOK
  BY TypeAir DEF IInv
<1>2. next[c] \in Pulse /\ Calibrate(c, next[c])
  BY DEF ReceivePulse
<1>3. d \in Capture /\ ((c = "LO" /\ d = "HI") \/ (c = "HI" /\ d = "LO"))
  <2>1. CASE c = "LO"
    BY <2>1 DEF Capture, Other
  <2>2. CASE c = "HI"
    BY <2>2 DEF Capture, Other
  <2> QED
    BY <2>1, <2>2 DEF Capture
<1>4. heard[d] # {}
  <2>1. Sn(next[c]) \in 0 .. Pulses /\ Pulses \in Nat
    BY <1>1, <1>2, PulseTypes, SizeAssumption
  <2>2. Sn(next[c]) # -1
    BY <2>1
  <2> QED
    BY <1>1, <1>3, <2>2 DEF CountersOK
<1>5. PICK j \in Pulse : LastOf(d, j)
  BY <1>1, <1>3, <1>4 DEF CountersOK
<1>6. Latest(heard'[d]) = j
  <2>1. heard'[d] = heard[d] /\ heard[d] \in SUBSET Pulse
    BY <1>1, <1>3, PulseIsLatest DEF TypeOK
  <2> QED
    BY <1>5, <2>1, LatestIs DEF LastOf
<1>7. Latest(heard'[c]) = next[c]
  BY PulseIsLatest
<1>8. syncts'[c] = Timenow(Position(c, next[c])) /\ syncts'[d] = Timenow(Position(d, j))
  BY <1>5, CountersAfter DEF LastOf
<1>9. Sn(j) = Sn(next[c])
  BY <1>5 DEF LastOf
<1>10. delay' = syncts'["LO"] - syncts'["HI"]
  BY <1>2 DEF Calibrate
<1>11. e.lo \in Pulse /\ e.hi \in Pulse
  BY <1>2, <1>3, <1>5, <1>6, <1>7
<1>12. EntryOK(e)
  <2>1. Sn(e.lo) = Sn(e.hi)
    BY <1>3, <1>6, <1>7, <1>9
  <2>2. e.delay = Timenow(Position("LO", e.lo)) - Timenow(Position("HI", e.hi))
    BY <1>3, <1>6, <1>7, <1>8, <1>10
  <2> QED
    BY <2>1, <2>2 DEF EntryOK
<1>13. delay' \in Int
  BY <1>10, CountersAfter DEF Capture
<1> QED
  BY <1>11, <1>12, <1>13 DEF Entry

-----------------------------------------------------------------------------
(***************************************************************************)
(* Every step keeps the invariant.                                         *)
(***************************************************************************)
LEMMA AirIsFixed ==
  ASSUME UNCHANGED air
  PROVE  /\ \A c, i : Position(c, i)' = Position(c, i)
         /\ \A i : Sn(i)' = Sn(i)
         /\ \A e : EntryOK(e)' = EntryOK(e)
<1>1. start' = start /\ restart' = restart /\ loss' = loss
  BY DEF air
<1>2. \A c, i : Position(c, i)' = Position(c, i)
  BY <1>1 DEF Position, Lost
<1>3. \A i : Sn(i)' = Sn(i)
  BY <1>1 DEF Sn
<1>4. \A pos : Timenow(pos)' = Timenow(pos)
  BY DEF Timenow
<1>5. \A e : EntryOK(e)' = EntryOK(e)
  BY <1>2, <1>3, <1>4 DEF EntryOK
<1> QED
  BY <1>2, <1>3, <1>5

\* A step that receives no pulse leaves counters and log alone.
LEMMA OthersKeepCounters ==
  ASSUME IInv, UNCHANGED <<air, decoder, log, heard>>, TypeOK',
         \A c \in Capture : next'[c] >= next[c]
  PROVE  IInv'
<1>1. CountersOK'
  <2> SUFFICES ASSUME NEW c \in Capture
               PROVE  /\ \A j \in heard'[c] : j < next'[c]
                      /\ heard'[c] = {} => syncsn'[c] = -1
                      /\ heard'[c] # {} => \E i \in Pulse : LastOf(c, i)'
    BY DEF CountersOK
  <2>1. heard' = heard /\ syncsn' = syncsn /\ syncts' = syncts
    BY DEF decoder
  <2>2. \A i : LastOf(c, i)' = LastOf(c, i)
    <3>1. \A i : Position(c, i)' = Position(c, i) /\ Sn(i)' = Sn(i)
      BY AirIsFixed
    <3>2. \A pos : Timenow(pos)' = Timenow(pos)
      BY DEF Timenow
    <3> QED
      BY <2>1, <3>1, <3>2 DEF LastOf
  <2>3. \A j \in heard[c] : j < next'[c]
    <3>1. \A j \in heard[c] : j < next[c] /\ j \in Int
      BY DEF IInv, TypeOK, CountersOK, Pulse
    <3>2. next[c] \in Int /\ next'[c] \in Int
      BY DEF IInv, TypeOK
    <3> QED
      BY <3>1, <3>2
  <2> QED
    BY <2>1, <2>2, <2>3 DEF IInv, CountersOK
<1>2. LogOK'
  <2>1. \A e : EntryOK(e)' = EntryOK(e)
    BY AirIsFixed
  <2> QED
    BY <2>1 DEF IInv, LogOK
<1> QED
  BY <1>1, <1>2 DEF IInv

\* What is appended to the log, if anything, is an entry of one counter.
LEMMA LogGrows ==
  ASSUME IInv, NEW c \in Capture, ReceivePulse(c)
  PROVE  log' \in Seq(Entry) /\ LogOK'
<1> DEFINE e == [ts |-> printed, delay |-> delay',
                 lo |-> Latest(heard'["LO"]), hi |-> Latest(heard'["HI"])]
<1>1. Calibrate(c, next[c]) /\ (\A x : EntryOK(x)' = EntryOK(x))
  BY AirIsFixed DEF ReceivePulse
<1>2. log \in Seq(Entry) /\ printed \in Nat /\ LogOK
  BY DEF IInv, TypeOK
<1>3. CASE syncsn[Other(c)] = Sn(next[c]) /\ printed > 0
  <2>1. log' = Append(log, e)
    BY <1>1, <1>3 DEF Calibrate, LogDelay
  <2>2. e \in Entry /\ EntryOK(e)
    BY <1>2, <1>3, DelayMatches
  <2> HIDE DEF e
  <2>3. /\ log' \in Seq(Entry) /\ Len(log') = Len(log) + 1
        /\ \A k \in 1 .. Len(log) : log'[k] = log[k]
        /\ log'[Len(log) + 1] = e
    BY <1>2, <2>1, <2>2, AppendProperties
  <2>4. Len(log) \in Nat
    BY <1>2, LenProperties
  <2>5. \A k \in 1 .. Len(log') : EntryOK(log'[k])
    <3> SUFFICES ASSUME NEW k \in 1 .. Len(log') PROVE EntryOK(log'[k])
      OBVIOUS
    <3>1. CASE k \in 1 .. Len(log)
      BY <1>2, <2>3, <3>1 DEF LogOK
    <3>2. CASE k = Len(log) + 1
      BY <2>2, <2>3, <3>2
    <3> QED
      BY <2>3, <2>4, <3>1, <3>2
  <2> QED
    BY <1>1, <2>3, <2>5 DEF LogOK
<1>4. CASE log' = log
  BY <1>1, <1>2, <1>4 DEF LogOK
<1>5. \/ syncsn[Other(c)] = Sn(next[c]) /\ printed > 0
      \/ log' = log
  BY <1>1 DEF Calibrate, LogDelay
<1> QED
  BY <1>3, <1>4, <1>5

\* After a reception the counters are again those of the latest pulses.
LEMMA CountersGrow ==
  ASSUME IInv, NEW c \in Capture, ReceivePulse(c)
  PROVE  CountersOK'
<1> SUFFICES ASSUME NEW b \in Capture
             PROVE  /\ \A j \in heard'[b] : j < next'[b]
                    /\ heard'[b] = {} => syncsn'[b] = -1
                    /\ heard'[b] # {} => \E i \in Pulse : LastOf(b, i)'
  BY DEF CountersOK
<1>1. /\ next \in [Capture -> 1 .. Pulses + 1] /\ heard \in [Capture -> SUBSET Pulse]
      /\ CountersOK /\ Pulses \in Nat
  BY SizeAssumption DEF IInv, TypeOK
<1>2. next[c] \in Pulse /\ next' = [next EXCEPT ![c] = next[c] + 1] /\ UNCHANGED air
  BY DEF ReceivePulse
<1>3. /\ \A i : Position(b, i)' = Position(b, i) /\ Sn(i)' = Sn(i)
      /\ \A pos : Timenow(pos)' = Timenow(pos)
  BY <1>2, AirIsFixed DEF Timenow
<1>4. \A j \in Pulse : j \in Int
  BY DEF Pulse
<1>5. CASE b = c
  <2>1. heard'[c] = heard[c] \cup {next[c]} /\ heard' \in [Capture -> SUBSET Pulse]
        /\ \A j \in heard'[c] : j <= next[c]
    BY PulseIsLatest
  <2>2. next'[c] = next[c] + 1 /\ next[c] \in Int
    BY <1>1, <1>2
  <2>3. \A j \in heard'[c] : j < next'[c]
    BY <1>4, <2>1, <2>2
  <2>4. PICK i \in Pulse : i = next[c]
    BY <1>2
  <2>5. syncsn'[c] = Sn(i) /\ syncts'[c] = Timenow(Position(c, i))
    BY <2>4, CountersAfter
  <2>6. LastOf(c, i)'
    BY <1>3, <1>5, <2>1, <2>4, <2>5 DEF LastOf
  <2> QED
    BY <1>5, <2>1, <2>3, <2>4, <2>6
<1>6. CASE b # c
  <2>1. b = Other(c)
    BY <1>6 DEF Capture, Other
  <2>2. heard'[b] = heard[b] /\ syncsn'[b] = syncsn[b] /\ syncts'[b] = syncts[b]
    BY <2>1, PulseIsLatest, CountersAfter
  <2>3. next'[b] = next[b]
    BY <1>1, <1>2, <1>6
  <2>4. \A i : LastOf(b, i)' = LastOf(b, i)
    BY <1>3, <2>2 DEF LastOf
  <2> QED
    BY <1>1, <2>2, <2>3, <2>4 DEF CountersOK
<1> QED
  BY <1>5, <1>6

\* HandlePacket for a pulse keeps the invariant.
LEMMA ReceivePulseInv ==
  ASSUME IInv, NEW c \in Capture, ReceivePulse(c)
  PROVE  IInv'
<1> DEFINE pos == Position(c, next[c])
<1>1. TypeOK /\ AirOK
  BY TypeAir DEF IInv
<1>2. /\ next[c] \in Pulse /\ Calibrate(c, next[c]) /\ UNCHANGED <<air, turn, blk, foreign>>
      /\ pos >= 0 /\ PrintModulation(pos)
      /\ lastpos' = [lastpos EXCEPT ![c] = pos]
      /\ next' = [next EXCEPT ![c] = next[c] + 1]
  BY DEF ReceivePulse
<1>3. pos \in Nat /\ Timenow(pos) \in Int
  BY <1>1, <1>2, PulseTypes
<1>4. log' \in Seq(Entry) /\ LogOK'
  BY LogGrows
<1>5. CountersOK'
  BY CountersGrow
<1>6. TypeOK'
  <2>1. next' \in [Capture -> 1 .. Pulses + 1]
    <3>1. next[c] + 1 \in 1 .. Pulses + 1
      BY <1>2, SizeAssumption DEF Pulse
    <3> QED
      BY <1>1, <1>2, <3>1 DEF TypeOK
  <2>2. /\ syncsn' \in [Capture -> -1 .. Pulses] /\ syncts' \in [Capture -> Int]
        /\ heard' \in [Capture -> SUBSET Pulse]
    BY CountersAfter, PulseIsLatest
  <2>3. delay' \in Int
    <3>1. delay' = delay \/ delay' = syncts'["LO"] - syncts'["HI"]
      BY <1>2, Zenon DEF Calibrate
    <3>2. syncts'["LO"] \in Int /\ syncts'["HI"] \in Int
      BY <2>2 DEF Capture
    <3>3. delay \in Int
      BY <1>1 DEF TypeOK
    <3> QED
      BY <3>1, <3>2, <3>3
  <2>4. calibrated' \in BOOLEAN
    <3>1. calibrated \in BOOLEAN
      BY <1>1, Zenon DEF TypeOK
    <3>2. calibrated' = TRUE \/ calibrated' = calibrated
      BY <1>2, Zenon DEF Calibrate
    <3> QED
      BY <3>1, <3>2, Zenon
  <2>5. lastpos' \in [Capture -> Nat]
    BY <1>1, <1>2, <1>3 DEF TypeOK
  <2>6. printed' \in Nat
    BY <1>1, <1>2, <1>3 DEF PrintModulation, TypeOK
  <2> QED
    BY <1>1, <1>2, <1>4, <2>1, <2>2, <2>3, <2>4, <2>5, <2>6 DEF TypeOK, air
<1> QED
  BY <1>4, <1>5, <1>6 DEF IInv

\* So does a pulse that is missed,
LEMMA MissPulseInv ==
  ASSUME IInv, NEW c \in Capture, MissPulse(c)
  PROVE  IInv'
<1>1. /\ next[c] \in Pulse /\ next' = [next EXCEPT ![c] = @ + 1]
      /\ UNCHANGED <<air, turn, blk, decoder, lastpos, printed, log, heard, foreign>>
  BY DEF MissPulse
<1>2. TypeOK
  BY DEF IInv
<1>3. next[c] + 1 \in 1 .. Pulses + 1 /\ next[c] + 1 >= next[c]
  BY <1>1, SizeAssumption DEF Pulse
<1>4. TypeOK'
  BY <1>1, <1>2, <1>3 DEF TypeOK, air, decoder
<1>5. \A b \in Capture : next'[b] >= next[b]
  <2> SUFFICES ASSUME NEW b \in Capture PROVE next'[b] >= next[b]
    OBVIOUS
  <2>1. next[b] \in Int
    BY <1>2 DEF TypeOK
  <2>2. next'[b] = IF b = c THEN next[c] + 1 ELSE next[b]
    BY <1>1, <1>2 DEF TypeOK
  <2> QED
    BY <1>3, <2>1, <2>2
<1> QED
  BY <1>1, <1>4, <1>5, OthersKeepCounters

\* another device's packet,
LEMMA ReceiveOtherInv ==
  ASSUME IInv, NEW c \in Capture, ReceiveOther(c)
  PROVE  IInv'
<1>1. /\ foreign' = TRUE /\ UNCHANGED <<air, turn, blk, next, decoder, log, heard>>
      /\ \E pos \in OtherTimes : lastpos' = [lastpos EXCEPT ![c] = pos] /\ PrintModulation(pos)
  BY DEF ReceiveOther
<1>2. TypeOK
  BY DEF IInv
<1>3. PICK pos \in OtherTimes : lastpos' = [lastpos EXCEPT ![c] = pos] /\ PrintModulation(pos)
  BY <1>1
<1>4. pos \in Nat
  BY AirAssumption
<1>5. Timenow(pos) \in Int
  <2>1. pos \in Int
    BY <1>4
  <2> QED
    BY <2>1, TimenowIs
<1>6. printed' \in Nat
  BY <1>2, <1>3, <1>5 DEF PrintModulation, TypeOK
<1>7. lastpos' \in [Capture -> Nat]
  BY <1>2, <1>3, <1>4 DEF TypeOK
<1>8. foreign' \in BOOLEAN
  BY <1>1, Zenon
<1>9. TypeOK'
  BY <1>1, <1>2, <1>6, <1>7, <1>8 DEF TypeOK, air, decoder
<1>10. \A b \in Capture : next'[b] >= next[b]
  BY <1>1, <1>2 DEF TypeOK
<1> QED
  BY <1>1, <1>9, <1>10, OthersKeepCounters

\* and the end of one file's half of the block.
LEMMA EndHalfInv ==
  ASSUME IInv, NEW c \in Capture, EndHalf(c)
  PROVE  IInv'
<1>1. /\ turn' = Other(c) /\ blk' = (IF c = "HI" THEN blk + 1 ELSE blk) /\ blk < Blocks
      /\ UNCHANGED <<air, next, decoder, lastpos, printed, log, heard, foreign>>
  BY DEF EndHalf, Decoding
<1>2. TypeOK
  BY DEF IInv
<1>3. turn' \in Capture
  BY <1>1 DEF Other, Capture
<1>4. blk' \in 0 .. Blocks
  BY <1>1, <1>2, SizeAssumption DEF TypeOK
<1>5. TypeOK'
  BY <1>1, <1>2, <1>3, <1>4 DEF TypeOK, air, decoder
<1>6. \A b \in Capture : next'[b] >= next[b]
  BY <1>1, <1>2 DEF TypeOK
<1> QED
  BY <1>1, <1>5, <1>6, OthersKeepCounters

\* Every step of the decoder keeps the invariant.
LEMMA NextInv == IInv /\ [Decode]_vars => IInv'
<1> SUFFICES ASSUME IInv, [Decode]_vars PROVE IInv'
  OBVIOUS
<1>1. CASE Decode
  BY <1>1, ReceivePulseInv, MissPulseInv, ReceiveOtherInv, EndHalfInv DEF Decode
<1>2. CASE UNCHANGED vars
  <2>1. UNCHANGED <<air, decoder, log, heard>> /\ UNCHANGED next
    BY <1>2 DEF vars
  <2>2. TypeOK'
    BY <1>2 DEF IInv, TypeOK, vars, air, decoder
  <2>3. \A b \in Capture : next'[b] >= next[b]
    BY <2>1 DEF IInv, TypeOK
  <2> QED
    BY <2>1, <2>2, <2>3, OthersKeepCounters
<1> QED
  BY <1>1, <1>2

\* The counter and time a capture keeps are those of its latest pulse, and every
\* logged delay subtracts the times of two pulses that carried one counter.
THEOREM Invariance == Spec => []IInv
  BY InitInv, NextInv, PTL DEF Spec

-----------------------------------------------------------------------------
\* What the invariant says of the log.
LEMMA InvDelayIsTrue == IInv => DelayIsTrue
<1> SUFFICES ASSUME IInv, NEW k \in 1 .. Len(log), ~Restarted,
                    Unwrapped(log[k].lo, log[k].hi)
             PROVE  /\ log[k].lo = log[k].hi
                    /\ log[k].delay = Position("LO", log[k].lo) - Position("HI", log[k].lo)
  BY DEF DelayIsTrue
<1> DEFINE lo == log[k].lo
           hi == log[k].hi
           x == Position("LO", lo)
           y == Position("HI", hi)
<1>1. TypeOK /\ AirOK /\ EntryOK(log[k])
  BY TypeAir DEF IInv, LogOK
<1>2. log[k] \in Entry
  BY <1>1, ElementOfSeq DEF TypeOK
<1>3. lo \in Pulse /\ hi \in Pulse
  BY <1>2 DEF Entry
<1>4. lo = hi
  BY <1>1, <1>3, SnIdentifies DEF EntryOK
<1>5. x \in Int /\ y \in Int
  BY <1>1, <1>3, PulseTypes DEF Capture
<1> DEFINE w == (2 * HalfRange) * Wraps(x)
<1>6. w \in Int /\ Timenow(x) = x - w /\ Timenow(y) = y - w
  BY <1>5, TimenowIs DEF Unwrapped
<1>7. log[k].delay = Timenow(x) - Timenow(y)
  BY <1>1 DEF EntryOK
<1> HIDE DEF x, y, w
<1>8. log[k].delay = x - y
  BY <1>5, <1>6, <1>7
<1> QED
  BY <1>4, <1>8 DEF x, y

\* Every variable of the decoder keeps its type, for every air and every size.
THEOREM TypeCorrect == Spec => []TypeOK
  BY Invariance, PTL DEF IInv

\* Without a restart every delay that is logged is that of one pulse, whatever the
\* captures missed and lost and however far apart they started.
THEOREM DelaysAreTrue == Spec => []DelayIsTrue
  BY Invariance, InvDelayIsTrue, PTL

-----------------------------------------------------------------------------
(***************************************************************************)
(* The order in which the two files are decoded.                           *)
(***************************************************************************)
\* A capture loses less than the time between two pulses.
LossShort == loss.amount < Spacing

\* Blocks of file c that have been decoded, and that have been begun.
Done(c) == IF c = "LO" /\ turn = "HI" THEN blk + 1 ELSE blk
Started(c) == IF c = "LO" \/ turn = "HI" THEN blk + 1 ELSE blk

\* A pulse is behind only if its block has been begun, and ahead only if its
\* block has not been decoded or it was sent before the capture.
Schedule == \A c \in Capture :
  /\ \A j \in Pulse : j < next[c] => BlockOf(Position(c, j)) < Started(c)
  /\ \A j \in Pulse : j >= next[c] => Done(c) = 0 \/ BlockOf(Position(c, j)) >= Done(c)
  /\ \A j \in heard[c] : Position(c, j) >= 0

\* A larger multiple is larger by one at least.
LEMMA Multiples ==
  ASSUME NEW a \in Int, NEW b \in Int, NEW s \in Nat, a < b
  PROVE  a * s \in Int /\ b * s \in Int /\ a * s + s <= b * s
<1>1. b - a - 1 \in Nat
  OBVIOUS
<1>2. (b - a - 1) * s >= 0
  BY <1>1
<1>3. (b - a - 1) * s = b * s - a * s - s
  OBVIOUS
<1>4. a * s \in Int /\ b * s \in Int
  OBVIOUS
<1> QED
  BY <1>2, <1>3, <1>4

\* Later pulses are further in a file.
LEMMA PositionGrows ==
  ASSUME AirOK, LossShort, NEW c \in Capture, NEW i \in Pulse, NEW j \in Pulse, i <= j
  PROVE  /\ Position(c, i) <= Position(c, j)
         /\ i < j => Position(c, i) < Position(c, j)
<1>1. /\ i \in Int /\ j \in Int /\ Spacing \in Nat /\ start[c] \in Int
      /\ loss.amount \in Nat /\ loss.pulse \in Int
  BY SizeAssumption DEF Pulse, AirOK
<1>2. CASE i = j
  BY <1>1, <1>2, PulseTypes
<1>3. CASE i < j
  <2> DEFINE a == i * Spacing
             b == j * Spacing
  <2>1. a \in Int /\ b \in Int /\ a + Spacing <= b
    BY <1>1, <1>3, Multiples
  <2>2. Lost(c, j) < Spacing /\ Lost(c, j) \in Nat /\ Lost(c, i) \in Nat
    BY <1>1, SizeAssumption DEF Lost, LossShort
  <2>3. Position(c, i) = a - start[c] - Lost(c, i) /\ Position(c, j) = b - start[c] - Lost(c, j)
    BY DEF Position
  <2> HIDE DEF a, b
  <2> QED
    BY <1>1, <2>1, <2>2, <2>3
<1> QED
  BY <1>1, <1>2, <1>3

\* The block of a position, and how far it reaches.
LEMMA BlockIs ==
  ASSUME NEW x \in Int
  PROVE  /\ BlockOf(x) \in Int
         /\ x >= 0 => BlockOf(x) >= 0
         /\ \A y \in Int : x <= y => BlockOf(x) <= BlockOf(y)
         /\ \A y \in Int : BlockOf(x) <= BlockOf(y) => x < y + Block
<1>1. Block \in Nat \ {0} /\ RingBuffer \in Nat /\ x + RingBuffer \in Int
  BY SizeAssumption
<1>2. BlockOf(x) \in Int
  BY <1>1 DEF BlockOf
<1>3. x >= 0 => BlockOf(x) >= 0
  BY <1>1 DEF BlockOf
<1>4. ASSUME NEW y \in Int, x <= y PROVE BlockOf(x) <= BlockOf(y)
  <2>1. y + RingBuffer \in Int /\ x + RingBuffer <= y + RingBuffer
    BY <1>1, <1>4
  <2>2. \A u, v \in Int, m \in Nat \ {0} : u <= v => u \div m <= v \div m
    OBVIOUS
  <2> QED
    BY <1>1, <2>1, <2>2 DEF BlockOf
<1>5. ASSUME NEW y \in Int, BlockOf(x) <= BlockOf(y) PROVE x < y + Block
  <2>1. y + RingBuffer \in Int
    BY <1>1
  <2>2. \A u, v \in Int, m \in Nat \ {0} : u \div m <= v \div m => u < v + m
    OBVIOUS
  <2>3. x + RingBuffer < y + RingBuffer + Block
    BY <1>1, <1>5, <2>1, <2>2 DEF BlockOf
  <2> QED
    BY <1>1, <2>3
<1> QED
  BY <1>2, <1>3, <1>4, <1>5

\* A later pulse is in no earlier block.
LEMMA BlocksGrow ==
  ASSUME AirOK, LossShort, NEW c \in Capture, NEW i \in Pulse, NEW j \in Pulse, i <= j
  PROVE  /\ BlockOf(Position(c, i)) \in Int /\ BlockOf(Position(c, j)) \in Int
         /\ BlockOf(Position(c, i)) <= BlockOf(Position(c, j))
<1>1. /\ Position(c, i) \in Int /\ Position(c, j) \in Int
      /\ Position(c, i) <= Position(c, j)
  BY PositionGrows, PulseTypes
<1> QED
  BY <1>1, BlockIs

\* How far the two files are while c is being decoded.
LEMMA HalvesAre ==
  ASSUME TypeOK, NEW c \in Capture, Decoding(c)
  PROVE  /\ Other(c) \in Capture /\ Other(c) # c /\ blk \in Nat /\ turn = c
         /\ Done(c) = blk /\ Started(c) = blk + 1
         /\ Done(Other(c)) = Started(Other(c))
         /\ c = "LO" => Other(c) = "HI" /\ Done(Other(c)) = blk
         /\ c = "HI" => Other(c) = "LO" /\ Done(Other(c)) = blk + 1
<1>1. turn = c /\ blk \in Nat
  BY SizeAssumption DEF Decoding, TypeOK
<1>2. c = "LO" \/ c = "HI"
  BY DEF Capture
<1> QED
  BY <1>1, <1>2 DEF Done, Started, Other, Capture

\* A packet of the block being decoded that begins in the capture.
LEMMA BlockNow ==
  ASSUME TypeOK, Schedule, NEW c \in Capture, ReceivePulse(c)
  PROVE  /\ Position(c, next[c]) \in Nat
         /\ BlockOf(Position(c, next[c])) = blk
<1>1. /\ next[c] \in Pulse /\ BlockOf(Position(c, next[c])) <= blk
      /\ Decoding(c) /\ Position(c, next[c]) >= 0
  BY DEF ReceivePulse, InBlock
<1>2. Position(c, next[c]) \in Int /\ next[c] \in Int
  BY <1>1, TypeAir, PulseTypes
<1>3. BlockOf(Position(c, next[c])) \in Int /\ BlockOf(Position(c, next[c])) >= 0
  BY <1>1, <1>2, BlockIs
<1>4. Done(c) = 0 \/ BlockOf(Position(c, next[c])) >= Done(c)
  BY <1>1, <1>2 DEF Schedule
<1>5. Done(c) = blk /\ blk \in Nat
  BY <1>1, HalvesAre
<1> QED
  BY <1>1, <1>2, <1>3, <1>4, <1>5

\* The schedule is kept.
LEMMA ScheduleInit == Init => LossShort /\ Schedule
<1> SUFFICES ASSUME Init PROVE LossShort /\ Schedule
  OBVIOUS
<1>1. LossShort
  <2>1. loss.amount \in Losses
    BY DEF Init
  <2>2. loss.amount \in 0 .. Spacing - 1
    BY <2>1, AirAssumption
  <2> QED
    BY <2>2, SizeAssumption DEF LossShort
<1>2. blk = 0 /\ turn = "LO" /\ \A c \in Capture : next[c] = 1 /\ heard[c] = {}
  BY DEF Init
<1>3. \A j \in Pulse : j \in Int /\ ~(j < 1)
  BY SizeAssumption DEF Pulse
<1>4. \A c \in Capture : Done(c) = 0
  BY <1>2 DEF Done
<1> QED
  BY <1>1, <1>2, <1>3, <1>4 DEF Schedule

\* What the schedule says of the pulses does not change with the air.
LEMMA BlocksFixed ==
  ASSUME UNCHANGED air
  PROVE  /\ \A c, i : Position(c, i)' = Position(c, i)
         /\ \A c, i : BlockOf(Position(c, i))' = BlockOf(Position(c, i))
         /\ \A i : Near(i)' = Near(i)
<1>1. \A c, i : Position(c, i)' = Position(c, i)
  BY AirIsFixed
<1>2. \A c, i : BlockOf(Position(c, i))' = BlockOf(Position(c, i))
  BY <1>1 DEF BlockOf
<1>3. \A i : Near(i)' = Near(i)
  BY <1>2 DEF Near
<1> QED
  BY <1>1, <1>2, <1>3

\* A pulse decoded, received or not, is behind from then on.
LEMMA AdvanceSchedule ==
  ASSUME TypeOK, LossShort, Schedule, NEW c \in Capture, Decoding(c),
         next[c] \in Pulse, InBlock(Position(c, next[c])),
         next' = [next EXCEPT ![c] = next[c] + 1], UNCHANGED <<air, turn, blk>>,
         \A b \in Capture : \A j \in heard'[b] :
            j \in heard[b] \/ (b = c /\ j = next[c] /\ Position(c, j) >= 0)
  PROVE  LossShort' /\ Schedule'
<1>1. LossShort'
  BY DEF LossShort, air
<1>2. \A b, i : /\ Position(b, i)' = Position(b, i)
                /\ BlockOf(Position(b, i))' = BlockOf(Position(b, i))
  BY BlocksFixed
<1>3. \A b : Done(b)' = Done(b) /\ Started(b)' = Started(b)
  BY DEF Done, Started
<1>4. /\ Started(c) = blk + 1 /\ blk \in Nat
      /\ BlockOf(Position(c, next[c])) <= blk
  BY HalvesAre DEF InBlock
<1>5. BlockOf(Position(c, next[c])) < Started(c)
  <2>1. BlockOf(Position(c, next[c])) \in Int
    BY TypeAir, BlocksGrow DEF Pulse
  <2> QED
    BY <1>4, <2>1
<1>6. \A b \in Capture : next'[b] = IF b = c THEN next[c] + 1 ELSE next[b]
  BY DEF TypeOK
<1>7. \A j \in Pulse : j \in Int
  BY DEF Pulse
<1> SUFFICES ASSUME NEW b \in Capture
             PROVE  /\ \A j \in Pulse : j < next'[b] => BlockOf(Position(b, j)) < Started(b)
                    /\ \A j \in Pulse : j >= next'[b] =>
                         Done(b) = 0 \/ BlockOf(Position(b, j)) >= Done(b)
                    /\ \A j \in heard'[b] : Position(b, j) >= 0
  BY <1>1, <1>2, <1>3 DEF Schedule
<1>8. ASSUME NEW j \in Pulse, j < next'[b] PROVE BlockOf(Position(b, j)) < Started(b)
  <2>1. j < next[b] \/ (b = c /\ j = next[c])
    BY <1>6, <1>7, <1>8
  <2> QED
    BY <1>5, <2>1 DEF Schedule
<1>9. ASSUME NEW j \in Pulse, j >= next'[b]
      PROVE  Done(b) = 0 \/ BlockOf(Position(b, j)) >= Done(b)
  <2>1. j >= next[b]
    BY <1>6, <1>7, <1>9
  <2> QED
    BY <2>1 DEF Schedule
<1>10. ASSUME NEW j \in heard'[b] PROVE Position(b, j) >= 0
  <2>1. j \in heard[b] \/ (b = c /\ j = next[c] /\ Position(c, j) >= 0)
    OBVIOUS
  <2> QED
    BY <2>1 DEF Schedule
<1> QED
  BY <1>8, <1>9, <1>10

\* The half ends when the file's next pulse is in a later block.
LEMMA EndHalfSchedule ==
  ASSUME TypeOK, LossShort, Schedule, NEW c \in Capture, EndHalf(c)
  PROVE  LossShort' /\ Schedule'
<1>1. /\ Decoding(c) /\ turn' = Other(c) /\ blk' = (IF c = "HI" THEN blk + 1 ELSE blk)
      /\ UNCHANGED <<air, next, heard>>
      /\ next[c] \in Pulse => ~(BlockOf(Position(c, next[c])) <= blk)
  BY DEF EndHalf, InBlock
<1>2. LossShort'
  BY <1>1 DEF LossShort, air
<1>3. \A b, i : /\ Position(b, i)' = Position(b, i)
                /\ BlockOf(Position(b, i))' = BlockOf(Position(b, i))
  BY <1>1, BlocksFixed
<1>4. /\ Other(c) \in Capture /\ Other(c) # c /\ blk \in Nat /\ turn = c
      /\ Started(c) = blk + 1
  BY <1>1, HalvesAre
<1>5. \A j \in Pulse : j \in Int
  BY DEF Pulse
<1>6. \A b \in Capture : \A j \in Pulse : BlockOf(Position(b, j)) \in Int
  BY TypeAir, BlocksGrow DEF Pulse
<1> SUFFICES ASSUME NEW b \in Capture
             PROVE  /\ \A j \in Pulse : j < next[b] => BlockOf(Position(b, j)) < Started(b)'
                    /\ \A j \in Pulse : j >= next[b] =>
                         Done(b)' = 0 \/ BlockOf(Position(b, j)) >= Done(b)'
                    /\ \A j \in heard[b] : Position(b, j) >= 0
  BY <1>1, <1>2, <1>3 DEF Schedule
<1>7. \A j \in heard[b] : Position(b, j) >= 0
  BY DEF Schedule
<1>8. Started(b)' >= Started(b) /\ Started(b) \in Int /\ Started(b)' \in Int
  BY <1>1, <1>4 DEF Started, Other, Capture
<1>9. \A j \in Pulse : j < next[b] => BlockOf(Position(b, j)) < Started(b)'
  BY <1>6, <1>8 DEF Schedule
<1>10. CASE b = c
  <2>1. Done(c)' = blk + 1
    BY <1>1, <1>4 DEF Done, Other, Capture
  <2>2. ASSUME NEW j \in Pulse, j >= next[c] PROVE BlockOf(Position(c, j)) >= blk + 1
    <3>1. next[c] \in Pulse
      <4>1. next[c] \in 1 .. Pulses + 1
        BY DEF TypeOK
      <4> QED
        BY <2>2, <4>1, SizeAssumption DEF Pulse
    <3>2. BlockOf(Position(c, next[c])) <= BlockOf(Position(c, j))
      BY <1>5, <2>2, <3>1, TypeAir, BlocksGrow
    <3> QED
      BY <1>1, <1>4, <1>6, <3>1, <3>2
  <2> QED
    BY <1>7, <1>9, <1>10, <2>1, <2>2
<1>11. CASE b # c
  <2>1. Done(b)' = Done(b)
    BY <1>1, <1>4, <1>11 DEF Done, Other, Capture
  <2>2. \A j \in Pulse : j >= next[b] => Done(b)' = 0 \/ BlockOf(Position(b, j)) >= Done(b)'
    BY <2>1 DEF Schedule
  <2> QED
    BY <1>7, <1>9, <2>2
<1> QED
  BY <1>10, <1>11

\* Every step keeps the schedule.
LEMMA ScheduleNext ==
  ASSUME IInv, LossShort, Schedule, [Decode]_vars
  PROVE  LossShort' /\ Schedule'
<1>1. TypeOK
  BY DEF IInv
<1>2. ASSUME UNCHANGED <<air, turn, blk, next, heard>> PROVE LossShort' /\ Schedule'
  <2>1. \A b, i : /\ Position(b, i)' = Position(b, i)
                  /\ BlockOf(Position(b, i))' = BlockOf(Position(b, i))
    BY <1>2, BlocksFixed
  <2>2. \A b : Done(b)' = Done(b) /\ Started(b)' = Started(b)
    BY <1>2 DEF Done, Started
  <2>3. LossShort'
    BY <1>2 DEF LossShort, air
  <2> QED
    BY <1>2, <2>1, <2>2, <2>3 DEF Schedule
<1>3. ASSUME NEW c \in Capture, ReceivePulse(c) PROVE LossShort' /\ Schedule'
  <2>1. /\ Decoding(c) /\ next[c] \in Pulse /\ InBlock(Position(c, next[c]))
        /\ Position(c, next[c]) >= 0
        /\ next' = [next EXCEPT ![c] = next[c] + 1] /\ UNCHANGED <<air, turn, blk>>
    BY <1>3 DEF ReceivePulse
  <2>2. heard'[c] = heard[c] \cup {next[c]} /\ heard'[Other(c)] = heard[Other(c)]
    BY <1>3, PulseIsLatest
  <2>3. \A b \in Capture : b = c \/ b = Other(c)
    BY DEF Capture, Other
  <2>4. \A b \in Capture : \A j \in heard'[b] :
            j \in heard[b] \/ (b = c /\ j = next[c] /\ Position(c, j) >= 0)
    BY <2>1, <2>2, <2>3
  <2> QED
    BY <1>1, <2>1, <2>4, AdvanceSchedule
<1>4. ASSUME NEW c \in Capture, MissPulse(c) PROVE LossShort' /\ Schedule'
  <2>1. /\ Decoding(c) /\ next[c] \in Pulse /\ InBlock(Position(c, next[c]))
        /\ next' = [next EXCEPT ![c] = next[c] + 1] /\ UNCHANGED <<air, turn, blk, heard>>
    BY <1>4 DEF MissPulse
  <2> QED
    BY <1>1, <2>1, AdvanceSchedule
<1>5. ASSUME NEW c \in Capture, ReceiveOther(c) PROVE LossShort' /\ Schedule'
  BY <1>2, <1>5 DEF ReceiveOther
<1>6. ASSUME NEW c \in Capture, EndHalf(c) PROVE LossShort' /\ Schedule'
  BY <1>1, <1>6, EndHalfSchedule
<1>7. CASE UNCHANGED vars
  BY <1>2, <1>7 DEF vars
<1> QED
  BY <1>3, <1>4, <1>5, <1>6, <1>7 DEF Decode

-----------------------------------------------------------------------------
(***************************************************************************)
(* Between the two receptions of a pulse.                                  *)
(***************************************************************************)
Apart(i) == Near(i) /\ (i - 1 \in Pulse => Near(i - 1))

\* The other capture may still receive pulse i, which is less than a pulse away.
Pending(c, i) ==
  /\ next[Other(c)] <= i /\ Apart(i)
  /\ Position(c, i) < HalfRange /\ Position(Other(c), i) \in 0 .. HalfRange - 1

\* The last time printed is that of the pulse, but for another packet's.
PendingOK == \A c \in Capture : \A i \in heard[c] :
  Pending(c, i) => /\ ~foreign => printed = Position(c, i)
                   /\ Position(c, i) > 0 => printed > 0

OrderInv == IInv /\ LossShort /\ Schedule

\* When c receives a pulse, the other file is not a pulse ahead,
LEMMA OtherNotAhead ==
  ASSUME OrderInv, NEW c \in Capture, ReceivePulse(c),
         NEW j \in heard[Other(c)], NEW k \in Pulse, next[c] <= k, k < j, Near(k)
  PROVE  FALSE
<1> DEFINE d == Other(c)
           i == next[c]
<1>1. TypeOK /\ AirOK /\ LossShort /\ Schedule /\ CountersOK
  BY TypeAir DEF OrderInv, IInv
<1>2. d \in Capture /\ blk \in Nat /\ Started(d) <= blk + 1 /\ (c = "LO" => Started(d) = blk)
  BY <1>1, HalvesAre DEF ReceivePulse, Capture
<1>3. i \in Pulse /\ j \in Pulse /\ j < next[d]
  BY <1>1, <1>2 DEF ReceivePulse, TypeOK, CountersOK
<1>4. i \in Int /\ k \in Int /\ j \in Int /\ k + 1 \in Pulse /\ k + 1 <= j
  BY <1>3, SizeAssumption DEF Pulse
<1>5. BlockOf(Position(c, i)) = blk
  BY <1>1, BlockNow
<1>6. /\ BlockOf(Position(c, i)) <= BlockOf(Position(c, k))
      /\ BlockOf(Position(d, k + 1)) <= BlockOf(Position(d, j))
      /\ BlockOf(Position(c, k)) \in Int /\ BlockOf(Position(d, k + 1)) \in Int
      /\ BlockOf(Position(d, j)) \in Int
  BY <1>1, <1>2, <1>3, <1>4, BlocksGrow
<1>7. BlockOf(Position(c, k)) < BlockOf(Position(d, k + 1))
  BY <1>4 DEF Near
<1>8. BlockOf(Position(d, j)) < Started(d)
  BY <1>1, <1>2, <1>3 DEF Schedule
<1>9. Started(d) \in Int
  BY <1>2 DEF Started, OrderInv
<1> QED
  BY <1>2, <1>5, <1>6, <1>7, <1>8, <1>9

\* nor a pulse behind, if the pulse before is still to come there.
LEMMA OtherNotBehind ==
  ASSUME OrderInv, NEW c \in Capture, ReceivePulse(c),
         NEW j \in Pulse, j < next[c], Near(j),
         next[Other(c)] <= j, Position(Other(c), j) >= 0
  PROVE  FALSE
<1> DEFINE d == Other(c)
           i == next[c]
<1>1. TypeOK /\ AirOK /\ LossShort /\ Schedule
  BY TypeAir DEF OrderInv, IInv
<1>2. d \in Capture /\ Other(d) = c /\ blk \in Nat /\ Done(d) \in Nat /\ Done(d) >= blk
  <2>1. d \in Capture /\ blk \in Nat /\ (Done(d) = blk \/ Done(d) = blk + 1)
    BY <1>1, HalvesAre DEF ReceivePulse, Capture
  <2> QED
    BY <2>1 DEF Other, Capture
<1>3. i \in Pulse
  BY DEF ReceivePulse
<1>4. i \in Int /\ j \in Int /\ j + 1 \in Pulse /\ j + 1 <= i
  BY <1>3, SizeAssumption DEF Pulse
<1>5. BlockOf(Position(c, i)) = blk
  BY <1>1, BlockNow
<1>6. /\ BlockOf(Position(c, j + 1)) <= BlockOf(Position(c, i))
      /\ BlockOf(Position(c, j + 1)) \in Int /\ BlockOf(Position(d, j)) \in Int
  BY <1>1, <1>2, <1>3, <1>4, BlocksGrow
<1>7. BlockOf(Position(d, j)) < BlockOf(Position(c, j + 1))
  BY <1>2, <1>4 DEF Near
<1>8. next[d] \in Int
  BY <1>1, <1>2 DEF TypeOK
<1>9. Done(d) = 0 \/ BlockOf(Position(d, j)) >= Done(d)
  <2>1. j >= next[d]
    BY <1>4, <1>8
  <2> QED
    BY <1>1, <1>2, <2>1 DEF Schedule
<1>10. BlockOf(Position(d, j)) >= 0
  <2>1. Position(d, j) \in Int
    BY <1>1, <1>2, PulseTypes
  <2> QED
    BY <2>1, BlockIs
<1> QED
  BY <1>2, <1>5, <1>6, <1>7, <1>9, <1>10

\* A time that the int holds is printed as it is.
LEMMA TimenowSame ==
  ASSUME NEW pos \in Nat
  PROVE  /\ pos < HalfRange => Timenow(pos) = pos
         /\ 0 < pos /\ pos < 2 * HalfRange => Timenow(pos) # 0
<1>1. HalfRange \in Nat /\ HalfRange > 0
  BY SizeAssumption
<1>2. CASE pos < HalfRange
  BY <1>1, <1>2 DEF Timenow
<1>3. CASE pos >= HalfRange /\ pos < 2 * HalfRange
  <2>1. (pos + HalfRange) % (2 * HalfRange) = pos + HalfRange - 2 * HalfRange
    <3>1. \A x \in Int, m \in Nat \ {0} : m <= x /\ x < 2 * m => x % m = x - m
      OBVIOUS
    <3> QED
      BY <1>1, <1>3, <3>1
  <2> QED
    BY <1>1, <1>3, <2>1 DEF Timenow
<1> QED
  BY <1>1, <1>2, <1>3

\* The reception of a pulse: it is the one that may be pending from now on.
LEMMA ReceivePending ==
  ASSUME OrderInv, PendingOK, NEW c \in Capture, ReceivePulse(c)
  PROVE  PendingOK'
<1> DEFINE d == Other(c)
           i == next[c]
<1>1. TypeOK /\ AirOK /\ LossShort /\ Schedule /\ CountersOK
  BY TypeAir DEF OrderInv, IInv
<1>2. d \in Capture /\ d # c /\ Other(d) = c /\ \A b \in Capture : b = c \/ b = d
  BY DEF Other, Capture
<1>3. /\ i \in Pulse /\ PrintModulation(Position(c, i)) /\ UNCHANGED air
      /\ next' = [next EXCEPT ![c] = i + 1]
      /\ Position(c, i) \in Nat
  BY <1>1, BlockNow DEF ReceivePulse
<1>4. heard'[c] = heard[c] \cup {i} /\ heard'[d] = heard[d]
  BY PulseIsLatest DEF OrderInv
<1>5. /\ \A b, j : Position(b, j)' = Position(b, j)
      /\ \A j : Near(j)' = Near(j) /\ Apart(j)' = Apart(j)
  BY <1>3, BlocksFixed DEF Apart
<1>6. next'[c] = i + 1 /\ next'[d] = next[d] /\ next[d] \in Int
  BY <1>1, <1>2, <1>3 DEF TypeOK
<1>7. heard[c] \subseteq Pulse /\ heard[d] \subseteq Pulse /\ \A j \in Pulse : j \in Int
  <2>1. \A j \in Pulse : j \in Int
    BY DEF Pulse
  <2> QED
    BY <1>1, <1>2, <2>1 DEF TypeOK
<1>8. Position(c, i) < HalfRange => printed' = Position(c, i)
  BY <1>3, TimenowSame DEF PrintModulation
<1> SUFFICES ASSUME NEW b \in Capture, NEW j \in heard'[b], Pending(b, j)'
             PROVE  /\ ~foreign' => printed' = Position(b, j)
                    /\ Position(b, j) > 0 => printed' > 0
  BY <1>5 DEF PendingOK
<1>9. /\ next'[Other(b)] <= j /\ Apart(j)
      /\ Position(b, j) < HalfRange /\ Position(Other(b), j) >= 0
  BY <1>5 DEF Pending
<1>10. CASE b = c /\ j = i
  BY <1>8, <1>9, <1>10
<1>11. CASE b = c /\ j # i
  <2>1. j \in heard[c] /\ j \in Pulse /\ j < i
    BY <1>1, <1>4, <1>7, <1>11 DEF CountersOK
  <2>2. next[d] <= j /\ Near(j) /\ Position(d, j) >= 0
    BY <1>6, <1>9, <1>11 DEF Apart
  <2> QED
    BY <2>1, <2>2, OtherNotBehind
<1>12. CASE b = d
  <2>1. j \in heard[d] /\ j \in Pulse /\ i + 1 <= j
    BY <1>2, <1>4, <1>6, <1>7, <1>9, <1>12
  <2>2. i \in Int /\ j \in Int /\ j - 1 \in Pulse /\ i <= j - 1 /\ j - 1 < j
    BY <1>3, <2>1, SizeAssumption DEF Pulse
  <2>3. Near(j - 1)
    BY <1>9, <2>2 DEF Apart
  <2> QED
    BY <2>1, <2>2, <2>3, OtherNotAhead
<1> QED
  BY <1>2, <1>10, <1>11, <1>12

\* Another packet's time does not make the printed one 0.
LEMMA OtherPending ==
  ASSUME OrderInv, PendingOK, NEW c \in Capture, ReceiveOther(c)
  PROVE  PendingOK'
<1>1. TypeOK /\ AirOK /\ LossShort /\ Schedule
  BY TypeAir DEF OrderInv, IInv
<1>2. /\ Decoding(c) /\ foreign' = TRUE /\ UNCHANGED <<air, next, heard>>
      /\ \E pos \in OtherTimes : /\ BlockOf(pos) = blk /\ pos > lastpos[c]
                                 /\ next[c] \in Pulse => pos < Position(c, next[c])
                                 /\ PrintModulation(pos)
  BY DEF ReceiveOther
<1>3. PICK pos \in OtherTimes : /\ BlockOf(pos) = blk /\ pos > lastpos[c]
                                /\ next[c] \in Pulse => pos < Position(c, next[c])
                                /\ PrintModulation(pos)
  BY <1>2
<1>4. pos \in Nat /\ 0 < pos
  <2>1. pos \in Nat /\ lastpos[c] \in Nat
    BY <1>1, AirAssumption DEF TypeOK
  <2> QED
    BY <1>3, <2>1
<1>5. /\ \A b, j : Position(b, j)' = Position(b, j)
      /\ \A j : Near(j)' = Near(j) /\ Apart(j)' = Apart(j)
  BY <1>2, BlocksFixed DEF Apart
<1> SUFFICES ASSUME NEW b \in Capture, NEW j \in heard[b], Pending(b, j), Position(b, j) > 0
             PROVE  printed' > 0
  BY <1>2, <1>5 DEF PendingOK, Pending
<1>6. printed > 0 /\ printed \in Nat
  BY <1>1 DEF PendingOK, TypeOK
<1>7. j \in Pulse /\ j \in Int
  BY <1>1 DEF TypeOK, Pulse
<1> DEFINE d == Other(b)
<1>8. /\ d \in Capture /\ next[d] <= j /\ (c = b \/ c = d)
      /\ Position(d, j) >= 0 /\ Position(d, j) < HalfRange /\ Position(d, j) \in Int
  <2>1. d \in Capture /\ (c = b \/ c = d)
    BY DEF Other, Capture
  <2> QED
    BY <1>1, <1>7, <2>1, SizeAssumption, PulseTypes DEF Pending
<1>9. next[d] \in 1 .. Pulses + 1 /\ next[d] \in Int
  BY <1>1, <1>8 DEF TypeOK
<1>10. pos < 2 * HalfRange
  <2>1. CASE c = b
    <3>1. blk \in Nat /\ Done(d) \in Nat /\ Done(d) >= blk
      <4>1. blk \in Nat /\ (Done(d) = blk \/ Done(d) = blk + 1)
        BY <1>1, <1>2, <2>1, HalvesAre DEF Capture
      <4> QED
        BY <4>1
    <3>2. Done(d) = 0 \/ BlockOf(Position(d, j)) >= Done(d)
      <4>1. j >= next[d]
        BY <1>7, <1>8, <1>9
      <4> QED
        BY <1>1, <1>7, <1>8, <4>1 DEF Schedule
    <3>3. BlockOf(Position(d, j)) \in Int /\ BlockOf(Position(d, j)) >= 0
      BY <1>8, BlockIs
    <3>4. BlockOf(pos) <= BlockOf(Position(d, j))
      BY <1>3, <3>1, <3>2, <3>3
    <3>5. pos < Position(d, j) + Block
      BY <1>4, <1>8, <3>4, BlockIs
    <3> QED
      BY <1>4, <1>8, <3>5, SizeAssumption
  <2>2. CASE c = d
    <3>1. next[d] \in Pulse
      BY <1>7, <1>8, <1>9, SizeAssumption DEF Pulse
    <3>2. Position(d, next[d]) <= Position(d, j) /\ Position(d, next[d]) \in Int
      BY <1>1, <1>7, <1>8, <3>1, PositionGrows, PulseTypes
    <3> QED
      BY <1>3, <1>4, <1>8, <2>2, <3>1, <3>2, SizeAssumption
  <2> QED
    BY <1>8, <2>1, <2>2
<1>11. Timenow(pos) # 0
  BY <1>4, <1>10, TimenowSame
<1>12. Timenow(pos) \in Int
  <2>1. pos \in Int
    BY <1>4
  <2> QED
    BY <2>1, TimenowIs
<1> QED
  BY <1>3, <1>6, <1>11, <1>12 DEF PrintModulation

\* Every step keeps what is known of the pulses that are pending.
LEMMA PendingNext ==
  ASSUME OrderInv, PendingOK, [Decode]_vars
  PROVE  PendingOK'
<1>1. TypeOK
  BY DEF OrderInv, IInv
<1>2. ASSUME UNCHANGED <<air, printed, heard, foreign>>,
             \A b \in Capture : next[b] \in Int /\ next'[b] \in Int /\ next[b] <= next'[b]
      PROVE  PendingOK'
  <2>1. /\ \A b, j : Position(b, j)' = Position(b, j)
        /\ \A j : Near(j)' = Near(j) /\ Apart(j)' = Apart(j)
    BY <1>2, BlocksFixed DEF Apart
  <2>2. ASSUME NEW b \in Capture, NEW j \in heard[b], Pending(b, j)' PROVE Pending(b, j)
    <3>1. j \in Int /\ Other(b) \in Capture
      BY <1>1 DEF TypeOK, Pulse, Other, Capture
    <3>2. next'[Other(b)] <= j
      BY <2>2 DEF Pending
    <3>3. next[Other(b)] <= j
      BY <1>2, <3>1, <3>2
    <3> QED
      BY <2>1, <2>2, <3>3 DEF Pending
  <2> QED
    BY <1>2, <2>1, <2>2 DEF PendingOK
<1>3. ASSUME NEW c \in Capture, ReceivePulse(c) PROVE PendingOK'
  BY <1>3, ReceivePending
<1>4. ASSUME NEW c \in Capture, MissPulse(c) PROVE PendingOK'
  <2>1. /\ UNCHANGED <<air, printed, heard, foreign>>
        /\ next' = [next EXCEPT ![c] = next[c] + 1]
    BY <1>4 DEF MissPulse
  <2>2. \A b \in Capture : next[b] \in Int /\ next'[b] = IF b = c THEN next[c] + 1 ELSE next[b]
    BY <1>1, <2>1 DEF TypeOK
  <2> QED
    BY <1>2, <2>1, <2>2
<1>5. ASSUME NEW c \in Capture, ReceiveOther(c) PROVE PendingOK'
  BY <1>5, OtherPending
<1>6. ASSUME NEW c \in Capture, EndHalf(c) PROVE PendingOK'
  <2>1. UNCHANGED <<air, next, printed, heard, foreign>>
    BY <1>6 DEF EndHalf
  <2> QED
    BY <1>1, <1>2, <2>1 DEF TypeOK
<1>7. CASE UNCHANGED vars
  <2>1. UNCHANGED <<air, next, printed, heard, foreign>>
    BY <1>7 DEF vars
  <2> QED
    BY <1>1, <1>2, <2>1 DEF TypeOK
<1> QED
  BY <1>3, <1>4, <1>5, <1>6, <1>7 DEF Decode

-----------------------------------------------------------------------------
(***************************************************************************)
(* The entries of the log.                                                 *)
(***************************************************************************)
\* The pulses of an entry have been received, and one of them at least is
\* later than in the entry before, and neither earlier.
LogOrder ==
  /\ \A k \in 1 .. Len(log) : log[k].lo \in heard["LO"] /\ log[k].hi \in heard["HI"]
  /\ \A k, l \in 1 .. Len(log) : k < l =>
       /\ log[k].lo <= log[l].lo /\ log[k].hi <= log[l].hi
       /\ log[k].lo < log[l].lo \/ log[k].hi < log[l].hi

\* The pulse of an entry in capture c.
PulseOf(c, e) == IF c = "LO" THEN e.lo ELSE e.hi

\* An entry is made of the latest pulses of the two captures.
LEMMA LogAfter ==
  ASSUME IInv, NEW c \in Capture, ReceivePulse(c)
  PROVE  /\ Len(log) \in Nat
         /\ ~(syncsn[Other(c)] = Sn(next[c]) /\ printed > 0) => log' = log
         /\ syncsn[Other(c)] = Sn(next[c]) /\ printed > 0 =>
              /\ Len(log') = Len(log) + 1
              /\ \A k \in 1 .. Len(log) : log'[k] = log[k]
              /\ log'[Len(log) + 1].ts = printed
              /\ \A b \in Capture :
                   /\ PulseOf(b, log'[Len(log) + 1]) \in heard'[b]
                   /\ \A j \in heard'[b] : j <= PulseOf(b, log'[Len(log) + 1])
              /\ PulseOf(c, log'[Len(log) + 1]) = next[c]
<1> DEFINE e == [ts |-> printed, delay |-> delay',
                 lo |-> Latest(heard'["LO"]), hi |-> Latest(heard'["HI"])]
           d == Other(c)
<1>1. TypeOK /\ CountersOK /\ AirOK /\ Len(log) \in Nat /\ log \in Seq(Entry) /\ printed \in Nat
  <2>1. TypeOK /\ CountersOK /\ AirOK
    BY TypeAir DEF IInv
  <2>2. log \in Seq(Entry) /\ printed \in Nat
    BY <2>1 DEF TypeOK
  <2> QED
    BY <2>1, <2>2, LenProperties
<1>2. Calibrate(c, next[c]) /\ next[c] \in Pulse
  BY DEF ReceivePulse
<1>3. ~(syncsn[d] = Sn(next[c]) /\ printed > 0) => log' = log
  BY <1>2 DEF Calibrate, LogDelay
<1>4. ASSUME syncsn[d] = Sn(next[c]), printed > 0
      PROVE  /\ Len(log') = Len(log) + 1
             /\ \A k \in 1 .. Len(log) : log'[k] = log[k]
             /\ log'[Len(log) + 1].ts = printed
             /\ \A b \in Capture :
                   /\ PulseOf(b, log'[Len(log) + 1]) \in heard'[b]
                   /\ \A j \in heard'[b] : j <= PulseOf(b, log'[Len(log) + 1])
             /\ PulseOf(c, log'[Len(log) + 1]) = next[c]
  <2>1. log' = Append(log, e)
    BY <1>2, <1>4 DEF Calibrate, LogDelay
  <2>2. e \in Entry
    BY <1>1, <1>4, DelayMatches
  <2>3. e.ts = printed /\ \A b \in Capture : PulseOf(b, e) = Latest(heard'[b])
    BY DEF PulseOf, Capture
  <2> HIDE DEF e
  <2>4. /\ Len(log') = Len(log) + 1
        /\ \A k \in 1 .. Len(log) : log'[k] = log[k]
        /\ log'[Len(log) + 1] = e
    BY <1>1, <2>1, <2>2, AppendProperties
  <2>5. /\ Latest(heard'[c]) = next[c] /\ next[c] \in heard'[c]
        /\ \A j \in heard'[c] : j <= next[c]
        /\ heard'[d] = heard[d]
    BY PulseIsLatest
  <2>6. d \in Capture /\ \A b \in Capture : b = c \/ b = d
    BY DEF Other, Capture
  <2>7. heard[d] # {}
    <3>1. Sn(next[c]) \in 0 .. Pulses /\ Pulses \in Nat
      BY <1>1, <1>2, PulseTypes, SizeAssumption
    <3>2. Sn(next[c]) # -1
      BY <3>1
    <3> QED
      BY <1>1, <1>4, <2>6, <3>2 DEF CountersOK
  <2>8. PICK m \in Pulse : m \in heard[d] /\ \A j \in heard[d] : j <= m
    BY <1>1, <2>6, <2>7 DEF CountersOK, LastOf
  <2>9. Latest(heard'[d]) = m
    <3>1. heard[d] \in SUBSET Pulse
      BY <1>1, <2>6 DEF TypeOK
    <3> QED
      BY <2>5, <2>8, <3>1, LatestIs
  <2>10. \A b \in Capture : /\ Latest(heard'[b]) \in heard'[b]
                            /\ \A j \in heard'[b] : j <= Latest(heard'[b])
    BY <2>5, <2>6, <2>8, <2>9
  <2> QED
    BY <2>3, <2>4, <2>5, <2>10
<1> QED
  BY <1>1, <1>3, <1>4

\* A pulse that the second capture receives when it may: the other's latest pulse
\* is the same, and the last time printed is the other's.
LEMMA CommonPulse ==
  ASSUME OrderInv, PendingOK, NEW c \in Capture, ReceivePulse(c),
         next[c] \in heard[Other(c)], Apart(next[c]),
         \A b \in Capture : Position(b, next[c]) < HalfRange
  PROVE  /\ syncsn[Other(c)] = Sn(next[c])
         /\ ~foreign => printed = Position(Other(c), next[c])
         /\ Position(Other(c), next[c]) > 0 => printed > 0
         /\ \A j \in heard[Other(c)] : j <= next[c]
<1> DEFINE d == Other(c)
           i == next[c]
<1>1. TypeOK /\ AirOK /\ LossShort /\ Schedule /\ CountersOK
  BY TypeAir DEF OrderInv, IInv
<1>2. d \in Capture /\ Other(d) = c /\ i \in Pulse /\ i \in Int
  BY DEF Other, Capture, Pulse, ReceivePulse
<1>3. heard[d] \subseteq Pulse /\ \A j \in Pulse : j \in Int
  <2>1. \A j \in Pulse : j \in Int
    BY DEF Pulse
  <2> QED
    BY <1>1, <1>2, <2>1 DEF TypeOK
<1>4. \A j \in heard[d] : j <= i
  <2> SUFFICES ASSUME NEW j \in heard[d], i < j PROVE FALSE
    BY <1>2, <1>3
  <2>1. Near(i)
    BY DEF Apart
  <2> QED
    BY <1>2, <2>1, OtherNotAhead
<1>5. syncsn[d] = Sn(i)
  <2>1. PICK m \in Pulse : LastOf(d, m)
    BY <1>1, <1>2 DEF CountersOK
  <2>2. m = i
    BY <1>2, <1>3, <1>4, <2>1 DEF LastOf
  <2> QED
    BY <2>1, <2>2 DEF LastOf
<1>6. Pending(d, i)
  <2>1. Position(c, i) \in 0 .. HalfRange - 1
    <3>1. Position(c, i) \in Nat
      BY <1>1, BlockNow
    <3> QED
      BY <3>1, SizeAssumption
  <2> QED
    BY <1>2, <2>1 DEF Pending
<1> QED
  BY <1>2, <1>4, <1>5, <1>6 DEF PendingOK

LogInv == LogOrder /\ CommonPulseLogged /\ LogTimeIsFirst

\* A step that receives no pulse leaves the log to be what it was.
LEMMA OthersKeepLog ==
  ASSUME LogInv, UNCHANGED <<air, log, heard>>, foreign => foreign'
  PROVE  LogInv'
<1>1. /\ \A b, j : Position(b, j)' = Position(b, j)
      /\ \A b, j : BlockOf(Position(b, j))' = BlockOf(Position(b, j))
      /\ \A j : Near(j)' = Near(j)
  BY BlocksFixed
<1>2. LogOrder' /\ CommonPulseLogged'
  BY <1>1 DEF LogInv, LogOrder, CommonPulseLogged
<1>3. LogTimeIsFirst'
  BY <1>1 DEF LogInv, LogTimeIsFirst
<1> QED
  BY <1>2, <1>3 DEF LogInv

\* The entry that a reception adds is later than the ones before.
LEMMA ReceiveOrder ==
  ASSUME OrderInv, LogInv, NEW c \in Capture, ReceivePulse(c)
  PROVE  LogOrder'
<1> DEFINE n == Len(log) + 1
           x == log'[n]
<1>1. IInv /\ TypeOK /\ CountersOK /\ LogOrder /\ Len(log) \in Nat
  BY LogAfter DEF OrderInv, IInv, LogInv
<1>2. \A b \in Capture : heard[b] \subseteq heard'[b]
  <2>1. \A b \in Capture : b = c \/ b = Other(c)
    BY DEF Other, Capture
  <2> QED
    BY <1>1, <2>1, PulseIsLatest
<1>3. \A k \in 1 .. Len(log) : log[k].lo \in heard'["LO"] /\ log[k].hi \in heard'["HI"]
  BY <1>1, <1>2 DEF LogOrder, Capture
<1>4. CASE log' = log
  BY <1>1, <1>3, <1>4 DEF LogOrder
<1>5. CASE syncsn[Other(c)] = Sn(next[c]) /\ printed > 0
  <2>1. /\ Len(log') = n
        /\ \A k \in 1 .. Len(log) : log'[k] = log[k]
        /\ \A b \in Capture : PulseOf(b, x) \in heard'[b] /\ \A j \in heard'[b] : j <= PulseOf(b, x)
        /\ PulseOf(c, x) = next[c]
    BY <1>1, <1>5, LogAfter
  <2>2. /\ x.lo \in heard'["LO"] /\ \A j \in heard'["LO"] : j <= x.lo
        /\ x.hi \in heard'["HI"] /\ \A j \in heard'["HI"] : j <= x.hi
    BY <2>1 DEF PulseOf, Capture
  <2>3. \A k \in 1 .. Len(log) : log[k].lo < x.lo \/ log[k].hi < x.hi
    <3> SUFFICES ASSUME NEW k \in 1 .. Len(log) PROVE log[k].lo < x.lo \/ log[k].hi < x.hi
      OBVIOUS
    <3>1. PulseOf(c, log[k]) \in heard[c]
      BY <1>1 DEF LogOrder, PulseOf, Capture
    <3>2. PulseOf(c, log[k]) < next[c]
      BY <1>1, <3>1 DEF CountersOK
    <3> QED
      BY <2>1, <3>2 DEF PulseOf, Capture
  <2> HIDE DEF x
  <2>4. \A k \in 1 .. n : log'[k].lo \in heard'["LO"] /\ log'[k].hi \in heard'["HI"]
    <3>1. \A k \in 1 .. n : k \in 1 .. Len(log) \/ k = n
      BY <1>1
    <3> QED
      BY <1>3, <2>1, <2>2, <3>1 DEF x
  <2>5. ASSUME NEW k \in 1 .. n, NEW l \in 1 .. n, k < l
        PROVE  /\ log'[k].lo <= log'[l].lo /\ log'[k].hi <= log'[l].hi
               /\ log'[k].lo < log'[l].lo \/ log'[k].hi < log'[l].hi
    <3>1. k \in 1 .. Len(log)
      BY <1>1, <2>5
    <3>2. CASE l \in 1 .. Len(log)
      BY <1>1, <2>1, <2>5, <3>1, <3>2 DEF LogOrder
    <3>3. CASE l = n
      BY <1>3, <2>1, <2>2, <2>3, <3>1, <3>3 DEF x
    <3> QED
      BY <1>1, <3>2, <3>3
  <2> QED
    BY <2>1, <2>4, <2>5 DEF LogOrder
<1> QED
  BY <1>1, <1>4, <1>5, LogAfter

\* A pulse that the second capture receives is logged.
LEMMA ReceiveCommon ==
  ASSUME OrderInv, PendingOK, LogInv, NEW c \in Capture, ReceivePulse(c)
  PROVE  CommonPulseLogged'
<1> DEFINE d == Other(c)
           n == Len(log) + 1
<1>1. IInv /\ TypeOK /\ CommonPulseLogged /\ Len(log) \in Nat
  BY LogAfter DEF OrderInv, IInv, LogInv
<1>2. /\ \A b, j : Position(b, j)' = Position(b, j)
      /\ \A j : Near(j)' = Near(j)
  BY BlocksFixed DEF ReceivePulse
<1>3. /\ \A k \in 1 .. Len(log) : log'[k] = log[k]
      /\ Len(log') \in Int /\ Len(log') >= Len(log)
  BY <1>1, LogAfter
<1>4. d \in Capture /\ heard'[c] = heard[c] \cup {next[c]} /\ heard'[d] = heard[d]
  BY <1>1, PulseIsLatest DEF Other, Capture
<1> SUFFICES ASSUME NEW i \in heard'["LO"] \cap heard'["HI"], Apart(i),
                    \A b \in Capture : Position(b, i) \in 1 .. HalfRange - 1
             PROVE  \E k \in 1 .. Len(log') : log'[k].lo = i /\ log'[k].hi = i
  BY <1>2 DEF CommonPulseLogged, Apart
<1>5. CASE i \in heard["LO"] \cap heard["HI"]
  <2>1. PICK k \in 1 .. Len(log) : log[k].lo = i /\ log[k].hi = i
    BY <1>1, <1>5 DEF CommonPulseLogged, Apart
  <2> QED
    BY <1>1, <1>3, <2>1
<1>6. CASE i = next[c] /\ i \in heard[d]
  <2>1. \A b \in Capture : Position(b, i) < HalfRange /\ Position(b, i) > 0
    <3> TAKE b \in Capture
    <3>1. Position(b, i) \in 1 .. HalfRange - 1
      OBVIOUS
    <3> QED
      BY <3>1, SizeAssumption
  <2>2. syncsn[d] = Sn(next[c]) /\ printed > 0
    BY <1>4, <1>6, <2>1, CommonPulse
  <2>3. \A j \in heard[d] : j <= i
    BY <1>6, <2>1, CommonPulse
  <2> DEFINE x == log'[n]
  <2>4. /\ Len(log') = n /\ PulseOf(c, x) = i
        /\ PulseOf(d, x) \in heard[d] /\ \A j \in heard[d] : j <= PulseOf(d, x)
    BY <1>1, <1>4, <1>6, <2>2, LogAfter
  <2>5. PulseOf(d, x) = i
    <3>1. heard[d] \subseteq Pulse /\ \A j \in Pulse : j \in Int
      <4>1. \A j \in Pulse : j \in Int
        BY DEF Pulse
      <4> QED
        BY <1>1, <1>4, <4>1 DEF TypeOK
    <3> QED
      BY <1>6, <2>3, <2>4, <3>1
  <2>6. x.lo = i /\ x.hi = i
    BY <2>4, <2>5 DEF PulseOf, Other, Capture
  <2>7. n \in 1 .. Len(log')
    BY <1>1, <2>4
  <2> QED
    BY <2>6, <2>7
<1> QED
  BY <1>4, <1>5, <1>6 DEF Other, Capture

\* The time that is logged with a reception is that of the capture before.
LEMMA ReceiveFirst ==
  ASSUME OrderInv, PendingOK, LogInv, NEW c \in Capture, ReceivePulse(c)
  PROVE  LogTimeIsFirst'
<1> DEFINE d == Other(c)
           n == Len(log) + 1
           x == log'[n]
           FirstTime(e) ==
             LET lo == Position("LO", e.lo)
                 hi == Position("HI", e.lo)
             IN  /\ ~foreign /\ e.hi = e.lo /\ lo < HalfRange /\ hi < HalfRange
                 /\ Near(e.lo) /\ (e.lo - 1 \in Pulse => Near(e.lo - 1))
                 => e.ts = IF BlockOf(lo) <= BlockOf(hi) THEN lo ELSE hi
<1>1. IInv /\ TypeOK /\ AirOK /\ LossShort /\ Schedule /\ CountersOK /\ Len(log) \in Nat
  BY LogAfter, TypeAir DEF OrderInv, IInv
<1>2. /\ \A b, j : Position(b, j)' = Position(b, j)
      /\ \A b, j : BlockOf(Position(b, j))' = BlockOf(Position(b, j))
      /\ \A j : Near(j)' = Near(j)
      /\ foreign' = foreign
  BY BlocksFixed DEF ReceivePulse
<1>3. \A k \in 1 .. Len(log) : FirstTime(log[k])
  BY DEF LogInv, LogTimeIsFirst
<1> SUFFICES \A k \in 1 .. Len(log') : FirstTime(log'[k])
  BY <1>2 DEF LogTimeIsFirst
<1>4. CASE log' = log
  BY <1>3, <1>4
<1>5. CASE syncsn[d] = Sn(next[c]) /\ printed > 0
  <2>1. /\ Len(log') = n /\ x.ts = printed
        /\ \A k \in 1 .. Len(log) : log'[k] = log[k]
        /\ \A b \in Capture : PulseOf(b, x) \in heard'[b]
        /\ PulseOf(c, x) = next[c]
    BY <1>1, <1>5, LogAfter
  <2>2. FirstTime(x)
    <3> SUFFICES ASSUME ~foreign, x.hi = x.lo, Apart(x.lo),
                        Position("LO", x.lo) < HalfRange, Position("HI", x.lo) < HalfRange
                 PROVE  printed = IF BlockOf(Position("LO", x.lo)) <= BlockOf(Position("HI", x.lo))
                                  THEN Position("LO", x.lo) ELSE Position("HI", x.lo)
      BY <2>1 DEF Apart
    <3>1. d \in Capture /\ heard'[d] = heard[d]
      BY <1>1, PulseIsLatest DEF Other, Capture
    <3>2. x.lo = next[c] /\ next[c] \in heard[d]
      BY <2>1, <3>1 DEF PulseOf, Other, Capture
    <3>3. printed = Position(d, next[c])
      BY <3>2, CommonPulse DEF Capture
    <3>4. BlockOf(Position(c, next[c])) = blk /\ blk \in Nat
      BY <1>1, BlockNow, HalvesAre DEF ReceivePulse
    <3>5. BlockOf(Position(d, next[c])) < Started(d) /\ BlockOf(Position(d, next[c])) \in Int
      <4>1. next[c] \in Pulse /\ next[c] < next[d]
        BY <1>1, <3>1, <3>2 DEF CountersOK, ReceivePulse
      <4> QED
        BY <1>1, <3>1, <4>1, BlocksGrow DEF Schedule, Pulse
    <3>6. /\ c = "LO" => d = "HI" /\ Started(d) = blk
          /\ c = "HI" => d = "LO" /\ Started(d) = blk + 1
      BY <1>1, HalvesAre DEF ReceivePulse
    <3>7. CASE c = "LO"
      BY <3>2, <3>3, <3>4, <3>5, <3>6, <3>7
    <3>8. CASE c = "HI"
      BY <3>2, <3>3, <3>4, <3>5, <3>6, <3>8
    <3> QED
      BY <3>7, <3>8 DEF Capture
  <2>3. \A k \in 1 .. n : k \in 1 .. Len(log) \/ k = n
    BY <1>1
  <2> HIDE DEF FirstTime
  <2> QED
    BY <1>3, <2>1, <2>2, <2>3
<1> QED
  BY <1>1, <1>4, <1>5, LogAfter

\* Nothing is pending or logged when the decoder starts.
LEMMA OrderInit == Init => PendingOK /\ LogInv
<1> SUFFICES ASSUME Init PROVE PendingOK /\ LogInv
  OBVIOUS
<1>1. log = <<>> /\ \A c \in Capture : heard[c] = {}
  BY DEF Init
<1>2. \A k \in 1 .. Len(log) : FALSE
  BY <1>1
<1>3. heard["LO"] = {}
  BY <1>1 DEF Capture
<1> QED
  BY <1>1, <1>2, <1>3 DEF PendingOK, LogInv, LogOrder, CommonPulseLogged, LogTimeIsFirst

\* The entries of the log stay as they are.
LEMMA LogNext ==
  ASSUME OrderInv, PendingOK, LogInv, [Decode]_vars
  PROVE  LogInv'
<1>1. ASSUME NEW c \in Capture, ReceivePulse(c) PROVE LogInv'
  BY <1>1, ReceiveOrder, ReceiveCommon, ReceiveFirst DEF LogInv
<1>2. ASSUME NEW c \in Capture, MissPulse(c) PROVE LogInv'
  BY <1>2, OthersKeepLog DEF MissPulse
<1>3. ASSUME NEW c \in Capture, ReceiveOther(c) PROVE LogInv'
  BY <1>3, OthersKeepLog DEF ReceiveOther
<1>4. ASSUME NEW c \in Capture, EndHalf(c) PROVE LogInv'
  BY <1>4, OthersKeepLog DEF EndHalf
<1>5. CASE UNCHANGED vars
  BY <1>5, OthersKeepLog DEF vars
<1> QED
  BY <1>1, <1>2, <1>3, <1>4, <1>5 DEF Decode

\* The two files are decoded in step, and the log follows the pulses.
THEOREM DecodesInStep == Spec => [](OrderInv /\ PendingOK /\ LogInv)
<1>1. Init => OrderInv /\ PendingOK /\ LogInv
  BY InitInv, ScheduleInit, OrderInit DEF OrderInv
<1>2. OrderInv /\ PendingOK /\ LogInv /\ [Decode]_vars => (OrderInv /\ PendingOK /\ LogInv)'
  BY NextInv, ScheduleNext, PendingNext, LogNext DEF OrderInv
<1> QED
  BY <1>1, <1>2, PTL DEF Spec

(***************************************************************************)
(* A pulse that both captures received is logged, for every air, whatever  *)
(* else is missed, lost or received, if they are less than a pulse apart.  *)
(***************************************************************************)
THEOREM CommonPulsesAreLogged == Spec => []CommonPulseLogged
  BY DecodesInStep, PTL DEF LogInv

(***************************************************************************)
(* The time logged with a delay is that of the capture the pulse comes     *)
(* first in.                                                               *)
(***************************************************************************)
THEOREM LoggedTimeIsFirst == Spec => []LogTimeIsFirst
  BY DecodesInStep, PTL DEF LogInv


-----------------------------------------------------------------------------
(***************************************************************************)
(* The delay that getdelay.pl prints.                                      *)
(***************************************************************************)
\* A set of natural numbers that is not empty has a least element.
LEMMA Minimum ==
  ASSUME NEW S \in SUBSET Nat, S # {}
  PROVE  \E n \in S : \A m \in S : n <= m
<1> DEFINE R == {ss \in Nat \X Nat : ss[1] < ss[2]}
<1>1. IsWellFoundedOn(R, Nat)
  BY NatLessThanWellFounded DEF OpToRel
<1>2. \A m, n \in Nat : <<m, n>> \in R <=> m < n
  OBVIOUS
<1> HIDE DEF R
<1>3. PICK n \in S : \A m \in S : <<m, n>> \notin R
  BY <1>1, WFMin
<1>4. \A m \in S : ~(m < n)
  BY <1>2, <1>3
<1> QED
  BY <1>4

\* The first entry of a set of log entries is one of them, and none is before it.
LEMMA FirstIs ==
  ASSUME NEW S \in SUBSET Nat, S # {}
  PROVE  First(S) \in S /\ \A j \in S : First(S) <= j
<1>1. \E k \in S : \A j \in S : k <= j
  BY Minimum
<1> QED
  BY <1>1 DEF First

\* The delay is 0 or one of the log's.
LEMMA GetDelayIs ==
  ASSUME TypeOK, NEW t
  PROVE  GetDelay(t) = 0 \/ \E k \in 1 .. Len(log) : GetDelay(t) = log[k].delay
<1>1. Len(log) \in Nat
  BY DEF TypeOK
<1>2. CASE NotEarlier(t) = {}
  BY <1>1, <1>2 DEF GetDelay, DelayBefore
<1>3. CASE NotEarlier(t) # {}
  <2> DEFINE k == First(NotEarlier(t))
  <2>1. k \in 1 .. Len(log)
    <3>1. NotEarlier(t) \in SUBSET Nat /\ NotEarlier(t) \subseteq 1 .. Len(log)
      BY <1>1 DEF NotEarlier
    <3> QED
      BY <1>3, <3>1, FirstIs
  <2>2. GetDelay(t) = IF DelayBefore(k - 1) = 0 THEN log[k].delay ELSE log[k - 1].delay
    BY <1>3 DEF GetDelay
  <2> HIDE DEF k
  <2>3. k = 1 => DelayBefore(k - 1) = 0
    BY DEF DelayBefore
  <2>4. k # 1 => k - 1 \in 1 .. Len(log)
    BY <1>1, <2>1
  <2> QED
    BY <2>1, <2>2, <2>3, <2>4
<1> QED
  BY <1>2, <1>3

-----------------------------------------------------------------------------
(***************************************************************************)
(* The synchronisation inside the processing of a trace.                   *)
(***************************************************************************)
\* Every step either is a step of the synchronisation or leaves it alone.
LEMMA ScanStep == [ScanNext]_allvars => [Decode]_vars
<1> SUFFICES ASSUME [ScanNext]_allvars PROVE [Decode]_vars
  OBVIOUS
<1>1. CASE Calibration
  BY <1>1 DEF Calibration
<1>2. CASE Scan
  BY <1>2 DEF Scan, LogComplete, StartRun, NotFound, Crash, Found
<1>3. CASE UNCHANGED allvars
  BY <1>3 DEF allvars
<1> QED
  BY <1>1, <1>2, <1>3 DEF ScanNext

\* Processing a trace implements the synchronisation of the two captures.
THEOREM ScanSynchronises == ScanSpec => Spec
<1>1. ScanInit => Init
  BY DEF ScanInit
<1> QED
  BY <1>1, ScanStep, PTL DEF ScanSpec, Spec

(***************************************************************************)
(* What is proved of the log holds of the one that the script reads: every *)
(* delay is the true one of a common pulse, every common pulse is in it,   *)
(* and its time is that of the capture it comes first in.                  *)
(***************************************************************************)
THEOREM ScanLogIsRight ==
  ScanSpec => []DelayIsTrue /\ []CommonPulseLogged /\ []LogTimeIsFirst
  BY ScanSynchronises, DelaysAreTrue, CommonPulsesAreLogged, LoggedTimeIsFirst, PTL

-----------------------------------------------------------------------------
(***************************************************************************)
(* Where the runs of the decoder start.                                    *)
(***************************************************************************)
ScriptTypeOK ==
  /\ phase \in {"decode", "script", "scan", "done"}
  /\ timestart \in Nat /\ timestart + RingBuffer <= FileEnd
  /\ chosen \in Int
  /\ exit \in {"none", "quit", "aborted"}

ChosenOK == chosen = 0 \/ \E k \in 1 .. Len(log) : chosen = log[k].delay

\* The synchronisation is over when the script runs, and the log is complete.
PhaseOK == /\ phase = "decode" => chosen = 0
           /\ exit # "none" => phase = "done"

ScanInv == ScriptTypeOK /\ ChosenOK /\ PhaseOK /\ RunsHaveData

\* The trace is at least a ring buffer long.
LEMMA FileEndIs == FileEnd \in Nat /\ RingBuffer <= FileEnd
<1>1. Blocks * Block \in Nat
  BY SizeAssumption
<1> QED
  BY <1>1, TraceAssumption DEF FileEnd

\* Nothing is skipped in a file but the delay.
LEMMA StartPosIs ==
  ASSUME ScriptTypeOK, NEW c \in Capture
  PROVE  /\ StartPos(c) \in Nat /\ StartPos(c) >= timestart
         /\ StartPos(c) <= timestart + chosen \/ StartPos(c) <= timestart - chosen
            \/ StartPos(c) = timestart
  BY DEF StartPos, ScriptTypeOK

\* Delays that leave a block of the ring buffer let both files be read.
LEMMA ShortDelayReads ==
  ASSUME ScriptTypeOK, chosen <= RingBuffer - Block, Block - RingBuffer <= chosen
  PROVE  ReadsABlock
<1>1. \A c \in Capture : Unread(c) \in Int /\ Unread(c) >= Block
  <2> TAKE c \in Capture
  <2>1. StartPos(c) <= timestart + RingBuffer - Block /\ StartPos(c) \in Nat
    BY StartPosIs, SizeAssumption, TraceAssumption DEF ScriptTypeOK
  <2> QED
    BY <2>1, FileEndIs, SizeAssumption DEF ScriptTypeOK, Unread
<1>2. \A c \in Capture : FirstRead(c) = Block
  BY <1>1, SizeAssumption DEF FirstRead
<1> QED
  BY <1>2, SizeAssumption DEF ReadsABlock, Capture

\* The script has not run when the decoder starts.
LEMMA ScanInitInv == ScanInit => ScanInv
<1> SUFFICES ASSUME ScanInit PROVE ScanInv
  OBVIOUS
<1>1. ScriptTypeOK
  BY FileEndIs, SizeAssumption DEF ScanInit, ScriptTypeOK
<1> QED
  BY <1>1 DEF ScanInit, ScanInv, ChosenOK, PhaseOK, RunsHaveData

\* The delay of a run is one of the log's, and the log does not change any more.
LEMMA StartRunInv ==
  ASSUME TypeOK, ScanInv, StartRun
  PROVE  ScanInv'
<1>1. /\ phase = "script" /\ phase' = "scan" /\ chosen' = GetDelay(timestart)
      /\ log' = log /\ timestart' = timestart /\ exit' = exit
  BY DEF StartRun, vars, decoder, air
<1>2. chosen' = 0 \/ \E k \in 1 .. Len(log) : chosen' = log[k].delay
  BY <1>1, GetDelayIs
<1>3. chosen' \in Int
  <2>1. \A k \in 1 .. Len(log) : log[k].delay \in Int
    <3>1. log \in Seq(Entry)
      BY DEF TypeOK
    <3>2. \A k \in 1 .. Len(log) : log[k] \in Entry
      BY <3>1
    <3> QED
      BY <3>2 DEF Entry
  <2> QED
    BY <1>2, <2>1
<1>4. exit = "none"
  BY <1>1 DEF ScanInv, PhaseOK
<1>5. ScriptTypeOK'
  BY <1>1, <1>3 DEF ScanInv, ScriptTypeOK, FileEnd
<1>6. ChosenOK'
  BY <1>1, <1>2 DEF ChosenOK
<1> QED
  BY <1>1, <1>4, <1>5, <1>6 DEF ScanInv, PhaseOK, RunsHaveData

\* A target that is found leaves a ring buffer of both files.
LEMMA FoundInv ==
  ASSUME ScanInv, NEW t \in FoundAfter, Found(t)
  PROVE  ScanInv'
<1>1. /\ phase = "scan" /\ phase' = "script" /\ timestart' = timestart + t
      /\ log' = log /\ chosen' = chosen /\ exit' = exit
      /\ t + RingBuffer <= Unread("LO")
  BY DEF Found, vars, decoder, air, Capture
<1>2. t \in Nat
  BY FoundAfterAssumption
<1>3. /\ StartPos("LO") \in Nat /\ StartPos("LO") >= timestart
      /\ Unread("LO") = FileEnd - StartPos("LO")
  BY StartPosIs DEF ScanInv, Capture, Unread
<1>4. ScriptTypeOK'
  BY <1>1, <1>2, <1>3, FileEndIs, SizeAssumption DEF ScanInv, ScriptTypeOK, FileEnd
<1>5. exit = "none"
  BY <1>1 DEF ScanInv, PhaseOK
<1>6. ChosenOK'
  BY <1>1 DEF ScanInv, ChosenOK
<1> QED
  BY <1>1, <1>4, <1>5, <1>6 DEF ScanInv, PhaseOK, RunsHaveData

\* A run that crashes was given a delay too large.
LEMMA CrashInv ==
  ASSUME TypeOK, ScanInv, Crash
  PROVE  ScanInv'
<1>1. /\ phase' = "done" /\ exit' = "aborted" /\ ~ReadsABlock
      /\ log' = log /\ chosen' = chosen /\ timestart' = timestart
  BY DEF Crash, vars, decoder, air
<1>2. ScriptTypeOK /\ chosen \in Int /\ RingBuffer \in Nat /\ Block \in Nat
  BY SizeAssumption DEF ScanInv, ScriptTypeOK
<1>3. chosen > RingBuffer - Block \/ chosen < Block - RingBuffer
  BY <1>1, <1>2, ShortDelayReads
<1>4. chosen # 0
  BY <1>2, <1>3, TraceAssumption
<1>5. \E k \in 1 .. Len(log) : chosen = log[k].delay
  BY <1>4 DEF ScanInv, ChosenOK
<1>6. RunsHaveData'
  BY <1>1, <1>3, <1>5 DEF RunsHaveData
<1>7. ScriptTypeOK'
  BY <1>1, <1>2 DEF ScriptTypeOK, FileEnd
<1>8. ChosenOK'
  BY <1>1, <1>5 DEF ChosenOK
<1> QED
  BY <1>1, <1>6, <1>7, <1>8 DEF ScanInv, PhaseOK

\* Every step of the processing keeps the invariant.
LEMMA ScanNextInv == TypeOK /\ ScanInv /\ [ScanNext]_allvars => ScanInv'
<1> SUFFICES ASSUME TypeOK, ScanInv, [ScanNext]_allvars PROVE ScanInv'
  OBVIOUS
<1>1. CASE Calibration
  <2>1. /\ phase = "decode" /\ phase' = phase /\ timestart' = timestart
        /\ chosen' = chosen /\ exit' = exit
    BY <1>1 DEF Calibration, scanvars
  <2>2. chosen = 0 /\ exit = "none"
    BY <2>1 DEF ScanInv, PhaseOK, ScriptTypeOK
  <2> QED
    BY <2>1, <2>2 DEF ScanInv, PhaseOK, ScriptTypeOK, ChosenOK, RunsHaveData, FileEnd
<1>2. CASE LogComplete
  <2>1. /\ phase = "decode" /\ phase' = "script" /\ timestart' = timestart
        /\ chosen' = chosen /\ exit' = exit /\ log' = log
    BY <1>2 DEF LogComplete, vars, decoder, air
  <2>2. chosen = 0 /\ exit = "none"
    BY <2>1 DEF ScanInv, PhaseOK, ScriptTypeOK
  <2> QED
    BY <2>1, <2>2 DEF ScanInv, PhaseOK, ScriptTypeOK, ChosenOK, RunsHaveData, FileEnd
<1>3. CASE StartRun
  BY <1>3, StartRunInv
<1>4. CASE NotFound
  <2>1. /\ phase' = "done" /\ exit' = "quit" /\ timestart' = timestart
        /\ chosen' = chosen /\ log' = log
    BY <1>4 DEF NotFound, vars, decoder, air
  <2> QED
    BY <2>1 DEF ScanInv, PhaseOK, ScriptTypeOK, ChosenOK, RunsHaveData, FileEnd
<1>5. CASE Crash
  BY <1>5, CrashInv
<1>6. ASSUME NEW t \in FoundAfter, Found(t) PROVE ScanInv'
  BY <1>6, FoundInv
<1>7. CASE UNCHANGED allvars
  <2>1. /\ phase' = phase /\ timestart' = timestart
        /\ chosen' = chosen /\ exit' = exit /\ log' = log
    BY <1>7 DEF allvars, scanvars, vars, decoder, air
  <2> QED
    BY <2>1 DEF ScanInv, PhaseOK, ScriptTypeOK, ChosenOK, RunsHaveData, FileEnd
<1> QED
  BY <1>1, <1>2, <1>3, <1>4, <1>5, <1>6, <1>7 DEF ScanNext, Scan

\* The decoder is started where it reads a block of both files, unless a delay
\* in the log leaves less than one.
THEOREM RunsAreGivenData == ScanSpec => []RunsHaveData
<1>1. ScanSpec => []TypeOK
  BY ScanSynchronises, TypeCorrect, PTL
<1>2. ScanInv => RunsHaveData
  BY DEF ScanInv
<1> QED
  BY <1>1, <1>2, ScanInitInv, ScanNextInv, PTL DEF ScanSpec

\* Every variable keeps its type, and TIMESTART stays inside the trace.
THEOREM ScanTypeCorrect == ScanSpec => []ScanTypeOK
<1>1. ScanSpec => []TypeOK
  BY ScanSynchronises, TypeCorrect, PTL
<1>2. TypeOK /\ ScanInv => ScanTypeOK
  BY FileEndIs, SizeAssumption DEF ScanInv, ScriptTypeOK, ScanTypeOK
<1> QED
  BY <1>1, <1>2, ScanInitInv, ScanNextInv, PTL DEF ScanSpec

-----------------------------------------------------------------------------
(***************************************************************************)
(* What the runs are aligned by.                                           *)
(***************************************************************************)
\* The delay on the air before the loss, and from the loss on.
DelayAhead == start["HI"] - start["LO"]
DelayBehind == IF loss.cap = "LO" THEN DelayAhead - loss.amount ELSE DelayAhead + loss.amount

SyncInv == OrderInv /\ PendingOK /\ LogInv

\* An entry of a clean log is of one pulse, whose position in both files is known.
LEMMA CleanEntry ==
  ASSUME SyncInv, Clean, NEW k \in 1 .. Len(log)
  PROVE  /\ log[k].lo \in Pulse /\ log[k].hi = log[k].lo /\ log[k].ts \in Nat
         /\ \A c \in Capture : Position(c, log[k].lo) \in Nat
         /\ log[k].delay = Position("LO", log[k].lo) - Position("HI", log[k].lo)
<1> DEFINE i == log[k].lo
<1>1. /\ TypeOK /\ AirOK /\ LogOK /\ Schedule /\ LogOrder
      /\ \A c \in Capture : Position(c, i) < HalfRange
      /\ ~Restarted
  BY TypeAir DEF SyncInv, OrderInv, IInv, LogInv, Clean
<1>2. i \in Pulse /\ log[k].hi \in Pulse /\ log[k].ts \in Nat
  <2>1. log[k] \in Entry
    BY <1>1, ElementOfSeq DEF TypeOK
  <2> QED
    BY <2>1 DEF Entry
<1>3. log[k].hi = i
  BY <1>1, <1>2, SnIdentifies DEF LogOK, EntryOK
<1>4. \A c \in Capture : Position(c, i) \in Nat
  <2>1. \A c \in Capture : i \in heard[c]
    BY <1>1, <1>3 DEF LogOrder, Capture
  <2> QED
    BY <1>1, <1>2, <2>1, PulseTypes DEF Schedule
<1>5. \A c \in Capture : Timenow(Position(c, i)) = Position(c, i)
  BY <1>1, <1>4, TimenowSame
<1>6. log[k].delay = Timenow(Position("LO", i)) - Timenow(Position("HI", i))
  BY <1>1, <1>3 DEF LogOK, EntryOK
<1> QED
  BY <1>2, <1>3, <1>4, <1>5, <1>6 DEF Capture

\* Its delay is that of before the loss, or that of after.
LEMMA CleanDelay ==
  ASSUME SyncInv, Clean, NEW k \in 1 .. Len(log)
  PROVE  log[k].delay = IF log[k].lo < loss.pulse THEN DelayAhead ELSE DelayBehind
<1> DEFINE i == log[k].lo
           s == i * Spacing
<1>1. AirOK /\ i \in Pulse /\ log[k].delay = Position("LO", i) - Position("HI", i)
  BY CleanEntry, TypeAir DEF SyncInv, OrderInv, IInv
<1>2. /\ i \in Int /\ s \in Int /\ start["LO"] \in Int /\ start["HI"] \in Int
      /\ loss.pulse \in Int /\ loss.amount \in Int /\ loss.cap \in {"LO", "HI"}
  BY <1>1, SizeAssumption DEF AirOK, Pulse, Capture
<1>3. /\ Position("LO", i) = s - start["LO"] - Lost("LO", i)
      /\ Position("HI", i) = s - start["HI"] - Lost("HI", i)
  BY DEF Position
<1>4. /\ i < loss.pulse => Lost("LO", i) = 0 /\ Lost("HI", i) = 0
      /\ ~(i < loss.pulse) /\ loss.cap = "LO" => Lost("LO", i) = loss.amount /\ Lost("HI", i) = 0
      /\ ~(i < loss.pulse) /\ loss.cap = "HI" => Lost("LO", i) = 0 /\ Lost("HI", i) = loss.amount
  BY <1>2 DEF Lost
<1> HIDE DEF s, i
<1>5. CASE i < loss.pulse
  <2>1. log[k].delay = start["HI"] - start["LO"]
    BY <1>1, <1>2, <1>3, <1>4, <1>5, SMTT(30)
  <2> QED
    BY <1>5, <2>1 DEF DelayAhead, i
<1>6. CASE ~(i < loss.pulse)
  <2>1. log[k].delay = IF loss.cap = "LO" THEN start["HI"] - start["LO"] - loss.amount
                       ELSE start["HI"] - start["LO"] + loss.amount
    <3>1. CASE loss.cap = "LO"
      BY <1>1, <1>2, <1>3, <1>4, <1>6, <3>1, SMTT(30)
    <3>2. CASE loss.cap = "HI"
      BY <1>1, <1>2, <1>3, <1>4, <1>6, <3>2, SMTT(30)
    <3> QED
      BY <1>2, <3>1, <3>2
  <2> QED
    BY <1>6, <2>1 DEF DelayAhead, DelayBehind, i
<1> QED
  BY <1>5, <1>6

\* Its time is the position of its pulse in one of the files.
LEMMA CleanTime ==
  ASSUME SyncInv, Clean, Together, NEW k \in 1 .. Len(log)
  PROVE  \E c \in Capture : log[k].ts = Position(c, log[k].lo)
<1> DEFINE i == log[k].lo
<1>1. i \in Pulse /\ log[k].hi = i /\ ~foreign /\ LogTimeIsFirst
      /\ \A c \in Capture : Position(c, i) < HalfRange
  BY CleanEntry DEF Clean, SyncInv, LogInv
<1>2. log[k].ts = Position("LO", i) \/ log[k].ts = Position("HI", i)
  BY <1>1 DEF LogTimeIsFirst, Together, Capture
<1> QED
  BY <1>2 DEF Capture

\* The entries are in the order of their pulses, and of their times.
LEMMA CleanOrder ==
  ASSUME SyncInv, Clean, NEW k \in 1 .. Len(log), NEW l \in 1 .. Len(log), k <= l
  PROVE  /\ log[k].lo <= log[l].lo
         /\ Together => log[k].ts <= log[l].ts
<1>1. /\ TypeOK /\ AirOK /\ LossShort /\ LogOrder
      /\ k \in Int /\ l \in Int /\ log[k].lo \in Pulse /\ log[l].lo \in Pulse
      /\ log[k].hi = log[k].lo /\ log[l].hi = log[l].lo
      /\ log[k].ts \in Nat
  BY CleanEntry, TypeAir DEF SyncInv, OrderInv, IInv, LogInv
<1>2. log[k].lo \in Int /\ log[l].lo \in Int
  BY <1>1 DEF Pulse
<1>3. CASE k = l
  BY <1>1, <1>2, <1>3
<1>4. CASE k < l
  <2>1. log[k].lo < log[l].lo
    BY <1>1, <1>2, <1>4 DEF LogOrder
  <2>2. ASSUME Together PROVE log[k].ts <= log[l].ts
    <3>1. PICK b \in Capture : log[k].ts = Position(b, log[k].lo)
      BY <2>2, CleanTime
    <3>2. PICK c \in Capture : log[l].ts = Position(c, log[l].lo)
      BY <2>2, CleanTime
    <3>3. CASE b = c
      BY <1>1, <2>1, <3>1, <3>2, <3>3, <1>2, PositionGrows
    <3>4. CASE b # c
      <4>1. c = Other(b)
        BY <3>4 DEF Other, Capture
      <4>2. log[k].lo + 1 \in Pulse /\ log[k].lo + 1 <= log[l].lo
        BY <1>1, <2>1, SizeAssumption DEF Pulse
      <4>3. BlockOf(Position(b, log[k].lo)) < BlockOf(Position(c, log[k].lo + 1))
        BY <1>1, <2>2, <4>1, <4>2 DEF Together, Near
      <4>4. /\ BlockOf(Position(c, log[k].lo + 1)) <= BlockOf(Position(c, log[l].lo))
            /\ BlockOf(Position(c, log[k].lo + 1)) \in Int
        BY <1>1, <4>2, BlocksGrow
      <4>5. Position(b, log[k].lo) \in Int /\ Position(c, log[l].lo) \in Int
        BY <1>1, PulseTypes
      <4>6. BlockOf(Position(b, log[k].lo)) \in Int /\ BlockOf(Position(c, log[l].lo)) \in Int
        BY <4>5, BlockIs
      <4>7. ~(Position(c, log[l].lo) <= Position(b, log[k].lo))
        <5>1. ~(BlockOf(Position(c, log[l].lo)) <= BlockOf(Position(b, log[k].lo)))
          BY <4>3, <4>4, <4>6
        <5> QED
          BY <4>5, <5>1, BlockIs
      <4> QED
        BY <3>1, <3>2, <4>5, <4>7
    <3> QED
      BY <3>3, <3>4
  <2> QED
    BY <1>2, <2>1, <2>2
<1> QED
  BY <1>1, <1>3, <1>4

\* The entry that getdelay.pl takes: the last before t, or the next one after it.
LEMMA GetDelayFrom ==
  ASSUME TypeOK, log # <<>>, NEW t \in Int
  PROVE  \E m \in 1 .. Len(log) :
           /\ GetDelay(t) = log[m].delay
           /\ \/ /\ log[m].ts < t
                 /\ m + 1 \in 1 .. Len(log) => t <= log[m + 1].ts
              \/ /\ t <= log[m].ts
                 /\ \A j \in 1 .. m - 1 : log[j].ts < t
                 /\ m # 1 => log[m - 1].delay = 0
<1>1. Len(log) \in Nat /\ Len(log) # 0 /\ log \in Seq(Entry)
  <2>1. log \in Seq(Entry)
    BY DEF TypeOK
  <2> QED
    BY <2>1, EmptySeq, LenProperties
<1>2. \A k \in 1 .. Len(log) : log[k].ts \in Int
  <2>1. \A k \in 1 .. Len(log) : log[k] \in Entry
    BY <1>1, ElementOfSeq
  <2> QED
    BY <2>1 DEF Entry
<1>3. CASE NotEarlier(t) = {}
  <2>1. GetDelay(t) = log[Len(log)].delay /\ Len(log) \in 1 .. Len(log)
    BY <1>1, <1>3 DEF GetDelay, DelayBefore
  <2>2. log[Len(log)].ts < t
    BY <1>2, <1>3, <2>1 DEF NotEarlier
  <2>3. ~(Len(log) + 1 \in 1 .. Len(log))
    BY <1>1
  <2> QED
    BY <2>1, <2>2, <2>3
<1>4. CASE NotEarlier(t) # {}
  <2> DEFINE f == First(NotEarlier(t))
  <2>1. f \in NotEarlier(t) /\ \A j \in NotEarlier(t) : f <= j
    <3>1. NotEarlier(t) \in SUBSET Nat
      BY <1>1 DEF NotEarlier
    <3> QED
      BY <1>4, <3>1, FirstIs
  <2>2. GetDelay(t) = IF DelayBefore(f - 1) = 0 THEN log[f].delay ELSE log[f - 1].delay
    BY <1>4 DEF GetDelay
  <2> HIDE DEF f
  <2>3. f \in 1 .. Len(log) /\ f \in Int /\ t <= log[f].ts
    BY <2>1 DEF NotEarlier
  <2>4. \A j \in 1 .. f - 1 : log[j].ts < t
    <3> SUFFICES ASSUME NEW j \in 1 .. f - 1 PROVE log[j].ts < t
      OBVIOUS
    <3>1. j \in 1 .. Len(log) /\ j \in Int /\ ~(f <= j)
      BY <1>1, <2>3
    <3>2. ~(t <= log[j].ts)
      BY <2>1, <3>1 DEF NotEarlier
    <3> QED
      BY <1>2, <3>1, <3>2
  <2>5. CASE DelayBefore(f - 1) = 0
    <3>1. f # 1 => log[f - 1].delay = 0
      BY <2>3, <2>5 DEF DelayBefore
    <3> QED
      BY <2>2, <2>3, <2>4, <2>5, <3>1
  <2>6. CASE DelayBefore(f - 1) # 0
    <3>1. f # 1 /\ f - 1 \in 1 .. Len(log) /\ f - 1 \in 1 .. f - 1 /\ (f - 1) + 1 = f
      BY <1>1, <2>3, <2>6 DEF DelayBefore
    <3>2. log[f - 1].ts < t
      BY <2>4, <3>1
    <3> QED
      BY <2>2, <2>3, <2>6, <3>1, <3>2
  <2> QED
    BY <2>5, <2>6
<1> QED
  BY <1>3, <1>4

\* The delay is skipped in one of the files.
LEMMA StartsApart ==
  ASSUME ScriptTypeOK
  PROVE  StartPos("LO") - StartPos("HI") = chosen
  BY DEF StartPos, ScriptTypeOK

\* The delay that aligns a run, on either side of the loss.
LEMMA AlignedWhen ==
  ASSUME AirOK, ScriptTypeOK,
         \/ chosen = DelayAhead /\ loss.amount = 0
         \/ chosen = DelayAhead /\ StartPos(loss.cap) < LossPos(loss.cap)
         \/ chosen = DelayBehind /\ StartPos(loss.cap) >= LossPos(loss.cap)
  PROVE  AirTime("LO", StartPos("LO")) = AirTime("HI", StartPos("HI"))
<1>1. /\ StartPos("LO") \in Int /\ StartPos("HI") \in Int
      /\ StartPos("LO") - StartPos("HI") = chosen
  BY StartPosIs, StartsApart DEF Capture
<1>2. /\ start["LO"] \in Int /\ start["HI"] \in Int /\ loss.amount \in Int
      /\ loss.pulse \in Pulse /\ loss.cap \in Capture /\ (loss.cap = "LO" \/ loss.cap = "HI")
  BY DEF AirOK, Capture
<1>3. LossPos(loss.cap) \in Int
  BY <1>2, PulseTypes DEF LossPos
<1> DEFINE x == StartPos("LO")
           y == StartPos("HI")
<1>4. CASE loss.cap = "LO"
  <2>1. /\ AirTime("LO", x) = x + start["LO"] + (IF x >= LossPos("LO") THEN loss.amount ELSE 0)
        /\ AirTime("HI", y) = y + start["HI"] + 0
    BY <1>4 DEF AirTime
  <2>2. LossPos("LO") \in Int
    BY <1>3, <1>4
  <2> HIDE DEF x, y
  <2>3. x \in Int /\ y \in Int /\ x - y = chosen
    BY <1>1 DEF x, y
  <2>4. \/ chosen = DelayAhead /\ loss.amount = 0
        \/ chosen = DelayAhead /\ x < LossPos("LO")
        \/ chosen = DelayAhead - loss.amount /\ x >= LossPos("LO")
    BY <1>4 DEF DelayBehind, x
  <2>5. AirTime("LO", x) = AirTime("HI", y)
    BY <1>2, <2>1, <2>2, <2>3, <2>4 DEF DelayAhead
  <2> QED
    BY <2>5 DEF x, y
<1>5. CASE loss.cap = "HI"
  <2>1. /\ AirTime("HI", y) = y + start["HI"] + (IF y >= LossPos("HI") THEN loss.amount ELSE 0)
        /\ AirTime("LO", x) = x + start["LO"] + 0
    BY <1>5 DEF AirTime
  <2>2. LossPos("HI") \in Int
    BY <1>3, <1>5
  <2> HIDE DEF x, y
  <2>3. x \in Int /\ y \in Int /\ x - y = chosen
    BY <1>1 DEF x, y
  <2>4. \/ chosen = DelayAhead /\ loss.amount = 0
        \/ chosen = DelayAhead /\ y < LossPos("HI")
        \/ chosen = DelayAhead + loss.amount /\ y >= LossPos("HI")
    BY <1>5 DEF DelayBehind, y
  <2>5. AirTime("LO", x) = AirTime("HI", y)
    BY <1>2, <2>1, <2>2, <2>3, <2>4 DEF DelayAhead
  <2> QED
    BY <2>5 DEF x, y
<1> QED
  BY <1>2, <1>4, <1>5

\* A run with the delay of an entry after the loss, and later than it, starts after the loss.
LEMMA PastLoss ==
  ASSUME SyncInv, Clean, Together, ScriptTypeOK, NEW k \in 1 .. Len(log),
         log[k].ts < timestart, log[k].lo >= loss.pulse, chosen = log[k].delay
  PROVE  StartPos(loss.cap) >= LossPos(loss.cap)
<1> DEFINE i == log[k].lo
           a == loss.cap
<1>1. AirOK /\ LossShort /\ i \in Pulse /\ chosen = Position("LO", i) - Position("HI", i)
  BY CleanEntry, TypeAir DEF SyncInv, OrderInv, IInv
<1>2. a \in Capture /\ loss.pulse \in Pulse /\ loss.pulse <= i
  <2>1. a \in Capture /\ loss.pulse \in Pulse
    BY <1>1 DEF AirOK
  <2> QED
    BY <1>1, <2>1 DEF Pulse
<1>3. PICK b \in Capture : log[k].ts = Position(b, i)
  BY CleanTime
<1>4. /\ Position("LO", i) \in Int /\ Position("HI", i) \in Int
      /\ Position(a, loss.pulse) \in Int
      /\ Position(a, loss.pulse) <= Position(a, i)
  BY <1>1, <1>2, PulseTypes, PositionGrows DEF Capture
<1>5. /\ StartPos("LO") \in Int /\ StartPos("LO") >= timestart
      /\ StartPos("HI") \in Int /\ StartPos("HI") >= timestart
      /\ StartPos("LO") - StartPos("HI") = chosen /\ timestart \in Int
  BY StartPosIs, StartsApart DEF Capture, ScriptTypeOK
<1>6. StartPos("LO") >= Position("LO", i) /\ StartPos("HI") >= Position("HI", i)
  <2>1. CASE b = "LO"
    BY <1>1, <1>3, <1>4, <1>5, <2>1
  <2>2. CASE b = "HI"
    BY <1>1, <1>3, <1>4, <1>5, <2>2
  <2> QED
    BY <2>1, <2>2 DEF Capture
<1>7. LossPos(a) = Position(a, loss.pulse)
  BY DEF LossPos
<1>8. CASE a = "LO"
  BY <1>4, <1>5, <1>6, <1>7, <1>8
<1>9. CASE a = "HI"
  BY <1>4, <1>5, <1>6, <1>7, <1>9
<1> QED
  BY <1>2, <1>8, <1>9 DEF Capture

\* The delay that getdelay.pl takes aligns the run.
LEMMA InvStartsAligned ==
  ASSUME SyncInv, ScriptTypeOK, phase = "scan" => chosen = GetDelay(timestart)
  PROVE  StartsAligned
<1> SUFFICES ASSUME phase = "scan", Clean, log # <<>>,
                    loss.amount = 0 \/ (Together /\ (LossKnown \/ LossAhead))
             PROVE  AirTime("LO", StartPos("LO")) = AirTime("HI", StartPos("HI"))
  BY DEF StartsAligned
<1> DEFINE t == timestart
           a == loss.cap
<1>1. TypeOK /\ AirOK /\ t \in Int
  BY TypeAir DEF SyncInv, OrderInv, IInv, ScriptTypeOK
<1>2. PICK m \in 1 .. Len(log) :
           /\ chosen = log[m].delay
           /\ \/ /\ log[m].ts < t
                 /\ m + 1 \in 1 .. Len(log) => t <= log[m + 1].ts
              \/ /\ t <= log[m].ts
                 /\ \A j \in 1 .. m - 1 : log[j].ts < t
                 /\ m # 1 => log[m - 1].delay = 0
  BY <1>1, GetDelayFrom
<1>3. /\ loss.amount \in Int /\ loss.pulse \in Int /\ a \in Capture
      /\ start["LO"] \in Int /\ start["HI"] \in Int /\ Len(log) \in Nat
  <2>1. log \in Seq(Entry)
    BY <1>1 DEF TypeOK
  <2> QED
    BY <1>1, <2>1, LenProperties DEF AirOK, Pulse, Capture
<1>4. \A k \in 1 .. Len(log) : log[k].lo \in Int /\ log[k].ts \in Int
  BY CleanEntry DEF Pulse
<1>5. CASE loss.amount = 0
  <2>1. DelayBehind = DelayAhead
    BY <1>3, <1>5 DEF DelayAhead, DelayBehind
  <2>2. chosen = DelayAhead
    BY <1>2, <2>1, CleanDelay
  <2> QED
    BY <1>1, <1>5, <2>2, AlignedWhen
<1>6. CASE Together /\ LossKnown
  <2>1. PICK k \in 1 .. Len(log) : log[k].ts < t /\ log[k].lo >= loss.pulse
    BY <1>6 DEF LossKnown, EntryBefore
  <2>2. k <= m
    <3> SUFFICES ASSUME m < k PROVE FALSE
      BY <1>3
    <3>1. m + 1 \in 1 .. Len(log) /\ m + 1 <= k
      BY <1>3
    <3>2. log[m].ts <= log[k].ts /\ log[m + 1].ts <= log[k].ts
      BY <1>3, <1>6, <3>1, CleanOrder
    <3> QED
      BY <1>1, <1>2, <1>4, <2>1, <3>1, <3>2
  <2>3. log[k].lo <= log[m].lo
    BY <2>2, CleanOrder
  <2>4. log[m].delay = DelayBehind /\ log[k].delay = DelayBehind
    BY <1>3, <1>4, <2>1, <2>3, CleanDelay
  <2>5. StartPos(a) >= LossPos(a)
    BY <1>2, <1>6, <2>1, <2>4, PastLoss
  <2> QED
    BY <1>1, <1>2, <2>4, <2>5, AlignedWhen
<1>7. CASE Together /\ LossAhead
  <2>1. StartPos(a) < LossPos(a) /\ StartPos(a) \in Int /\ LossPos(a) \in Int
    <3>1. LossPos(a) \in Int
      BY <1>1, <1>3, PulseTypes DEF LossPos, AirOK
    <3> QED
      BY <1>3, <1>7, <3>1, StartPosIs DEF LossAhead
  <2>2. \A k \in 1 .. Len(log) :
          log[k].ts < t /\ chosen = log[k].delay => log[k].lo < loss.pulse
    <3> SUFFICES ASSUME NEW k \in 1 .. Len(log), log[k].ts < t, chosen = log[k].delay,
                        log[k].lo >= loss.pulse
                 PROVE  FALSE
      BY <1>3, <1>4
    <3>1. StartPos(a) >= LossPos(a)
      BY <1>7, PastLoss
    <3> QED
      BY <2>1, <3>1
  <2>3. log[m].lo < loss.pulse
    <3>1. CASE log[m].ts < t
      BY <1>2, <2>2, <3>1
    <3>2. CASE ~(log[m].ts < t)
      <4> SUFFICES ASSUME log[m].lo >= loss.pulse PROVE FALSE
        BY <1>3, <1>4
      <4>1. PICK k \in 1 .. Len(log) : /\ log[k].lo < loss.pulse
                                       /\ log[k].ts < t => log[k].delay # 0
        BY <1>7 DEF LossAhead, EntryBefore
      <4>2. k < m
        <5> SUFFICES ASSUME m <= k PROVE FALSE
          BY <1>3
        <5>1. log[m].lo <= log[k].lo
          BY CleanOrder
        <5> QED
          BY <1>3, <1>4, <4>1, <5>1
      <4>3. /\ m # 1 /\ m - 1 \in 1 .. Len(log) /\ k <= m - 1
            /\ k \in 1 .. m - 1 /\ m - 1 \in 1 .. m - 1
        BY <1>3, <4>2
      <4>4. log[m - 1].delay = 0 /\ log[m - 1].ts < t /\ log[k].ts < t
        BY <1>2, <3>2, <4>3
      <4>5. log[k].delay = DelayAhead /\ DelayAhead # 0
        BY <4>1, <4>4, CleanDelay
      <4>6. ~(log[m - 1].lo < loss.pulse) /\ DelayBehind = 0
        BY <4>3, <4>4, <4>5, CleanDelay
      <4>7. chosen = log[m - 1].delay
        <5>1. ~(log[m].lo < loss.pulse)
          BY <1>3, <1>4
        <5> QED
          BY <1>2, <4>4, <4>6, <5>1, CleanDelay
      <4> QED
        BY <2>2, <4>3, <4>4, <4>6, <4>7
    <3> QED
      BY <3>1, <3>2
  <2>4. chosen = DelayAhead
    BY <1>2, <2>3, CleanDelay
  <2> QED
    BY <1>1, <2>1, <2>4, AlignedWhen
<1> QED
  BY <1>5, <1>6, <1>7

\* While a run of the decoder is on, its delay is the one for its TIMESTART.
DelayInUse == phase = "scan" => chosen = GetDelay(timestart)

LEMMA DelayInUseNext == DelayInUse /\ [ScanNext]_allvars => DelayInUse'
<1> SUFFICES ASSUME DelayInUse, [ScanNext]_allvars PROVE DelayInUse'
  OBVIOUS
<1>1. ASSUME log' = log PROVE \A t : GetDelay(t)' = GetDelay(t)
  BY <1>1 DEF GetDelay, NotEarlier, DelayBefore, First
<1>2. CASE Calibration
  BY <1>2 DEF Calibration, scanvars, DelayInUse
<1>3. CASE LogComplete
  BY <1>3 DEF LogComplete, DelayInUse
<1>4. CASE StartRun
  <2>1. chosen' = GetDelay(timestart) /\ timestart' = timestart /\ log' = log
    BY <1>4 DEF StartRun, vars
  <2> QED
    BY <1>1, <2>1 DEF DelayInUse
<1>5. CASE NotFound \/ Crash \/ \E t \in FoundAfter : Found(t)
  BY <1>5 DEF NotFound, Crash, Found, DelayInUse
<1>6. CASE UNCHANGED allvars
  <2>1. log' = log /\ phase' = phase /\ chosen' = chosen /\ timestart' = timestart
    BY <1>6 DEF allvars, vars, scanvars
  <2> QED
    BY <1>1, <2>1 DEF DelayInUse
<1> QED
  BY <1>2, <1>3, <1>4, <1>5, <1>6 DEF ScanNext, Scan

(***************************************************************************)
(* Every run reads the two files from the same moment of the air, for      *)
(* every air and however often the target is found.                        *)
(***************************************************************************)
THEOREM RunsStartAligned == ScanSpec => []StartsAligned
<1>1. ScanSpec => []SyncInv /\ []TypeOK
  BY ScanSynchronises, DecodesInStep, TypeCorrect, PTL DEF SyncInv
<1>2. ScanInit => DelayInUse
  BY DEF ScanInit, DelayInUse
<1>3. SyncInv /\ ScanInv /\ DelayInUse => StartsAligned
  BY InvStartsAligned DEF ScanInv, DelayInUse
<1> QED
  BY <1>1, <1>2, <1>3, ScanInitInv, ScanNextInv, DelayInUseNext, PTL DEF ScanSpec
=============================================================================
