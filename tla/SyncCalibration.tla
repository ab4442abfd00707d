--------------------------- MODULE SyncCalibration ---------------------------
(***************************************************************************)
(* Synchronising the two captures of the full-band sniffer: bledecoder.cpp *)
(* reads the two files in step, block by block, finds in both the packets  *)
(* that the LO board transmitted (pulses, one a second, with a counter),   *)
(* and prints the difference of their times when the counters meet;        *)
(* processsynch.pl keeps from its output the lines of the synchronisation  *)
(* log that module TraceScan reads.                                        *)
(*                                                                         *)
(* The air is fixed when the decoder starts: capture c began at start[c],  *)
(* pulse i was sent at i * Spacing, the transmitter's counter restarted    *)
(* before pulse restart, and loss.cap dropped loss.amount of samples just  *)
(* before pulse loss.pulse.  What a capture really receives is not: every  *)
(* pulse may be missed, and other packets come in between.                 *)
(***************************************************************************)
EXTENDS Integers, Sequences, FiniteSets

CONSTANTS
  Pulses,       \* number of synchronisation packets transmitted
  Spacing,      \* time from one to the next
  Block,        \* duration of one block of samples (4096 in the code)
  Blocks,       \* blocks in the shorter file
  RingBuffer,   \* how far a receiver is ahead of the packet it decodes
  Starts,       \* when the captures may have started
  Losses,       \* amounts of samples a capture may lose
  HalfRange,    \* times of a receiver, an int counting samples, run to here
  OtherTimes    \* positions where another device's packet may be

Capture == {"LO", "HI"}
Pulse == 1 .. Pulses

ASSUME SizeAssumption ==
  /\ Pulses \in Nat /\ Blocks \in Nat /\ RingBuffer \in Nat
  /\ Spacing \in Nat \ {0} /\ Block \in Nat \ {0} /\ HalfRange \in Nat \ {0}
  /\ Block <= HalfRange

ASSUME AirAssumption ==
  /\ Starts \subseteq [Capture -> Nat]
  /\ Losses \subseteq 0 .. Spacing - 1
  /\ OtherTimes \subseteq Nat

VARIABLES
  start, restart, loss,       \* the air
  turn, blk,                  \* the half of the block being decoded
  next,                       \* the next pulse in each capture
  syncsn, syncts,             \* counter and time of each capture's last pulse
  delay, calibrated,
  lastpos,                    \* position of each capture's last packet
  printed,                    \* $ts: the last time processsynch.pl has read
  log,                        \* the synchronisation log
  heard,                      \* the pulses each capture has received
  foreign                     \* another packet was received

air == <<start, restart, loss>>
decoder == <<syncsn, syncts, delay, calibrated>>
vars == <<air, turn, blk, next, decoder, lastpos, printed, log, heard, foreign>>

Other(c) == IF c = "LO" THEN "HI" ELSE "LO"

\* The counter in pulse i: sample_for_raw_packet is called with 0, 1, 2, ...
Sn(i) == IF i < restart THEN i - 1 ELSE i - restart

\* Where in file c pulse i is.
Lost(c, i) == IF c = loss.cap /\ i >= loss.pulse THEN loss.amount ELSE 0
Position(c, i) == i * Spacing - start[c] - Lost(c, i)

(***************************************************************************)
(* timenow: the samples are counted in an int, which wraps to negative.    *)
(***************************************************************************)
Timenow(pos) == ((pos + HalfRange) % (2 * HalfRange)) - HalfRange

Init ==
  /\ start \in Starts
  /\ restart \in 2 .. Pulses + 1
  /\ loss \in [cap : Capture, pulse : Pulse, amount : Losses]
  /\ loss.amount = 0 => loss.cap = "LO" /\ loss.pulse = 1
  /\ turn = "LO" /\ blk = 0
  /\ next = [c \in Capture |-> 1]
  /\ syncsn = [c \in Capture |-> -1] /\ syncts = [c \in Capture |-> -1]
  /\ delay = 0 /\ calibrated = FALSE
  /\ lastpos = [c \in Capture |-> 0]
  /\ printed = 0 /\ log = <<>>
  /\ heard = [c \in Capture |-> {}] /\ foreign = FALSE

\* The block in which the packet at pos is decoded.
BlockOf(pos) == (pos + RingBuffer) \div Block
InBlock(pos) == BlockOf(pos) <= blk
Decoding(c) == blk < Blocks /\ turn = c

\* Mutant: a time with a sign is read as well.
PrintModulationSigned(pos) == printed' = Timenow(pos)
\* The "Modulation" line: only a time without a sign is read from it.
PrintModulation(pos) ==
  printed' = IF Timenow(pos) >= 0 THEN Timenow(pos) ELSE printed

\* Mutant: the decoder prints the packet before its delay.
LogDelayLate(d, lo, hi, pos) ==
  log' = IF Timenow(pos) > 0
         THEN Append(log, [ts |-> Timenow(pos), delay |-> d, lo |-> lo, hi |-> hi]) ELSE log

(***************************************************************************)
(* The "delay" line, printed before the packet's own "Modulation" line, so *)
(* that the log gets the time of the packet before.  lo and hi are not in  *)
(* the program: they are the pulses whose times were subtracted.           *)
(***************************************************************************)
LogDelay(d, lo, hi, pos) ==
  log' = IF printed > 0
         THEN Append(log, [ts |-> printed, delay |-> d, lo |-> lo, hi |-> hi]) ELSE log

Latest(S) == CHOOSE i \in S : \A j \in S : j <= i

\* Mutant: the counters are not compared.
CalibrateAnyway(c, i) ==
  /\ syncsn' = [syncsn EXCEPT ![c] = Sn(i)]
  /\ syncts' = [syncts EXCEPT ![c] = Timenow(Position(c, i))]
  /\ IF heard'[Other(c)] # {}
     THEN /\ delay' = syncts'["LO"] - syncts'["HI"]
          /\ calibrated' = TRUE
          /\ LogDelay(delay', Latest(heard'["LO"]), Latest(heard'["HI"]), Position(c, i))
     ELSE UNCHANGED <<delay, calibrated, log>>
\* Mutant: a capture compares its counter only once the other is calibrated.
CalibrateOnce(c, i) ==
  /\ syncsn' = [syncsn EXCEPT ![c] = Sn(i)]
  /\ syncts' = [syncts EXCEPT ![c] = Timenow(Position(c, i))]
  /\ IF ~calibrated /\ syncsn[Other(c)] = Sn(i)
     THEN /\ delay' = syncts'["LO"] - syncts'["HI"]
          /\ calibrated' = TRUE
          /\ LogDelay(delay', Latest(heard'["LO"]), Latest(heard'["HI"]), Position(c, i))
     ELSE UNCHANGED <<delay, calibrated, log>>

Calibrate(c, i) ==
  /\ syncsn' = [syncsn EXCEPT ![c] = Sn(i)]
  /\ syncts' = [syncts EXCEPT ![c] = Timenow(Position(c, i))]
  /\ IF syncsn[Other(c)] = Sn(i)
     THEN /\ delay' = syncts'["LO"] - syncts'["HI"]
          /\ calibrated' = TRUE
          /\ LogDelay(delay', Latest(heard'["LO"]), Latest(heard'["HI"]), Position(c, i))
     ELSE UNCHANGED <<delay, calibrated, log>>

(***************************************************************************)
(* HandlePacket for a pulse that is in the block being decoded.            *)
(***************************************************************************)
ReceivePulse(c) ==
  LET i == next[c]
      pos == Position(c, i)
  IN  /\ Decoding(c) /\ i \in Pulse /\ InBlock(pos)
      /\ pos >= 0 /\ pos >= lastpos[c]
      /\ heard' = [heard EXCEPT ![c] = @ \cup {i}]
      /\ Calibrate(c, i)
      /\ PrintModulation(pos)
      /\ lastpos' = [lastpos EXCEPT ![c] = pos]
      /\ next' = [next EXCEPT ![c] = i + 1]
      /\ UNCHANGED <<air, turn, blk, foreign>>

\* Not received, or sent before the capture began.
MissPulse(c) ==
  /\ Decoding(c) /\ next[c] \in Pulse /\ InBlock(Position(c, next[c]))
  /\ next' = [next EXCEPT ![c] = @ + 1]
  /\ UNCHANGED <<air, turn, blk, decoder, lastpos, printed, log, heard, foreign>>

\* Another packet with a known address and a good CRC: only its time is printed.
ReceiveOther(c) ==
  /\ Decoding(c)
  /\ \E pos \in OtherTimes :
       /\ BlockOf(pos) = blk /\ pos > lastpos[c]
       /\ next[c] \in Pulse => pos < Position(c, next[c])
       /\ lastpos' = [lastpos EXCEPT ![c] = pos]
       /\ PrintModulation(pos)
  /\ foreign' = TRUE
  /\ UNCHANGED <<air, turn, blk, next, decoder, log, heard>>

\* One half of a block done: LO first, then HI.
EndHalf(c) ==
  /\ Decoding(c)
  /\ next[c] \in Pulse => ~InBlock(Position(c, next[c]))
  /\ turn' = Other(c)
  /\ blk' = IF c = "HI" THEN blk + 1 ELSE blk
  /\ UNCHANGED <<air, next, decoder, lastpos, printed, log, heard, foreign>>

Decode == \E c \in Capture :
  ReceivePulse(c) \/ MissPulse(c) \/ ReceiveOther(c) \/ EndHalf(c)

Spec == Init /\ [][Decode]_vars

-----------------------------------------------------------------------------
Entry == [ts : Nat, delay : Int, lo : Pulse, hi : Pulse]

\* Every variable keeps its type.
TypeOK ==
  /\ start \in [Capture -> Nat]
  /\ restart \in 2 .. Pulses + 1
  /\ loss \in [cap : Capture, pulse : Pulse, amount : Nat]
  /\ turn \in Capture /\ blk \in 0 .. Blocks
  /\ next \in [Capture -> 1 .. Pulses + 1]
  /\ syncsn \in [Capture -> -1 .. Pulses] /\ syncts \in [Capture -> Int]
  /\ delay \in Int /\ calibrated \in BOOLEAN
  /\ lastpos \in [Capture -> Nat]
  /\ printed \in Nat /\ log \in Seq(Entry)
  /\ heard \in [Capture -> SUBSET Pulse] /\ foreign \in BOOLEAN

Restarted == restart \in Pulse
\* Neither time has wrapped around more often than the other.
Wraps(pos) == (pos + HalfRange) \div (2 * HalfRange)
Unwrapped(i, j) == Wraps(Position("LO", i)) = Wraps(Position("HI", j))

(***************************************************************************)
(* As long as the transmitter's counter does not restart, every delay in   *)
(* the log is how much further one and the same pulse is in the LO file    *)
(* than in the HI file, whichever pulses either capture missed; except     *)
(* when the int that counts samples wrapped between the two receptions.    *)
(***************************************************************************)
DelayIsTrue ==
  \A k \in 1 .. Len(log) :
    ~Restarted /\ Unwrapped(log[k].lo, log[k].hi)
    => /\ log[k].lo = log[k].hi
       /\ log[k].delay = Position("LO", log[k].lo) - Position("HI", log[k].lo)

\* No other pulse is decoded between the two receptions of pulse i.
Near(i) ==
  \A c \in Capture : i + 1 \in Pulse =>
    BlockOf(Position(c, i)) < BlockOf(Position(Other(c), i + 1))

(***************************************************************************)
(* A pulse that both captures received is in the log once both have been   *)
(* decoded, if the captures are less than a pulse apart and the int has    *)
(* not wrapped: even after misses, lost samples, a counter that restarted  *)
(* or a wrong match before.  So a wrong delay lasts no longer than to the  *)
(* next common pulse.                                                      *)
(***************************************************************************)
CommonPulseLogged ==
  \A i \in heard["LO"] \cap heard["HI"] :
    /\ Near(i) /\ (i - 1 \in Pulse => Near(i - 1))
    /\ \A c \in Capture : Position(c, i) \in 1 .. HalfRange - 1
    => \E k \in 1 .. Len(log) : log[k].lo = i /\ log[k].hi = i

(***************************************************************************)
(* The time logged with a delay is that of the file the pulse comes first  *)
(* in, which is the time getdelay.pl is asked for: the decoder prints the  *)
(* delay before the second packet's own time.  Only another packet decoded *)
(* in between replaces it, and the wrap of the int.                        *)
(***************************************************************************)
LogTimeIsFirst ==
  \A k \in 1 .. Len(log) :
    LET i == log[k].lo
        lo == Position("LO", i)
        hi == Position("HI", i)
    IN  /\ ~foreign /\ log[k].hi = i /\ lo < HalfRange /\ hi < HalfRange
        /\ Near(i) /\ (i - 1 \in Pulse => Near(i - 1))
        => log[k].ts = IF BlockOf(lo) <= BlockOf(hi) THEN lo ELSE hi
=============================================================================
