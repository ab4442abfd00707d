# A model of btsniffer in TLA+

Modules, TLC configurations and TLAPS proofs about the two Bluetooth sniffers of
this repository: `single-board/` (one B205/B210 radio, live decoding) and
`full-band/` (two synchronised radios, capture to files, decoding off-line),
with the small python servers around them. Paths below are relative to the
repository.

## The system

| component | state | operations | modelled |
|---|---|---|---|
| header brute force, `btsniffer.cpp` 1026-1126, 1355-1390 | the 32 candidate slots of a LAP | try one UAP against a header with all 64 clocks; initialise a LAP | `Hec` |
| LAP tracker, `btsniffer.cpp` 220-601, 1339-1778, `lapnode.cpp` | one `lap_map` entry: status, slots, `ts`, the pair, the locked UAP and clock, role and parity | one branch of the packet switch per kind of packet | `UapElimination`, `LapTracker` |
| acquisition and processing threads, `btsniffer.cpp` 1129-1199, 1902-2002 | `bufselect`, two spin locks, two banks, `stopsig` | select, lock, receive, filter, count | `SnifferBuffers` |
| capture threads, `ismsniffermt.cpp` 44-287, 549-600 | two banks, `semA`, `semB`, the stop flag | claim, receive, publish; claim, pack, write | `CaptureFifo`, `CaptureBanks` |
| synchronisation, `bledecoder.cpp`, `bleadvertiser.cpp`, `processsynch.pl` | last counter and time of each capture; the delay; the log | read a block of each file, match counters, print, keep | `SyncCalibration` |
| trace processing, `processtrace.sh`, `getdelay.pl` | `TIMESTART`, `DELAY` | look up the delay, run the decoder, move on | `TraceScan` |
| off-line decoder, `btdecoder.cpp` | one `lap_map` entry for 79 channels of two files; the list of LAPs to find; `running` | `DetectPreamble`, the loop over blocks | `UapElimination`, `TargetTracker`, `TargetSearch` |
| packets of the off-line decoder, `btdecoder.cpp`, `pcapsaver.cpp` | sorted lists of packets | insert, merge, flush | no: nothing feeds them |
| ping sessions, `server_mobile_full_v1.py` | `current_ping`, tasks, processes | start, stop, poll, broadcast | `PingSession` |
| signal processing, `btsniffer.cpp` 737-906, 1190-1316 | none between packets | filter, channelise, discriminate, find access words | its result is `LapTracker`'s input |
| telemetry, `zmq_sender.cpp`, `udp.cpp`; relay `python/app.py`; page `radar.js` | a socket; a set of clients; devices by LAP | publish, broadcast, reconnect, prune | no |

How they interact: `main` of `btsniffer.cpp` fills a bank, `proc_routine` reads one,
finds packets in it and hands each, with the time it computes from its own count
of samples, to the entry of its LAP; the entry's branch decides what is sent as
telemetry. In the full-band sniffer the capture threads write two files, one of
which also holds the synchronisation packets that the third thread sends;
the decoders read the files later, always the same block of both: `bledecoder` finds
the synchronisation packets in the two and prints the difference of their times,
`processsynch.pl` makes a log of these delays, and `processtrace.sh` runs
`btdecoder` from one time in the trace to the next, each time with the delay that
`getdelay.pl` finds in the log, so that both files are read from the same moment
of the air.

What is hard in it:

* **elimination of candidates**: every packet narrows a table by comparing clock
  differences with time differences, modulo 64, and packets may be broken, early,
  late or duplicated. A table and a timestamp of different moments silently throw
  the real UAP away, many packets after the mistake;
* **prediction of the clock** after the lock, across missed packets, with packets
  accepted (NULL, POLL) that carry no proof;
* **two clocks for one air**: a time is a count of samples in one file; what it means in
  the other depends on a delay that lost samples change, that is measured only when
  both captures received the same packet, and that is looked up by a time of its own;
* **threads that pass banks** by flags that are not held while the banks are used;
* **one event loop, many tasks**: what a request reads before an `await` may be
  another's after it, and a cancellation reaches further than the task it is for;
* **ends**: an interrupt, a duration, an exception, each seen by one thread of three.

`PROJECT.json` lists these at their lines under "hazards", with the property that
covers each, or the reason why none does. Three are of behaviour the code really has, and
the property near each exempts just that case: `InterruptEnds` the interrupt that
finds both capture threads between two tests, `ChunkIsStored` the process that dies with
banks unwritten, `RequestsEnd` and `StopSilences` the session whose cancellation came
after its answer.

## The modules

**`Hec`** is the code's arithmetic, bit by bit, on words represented as sets of bit
positions: `Clocked` is one step of the whitener, `HecStep` one of the HEC register,
`FittingClks` is `extract_header_bf` (the FEC vote is the flag `perfect_rx`), and
`TryUap`/`Finish` the loop over 256 UAPs of `LAP_STATE_NEW`. The registers are read from
tables of functions over the bits already sent, so that they can be proved about. Its
properties are what `LapTracker` takes for granted.

**`UapElimination`** is what the two trackers share, with one meaning in `btsniffer.cpp`
and `btdecoder.cpp`: the candidate slots, a slot's two clocks, and the test of a
header against them (`FreshUaps`, `Reached`, `Retest`). `uaps` is indexed by candidate
instead of slot number, in UAP order as the slots are. The relation between a header
and a candidate's two clocks is the CONSTANT `Table`, with the assumptions
`TableAssumption` and `TwinAssumption`, which `HecProofs` proves of the code's own table
(`TrackersTable`).

**`LapTracker`** is one entry of `btsniffer`'s `lap_map`. Its actions are the branches of the
switch, in order: `InitCandidates`/`InitFails` (NEW); `SkipInThePast`,
`SkipTooClose`, `EraseBadTiming`, `SkipBroken`, `EraseNoCandidate`,
`TestCandidates` (BRUTE_FORCING, the last with `Narrow` or `EnterPair` and
`TryPair`); `Follow` (UAP_LOCKED). Each takes a packet: how many slots after the
last one it is measured (`adv`), how many the piconet really advanced beyond that
(`slip`, samples lost), its offset from the slot grid (`jit`), the coset of UAPs
its header fits, and the clock it fits relative to the real one (`err`).
Time is kept relative to `ts`: the code uses only differences.
`pclk` is not in the program: it is the real clock, against which its state is judged.
Counters, signal averages and telemetry are left out; no branch reads them.
A payload is what it looks like under each clock: where its header reads as NULL
or POLL, where as an anchor (POLL or LT_ADDR 0), and whether its CRC verifies under
the real UAP and clock. That a CRC-16 verifies by chance under a wrong pair is
left out, and is the only thing about a payload that is.

**`SnifferBuffers`** is the two threads of `btsniffer.cpp`, one action per access to
something shared. A bank is a sequence of pieces, one per `recv`, and a piece is
the number of the chunk it came from; `sigbuf` is what a pass read.

**`CaptureBanks`** is the threads of one chain of `ismsniffermt.cpp`. A spin on
test-and-set is an action enabled when the flag is clear. `fill` says whether a
bank is half received, whole, or torn by a short `recv` whose successor was
written at the wrong offset. **`CaptureFifo`** is the queue the two threads are
meant to be: `CaptureBanks` implements it (`IsFifo`), with `rxkk` the chunks sent,
`storekk .. rxkk-1` the queue, and the file the chunks delivered.

**`SyncCalibration`** is `bledecoder` on two captures of one air. The air is chosen at
`Init` and then fixed: when each capture began, at which pulse the transmitter was
restarted and its counter with it, and where one of the captures lost samples.
`Decode` reads the files half a block at a time, LO then HI; a pulse in the block may
be received or missed, and other packets come in between. `Calibrate` is
`HandlePacket`'s comparison of counters, `LogDelay` and `PrintModulation` are what
`processsynch.pl` makes of the two lines it prints, in their order. Times are an int
that counts samples and wraps (`Timenow`). `heard` and the `lo`, `hi` of a log entry
are not in the program; they say which pulses a delay was really taken from.

**`TraceScan`** extends it with `processtrace.sh`: once the log is complete, runs of the
decoder start at `timestart` with the delay `GetDelay` chooses (`getdelay.pl` as it is,
with 0 both a delay and "none yet"), skip that delay in one of the files, and end with
the target (`Found`, which moves `timestart`), without it (`NotFound`), or because there
was no block to read (`Crash`: the capture file that is closed was never opened).

**`TargetTracker`** is the entry of the LAP searched for in `btdecoder`'s `lap_map`. A block
is far shorter than a slot, and its 79 channels are searched one after the other,
first those of the LO file, then those of the HI file, which is `skew` behind it as far
as the delay was wrong: so a packet is met again, or met late. **`TargetSearch`** puts it
into `main`: a LAP, or a number of a list of LAPs, is asked for; other LAPs are resolved
meanwhile, several in one block; `my_lap` is entered as resolved from the start. At this
commit `Receiver` does not call `DetectPreamble`; the two modules are of the function and
of `main` as called once per sample, which is what the scripts expect. For the same reason
`Found` never happens to this commit's decoder, and the hazards of the uncalled code are
not on the list.

**`PingSession`** is the part of `server_mobile_full_v1.py` around `current_ping`. A step
is the code between two awaits; `ready` is asyncio's queue of tasks to resume, kept
in order because a request that waited for a session resumes after the requests
already queued when the session ended. `Cancel`, `CancelUnstarted` and `AnswerWins`
are what a task finds at its next step once it is in `cancelled`: the error at an
await; the error before the first statement, which skips `finally`; or, with
`LateAnswers`, a `wait_for` that returns after all (until Python 3.11; the repository
names no version). A cancelled task may wake late, which covers the awaits its
unwinding makes. The tracker's `proc` and tasks are named by their session. An l2ping
dies at any time; it is counted alive from the moment it may be. Lines of output and
polled values change nothing in this state and are left out, and so are the devices
and the websockets. `late` is not in the code; it remembers a missed cancellation.

A module `XProofs` holds the proofs about `X`; `TargetSearchProofs` also those about
`TargetTracker`, and `TraceScanProofs` also those about `SyncCalibration`. `TargetTracker` and
`LapTracker` extend `UapElimination`, `TargetSearch` extends `TargetTracker`, and `TraceScan`
extends `SyncCalibration`. The proofs of both trackers use `UapEliminationProofs`.

## The runs

| run | question | bounds |
|---|---|---|
| `hec` | do 32 UAPs fit two complementary clocks each; is the pattern shift-invariant | full width (8-bit UAP, 6-bit clock, 10 data bits); headers over a basis of data, clock and UAP bits; that everything is linear over GF(2), and so what holds of the basis of all, is proved |
| `lap_tracker` | is the real UAP kept, are candidates discarded in twins, the lock and the roles kept true | 16 clocks, so 8 candidates; packets -1, 0, 1 or 8 (half a period) slots apart; up to 8 slots without a new `ts` |
| `lap_index` | is the clock index right (it is not) | as `lap_tracker` |
| `lap_lock` | is a lock on the piconet's UAP (it need not be) | as `lap_tracker` |
| `sniffer_buffers` | does a stop end both threads; are locks held where they should be | 2 pieces a bank, 5 chunks, 3 passes |
| `sniffer_race` | is the bank being filled left alone (it is not) | as above |
| `capture_banks` | exclusion, order, refinement of the queue, no chunk stuck, does an interrupt end the program | 5 chunks: both banks used at least twice, rx two ahead |
| `capture_duration` | does `--duration` end the program (it does not) | 3 chunks |
| `offline_trace` | is every logged delay true, every common pulse logged, does every run of the decoder start aligned and with data, does the script end | 3 pulses 6 apart in 8 blocks of 3; captures that start together, less than a block, almost a pulse, half a pulse (which a loss makes more than a pulse) or more than a pulse apart; 0, 1 or 3 samples lost in either at any pulse; a restart at any pulse; times wrap at 16, inside the trace |
| `offline_target` | is a resolved pair right, the list counted exactly, the search stopped when it should be | 8 clocks, so 4 candidates; blocks 0, 1 or 4 slots apart; files aligned, half a slot or 3 slots and 12 us apart; another piconet of the same LAP; a LAP, 1 of 2 and 2 of 3 listed LAPs asked for, the preset one among them |
| `ping_session` | one session at a time, all of it reachable, nothing left, requests end | 3 requests, each of either kind, so up to 3 sessions: what a late reset needs |
| `ping_replace` | does a start replace a running session (it does not) | 2 starts, 1 stop |

The small instances of the two trackers keep the shape of the code's table: changing
the UAP by d changes the fitting clock by d under xor, and the twin of a candidate
is its complement. 16 clocks are enough for the constants of the code (offsets up
to 4, exclusion up to 5) to be different clocks and for the far tries to exist.
The theorems then hold for 64. The advances include zero and a step into the past
(blocks are searched channel by channel) and half a period, where twins meet.
Slips and misread headers are left to the proofs: `TwinsStayTogether` and
`PairStaysSurvivors` hold for any.

Three pulses are enough for `offline_trace` because a capture keeps only its last counter:
a pulse is matched, replaced or confused with the one after it, and a third shows what is
left of a mistake. In time it is the shape of the code's numbers: a pulse (a second) is
more than a block (93 us) and than the ring buffer (5 ms) between reading a sample and
decoding it, and a capture starts anywhere in between.

Everything but `LapTracker`, where a packet can always come, stops when its work is done, so
deadlock is checked only there.

**Fairness.** The two trackers and `Hec` state none: only safety is claimed. `TraceScan` has
weak fairness of the whole: programs started one after the other run, and what they
find, miss or receive is left open. In
`SnifferBuffers` and `CaptureBanks` each thread has weak fairness: it is scheduled,
and `recv` returns within its timeout. Weak fairness is not enough to win a
contended spin lock again and again, and nothing claimed needs it: a lock waited
for in vain is only that of a thread that has left its loop. In `PingSession` the loop runs,
what a task awaits comes (hcitool has a timeout, clients read what they are sent), and
a terminated l2ping ends; an l2ping left alone has no fairness, it may ping for ever,
and requests need not arrive. Interrupts and exceptions have no fairness; the duration of a timed capture does end.

## What is wrong in the code

1. `lap_index`: a packet that fits the same two clocks leaves `clk_index` alone, so
   the index may name the clock the piconet no longer has, and the real UAP is
   discarded by the next packet.
2. `lap_lock`: the two-UAP stage accepts NULL and POLL and so locks on the first
   UAP of the pair whose header reads so.
3. `sniffer_race`: the locks of `btsniffer.cpp` name the value of `bufselect`, under
   which one thread means bank A and the other bank B.
4. `capture_duration`: only one of three threads knows the duration.
5. `ping_replace`: awaiting the cancelled task raises `CancelledError`, which
   `except Exception` lets through: a start that finds a session running stops it and
   is aborted itself.

Met on the way and not worth a run: `extract_pdu_debug` seeds the payload's whitener anew
although the comment above it has it continue the header's (`btsniffer.cpp` 214-215); a
restart of the transmitter, or an empty log, gives the decoder a wrong delay until the
next pulse that both captures receive; an interrupt of the capture program just when one
thread has tested the flag and waits for the other may leave it spinning; and
`btdecoder` has the stale `clk_index` of finding 1 as well.

## The proofs

### The header brute force

For every sender, that is every UAP, clock and ten bits of data, with the code's own
widths. The registers are not evaluated: there are 2^24 headers and 2^14 trials of each.

* A number below 256 is its set of bits (`BitIs`, `BitsInjective`, `BitsOnto`), and whitening,
  header and check are sums of such sets. The words of the registers are functions over the
  bits sent so far; that they exist is an induction, done on the least bit without a word
  (`Least`, `Closed`), which a recursive definition leaves to the prover.
* The whitener's output satisfies a recurrence from its six seed bits (`GoesOut`), so the
  streams of two clocks differ by the stream of their difference (`StreamDifference`); the
  HEC register likewise (`HecStepDifference`, `HecDifference`). Hence a UAP fits a clock
  exactly when its difference from the sender's is a fixed function `Offset` of the clocks'
  difference (`FitsWhen`): neither the data nor the sender appears in it. That is
  `PatternShifts`.
* `Offset` takes six bits to eight and forgets one thing, whether all six are flipped
  (`OffsetKernel`). So a UAP fits no clock or a clock and its complement (`StopIsDead`,
  `ClocksComplement`), a clock fits one UAP (`OneUap`), and the UAPs that fit are as many as
  the clocks 0..31 (`FittingCount`): 32, which is `SlotsFill`, with an invariant for the loop
  that files them in UAP order (`SlotsOK`). Half a period is the top bit of the clock, and
  flipping it maps a UAP that fits to another (`TwinsAreThere`).
* `TrackersTable` closes the gap to the trackers: for each UAP of a piconet the table made of
  these trials is the same coset whatever the clock and data, and has the shape that
  `TableAssumption` and `TwinAssumption` ask for with N = 64 and 32 candidates. The
  theorems on the trackers are therefore about the code's table, not only about tables
  that happen to resemble it.

### The LAP tracker

For every N that is even, every table of more than two candidates with a twin half a
period away, and all packet inputs:

* `TypeCorrect`: `TypeOK` is inductive. What takes work is that the tested slots
  keep two complementary clocks in order, and that every clock a lock or a
  resolution stores is a clock.
* `TwinsStayTogether`: the invariant is stronger than the property: the slots of
  two twins not only are valid together, their clocks also differ by half a period
  and their indices agree accordingly (`TwinSlots`). Then a clock difference of one
  is a clock difference of the other, modulo N, and `Retest` treats them alike
  (`RetestTwins`).
* `PairStaysSurvivors` rests on it: survivors come in twins, so a test that leaves
  at most two leaves exactly two (`SurvivorHasTwin`), and one that follows leaves
  both or erases the entry (`PairTest`).
* `TrueUapIsKept`, under `HonestTime` (no lost samples, no misread headers): the
  stored clocks of the real UAP include the one it had at `ts` (`StoredClock`),
  through every branch that moves `ts` or does not. `PeriodsExact` shows that the
  rounded period count is the number of slots.
* `LockIsKeptInSync` and `RolesAreKeptTrue`, under `HonestTime`: the prediction is the
  real clock (`PredictionIsTrue`), offsets around it are even, the header's other
  clock has the other parity, so none of the near tries can pick it
  (`NearIsPrediction`, `ResolvesTrue`).

`HonestTime` is an assumption of these theorems, not of the model. The lemmas about
slots, clocks modulo N and twins are in `UapEliminationProofs`, and both trackers use them.

### The off-line tracker and the search

* `ResolvedIsTwinPair`: whatever is received and however the two files are skewed, what is
  printed as resolved is two UAPs half a period apart. It rests on the twins of
  `UapEliminationProofs` as above; new is the branch that starts again from an empty table.
* `TrueUapIsKept`: here no honest time can be assumed, since the second file is late. With
  a skew of at most half a slot (300 us) a packet of the late file either counts the same
  slots or, by its offset from the slot grid, erases the entry; it is never tested against
  a clock of another moment, so the skew costs the entry and never the UAP. The invariant
  relates the stored clocks to the piconet's clock at `ts` for each file and each half of
  the block. A skew of whole slots may cost the real UAP, and the run contains one.
* `SearchTracks`: the search implements the tracker (`SearchSpec => Spec` step by step), so
  both hold in it. `TallyIsAlwaysExact`, `StopsExactlyWhenFound`: the inductive
  invariant says that the LAPs still marked are exactly those listed and not yet
  resolved since, and that the counter is the number asked for less those found, also
  below 0 when several are found in one block; it needs the cardinality of the list.
  `SearchTypeCorrect` is the same for the types of the whole.

### The acquisition and processing threads

`TypeCorrect`, for any number of chunks, passes and pieces of a bank. The invariant names the
holder of each lock (`Holder`): the receiving thread at `bufselect` while it receives, the
processing thread at its own copy of it from the lock to the unlock, and nobody else
(`LocksOK`). An unlock is then always of a lock that is held by the one who unlocks it.
That the lock does not protect the bank is finding 3, and no contradiction.

### The synchronisation and the scripts

* `DelaysAreTrue`: for any number of pulses, misses, losses and starts. The invariant says of
  each capture that `syncsn` and `syncts` are the counter and the wrapped time of the
  latest pulse it received (`CountersOK`), and of each log entry that it is the
  difference of the wrapped times of two pulses with one counter (`LogOK`). Without a
  restart a counter belongs to one pulse (`SnIdentifies`), and times that wrapped equally
  often differ by the difference of their positions (`TimenowIs`).
* `DecodesInStep`: the invariant says where decoding is. `Schedule` bounds for each capture the
  pulses already looked at by the blocks decoded, and the two files differ by half a
  block at most. So, as long as the captures are less than a pulse apart there (`Apart`), a
  pulse that one capture has received and the other may still come to is the latest of the
  first, and `PendingOK` says that the time printed last is its time. `LogOrder`: from an entry
  of the log to the next, neither capture's pulse is earlier and one is later. From these
  follow `CommonPulsesAreLogged` and `LoggedTimeIsFirst`: the pulse found second is compared
  with the one pending, and the time printed before is that of the file in which it came
  first.
* `ScanSynchronises`: the script's processing implements the synchronisation, so that all this
  holds of the log the script reads (`ScanLogIsRight`).
* `RunsStartAligned`: the delay looked up for a run is the difference of the two starts, with
  what was lost added from the loss on (`DelayAhead`, `DelayBehind`), since by the order of the
  log the entries before a time are those of pulses before it. The attempt to prove it
  without further conditions failed for a good reason: when a loss takes captures that were
  half a pulse apart to more than a pulse, the time logged after it may be that of an
  earlier pulse, and a run that starts before the loss is given the delay of after it. The run
  `offline_trace` now starts captures so, and `StartsAligned` asks before and after a loss
  for captures that stay less than a pulse apart (`Together`).
* `RunsAreGivenData`: the invariant keeps `timestart` a ring buffer before the end of the trace
  and the chosen delay 0 or one of the log's; the first entry that `getdelay.pl` stops at
  exists because a nonempty set of numbers has a least one (`Minimum`).
  `TraceAssumption` (a block fits the ring buffer, the trace is not shorter than it) is
  the code's sizes, 4096 and 20000 samples.

`SizeAssumption` says that a block does not overflow the int that counts samples: 4096
against `HalfRange`, 2^31 in the code.

### The capture threads

For any number of chunks. A semaphore says nothing by itself: it is 1 both while a
bank is worked on and for good once a thread has left. The invariant `IInv` therefore
relates the semaphores to the chunks between the two counters: `Window` (the
counters are at most two apart, fewer while a thread is at a bank), `Handover` (a
clear `semA` means no queued chunk is in that bank and it is not being filled; a
clear `semB` that one is, and it is not being stored), `Contents` (the bank of a
queued chunk holds it, completely received or torn by a short `recv`, and so does the
buffer being written), `FileIsPrefix` (the file is the chunks 0, 1, ... up to
`storekk`) and `LastIsLate` (about the bound on chunks). `Parity` is what makes it
work: a chunk and the one two later use the same bank, neighbours do not.

* `TypeCorrect`, `BanksAreExclusive` and `FileIsInOrder` read off `IInv`: if both
  threads were at a bank of the same parity, its semaphore would be both clear and set.
* `BanksAreFifo`: the queue of `CaptureFifo` is the interval between the counters
  (`QueueIsSeq`), a publication appends to it, the end of a write takes its head
  (`DeliveredGrows`), and everything else stutters.

### The ping sessions

For any number of requests to start and to stop, with or without late answers. That a
running session is the one the tracker names hangs on the order of the event loop: a
session may end, and the request that waited for it clears the tracker only when it is
resumed, when another request may have started the next session. The invariant `IInv` says

* `Tracker`: its task, process and RSSI task are all those of the session it names, and there
  is a process only while that session runs or reports;
* `Waiting`: requests wait for the session the tracker names, or for one that was cancelled
  before its first step; no request waits twice;
* `Returned`: a request whose session has returned is in the queue before the session the
  tracker names by then (`Ahead`), so that one has not begun when the tracker is cleared.
  A task is appended when it can go on and taken from the head, so nothing overtakes
  (`AheadTail`, `AheadConcat`), and a new session is appended behind (`AheadOfAbsent`);
* `Processes`, `Polling`: which l2ping may run and which RSSI task may poll, by where its
  session is; `Fresh`, `Counted`: a session not yet created has left no trace, and there
  are no more of them than start requests answered.

`OneSessionAtATime`, `SessionsAreReachable` and `NothingIsLeft` follow from it. `EndInv`
is the longest step: one lemma for the four actions that end a session.

### What is only model-checked

Every safety property and the refinement that the passing runs check are stated by a
theorem. Left to TLC are the liveness properties: `RequestsEnd` and `StopSilences` of
`PingSession`, `ChunkIsStored` and `InterruptEnds` of `CaptureBanks`, `StopEnds` of
`SnifferBuffers` and `TraceEnds` of `TraceScan`. Liveness under fairness and ENABLED are out of
the prover's reach. `HonestTime` (no lost samples, no misread headers) is a hypothesis
wherever it is named, and the runs of the trackers satisfy it.

## Not modelled, and the plan

What could follow:

1. The relay (`app.py`, `radar.js`): clients joining and leaving during a broadcast,
   reconnection and pruning. One-way, and nothing in the sniffers depends on it.
2. The packet lists and `pcapsaver.cpp`, once the decoder fills them again: at this commit
   nothing inserts a packet, so only empty lists are merged and flushed.

Left out for good: the signal processing, sample generation and filter design
(numeric code without a protocol), the rendering of the pages, the
predecessors of the ping server (they track no session), and the unused
functions of `btsniffer.cpp` and `lapnode.cpp` (`test_uap_combinations`,
`extract_pdu`, `update_role`, `update_role_from_header`).
Single-precision rounding of long time differences (`btsniffer.cpp` 1440) is not
modelled either: it is listed as a hazard.
