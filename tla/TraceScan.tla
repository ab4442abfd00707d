------------------------------ MODULE TraceScan ------------------------------
(***************************************************************************)
(* The whole off-line processing of a trace: the synchronisation log is    *)
(* made (SyncCalibration), then processtrace.sh runs the frame decoder     *)
(* again and again, each time from where the last run ended, with the      *)
(* delay that getdelay.pl takes from the log.  What the decoder finds is   *)
(* TargetTracker's matter; here a run ends with or without the target.  At *)
(* this commit the decoder does not call its search, so that every run     *)
(* ends without: Found is what the script is written for.                  *)
(***************************************************************************)
EXTENDS SyncCalibration

CONSTANT FoundAfter     \* how long a run may take to resolve the target

ASSUME FoundAfterAssumption == FoundAfter \subseteq Nat

\* The ring buffer holds a block, and the trace is not shorter than that.
ASSUME TraceAssumption == Block <= RingBuffer /\ RingBuffer <= Blocks * Block

VARIABLES
  phase,        \* "decode", then "script", "scan" and "done"
  timestart,    \* TIMESTART
  chosen,       \* DELAY
  exit          \* how the script ended

scanvars == <<phase, timestart, chosen, exit>>
allvars == <<vars, scanvars>>

FileEnd == Blocks * Block

ScanInit ==
  /\ Init
  /\ phase = "decode" /\ timestart = 0 /\ chosen = 0 /\ exit = "none"

Calibration == phase = "decode" /\ Decode /\ UNCHANGED scanvars

LogComplete ==
  /\ phase = "decode" /\ blk = Blocks
  /\ phase' = "script"
  /\ UNCHANGED <<vars, timestart, chosen, exit>>

(***************************************************************************)
(* getdelay.pl: the entry before the first one that is not earlier than t; *)
(* but a delay of 0 is taken for "no entry yet", and then it is that first *)
(* one.  The last entry if all are earlier, and 0 if there is none.        *)
(***************************************************************************)
NotEarlier(t) == {k \in 1 .. Len(log) : t <= log[k].ts}
First(S) == CHOOSE k \in S : \A j \in S : k <= j
DelayBefore(k) == IF k = 0 THEN 0 ELSE log[k].delay
\* Mutant: the first entry that is not earlier.
GetDelayAhead(t) ==
  IF NotEarlier(t) = {} THEN DelayBefore(Len(log)) ELSE log[First(NotEarlier(t))].delay
GetDelay(t) ==
  IF NotEarlier(t) = {} THEN DelayBefore(Len(log))
  ELSE LET k == First(NotEarlier(t))
       IN  IF DelayBefore(k - 1) = 0 THEN log[k].delay ELSE log[k - 1].delay

\* Where a run starts to read file c: the delay is skipped in one of them.
StartPos(c) ==
  timestart + (IF c = "LO" THEN (IF chosen > 0 THEN chosen ELSE 0)
                           ELSE (IF chosen < 0 THEN -chosen ELSE 0))
Unread(c) == FileEnd - StartPos(c)

StartRun ==
  /\ phase = "script"
  /\ chosen' = GetDelay(timestart)
  /\ phase' = "scan"
  /\ UNCHANGED <<vars, timestart, exit>>

\* Mutant: TIMESTART is only what the last run took.
FoundForgets(t) ==
  /\ phase = "scan" /\ t > 0
  /\ \A c \in Capture : t + RingBuffer <= Unread(c)
  /\ timestart' = t
  /\ phase' = "script"
  /\ UNCHANGED <<vars, chosen, exit>>

\* Mutant: the time of the target is where the receiver is.
FoundAhead(t) ==
  /\ phase = "scan" /\ t > 0
  /\ \A c \in Capture : t <= Unread(c)
  /\ timestart' = timestart + t
  /\ phase' = "script"
  /\ UNCHANGED <<vars, chosen, exit>>

\* The target is resolved t after the start: TIMESTART moves and the loop goes on.
Found(t) ==
  /\ phase = "scan" /\ t > 0
  /\ \A c \in Capture : t + RingBuffer <= Unread(c)
  /\ timestart' = timestart + t
  /\ phase' = "script"
  /\ UNCHANGED <<vars, chosen, exit>>

\* The decoder stops when it does not get the same from both files.
FirstRead(c) == IF Unread(c) < Block THEN Unread(c) ELSE Block
ReadsABlock == FirstRead("LO") > 0 /\ FirstRead("LO") = FirstRead("HI")

\* The end of either file: no RES line, TIMEFOUND is 0 and the script quits.
NotFound ==
  /\ phase = "scan" /\ ReadsABlock
  /\ phase' = "done" /\ exit' = "quit"
  /\ UNCHANGED <<vars, timestart, chosen>>

\* Without a block to read, no capture file is open at pcap_dump_close: it crashes.
Crash ==
  /\ phase = "scan" /\ ~ReadsABlock
  /\ phase' = "done" /\ exit' = "aborted"
  /\ UNCHANGED <<vars, timestart, chosen>>

Scan ==
  \/ LogComplete \/ StartRun \/ NotFound \/ Crash
  \/ \E t \in FoundAfter : Found(t)

ScanNext == Calibration \/ Scan

\* A program that runs: it reads on, and the script starts what it has to start.
ScanSpec == ScanInit /\ [][ScanNext]_allvars /\ WF_allvars(ScanNext)

-----------------------------------------------------------------------------
\* Every variable keeps its type.
ScanTypeOK ==
  /\ TypeOK
  /\ phase \in {"decode", "script", "scan", "done"}
  /\ timestart \in 0 .. FileEnd /\ chosen \in Int
  /\ exit \in {"none", "quit", "aborted"}

\* The moment on the air at position pos of file c.
LossPos(c) == IF c = loss.cap THEN Position(c, loss.pulse) ELSE FileEnd
AirTime(c, pos) == pos + start[c] + (IF c = loss.cap /\ pos >= LossPos(c) THEN loss.amount ELSE 0)

EntryBefore(t) == {k \in 1 .. Len(log) : log[k].ts < t}
\* The log shows the loss before the run starts, or the run starts before the loss.
LossKnown == \E k \in EntryBefore(timestart) : log[k].lo >= loss.pulse
LossAhead ==
  /\ \A c \in Capture : StartPos(c) < LossPos(c)
  /\ \E k \in 1 .. Len(log) : /\ log[k].lo < loss.pulse
                              /\ k \in EntryBefore(timestart) => log[k].delay # 0

Clean ==
  /\ ~Restarted /\ ~foreign
  /\ \A k \in 1 .. Len(log), c \in Capture : Position(c, log[k].lo) < HalfRange

\* The captures are less than a pulse apart.
Together == \A i \in Pulse : Near(i)

(***************************************************************************)
(* Every run of the decoder reads the two files from the same moment of    *)
(* the air, if there is a log: always when no samples were lost; else from *)
(* the first logged pulse after the loss on, and before the loss, if the   *)
(* captures are less than a pulse apart.  If they are further apart the    *)
(* time in the log may be that of an earlier pulse, and the delay after    *)
(* the loss is taken for a run that starts before it.  The exception       *)
(* before a loss is a measured delay of exactly 0, which getdelay.pl       *)
(* replaces by the next one.                                               *)
(***************************************************************************)
StartsAligned ==
  /\ phase = "scan" /\ Clean /\ log # <<>>
  /\ loss.amount = 0 \/ (Together /\ (LossKnown \/ LossAhead))
  => AirTime("LO", StartPos("LO")) = AirTime("HI", StartPos("HI"))

(***************************************************************************)
(* The script starts the decoder where it still reads a block, and so does *)
(* not crash: a target is only found when the receiver is a ring buffer    *)
(* further.  It takes a logged delay that leaves less than a block of that *)
(* to abort it.                                                            *)
(***************************************************************************)
RunsHaveData ==
  exit = "aborted" =>
    \E k \in 1 .. Len(log) :
      log[k].delay > RingBuffer - Block \/ log[k].delay < Block - RingBuffer

\* Every run starts later than the one before, so the script comes to an end.
TraceEnds == <>(phase = "done")
=============================================================================
