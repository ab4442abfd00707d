--------------------------- MODULE SnifferBuffers ---------------------------
(***************************************************************************)
(* The two threads of the single-board sniffer, btsniffer.cpp: main fills  *)
(* two banks in turn with the samples it receives, proc_routine filters    *)
(* one bank after the other and looks for packets in it.  Between them are *)
(* the variable bufselect and two spin locks.                              *)
(*                                                                         *)
(* A bank is filled by a number of recv calls, one piece each, and read    *)
(* piece by piece; a piece's content is the number of the chunk it belongs *)
(* to, NotYet before the first.                                            *)
(***************************************************************************)
EXTENDS Integers, Sequences

CONSTANTS
  Pieces,      \* usrp_nbuffers: recv calls for one bank
  MaxChunks,   \* bound on the chunks received
  MaxPasses    \* bound on the passes of the processing loop

ASSUME BuffersAssumption ==
  Pieces \in Nat \ {0} /\ MaxChunks \in Nat /\ MaxPasses \in Nat

VARIABLES
  bufselect, lock,
  bank,               \* "A" and "B": each a sequence of pieces
  main, chunk, n,     \* the main thread: where it is, the chunk and the piece it is at
  proc, local_bufselect, sigbuf,
  samples_processed,  \* in banks
  stopsig,
  terminated          \* by an exception thrown in main

mainvars == <<main, chunk, n>>
procvars == <<proc, local_bufselect, sigbuf, samples_processed>>
vars == <<bufselect, lock, bank, mainvars, procvars, stopsig, terminated>>

Select == 0 .. 1
Bank == {"A", "B"}
NotYet == -1

\* The bank main fills, and the one proc_routine reads, for a value of bufselect.
Filled(sel) == IF sel = 1 THEN "A" ELSE "B"
Read(sel) == IF sel = 1 THEN "B" ELSE "A"

Init ==
  /\ bufselect = 0 /\ lock = [s \in Select |-> "free"]
  /\ bank = [b \in Bank |-> [i \in 1 .. Pieces |-> NotYet]]
  /\ main = "top" /\ chunk = 0 /\ n = 0
  /\ proc = "top" /\ local_bufselect = 0 /\ sigbuf = <<>> /\ samples_processed = 0
  /\ stopsig = FALSE /\ terminated = FALSE

-----------------------------------------------------------------------------
\* One more pass of the streaming loop: the other bank is selected, before it is locked.
MainSelect ==
  /\ main = "top" /\ ~stopsig /\ chunk < MaxChunks
  /\ bufselect' = (bufselect + 1) % 2
  /\ main' = "lock"
  /\ UNCHANGED <<lock, bank, chunk, n, procvars, stopsig, terminated>>

MainLock ==
  /\ main = "lock" /\ lock[bufselect] = "free"
  /\ lock' = [lock EXCEPT ![bufselect] = "main"]
  /\ main' = "recv"
  /\ UNCHANGED <<bufselect, bank, chunk, n, procvars, stopsig, terminated>>

\* An overflow is reported and nothing else.
MainRecv ==
  /\ main = "recv" /\ n < Pieces
  /\ bank' = [bank EXCEPT ![Filled(bufselect)][n + 1] = chunk]
  /\ n' = n + 1
  /\ UNCHANGED <<bufselect, lock, main, chunk, procvars, stopsig, terminated>>

\* Any other error throws out of main.
MainThrows ==
  /\ main = "recv" /\ n < Pieces
  /\ terminated' = TRUE
  /\ UNCHANGED <<bufselect, lock, bank, mainvars, procvars, stopsig>>

\* Mutant: the lock is kept.
MainUnlockForgets ==
  /\ main = "recv" /\ n = Pieces
  /\ n' = 0 /\ chunk' = chunk + 1
  /\ main' = "top"
  /\ UNCHANGED <<bufselect, lock, bank, procvars, stopsig, terminated>>

MainUnlock ==
  /\ main = "recv" /\ n = Pieces
  /\ lock' = [lock EXCEPT ![bufselect] = "free"]
  /\ n' = 0 /\ chunk' = chunk + 1
  /\ main' = "top"
  /\ UNCHANGED <<bufselect, bank, procvars, stopsig, terminated>>

MainLeaves ==
  /\ main = "top" /\ stopsig
  /\ main' = "join"
  /\ UNCHANGED <<bufselect, lock, bank, chunk, n, procvars, stopsig, terminated>>

-----------------------------------------------------------------------------
ProcSelect ==
  /\ proc = "top" /\ ~stopsig /\ samples_processed < MaxPasses
  /\ local_bufselect' = bufselect
  /\ proc' = "lock"
  /\ UNCHANGED <<bufselect, lock, bank, mainvars, sigbuf, samples_processed, stopsig,
                 terminated>>

\* The lock is held while sigbuf is cleared.
ProcLock ==
  /\ proc = "lock" /\ lock[local_bufselect] = "free"
  /\ lock' = [lock EXCEPT ![local_bufselect] = "proc"]
  /\ sigbuf' = <<>>
  /\ proc' = "unlock"
  /\ UNCHANGED <<bufselect, bank, mainvars, local_bufselect, samples_processed, stopsig,
                 terminated>>

\* Mutant: the lock released is the one selected by now.
ProcUnlockShared ==
  /\ proc = "unlock"
  /\ lock' = [lock EXCEPT ![bufselect] = "free"]
  /\ proc' = "filter"
  /\ UNCHANGED <<bufselect, bank, mainvars, local_bufselect, sigbuf, samples_processed,
                 stopsig, terminated>>

ProcUnlock ==
  /\ proc = "unlock"
  /\ lock' = [lock EXCEPT ![local_bufselect] = "free"]
  /\ proc' = "filter"
  /\ UNCHANGED <<bufselect, bank, mainvars, local_bufselect, sigbuf, samples_processed,
                 stopsig, terminated>>

ProcFilter ==
  /\ proc = "filter" /\ Len(sigbuf) < Pieces
  /\ sigbuf' = Append(sigbuf, bank[Read(local_bufselect)][Len(sigbuf) + 1])
  /\ UNCHANGED <<bufselect, lock, bank, mainvars, proc, local_bufselect,
                 samples_processed, stopsig, terminated>>

\* The packets found are processed, and the sample count advanced by a whole bank.
ProcCount ==
  /\ proc = "filter" /\ Len(sigbuf) = Pieces
  /\ samples_processed' = samples_processed + 1
  /\ proc' = "top"
  /\ UNCHANGED <<bufselect, lock, bank, mainvars, local_bufselect, sigbuf, stopsig,
                 terminated>>

ProcLeaves ==
  /\ proc = "top" /\ stopsig
  /\ proc' = "done"
  /\ UNCHANGED <<bufselect, lock, bank, mainvars, local_bufselect, sigbuf,
                 samples_processed, stopsig, terminated>>

\* SIGINT, or a brute force of the UAP that goes wrong in proc_routine.
Stop ==
  /\ stopsig' = TRUE
  /\ UNCHANGED <<bufselect, lock, bank, mainvars, procvars, terminated>>

Main == MainSelect \/ MainLock \/ MainRecv \/ MainUnlock \/ MainLeaves
Proc == ProcSelect \/ ProcLock \/ ProcUnlock \/ ProcFilter \/ ProcCount \/ ProcLeaves

Next == ~terminated /\ (Main \/ MainThrows \/ Proc \/ Stop)

(***************************************************************************)
(* Both threads run, at real-time priority, and recv returns within its    *)
(* timeout.  Nothing makes a contended spin lock fair.                     *)
(***************************************************************************)
Spec ==
  Init /\ [][Next]_vars /\ WF_vars(~terminated /\ Main) /\ WF_vars(~terminated /\ Proc)

-----------------------------------------------------------------------------
\* Types; a lock is held exactly where its thread is inside it.
TypeAndLocksOK ==
  /\ bufselect \in Select /\ lock \in [Select -> {"free", "main", "proc"}]
  /\ bank \in [Bank -> [1 .. Pieces -> NotYet .. MaxChunks]]
  /\ main \in {"top", "lock", "recv", "join"} /\ chunk \in 0 .. MaxChunks /\ n \in 0 .. Pieces
  /\ proc \in {"top", "lock", "unlock", "filter", "done"} /\ local_bufselect \in Select
  /\ Len(sigbuf) \in 0 .. Pieces /\ samples_processed \in 0 .. MaxPasses
  /\ \A i \in 1 .. Len(sigbuf) : sigbuf[i] \in NotYet .. MaxChunks
  /\ stopsig \in BOOLEAN /\ terminated \in BOOLEAN
  /\ \A s \in Select : /\ lock[s] = "main" <=> main = "recv" /\ s = bufselect
                       /\ lock[s] = "proc" <=> proc = "unlock" /\ s = local_bufselect

(***************************************************************************)
(* "Claim buffer for writing", under "Lock buffer": nobody reads the bank  *)
(* main is filling.  The code breaks this: for one value of bufselect the  *)
(* two threads take the same lock and different banks, and for different   *)
(* values different locks and the same bank.                               *)
(***************************************************************************)
BankExclusive ==
  ~(main = "recv" /\ proc = "filter" /\ Filled(bufselect) = Read(local_bufselect))

(***************************************************************************)
(* Once stopped, both threads leave their loops, whichever lock either is  *)
(* spinning for: no lock is left held.                                     *)
(***************************************************************************)
StopEnds == stopsig ~> (main = "join" /\ proc = "done") \/ terminated
=============================================================================
