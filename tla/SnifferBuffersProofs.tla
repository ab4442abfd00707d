------------------------- MODULE SnifferBuffersProofs -------------------------
(***************************************************************************)
(* Proofs about SnifferBuffers, for any number of pieces, chunks and       *)
(* passes: the two spin locks are held exactly where a thread is between   *)
(* taking and releasing one, although the variable that says which one is  *)
(* changed without a lock.                                                 *)
(***************************************************************************)
EXTENDS SnifferBuffers, SequenceTheorems, TLAPS

Chunk == NotYet .. MaxChunks

MainOK ==
  /\ bufselect \in Select
  /\ bank \in [Bank -> [1 .. Pieces -> Chunk]]
  /\ main \in {"top", "lock", "recv", "join"} /\ chunk \in 0 .. MaxChunks /\ n \in 0 .. Pieces
  /\ main \in {"lock", "recv"} => chunk < MaxChunks

ProcOK ==
  /\ proc \in {"top", "lock", "unlock", "filter", "done"} /\ local_bufselect \in Select
  /\ sigbuf \in Seq(Chunk) /\ Len(sigbuf) \in 0 .. Pieces
  /\ samples_processed \in 0 .. MaxPasses
  /\ proc \in {"lock", "unlock", "filter"} => samples_processed < MaxPasses

StopOK == stopsig \in BOOLEAN /\ terminated \in BOOLEAN

\* Each lock is held by the thread that is inside it, or free.
Holder(s) ==
  IF main = "recv" /\ s = bufselect THEN "main"
  ELSE IF proc = "unlock" /\ s = local_bufselect THEN "proc" ELSE "free"
LocksOK ==
  /\ lock = [s \in Select |-> Holder(s)]
  /\ main = "recv" /\ proc = "unlock" => bufselect # local_bufselect

IInv == MainOK /\ ProcOK /\ StopOK /\ LocksOK

\* The invariant says what TypeAndLocksOK says, and that a thread that works is not at its bound.
LEMMA InvType == IInv => TypeAndLocksOK
<1> SUFFICES ASSUME IInv PROVE TypeAndLocksOK
  OBVIOUS
<1>1. lock \in [Select -> {"free", "main", "proc"}]
  BY DEF IInv, LocksOK, Holder
<1>2. \A s \in Select : /\ lock[s] = "main" <=> main = "recv" /\ s = bufselect
                        /\ lock[s] = "proc" <=> proc = "unlock" /\ s = local_bufselect
  BY DEF IInv, LocksOK, Holder
<1>3. \A i \in 1 .. Len(sigbuf) : sigbuf[i] \in Chunk
  BY ElementOfSeq DEF IInv, ProcOK
<1> QED
  BY <1>1, <1>2, <1>3 DEF IInv, MainOK, ProcOK, StopOK, TypeAndLocksOK, Chunk

\* Nothing is held at the start.
LEMMA InitInv == Init => IInv
<1> SUFFICES ASSUME Init PROVE IInv
  OBVIOUS
<1>1. NotYet \in Chunk
  BY BuffersAssumption DEF NotYet, Chunk
<1>2. MainOK
  BY <1>1, BuffersAssumption DEF Init, MainOK, Select
<1>3. ProcOK
  <2>1. <<>> \in Seq(Chunk) /\ Len(<<>>) = 0
    OBVIOUS
  <2> QED
    BY <2>1, BuffersAssumption DEF Init, ProcOK, Select
<1>4. StopOK
  BY Zenon DEF Init, StopOK
<1>5. LocksOK
  BY DEF Init, LocksOK, Holder
<1> QED
  BY <1>2, <1>3, <1>4, <1>5 DEF IInv

\* A step of main keeps it: the lock it releases is the one it took.
LEMMA MainInv == IInv /\ Main => IInv'
<1> SUFFICES ASSUME IInv, Main PROVE IInv'
  OBVIOUS
<1>0. /\ MainOK /\ ProcOK /\ StopOK /\ LocksOK
      /\ UNCHANGED procvars /\ UNCHANGED stopsig /\ UNCHANGED terminated
  BY DEF IInv, Main, MainSelect, MainLock, MainRecv, MainUnlock, MainLeaves
<1>1. ProcOK' /\ StopOK'
  BY <1>0 DEF procvars, ProcOK, StopOK
<1>2. CASE MainSelect
  <2>1. (bufselect + 1) % 2 \in Select
    BY <1>0 DEF MainOK, Select
  <2>2. MainOK'
    BY <1>0, <1>2, <2>1 DEF MainSelect, MainOK
  <2>3. LocksOK'
    BY <1>0, <1>2 DEF MainSelect, procvars, LocksOK, Holder
  <2> QED
    BY <1>1, <2>2, <2>3 DEF IInv
<1>3. CASE MainLock
  <2>1. MainOK'
    BY <1>0, <1>3 DEF MainLock, MainOK
  <2>2. LocksOK'
    BY <1>0, <1>3 DEF MainLock, MainOK, procvars, LocksOK, Holder
  <2> QED
    BY <1>1, <2>1, <2>2 DEF IInv
<1>4. CASE MainRecv
  <2>1. bank' \in [Bank -> [1 .. Pieces -> Chunk]]
    <3>1. chunk \in Chunk /\ n + 1 \in 1 .. Pieces
      BY <1>0, <1>4, BuffersAssumption DEF MainRecv, MainOK, Chunk, NotYet
    <3>2. bank' = [bank EXCEPT ![Filled(bufselect)][n + 1] = chunk]
      BY <1>4 DEF MainRecv
    <3> QED
      BY <1>0, <3>1, <3>2 DEF MainOK, Filled, Bank
  <2>2. MainOK'
    BY <1>0, <1>4, <2>1, BuffersAssumption DEF MainRecv, MainOK
  <2>3. LocksOK'
    BY <1>0, <1>4 DEF MainRecv, procvars, LocksOK, Holder
  <2> QED
    BY <1>1, <2>2, <2>3 DEF IInv
<1>5. CASE MainUnlock
  <2>1. MainOK'
    BY <1>0, <1>5, BuffersAssumption DEF MainUnlock, MainOK
  <2>2. LocksOK'
    BY <1>0, <1>5 DEF MainUnlock, MainOK, procvars, LocksOK, Holder
  <2> QED
    BY <1>1, <2>1, <2>2 DEF IInv
<1>6. CASE MainLeaves
  <2>1. MainOK'
    BY <1>0, <1>6 DEF MainLeaves, MainOK
  <2>2. LocksOK'
    BY <1>0, <1>6 DEF MainLeaves, procvars, LocksOK, Holder
  <2> QED
    BY <1>1, <2>1, <2>2 DEF IInv
<1> QED
  BY <1>2, <1>3, <1>4, <1>5, <1>6 DEF Main

\* So does a step of proc_routine, whatever bufselect is by now.
LEMMA ProcInv == IInv /\ Proc => IInv'
<1> SUFFICES ASSUME IInv, Proc PROVE IInv'
  OBVIOUS
<1>0. /\ MainOK /\ ProcOK /\ StopOK /\ LocksOK
      /\ UNCHANGED mainvars /\ UNCHANGED <<bufselect, bank, stopsig, terminated>>
  BY DEF IInv, Proc, ProcSelect, ProcLock, ProcUnlock, ProcFilter, ProcCount, ProcLeaves
<1>1. MainOK' /\ StopOK'
  BY <1>0 DEF mainvars, MainOK, StopOK
<1>2. main' = main /\ bufselect' = bufselect
  BY <1>0 DEF mainvars
<1>3. CASE ProcSelect
  <2>1. ProcOK'
    BY <1>0, <1>3 DEF ProcSelect, ProcOK, MainOK
  <2>2. LocksOK'
    BY <1>0, <1>2, <1>3 DEF ProcSelect, LocksOK, Holder
  <2> QED
    BY <1>1, <2>1, <2>2 DEF IInv
<1>4. CASE ProcLock
  <2>1. <<>> \in Seq(Chunk) /\ Len(<<>>) = 0
    OBVIOUS
  <2>2. ProcOK'
    BY <1>0, <1>4, <2>1, BuffersAssumption DEF ProcLock, ProcOK
  <2>3. LocksOK'
    BY <1>0, <1>2, <1>4 DEF ProcLock, ProcOK, LocksOK, Holder
  <2> QED
    BY <1>1, <2>2, <2>3 DEF IInv
<1>5. CASE ProcUnlock
  <2>1. ProcOK'
    BY <1>0, <1>5 DEF ProcUnlock, ProcOK
  <2>2. LocksOK'
    BY <1>0, <1>2, <1>5 DEF ProcUnlock, ProcOK, LocksOK, Holder
  <2> QED
    BY <1>1, <2>1, <2>2 DEF IInv
<1>6. CASE ProcFilter
  <2>1. sigbuf' \in Seq(Chunk) /\ Len(sigbuf') = Len(sigbuf) + 1
    <3>1. Len(sigbuf) + 1 \in 1 .. Pieces /\ Read(local_bufselect) \in Bank
      BY <1>0, <1>6, BuffersAssumption DEF ProcFilter, ProcOK, Read, Bank
    <3>2. bank[Read(local_bufselect)][Len(sigbuf) + 1] \in Chunk
      BY <1>0, <3>1 DEF MainOK
    <3> QED
      BY <1>0, <1>6, <3>2, AppendProperties DEF ProcFilter, ProcOK
  <2>2. ProcOK'
    BY <1>0, <1>6, <2>1, BuffersAssumption DEF ProcFilter, ProcOK
  <2>3. LocksOK'
    BY <1>0, <1>2, <1>6 DEF ProcFilter, LocksOK, Holder
  <2> QED
    BY <1>1, <2>2, <2>3 DEF IInv
<1>7. CASE ProcCount
  <2>1. ProcOK'
    BY <1>0, <1>7, BuffersAssumption DEF ProcCount, ProcOK
  <2>2. LocksOK'
    BY <1>0, <1>2, <1>7 DEF ProcCount, LocksOK, Holder
  <2> QED
    BY <1>1, <2>1, <2>2 DEF IInv
<1>8. CASE ProcLeaves
  <2>1. ProcOK'
    BY <1>0, <1>8 DEF ProcLeaves, ProcOK
  <2>2. LocksOK'
    BY <1>0, <1>2, <1>8 DEF ProcLeaves, LocksOK, Holder
  <2> QED
    BY <1>1, <2>1, <2>2 DEF IInv
<1> QED
  BY <1>3, <1>4, <1>5, <1>6, <1>7, <1>8 DEF Proc

\* Every step keeps the invariant.
LEMMA NextInv == IInv /\ [Next]_vars => IInv'
<1> SUFFICES ASSUME IInv, [Next]_vars PROVE IInv'
  OBVIOUS
<1>1. CASE Main
  BY <1>1, MainInv
<1>2. CASE Proc
  BY <1>2, ProcInv
<1>3. ASSUME UNCHANGED <<bufselect, lock, bank, mainvars, procvars>>, StopOK' PROVE IInv'
  BY <1>3 DEF IInv, MainOK, ProcOK, LocksOK, Holder, mainvars, procvars
<1>4. CASE MainThrows \/ Stop \/ UNCHANGED vars
  <2>1. StopOK'
    BY <1>4 DEF MainThrows, Stop, vars, IInv, StopOK
  <2> QED
    BY <1>3, <1>4, <2>1 DEF MainThrows, Stop, vars
<1> QED
  BY <1>1, <1>2, <1>4 DEF Next

(***************************************************************************)
(* A lock is held exactly by the thread that is between taking and         *)
(* releasing it, and never by both, at whichever bank each is.             *)
(***************************************************************************)
THEOREM Invariance == Spec => []IInv
  BY InitInv, NextInv, PTL DEF Spec

(***************************************************************************)
(* Type correctness, and the locks: each is held exactly while its thread  *)
(* is inside it, so that no thread releases the other's.                   *)
(***************************************************************************)
THEOREM TypeCorrect == Spec => []TypeAndLocksOK
  BY Invariance, InvType, PTL

=============================================================================
