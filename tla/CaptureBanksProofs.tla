------------------------- MODULE CaptureBanksProofs -------------------------
(***************************************************************************)
(* Proofs about CaptureBanks, for any number of chunks, with and without a *)
(* duration.                                                               *)
(***************************************************************************)
EXTENDS CaptureBanks, SequenceTheorems, TLAPS

-----------------------------------------------------------------------------
(***************************************************************************)
(* The inductive invariant.  Handover relates the semaphores, which tell a *)
(* thread what it may do, to the chunks between the two counters, which    *)
(* say what is in the banks.  A semaphore that is 1 says nothing: it is 1  *)
(* while a bank is worked on, and stays so when a thread has left.         *)
(***************************************************************************)
Filling == rx \in {"recv", "publish"}
Storing == store \in {"pack", "write"}
Queued == storekk .. rxkk - 1
Received(content, k) == content.chunk = k /\ content.fill # "partly"

Window ==
  /\ storekk <= rxkk /\ rxkk <= storekk + 2
  /\ Filling => rxkk <= storekk + 1
  /\ Storing => storekk < rxkk

Handover == \A b \in Bank :
  /\ semA[b] = 0 => /\ ~(Filling /\ rxbank = b)
                    /\ \A k \in Queued : k % 2 # b
  /\ semB[b] = 0 => /\ ~(Storing /\ storebank = b)
                    /\ \E k \in Queued : k % 2 = b

Contents ==
  /\ \A k \in Queued : Received(bank[k % 2], k)
  /\ rx = "publish" => Received(bank[rxbank], rxkk)
  /\ store = "write" => Received(buffer, storekk)

FileIsPrefix ==
  /\ Len(file) = storekk
  /\ \A k \in 1 .. Len(file) : Received(file[k], k - 1)

\* At the bound on chunks only a chunk that is not handed over is received.
LastIsLate ==
  rxkk = MaxChunks => /\ rx = "spin" => Timed /\ expired
                      /\ Filling => Timed /\ late

TypeInv == TypeOK /\ file \in Seq(Content)
IInv == TypeInv /\ Window /\ Handover /\ Contents /\ FileIsPrefix /\ LastIsLate

-----------------------------------------------------------------------------
(***************************************************************************)
(* Types.                                                                  *)
(***************************************************************************)
\* Parity: neighbouring chunks are in different banks, chunks two apart in the same.
LEMMA Parity ==
  ASSUME NEW k \in Nat
  PROVE  /\ k % 2 \in Bank /\ (k + 1) % 2 \in Bank
         /\ (k + 1) % 2 # k % 2
         /\ (k + 2) % 2 = k % 2
  BY SMT DEF Bank

\* The receiver's steps keep the types; late is what bounds the counter.
LEMMA RxTypes ==
  ASSUME IInv, RxThread \/ RxTimeout
  PROVE  TypeInv' /\ LastIsLate'
<1> USE CaptureAssumption DEF IInv, TypeInv, TypeOK, LastIsLate, Content, Bank, Filling
<1>1. CASE RxTop
  BY <1>1 DEF RxTop, storevars
<1>2. CASE RxClaim
  BY <1>2, SMTT(30) DEF RxClaim, storevars, rxbank
<1>3. CASE RxSkip
  BY <1>3, ZenonT(60) DEF RxSkip, storevars
<1>4. CASE RxShort
  BY <1>4 DEF RxShort, storevars
<1>5. CASE RxFull
  BY <1>5 DEF RxFull, storevars, rxbank
<1>6. CASE RxPublish
  BY <1>6, SMTT(30) DEF RxPublish, storevars, rxbank
<1>7. CASE RxTimeout
  BY <1>7 DEF RxTimeout, rxvars, storevars
<1> QED
  BY <1>1, <1>2, <1>3, <1>4, <1>5, <1>6, <1>7 DEF RxThread

\* So do the writer's: what it stores is behind what was received.
LEMMA StoreTypes ==
  ASSUME IInv, StoreThread
  PROVE  TypeInv' /\ LastIsLate'
<1> USE CaptureAssumption DEF IInv, TypeInv, TypeOK, LastIsLate, Content, Bank, Filling, rxvars
<1>1. CASE StoreTop
  BY <1>1 DEF StoreTop
<1>2. CASE StoreClaim
  BY <1>2 DEF StoreClaim, storebank
<1>3. CASE StorePack
  BY <1>3 DEF StorePack, storebank
<1>4. CASE StoreWrite
  <2>1. storekk + 1 \in 0 .. MaxChunks
    BY <1>4 DEF StoreWrite, Window, Storing
  <2>2. file' \in Seq(Content) /\ \A k \in 1 .. Len(file') : file'[k] \in Content
    BY <1>4, SMTT(30) DEF StoreWrite
  <2> QED
    BY <1>4, <2>1, <2>2, SMTT(30) DEF StoreWrite, storebank
<1> QED
  BY <1>1, <1>2, <1>3, <1>4 DEF StoreThread

\* The steps outside the two threads touch neither banks nor semaphores.
Outside == RxTimeout \/ TxDone \/ SigInt \/ Expire

LEMMA OutsideKeeps ==
  ASSUME IInv, Outside \/ UNCHANGED vars
  PROVE  IInv'
<1>1. /\ UNCHANGED <<rx, store, semA, semB, rxvars, storevars, bank>>
      /\ expired => expired'
  BY DEF Outside, RxTimeout, TxDone, SigInt, Expire, vars, rxvars, storevars, IInv, TypeInv,
         TypeOK
<1>2. tx' \in {"run", "done"} /\ expired' \in BOOLEAN /\ stop_signal_called' \in BOOLEAN
      /\ terminated' \in BOOLEAN
  BY DEF Outside, RxTimeout, TxDone, SigInt, Expire, vars, IInv, TypeInv, TypeOK
<1>3. TypeInv' /\ LastIsLate'
  BY <1>1, <1>2 DEF IInv, TypeInv, TypeOK, LastIsLate, Filling, rxvars, storevars
<1>4. Window' /\ Contents' /\ FileIsPrefix'
  BY <1>1 DEF IInv, Window, Contents, FileIsPrefix, Filling, Storing, Queued, rxbank,
              rxvars, storevars, Received
<1>5. Handover'
  BY <1>1 DEF IInv, Handover, Filling, Storing, Queued, rxbank, storebank, rxvars, storevars
<1> QED
  BY <1>3, <1>4, <1>5 DEF IInv

-----------------------------------------------------------------------------
(***************************************************************************)
(* The receiver.                                                           *)
(***************************************************************************)
\* Everything but RxClaim, RxFull and RxPublish leaves banks and counters alone.
LEMMA RxWaits ==
  ASSUME IInv, RxTop \/ RxSkip \/ RxShort
  PROVE  IInv'
<1>1. /\ UNCHANGED <<semA, semB, rxkk, storevars, bank>>
      /\ Filling' => Filling
      /\ rx' # "publish"
  BY DEF RxTop, RxSkip, RxShort, Filling
<1>2. Window' /\ Contents' /\ FileIsPrefix'
  BY <1>1 DEF IInv, Window, Contents, FileIsPrefix, Storing, Queued, rxbank, storevars, Received
<1>3. Handover'
  BY <1>1 DEF IInv, Handover, Storing, Queued, rxbank, storebank, storevars
<1> QED
  BY <1>2, <1>3, RxTypes DEF IInv, RxThread

\* The bank claimed holds no chunk that waits, so at most the other one does.
LEMMA ClaimKeeps ==
  ASSUME IInv, RxClaim
  PROVE  IInv'
<1> DEFINE b == rxbank
<1>1. rxkk \in Nat /\ storekk \in Nat /\ rxkk \in 0 .. MaxChunks
  BY DEF IInv, TypeInv, TypeOK
<1>2. b \in Bank /\ semA[b] = 0 /\ \A k \in Queued : k % 2 # b
  BY <1>1, Parity DEF IInv, Handover, RxClaim, rxbank
<1>3. rxkk <= storekk + 1
  <2> SUFFICES ASSUME rxkk = storekk + 2 PROVE FALSE
    BY <1>1 DEF IInv, Window
  <2>1. storekk \in Queued
    BY <1>1 DEF Queued
  <2>2. storekk % 2 = b
    BY <1>1, Parity DEF rxbank
  <2> QED
    BY <1>2, <2>1, <2>2
<1>4. Window'
  BY <1>1, <1>3 DEF IInv, Window, RxClaim, Storing, storevars
<1>5. Handover'
  <2>1. semA' = [semA EXCEPT ![b] = 1] /\ semA \in [Bank -> 0 .. 1] /\ rxbank' = b
        /\ UNCHANGED <<semB, store, storekk, rxkk>>
    BY DEF RxClaim, IInv, TypeInv, TypeOK, rxbank, storevars
  <2>2. Queued' = Queued /\ storebank' = storebank /\ Storing' = Storing
    BY <2>1 DEF Queued, storebank, Storing
  <2> QED
    BY <1>2, <2>1, <2>2 DEF IInv, Handover
<1>6. Contents'
  <2>1. bank' = [bank EXCEPT ![b] = [chunk |-> rxkk, fill |-> "partly"]]
        /\ bank \in [Bank -> Content] /\ rx' = "recv"
        /\ UNCHANGED <<store, storekk, rxkk, buffer>>
    BY DEF RxClaim, IInv, TypeInv, TypeOK, storevars
  <2>2. \A k \in Queued : k % 2 # b /\ k % 2 \in Bank
    BY <1>1, <1>2, Parity DEF Queued
  <2> QED
    BY <2>1, <2>2 DEF IInv, Contents, Queued, Received
<1>7. FileIsPrefix'
  BY DEF RxClaim, IInv, FileIsPrefix, storevars, Received
<1> QED
  BY <1>4, <1>5, <1>6, <1>7, RxTypes DEF IInv, RxThread

\* The chunk that waits is in the other bank.
LEMMA FullKeeps ==
  ASSUME IInv, RxFull
  PROVE  IInv'
<1>1. rxkk \in Nat /\ storekk \in Nat /\ rxkk <= storekk + 1 /\ Filling /\ Filling'
      /\ UNCHANGED <<rxkk, storekk, store, semA, semB, buffer, file>>
  BY DEF IInv, TypeInv, TypeOK, Window, RxFull, Filling, storevars
<1>2. Window' /\ FileIsPrefix'
  BY <1>1 DEF IInv, Window, FileIsPrefix, Storing, Received
<1>3. Handover'
  BY <1>1 DEF IInv, Handover, Storing, Queued, rxbank, storebank
<1>4. Contents'
  <2>1. \A k \in Queued : k % 2 # rxbank /\ k % 2 \in Bank
    <3> TAKE k \in Queued
    <3>1. k = storekk /\ rxkk = k + 1 /\ k \in Nat
      BY <1>1 DEF Queued
    <3> QED
      BY <3>1, Parity DEF rxbank
  <2>2. \E f \in {"whole", "torn"} :
          bank' = [bank EXCEPT ![rxbank] = [chunk |-> rxkk, fill |-> f]]
    BY DEF RxFull
  <2>3. bank \in [Bank -> Content] /\ rxbank \in Bank
    BY <1>1, Parity DEF IInv, TypeInv, TypeOK, rxbank
  <2>4. Received(bank'[rxbank'], rxkk')
    BY <1>1, <2>2, <2>3 DEF Received, rxbank
  <2>5. \A k \in Queued' : Received(bank'[k % 2], k)
    BY <1>1, <2>1, <2>2, <2>3 DEF IInv, Contents, Queued, Received
  <2> QED
    BY <1>1, <2>4, <2>5 DEF IInv, Contents, Received
<1> QED
  BY <1>2, <1>3, <1>4, RxTypes DEF IInv, RxThread

\* Once handed over, the chunk waits behind at most one other.
LEMMA PublishKeeps ==
  ASSUME IInv, RxPublish
  PROVE  IInv'
<1>1. rxkk \in Nat /\ storekk \in Nat /\ storekk <= rxkk /\ rxkk <= storekk + 1 /\ Filling
      /\ ~Filling' /\ rx' # "publish"
      /\ UNCHANGED <<storekk, store, semA, bank, buffer, file>>
  BY DEF IInv, TypeInv, TypeOK, Window, RxPublish, Filling, storevars
<1>2. CASE Timed /\ late
  <2>1. UNCHANGED <<rxkk, semB>>
    BY <1>2 DEF RxPublish
  <2>2. Window' /\ FileIsPrefix' /\ Contents'
    BY <1>1, <2>1 DEF IInv, Window, FileIsPrefix, Contents, Storing, Received, Queued
  <2>3. Handover'
    BY <1>1, <2>1 DEF IInv, Handover, Storing, Queued, rxbank, storebank
  <2> QED
    BY <2>2, <2>3, RxTypes DEF IInv, RxThread
<1>3. CASE ~(Timed /\ late)
  <2>1. rxkk' = rxkk + 1 /\ semB' = [semB EXCEPT ![rxbank] = 0] /\ rxbank \in Bank
        /\ semB \in [Bank -> 0 .. 1]
    BY <1>1, <1>3, Parity DEF RxPublish, IInv, TypeInv, TypeOK, rxbank
  <2>2. Queued' = Queued \cup {rxkk}
    BY <1>1, <2>1 DEF Queued
  <2>3. Window' /\ FileIsPrefix'
    BY <1>1, <2>1 DEF IInv, Window, FileIsPrefix, Storing, Received
  <2>4. Contents'
    <3>1. rx = "publish"
      BY DEF RxPublish
    <3> QED
      BY <1>1, <2>2, <3>1 DEF IInv, Contents, Received, rxbank
  <2>5. \A b \in Bank : semA'[b] = 0 => \A k \in Queued' : k % 2 # b
    BY <1>1, <2>2 DEF IInv, Handover, rxbank
  <2>6. \A b \in Bank : semB'[b] = 0 =>
          ~(Storing' /\ storebank' = b) /\ \E k \in Queued' : k % 2 = b
    <3> SUFFICES ASSUME NEW b \in Bank, semB'[b] = 0
                 PROVE  ~(Storing' /\ storebank' = b) /\ \E k \in Queued' : k % 2 = b
      OBVIOUS
    <3>1. CASE b = rxbank
      <4>1. Storing => storebank # b
        <5> SUFFICES ASSUME Storing PROVE storebank # b
          OBVIOUS
        <5>1. rxkk = storekk + 1
          BY <1>1 DEF IInv, Window
        <5> QED
          BY <1>1, <3>1, <5>1, Parity DEF rxbank, storebank
      <4> QED
        BY <1>1, <2>2, <3>1, <4>1 DEF rxbank, storebank, Storing
    <3>2. CASE b # rxbank
      BY <1>1, <2>1, <2>2, <3>2 DEF IInv, Handover, storebank, Storing
    <3> QED
      BY <3>1, <3>2
  <2>7. Handover'
    BY <1>1, <2>5, <2>6 DEF Handover
  <2> QED
    BY <2>3, <2>4, <2>7, RxTypes DEF IInv, RxThread
<1> QED
  BY <1>2, <1>3

-----------------------------------------------------------------------------
(***************************************************************************)
(* The writer.                                                             *)
(***************************************************************************)
\* The chunk the writer comes to is the first that waits, and is in its bank.
LEMMA FirstWaits ==
  ASSUME IInv, storekk < rxkk
  PROVE  /\ storekk \in Queued /\ storebank \in Bank
         /\ Received(bank[storebank], storekk)
  BY Parity DEF IInv, TypeInv, TypeOK, Queued, Contents, storebank

\* A bank that may be stored holds the chunk whose turn it is.
LEMMA StoreClaimKeeps ==
  ASSUME IInv, StoreTop \/ StoreClaim
  PROVE  IInv'
<1>1. CASE StoreTop
  <2>1. ~Storing /\ ~Storing' /\ UNCHANGED <<rxvars, rx, storekk, buffer, file, semA, semB, bank>>
        /\ store' # "write"
    BY <1>1 DEF StoreTop, Storing, rxvars
  <2>2. Window' /\ FileIsPrefix' /\ Contents'
    BY <2>1 DEF IInv, Window, FileIsPrefix, Contents, Filling, Received, Queued, rxbank, rxvars
  <2>3. Handover'
    BY <2>1 DEF IInv, Handover, Filling, Queued, rxbank, storebank, rxvars
  <2> QED
    BY <1>1, <2>2, <2>3, StoreTypes DEF IInv, StoreThread
<1>2. CASE StoreClaim
  <2>1. rxkk \in Nat /\ storekk \in Nat
    BY DEF IInv, TypeInv, TypeOK
  <2> storebank \in Bank
    BY <2>1, Parity DEF storebank
  <2>2. UNCHANGED <<rxvars, rx, storekk, buffer, file, semA, bank>> /\ ~Storing /\ Storing'
        /\ semB[storebank] = 0 /\ semB' = [semB EXCEPT ![storebank] = 1]
        /\ semB \in [Bank -> 0 .. 1] /\ store' = "pack"
    BY <1>2 DEF StoreClaim, Storing, rxvars, IInv, TypeInv, TypeOK
  <2>3. storekk < rxkk
    <3>1. PICK k \in Queued : k % 2 = storebank
      BY <2>1, <2>2 DEF IInv, Handover
    <3> QED
      BY <2>1, <3>1 DEF Queued
  <2>4. Window' /\ FileIsPrefix' /\ Contents'
    BY <2>2, <2>3 DEF IInv, Window, FileIsPrefix, Contents, Filling, Received, Queued, rxbank, rxvars
  <2>5. Handover'
    BY <2>1, <2>2 DEF IInv, Handover, Filling, Queued, rxbank, storebank, rxvars
  <2> QED
    BY <1>2, <2>4, <2>5, StoreTypes DEF IInv, StoreThread
<1> QED
  BY <1>1, <1>2

\* What is packed is the chunk whose turn it is, complete.
LEMMA PackKeeps ==
  ASSUME IInv, StorePack
  PROVE  IInv'
<1>1. UNCHANGED <<rxvars, rx, storekk, file, semA, semB, bank>> /\ Storing /\ Storing'
      /\ buffer' = bank[storebank]
  BY DEF StorePack, Storing, rxvars
<1>2. Received(buffer', storekk')
  BY <1>1, FirstWaits DEF IInv, Window, Received
<1>3. Window' /\ FileIsPrefix' /\ Contents'
  BY <1>1, <1>2 DEF IInv, Window, FileIsPrefix, Contents, Filling, Received, Queued, rxbank, rxvars
<1>4. Handover'
  BY <1>1 DEF IInv, Handover, Filling, Queued, rxbank, storebank, rxvars
<1> QED
  BY <1>3, <1>4, StoreTypes DEF IInv, StoreThread

\* Freeing the bank is safe: the receiver is at the other one, and so is what still waits.
LEMMA WriteKeeps ==
  ASSUME IInv, StoreWrite
  PROVE  IInv'
<1>1. /\ rxkk \in Nat /\ storekk \in Nat /\ storebank \in Bank /\ storekk < rxkk
      /\ rxkk <= storekk + 2 /\ (Filling => rxkk = storekk + 1)
      /\ Storing /\ ~Storing' /\ store' # "write" /\ storekk' = storekk + 1
      /\ semA \in [Bank -> 0 .. 1] /\ semA' = [semA EXCEPT ![storebank] = 0]
      /\ UNCHANGED <<rxvars, rx, semB, bank>>
      /\ Filling' = Filling /\ rxbank' = rxbank /\ rxkk' = rxkk
  BY Parity DEF StoreWrite, Storing, rxvars, IInv, TypeInv, TypeOK, Window, storebank, Filling, rxbank
<1>2. Queued' = Queued \ {storekk}
  BY <1>1 DEF Queued
<1>3. Window'
  BY <1>1 DEF Window
<1>4. FileIsPrefix'
  <2>1. file \in Seq(Content) /\ file' = Append(file, buffer) /\ Received(buffer, storekk)
        /\ Len(file) = storekk /\ \A k \in 1 .. Len(file) : Received(file[k], k - 1)
    BY DEF StoreWrite, IInv, TypeInv, Contents, FileIsPrefix
  <2>2. Len(file') = storekk + 1 /\ file'[storekk + 1] = buffer
        /\ \A k \in 1 .. storekk : file'[k] = file[k]
    BY <1>1, <2>1
  <2>3. \A k \in 1 .. Len(file') : Received(file'[k], k - 1)
    BY <1>1, <2>1, <2>2 DEF Received
  <2> QED
    BY <1>1, <2>2, <2>3 DEF FileIsPrefix, Received
<1>5. Contents'
  BY <1>1, <1>2 DEF IInv, Contents, Received
<1>6. \A b \in Bank : semA'[b] = 0 => ~(Filling' /\ rxbank' = b) /\ \A k \in Queued' : k % 2 # b
  <2> SUFFICES ASSUME NEW b \in Bank, semA'[b] = 0
               PROVE  ~(Filling /\ rxbank = b) /\ \A k \in Queued' : k % 2 # b
    BY <1>1
  <2>1. CASE b = storebank
    <3>1. Filling => rxbank # b
      BY <1>1, <2>1, Parity DEF rxbank, storebank
    <3>2. \A k \in Queued' : k = storekk + 1
      BY <1>1, <1>2 DEF Queued
    <3> QED
      BY <1>1, <2>1, <3>1, <3>2, Parity DEF storebank
  <2>2. CASE b # storebank
    BY <1>1, <1>2, <2>2 DEF IInv, Handover
  <2> QED
    BY <2>1, <2>2
<1>7. \A b \in Bank : semB'[b] = 0 => ~Storing' /\ \E k \in Queued' : k % 2 = b
  <2> SUFFICES ASSUME NEW b \in Bank, semB[b] = 0 PROVE \E k \in Queued' : k % 2 = b
    BY <1>1
  <2>1. storebank # b /\ \E k \in Queued : k % 2 = b
    BY <1>1 DEF IInv, Handover
  <2> QED
    BY <1>2, <2>1 DEF storebank
<1>8. Handover'
  BY <1>6, <1>7 DEF Handover
<1> QED
  BY <1>3, <1>4, <1>5, <1>8, StoreTypes DEF IInv, StoreThread

-----------------------------------------------------------------------------
\* At the start both banks are free, none may be stored and nothing waits.
LEMMA InitKeeps == Init => IInv
<1> SUFFICES ASSUME Init PROVE IInv
  OBVIOUS
<1>1. TypeInv
  <2>1. Empty \in Content /\ 0 \in 0 .. MaxChunks /\ <<>> \in Seq(Content)
    BY CaptureAssumption DEF Empty, Content
  <2>2. \A b \in Bank : bank[b] = Empty /\ bank[b].chunk = -1
    BY DEF Init, Empty
  <2>3. bank \in [Bank -> Content] /\ semA \in [Bank -> 0 .. 1] /\ semB \in [Bank -> 0 .. 1]
    BY <2>1 DEF Init
  <2>4. file = <<>> /\ \A k \in 1 .. Len(file) : file[k] \in Content
    BY DEF Init
  <2>5. buffer \in Content /\ rxkk \in 0 .. MaxChunks /\ storekk \in 0 .. MaxChunks
    BY <2>1 DEF Init
  <2>6. \A b \in Bank : bank[b].chunk = -1 \/ bank[b].chunk % 2 = b
    BY <2>2
  <2>7. file \in Seq(Content)
    BY <2>1, <2>4
  <2>8. /\ byte_to_skip \in BOOLEAN /\ late \in BOOLEAN /\ expired \in BOOLEAN
        /\ stop_signal_called \in BOOLEAN /\ terminated \in BOOLEAN
    BY Zenon DEF Init
  <2>9. /\ rx \in {"top", "spin", "recv", "publish", "done"} /\ tx \in {"run", "done"}
        /\ store \in {"top", "spin", "pack", "write", "done"} /\ pieces \in 0 .. 1
    BY DEF Init
  <2> QED
    BY <2>3, <2>4, <2>5, <2>6, <2>7, <2>8, <2>9 DEF TypeInv, TypeOK
<1>2. ~Filling /\ ~Storing /\ Queued = {}
  BY DEF Init, Filling, Storing, Queued
<1>3. Window /\ Handover /\ Contents
  BY <1>2 DEF Init, Window, Handover, Contents
<1>4. FileIsPrefix /\ LastIsLate
  BY <1>2 DEF Init, FileIsPrefix, LastIsLate
<1> QED
  BY <1>1, <1>3, <1>4 DEF IInv

\* No step of any thread breaks the handover.
LEMMA NextKeeps == IInv /\ [Next]_vars => IInv'
<1> SUFFICES ASSUME IInv, [Next]_vars PROVE IInv'
  OBVIOUS
<1>1. CASE RxThread
  BY <1>1, RxWaits, ClaimKeeps, FullKeeps, PublishKeeps DEF RxThread
<1>2. CASE StoreThread
  BY <1>2, StoreClaimKeeps, PackKeeps, WriteKeeps DEF StoreThread
<1>3. CASE Outside \/ UNCHANGED vars
  BY <1>3, OutsideKeeps
<1> QED
  BY <1>1, <1>2, <1>3 DEF Next, Outside

(***************************************************************************)
(* Every variable keeps its type, and each bank the chunks of its parity.  *)
(***************************************************************************)
THEOREM TypeCorrect == Spec => []TypeOK
<1>1. IInv => TypeOK
  BY DEF IInv, TypeInv
<1> QED
  BY <1>1, InitKeeps, NextKeeps, PTL DEF Spec

(***************************************************************************)
(* The threads are never at the same bank: when both work, the receiver's  *)
(* chunk is the one after the writer's.                                    *)
(***************************************************************************)
THEOREM BanksAreExclusive == Spec => []BankExclusive
<1>1. IInv => BankExclusive
  <2> SUFFICES ASSUME IInv, Filling, Storing PROVE rxbank # storebank
    BY DEF BankExclusive, Filling, Storing
  <2>1. storekk \in Nat /\ rxkk = storekk + 1
    BY DEF IInv, TypeInv, TypeOK, Window
  <2> QED
    BY <2>1, Parity DEF rxbank, storebank
<1> QED
  BY <1>1, InitKeeps, NextKeeps, PTL DEF Spec

(***************************************************************************)
(* The file holds the chunks received, from the first on, in order, each   *)
(* once and none half received.                                            *)
(***************************************************************************)
THEOREM FileIsInOrder == Spec => []FileInOrder
<1>1. IInv => FileInOrder
  BY DEF IInv, FileIsPrefix, FileInOrder, Received
<1> QED
  BY <1>1, InitKeeps, NextKeeps, PTL DEF Spec

-----------------------------------------------------------------------------
(***************************************************************************)
(* The two banks implement the queue: handing a chunk over is Put, having  *)
(* written one is Get, and no other step is seen.                          *)
(***************************************************************************)
QueueOf(first, next) == [i \in 1 .. next - first |-> first + i - 1]

\* Consecutive chunks are a sequence, which grows at one end and shrinks at the other.
LEMMA QueueIsSeq ==
  ASSUME NEW first \in Nat, NEW next \in Nat, first <= next
  PROVE  /\ QueueOf(first, next) \in Seq(Nat)
         /\ Len(QueueOf(first, next)) = next - first
         /\ QueueOf(first, next + 1) = Append(QueueOf(first, next), next)
         /\ first < next => /\ QueueOf(first, next) # <<>>
                            /\ Head(QueueOf(first, next)) = first
                            /\ QueueOf(first + 1, next) = Tail(QueueOf(first, next))
<1> DEFINE q == QueueOf(first, next)
<1>1. q \in Seq(Nat) /\ Len(q) = next - first /\ \A i \in 1 .. Len(q) : q[i] = first + i - 1
  BY DEF QueueOf
<1>2. QueueOf(first, next + 1) = Append(q, next)
  <2>1. QueueOf(first, next + 1) \in Seq(Nat) /\ Len(QueueOf(first, next + 1)) = next + 1 - first
        /\ \A i \in 1 .. next + 1 - first : QueueOf(first, next + 1)[i] = first + i - 1
    BY DEF QueueOf
  <2>2. Append(q, next) \in Seq(Nat) /\ Len(Append(q, next)) = next + 1 - first
        /\ \A i \in 1 .. next + 1 - first : Append(q, next)[i] = first + i - 1
    BY <1>1, SMTT(30)
  <2> QED
    BY <2>1, <2>2, SeqEqual, ZenonT(60)
<1>3. ASSUME first < next
      PROVE  q # <<>> /\ Head(q) = first /\ QueueOf(first + 1, next) = Tail(q)
  <2>1. q # <<>> /\ Head(q) = first
    BY <1>1, <1>3
  <2>2. Tail(q) \in Seq(Nat) /\ Len(Tail(q)) = next - first - 1
        /\ \A i \in 1 .. next - first - 1 : Tail(q)[i] = first + i
    BY <1>1, <1>3
  <2>3. QueueOf(first + 1, next) \in Seq(Nat) /\ Len(QueueOf(first + 1, next)) = next - first - 1
        /\ \A i \in 1 .. next - first - 1 : QueueOf(first + 1, next)[i] = first + i
    BY <1>3 DEF QueueOf
  <2>4. QueueOf(first + 1, next) = Tail(q)
    BY <2>2, <2>3, SeqEqual
  <2> QED
    BY <2>1, <2>4
<1> QED
  BY <1>1, <1>2, <1>3

\* What the file delivers grows by the chunk that is written.
LEMMA DeliveredGrows ==
  ASSUME NEW f \in Seq(Content), NEW c \in Content
  PROVE  [k \in 1 .. Len(Append(f, c)) |-> Append(f, c)[k].chunk]
           = Append([k \in 1 .. Len(f) |-> f[k].chunk], c.chunk)
<1> DEFINE d == [k \in 1 .. Len(f) |-> f[k].chunk]
           e == [k \in 1 .. Len(Append(f, c)) |-> Append(f, c)[k].chunk]
<1>1. \A x \in Content : x.chunk \in Int
  BY CaptureAssumption DEF Content
<1>2. d \in Seq(Int) /\ Len(d) = Len(f) /\ \A k \in 1 .. Len(f) : d[k] = f[k].chunk
  <2>1. \A k \in 1 .. Len(f) : f[k] \in Content
    OBVIOUS
  <2> QED
    BY <1>1, <2>1
<1>3. Len(Append(f, c)) = Len(f) + 1 /\ Append(f, c)[Len(f) + 1] = c
      /\ \A k \in 1 .. Len(f) : Append(f, c)[k] = f[k]
  OBVIOUS
<1>4. c.chunk \in Int
  BY <1>1
<1>5. e \in Seq(Int) /\ Len(e) = Len(f) + 1 /\ e[Len(f) + 1] = c.chunk
      /\ \A k \in 1 .. Len(f) : e[k] = f[k].chunk
  <2>1. \A k \in 1 .. Len(f) + 1 : Append(f, c)[k] \in Content
    OBVIOUS
  <2> QED
    BY <1>1, <1>3, <2>1
<1>6. Append(d, c.chunk) \in Seq(Int) /\ Len(Append(d, c.chunk)) = Len(f) + 1
      /\ Append(d, c.chunk)[Len(f) + 1] = c.chunk
      /\ \A k \in 1 .. Len(f) : Append(d, c.chunk)[k] = f[k].chunk
  BY <1>2, <1>4
<1> QED
  BY <1>5, <1>6, SeqEqual

(***************************************************************************)
(* CaptureBanks implements CaptureFifo with a depth of two.                *)
(***************************************************************************)
THEOREM BanksAreFifo == Spec => IsFifo
<1>1. Init => Fifo!Init
  BY DEF Init, Fifo!Init
<1>2. IInv /\ [Next]_vars => [Fifo!Next]_(Fifo!vars)
  <2> SUFFICES ASSUME IInv, [Next]_vars PROVE [Fifo!Next]_(Fifo!vars)
    OBVIOUS
  <2>1. rxkk \in Nat /\ storekk \in Nat /\ storekk <= rxkk /\ (Filling => rxkk <= storekk + 1)
    BY DEF IInv, TypeInv, TypeOK, Window
  <2>2. CASE UNCHANGED <<rxkk, storekk, file>>
    BY <2>2 DEF Fifo!vars
  <2>3. CASE RxPublish /\ ~(Timed /\ late)
    <3>1. rxkk' = rxkk + 1 /\ Filling /\ UNCHANGED <<storekk, file>>
      BY <2>3 DEF RxPublish, Filling, storevars
    <3>2. /\ Len(QueueOf(storekk, rxkk)) = rxkk - storekk
          /\ QueueOf(storekk, rxkk + 1) = Append(QueueOf(storekk, rxkk), rxkk)
      BY <2>1, QueueIsSeq
    <3>3. Fifo!Put
      BY <2>1, <3>1, <3>2 DEF Fifo!Put, QueueOf
    <3> QED
      BY <3>3 DEF Fifo!Next
  <2>4. CASE StoreWrite
    <3>1. storekk' = storekk + 1 /\ file' = Append(file, buffer) /\ UNCHANGED rxkk
          /\ storekk < rxkk /\ buffer.chunk = storekk /\ file \in Seq(Content) /\ buffer \in Content
      BY <2>4 DEF StoreWrite, rxvars, IInv, Window, Storing, Contents, Received, TypeInv, TypeOK
    <3>2. /\ QueueOf(storekk, rxkk) # <<>>
          /\ Head(QueueOf(storekk, rxkk)) = storekk
          /\ QueueOf(storekk', rxkk) = Tail(QueueOf(storekk, rxkk))
      BY <2>1, <3>1, QueueIsSeq
    <3>3. [k \in 1 .. Len(file') |-> file'[k].chunk]
            = Append([k \in 1 .. Len(file) |-> file[k].chunk], storekk)
      BY <3>1, DeliveredGrows
    <3>4. Fifo!Get
      BY <3>1, <3>2, <3>3 DEF Fifo!Get, QueueOf
    <3> QED
      BY <3>4 DEF Fifo!Next
  <2>5. RxPublish /\ Timed /\ late => UNCHANGED <<rxkk, storekk, file>>
    BY DEF RxPublish, storevars
  <2>6. ~RxPublish /\ ~StoreWrite => UNCHANGED <<rxkk, storekk, file>>
    BY DEF Next, vars, RxThread, StoreThread, RxTop, RxClaim, RxSkip, RxShort, RxFull, RxTimeout,
           StoreTop, StoreClaim, StorePack, TxDone, SigInt, Expire, rxvars, storevars
  <2> QED
    BY <2>2, <2>3, <2>4, <2>5, <2>6
<1> QED
  BY <1>1, <1>2, InitKeeps, NextKeeps, PTL DEF Spec, IsFifo, Fifo!Spec
=============================================================================
