---------------------------- MODULE CaptureBanks ----------------------------
(***************************************************************************)
(* The capture program of the full-band sniffer, ismsniffermt.cpp, for one *)
(* of its bands: a thread fills two banks in turn with samples from the    *)
(* radio, another packs them and writes them to a file, a third sends the  *)
(* synchronisation packets until the program is stopped.                   *)
(*                                                                         *)
(* semA[b] is 0 when bank b may be filled, semB[b] is 0 when it may be     *)
(* stored; a thread spins on them with test-and-set.  A bank's content is  *)
(* the number of the chunk in it, and how it got there.                    *)
(***************************************************************************)
EXTENDS Integers, Sequences

CONSTANTS
  Timed,       \* whether --duration was given
  MaxChunks    \* bound on the chunks received

ASSUME CaptureAssumption == Timed \in BOOLEAN /\ MaxChunks \in Nat

VARIABLES
  rx, store, tx,     \* where each thread is
  semA, semB,
  rxkk, storekk,     \* the two loop counters kk
  byte_to_skip,      \* whether the first second is still being discarded
  pieces,            \* recv calls that put samples into the bank so far: 0, 1 or more
  late,              \* whether the duration was over when rx claimed its bank
  bank,
  buffer,            \* what the store thread packed
  file,
  expired,           \* whether the duration is over
  stop_signal_called,
  terminated         \* by an exception thrown in the rx thread

rxvars == <<rx, rxkk, byte_to_skip, pieces, late>>
storevars == <<store, storekk, buffer, file>>
vars == <<rxvars, storevars, tx, semA, semB, bank, expired, stop_signal_called, terminated>>

Bank == 0 .. 1
Content == [chunk : -1 .. MaxChunks, fill : {"partly", "whole", "torn"}]
Empty == [chunk |-> -1, fill |-> "whole"]

rxbank == rxkk % 2
storebank == storekk % 2

\* Mutant: the banks are handed out as already filled.
InitFilled ==
  /\ rx = "top" /\ store = "top"
  /\ tx \in {"run", "done"}  \* no such thread with --nosynch
  /\ semA = [b \in Bank |-> 0] /\ semB = [b \in Bank |-> 0]
  /\ rxkk = 0 /\ storekk = 0
  /\ byte_to_skip = TRUE /\ pieces = 0 /\ late = FALSE
  /\ bank = [b \in Bank |-> Empty] /\ buffer = Empty /\ file = <<>>
  /\ expired = FALSE /\ stop_signal_called = FALSE /\ terminated = FALSE

Init ==
  /\ rx = "top" /\ store = "top"
  /\ tx \in {"run", "done"}  \* no such thread with --nosynch
  /\ semA = [b \in Bank |-> 0] /\ semB = [b \in Bank |-> 1]
  /\ rxkk = 0 /\ storekk = 0
  /\ byte_to_skip = TRUE /\ pieces = 0 /\ late = FALSE
  /\ bank = [b \in Bank |-> Empty] /\ buffer = Empty /\ file = <<>>
  /\ expired = FALSE /\ stop_signal_called = FALSE /\ terminated = FALSE

-----------------------------------------------------------------------------
(***************************************************************************)
(* rx_thread_routine.  MaxChunks bounds the chunks handed over: once the   *)
(* duration is over one more is received, which is not.                    *)
(***************************************************************************)
RxTop ==
  /\ rx = "top"
  /\ stop_signal_called \/ rxkk < MaxChunks \/ (Timed /\ expired)
  /\ rx' = IF stop_signal_called THEN "done" ELSE "spin"
  /\ UNCHANGED <<rxkk, byte_to_skip, pieces, late, storevars, tx, semA, semB, bank,
                 expired, stop_signal_called, terminated>>

\* Mutant: the bank is taken whether or not it has been stored.
RxClaimAnyway ==
  /\ rx = "spin"
  /\ semA' = [semA EXCEPT ![rxbank] = 1]
  /\ late' = expired
  /\ pieces' = 0
  /\ bank' = [bank EXCEPT ![rxbank] = [chunk |-> rxkk, fill |-> "partly"]]
  /\ rx' = "recv"
  /\ UNCHANGED <<rxkk, byte_to_skip, storevars, tx, semB, expired, stop_signal_called,
                 terminated>>

\* The test-and-set that ends the spin; the clock is read here, before the samples come.
RxClaim ==
  /\ rx = "spin"
  /\ semA[rxbank] = 0
  /\ semA' = [semA EXCEPT ![rxbank] = 1]
  /\ late' = expired
  /\ pieces' = 0
  /\ bank' = [bank EXCEPT ![rxbank] = [chunk |-> rxkk, fill |-> "partly"]]
  /\ rx' = "recv"
  /\ UNCHANGED <<rxkk, byte_to_skip, storevars, tx, semB, expired, stop_signal_called,
                 terminated>>

\* One second's samples are received and discarded.
RxSkip ==
  /\ rx = "recv" /\ byte_to_skip
  /\ byte_to_skip' = FALSE
  /\ UNCHANGED <<rx, rxkk, pieces, late, storevars, tx, semA, semB, bank, expired,
                 stop_signal_called, terminated>>

\* An overflow cuts a recv short: another one is needed, and it writes at curbank +
\* samp_in_buff, a number of samples used as a number of bytes.
RxShort ==
  /\ rx = "recv" /\ ~byte_to_skip
  /\ pieces' = 1
  /\ UNCHANGED <<rx, rxkk, byte_to_skip, late, storevars, tx, semA, semB, bank, expired,
                 stop_signal_called, terminated>>

\* Mutant: the samples go to the other bank.
RxFullOther ==
  /\ rx = "recv" /\ ~byte_to_skip
  /\ bank' = [bank EXCEPT ![1 - rxbank] =
                [chunk |-> rxkk, fill |-> IF pieces = 0 THEN "whole" ELSE "torn"]]
  /\ rx' = "publish"
  /\ UNCHANGED <<rxkk, byte_to_skip, pieces, late, storevars, tx, semA, semB, expired,
                 stop_signal_called, terminated>>

\* The bank is full, but for a margin.
RxFull ==
  /\ rx = "recv" /\ ~byte_to_skip
  /\ bank' = [bank EXCEPT ![rxbank] =
                [chunk |-> rxkk, fill |-> IF pieces = 0 THEN "whole" ELSE "torn"]]
  /\ rx' = "publish"
  /\ UNCHANGED <<rxkk, byte_to_skip, pieces, late, storevars, tx, semA, semB, expired,
                 stop_signal_called, terminated>>

\* A timeout throws, which ends the process with all its threads.
RxTimeout ==
  /\ rx = "recv"
  /\ terminated' = TRUE
  /\ UNCHANGED <<rxvars, storevars, tx, semA, semB, bank, expired, stop_signal_called>>

\* Mutant: the full bank is not handed over.
RxPublishForgets ==
  /\ rx = "publish"
  /\ IF Timed /\ late
     THEN rx' = "done" /\ UNCHANGED <<rxkk, semB>>
     ELSE rx' = "top" /\ rxkk' = rxkk + 1 /\ UNCHANGED semB
  /\ UNCHANGED <<byte_to_skip, pieces, late, storevars, tx, semA, bank, expired,
                 stop_signal_called, terminated>>

\* Mutant: the flag is tested before the bank is handed over.
RxPublishTests ==
  /\ rx = "publish"
  /\ IF (Timed /\ late) \/ stop_signal_called
     THEN rx' = "done" /\ UNCHANGED <<rxkk, semB>>
     ELSE rx' = "top" /\ rxkk' = rxkk + 1 /\ semB' = [semB EXCEPT ![rxbank] = 0]
  /\ UNCHANGED <<byte_to_skip, pieces, late, storevars, tx, semA, bank, expired,
                 stop_signal_called, terminated>>

\* Once the duration is over the loop is left, with the bank neither handed over nor freed.
RxPublish ==
  /\ rx = "publish"
  /\ IF Timed /\ late
     THEN rx' = "done" /\ UNCHANGED <<rxkk, semB>>
     ELSE rx' = "top" /\ rxkk' = rxkk + 1 /\ semB' = [semB EXCEPT ![rxbank] = 0]
  /\ UNCHANGED <<byte_to_skip, pieces, late, storevars, tx, semA, bank, expired,
                 stop_signal_called, terminated>>

-----------------------------------------------------------------------------
(***************************************************************************)
(* store_thread_routine                                                    *)
(***************************************************************************)
StoreTop ==
  /\ store = "top"
  /\ store' = IF stop_signal_called THEN "done" ELSE "spin"
  /\ UNCHANGED <<rxvars, storekk, buffer, file, tx, semA, semB, bank, expired,
                 stop_signal_called, terminated>>

StoreClaim ==
  /\ store = "spin"
  /\ semB[storebank] = 0
  /\ semB' = [semB EXCEPT ![storebank] = 1]
  /\ store' = "pack"
  /\ UNCHANGED <<rxvars, storekk, buffer, file, tx, semA, bank, expired,
                 stop_signal_called, terminated>>

StorePack ==
  /\ store = "pack"
  /\ buffer' = bank[storebank]
  /\ store' = "write"
  /\ UNCHANGED <<rxvars, storekk, file, tx, semA, semB, bank, expired,
                 stop_signal_called, terminated>>

\* Written, and the bank freed.
StoreWrite ==
  /\ store = "write"
  /\ file' = Append(file, buffer)
  /\ semA' = [semA EXCEPT ![storebank] = 0]
  /\ storekk' = storekk + 1
  /\ store' = "top"
  /\ UNCHANGED <<rxvars, buffer, tx, semB, bank, expired, stop_signal_called, terminated>>

-----------------------------------------------------------------------------
\* tx_thread_routine: its loop ends with the signal only.
TxDone ==
  /\ tx = "run" /\ stop_signal_called
  /\ tx' = "done"
  /\ UNCHANGED <<rxvars, storevars, semA, semB, bank, expired, stop_signal_called, terminated>>

\* sig_int_handler
SigInt ==
  /\ stop_signal_called' = TRUE
  /\ UNCHANGED <<rxvars, storevars, tx, semA, semB, bank, expired, terminated>>

Expire ==
  /\ expired' = TRUE
  /\ UNCHANGED <<rxvars, storevars, tx, semA, semB, bank, stop_signal_called, terminated>>

RxThread == RxTop \/ RxClaim \/ RxSkip \/ RxShort \/ RxFull \/ RxPublish
StoreThread == StoreTop \/ StoreClaim \/ StorePack \/ StoreWrite

Next ==
  /\ ~terminated
  /\ RxThread \/ RxTimeout \/ StoreThread \/ TxDone \/ SigInt \/ Expire

(***************************************************************************)
(* The threads run and the radio delivers: a spin ends when the other      *)
(* thread has released the bank, since nobody else claims it.              *)
(***************************************************************************)
Spec ==
  /\ Init /\ [][Next]_vars
  /\ WF_vars(~terminated /\ RxThread) /\ WF_vars(~terminated /\ StoreThread)
  /\ WF_vars(~terminated /\ TxDone) /\ WF_vars(~terminated /\ Expire)

-----------------------------------------------------------------------------
\* Types; each bank holds chunks of its own parity.
TypeOK ==
  /\ rx \in {"top", "spin", "recv", "publish", "done"}
  /\ store \in {"top", "spin", "pack", "write", "done"} /\ tx \in {"run", "done"}
  /\ semA \in [Bank -> 0 .. 1] /\ semB \in [Bank -> 0 .. 1]
  /\ rxkk \in 0 .. MaxChunks /\ storekk \in 0 .. MaxChunks
  /\ byte_to_skip \in BOOLEAN /\ pieces \in 0 .. 1 /\ late \in BOOLEAN
  /\ bank \in [Bank -> Content]
  /\ \A b \in Bank : bank[b].chunk = -1 \/ bank[b].chunk % 2 = b
  /\ buffer \in Content /\ \A k \in 1 .. Len(file) : file[k] \in Content
  /\ expired \in BOOLEAN /\ stop_signal_called \in BOOLEAN /\ terminated \in BOOLEAN

(***************************************************************************)
(* The two threads are never at the same bank, although neither semaphore  *)
(* is held while the other thread works: through an interrupt, a duration  *)
(* that ends or a writer that falls behind.                                *)
(***************************************************************************)
BankExclusive ==
  ~(rx \in {"recv", "publish"} /\ store \in {"pack", "write"} /\ rxbank = storebank)

(***************************************************************************)
(* The file holds the chunks received, from the first on, each once, in    *)
(* order, and none half received.                                          *)
(***************************************************************************)
FileInOrder ==
  \A k \in 1 .. Len(file) : file[k].chunk = k - 1 /\ file[k].fill # "partly"

\* The two banks are a queue of two.
Fifo == INSTANCE CaptureFifo WITH
  Depth <- 2,
  sent <- rxkk,
  queue <- [i \in 1 .. rxkk - storekk |-> storekk + i - 1],
  delivered <- [k \in 1 .. Len(file) |-> file[k].chunk]

\* The threads implement it.
IsFifo == Fifo!Spec

(***************************************************************************)
(* A chunk handed over is written, unless the program is interrupted or    *)
(* dies first: no chunk is stuck in a bank both threads wait for.          *)
(***************************************************************************)
ChunkIsStored ==
  \A n \in 0 .. MaxChunks - 1 :
    rxkk > n ~> Len(file) > n \/ stop_signal_called \/ terminated

AllDone == rx = "done" /\ store = "done" /\ tx = "done"

(***************************************************************************)
(* An interrupt that finds the rx thread with a bank in hand ends the      *)
(* program: it hands that bank over before it tests the flag, and so frees *)
(* a writer that waits for it.  One that comes while it waits for a bank,  *)
(* or between handing one over and its test, may leave the other thread    *)
(* spinning.                                                               *)
(***************************************************************************)
InterruptEnds ==
  stop_signal_called /\ rx \in {"recv", "publish"} /\ ~(Timed /\ late)
  ~> AllDone \/ terminated

(***************************************************************************)
(* "total number of seconds to receive": when the duration is over, the    *)
(* program ends, without an interrupt.  The code breaks this: only the rx  *)
(* thread leaves its loop, and main waits for the others.                  *)
(***************************************************************************)
DurationEnds == Timed /\ expired ~> AllDone \/ terminated \/ stop_signal_called
=============================================================================
