----------------------------- MODULE CaptureFifo -----------------------------
(***************************************************************************)
(* What the two threads of ismsniffermt promise together: the chunks the   *)
(* radio delivers reach the file in order, each once, and never more than  *)
(* Depth of them are waiting.                                              *)
(***************************************************************************)
EXTENDS Naturals, Sequences

CONSTANT Depth

VARIABLES sent, queue, delivered
vars == <<sent, queue, delivered>>

Init == sent = 0 /\ queue = <<>> /\ delivered = <<>>

Put ==
  /\ Len(queue) < Depth
  /\ sent' = sent + 1
  /\ queue' = Append(queue, sent)
  /\ UNCHANGED delivered

Get ==
  /\ queue # <<>>
  /\ delivered' = Append(delivered, Head(queue))
  /\ queue' = Tail(queue)
  /\ UNCHANGED sent

Next == Put \/ Get
Spec == Init /\ [][Next]_vars
=============================================================================
