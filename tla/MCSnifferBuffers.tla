-------------------------- MODULE MCSnifferBuffers --------------------------
(***************************************************************************)
(* Two recv calls a bank, so that a bank is seen half overwritten; five    *)
(* chunks, so that each bank is overwritten at least once; three passes.   *)
(***************************************************************************)
EXTENDS SnifferBuffers
=============================================================================
