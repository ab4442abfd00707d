--------------------------- MODULE MCCaptureBanks ---------------------------
(***************************************************************************)
(* Five chunks: each bank is filled at least twice, and the receiver can   *)
(* get two banks ahead of the writer and wait for it.                      *)
(***************************************************************************)
EXTENDS CaptureBanks
=============================================================================
