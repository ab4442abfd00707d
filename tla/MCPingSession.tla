--------------------------- MODULE MCPingSession ---------------------------
(***************************************************************************)
(* Instances of PingSession.  Three requests, each to start or to stop,    *)
(* are what a late reset of the tracker needs: one session ends by itself  *)
(* while a second request waits for it, a third starts a session before    *)
(* the second resumes.                                                     *)
(***************************************************************************)
EXTENDS PingSession
=============================================================================
