--------------------------- MODULE MCSessionRecovery ---------------------------
(* Crash and recovery for TLC. *)
EXTENDS SessionRecovery
=============================================================================
