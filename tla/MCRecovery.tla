----------------------------- MODULE MCRecovery -----------------------------
(* One API process and one worker.                                         *)
EXTENDS Recovery

CONSTANTS api, w1
=============================================================================
