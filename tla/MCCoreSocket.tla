----------------------------- MODULE MCCoreSocket -----------------------------
(* Small instances of CoreSocket: with faults a tick stands for 30 seconds,  *)
(* with a prompt server for 15, and the grace of 5 seconds for less than one. *)
EXTENDS CoreSocket
=============================================================================
