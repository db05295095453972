--------------------------- MODULE MCMessageReceive ---------------------------
(* Instances of MessageReceive for TLC. *)
EXTENDS MessageReceive
=============================================================================
