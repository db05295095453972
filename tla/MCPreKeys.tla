------------------------------ MODULE MCPreKeys ------------------------------
(* Finite instances of PreKeys for TLC. *)
EXTENDS PreKeys

==============================================================================
