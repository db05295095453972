--------------------------- MODULE MCEventBuffer ------------------------------
(* Two tasks: one can wait for the lock behind another that hands out       *)
(* upserts, and buffered functions of both can overlap.                     *)
EXTENDS EventBuffer
=============================================================================
