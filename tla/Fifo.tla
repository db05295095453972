-------------------------------- MODULE Fifo --------------------------------
(***************************************************************************)
(* What a channel promises: what is received is what was sent, in the      *)
(* order of sending, once, and nothing that comes after what was lost.     *)
(***************************************************************************)
EXTENDS Naturals, Sequences

CONSTANT Messages

VARIABLES sent, received

Init == sent = <<>> /\ received = <<>>

Send == \E m \in Messages : sent' = Append(sent, m) /\ UNCHANGED received

Receive ==
    /\ Len(received) < Len(sent)
    /\ received' = Append(received, sent[Len(received) + 1])
    /\ UNCHANGED sent

Spec == Init /\ [][Send \/ Receive]_<<sent, received>>
=============================================================================
