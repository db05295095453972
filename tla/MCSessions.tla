----------------------------- MODULE MCSessions -----------------------------
(* Two tasks, of all operations: a pkmsg is resolved before, so that what  *)
(* it does for a LID is among what it does for a number.                   *)
EXTENDS Sessions

MCOperations ==
    PhoneOperations \cup (NameOperations \ {<<"receive", "lid">>, <<"identity", "pn">>})
=============================================================================
