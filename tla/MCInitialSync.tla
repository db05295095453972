----------------------------- MODULE MCInitialSync -----------------------------
(* One message and one chat, two messages of the phone. *)
EXTENDS InitialSync

CONSTANTS m, h1, h2
MCMessages == {m}
MCHandlers == {h1, h2}
(* Nothing known, or a message and an unread chat. *)
MCEarlierViews == {EmptyView, [messages |-> [k \in MCMessages |-> 0], unread |-> TRUE]}
===============================================================================
