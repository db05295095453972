---------------------------- MODULE MCKeyedMutex ------------------------------
(***************************************************************************)
(* Two keys and four tasks: one key can have a holder, two waiters and a   *)
(* late caller, or both keys a holder and a waiter, and one lock object    *)
(* per task lets every identity be reused.                                 *)
(***************************************************************************)
EXTENDS KeyedMutex
=============================================================================
