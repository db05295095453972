------------------------------ MODULE AtomicStore ------------------------------
(***************************************************************************)
(* What transactions of the key store promise (utils/auth_utils.py).  A    *)
(* transaction updates the records it was asked to, each once, and returns *)
(* when it has updated them all; one that raises may have updated some of  *)
(* them.  Transactions of one key write one after the other.  A record is  *)
(* the number of its updates, so that an update made from an old value     *)
(* shows: it does only where the record was overtaken, that is, written    *)
(* after the transaction read it, by a transaction of another key or by a  *)
(* write that a cancelled one left under way.                              *)
(***************************************************************************)
EXTENDS Naturals

CONSTANTS Tasks, Keys, NoKey, Records

VARIABLES
    store,      \* the stored records
    late,       \* writes that cancelled transactions left under way
    key,        \* the key of each task's transaction
    asked,      \* the records it is to update
    written,    \* those it has updated
    overtaken,  \* those that were written after it read them
    status      \* "open", or how it ended

transactionVars == <<key, asked, written, overtaken, status>>
vars == <<store, late, transactionVars>>

Init ==
    /\ store = [r \in Records |-> 0]
    /\ late = {}
    /\ key = [t \in Tasks |-> NoKey]
    /\ asked = [t \in Tasks |-> {}]
    /\ written = [t \in Tasks |-> {}]
    /\ overtaken = [t \in Tasks |-> {}]
    /\ status = [t \in Tasks |-> "returned"]

Ask(t, k, records) ==
    /\ status[t] # "open"
    /\ status' = [status EXCEPT ![t] = "open"]
    /\ key' = [key EXCEPT ![t] = k]
    /\ asked' = [asked EXCEPT ![t] = records]
    /\ UNCHANGED <<store, late, written, overtaken>>

(* No other transaction of the key has begun to write. *)
Alone(t) == \A u \in Tasks \ {t} : key[u] = key[t] => written[u] = {}

(* Records are updated from the stored value, a record overtaken is set.   *)
(* Only transactions of other keys are overtaken by this.                  *)
Updates(t, records) ==
    /\ records \subseteq asked[t]
    /\ records # {} => status[t] = "open" /\ Alone(t)
    /\ \A r \in Records :
         \/ r \notin records /\ store'[r] = store[r]
         \/ r \in records \cap overtaken[t] /\ store'[r] \in Nat
         \/ /\ r \in records \ overtaken[t]
            /\ store'[r] = IF r \in written[t] THEN store[r] ELSE store[r] + 1
    /\ store' = [r \in Records |-> store'[r]]
    /\ \A u \in Tasks \ {t} :
         /\ overtaken'[u] \subseteq overtaken[u] \cup (records \cap asked[u])
         /\ overtaken[u] \subseteq overtaken'[u]
         /\ key[u] = key[t] => overtaken'[u] = overtaken[u]
    /\ overtaken' = [u \in Tasks |-> overtaken'[u]]

Write(t, records) ==
    /\ Updates(t, records)
    /\ overtaken'[t] = overtaken[t]
    /\ written' = [written EXCEPT ![t] = written[t] \cup records]
    /\ UNCHANGED <<late, key, asked, status>>

(* The transaction returns: all it was asked to update is updated. *)
Return(t) ==
    /\ status[t] = "open" /\ written[t] = asked[t]
    /\ status' = [status EXCEPT ![t] = "returned"]
    /\ asked' = [asked EXCEPT ![t] = {}]
    /\ written' = [written EXCEPT ![t] = {}]
    /\ overtaken' = [overtaken EXCEPT ![t] = {}]
    /\ key' = [key EXCEPT ![t] = NoKey]
    /\ UNCHANGED <<store, late>>

(* It raises or is cancelled, having updated some records for good, and    *)
(* leaving some writes under way.                                          *)
Abandon(t, records) ==
    /\ status[t] = "open"
    /\ Updates(t, records)
    /\ overtaken'[t] = {}
    /\ late \subseteq late'
    /\ \A w \in late' \ late : w[1] \in asked[t]
    /\ status' = [status EXCEPT ![t] = "raised"]
    /\ key' = [key EXCEPT ![t] = NoKey]
    /\ asked' = [asked EXCEPT ![t] = {}]
    /\ written' = [written EXCEPT ![t] = {}]

(* A write that was left under way ends. *)
Land(w) ==
    /\ late' = late \ {w}
    /\ store' = [store EXCEPT ![w[1]] = w[2]]
    /\ \A t \in Tasks :
         overtaken[t] \subseteq overtaken'[t] /\ overtaken'[t] \subseteq overtaken[t] \cup {w[1]}
    /\ overtaken' = [t \in Tasks |-> overtaken'[t]]
    /\ UNCHANGED <<key, asked, written, status>>

Next ==
    \/ \E t \in Tasks :
         \/ \E k \in Keys : \E records \in SUBSET Records : Ask(t, k, records)
         \/ \E records \in SUBSET Records : Write(t, records) \/ Abandon(t, records)
         \/ Return(t)
    \/ \E w \in late : Land(w)

Spec == Init /\ [][Next]_vars
================================================================================
