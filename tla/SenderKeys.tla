----------------------------- MODULE SenderKeys -----------------------------
(***************************************************************************)
(* The records of a sender's key in a group (signal/group).  A record is a *)
(* sequence of states, the newest last; a state has the id of a key, the   *)
(* iteration of its chain and the message keys of iterations that were     *)
(* passed over.  Keys are derived from id and iteration alone, so that     *)
(* seeds and signatures stand for the id, and a ciphertext is the pair of  *)
(* id and iteration.                                                       *)
(***************************************************************************)
EXTENDS Integers, Sequences

CONSTANTS
    MaxStates,      \* SenderKeyRecord.MAX_STATES, 5
    MaxKeys,        \* SenderKeyState.MAX_MESSAGE_KEYS, 2000
    MaxFuture       \* iterations a message may be ahead, 2000

ASSUME LimitsAssumption ==
    MaxStates \in Nat \ {0} /\ MaxKeys \in Nat /\ MaxFuture \in Nat

(* add_sender_message_key and add_sender_key_state drop the oldest. *)
Newest(s, n) == SubSeq(s, IF Len(s) > n THEN Len(s) - n + 1 ELSE 1, Len(s))

State(id, chain) == [id |-> id, chain |-> chain, keys |-> <<>>]

(* add_sender_key_state appends, also a key it has; set_sender_key_state   *)
(* leaves one state only.                                                  *)
AddState(record, id, chain) == Newest(Append(record, State(id, chain)), MaxStates)
SetState(id) == <<State(id, 0)>>

(* get_sender_key_state: the newest one, or the first of an id. *)
Last(record) == record[Len(record)]
HasState(record, id) == \E n \in DOMAIN record : record[n].id = id
Place(record, id) ==
    CHOOSE n \in DOMAIN record :
        record[n].id = id /\ \A m \in 1 .. n - 1 : record[m].id # id

(* _get_sender_key: an iteration that was passed over has a key of its     *)
(* own, once; any other is reached along the chain, if it is not too far.  *)
Derives(state, i) ==
    IF state.chain > i THEN \E n \in DOMAIN state.keys : state.keys[n] = i
                       ELSE i - state.chain <= MaxFuture

Passed(state, i) == [n \in 1 .. i - state.chain |-> state.chain + n - 1]

(* remove_sender_message_key: the first key of the iteration. *)
Removed(keys, i) ==
    LET at == CHOOSE n \in DOMAIN keys : keys[n] = i /\ \A m \in 1 .. n - 1 : keys[m] # i
    IN  [n \in 1 .. Len(keys) - 1 |-> keys[IF n < at THEN n ELSE n + 1]]

(* Mutant: a key that was used is kept. *)
DerivedKept(state, i) ==
    IF state.chain > i THEN state
    ELSE [state EXCEPT !.chain = i + 1,
                       !.keys = Newest(@ \o Passed(state, i), MaxKeys)]

Derived(state, i) ==
    IF state.chain > i
    THEN [state EXCEPT !.keys = Removed(@, i)]
    ELSE [state EXCEPT !.chain = i + 1,
                       !.keys = Newest(@ \o Passed(state, i), MaxKeys)]

(* encrypt: the first message takes iteration 0; every later one passes    *)
(* over the iteration of the chain and takes the next.                     *)
Iteration(state) == IF state.chain = 0 THEN 0 ELSE state.chain + 1

(* decrypt, with the first state of the message's key. *)
Decrypts(record, id, i) ==
    HasState(record, id) /\ Derives(record[Place(record, id)], i)
Decrypted(record, id, i) ==
    [record EXCEPT ![Place(record, id)] = Derived(@, i)]
=============================================================================
