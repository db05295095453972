------------------------------ MODULE KeyedLine -------------------------------
(***************************************************************************)
(* What a keyed mutex promises: each key has a line of callers and at most *)
(* one task inside, the line is served in order of arrival, and keys do    *)
(* not interfere.  utils/make_mutex.py: Mutex is the case of a single key. *)
(***************************************************************************)
EXTENDS Naturals, Sequences, SequencesExt

CONSTANTS Tasks, Keys, NoTask

VARIABLES
    line,       \* Keys -> the tasks that wait, first come first
    inside      \* Keys -> the task inside, or NoTask

lineVars == <<line, inside>>

Init ==
    /\ line = [k \in Keys |-> <<>>]
    /\ inside = [k \in Keys |-> NoTask]

(* A task is in one place at most: it waits or is inside for one key. *)
Away(t) ==
    \A k \in Keys : inside[k] # t /\ ~ Contains(line[k], t)

(* A caller enters at once when the key is free and nobody waits. *)
Arrive(t, k) ==
    /\ Away(t)
    /\ IF inside[k] = NoTask /\ line[k] = <<>>
       THEN inside' = [inside EXCEPT ![k] = t] /\ UNCHANGED line
       ELSE line' = [line EXCEPT ![k] = Append(@, t)] /\ UNCHANGED inside

(* The first of the line enters once the key is free. *)
Serve(k) ==
    /\ inside[k] = NoTask
    /\ line[k] # <<>>
    /\ inside' = [inside EXCEPT ![k] = Head(line[k])]
    /\ line' = [line EXCEPT ![k] = Tail(@)]

Leave(k) ==
    /\ inside[k] # NoTask
    /\ inside' = [inside EXCEPT ![k] = NoTask]
    /\ UNCHANGED line

(* A cancelled caller steps out of the line and keeps the others' order. *)
StepOut(k) ==
    /\ \E i \in DOMAIN line[k] : line' = [line EXCEPT ![k] = RemoveAt(@, i)]
    /\ UNCHANGED inside

Next ==
    \E k \in Keys :
        \/ \E t \in Tasks : Arrive(t, k)
        \/ Serve(k)
        \/ Leave(k)
        \/ StepOut(k)

Spec == Init /\ [][Next]_lineVars
=============================================================================
