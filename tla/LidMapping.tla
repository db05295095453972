----------------------------- MODULE LidMapping -----------------------------
(***************************************************************************)
(* The mapping of a phone number to a LID (signal/lid_mapping.py), for one *)
(* contact: the stored pair, the cache before it, and the lookups that     *)
(* share one fetch.  A task that finds a lookup under way waits for its    *)
(* future while it holds the lock that every lookup begins and ends with.  *)
(* No function that asks the server is ever given to the store, so that a  *)
(* lookup is one read of the key store.                                    *)
(***************************************************************************)
CONSTANTS Tasks, NoTask

VARIABLES
    mapped,         \* the pair is in the key store
    known,          \* the pair is in _mapping_cache
    holder,         \* who holds _lock
    inflight,       \* the lookup in _inflight_lid_lookups: its owner,
    future          \* and its future: "none", "pending", "done", "cancelled"

lookups == <<holder, inflight, future>>
mapping == <<mapped, known, lookups>>

InitMapping ==
    /\ mapped = FALSE /\ known = FALSE
    /\ holder = NoTask /\ inflight = NoTask /\ future = "none"

NoLookup == inflight' = NoTask /\ future' = "none"

(* get_lids_for_pns, with the lock: from the cache, ... *)
LookupCached ==
    /\ holder = NoTask /\ inflight = NoTask /\ known
    /\ UNCHANGED mapping

(* ... with a read of the store, ... *)
BeginLookup(t) ==
    /\ holder = NoTask /\ inflight = NoTask /\ ~known
    /\ inflight' = t /\ future' = "pending"
    /\ UNCHANGED <<mapped, known, holder>>

(* ... or with the lookup that is under way. *)
JoinLookup(t) ==
    /\ holder = NoTask /\ inflight # NoTask
    /\ holder' = t
    /\ UNCHANGED <<mapped, known, inflight, future>>

(* The read is back: the future has its result, unless a joiner that was   *)
(* cancelled has cancelled it, which raises.                               *)
EndRead(t) ==
    /\ inflight = t
    /\ known' = (known \/ mapped)
    /\ IF holder = NoTask THEN NoLookup
       ELSE future' = (IF future = "pending" THEN "done" ELSE future) /\ UNCHANGED inflight
    /\ UNCHANGED <<mapped, holder>>

(* The owner takes the lock to remove its lookup. *)
RemoveLookup(t) ==
    /\ inflight = t /\ holder = NoTask
    /\ NoLookup
    /\ UNCHANGED <<mapped, known, holder>>

(* Mutant: the lock stays with the joiner. *)
LeaveKeeping(t) ==
    /\ holder = t /\ future \in {"done", "cancelled"}
    /\ UNCHANGED mapping

(* A joiner has the result. *)
LeaveLookup(t) ==
    /\ holder = t /\ future \in {"done", "cancelled"}
    /\ holder' = NoTask
    /\ UNCHANGED <<mapped, known, inflight, future>>

(* A joiner is cancelled, and the future it awaits with it. *)
CancelJoin(t) ==
    /\ holder = t
    /\ holder' = NoTask
    /\ future' = (IF future = "pending" THEN "cancelled" ELSE future)
    /\ UNCHANGED <<mapped, known, inflight>>

(* The owner is cancelled: its future stays as it is.  It removes the      *)
(* lookup once it has the lock.                                            *)
CancelRead(t) ==
    /\ inflight = t
    /\ IF holder = NoTask THEN NoLookup ELSE UNCHANGED <<inflight, future>>
    /\ UNCHANGED <<mapped, known, holder>>

(* store_lid_pn_mappings: the pair is there already, or is written. *)
FindPair == (known \/ mapped) /\ known' = TRUE /\ UNCHANGED <<mapped, lookups>>
StorePair == mapped' = TRUE /\ known' = TRUE /\ UNCHANGED lookups
=============================================================================
