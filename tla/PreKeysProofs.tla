----------------------------- MODULE PreKeysProofs -----------------------------
(***************************************************************************)
(* For any uploaders, retriers, counts, both kinds of store, and any       *)
(* crashes, failed commits and failed saves: one upload at a time, and, of *)
(* the ids that the counters kept track of, what is published is stored    *)
(* and no id is published with two keys.                                   *)
(***************************************************************************)
EXTENDS PreKeys, TLAPS

Published == uploaded \cup retried
PreKey == [id : Ids, key : Nat]
Calls == [count : Nat, key : Nat, start : Nat, next : Nat, last : Nat]

Typed ==
    /\ creds \in [next : Nat, first : Nat] /\ saved \in [next : Nat, first : Nat]
    /\ transactional \in BOOLEAN
    /\ store \in [Ids -> Nat]
    /\ pc \in [Tasks -> Steps \cup {"idle", "joined", "ended"}]
    /\ call \in [Tasks -> Calls]
    /\ got \in [Tasks -> SUBSET PreKey]
    /\ calls \in Nat
    /\ uploaded \subseteq PreKey /\ retried \subseteq PreKey /\ lost \subseteq PreKey

(* Where a task is in a call of get_next_pre_keys, when its keys are on    *)
(* their way (and the counters had their save), and where it waits for the *)
(* answer to its upload.                                                   *)
Active(t) == pc[t] \in {"set", "get", "emit", "save", "send", "commit"}
Past(t) == pc[t] \in {"save", "send", "commit", "query", "sent", "backoff"}
Late(t) == pc[t] \in {"send", "commit", "query", "sent", "backoff"}
Waiting(t) == pc[t] \in {"query", "sent", "backoff"}

(* A task that alone may write its ids: the transaction's; without         *)
(* transactions one that counts, unless its ids are overlapped.            *)
Owning(t) == IF transactional THEN Active(t) ELSE t \in Counting

(* A key that is published or on its way; one past the save; one of        *)
(* another than t, or of t's past; one that must be stored.                *)
CommittingOf(k, t) == t \in Retriers /\ pc[t] = "commit" /\ k \in got[t]
Issued(k) == k \in Published \/ \E u \in Tasks : Past(u) /\ k \in got[u]
Settled(k) == k \in Published \/ \E u \in Tasks : Late(u) /\ k \in got[u]
Elsewhere(k, t) ==
    \/ k \in uploaded
    \/ k \in retried /\ ~ CommittingOf(k, t)
    \/ \E u \in Tasks : u # t /\ Past(u) /\ k \in got[u]
Held(k) ==
    \/ k \in uploaded
    \/ k \in retried \ lost /\ \A r \in Retriers : ~ CommittingOf(k, r)
    \/ \E u \in Tasks : Waiting(u) /\ k \in got[u]
    \/ ~transactional /\ \E u \in Tasks : Past(u) /\ k \in got[u]

(* A running upload is the one registered. *)
Registered == \A u \in Uploaders : pc[u] \in Steps => current = u

(* An active task has the lock of a store that has one; without, two that  *)
(* count at once have all their ids overlapped.                            *)
Locked ==
    /\ transactional => \A t \in Tasks : Active(t) => locker = t
    /\ ~transactional => \A t, u \in Counting : t # u => Numbered(call[t]) \subseteq overlapped
    /\ \A t \in Tasks : Waiting(t) => t \in Uploaders
    /\ \A t \in Tasks : pc[t] = "send" => t \in Retriers

(* No generated key waits for upload; a call numbers from the counters on. *)
Counted ==
    /\ creds.next = creds.first /\ saved.next = saved.first
    /\ 1 <= creds.first /\ 1 <= saved.first
    /\ \A t \in Tasks : pc[t] = "lock" => 1 <= call[t].count
    /\ \A t \in Tasks : Active(t) =>
         /\ call[t].next = call[t].start /\ 1 <= call[t].start
         /\ call[t].last + 1 = call[t].start + call[t].count
         /\ call[t].start <= call[t].last /\ call[t].last <= MaxId

(* The keys a task got have the ids of its call and, where it owned them,  *)
(* its key; without transactions they are stored.                          *)
Gotten ==
    \A t \in Tasks :
        /\ pc[t] \in {"emit", "save", "send", "commit"} =>
             \A k \in got[t] : k.id \in NewIds(t) /\ (Tracked(k.id) => k.key = call[t].key)
        /\ ~transactional /\ pc[t] \in {"get", "emit"} =>
             \A id \in NewIds(t) : Tracked(id) => store[id] = call[t].key

(* The counters are above every issued id, the saved ones above every      *)
(* settled id but those they miss, and a call's ids are above all others.  *)
Below ==
    /\ \A k \in PreKey : Issued(k) /\ Tracked(k.id) => k.id < creds.first
    /\ \A k \in PreKey : Settled(k) /\ Tracked(k.id) => k.id < saved.first \/ k.id \in unsaved
    /\ \A t \in Tasks, k \in PreKey :
         Owning(t) /\ Elsewhere(k, t) /\ Tracked(k.id) => k.id < call[t].start

Kept == \A k \in PreKey : Held(k) /\ Tracked(k.id) => Stored(k)

Same ==
    \A j, k \in PreKey : Issued(j) /\ Issued(k) /\ j.id = k.id /\ Tracked(j.id) => j.key = k.key

Inv == Typed /\ Registered /\ Locked /\ Counted /\ Gotten /\ Below /\ Kept /\ Same

-----------------------------------------------------------------------------
LEMMA InvInit == ASSUME Init PROVE Inv
  <1> USE TasksAssumption, NumbersAssumption DEF Init
  <1>1. Typed
    BY DEF Typed, Calls, NoCall, NoKey, PreKey
  <1>2. Registered /\ Locked /\ Counted /\ Gotten
    BY DEF Registered, Locked, Counted, Counting, Gotten, Active, Waiting, Steps, Tasks
  <1>3. Below /\ Kept /\ Same
    BY DEF Below, Kept, Same, Issued, Settled, Elsewhere, Held, Published, Past, Late, Waiting,
           Owning, Counting, Active
  <1> QED BY <1>1, <1>2, <1>3 DEF Inv

(* Two tasks that own their ids: their ids are overlapped. *)
LEMMA TwoOwners ==
    ASSUME Inv, NEW t \in Tasks, NEW u \in Tasks, t # u, Owning(t), Owning(u)
    PROVE  ~transactional /\ t \in Counting /\ u \in Counting
           /\ \A id \in NewIds(t) : ~Tracked(id)
  <1>1. ~transactional /\ t \in Counting /\ u \in Counting
    BY DEF Owning, Inv, Locked
  <1>2. Numbered(call[t]) \subseteq overlapped
    BY <1>1 DEF Inv, Locked
  <1>3. call[t].next = call[t].start
    BY <1>1 DEF Counting, Inv, Counted, Active
  <1> QED BY <1>1, <1>2, <1>3 DEF Numbered, NewIds, Tracked

(* The ids that t writes to are nobody else's. *)
LEMMA WriteKeeps ==
    ASSUME Inv, NEW t \in Tasks, NEW ids \in SUBSET NewIds(t), ids = {} \/ Owning(t),
           store' = Written(t, ids)
    PROVE  /\ store' \in [Ids -> Nat]
           /\ \A k \in PreKey : Elsewhere(k, t) /\ Tracked(k.id) => store'[k.id] = store[k.id]
           /\ \A u \in Tasks : u # t /\ ~transactional /\ pc[u] \in {"get", "emit"} =>
                \A id \in NewIds(u) : Tracked(id) => store'[id] = store[id]
  <1>1. store' \in [Ids -> Nat] /\ \A id \in Ids \ ids : store'[id] = store[id]
    BY DEF Written, NewIds, Inv, Typed, Calls
  <1>2. ASSUME NEW k \in PreKey, Elsewhere(k, t), Tracked(k.id)
        PROVE  store'[k.id] = store[k.id]
    <2>1. CASE ids = {}
      BY <1>1, <2>1 DEF PreKey
    <2>2. CASE Owning(t)
      <3>1. k.id < call[t].start /\ call[t].next = call[t].start
        BY <1>2, <2>2 DEF Inv, Below, Counted, Owning, Counting, Active
      <3>2. k.id \notin NewIds(t)
        BY <3>1 DEF NewIds, PreKey, Ids, Inv, Typed, Calls
      <3> QED BY <1>1, <3>2 DEF PreKey
    <2> QED BY <2>1, <2>2
  <1>3. ASSUME NEW u \in Tasks, u # t, ~transactional, pc[u] \in {"get", "emit"},
               NEW id \in NewIds(u), Tracked(id)
        PROVE  store'[id] = store[id]
    <2>1. Owning(u)
      BY <1>3 DEF Owning, Counting
    <2>2. ids = {}
      BY <1>3, <2>1, TwoOwners
    <2> QED BY <1>1, <2>2 DEF NewIds
  <1> QED BY <1>1, <1>2, <1>3

(* Task w starts or ends, others at most learn of its end, and what it was *)
(* writing is written in part.                                             *)
LEMMA StartOrEnd ==
    ASSUME Inv, Typed', Registered', NEW w \in Tasks, NEW ids \in SUBSET NewIds(w),
           UNCHANGED <<keptVars, uploaded, retried, savedHistory, overlapped>>,
           pc'[w] \in {"idle", "ended", "joined", "lock"},
           pc'[w] = "lock" => 1 <= call'[w].count,
           \A u \in Tasks \ {w} : /\ call'[u] = call[u] /\ got'[u] = got[u]
                                  /\ \/ pc'[u] = pc[u]
                                     \/ u \in Uploaders /\ pc[u] = "joined" /\ pc'[u] = "ended",
           locker' = locker \/ locker = w,
           store' = Written(w, ids), ids = {} \/ Owning(w),
           lost \subseteq lost',
           pc[w] = "commit" /\ w \in Retriers =>
               \/ retried \cap got[w] \subseteq lost' \/ ids = NewIds(w) \/ ~transactional
    PROVE  Inv'
  <1> USE DEF Inv
  <1>0. /\ UNCHANGED <<creds, saved, transactional, unsaved, forgotten, overlapped>>
        /\ \A id : Tracked(id)' <=> Tracked(id)
    BY DEF keptVars, savedHistory, Tracked
  <1>1. \A u \in Tasks :
          /\ Active(u)' => u # w /\ Active(u)
          /\ Past(u)' => u # w /\ Past(u)
          /\ Late(u)' => u # w /\ Late(u)
          /\ Waiting(u)' => u # w /\ Waiting(u)
          /\ u \in Counting' => u # w /\ u \in Counting
          /\ Active(u)' => pc'[u] = pc[u]
          /\ pc'[u] \in {"commit", "send", "lock"} => pc'[u] = pc[u] \/ u = w
    BY DEF Active, Past, Late, Waiting, Counting
  <1>2. \A u \in Tasks : Owning(u)' => u # w /\ Owning(u)
    BY <1>0, <1>1 DEF Owning
  <1>3. \A u \in Tasks \ {w} : /\ NewIds(u)' = NewIds(u)
                               /\ pc[u] = "commit" => pc'[u] = "commit"
    BY DEF NewIds
  <1>4. Locked'
    <2>1. transactional' => \A t \in Tasks : Active(t)' => locker' = t
      BY <1>0, <1>1 DEF Locked
    <2>2. ~transactional' =>
            \A t, u \in Counting' : t # u => Numbered(call'[t]) \subseteq overlapped'
      <3>1. \A t \in Counting' : t \in Counting /\ call'[t] = call[t]
        BY <1>1 DEF Counting
      <3> QED BY <1>0, <3>1 DEF Locked, Numbered
    <2>3. \A t \in Tasks : (Waiting(t)' => t \in Uploaders) /\ (pc'[t] = "send" => t \in Retriers)
      BY <1>1 DEF Locked
    <2> QED BY <2>1, <2>2, <2>3 DEF Locked, Numbered
  <1>5. Counted'
    BY <1>0, <1>1 DEF Counted
  <1>6. Gotten'
    <2>1. ASSUME NEW t \in Tasks, pc'[t] \in {"emit", "save", "send", "commit"}, NEW k \in got'[t]
          PROVE  k.id \in NewIds(t)' /\ (Tracked(k.id)' => k.key = call'[t].key)
      BY <1>0, <1>1, <1>3, <2>1 DEF Gotten, Active
    <2>2. ASSUME NEW t \in Tasks, ~transactional, pc'[t] \in {"get", "emit"},
                 NEW id \in NewIds(t)', Tracked(id)'
          PROVE  store'[id] = call'[t].key
      <3>1. t # w /\ pc[t] \in {"get", "emit"}
        BY <1>1, <2>2 DEF Active
      <3> QED BY <1>0, <1>3, <2>2, <3>1, WriteKeeps DEF Gotten
    <2> QED BY <1>0, <2>1, <2>2 DEF Gotten
  <1>7. \A k \in PreKey : /\ Issued(k)' => Issued(k)
                          /\ Settled(k)' => Settled(k)
    BY <1>1 DEF Issued, Settled, Published
  <1>8. ASSUME NEW t \in Tasks \ {w}, NEW k \in PreKey, Elsewhere(k, t)' PROVE Elsewhere(k, t)
    <2>1. CommittingOf(k, t) => CommittingOf(k, t)'
      BY <1>3 DEF CommittingOf
    <2> QED BY <1>1, <1>8, <2>1 DEF Elsewhere
  <1>9. Below'
    BY <1>0, <1>2, <1>7, <1>8 DEF Below
  <1>10. Kept'
    <2> SUFFICES ASSUME NEW k \in PreKey, Held(k)', Tracked(k.id) PROVE Stored(k)'
      BY <1>0 DEF Kept
    <2>1. CASE CommittingOf(k, w) /\ k \in retried \ lost' /\ transactional
      <3>1. ids = NewIds(w) /\ k.id \in ids /\ k.key = call[w].key
        BY <2>1 DEF Gotten, CommittingOf
      <3> QED BY <3>1 DEF Stored, Written, NewIds
    <2>2. CASE ~(CommittingOf(k, w) /\ k \in retried \ lost' /\ transactional)
      <3>1. \A r \in Retriers : CommittingOf(k, r) => r = w \/ CommittingOf(k, r)'
        BY <1>3 DEF CommittingOf, Tasks
      <3>2. Held(k)
        <4>1. CommittingOf(k, w) => Past(w) /\ k \in got[w]
          BY DEF CommittingOf, Past
        <4> QED BY <1>0, <1>1, <2>2, <3>1, <4>1 DEF Held
      <3>3. CASE Elsewhere(k, w)
        BY <3>2, <3>3, WriteKeeps DEF Kept, Stored
      <3>4. CASE ~Elsewhere(k, w)
        <4>1. ~transactional /\ CommittingOf(k, w)
          BY <1>0, <1>1, <2>2, <3>4 DEF Elsewhere, Held, Past, Waiting
        <4>2. ids = {}
          BY <4>1 DEF Owning, Counting, CommittingOf
        <4> QED BY <3>2, <4>2 DEF Kept, Stored, Written, PreKey
      <3> QED BY <3>3, <3>4
    <2> QED BY <2>1, <2>2
  <1>11. Same'
    BY <1>0, <1>7 DEF Same
  <1> QED BY <1>4, <1>5, <1>6, <1>9, <1>10, <1>11

-----------------------------------------------------------------------------
(* The actions that start or end a task. *)
LEMMA EndTyped ==
    ASSUME Inv, NEW t \in Tasks, End(t), UNCHANGED <<keptVars, calls, uploaded, retried>>,
           NEW ids \in SUBSET Ids, store' = Written(t, ids), lost' \subseteq PreKey
    PROVE  Typed'
  BY DEF Inv, Typed, End, Forget, keptVars, Written, NoCall, Calls

LEMMA EndKeeps ==
    ASSUME Inv, NEW t \in Tasks, End(t), NEW ids \in SUBSET NewIds(t),
           UNCHANGED <<keptVars, current, calls, uploaded, retried, savedHistory, overlapped>>,
           locker' = locker \/ Release(t),
           store' = Written(t, ids), ids = {} \/ Owning(t),
           lost \subseteq lost', lost' \subseteq PreKey,
           pc[t] = "commit" /\ t \in Retriers =>
               \/ retried \cap got[t] \subseteq lost' \/ ids = NewIds(t) \/ ~transactional
    PROVE  Inv'
  <1>1. Typed'
    BY EndTyped DEF NewIds
  <1>2. pc'[t] \in {"idle", "ended"}
    BY DEF Inv, Typed, End
  <1>3. \A u \in Tasks \ {t} :
          /\ call'[u] = call[u] /\ got'[u] = got[u]
          /\ pc'[u] = pc[u] \/ (u \in Uploaders /\ pc[u] = "joined" /\ pc'[u] = "ended")
    BY DEF Inv, Typed, End, Forget
  <1>4. Registered'
    BY <1>2, <1>3 DEF Inv, Registered, Steps, Tasks
  <1>5. locker' = locker \/ locker = t
    BY DEF Release
  <1> QED BY <1>1, <1>2, <1>3, <1>4, <1>5, StartOrEnd

LEMMA UploadKeeps ==
    ASSUME Inv, NEW u \in Uploaders, NEW n \in Counts, Upload(u, n)
    PROVE  Inv'
  <1> USE DEF Inv, Upload, Goto
  <1>0. u \in Tasks /\ pc[u] = "idle" /\ n \in Nat \ {0}
    BY NumbersAssumption DEF Tasks
  <1>1. Typed'
    BY <1>0, SMTT(60) DEF Typed, keptVars, historyVars, NoCall, Calls, Steps
  <1>2. \A t \in Tasks \ {u} : pc'[t] = pc[t] /\ call'[t] = call[t] /\ got'[t] = got[t]
    BY <1>0 DEF Typed
  <1>3. pc'[u] \in {"joined", "lock"} /\ (pc'[u] = "lock" => 1 <= call'[u].count)
    BY <1>0 DEF Typed, NoCall
  <1>4. Registered'
    BY <1>2, <1>3 DEF Registered, Running, Typed, Tasks, Steps
  <1>5. store' = Written(u, {})
    BY DEF Written, Typed
  <1> QED BY <1>0, <1>1, <1>2, <1>3, <1>4, <1>5, StartOrEnd DEF historyVars

LEMMA RetryKeeps ==
    ASSUME Inv, NEW r \in Retriers, Retry(r)
    PROVE  Inv'
  <1> USE DEF Inv, Retry, Goto
  <1>0. r \in Tasks /\ pc[r] = "idle"
    BY DEF Tasks
  <1>1. Typed'
    BY <1>0 DEF Typed, keptVars, historyVars, NoCall, Calls, Steps
  <1>2. \A t \in Tasks \ {r} : pc'[t] = pc[t] /\ call'[t] = call[t] /\ got'[t] = got[t]
    BY <1>0 DEF Typed
  <1>3. pc'[r] = "lock" /\ 1 <= call'[r].count
    BY <1>0 DEF Typed, NoCall
  <1>4. Registered'
    BY <1>2, TasksAssumption DEF Registered, Tasks
  <1>5. store' = Written(r, {})
    BY DEF Written, Typed
  <1> QED BY <1>0, <1>1, <1>2, <1>3, <1>4, <1>5, StartOrEnd DEF historyVars

LEMMA ReturnKeeps ==
    ASSUME Inv, NEW u \in Uploaders, Return(u)
    PROVE  Inv'
  <1> USE DEF Inv, Return, Goto
  <1>0. u \in Tasks /\ pc[u] = "ended"
    BY DEF Tasks
  <1>1. Typed'
    BY <1>0 DEF Typed, keptVars, historyVars
  <1>2. \A t \in Tasks \ {u} : pc'[t] = pc[t] /\ call'[t] = call[t] /\ got'[t] = got[t]
    BY <1>0 DEF Typed
  <1>3. pc'[u] = "idle"
    BY <1>0 DEF Typed
  <1>4. Registered'
    BY <1>0, <1>2, <1>3 DEF Registered, Steps, Tasks
  <1>5. store' = Written(u, {})
    BY DEF Written, Typed
  <1> QED BY <1>0, <1>1, <1>2, <1>3, <1>4, <1>5, StartOrEnd DEF historyVars

(* A task is interrupted or fails. *)
LEMMA InterruptedKeeps ==
    ASSUME Inv, NEW t \in Tasks,
           CommitRaises(t) \/ (t \in Uploaders /\ UploadCancelled(t)) \/ RetryRaises(t)
    PROVE  Inv'
  <1> USE DEF Inv
  <1>1. CASE CommitRaises(t)
    <2>1. PICK ids \in SUBSET NewIds(t) : store' = Written(t, ids)
      BY <1>1 DEF CommitRaises
    <2>2. lost \subseteq lost' /\ lost' \subseteq PreKey /\ retried \cap got[t] \subseteq lost'
      BY <1>1 DEF CommitRaises, Typed
    <2> QED BY <1>1, <2>1, <2>2, EndKeeps DEF CommitRaises, Owning, Active
  <1>2. \A ids : ids \in SUBSET Writing(t) => ids \in SUBSET NewIds(t) /\ (ids = {} \/ Owning(t))
    BY DEF Writing, Owning, Active, Counting
  <1>3. CASE t \in Uploaders /\ UploadCancelled(t)
    <2>1. PICK ids \in SUBSET Writing(t) : store' = Written(t, ids)
      BY <1>3 DEF UploadCancelled
    <2> QED BY <1>2, <1>3, <2>1, TasksAssumption, EndKeeps DEF UploadCancelled, historyVars, Typed
  <1>4. CASE RetryRaises(t)
    <2>1. PICK ids \in SUBSET Writing(t) : store' = Written(t, ids)
      BY <1>4 DEF RetryRaises
    <2> QED BY <1>2, <1>4, <2>1, EndKeeps DEF RetryRaises, historyVars, Typed
  <1> QED BY <1>1, <1>3, <1>4

-----------------------------------------------------------------------------
(* The steps of a call. *)

(* The call begins: it numbers from the counters on, above every issued    *)
(* id, and where others count as well all their ids are overlapped.        *)
LEMMA GenerateKeeps ==
    ASSUME Inv, NEW t \in Tasks, Generate(t)
    PROVE  Inv'
  <1> USE DEF Inv, Generate, Goto
  <1>0. /\ pc' = [pc EXCEPT ![t] = "set"] /\ pc[t] = "lock" /\ t \in DOMAIN pc
        /\ call' = [call EXCEPT ![t] = Number(call[t].count, calls + 1)]
        /\ UNCHANGED <<creds, saved, transactional, store, got, current, uploaded, retried, lost,
                       unsaved, forgotten>>
        /\ transactional => locker = NoTask /\ locker' = t
    BY DEF keptVars, savedHistory, Typed
  <1>1. /\ call'[t].start = creds.first /\ call'[t].next = creds.first
        /\ call'[t].count = call[t].count
        /\ call'[t].last = creds.first + call[t].count - 1
        /\ call'[t] \in Calls /\ call'[t].last <= MaxId
        /\ creds.first \in Nat /\ 1 <= creds.first /\ 1 <= call[t].count /\ call[t].count \in Nat
    BY <1>0, NumbersAssumption DEF Typed, Calls, Number, Counted
  <1>2. /\ \A u \in Tasks \ {t} : pc'[u] = pc[u] /\ call'[u] = call[u]
        /\ pc'[t] = "set"
    BY <1>0 DEF Typed
  <1>3. transactional => \A u \in Tasks : ~Active(u)
    BY <1>0, TasksAssumption DEF Locked
  <1>4. \A u \in Tasks : /\ Active(u)' <=> u = t \/ Active(u)
                         /\ Past(u)' <=> Past(u) /\ u # t
                         /\ Past(u) => u # t
                         /\ Late(u)' <=> Late(u)
                         /\ Waiting(u)' <=> Waiting(u)
                         /\ u \in Counting' <=> u = t \/ u \in Counting
                         /\ pc'[u] \in {"commit", "send", "lock"} => pc'[u] = pc[u]
                         /\ pc[u] = "commit" => pc'[u] = "commit"
    BY <1>0, <1>2 DEF Active, Past, Late, Waiting, Counting
  <1>5. \A id : Tracked(id)' => Tracked(id)
    BY <1>0 DEF Tracked, NoteOverlap
  <1>6. Typed'
    BY <1>0, <1>1 DEF Typed, Steps
  <1>7. Registered'
    BY <1>0 DEF Registered, Steps, Typed
  <1>8. Locked'
    <2>1. transactional' => \A u \in Tasks : Active(u)' => locker' = u
      BY <1>0, <1>3, <1>4
    <2>2. ~transactional' =>
            \A u, v \in Counting' : u # v => Numbered(call'[u]) \subseteq overlapped'
      <3> SUFFICES ASSUME ~transactional, NEW u \in Counting', NEW v \in Counting', u # v
                   PROVE  Numbered(call'[u]) \subseteq overlapped'
        BY <1>0
      <3>1. u \in Tasks /\ v \in Tasks
        BY DEF Counting
      <3>2. overlapped \subseteq overlapped'
        BY DEF NoteOverlap
      <3>3. CASE u # t /\ v # t
        BY <1>2, <1>4, <3>1, <3>2, <3>3 DEF Locked
      <3>4. CASE u = t \/ v = t
        <4>1. PICK w \in Counting : w # t /\ (w = u \/ w = v)
          BY <1>4, <3>1, <3>4
        <4>2. overlapped' = overlapped \cup Numbered(call'[t])
                              \cup UNION {Numbered(call[x]) : x \in Counting}
          BY <1>0, <4>1 DEF NoteOverlap, Typed
        <4>3. u = t \/ (u \in Counting /\ call'[u] = call[u])
          BY <1>2, <1>4, <3>1
        <4> QED BY <4>2, <4>3
      <3> QED BY <3>3, <3>4
    <2>3. \A u \in Tasks : (Waiting(u)' => u \in Uploaders) /\ (pc'[u] = "send" => u \in Retriers)
      BY <1>4 DEF Locked
    <2> QED BY <2>1, <2>2, <2>3 DEF Locked, Numbered
  <1>9. Counted'
    <2>1. \A u \in Tasks : pc'[u] = "lock" => 1 <= call'[u].count
      BY <1>2 DEF Counted
    <2> QED BY <1>0, <1>1, <1>2, <1>4, <2>1 DEF Counted
  <1>10. Gotten'
    <2>1. \A u \in Tasks \ {t} : NewIds(u)' = NewIds(u)
      BY <1>2 DEF NewIds
    <2> QED BY <1>0, <1>2, <1>5, <2>1 DEF Gotten
  <1>11. \A k \in PreKey : /\ Issued(k)' <=> Issued(k)
                           /\ Settled(k)' <=> Settled(k)
                           /\ Held(k)' <=> Held(k)
                           /\ \A u \in Tasks : Elsewhere(k, u)' => Elsewhere(k, u)
                           /\ Elsewhere(k, t) => Issued(k)
    BY <1>0, <1>4 DEF Issued, Settled, Held, Elsewhere, CommittingOf, Published, Tasks
  <1>12. Below'
    <2>1. \A k \in PreKey : /\ Issued(k)' /\ Tracked(k.id)' => k.id < creds'.first
                            /\ Settled(k)' /\ Tracked(k.id)' => k.id < saved'.first \/ k.id \in unsaved'
      BY <1>0, <1>5, <1>11 DEF Below
    <2>2. ASSUME NEW u \in Tasks, NEW k \in PreKey, Owning(u)', Elsewhere(k, u)', Tracked(k.id)'
          PROVE  k.id < call'[u].start
      <3>1. CASE u = t
        BY <1>1, <1>5, <1>11, <2>2, <3>1 DEF Below
      <3>2. CASE u # t
        <4>1. Owning(u)
          BY <1>0, <1>3, <1>4, <2>2, <3>2 DEF Owning
        <4> QED BY <1>2, <1>5, <1>11, <2>2, <3>2, <4>1 DEF Below
      <3> QED BY <3>1, <3>2
    <2> QED BY <2>1, <2>2 DEF Below
  <1>13. Kept'
    BY <1>0, <1>5, <1>11 DEF Kept, Stored
  <1>14. Same'
    BY <1>5, <1>11 DEF Same
  <1> QED BY <1>6, <1>7, <1>8, <1>9, <1>10, <1>12, <1>13, <1>14

(* An active task goes on: its place is another one of the call.           *)
LEMMA PlaceKept ==
    ASSUME Inv, NEW t \in Tasks, NEW step \in {"get", "emit", "save", "send", "commit"},
           Active(t), Goto(t, step), step = "send" => t \in Retriers,
           step \in {"get", "emit"} => t \in Counting,
           UNCHANGED <<transactional, locker, current, call, forgotten, overlapped>>
    PROVE  /\ Registered' /\ Locked' /\ pc'[t] = step
           /\ \A u \in Tasks : /\ Active(u)' <=> Active(u)
                               /\ Waiting(u)' <=> Waiting(u)
                               /\ Owning(u)' => Owning(u)
                               /\ u # t => pc'[u] = pc[u]
                               /\ u # t => (Past(u)' <=> Past(u)) /\ (Late(u)' <=> Late(u))
                               /\ NewIds(u)' = NewIds(u)
           /\ \A id : Tracked(id)' <=> Tracked(id)
  <1> USE DEF Inv, Goto
  <1>1. /\ pc'[t] = step /\ \A u \in Tasks \ {t} : pc'[u] = pc[u]
    BY DEF Typed
  <1>2. \A u \in Tasks : /\ Active(u)' <=> Active(u)
                         /\ Waiting(u)' <=> Waiting(u)
                         /\ u \in Counting' => u \in Counting
    BY <1>1 DEF Active, Waiting, Counting
  <1>3. \A u \in Tasks : Owning(u)' => Owning(u)
    BY <1>2 DEF Owning
  <1>4. Registered'
    BY <1>1 DEF Registered, Active, Steps, Tasks
  <1>5. Locked'
    <2>1. transactional' => \A u \in Tasks : Active(u)' => locker' = u
      BY <1>2 DEF Locked
    <2>2. \A u \in Counting' : u \in Tasks
      BY DEF Counting
    <2>3. \A u \in Tasks : (Waiting(u)' => u \in Uploaders) /\ (pc'[u] = "send" => u \in Retriers)
      BY <1>1, <1>2 DEF Locked
    <2> QED BY <1>2, <2>1, <2>2, <2>3 DEF Locked, Numbered
  <1>6. \A u \in Tasks \ {t} : (Past(u)' <=> Past(u)) /\ (Late(u)' <=> Late(u))
    BY <1>1 DEF Past, Late
  <1>7. \A u \in Tasks : NewIds(u)' = NewIds(u)
    BY DEF NewIds
  <1> QED BY <1>1, <1>2, <1>3, <1>4, <1>5, <1>6, <1>7 DEF Tracked

LEMMA SetKeysKeeps ==
    ASSUME Inv, NEW t \in Tasks, SetKeys(t)
    PROVE  Inv'
  <1> USE DEF Inv
  <1> DEFINE ids == IF transactional THEN {} ELSE NewIds(t)
  <1>0. /\ pc[t] = "set" /\ Active(t) /\ Owning(t) /\ t \in Counting /\ Goto(t, "get")
        /\ UNCHANGED <<creds, saved, transactional, locker, call, got, current, calls,
                       uploaded, retried, lost, unsaved, forgotten, overlapped>>
        /\ store' = Written(t, ids)
    BY DEF SetKeys, keptVars, historyVars, savedHistory, Active, Owning, Counting, Written, Typed
  <1>1. /\ Registered' /\ Locked' /\ pc'[t] = "get"
        /\ \A u \in Tasks : /\ Active(u)' <=> Active(u)
                            /\ Waiting(u)' <=> Waiting(u)
                            /\ Owning(u)' => Owning(u)
                            /\ u # t => pc'[u] = pc[u]
                            /\ u # t => (Past(u)' <=> Past(u)) /\ (Late(u)' <=> Late(u))
                            /\ NewIds(u)' = NewIds(u)
        /\ \A id : Tracked(id)' <=> Tracked(id)
    BY <1>0, PlaceKept
  <1>2. /\ store' \in [Ids -> Nat]
        /\ \A k \in PreKey : Elsewhere(k, t) /\ Tracked(k.id) => store'[k.id] = store[k.id]
        /\ \A u \in Tasks : u # t /\ ~transactional /\ pc[u] \in {"get", "emit"} =>
             \A id \in NewIds(u) : Tracked(id) => store'[id] = store[id]
    BY <1>0, WriteKeeps
  <1>3. Typed'
    BY <1>0, <1>2 DEF Typed, Goto, Steps
  <1>4. Counted'
    BY <1>0, <1>1 DEF Counted
  <1>5. Gotten'
    <2>1. ~transactional => \A id \in NewIds(t) : store'[id] = call[t].key
      BY <1>0 DEF Written, NewIds
    <2> QED BY <1>0, <1>1, <1>2, <2>1 DEF Gotten
  <1>6. ~Past(t) /\ ~Past(t)' /\ ~Late(t) /\ ~Late(t)' /\ pc[t] # "commit" /\ pc'[t] # "commit"
    BY <1>0, <1>1 DEF Past, Late
  <1>7. \A k \in PreKey : /\ Issued(k)' <=> Issued(k)
                          /\ Settled(k)' <=> Settled(k)
                          /\ Held(k)' <=> Held(k)
                          /\ \A u \in Tasks : Elsewhere(k, u)' <=> Elsewhere(k, u)
                          /\ Held(k) => Elsewhere(k, t)
    <2>1. \A k \in PreKey : Issued(k)' <=> Issued(k)
      BY <1>0, <1>1, <1>6 DEF Issued, Published
    <2>2. \A k \in PreKey : Settled(k)' <=> Settled(k)
      BY <1>0, <1>1, <1>6 DEF Settled, Published
    <2>3. \A k \in PreKey, u \in Tasks : CommittingOf(k, u)' <=> CommittingOf(k, u)
      BY <1>0, <1>1, <1>6 DEF CommittingOf
    <2>4. \A k \in PreKey : Held(k)' <=> Held(k)
      BY <1>0, <1>1, <1>6, <2>3 DEF Held, Tasks
    <2>5. \A k \in PreKey, u \in Tasks : Elsewhere(k, u)' <=> Elsewhere(k, u)
      BY <1>0, <1>1, <1>6, <2>3 DEF Elsewhere
    <2>6. \A u \in Tasks : Waiting(u) => Past(u)
      BY DEF Waiting, Past
    <2>7. \A k \in PreKey : Held(k) => Elsewhere(k, t)
      BY <1>6, <2>6 DEF Held, Elsewhere, CommittingOf
    <2> QED BY <2>1, <2>2, <2>4, <2>5, <2>7
  <1>8. Below'
    BY <1>0, <1>1, <1>7 DEF Below
  <1>9. Kept'
    BY <1>1, <1>2, <1>7 DEF Kept, Stored
  <1>10. Same'
    BY <1>1, <1>7 DEF Same
  <1> QED BY <1>1, <1>3, <1>4, <1>5, <1>8, <1>9, <1>10

LEMMA UpdateCounts ==
    ASSUME Inv, NEW t \in Tasks, Active(t)
    PROVE  /\ Update(t) \in [next : Nat, first : Nat]
           /\ Update(t).next = call[t].last + 1 /\ Update(t).first = call[t].last + 1
           /\ call[t].last \in Nat /\ call[t].start \in Nat /\ call[t].start <= call[t].last
  BY DEF Inv, Typed, Counted, Calls, Update, Larger

LEMMA GetKeysKeeps ==
    ASSUME Inv, NEW t \in Tasks, GetKeys(t)
    PROVE  Inv'
  <1> USE DEF Inv
  <1>0. /\ pc[t] = "get" /\ Active(t) /\ Owning(t) /\ t \in Counting /\ Goto(t, "emit")
        /\ UNCHANGED <<saved, transactional, store, call, locker, current, calls,
                       uploaded, retried, lost, unsaved, forgotten, overlapped>>
        /\ got' = [got EXCEPT ![t] = Found(t)]
        /\ creds' = creds \/ creds' = Update(t)
    BY DEF GetKeys, historyVars, savedHistory, Active, Owning, Counting
  <1>1. /\ Registered' /\ Locked' /\ pc'[t] = "emit"
        /\ \A u \in Tasks : /\ Active(u)' <=> Active(u)
                            /\ Waiting(u)' <=> Waiting(u)
                            /\ Owning(u)' => Owning(u)
                            /\ u # t => pc'[u] = pc[u]
                            /\ u # t => (Past(u)' <=> Past(u)) /\ (Late(u)' <=> Late(u))
                            /\ NewIds(u)' = NewIds(u)
        /\ \A id : Tracked(id)' <=> Tracked(id)
    BY <1>0, PlaceKept
  <1>2. creds' \in [next : Nat, first : Nat] /\ creds'.next = creds'.first /\ 1 <= creds'.first
    BY <1>0, UpdateCounts DEF Typed, Counted
  <1>3. \A k \in Found(t) : /\ k \in PreKey /\ k.id \in NewIds(t)
                            /\ Tracked(k.id) => k.key = call[t].key
    <2> SUFFICES ASSUME NEW id \in Ids, call[t].start <= id, id < call[t].start + call[t].count
                 PROVE  /\ id \in NewIds(t)
                        /\ Written(t, NewIds(t))[id] = call[t].key
                        /\ ~transactional /\ Tracked(id) => store[id] = call[t].key
      BY DEF Found, PreKey, Typed, Calls
    <2>1. id \in NewIds(t)
      BY <1>0 DEF NewIds, Counted, Typed, Calls, Ids
    <2> QED BY <1>0, <2>1 DEF Written, Gotten
  <1>4. Typed'
    BY <1>0, <1>2, <1>3 DEF Typed, Goto, Steps
  <1>5. Counted'
    BY <1>0, <1>1, <1>2 DEF Counted
  <1>6. got'[t] = Found(t) /\ \A u \in Tasks \ {t} : got'[u] = got[u]
    BY <1>0 DEF Typed
  <1>7. Gotten'
    BY <1>0, <1>1, <1>3, <1>6 DEF Gotten
  <1>8. ~Past(t) /\ ~Past(t)' /\ ~Late(t) /\ ~Late(t)' /\ pc[t] # "commit" /\ pc'[t] # "commit"
    BY <1>0, <1>1 DEF Past, Late
  <1>9. \A k \in PreKey : /\ Issued(k)' <=> Issued(k)
                          /\ Settled(k)' <=> Settled(k)
                          /\ Held(k)' <=> Held(k)
                          /\ \A u \in Tasks : Elsewhere(k, u)' <=> Elsewhere(k, u)
                          /\ Issued(k) => Elsewhere(k, t)
    <2>1. \A k \in PreKey : Issued(k)' <=> Issued(k)
      BY <1>0, <1>1, <1>6, <1>8 DEF Issued, Published
    <2>2. \A k \in PreKey : Settled(k)' <=> Settled(k)
      BY <1>0, <1>1, <1>6, <1>8 DEF Settled, Published
    <2>3. \A k \in PreKey, u \in Tasks : CommittingOf(k, u)' <=> CommittingOf(k, u)
      BY <1>0, <1>1, <1>6, <1>8 DEF CommittingOf
    <2>4. \A u \in Tasks : Waiting(u) => Past(u)
      BY DEF Waiting, Past
    <2>5. \A k \in PreKey : Held(k)' <=> Held(k)
      BY <1>0, <1>1, <1>6, <1>8, <2>3, <2>4 DEF Held, Tasks
    <2>6. \A k \in PreKey, u \in Tasks : Elsewhere(k, u)' <=> Elsewhere(k, u)
      BY <1>0, <1>1, <1>6, <1>8, <2>3 DEF Elsewhere
    <2>7. \A k \in PreKey : Issued(k) => Elsewhere(k, t)
      BY <1>8 DEF Issued, Published, Elsewhere, CommittingOf
    <2> QED BY <2>1, <2>2, <2>5, <2>6, <2>7
  <1>10. Below'
    <2>1. ASSUME NEW k \in PreKey, Issued(k), Tracked(k.id) PROVE k.id < creds'.first
      <3>1. k.id < creds.first /\ k.id < call[t].start
        BY <1>0, <1>9, <2>1 DEF Below
      <3> QED BY <1>0, <3>1, UpdateCounts DEF PreKey, Ids
    <2> QED BY <1>0, <1>1, <1>9, <2>1 DEF Below
  <1>11. Kept'
    BY <1>0, <1>1, <1>9 DEF Kept, Stored
  <1>12. Same'
    BY <1>1, <1>9 DEF Same
  <1> QED BY <1>1, <1>4, <1>5, <1>7, <1>10, <1>11, <1>12

(* The listener assigns the counters: the keys are on their way, above     *)
(* every issued id.                                                        *)
LEMMA UpdateCredsKeeps ==
    ASSUME Inv, NEW t \in Tasks, UpdateCreds(t)
    PROVE  Inv'
  <1> USE DEF Inv
  <1>0. /\ pc[t] = "emit" /\ Active(t) /\ Owning(t) /\ t \in Counting /\ Goto(t, "save")
        /\ UNCHANGED <<saved, transactional, store, call, got, locker, current, calls,
                       uploaded, retried, lost, unsaved, forgotten, overlapped>>
        /\ creds' = Update(t)
    BY DEF UpdateCreds, historyVars, savedHistory, Active, Owning, Counting
  <1>1. /\ Registered' /\ Locked' /\ pc'[t] = "save"
        /\ \A u \in Tasks : /\ Active(u)' <=> Active(u)
                            /\ Waiting(u)' <=> Waiting(u)
                            /\ Owning(u)' => Owning(u)
                            /\ u # t => pc'[u] = pc[u]
                            /\ u # t => (Past(u)' <=> Past(u)) /\ (Late(u)' <=> Late(u))
                            /\ NewIds(u)' = NewIds(u)
        /\ \A id : Tracked(id)' <=> Tracked(id)
    BY <1>0, PlaceKept
  <1>2. /\ creds' \in [next : Nat, first : Nat] /\ creds'.next = creds'.first /\ 1 <= creds'.first
        /\ creds'.first = call[t].last + 1
        /\ call[t].last \in Nat /\ call[t].start \in Nat /\ call[t].start <= call[t].last
        /\ call[t].next = call[t].start
    BY <1>0, UpdateCounts DEF Counted
  <1>3. Typed'
    BY <1>0, <1>2 DEF Typed, Goto, Steps
  <1>4. Counted'
    BY <1>0, <1>1, <1>2 DEF Counted
  <1>5. Gotten'
    BY <1>0, <1>1 DEF Gotten
  <1>6. /\ ~Past(t) /\ Past(t)' /\ ~Late(t) /\ ~Late(t)' /\ ~Waiting(t)
        /\ pc[t] # "commit" /\ pc'[t] # "commit"
    BY <1>0, <1>1 DEF Past, Late, Waiting
  <1>7. \A k \in got[t] : /\ k \in PreKey /\ k.id \in NewIds(t)
                          /\ call[t].start <= k.id /\ k.id <= call[t].last
                          /\ Tracked(k.id) => k.key = call[t].key
    BY <1>0, <1>2 DEF Gotten, NewIds, Typed
  <1>8. \A k \in PreKey :
          /\ Issued(k)' <=> Issued(k) \/ k \in got[t]
          /\ Settled(k)' <=> Settled(k)
          /\ Held(k)' => Held(k) \/ (~transactional /\ k \in got[t])
          /\ Elsewhere(k, t)' <=> Elsewhere(k, t)
          /\ \A u \in Tasks \ {t} : Elsewhere(k, u)' => Elsewhere(k, u) \/ k \in got[t]
          /\ Issued(k) => Elsewhere(k, t)
    <2>1. \A k \in PreKey : Issued(k)' <=> Issued(k) \/ k \in got[t]
      BY <1>0, <1>1, <1>6 DEF Issued, Published
    <2>2. \A k \in PreKey : Settled(k)' <=> Settled(k)
      BY <1>0, <1>1, <1>6 DEF Settled, Published
    <2>3. \A k \in PreKey, u \in Tasks : CommittingOf(k, u)' <=> CommittingOf(k, u)
      BY <1>0, <1>1, <1>6 DEF CommittingOf
    <2>4. \A k \in PreKey : Held(k)' => Held(k) \/ (~transactional /\ k \in got[t])
      BY <1>0, <1>1, <1>6, <2>3 DEF Held, Tasks
    <2>5. \A k \in PreKey : Elsewhere(k, t)' <=> Elsewhere(k, t)
      BY <1>0, <1>1, <1>6, <2>3 DEF Elsewhere
    <2>6. \A k \in PreKey, u \in Tasks : Elsewhere(k, u)' => Elsewhere(k, u) \/ k \in got[t]
      BY <1>0, <1>1, <1>6, <2>3 DEF Elsewhere
    <2>7. \A k \in PreKey : Issued(k) => Elsewhere(k, t)
      BY <1>6 DEF Issued, Published, Elsewhere, CommittingOf
    <2> QED BY <2>1, <2>2, <2>4, <2>5, <2>6, <2>7
  <1>9. \A k \in PreKey : Issued(k) /\ Tracked(k.id) => k.id < call[t].start
    BY <1>0, <1>8 DEF Below
  <1>10. Below'
    <2>1. ASSUME NEW k \in PreKey, Issued(k)', Tracked(k.id) PROVE k.id < creds'.first
      <3>1. k.id <= call[t].last
        BY <1>2, <1>7, <1>8, <1>9, <2>1 DEF PreKey, Ids
      <3> QED BY <1>2, <3>1 DEF PreKey, Ids
    <2>2. ASSUME NEW u \in Tasks, NEW k \in PreKey, Owning(u)', Elsewhere(k, u)', Tracked(k.id)
          PROVE  k.id < call[u].start
      <3>1. CASE Elsewhere(k, u)
        BY <1>1, <2>2, <3>1 DEF Below
      <3>2. CASE u # t /\ k \in got[t]
        BY <1>0, <1>1, <1>7, <2>2, <3>2, TwoOwners
      <3> QED BY <1>8, <2>2, <3>1, <3>2
    <2> QED BY <1>0, <1>1, <1>8, <2>1, <2>2 DEF Below
  <1>11. Kept'
    <2>1. ASSUME ~transactional, NEW k \in got[t], Tracked(k.id) PROVE Stored(k)
      BY <1>0, <1>7, <2>1 DEF Gotten, Stored
    <2> QED BY <1>0, <1>1, <1>8, <2>1 DEF Kept, Stored
  <1>12. Same'
    <2> SUFFICES ASSUME NEW j \in PreKey, NEW k \in PreKey, Issued(j)', Issued(k)', j.id = k.id,
                        Tracked(j.id)
                 PROVE  j.key = k.key
      BY <1>1 DEF Same
    <2>1. CASE Issued(j) /\ Issued(k)
      BY <2>1 DEF Same
    <2>2. CASE j \in got[t] /\ k \in got[t]
      BY <1>7, <2>2
    <2>3. CASE (j \in got[t] /\ Issued(k)) \/ (k \in got[t] /\ Issued(j))
      BY <1>2, <1>7, <1>9, <2>3 DEF PreKey, Ids
    <2> QED BY <1>8, <2>1, <2>2, <2>3
  <1> QED BY <1>1, <1>3, <1>4, <1>5, <1>10, <1>11, <1>12

(* The counters are saved, or the ids of the call are noted as missing.    *)
LEMMA SaveKeeps ==
    ASSUME Inv, NEW t \in Tasks, SaveCreds(t) \/ SaveFails(t)
    PROVE  Inv'
  <1> USE DEF Inv
  <1> DEFINE step == IF t \in Uploaders THEN "commit" ELSE "send"
  <1>0. /\ pc[t] = "save" /\ Active(t) /\ Goto(t, step)
        /\ UNCHANGED <<creds, transactional, store, call, got, locker, current, calls,
                       uploaded, retried, lost, forgotten, overlapped>>
        /\ step = "send" => t \in Retriers
        /\ step = "commit" => t \notin Retriers
        /\ \/ saved' = creds /\ unsaved' = {}
           \/ saved' = saved /\ unsaved' = unsaved \cup Numbered(call[t])
    BY TasksAssumption DEF SaveCreds, SaveFails, Fault, historyVars, keptVars, savedHistory,
       Active, Tasks
  <1>1. /\ Registered' /\ Locked' /\ pc'[t] = step
        /\ \A u \in Tasks : /\ Active(u)' <=> Active(u)
                            /\ Waiting(u)' <=> Waiting(u)
                            /\ Owning(u)' => Owning(u)
                            /\ u # t => pc'[u] = pc[u]
                            /\ u # t => (Past(u)' <=> Past(u)) /\ (Late(u)' <=> Late(u))
                            /\ NewIds(u)' = NewIds(u)
        /\ \A id : Tracked(id)' <=> Tracked(id)
    BY <1>0, PlaceKept
  <1>2. Typed'
    BY <1>0 DEF Typed, Goto, Steps
  <1>3. Counted'
    BY <1>0, <1>1 DEF Counted
  <1>4. Gotten'
    BY <1>0, <1>1 DEF Gotten
  <1>5. Past(t) /\ Past(t)' /\ ~Late(t) /\ Late(t)' /\ pc[t] # "commit"
    BY <1>0, <1>1 DEF Past, Late
  <1>6. \A k \in PreKey : /\ Issued(k)' <=> Issued(k)
                          /\ Settled(k)' => Settled(k) \/ k \in got[t]
                          /\ Settled(k)' => Issued(k)
                          /\ Held(k)' <=> Held(k)
                          /\ \A u \in Tasks : Elsewhere(k, u)' <=> Elsewhere(k, u)
    <2>1. \A k \in PreKey : Issued(k)' <=> Issued(k)
      BY <1>0, <1>1, <1>5 DEF Issued, Published
    <2>2. \A k \in PreKey : Settled(k)' => Settled(k) \/ k \in got[t]
      BY <1>0, <1>1, <1>5 DEF Settled, Published
    <2>3. \A k \in PreKey : Settled(k)' => Issued(k)
      BY <1>0, <1>1, <1>5 DEF Settled, Issued, Published, Late, Past
    <2>4. \A k \in PreKey, u \in Tasks : CommittingOf(k, u)' <=> CommittingOf(k, u)
      BY <1>0, <1>1, <1>5 DEF CommittingOf
    <2>5. \A k \in PreKey : Held(k)' <=> Held(k)
      BY <1>0, <1>1, <1>5, <2>4 DEF Held, Tasks
    <2>6. \A k \in PreKey, u \in Tasks : Elsewhere(k, u)' <=> Elsewhere(k, u)
      BY <1>0, <1>1, <1>5, <2>4 DEF Elsewhere
    <2> QED BY <2>1, <2>2, <2>3, <2>5, <2>6
  <1>7. \A k \in got[t] : k.id \in Numbered(call[t])
    BY <1>0 DEF Gotten, Counted, NewIds, Numbered
  <1>8. Below'
    <2>1. ASSUME NEW k \in PreKey, Settled(k)', Tracked(k.id)
          PROVE  k.id < saved'.first \/ k.id \in unsaved'
      BY <1>0, <1>6, <1>7, <2>1 DEF Below
    <2> QED BY <1>0, <1>1, <1>6, <2>1 DEF Below
  <1>9. Kept'
    BY <1>0, <1>1, <1>6 DEF Kept, Stored
  <1>10. Same'
    BY <1>1, <1>6 DEF Same
  <1> QED BY <1>1, <1>2, <1>3, <1>4, <1>8, <1>9, <1>10

(* The receipt goes out with keys that were on their way, in a transaction *)
(* that is about to commit.                                                *)
LEMMA SendRetryKeeps ==
    ASSUME Inv, NEW t \in Tasks, SendRetry(t)
    PROVE  Inv'
  <1> USE DEF Inv
  <1>0. /\ pc[t] = "send" /\ Active(t) /\ Goto(t, "commit") /\ t \in Retriers
        /\ retried' = retried \cup got[t]
        /\ UNCHANGED <<creds, saved, transactional, store, call, got, locker, current, calls,
                       uploaded, lost, unsaved, forgotten, overlapped>>
    BY DEF SendRetry, keptVars, savedHistory, Active, Locked
  <1>1. /\ Registered' /\ Locked' /\ pc'[t] = "commit"
        /\ \A u \in Tasks : /\ Active(u)' <=> Active(u)
                            /\ Waiting(u)' <=> Waiting(u)
                            /\ Owning(u)' => Owning(u)
                            /\ u # t => pc'[u] = pc[u]
                            /\ u # t => (Past(u)' <=> Past(u)) /\ (Late(u)' <=> Late(u))
                            /\ NewIds(u)' = NewIds(u)
        /\ \A id : Tracked(id)' <=> Tracked(id)
    BY <1>0, PlaceKept
  <1>2. Typed'
    BY <1>0 DEF Typed, Goto, Steps
  <1>3. Counted'
    BY <1>0, <1>1 DEF Counted
  <1>4. Gotten'
    BY <1>0, <1>1 DEF Gotten
  <1>5. Past(t) /\ Past(t)' /\ Late(t) /\ Late(t)' /\ pc[t] # "commit"
    BY <1>0, <1>1 DEF Past, Late
  <1>6. \A k \in PreKey : /\ Issued(k)' <=> Issued(k)
                          /\ Settled(k)' <=> Settled(k)
                          /\ Held(k)' => Held(k)
                          /\ \A u \in Tasks : Elsewhere(k, u)' => Elsewhere(k, u)
    <2>1. \A k \in PreKey : Issued(k)' <=> Issued(k)
      BY <1>0, <1>1, <1>5 DEF Issued, Published
    <2>2. \A k \in PreKey : Settled(k)' <=> Settled(k)
      BY <1>0, <1>1, <1>5 DEF Settled, Published
    <2>3. \A k \in PreKey, u \in Tasks :
            CommittingOf(k, u)' <=> CommittingOf(k, u) \/ (u = t /\ k \in got[t])
      BY <1>0, <1>1, <1>5 DEF CommittingOf
    <2>4. \A k \in PreKey : Held(k)' => Held(k)
      BY <1>0, <1>1, <1>5, <2>3 DEF Held, Tasks
    <2>5. \A k \in PreKey, u \in Tasks : Elsewhere(k, u)' => Elsewhere(k, u)
      BY <1>0, <1>1, <1>5, <2>3 DEF Elsewhere
    <2> QED BY <2>1, <2>2, <2>4, <2>5
  <1>7. Below'
    BY <1>0, <1>1, <1>6 DEF Below
  <1>8. Kept'
    BY <1>0, <1>1, <1>6 DEF Kept, Stored
  <1>9. Same'
    BY <1>1, <1>6 DEF Same
  <1> QED BY <1>1, <1>2, <1>3, <1>4, <1>7, <1>8, <1>9

(* The commit of a retry ends it; that of an upload leaves keys stored     *)
(* that are about to be published.                                         *)
LEMMA CommitKeeps ==
    ASSUME Inv, NEW t \in Tasks, Commit(t)
    PROVE  Inv'
  <1> USE DEF Inv
  <1> DEFINE ids == IF transactional THEN NewIds(t) ELSE {}
  <1>0. /\ pc[t] = "commit" /\ Active(t) /\ (transactional => Owning(t))
        /\ UNCHANGED <<creds, saved, transactional, current, calls, uploaded, retried, lost,
                       unsaved, forgotten, overlapped>>
        /\ store' = Written(t, ids) /\ ids \in SUBSET NewIds(t) /\ (ids = {} \/ Owning(t))
        /\ \A id : Tracked(id)' <=> Tracked(id)
    BY DEF Commit, keptVars, historyVars, savedHistory, Active, Owning, Written, Typed, Tracked
  <1>1. CASE t \notin Uploaders
    <2>1. End(t) /\ Release(t) /\ UNCHANGED <<keptVars, savedHistory>>
      BY <1>1 DEF Commit, Committed, historyVars
    <2>2. lost' \subseteq PreKey
      BY <1>0 DEF Typed
    <2> QED BY <1>0, <2>1, <2>2, EndKeeps
  <1>2. CASE t \in Uploaders
    <2>0. /\ Goto(t, "query") /\ UNCHANGED <<call, got>> /\ t \notin Retriers
          /\ locker' = IF locker = t THEN NoTask ELSE locker
      BY <1>2, TasksAssumption DEF Commit, Committed, Release
    <2>1. \A u \in Tasks : pc'[u] = IF u = t THEN "query" ELSE pc[u]
      BY <2>0 DEF Goto, Typed
    <2>2. \A u \in Tasks : /\ Active(u)' <=> u # t /\ Active(u)
                           /\ Waiting(u)' <=> u = t \/ Waiting(u)
                           /\ Past(u)' <=> Past(u)
                           /\ Late(u)' <=> Late(u)
                           /\ u \in Counting' <=> u \in Counting
                           /\ Owning(u)' => Owning(u)
                           /\ NewIds(u)' = NewIds(u)
      BY <1>0, <2>0, <2>1 DEF Active, Waiting, Past, Late, Counting, Owning, NewIds
    <2>3. /\ store' \in [Ids -> Nat]
          /\ \A k \in PreKey : Elsewhere(k, t) /\ Tracked(k.id) => store'[k.id] = store[k.id]
          /\ \A u \in Tasks : u # t /\ ~transactional /\ pc[u] \in {"get", "emit"} =>
               \A id \in NewIds(u) : Tracked(id) => store'[id] = store[id]
      BY <1>0, WriteKeeps
    <2>4. Typed'
      BY <1>0, <2>0, <2>3 DEF Typed, Goto, Steps
    <2>5. Registered'
      BY <1>0, <1>2, <2>1 DEF Registered, Steps, Tasks
    <2>6. Locked'
      <3>1. transactional' => \A u \in Tasks : Active(u)' => locker' = u
        BY <1>0, <2>0, <2>2 DEF Locked
      <3>2. \A u \in Counting' : u \in Tasks
        BY DEF Counting
      <3>3. \A u \in Tasks : (Waiting(u)' => u \in Uploaders) /\ (pc'[u] = "send" => u \in Retriers)
        BY <1>2, <2>1, <2>2 DEF Locked
      <3> QED BY <1>0, <2>0, <2>2, <3>1, <3>2, <3>3 DEF Locked, Numbered
    <2>7. Counted'
      BY <1>0, <2>0, <2>1, <2>2 DEF Counted
    <2>8. Gotten'
      BY <1>0, <2>0, <2>1, <2>2, <2>3 DEF Gotten
    <2>9. \A k \in PreKey, u \in Tasks : CommittingOf(k, u)' <=> CommittingOf(k, u)
      BY <2>0, <2>1 DEF CommittingOf
    <2>10. \A k \in PreKey : /\ Issued(k)' <=> Issued(k)
                             /\ Settled(k)' <=> Settled(k)
                             /\ Held(k)' => Held(k) \/ k \in got[t]
                             /\ Held(k)' => Elsewhere(k, t) \/ k \in got[t]
                             /\ \A u \in Tasks : Elsewhere(k, u)' <=> Elsewhere(k, u)
      <3>1. \A k \in PreKey : (Issued(k)' <=> Issued(k)) /\ (Settled(k)' <=> Settled(k))
        BY <1>0, <2>0, <2>2 DEF Issued, Settled, Published
      <3>2. \A k \in PreKey : Held(k)' => Held(k) \/ k \in got[t]
        BY <1>0, <2>0, <2>2, <2>9 DEF Held, Tasks
      <3>3. \A k \in PreKey : Held(k)' => Elsewhere(k, t) \/ k \in got[t]
        <4>1. \A u \in Tasks : Waiting(u) => Past(u)
          BY DEF Waiting, Past
        <4> QED BY <1>0, <2>0, <2>2, <4>1 DEF Held, Elsewhere, CommittingOf
      <3>4. \A k \in PreKey, u \in Tasks : Elsewhere(k, u)' <=> Elsewhere(k, u)
        BY <1>0, <2>0, <2>2, <2>9 DEF Elsewhere
      <3> QED BY <3>1, <3>2, <3>3, <3>4
    <2>11. Below'
      BY <1>0, <2>0, <2>2, <2>10 DEF Below
    <2>12. Kept'
      <3> SUFFICES ASSUME NEW k \in PreKey, Held(k)', Tracked(k.id) PROVE Stored(k)'
        BY <1>0 DEF Kept
      <3>1. CASE k \in got[t] /\ transactional
        <4>1. k.id \in ids /\ k.key = call[t].key
          BY <1>0, <3>1 DEF Gotten
        <4> QED BY <1>0, <4>1 DEF Stored, Written, NewIds
      <3>2. CASE k \in got[t] /\ ~transactional
        <4>1. Held(k)
          BY <1>0, <3>2 DEF Held, Past
        <4> QED BY <1>0, <3>2, <4>1 DEF Kept, Stored, Written, PreKey
      <3>3. CASE k \notin got[t]
        BY <2>3, <2>10, <3>3 DEF Kept, Stored
      <3> QED BY <3>1, <3>2, <3>3
    <2>13. Same'
      BY <1>0, <2>10 DEF Same
    <2> QED BY <2>4, <2>5, <2>6, <2>7, <2>8, <2>11, <2>12, <2>13
  <1> QED BY <1>1, <1>2

-----------------------------------------------------------------------------
(* The steps of an upload's query: what is sent was waiting, and stored.   *)
LEMMA WaitingKeeps ==
    ASSUME Inv, NEW t \in Tasks, Waiting(t), NEW step \in {"query", "sent", "backoff"},
           Goto(t, step), uploaded' = uploaded \/ uploaded' = uploaded \cup got[t],
           UNCHANGED <<keptVars, store, locker, call, got, current, calls, retried, lost,
                       savedHistory, overlapped>>
    PROVE  Inv'
  <1> USE DEF Inv, Goto, keptVars, savedHistory
  <1>1. \A u \in Tasks : /\ Active(u)' <=> Active(u)
                         /\ Waiting(u)' <=> Waiting(u)
                         /\ Past(u)' <=> Past(u)
                         /\ Late(u)' <=> Late(u)
                         /\ u \in Counting' <=> u \in Counting
                         /\ Owning(u)' <=> Owning(u)
                         /\ NewIds(u)' = NewIds(u)
                         /\ pc'[u] \in Steps <=> pc[u] \in Steps
                         /\ u # t => pc'[u] = pc[u]
    BY DEF Active, Waiting, Past, Late, Counting, Owning, NewIds, Typed, Steps
  <1>2. /\ pc'[t] = step /\ pc[t] # "commit" /\ ~Owning(t) /\ Past(t) /\ Late(t)
        /\ \A id : Tracked(id)' <=> Tracked(id)
    BY DEF Waiting, Typed, Past, Late, Owning, Counting, Active, Tracked
  <1>3. Typed'
    BY DEF Typed, Steps
  <1>4. Registered'
    BY <1>1 DEF Registered, Tasks
  <1>5. Locked'
    <2>1. \A u \in Counting' : u \in Tasks
      BY DEF Counting
    <2> QED BY <1>1, <1>2, <2>1 DEF Locked, Numbered
  <1>6. Counted' /\ Gotten'
    BY <1>1, <1>2 DEF Counted, Gotten
  <1>7. \A k \in PreKey : /\ Issued(k)' <=> Issued(k)
                          /\ Settled(k)' <=> Settled(k)
                          /\ Held(k)' <=> Held(k)
                          /\ \A u \in Tasks \ {t} : Elsewhere(k, u)' => Elsewhere(k, u)
    <2>1. \A k \in PreKey, u \in Tasks : CommittingOf(k, u)' <=> CommittingOf(k, u)
      BY <1>1, <1>2 DEF CommittingOf
    <2>2. \A k \in PreKey : (Issued(k)' <=> Issued(k)) /\ (Settled(k)' <=> Settled(k))
      BY <1>1, <1>2 DEF Issued, Settled, Published
    <2>3. \A k \in PreKey : Held(k)' <=> Held(k)
      BY <1>1, <2>1 DEF Held, Tasks
    <2>4. \A k \in PreKey, u \in Tasks \ {t} : Elsewhere(k, u)' => Elsewhere(k, u)
      BY <1>1, <1>2, <2>1 DEF Elsewhere
    <2> QED BY <2>2, <2>3, <2>4
  <1>8. Below'
    BY <1>1, <1>2, <1>7 DEF Below
  <1>9. Kept' /\ Same'
    BY <1>2, <1>7 DEF Kept, Same, Stored
  <1> QED BY <1>3, <1>4, <1>5, <1>6, <1>8, <1>9

LEMMA QueryKeeps ==
    ASSUME Inv, NEW t \in Tasks,
           Query(t) \/ Answered(t) \/ QueryFails(t) \/ BackoffEnds(t)
    PROVE  Inv'
  <1>1. CASE End(t) /\ Waiting(t) /\ UNCHANGED <<keptVars, store, locker, current, historyVars>>
    <2>1. store' = Written(t, {}) /\ lost' \subseteq PreKey
      BY <1>1 DEF Inv, Typed, Written, historyVars
    <2> QED BY <1>1, <2>1, EndKeeps DEF historyVars, Waiting
  <1>2. CASE Query(t)
    BY <1>2, WaitingKeeps DEF Query, Waiting
  <1>3. CASE QueryFails(t) /\ Goto(t, "backoff") /\ UNCHANGED <<call, got>>
    BY <1>3, WaitingKeeps DEF QueryFails, Waiting, historyVars
  <1>4. CASE BackoffEnds(t)
    BY <1>4, WaitingKeeps DEF BackoffEnds, Waiting, historyVars
  <1> QED BY <1>1, <1>2, <1>3, <1>4 DEF Answered, QueryFails, Waiting

LEMMA UnseenKeeps ==
    ASSUME Inv, UNCHANGED <<keptVars, store, locker, taskVars, current, historyVars>>
    PROVE  Inv'
  <1> USE DEF Inv, keptVars, taskVars, historyVars, savedHistory
  <1>1. Typed' /\ Registered' /\ Counted'
    BY DEF Typed, Registered, Counted, Active
  <1>2. Locked' /\ Gotten'
    BY DEF Locked, Gotten, Active, Waiting, Counting, NewIds, Numbered, Tracked
  <1>3. Below' /\ Kept' /\ Same'
    BY DEF Below, Kept, Same, Issued, Settled, Held, Elsewhere, CommittingOf, Owning, Counting,
           Active, Waiting, Past, Late, Published, Stored, Tracked
  <1> QED BY <1>1, <1>2, <1>3

(* A crash interrupts whoever may be writing, forgets the keys that were   *)
(* sent and not committed, and loses track of the ids that were not saved. *)
LEMMA CrashKeeps ==
    ASSUME Inv, Crash
    PROVE  Inv'
  <1> USE DEF Inv
  <1>0. /\ pc' = [t \in Tasks |-> "idle"] /\ call' = [t \in Tasks |-> NoCall]
        /\ got' = [t \in Tasks |-> {}] /\ creds' = saved
        /\ lost' = lost \cup (retried \cap UNION {got[t] : t \in Retriers})
        /\ forgotten' = forgotten \cup unsaved /\ unsaved' = {}
        /\ UNCHANGED <<transactional, saved, calls, uploaded, retried, overlapped>>
    BY DEF Crash
  <1>1. PICK done \in SUBSET {w \in Tasks \X Ids : w[2] \in Writing(w[1])} :
          store' = [id \in Ids |->
                     IF \E t \in Tasks : <<t, id>> \in done
                     THEN call[CHOOSE t \in Tasks : <<t, id>> \in done].key
                     ELSE store[id]]
    BY DEF Crash
  <1>2. /\ \A t \in Tasks : pc'[t] = "idle"
        /\ \A id : Tracked(id)' => Tracked(id) /\ id \notin unsaved
    BY <1>0 DEF Tracked
  <1>3. Typed'
    <2>1. \A id \in Ids : (\E t \in Tasks : <<t, id>> \in done)
            => (CHOOSE t \in Tasks : <<t, id>> \in done) \in Tasks
      OBVIOUS
    <2>2. store' \in [Ids -> Nat]
      BY <1>1, <2>1 DEF Typed, Calls
    <2> QED BY <1>0, <2>2 DEF Typed, NoCall, Calls
  <1>4. Registered' /\ Locked' /\ Gotten'
    BY <1>2 DEF Registered, Locked, Gotten, Active, Waiting, Counting, Steps, Tasks
  <1>5. Counted'
    BY <1>0, <1>2 DEF Counted, Active
  <1>6. ASSUME NEW t \in Tasks, NEW id, <<t, id>> \in done PROVE Owning(t) /\ id \in NewIds(t)
    <2>1. id \in Writing(t)
      BY <1>6
    <2> QED BY <2>1 DEF Writing, Owning, Active, Counting
  <1>7. ASSUME NEW k \in PreKey, Stored(k), Tracked(k.id), \A t \in Tasks : Elsewhere(k, t)
        PROVE  Stored(k)'
    <2>1. \A t \in Tasks : <<t, k.id>> \notin done
      <3> SUFFICES ASSUME NEW t \in Tasks, <<t, k.id>> \in done PROVE FALSE
        OBVIOUS
      <3>1. k.id < call[t].start /\ call[t].next = call[t].start /\ call[t].next <= k.id
        BY <1>6, <1>7 DEF NewIds, Counted, Below, Owning, Counting, Active
      <3> QED BY <3>1 DEF Typed, Calls, PreKey, Ids
    <2> QED BY <1>1, <1>7, <2>1 DEF Stored, PreKey
  <1>8. \A k \in PreKey : /\ Issued(k)' => k \in Published
                          /\ Settled(k)' => k \in Published
                          /\ k \in Published => Issued(k) /\ Settled(k)
                          /\ Held(k)' => Held(k) /\ \A t \in Tasks : Elsewhere(k, t)
    <2>1. \A k \in PreKey : (Issued(k)' => k \in Published) /\ (Settled(k)' => k \in Published)
      BY <1>0, <1>2 DEF Issued, Settled, Published, Past, Late
    <2>2. \A k \in PreKey : k \in Published => Issued(k) /\ Settled(k)
      BY DEF Issued, Settled
    <2>3. \A k \in PreKey : Held(k)' => k \in uploaded \/ k \in retried \ lost'
      BY <1>0, <1>2 DEF Held, Past, Waiting
    <2>4. \A k \in retried \ lost' : k \notin lost /\ \A r \in Retriers : k \notin got[r]
      BY <1>0
    <2> QED BY <2>1, <2>2, <2>3, <2>4 DEF Held, Elsewhere, CommittingOf
  <1>9. Below'
    <2>1. \A t \in Tasks : ~Owning(t)'
      BY <1>2 DEF Owning, Active, Counting
    <2> QED BY <1>0, <1>2, <1>8, <2>1 DEF Below
  <1>10. Kept'
    BY <1>2, <1>7, <1>8 DEF Kept
  <1>11. Same'
    BY <1>2, <1>8 DEF Same
  <1> QED BY <1>3, <1>4, <1>5, <1>9, <1>10, <1>11

-----------------------------------------------------------------------------
LEMMA InvStep ==
    ASSUME Inv, [Next]_vars
    PROVE  Inv'
  <1>1. ASSUME NEW u \in Uploaders, NEW n \in Counts, Upload(u, n) PROVE Inv'
    BY <1>1, UploadKeeps
  <1>2. ASSUME NEW u \in Uploaders, Answered(u) \/ QueryFails(u) PROVE Inv'
    BY <1>2, QueryKeeps DEF Tasks
  <1>3. ASSUME NEW u \in Uploaders, UploadCancelled(u) PROVE Inv'
    BY <1>3, InterruptedKeeps DEF Tasks
  <1>4. ASSUME NEW u \in Uploaders, Return(u) PROVE Inv'
    BY <1>4, ReturnKeeps
  <1>5. ASSUME NEW r \in Retriers, Retry(r) PROVE Inv'
    BY <1>5, RetryKeeps
  <1>6. ASSUME NEW r \in Retriers, RetryRaises(r) PROVE Inv'
    BY <1>6, InterruptedKeeps DEF Tasks
  <1>7. ASSUME NEW t \in Tasks, Generate(t) PROVE Inv'
    BY <1>7, GenerateKeeps
  <1>8. ASSUME NEW t \in Tasks, SetKeys(t) PROVE Inv'
    BY <1>8, SetKeysKeeps
  <1>9. ASSUME NEW t \in Tasks, GetKeys(t) PROVE Inv'
    BY <1>9, GetKeysKeeps
  <1>10. ASSUME NEW t \in Tasks, UpdateCreds(t) PROVE Inv'
    BY <1>10, UpdateCredsKeeps
  <1>11. ASSUME NEW t \in Tasks, SaveCreds(t) \/ SaveFails(t) PROVE Inv'
    BY <1>11, SaveKeeps
  <1>12. ASSUME NEW t \in Tasks, SendRetry(t) PROVE Inv'
    BY <1>12, SendRetryKeeps
  <1>13. ASSUME NEW t \in Tasks, Commit(t) PROVE Inv'
    BY <1>13, CommitKeeps
  <1>14. ASSUME NEW t \in Tasks, CommitRaises(t) PROVE Inv'
    BY <1>14, InterruptedKeeps
  <1>15. ASSUME NEW t \in Tasks, Query(t) \/ BackoffEnds(t) PROVE Inv'
    BY <1>15, QueryKeeps
  <1>16. CASE IntervalPasses \/ UNCHANGED vars
    BY <1>16, UnseenKeeps DEF IntervalPasses, vars
  <1>17. CASE Crash
    BY <1>17, CrashKeeps
  <1> QED BY <1>1, <1>2, <1>3, <1>4, <1>5, <1>6, <1>7, <1>8, <1>9, <1>10, <1>11, <1>12, <1>13,
             <1>14, <1>15, <1>16, <1>17 DEF Next

LEMMA InvHolds == Spec => []Inv
  <1>1. Init => Inv
    BY InvInit
  <1>2. Inv /\ [Next]_vars => Inv'
    BY InvStep
  <1> QED BY <1>1, <1>2, PTL DEF Spec

(* There is one upload at a time, whoever joins, is cancelled or resumes   *)
(* late (socket.py 937-940, 981-989).                                      *)
THEOREM OneUploadAtATime == Spec => []SingleFlight
  <1>1. Inv => SingleFlight
    BY DEF Inv, SingleFlight, Registered, Running
  <1> QED BY <1>1, InvHolds, PTL

(* A published key is the one stored under its id, up to retry receipts    *)
(* whose commit is to come or failed (socket.py 947-966, messages_recv.py  *)
(* 1104-1109), and to the ids the counters lost track of: their save       *)
(* failed before a crash (socket.py 405-409), or calls counted at once     *)
(* over a store without transactions.                                      *)
THEOREM PublishedAreStored == Spec => []PublishedStored
  <1>1. Inv => PublishedStored
    <2> SUFFICES ASSUME Inv PROVE PublishedStored
      OBVIOUS
    <2>1. ASSUME NEW k \in uploaded, Tracked(k.id) PROVE Stored(k)
      BY <2>1 DEF Inv, Typed, Kept, Held
    <2>2. ASSUME NEW k \in retried \ lost, Tracked(k.id)
          PROVE  Stored(k) \/ \E t \in Retriers : pc[t] = "commit" /\ k \in got[t]
      BY <2>2 DEF Inv, Typed, Kept, Held, CommittingOf
    <2> QED BY <2>1, <2>2 DEF PublishedStored
  <1> QED BY <1>1, InvHolds, PTL

(* No id is published with two keys, whatever failed, was cancelled or     *)
(* crashed before (signal.py 36-48, 161-178), unless the counters lost     *)
(* track of it.                                                            *)
THEOREM IdsNotReused == Spec => []NoIdReuse
  <1>1. Inv => NoIdReuse
    BY DEF Inv, Typed, NoIdReuse, Same, Issued, Published
  <1> QED BY <1>1, InvHolds, PTL
================================================================================
