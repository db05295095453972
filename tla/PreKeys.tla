-------------------------------- MODULE PreKeys --------------------------------
(***************************************************************************)
(* One-time pre-keys: utils/signal.py 31-48 and 161-200 generate and store *)
(* them, CoreSocket.upload_pre_keys (socket/socket.py 930-989) publishes   *)
(* them to the server, MessagesRecvSocket.send_retry_request               *)
(* (socket/messages_recv.py 1056-1111) publishes one in a retry receipt.   *)
(* A published key is of use only while the store holds its private half   *)
(* under the id it was published with.                                     *)
(*                                                                         *)
(* A key is the number of the get_next_pre_keys call that generated it;    *)
(* ids are natural numbers from the credentials' counter.  The key store   *)
(* either has transactions (utils/auth_utils.py 202-235) or not (the       *)
(* default file store).  The wait for the emitter's lock, the listener of  *)
(* creds.update and the saving of the credentials are steps of their own.  *)
(***************************************************************************)
EXTENDS Naturals, FiniteSets

CONSTANTS
    Uploaders,      \* tasks that call upload_pre_keys
    Retriers,       \* tasks that call send_retry_request with keys
    NoTask,
    Counts,         \* values of upload_pre_keys's count
    Stores,         \* kinds of key store: with transaction() (TRUE) or without
    MaxAttempts,    \* retries of a failed upload query, 3 in the code
    MaxId,          \* bound: pre-key ids
    MaxCalls,       \* bound: calls of get_next_pre_keys
    MaxFaults       \* bound: crashes, failed commits and failed saves

Tasks == Uploaders \cup Retriers

ASSUME TasksAssumption ==
    /\ NoTask \notin Tasks /\ Uploaders \cap Retriers = {}
ASSUME NumbersAssumption ==
    /\ Counts \subseteq Nat \ {0}
    /\ MaxAttempts \in Nat /\ MaxId \in Nat /\ MaxCalls \in Nat
    /\ MaxFaults \in Nat
    /\ Stores \subseteq BOOLEAN

Ids == 1 .. MaxId
Key == Nat \ {0}
NoKey == 0
Steps == {"lock", "set", "get", "emit", "save", "send", "commit", "query",
          "sent", "backoff"}

VARIABLES
    creds,      \* auth.creds in memory
    saved,      \* creds.json
    transactional, \* the key store has transaction()
    store,      \* the stored pre-key of each id
    locker,     \* holder of the transaction lock of the own jid
    pc,         \* where each task is; "joined" waits for another's upload
    call,       \* each task's get_next_pre_keys call, its key and its ids
    got,        \* the pre-keys the call returned
    attempt,    \* failed attempts of each upload query
    current,    \* _upload_pre_keys_task, named by the task that created it
    joins,      \* the upload each task waits for
    recent,     \* the last upload ended less than MIN_UPLOAD_INTERVAL ago
    calls,      \* history: calls of get_next_pre_keys so far
    uploaded,   \* history: keys sent to the server in an upload
    retried,    \* history: keys sent in retry receipts
    lost,       \* history: of those, the ones whose commit failed or never came
    unsaved,    \* history: ids whose counters creds.json misses: a save failed
    forgotten,  \* history: those at the time of a crash
    overlapped, \* history: ids of calls that counted at the same time, which
                \* only a store without transactions lets them do
    faults      \* counter for the bound

keptVars == <<creds, saved, transactional>>
taskVars == <<pc, call, got, attempt, joins>>
savedHistory == <<unsaved, forgotten>>
historyVars == <<calls, uploaded, retried, lost, savedHistory, overlapped, faults>>
vars == <<keptVars, store, locker, taskVars, current, recent, historyVars>>

NoCall == [count |-> 0, key |-> 0, start |-> 0, next |-> 0, last |-> 0]

Init ==
    /\ creds = [next |-> 1, first |-> 1]
    /\ saved = creds
    /\ transactional \in Stores
    /\ store = [id \in Ids |-> NoKey]
    /\ locker = NoTask
    /\ pc = [t \in Tasks |-> "idle"]
    /\ call = [t \in Tasks |-> NoCall]
    /\ got = [t \in Tasks |-> {}]
    /\ attempt = [t \in Tasks |-> 0]
    /\ current = NoTask
    /\ joins = [t \in Tasks |-> NoTask]
    /\ recent = FALSE
    /\ calls = 0 /\ uploaded = {} /\ retried = {} /\ lost = {} /\ faults = 0
    /\ unsaved = {} /\ forgotten = {} /\ overlapped = {}

Fault == faults < MaxFaults /\ faults' = faults + 1

Goto(t, step) == pc' = [pc EXCEPT ![t] = step]

-----------------------------------------------------------------------------
(* An upload's task that is not done. *)
Running(u) == u \in Uploaders /\ pc[u] \in Steps

(* upload_pre_keys: within the interval it returns at once; a caller joins *)
(* the upload in progress, or starts one.                                  *)
Upload(u, n) ==
    /\ pc[u] = "idle" /\ ~ recent
    /\ \/ /\ Running(current)
          /\ Goto(u, "joined")
          /\ joins' = [joins EXCEPT ![u] = current]
          /\ UNCHANGED <<call, attempt, current>>
       \/ /\ ~ Running(current)
          /\ Goto(u, "lock")
          /\ call' = [call EXCEPT ![u] = [NoCall EXCEPT !.count = n]]
          /\ attempt' = [attempt EXCEPT ![u] = 0]
          /\ current' = u
          /\ UNCHANGED joins
    /\ UNCHANGED <<keptVars, store, locker, got, recent, historyVars>>

(* send_retry_request, under the retry mutex: one at a time.               *)
Retry(t) ==
    /\ \A r \in Retriers : pc[r] = "idle"
    /\ Goto(t, "lock")
    /\ call' = [call EXCEPT ![t] = [NoCall EXCEPT !.count = 1]]
    /\ UNCHANGED <<keptVars, store, locker, got, attempt, joins, current,
                   recent, historyVars>>

-----------------------------------------------------------------------------
(* generate_or_get_pre_keys: n ids from the first unuploaded one, those    *)
(* from the next id on with a new key.                                     *)
Number(n, key) ==
    [count |-> n, key |-> key, start |-> creds.first, next |-> creds.next,
     last |-> creds.first + n - 1]

(* Calls that have read the counters and not yet set them.  Two of them    *)
(* may number the same ids, and the later one sets the counters back.      *)
Counting == {t \in Tasks : pc[t] \in {"set", "get", "emit"}}
Numbered(c) == {id \in Ids : c.start <= id /\ id <= c.last}
NoteOverlap(c) ==
    overlapped' = IF transactional \/ Counting = {} THEN overlapped
                  ELSE overlapped \cup Numbered(c) \cup UNION {Numbered(call[u]) : u \in Counting}

(* Mutant: the counters are read outside the transaction lock. *)
GenerateUnlocked(t) ==
    /\ pc[t] = "lock"
    /\ calls < MaxCalls /\ creds.first + call[t].count <= MaxId + 1
    /\ calls' = calls + 1
    /\ call' = [call EXCEPT ![t] = Number(call[t].count, calls + 1)]
    /\ NoteOverlap(Number(call[t].count, calls + 1))
    /\ Goto(t, "set")
    /\ UNCHANGED <<keptVars, store, locker, got, attempt, joins, current, recent,
                   uploaded, retried, lost, savedHistory, faults>>

(* The transaction lock is free, or there are no transactions; t's call    *)
(* reads the counters.                                                     *)
Generate(t) ==
    /\ pc[t] = "lock"
    /\ transactional => locker = NoTask
    /\ calls < MaxCalls /\ creds.first + call[t].count <= MaxId + 1
    /\ locker' = IF transactional THEN t ELSE locker
    /\ calls' = calls + 1
    /\ call' = [call EXCEPT ![t] = Number(call[t].count, calls + 1)]
    /\ NoteOverlap(Number(call[t].count, calls + 1))
    /\ Goto(t, "set")
    /\ UNCHANGED <<keptVars, store, got, attempt, joins, current, recent,
                   uploaded, retried, lost, savedHistory, faults>>

NewIds(t) == {id \in Ids : call[t].next <= id /\ id <= call[t].last}
Written(t, ids) == [id \in Ids |-> IF id \in ids THEN call[t].key ELSE store[id]]

(* keys.set: to the store, or to the transaction's mutations. *)
SetKeys(t) ==
    /\ pc[t] = "set"
    /\ store' = IF transactional THEN store ELSE Written(t, NewIds(t))
    /\ Goto(t, "get")
    /\ UNCHANGED <<keptVars, locker, call, got, attempt, joins, current, recent,
                   historyVars>>

Larger(m, n) == IF m >= n THEN m ELSE n
(* get_next_pre_keys' update, from the counters it read before the awaits. *)
Update(t) ==
    [next |-> Larger(call[t].last + 1, call[t].next),
     first |-> Larger(call[t].start, call[t].last + 1)]

Found(t) ==
    {[id |-> id, key |-> IF transactional THEN Written(t, NewIds(t))[id] ELSE store[id]] :
        id \in {i \in Ids : call[t].start <= i /\ i < call[t].start + call[t].count}}

(* get_pre_keys; an upload assigns the counters itself before it emits. *)
GetKeys(t) ==
    /\ pc[t] = "get"
    /\ got' = [got EXCEPT ![t] = Found(t)]
    /\ creds' = IF t \in Uploaders THEN Update(t) ELSE creds
    /\ Goto(t, "emit")
    /\ UNCHANGED <<transactional, saved, store, locker, call, attempt, joins, current, recent,
                   historyVars>>

(* creds.update reaches its listener, which assigns the counters ... *)
UpdateCreds(t) ==
    /\ pc[t] = "emit"
    /\ creds' = Update(t)
    /\ Goto(t, "save")
    /\ UNCHANGED <<transactional, saved, store, locker, call, got, attempt, joins, current,
                   recent, historyVars>>

(* ... and saves the credentials as they are when the file is written ...  *)
SaveCreds(t) ==
    /\ pc[t] = "save"
    /\ saved' = creds
    /\ unsaved' = {}
    /\ Goto(t, IF t \in Uploaders THEN "commit" ELSE "send")
    /\ UNCHANGED <<transactional, creds, store, locker, call, got, attempt, joins, current,
                   recent, calls, uploaded, retried, lost, forgotten, overlapped, faults>>

(* ... or fails to, which is logged and the work goes on. *)
SaveFails(t) ==
    /\ pc[t] = "save"
    /\ Fault
    /\ unsaved' = unsaved \cup Numbered(call[t])
    /\ Goto(t, IF t \in Uploaders THEN "commit" ELSE "send")
    /\ UNCHANGED <<keptVars, store, locker, call, got, attempt, joins, current,
                   recent, calls, uploaded, retried, lost, forgotten, overlapped>>

(* send_node of the retry receipt, inside the transaction. *)
SendRetry(t) ==
    /\ pc[t] = "send"
    /\ retried' = retried \cup got[t]
    /\ Goto(t, "commit")
    /\ UNCHANGED <<keptVars, store, locker, call, got, attempt, joins, current,
                   recent, calls, uploaded, lost, savedHistory, overlapped, faults>>

-----------------------------------------------------------------------------
Release(t) == locker' = IF locker = t THEN NoTask ELSE locker

Forget(t) ==
    /\ call' = [call EXCEPT ![t] = NoCall]
    /\ got' = [got EXCEPT ![t] = {}]
    /\ attempt' = [attempt EXCEPT ![t] = 0]

(* Mutant: those who joined are forgotten. *)
EndAlone(t) ==
    /\ Goto(t, IF t \in Uploaders THEN "ended" ELSE "idle")
    /\ Forget(t)
(* t's task is done, which wakes those who joined it. *)
End(t) ==
    /\ pc' = [u \in Tasks |->
                 IF u \in Uploaders /\ (u = t \/ (pc[u] = "joined" /\ joins[u] = t))
                 THEN "ended"
                 ELSE IF u = t THEN "idle" ELSE pc[u]]
    /\ Forget(t)

(* The transaction is over: the upload sends its query, the retry is done. *)
Committed(t) ==
    IF t \in Uploaders
    THEN Goto(t, "query") /\ UNCHANGED <<call, got, attempt>>
    ELSE End(t)

(* The transaction commits and ends. *)
Commit(t) ==
    /\ pc[t] = "commit"
    /\ store' = IF transactional THEN Written(t, NewIds(t)) ELSE store
    /\ Release(t)
    /\ Committed(t)
    /\ UNCHANGED <<keptVars, joins, current, recent, historyVars>>

(* Mutant: a failed commit is logged and the work goes on. *)
CommitIgnored(t) ==
    /\ transactional
    /\ pc[t] = "commit"
    /\ \E ids \in SUBSET NewIds(t) : store' = Written(t, ids)
    /\ Release(t)
    /\ Committed(t)
    /\ UNCHANGED <<keptVars, joins, current, recent, historyVars>>

(* Every attempt of the commit failed, perhaps half done, or what precedes *)
(* it in the transaction failed or was cancelled; the call raises.         *)
CommitRaises(t) ==
    /\ transactional
    /\ pc[t] = "commit"
    /\ Fault
    /\ \E ids \in SUBSET NewIds(t) : store' = Written(t, ids)
    /\ lost' = lost \cup (retried \cap got[t])
    /\ Release(t)
    /\ End(t)
    /\ UNCHANGED <<keptVars, joins, current, recent, calls, uploaded, retried,
                   savedHistory, overlapped>>

(* The upload's query is sent; what it returns is up to the server. *)
Query(t) ==
    /\ pc[t] = "query"
    /\ uploaded' = uploaded \cup got[t]
    /\ Goto(t, "sent")
    /\ UNCHANGED <<keptVars, store, locker, call, got, attempt, joins, current,
                   recent, calls, retried, lost, savedHistory, overlapped, faults>>

Answered(t) ==
    /\ pc[t] = "sent"
    /\ recent' = TRUE
    /\ End(t)
    /\ UNCHANGED <<keptVars, store, locker, joins, current, historyVars>>

QueryFails(t) ==
    /\ pc[t] = "sent"
    /\ IF attempt[t] >= MaxAttempts
       THEN End(t)
       ELSE /\ Goto(t, "backoff")
            /\ attempt' = [attempt EXCEPT ![t] = attempt[t] + 1]
            /\ UNCHANGED <<call, got>>
    /\ UNCHANGED <<keptVars, store, locker, joins, current, recent, historyVars>>

BackoffEnds(t) ==
    /\ pc[t] = "backoff"
    /\ Goto(t, "query")
    /\ UNCHANGED <<keptVars, store, locker, call, got, attempt, joins, current,
                   recent, historyVars>>

(* What an interruption of t leaves in the store: a write that was under   *)
(* way is done in part.                                                    *)
Writing(t) ==
    IF pc[t] = (IF transactional THEN "commit" ELSE "set") THEN NewIds(t) ELSE {}

(* The 30 s limit of an upload, or the cancellation of one that waits for  *)
(* it (a disconnect), cancels its task wherever it stands.                 *)
UploadCancelled(t) ==
    /\ Running(t)
    /\ \E ids \in SUBSET Writing(t) : store' = Written(t, ids)
    /\ Release(t)
    /\ End(t)
    /\ UNCHANGED <<keptVars, joins, current, recent, historyVars>>

(* Mutant: the finally clears whatever upload is registered. *)
ReturnClears(u) ==
    /\ pc[u] = "ended"
    /\ Goto(u, "idle")
    /\ current' = NoTask
    /\ joins' = [joins EXCEPT ![u] = NoTask]
    /\ UNCHANGED <<keptVars, store, locker, call, got, attempt, recent, historyVars>>

(* The waiting caller resumes: its finally clears only its own task. *)
Return(u) ==
    /\ pc[u] = "ended"
    /\ Goto(u, "idle")
    /\ current' = IF current = u THEN NoTask ELSE current
    /\ joins' = [joins EXCEPT ![u] = NoTask]
    /\ UNCHANGED <<keptVars, store, locker, call, got, attempt, recent, historyVars>>

(* A retry request raises before its receipt left, or is cancelled. *)
RetryRaises(t) ==
    /\ t \in Retriers /\ pc[t] \in Steps \ {"commit"}
    /\ \E ids \in SUBSET Writing(t) : store' = Written(t, ids)
    /\ Release(t)
    /\ End(t)
    /\ UNCHANGED <<keptVars, joins, current, recent, historyVars>>

IntervalPasses ==
    /\ recent
    /\ recent' = FALSE
    /\ UNCHANGED <<keptVars, store, locker, taskVars, current, historyVars>>

(* The process dies and starts again from its files. *)
Crash ==
    /\ Fault
    /\ lost' = lost \cup (retried \cap UNION {got[t] : t \in Retriers})
    /\ creds' = saved
    /\ forgotten' = forgotten \cup unsaved /\ unsaved' = {}
    /\ \E done \in SUBSET {w \in Tasks \X Ids : w[2] \in Writing(w[1])} :
         store' = [id \in Ids |->
                     IF \E t \in Tasks : <<t, id>> \in done
                     THEN call[CHOOSE t \in Tasks : <<t, id>> \in done].key
                     ELSE store[id]]
    /\ locker' = NoTask /\ current' = NoTask /\ recent' = FALSE
    /\ pc' = [t \in Tasks |-> "idle"]
    /\ call' = [t \in Tasks |-> NoCall]
    /\ got' = [t \in Tasks |-> {}]
    /\ attempt' = [t \in Tasks |-> 0]
    /\ joins' = [t \in Tasks |-> NoTask]
    /\ UNCHANGED <<transactional, saved, calls, uploaded, retried, overlapped>>

Next ==
    \/ \E u \in Uploaders :
         \/ \E n \in Counts : Upload(u, n)
         \/ Answered(u) \/ QueryFails(u) \/ UploadCancelled(u) \/ Return(u)
    \/ \E t \in Retriers : Retry(t) \/ RetryRaises(t)
    \/ \E t \in Tasks :
         \/ Generate(t) \/ SetKeys(t) \/ GetKeys(t) \/ UpdateCreds(t)
         \/ SaveCreds(t) \/ SaveFails(t)
         \/ SendRetry(t) \/ Commit(t) \/ CommitRaises(t) \/ Query(t) \/ BackoffEnds(t)
    \/ IntervalPasses
    \/ Crash

(* The 30 s timer of an upload fires; a caller whose task is done resumes. *)
Fairness ==
    \A u \in Uploaders : WF_vars(UploadCancelled(u)) /\ WF_vars(Return(u))

Spec == Init /\ [][Next]_vars
FairSpec == Spec /\ Fairness

-----------------------------------------------------------------------------
Stored(k) == store[k.id] = k.key

(* The counters keep track of an id, unless the process died when they     *)
(* could not be saved (socket.py 405-409), or another call read them       *)
(* before they were set, which happens without transactions only.          *)
Tracked(id) == id \notin forgotten \cup overlapped

(* Every key uploaded is the one stored under its id, whatever commits     *)
(* failed, uploads were cancelled or crashes came between: the server      *)
(* hands out no pre-key whose private half is gone (socket.py 947-966).    *)
(* So is every key in a retry receipt, unless its transaction is about to  *)
(* commit, or that commit failed or died: the receipt leaves first         *)
(* (messages_recv.py 1104-1109), and nothing else takes its key away.      *)
(* Ids that the counters lost track of are the exception.                  *)
PublishedStored ==
    /\ \A k \in uploaded : Tracked(k.id) => Stored(k)
    /\ \A k \in retried \ lost : Tracked(k.id) =>
        Stored(k) \/ \E t \in Retriers : pc[t] = "commit" /\ k \in got[t]

(* An id is published with one key only, by uploads, retries and           *)
(* restarted processes together (signal.py 36-48, 161-178), unless the     *)
(* counters lost track of it.                                              *)
NoIdReuse ==
    \A j, k \in uploaded \cup retried :
        j.id = k.id /\ Tracked(j.id) => j.key = k.key

(* At most one upload is in progress, although a caller may start the next *)
(* before the last one's caller has resumed (socket.py 937-940, 981-989).  *)
SingleFlight == \A t, u \in Uploaders : Running(t) /\ Running(u) => t = u

(* Every call of upload_pre_keys returns, also one that joined an upload   *)
(* which was cancelled or failed.                                          *)
UploadReturns == \A u \in Uploaders : pc[u] # "idle" ~> pc[u] = "idle"
=============================================================================
