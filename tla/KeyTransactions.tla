---------------------------- MODULE KeyTransactions ----------------------------
(***************************************************************************)
(* utils/auth_utils.py 111-237: transactions over a key store.  A task     *)
(* takes the lock of the transaction's key, works on a context of its own  *)
(* (a cache of what it read and its mutations) and commits the mutations   *)
(* with one call of the store, which is tried again when it fails.         *)
(*                                                                         *)
(* The store is the default one (utils/use_multi_file_auth_state.py): the  *)
(* call writes one file for each record, at the same time.  When one write *)
(* fails the others go on; when the task is cancelled, so may those that a *)
(* thread is doing.  Otherwise a file's lock lets its readers and writers  *)
(* in one after the other.                                                 *)
(*                                                                         *)
(* A transaction updates a set of records from their old values, in any    *)
(* order and interleaved (the siblings of a gather).  Which records belong *)
(* to which key is up to its callers: a session is updated under its jid,  *)
(* under the own jid around a send (socket/messages_send.py 992), and      *)
(* under the keys of a deletion and a migration (signal/libsignal.py 304,  *)
(* 371).  A transaction inside another one reuses its context, takes no    *)
(* lock and adds nothing of its own.  A record is the number of its        *)
(* updates.                                                                *)
(***************************************************************************)
EXTENDS Naturals, FiniteSets

CONSTANTS
    Tasks, NoTask,
    Records,        \* a key type and id of the store
    Keys, NoKey,    \* keys of transactions
    KeysOf,         \* the keys that each task's transactions are under
    Absent,         \* no value
    MaxAttempts,    \* max_commit_retries
    MaxUpdates,     \* bound: a record with so many updates is not asked for
    MaxLate         \* bound: writes that cancelled tasks leave under way

ASSUME NoTaskAssumption == NoTask \notin Tasks
ASSUME AbsentAssumption == Absent \notin Nat
ASSUME BoundsAssumption == MaxAttempts \in Nat \ {0} /\ MaxUpdates \in Nat /\ MaxLate \in Nat

Values == [Records -> Nat \cup {Absent}]
Nothing == [r \in Records |-> Absent]

VARIABLES
    store,      \* the underlying store
    late,       \* writes of cancelled tasks that threads go on with
    holder,     \* locks: the holder of each key's lock
    pc,         \* where each task's transaction is, or how its last one ended
    key,        \* its key
    todo,       \* the records it is to update
    cache,      \* its context's cache
    fetched,    \* what store.get returned and the cache does not have yet
    mutations,  \* its context's mutations
    pending,    \* the writes of its commit that have not ended
    attempt,    \* its failed commits
    written,    \* history: the records it has written
    overtaken   \* history: records that others wrote after it read them

contextVars == <<cache, fetched, mutations>>
commitVars == <<pending, attempt, written>>
vars == <<store, late, holder, pc, key, todo, contextVars, commitVars, overtaken>>

Over(t) == pc[t] \in {"returned", "raised"}

Init ==
    /\ store = [r \in Records |-> 0]
    /\ late = {}
    /\ holder = [k \in Keys |-> NoTask]
    /\ pc = [t \in Tasks |-> "returned"]
    /\ key = [t \in Tasks |-> NoKey]
    /\ todo = [t \in Tasks |-> {}]
    /\ cache = [t \in Tasks |-> Nothing]
    /\ fetched = [t \in Tasks |-> Nothing]
    /\ mutations = [t \in Tasks |-> Nothing]
    /\ pending = [t \in Tasks |-> {}]
    /\ attempt = [t \in Tasks |-> 0]
    /\ written = [t \in Tasks |-> {}]
    /\ overtaken = [t \in Tasks |-> {}]

-----------------------------------------------------------------------------
(* transaction(): the task asks for the lock of the key. *)
Request(t, k, records) ==
    /\ Over(t) /\ k \in KeysOf[t]
    /\ \A r \in records : store[r] < MaxUpdates
    /\ pc' = [pc EXCEPT ![t] = "waiting"]
    /\ key' = [key EXCEPT ![t] = k]
    /\ todo' = [todo EXCEPT ![t] = records]
    /\ UNCHANGED <<store, late, holder, contextVars, commitVars, overtaken>>

(* Mutant: the lock is not waited for. *)
EnterUnlocked(t) ==
    /\ pc[t] = "waiting"
    /\ holder' = [holder EXCEPT ![key[t]] = t]
    /\ pc' = [pc EXCEPT ![t] = "running"]
    /\ UNCHANGED <<store, late, key, todo, contextVars, commitVars, overtaken>>

(* The lock is free: the transaction starts with an empty context. *)
Enter(t) ==
    /\ pc[t] = "waiting" /\ holder[key[t]] = NoTask
    /\ holder' = [holder EXCEPT ![key[t]] = t]
    /\ pc' = [pc EXCEPT ![t] = "running"]
    /\ UNCHANGED <<store, late, key, todo, contextVars, commitVars, overtaken>>

(* get() of a record the context has not: under the read lock of the key   *)
(* type the store is asked ...                                             *)
ReadLockFree == \A u \in Tasks : fetched[u] = Nothing
Fetch(t, r) ==
    /\ pc[t] = "running" /\ r \in todo[t]
    /\ cache[t][r] = Absent /\ ReadLockFree
    /\ fetched' = [fetched EXCEPT ![t][r] = store[r]]
    /\ UNCHANGED <<store, late, holder, pc, key, todo, cache, mutations, commitVars, overtaken>>

(* ... and what it returned is added to the cache. *)
Fill(t, r) ==
    /\ pc[t] = "running" /\ fetched[t][r] # Absent
    /\ cache' = [cache EXCEPT ![t][r] = fetched[t][r]]
    /\ fetched' = [fetched EXCEPT ![t][r] = Absent]
    /\ UNCHANGED <<store, late, holder, pc, key, todo, mutations, commitVars, overtaken>>

(* set() of a record that was read: cache and mutations, not the store. *)
Update(t, r) ==
    /\ pc[t] = "running" /\ r \in todo[t]
    /\ cache[t][r] # Absent /\ mutations[t][r] = Absent
    /\ cache' = [cache EXCEPT ![t][r] = cache[t][r] + 1]
    /\ mutations' = [mutations EXCEPT ![t][r] = cache[t][r] + 1]
    /\ UNCHANGED <<store, late, holder, pc, key, todo, fetched, commitVars, overtaken>>

-----------------------------------------------------------------------------
(* The store when a transaction has written some of its files, and whose   *)
(* work that overtakes: transactions of other keys that have read them.    *)
Stored(t, records) ==
    [r \in Records |-> IF r \in records THEN mutations[t][r] ELSE store[r]]
Met(u) == {r \in Records : fetched[u][r] # Absent \/ cache[u][r] # Absent}
Overtaking(t, records) ==
    [u \in Tasks |-> IF key[u] = key[t] THEN overtaken[u]
                                        ELSE overtaken[u] \cup (records \cap Met(u))]

(* Mutant: whoever leaves keeps the lock. *)
EndHolding(t, how) ==
    /\ pc' = [pc EXCEPT ![t] = how]
    /\ todo' = [todo EXCEPT ![t] = {}]
    /\ cache' = [cache EXCEPT ![t] = Nothing]
    /\ fetched' = [fetched EXCEPT ![t] = Nothing]
    /\ mutations' = [mutations EXCEPT ![t] = Nothing]
    /\ pending' = [pending EXCEPT ![t] = {}]
    /\ attempt' = [attempt EXCEPT ![t] = 0]
    /\ written' = [written EXCEPT ![t] = {}]
    /\ key' = [key EXCEPT ![t] = NoKey]
    /\ UNCHANGED holder

(* The transaction is over: its context is reset and its lock released. *)
End(t, how) ==
    /\ holder' = [k \in Keys |-> IF holder[k] = t THEN NoTask ELSE holder[k]]
    /\ pc' = [pc EXCEPT ![t] = how]
    /\ todo' = [todo EXCEPT ![t] = {}]
    /\ cache' = [cache EXCEPT ![t] = Nothing]
    /\ fetched' = [fetched EXCEPT ![t] = Nothing]
    /\ mutations' = [mutations EXCEPT ![t] = Nothing]
    /\ pending' = [pending EXCEPT ![t] = {}]
    /\ attempt' = [attempt EXCEPT ![t] = 0]
    /\ written' = [written EXCEPT ![t] = {}]
    /\ key' = [key EXCEPT ![t] = NoKey]

(* The work is done; without mutations there is nothing to commit, with    *)
(* mutations store.set() begins to write them.                             *)
Finish(t) ==
    /\ pc[t] = "running"
    /\ \A r \in todo[t] : mutations[t][r] # Absent
    /\ \/ /\ todo[t] = {} /\ End(t, "returned")
          /\ overtaken' = [overtaken EXCEPT ![t] = {}]
       \/ /\ todo[t] # {}
          /\ pc' = [pc EXCEPT ![t] = "committing"]
          /\ pending' = [pending EXCEPT ![t] = todo[t]]
          /\ UNCHANGED <<holder, key, todo, contextVars, attempt, written, overtaken>>
    /\ UNCHANGED <<store, late>>

(* One of the files is written. *)
WriteOne(t, r) ==
    /\ pc[t] = "committing" /\ r \in pending[t]
    /\ store' = Stored(t, {r})
    /\ overtaken' = Overtaking(t, {r})
    /\ pending' = [pending EXCEPT ![t] = @ \ {r}]
    /\ written' = [written EXCEPT ![t] = @ \cup {r}]
    /\ UNCHANGED <<late, holder, pc, key, todo, contextVars, attempt>>

(* Mutant: the transaction returns with the first of the writes. *)
CommitEarly(t) ==
    /\ pc[t] = "committing" /\ pending[t] # todo[t]
    /\ overtaken' = [overtaken EXCEPT ![t] = {}]
    /\ End(t, "returned")
    /\ UNCHANGED <<store, late>>

(* store.set(mutations) has written all the files. *)
Commit(t) ==
    /\ pc[t] = "committing" /\ pending[t] = {}
    /\ overtaken' = [overtaken EXCEPT ![t] = {}]
    /\ End(t, "returned")
    /\ UNCHANGED <<store, late>>

(* One of the writes fails, and store.set raises; of the others some have  *)
(* ended and some are still to end, all of them before the file's next     *)
(* reader or writer.  All is written again, or the transaction raises and  *)
(* resets its context, and what was written stays.                         *)
CommitFails(t) ==
    /\ pc[t] = "committing"
    /\ \E records \in SUBSET pending[t] :
         /\ records # pending[t]
         /\ store' = Stored(t, records)
         /\ \/ /\ attempt[t] < MaxAttempts - 1
               /\ attempt' = [attempt EXCEPT ![t] = attempt[t] + 1]
               /\ overtaken' = Overtaking(t, records)
               /\ pending' = [pending EXCEPT ![t] = todo[t]]
               /\ written' = [written EXCEPT ![t] = @ \cup records]
               /\ UNCHANGED <<holder, pc, key, todo, contextVars>>
            \/ /\ attempt[t] = MaxAttempts - 1
               /\ overtaken' = [Overtaking(t, records) EXCEPT ![t] = {}]
               /\ End(t, "raised")
    /\ UNCHANGED late

(* The work raises, or the task is cancelled wherever it stands: of the    *)
(* files that it is writing, some are written after its lock is released.  *)
Raise(t) ==
    /\ ~Over(t)
    /\ \E records \in SUBSET pending[t] :
         late' = late \cup {<<r, mutations[t][r]>> : r \in records}
    /\ Cardinality(late') <= MaxLate
    /\ overtaken' = [overtaken EXCEPT ![t] = {}]
    /\ End(t, "raised")
    /\ UNCHANGED store

(* A thread ends the write of a task that was cancelled. *)
Land(w) ==
    /\ late' = late \ {w}
    /\ store' = [store EXCEPT ![w[1]] = w[2]]
    /\ overtaken' = [u \in Tasks |-> overtaken[u] \cup ({w[1]} \cap Met(u))]
    /\ UNCHANGED <<holder, pc, key, todo, contextVars, commitVars>>

Next ==
    \/ \E t \in Tasks :
        \/ \E k \in Keys : \E records \in SUBSET Records : Request(t, k, records)
        \/ Enter(t)
        \/ \E r \in Records : Fetch(t, r) \/ Fill(t, r) \/ Update(t, r) \/ WriteOne(t, r)
        \/ Finish(t) \/ Commit(t) \/ CommitFails(t) \/ Raise(t)
    \/ \E w \in late : Land(w)

(* The work of a running transaction goes on, and so does its commit; a    *)
(* lock serves its waiters in order.                                       *)
Work(t) ==
    \/ \E r \in Records : Fill(t, r) \/ Update(t, r) \/ WriteOne(t, r)
    \/ Finish(t) \/ Commit(t) \/ CommitFails(t)

Fairness ==
    \A t \in Tasks :
        /\ SF_vars(Enter(t))
        /\ SF_vars(\E r \in Records : Fetch(t, r))
        /\ WF_vars(Work(t))

Spec == Init /\ [][Next]_vars
FairSpec == Spec /\ Fairness

-----------------------------------------------------------------------------
TypeOK ==
    /\ store \in [Records -> Nat]
    /\ late \subseteq Records \X Nat
    /\ holder \in [Keys -> Tasks \cup {NoTask}]
    /\ pc \in [Tasks -> {"waiting", "running", "committing", "returned", "raised"}]
    /\ key \in [Tasks -> Keys \cup {NoKey}]
    /\ todo \in [Tasks -> SUBSET Records]
    /\ cache \in [Tasks -> Values]
    /\ fetched \in [Tasks -> Values]
    /\ mutations \in [Tasks -> Values]
    /\ pending \in [Tasks -> SUBSET Records]
    /\ attempt \in [Tasks -> 0 .. MaxAttempts - 1]
    /\ written \in [Tasks -> SUBSET Records]
    /\ overtaken \in [Tasks -> SUBSET Records]

Active(t) == pc[t] \in {"running", "committing"}

(* A running transaction holds its key's lock, and the lock of a key is    *)
(* held for a running transaction only, also when waiters are cancelled.   *)
HoldersRun ==
    /\ \A t \in Tasks : Active(t) => holder[key[t]] = t
    /\ \A k \in Keys : holder[k] # NoTask => Active(holder[k]) /\ key[holder[k]] = k

(* What a transaction has of a record agrees with the store. *)
Current(t, r) ==
    /\ fetched[t][r] # Absent => fetched[t][r] = store[r]
    /\ cache[t][r] # Absent /\ mutations[t][r] = Absent => cache[t][r] = store[r]
    /\ mutations[t][r] # Absent =>
         /\ cache[t][r] = mutations[t][r]
         /\ mutations[t][r] = IF r \in written[t] THEN store[r] ELSE store[r] + 1

(* What a transaction has read of a record stays true until it commits,    *)
(* and its own update builds on it, whatever commits of its key fail       *)
(* halfway.  The exceptions are records that a transaction under another   *)
(* key, or a write that a cancelled one left under way, wrote after they   *)
(* were read: the locks of auth_utils.py 207 keep neither out.             *)
ReadsCurrent == \A t \in Tasks : \A r \in Records \ overtaken[t] : Current(t, r)

Status == [t \in Tasks |-> IF Over(t) THEN pc[t] ELSE "open"]
Committed == INSTANCE AtomicStore WITH asked <- todo, status <- Status

(* A transaction that returns has updated each of its records once, one    *)
(* that raises has updated some of them, transactions of one key one after *)
(* the other, and no update is lost but to the overtaken records.          *)
ImplementsAtomicStore == Committed!Spec

(* Every transaction ends, whatever commits fail, and its lock is passed   *)
(* on.                                                                     *)
TransactionEnds == \A t \in Tasks : ~Over(t) ~> Over(t)
=============================================================================
