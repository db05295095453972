------------------------------ MODULE KeyedMutex ------------------------------
(***************************************************************************)
(* utils/make_mutex.py: KeyedMutex, the per-key mutual exclusion used      *)
(* around signal encryption (one critical section per recipient jid).      *)
(*                                                                         *)
(* A lock object exists only while some caller of its key is inside        *)
(* mutex(): _get_lock counts the caller and makes the object on demand,    *)
(* _release_lock drops it with the last caller.  What can go wrong is that *)
(* a caller enters through a fresh object while another is still inside    *)
(* through the old one, so lock objects have identities here (LockIds),    *)
(* and an identity is reused as soon as nothing refers to the object.      *)
(*                                                                         *)
(* asyncio runs one task at a time and switches only at an await that      *)
(* suspends.  The guard's bodies contain none, so the guard is never       *)
(* contended: _get_lock and _release_lock run within the step that calls   *)
(* them.  asyncio.Lock hands over in FIFO order: acquire() suspends when   *)
(* the lock is held or somebody waits, release() only wakes the first      *)
(* waiter, and the waiter takes the lock when it runs.                     *)
(***************************************************************************)
EXTENDS Naturals, Sequences, FiniteSets, SequencesExt

CONSTANTS
    Tasks,      \* asyncio tasks that call mutex()
    Keys,       \* the keys (recipient jids)
    LockIds,    \* identities of lock objects; one per task is enough
    NoLock,     \* the key has no entry in _locks
    NoTask,     \* the lock object is not held
    NoKey       \* the task is not in a call

ASSUME SentinelAssumption ==
    NoLock \notin LockIds /\ NoTask \notin Tasks /\ NoKey \notin Keys
ASSUME TasksFinite == IsFiniteSet(Tasks)

VARIABLES
    locks,      \* self._locks: Keys -> lock object or NoLock
    refCount,   \* self._ref_count
    holder,     \* asyncio.Lock._locked, with the task that set it
    waiters,    \* asyncio.Lock._waiters
    pc,         \* where each task stands in mutex()
    key,        \* the argument of the task's call
    lock        \* the local variable of the task's call

vars == <<locks, refCount, holder, waiters, pc, key, lock>>

(* A lock object is free when neither the table nor a task refers to it. *)
Unreferenced(l) ==
    /\ \A k \in Keys : locks[k] # l
    /\ \A t \in Tasks : lock[t] # l

Init ==
    /\ locks = [k \in Keys |-> NoLock]
    /\ refCount = [k \in Keys |-> 0]
    /\ holder = [l \in LockIds |-> NoTask]
    /\ waiters = [l \in LockIds |-> <<>>]
    /\ pc = [t \in Tasks |-> "idle"]
    /\ key = [t \in Tasks |-> NoKey]
    /\ lock = [t \in Tasks |-> NoLock]

(***************************************************************************)
(* mutex(key, task) up to its first suspension: _get_lock, then acquire.   *)
(***************************************************************************)
(* Mutant: a caller overtakes the waiters of a lock that is free. *)
AcquireBarging(t, l) ==
    IF holder[l] = NoTask
    THEN /\ holder' = [holder EXCEPT ![l] = t]
         /\ pc' = [pc EXCEPT ![t] = "critical"]
         /\ UNCHANGED waiters
    ELSE /\ waiters' = [waiters EXCEPT ![l] = Append(@, t)]
         /\ pc' = [pc EXCEPT ![t] = "waiting"]
         /\ UNCHANGED holder

Acquire(t, l) ==
    IF holder[l] = NoTask /\ waiters[l] = <<>>
    THEN /\ holder' = [holder EXCEPT ![l] = t]
         /\ pc' = [pc EXCEPT ![t] = "critical"]
         /\ UNCHANGED waiters
    ELSE /\ waiters' = [waiters EXCEPT ![l] = Append(@, t)]
         /\ pc' = [pc EXCEPT ![t] = "waiting"]
         /\ UNCHANGED holder

GetLock(t, k, l) ==
    /\ IF locks[k] = NoLock THEN Unreferenced(l) ELSE l = locks[k]
    /\ locks' = [locks EXCEPT ![k] = l]
    /\ refCount' = [refCount EXCEPT ![k] = @ + 1]
    /\ key' = [key EXCEPT ![t] = k]
    /\ lock' = [lock EXCEPT ![t] = l]

Enter(t, k, l) ==
    /\ pc[t] = "idle"
    /\ GetLock(t, k, l)
    /\ Acquire(t, l)

(* The first waiter of a released lock object runs and takes it. *)
Wake(t) ==
    /\ pc[t] = "waiting"
    /\ holder[lock[t]] = NoTask
    /\ waiters[lock[t]] # <<>>
    /\ Head(waiters[lock[t]]) = t
    /\ holder' = [holder EXCEPT ![lock[t]] = t]
    /\ waiters' = [waiters EXCEPT ![lock[t]] = Tail(@)]
    /\ pc' = [pc EXCEPT ![t] = "critical"]
    /\ UNCHANGED <<locks, refCount, key, lock>>

(* Mutant: whoever leaves drops the lock object. *)
ReleaseLockAlways(t) ==
    /\ refCount' = [refCount EXCEPT ![key[t]] = @ - 1]
    /\ locks' = [locks EXCEPT ![key[t]] = NoLock]
    /\ pc' = [pc EXCEPT ![t] = "idle"]
    /\ key' = [key EXCEPT ![t] = NoKey]
    /\ lock' = [lock EXCEPT ![t] = NoLock]

(* _release_lock(key): the last caller of a key drops its lock object, and *)
(* the call and its locals end.                                            *)
ReleaseLock(t) ==
    /\ refCount' = [refCount EXCEPT ![key[t]] = @ - 1]
    /\ locks' = [locks EXCEPT ![key[t]] = IF refCount[key[t]] <= 1 THEN NoLock ELSE @]
    /\ pc' = [pc EXCEPT ![t] = "idle"]
    /\ key' = [key EXCEPT ![t] = NoKey]
    /\ lock' = [lock EXCEPT ![t] = NoLock]

(* task() returned, raised, or was cancelled: leave the lock, then finally. *)
Exit(t) ==
    /\ pc[t] = "critical"
    /\ holder' = [holder EXCEPT ![lock[t]] = NoTask]
    /\ ReleaseLock(t)
    /\ UNCHANGED waiters

(* Mutants: no finally clause; the waiter stays in the lock's queue. *)
CancelWaitingLeaks(t) ==
    /\ pc[t] = "waiting"
    /\ \E i \in DOMAIN waiters[lock[t]] :
         /\ waiters[lock[t]][i] = t
         /\ waiters' = [waiters EXCEPT ![lock[t]] = RemoveAt(@, i)]
    /\ pc' = [pc EXCEPT ![t] = "idle"]
    /\ key' = [key EXCEPT ![t] = NoKey]
    /\ lock' = [lock EXCEPT ![t] = NoLock]
    /\ UNCHANGED <<locks, refCount, holder>>
CancelWaitingStale(t) ==
    /\ pc[t] = "waiting"
    /\ ReleaseLock(t)
    /\ UNCHANGED <<holder, waiters>>

(* The task is cancelled while it waits: acquire() takes it off the queue *)
(* and re-raises, and the finally clause releases the reference.          *)
CancelWaiting(t) ==
    /\ pc[t] = "waiting"
    /\ \E i \in DOMAIN waiters[lock[t]] :
         /\ waiters[lock[t]][i] = t
         /\ waiters' = [waiters EXCEPT ![lock[t]] = RemoveAt(@, i)]
    /\ ReleaseLock(t)
    /\ UNCHANGED holder

Next ==
    \E t \in Tasks :
        \/ \E k \in Keys, l \in LockIds : Enter(t, k, l)
        \/ Wake(t)
        \/ Exit(t)
        \/ CancelWaiting(t)

(***************************************************************************)
(* The event loop runs a task whose future is done (Wake).  That a         *)
(* critical section ends is a promise of the callers: each one encrypts    *)
(* and writes to the key store.  Nobody is obliged to call or to cancel.   *)
(***************************************************************************)
Fairness == \A t \in Tasks : WF_vars(Wake(t)) /\ WF_vars(Exit(t))

Spec == Init /\ [][Next]_vars
FairSpec == Spec /\ Fairness

-----------------------------------------------------------------------------
Callers(k) == {t \in Tasks : key[t] = k}

TypeOK ==
    /\ locks \in [Keys -> LockIds \cup {NoLock}]
    /\ refCount \in [Keys -> Nat]
    /\ holder \in [LockIds -> Tasks \cup {NoTask}]
    /\ waiters \in [LockIds -> Seq(Tasks)]
    /\ pc \in [Tasks -> {"idle", "waiting", "critical"}]
    /\ key \in [Tasks -> Keys \cup {NoKey}]
    /\ lock \in [Tasks -> LockIds \cup {NoLock}]

(* Two tasks are never inside the critical section of one key at once,     *)
(* although the lock object of a key is dropped and remade (make_mutex.py  *)
(* 36-41): two encryptions for one recipient would ratchet the same state. *)
MutualExclusion ==
    \A t, u \in Tasks :
        pc[t] = "critical" /\ pc[u] = "critical" /\ key[t] = key[u] => t = u

(* The reference count of a key is the number of its callers, however they *)
(* leave, and the key is in the table exactly while it has callers: the    *)
(* table neither leaks a key nor drops one that is in use (29-41).         *)
CountsCallers ==
    \A k \in Keys :
        /\ refCount[k] = Cardinality(Callers(k))
        /\ locks[k] # NoLock <=> Callers(k) # {}

(* Every caller of a key uses the object the table holds: this is what     *)
(* makes the per-object exclusion of asyncio.Lock an exclusion per key.    *)
OneObjectPerKey ==
    \A t \in Tasks : pc[t] # "idle" => locks[key[t]] = lock[t]

(* The strengthening MutualExclusion needs: keys do not share an object,   *)
(* only a caller has a key, and a task is critical by holding its object.  *)
LocksDistinct ==
    \A j, k \in Keys : locks[j] = locks[k] /\ locks[j] # NoLock => j = k
CallState ==
    \A t \in Tasks :
        /\ pc[t] = "idle" <=> key[t] = NoKey
        /\ pc[t] = "idle" <=> lock[t] = NoLock
        /\ pc[t] = "critical" => holder[lock[t]] = t
Safe ==
    /\ TypeOK
    /\ CallState
    /\ OneObjectPerKey
    /\ CountsCallers
    /\ LocksDistinct

(* A task that waits for a key gets it or is cancelled: a wake-up is never *)
(* lost, whoever else is cancelled or drops the lock object meanwhile.     *)
WaiterServed == \A t \in Tasks : pc[t] = "waiting" ~> pc[t] # "waiting"

(* Independent FIFO mutexes, one per key: the object table is an           *)
(* implementation detail (refinement of KeyedLine).                        *)
Line(k) ==
    IF locks[k] = NoLock THEN <<>> ELSE waiters[locks[k]]
Inside(k) ==
    IF locks[k] = NoLock THEN NoTask ELSE holder[locks[k]]

Abstract == INSTANCE KeyedLine
    WITH line <- [k \in Keys |-> Line(k)], inside <- [k \in Keys |-> Inside(k)]
ImplementsKeyedLine == Abstract!Spec
=============================================================================
