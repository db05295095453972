--------------------------- MODULE KeyedMutexProofs ---------------------------
(***************************************************************************)
(* Mutual exclusion and exact reference counting of KeyedMutex, and that   *)
(* it implements KeyedLine, for any finite set of tasks and any keys and   *)
(* lock identities.                                                        *)
(***************************************************************************)
EXTENDS KeyedMutex, FiniteSetTheorems, SequenceTheorems, TLAPS

(* The callers of a key are finitely many, so they can be counted. *)
LEMMA CallersFinite ==
    ASSUME NEW k
    PROVE  /\ IsFiniteSet(Callers(k))
           /\ Cardinality(Callers(k)) \in Nat
           /\ Cardinality(Callers(k)) = 0 <=> Callers(k) = {}
<1>1. Callers(k) \in SUBSET Tasks
  BY DEF Callers
<1>2. IsFiniteSet(Callers(k))
  BY <1>1, TasksFinite, FS_Subset
<1> QED
  BY <1>2, FS_CardinalityType, FS_EmptySet

(* Cancelling a waiter leaves a sequence of tasks. *)
LEMMA RemoveAtType ==
    ASSUME NEW S, NEW s \in Seq(S), NEW i \in DOMAIN s
    PROVE  RemoveAt(s, i) \in Seq(S)
<1>1. /\ SubSeq(s, 1, i-1) \in Seq(S)
      /\ SubSeq(s, i+1, Len(s)) \in Seq(S)
  OBVIOUS
<1> QED
  BY <1>1 DEF RemoveAt

(* A call adds its task to the callers of its key and of no other key. *)
LEMMA EnterCounts ==
    ASSUME Safe, NEW t \in Tasks, NEW k \in Keys, NEW l \in LockIds, Enter(t, k, l)
    PROVE  CountsCallers'
<1> USE DEF Safe
<1>1. key[t] = NoKey
  BY DEF Enter, CallState
<1>2. key' = [key EXCEPT ![t] = k] /\ refCount' = [refCount EXCEPT ![k] = @ + 1]
      /\ locks' = [locks EXCEPT ![k] = l]
  BY DEF Enter, GetLock
<1>3. Callers(k)' = Callers(k) \cup {t} /\ t \notin Callers(k)
  BY <1>1, <1>2, SentinelAssumption DEF Callers, TypeOK
<1>4. \A j \in Keys \ {k} : Callers(j)' = Callers(j)
  BY <1>1, <1>2, SentinelAssumption DEF Callers, TypeOK
<1>5. Cardinality(Callers(k)') = Cardinality(Callers(k)) + 1
  BY <1>3, CallersFinite, FS_AddElement
<1>6. /\ refCount'[k] = Cardinality(Callers(k))'
      /\ locks'[k] # NoLock <=> Callers(k)' # {}
  BY <1>2, <1>3, <1>5, SentinelAssumption DEF TypeOK, CountsCallers
<1>7. ASSUME NEW j \in Keys \ {k}
      PROVE  /\ refCount'[j] = Cardinality(Callers(j))'
             /\ locks'[j] # NoLock <=> Callers(j)' # {}
  BY <1>2, <1>4 DEF TypeOK, CountsCallers
<1> QED
  BY <1>6, <1>7 DEF CountsCallers

(* The end of a call takes its task from the callers of its key only, and  *)
(* the entry goes exactly when that was the last caller.                   *)
LEMMA LeaveCounts ==
    ASSUME Safe, NEW t \in Tasks, pc[t] # "idle", ReleaseLock(t)
    PROVE  /\ CountsCallers'
           /\ locks'[key[t]] = NoLock => Callers(key[t]) = {t}
<1> USE DEF Safe
<1> PICK k \in Keys : k = key[t]
  BY DEF CallState, TypeOK
<1>1. t \in Callers(k)
  BY DEF Callers
<1>2. /\ key' = [key EXCEPT ![t] = NoKey]
      /\ refCount' = [refCount EXCEPT ![k] = @ - 1]
      /\ locks' = [locks EXCEPT ![k] = IF refCount[k] <= 1 THEN NoLock ELSE @]
  BY DEF ReleaseLock
<1>3. Callers(k)' = Callers(k) \ {t}
  BY <1>1, <1>2, SentinelAssumption DEF Callers, TypeOK
<1>4. \A j \in Keys \ {k} : Callers(j)' = Callers(j)
  BY <1>1, <1>2, SentinelAssumption DEF Callers, TypeOK
<1>5. /\ Cardinality(Callers(k) \ {t}) = Cardinality(Callers(k)) - 1
      /\ Cardinality(Callers(k) \ {t}) \in Nat
      /\ Cardinality(Callers(k) \ {t}) = 0 <=> Callers(k) \ {t} = {}
  BY <1>1, CallersFinite, FS_RemoveElement, FS_CardinalityType, FS_EmptySet
<1>6. refCount[k] = Cardinality(Callers(k)) /\ locks[k] # NoLock
  BY <1>1 DEF CountsCallers
<1>7. locks'[k] = NoLock <=> Callers(k) \ {t} = {}
  BY <1>1, <1>2, <1>5, <1>6, CallersFinite DEF TypeOK
<1>8. refCount'[k] = Cardinality(Callers(k))'
  BY <1>1, <1>2, <1>3, <1>5, <1>6 DEF TypeOK
<1>9. ASSUME NEW j \in Keys \ {k}
      PROVE  /\ refCount'[j] = Cardinality(Callers(j))'
             /\ locks'[j] # NoLock <=> Callers(j)' # {}
  BY <1>1, <1>2, <1>4, <1>9 DEF TypeOK, CountsCallers
<1> QED
  BY <1>1, <1>3, <1>7, <1>8, <1>9 DEF CountsCallers

(* What both ways out of mutex() keep, given what becomes of the holder:   *)
(* only t's own object may change hands.                                   *)
LEMMA LeaveKeeps ==
    ASSUME Safe, NEW t \in Tasks, pc[t] # "idle", ReleaseLock(t),
           holder' \in [LockIds -> Tasks \cup {NoTask}],
           waiters' \in [LockIds -> Seq(Tasks)],
           \A u \in Tasks \ {t} : pc[u] = "critical" => holder'[lock[u]] = u
    PROVE  Safe'
<1> USE DEF Safe
<1>1. key[t] \in Keys /\ lock[t] \in LockIds
  BY DEF CallState, TypeOK
<1>2. refCount[key[t]] - 1 \in Nat
  <2>1. t \in Callers(key[t])
    BY DEF Callers
  <2>2. refCount[key[t]] # 0
    BY <1>1, <2>1, CallersFinite DEF CountsCallers
  <2> QED
    BY <1>1, <2>2 DEF TypeOK
<1>3. TypeOK'
  BY <1>1, <1>2 DEF TypeOK, ReleaseLock
<1>4. CallState'
  BY DEF CallState, TypeOK, ReleaseLock
<1>5. CountsCallers' /\ (locks'[key[t]] = NoLock => Callers(key[t]) = {t})
  BY LeaveCounts
<1>6. OneObjectPerKey'
  <2> SUFFICES ASSUME NEW u \in Tasks, pc'[u] # "idle"
               PROVE  locks'[key'[u]] = lock'[u]
    BY DEF OneObjectPerKey
  <2>1. u # t /\ pc[u] # "idle" /\ key'[u] = key[u] /\ lock'[u] = lock[u] /\ key[u] \in Keys
    BY DEF ReleaseLock, TypeOK, CallState
  <2>2. locks[key[u]] = lock[u]
    BY <2>1 DEF OneObjectPerKey
  <2>3. CASE key[u] = key[t]
    <3>1. u \in Callers(key[t])
      BY <2>3 DEF Callers
    <3>2. locks'[key[t]] # NoLock
      BY <1>5, <2>1, <3>1
    <3> QED
      BY <1>1, <2>1, <2>2, <2>3, <3>2 DEF ReleaseLock, TypeOK
  <2>4. CASE key[u] # key[t]
    BY <1>1, <2>1, <2>2, <2>4 DEF ReleaseLock, TypeOK
  <2> QED
    BY <2>3, <2>4
<1>7. LocksDistinct'
  BY <1>1 DEF LocksDistinct, ReleaseLock, TypeOK
<1> QED
  BY <1>3, <1>4, <1>5, <1>6, <1>7

LEMMA EnterSafe ==
    ASSUME Safe, NEW t \in Tasks, NEW k \in Keys, NEW l \in LockIds, Enter(t, k, l)
    PROVE  Safe'
<1> USE DEF Safe
<1>1. /\ locks' = [locks EXCEPT ![k] = l]
      /\ refCount' = [refCount EXCEPT ![k] = @ + 1]
      /\ key' = [key EXCEPT ![t] = k]
      /\ lock' = [lock EXCEPT ![t] = l]
      /\ pc[t] = "idle"
  BY DEF Enter, GetLock
<1>2. IF locks[k] = NoLock THEN Unreferenced(l) ELSE l = locks[k]
  BY DEF Enter, GetLock
<1>3. /\ holder' \in [LockIds -> Tasks \cup {NoTask}]
      /\ waiters' \in [LockIds -> Seq(Tasks)]
      /\ pc' \in [Tasks -> {"idle", "waiting", "critical"}]
      /\ \E p \in {"waiting", "critical"} : pc' = [pc EXCEPT ![t] = p]
      /\ pc'[t] = "critical" => holder'[l] = t
      /\ \A m \in LockIds : holder[m] # NoTask => holder'[m] = holder[m]
  <2>1. Acquire(t, l)
    BY DEF Enter
  <2>2. CASE holder[l] = NoTask /\ waiters[l] = <<>>
    BY <2>1, <2>2 DEF Acquire, TypeOK
  <2>3. CASE ~ (holder[l] = NoTask /\ waiters[l] = <<>>)
    <3>1. Append(waiters[l], t) \in Seq(Tasks)
      BY DEF TypeOK
    <3> QED
      BY <2>1, <2>3, <3>1 DEF Acquire, TypeOK
  <2> QED
    BY <2>2, <2>3
<1>4. TypeOK'
  BY <1>1, <1>3 DEF TypeOK
<1>5. CallState'
  BY <1>1, <1>3, SentinelAssumption DEF CallState, TypeOK
<1>6. CountsCallers'
  BY EnterCounts
<1>7. OneObjectPerKey'
  <2> SUFFICES ASSUME NEW u \in Tasks, pc'[u] # "idle"
               PROVE  locks'[key'[u]] = lock'[u]
    BY DEF OneObjectPerKey
  <2>1. CASE u = t
    BY <1>1, <2>1 DEF TypeOK
  <2>2. CASE u # t
    <3>1. pc[u] # "idle" /\ key'[u] = key[u] /\ lock'[u] = lock[u] /\ key[u] \in Keys
      BY <1>1, <1>3, <2>2 DEF TypeOK, CallState
    <3>2. locks[key[u]] = lock[u] /\ lock[u] # NoLock
      BY <3>1 DEF OneObjectPerKey, CallState
    <3> QED
      BY <1>1, <1>2, <3>1, <3>2 DEF TypeOK
  <2> QED
    BY <2>1, <2>2
<1>8. LocksDistinct'
  BY <1>1, <1>2 DEF LocksDistinct, Unreferenced, TypeOK
<1> QED
  BY <1>4, <1>5, <1>6, <1>7, <1>8

LEMMA WakeSafe ==
    ASSUME Safe, NEW t \in Tasks, Wake(t)
    PROVE  Safe'
<1> USE DEF Safe
<1>1. lock[t] \in LockIds
  BY DEF Wake, CallState, TypeOK
<1>2. TypeOK'
  BY <1>1 DEF Wake, TypeOK
<1>3. CallState'
  BY <1>1, SentinelAssumption DEF Wake, CallState, TypeOK
<1>4. OneObjectPerKey'
  BY DEF Wake, OneObjectPerKey, TypeOK
<1>5. CountsCallers' /\ LocksDistinct'
  BY DEF Wake, CountsCallers, Callers, LocksDistinct
<1> QED
  BY <1>2, <1>3, <1>4, <1>5

LEMMA ExitSafe ==
    ASSUME Safe, NEW t \in Tasks, Exit(t)
    PROVE  Safe'
<1> USE DEF Safe
<1>1. pc[t] # "idle" /\ ReleaseLock(t) /\ lock[t] \in LockIds /\ holder[lock[t]] = t
  BY DEF Exit, CallState, TypeOK
<1>2. /\ holder' \in [LockIds -> Tasks \cup {NoTask}]
      /\ waiters' \in [LockIds -> Seq(Tasks)]
  BY <1>1 DEF Exit, TypeOK
<1>3. \A u \in Tasks \ {t} : pc[u] = "critical" => holder'[lock[u]] = u
  BY <1>1 DEF Exit, CallState, TypeOK
<1> QED
  BY <1>1, <1>2, <1>3, LeaveKeeps

LEMMA CancelWaitingSafe ==
    ASSUME Safe, NEW t \in Tasks, CancelWaiting(t)
    PROVE  Safe'
<1> USE DEF Safe
<1>1. pc[t] # "idle" /\ ReleaseLock(t) /\ lock[t] \in LockIds
  BY DEF CancelWaiting, CallState, TypeOK
<1>2. waiters' \in [LockIds -> Seq(Tasks)]
  <2>1. PICK i \in DOMAIN waiters[lock[t]] :
            waiters' = [waiters EXCEPT ![lock[t]] = RemoveAt(@, i)]
    BY DEF CancelWaiting
  <2>2. waiters[lock[t]] \in Seq(Tasks)
    BY <1>1 DEF TypeOK
  <2>3. RemoveAt(waiters[lock[t]], i) \in Seq(Tasks)
    BY <2>2, RemoveAtType
  <2> QED
    BY <1>1, <2>1, <2>3 DEF TypeOK
<1>3. /\ holder' \in [LockIds -> Tasks \cup {NoTask}]
      /\ \A u \in Tasks \ {t} : pc[u] = "critical" => holder'[lock[u]] = u
  BY DEF CancelWaiting, CallState, TypeOK
<1> QED
  BY <1>1, <1>2, <1>3, LeaveKeeps

LEMMA InitSafe == Init => Safe
<1> SUFFICES ASSUME Init PROVE Safe
  OBVIOUS
<1>1. TypeOK /\ CallState /\ OneObjectPerKey /\ LocksDistinct
  BY DEF Init, TypeOK, CallState, OneObjectPerKey, LocksDistinct
<1>2. \A k \in Keys : Callers(k) = {}
  BY SentinelAssumption DEF Init, Callers
<1>3. CountsCallers
  BY <1>2, CallersFinite DEF Init, CountsCallers
<1> QED
  BY <1>1, <1>3 DEF Safe

(* The whole strengthening is inductive: reference counts are exact and    *)
(* all callers of a key share the table's object (make_mutex.py 29-52).    *)
THEOREM SafeInvariant == Spec => []Safe
<1>1. Init => Safe
  BY InitSafe
<1>2. Safe /\ [Next]_vars => Safe'
  <2> SUFFICES ASSUME Safe, [Next]_vars PROVE Safe'
    OBVIOUS
  <2>1. ASSUME NEW t \in Tasks, NEW k \in Keys, NEW l \in LockIds, Enter(t, k, l)
        PROVE  Safe'
    BY <2>1, EnterSafe
  <2>2. ASSUME NEW t \in Tasks, Wake(t) PROVE Safe'
    BY <2>2, WakeSafe
  <2>3. ASSUME NEW t \in Tasks, Exit(t) PROVE Safe'
    BY <2>3, ExitSafe
  <2>4. ASSUME NEW t \in Tasks, CancelWaiting(t) PROVE Safe'
    BY <2>4, CancelWaitingSafe
  <2>5. CASE UNCHANGED vars
    <3>1. TypeOK' /\ CallState' /\ OneObjectPerKey' /\ LocksDistinct'
      BY <2>5 DEF vars, Safe, TypeOK, CallState, OneObjectPerKey, LocksDistinct
    <3>2. CountsCallers'
      BY <2>5 DEF vars, Safe, CountsCallers, Callers
    <3> QED
      BY <3>1, <3>2 DEF Safe
  <2> QED
    BY <2>1, <2>2, <2>3, <2>4, <2>5 DEF Next
<1> QED
  BY <1>1, <1>2, PTL DEF Spec

(* Callers of one key share one object, which one task holds at a time. *)
LEMMA SafeExcludes == Safe => MutualExclusion
BY DEF Safe, CallState, OneObjectPerKey, MutualExclusion

(* At most one task is in the critical section of a key, for any number of *)
(* tasks and keys and through every re-creation of the lock object.        *)
THEOREM MutexExcludes == Spec => []MutualExclusion
BY SafeInvariant, SafeExcludes, PTL

(* The reference count of every key is exactly the number of its callers,  *)
(* and the table holds exactly the keys that have callers.                 *)
THEOREM MutexCountsCallers == Spec => []CountsCallers
<1>1. Safe => CountsCallers
  BY DEF Safe
<1> QED
  BY <1>1, SafeInvariant, PTL
-----------------------------------------------------------------------------
(***************************************************************************)
(* KeyedMutex implements KeyedLine: nobody can tell that the objects are   *)
(* dropped and made again.                                                 *)
(***************************************************************************)
(* The parts of asyncio.Lock agree with the calls: who holds an object is  *)
(* critical on it, who is in its queue waits for it, and is there once.    *)
HoldersCritical ==
    \A l \in LockIds :
        holder[l] # NoTask => pc[holder[l]] = "critical" /\ lock[holder[l]] = l
QueuedWait ==
    \A l \in LockIds : \A i \in 1 .. Len(waiters[l]) :
        pc[waiters[l][i]] = "waiting" /\ lock[waiters[l][i]] = l
QueuedOnce ==
    \A l \in LockIds : \A i, j \in 1 .. Len(waiters[l]) :
        waiters[l][i] = waiters[l][j] => i = j
Lined == HoldersCritical /\ QueuedWait /\ QueuedOnce

-----------------------------------------------------------------------------
(* What is left of a sequence without its i-th element. *)
LEMMA RemoveAtElements ==
    ASSUME NEW S, NEW s \in Seq(S), NEW i \in 1 .. Len(s)
    PROVE  /\ RemoveAt(s, i) \in Seq(S)
           /\ Len(RemoveAt(s, i)) = Len(s) - 1
           /\ \A j \in 1 .. Len(s) - 1 :
                RemoveAt(s, i)[j] = IF j < i THEN s[j] ELSE s[j + 1]
<1> DEFINE left == SubSeq(s, 1, i - 1)
           right == SubSeq(s, i + 1, Len(s))
<1>1. /\ left \in Seq(S) /\ Len(left) = i - 1
      /\ \A j \in 1 .. i - 1 : left[j] = s[j]
  OBVIOUS
<1>2. /\ right \in Seq(S) /\ Len(right) = Len(s) - i
      /\ \A j \in 1 .. Len(s) - i : right[j] = s[j + i]
  OBVIOUS
<1>3. RemoveAt(s, i) = left \o right
  BY DEF RemoveAt
<1> HIDE DEF left, right
<1>4. /\ left \o right \in Seq(S) /\ Len(left \o right) = Len(left) + Len(right)
      /\ \A j \in 1 .. Len(left) + Len(right) :
           (left \o right)[j] = IF j <= Len(left) THEN left[j] ELSE right[j - Len(left)]
  BY <1>1, <1>2, ConcatProperties
<1>5. Len(left) + Len(right) = Len(s) - 1
  BY <1>1, <1>2
<1>6. ASSUME NEW j \in 1 .. Len(s) - 1
      PROVE  RemoveAt(s, i)[j] = IF j < i THEN s[j] ELSE s[j + 1]
  <2>1. CASE j < i
    BY <1>1, <1>3, <1>4, <1>5, <2>1
  <2>2. CASE ~ (j < i)
    <3>1. RemoveAt(s, i)[j] = right[j - (i - 1)]
      BY <1>1, <1>3, <1>4, <1>5, <2>2
    <3>2. j - (i - 1) \in 1 .. Len(s) - i
      BY <2>2
    <3>3. right[j - (i - 1)] = s[(j - (i - 1)) + i]
      BY <1>2, <3>2
    <3>4. (j - (i - 1)) + i = j + 1
      OBVIOUS
    <3> QED
      BY <2>2, <3>1, <3>3, <3>4
  <2> QED
    BY <2>1, <2>2
<1> QED
  BY <1>3, <1>4, <1>5, <1>6

(* Tail and Append, element by element. *)
LEMMA TailElements ==
    ASSUME NEW S, NEW s \in Seq(S), s # <<>>
    PROVE  /\ Tail(s) \in Seq(S)
           /\ Len(Tail(s)) = Len(s) - 1
           /\ \A j \in 1 .. Len(s) - 1 : Tail(s)[j] = s[j + 1]
           /\ Head(s) = s[1] /\ Len(s) \in Nat \ {0}
OBVIOUS
LEMMA AppendElements ==
    ASSUME NEW S, NEW s \in Seq(S), NEW e \in S
    PROVE  /\ Append(s, e) \in Seq(S)
           /\ Len(Append(s, e)) = Len(s) + 1
           /\ \A j \in 1 .. Len(s) : Append(s, e)[j] = s[j]
           /\ Append(s, e)[Len(s) + 1] = e
OBVIOUS

-----------------------------------------------------------------------------
LEMMA InitLined == Init => Lined
BY DEF Init, Lined, HoldersCritical, QueuedWait, QueuedOnce

(* A task outside of any call is in no lock object. *)
LEMMA IdleNowhere ==
    ASSUME Safe, Lined, NEW t \in Tasks, pc[t] = "idle", NEW l \in LockIds
    PROVE  holder[l] # t /\ \A i \in 1 .. Len(waiters[l]) : waiters[l][i] # t
BY SentinelAssumption DEF Lined, HoldersCritical, QueuedWait

LEMMA EnterLined ==
    ASSUME Safe, Lined, NEW t \in Tasks, NEW k \in Keys, NEW l \in LockIds, Enter(t, k, l)
    PROVE  Lined'
<1>1. TypeOK
  BY DEF Safe
<1>2. /\ pc[t] = "idle"
      /\ lock' = [lock EXCEPT ![t] = l]
      /\ Acquire(t, l)
  BY DEF Enter, GetLock
<1>3. \A m \in LockIds :
        holder[m] # t /\ \A i \in 1 .. Len(waiters[m]) : waiters[m][i] # t
  BY <1>2, IdleNowhere
<1>4. CASE holder[l] = NoTask /\ waiters[l] = <<>>
  <2>1. /\ holder' = [holder EXCEPT ![l] = t]
        /\ pc' = [pc EXCEPT ![t] = "critical"]
        /\ waiters' = waiters
    BY <1>2, <1>4 DEF Acquire
  <2>2. HoldersCritical'
    BY <1>1, <1>2, <1>3, <2>1 DEF Lined, HoldersCritical, TypeOK
  <2>3. QueuedWait'
    BY <1>1, <1>2, <1>3, <2>1 DEF Lined, QueuedWait, TypeOK
  <2>4. QueuedOnce'
    BY <2>1 DEF Lined, QueuedOnce
  <2> QED
    BY <2>2, <2>3, <2>4 DEF Lined
<1>5. CASE ~ (holder[l] = NoTask /\ waiters[l] = <<>>)
  <2>1. /\ waiters' = [waiters EXCEPT ![l] = Append(@, t)]
        /\ pc' = [pc EXCEPT ![t] = "waiting"]
        /\ holder' = holder
    BY <1>2, <1>5 DEF Acquire
  <2>2. HoldersCritical'
    BY <1>1, <1>2, <1>3, <2>1 DEF Lined, HoldersCritical, TypeOK
  <2>3. waiters[l] \in Seq(Tasks)
    BY <1>1 DEF TypeOK
  <2>4. /\ waiters'[l] = Append(waiters[l], t)
        /\ \A m \in LockIds \ {l} : waiters'[m] = waiters[m]
    BY <1>1, <2>1 DEF TypeOK
  <2>5. QueuedWait'
    <3> SUFFICES ASSUME NEW m \in LockIds, NEW i \in 1 .. Len(waiters'[m])
                 PROVE  pc'[waiters'[m][i]] = "waiting" /\ lock'[waiters'[m][i]] = m
      BY DEF QueuedWait
    <3>1. CASE m = l /\ i = Len(waiters[l]) + 1
      BY <1>1, <1>2, <2>1, <2>3, <2>4, <3>1, AppendElements DEF TypeOK
    <3>2. CASE i \in 1 .. Len(waiters[m])
      <4>1. waiters[m] \in Seq(Tasks) /\ waiters[m][i] \in Tasks
        BY <1>1, <3>2 DEF TypeOK
      <4>2. waiters'[m][i] = waiters[m][i]
        <5>1. CASE m = l
          BY <2>3, <2>4, <3>2, <5>1, AppendElements
        <5>2. CASE m # l
          BY <2>4, <5>2
        <5> QED
          BY <5>1, <5>2
      <4> QED
        BY <1>1, <1>2, <1>3, <2>1, <3>2, <4>1, <4>2 DEF Lined, QueuedWait, TypeOK
    <3> QED
      BY <2>3, <2>4, <3>1, <3>2, AppendElements
  <2>6. QueuedOnce'
    <3> SUFFICES ASSUME NEW m \in LockIds, NEW i \in 1 .. Len(waiters'[m]),
                        NEW j \in 1 .. Len(waiters'[m]), waiters'[m][i] = waiters'[m][j]
                 PROVE  i = j
      BY DEF QueuedOnce
    <3>1. CASE m # l
      BY <2>4, <3>1 DEF Lined, QueuedOnce
    <3>2. CASE m = l
      <4>1. /\ Len(waiters'[l]) = Len(waiters[l]) + 1 /\ Len(waiters[l]) \in Nat
            /\ \A n \in 1 .. Len(waiters[l]) : waiters'[l][n] = waiters[l][n]
            /\ waiters'[l][Len(waiters[l]) + 1] = t
        BY <2>3, <2>4, AppendElements
      <4>2. \A n \in 1 .. Len(waiters[l]) : waiters[l][n] # t
        BY <1>3
      <4>3. CASE i \in 1 .. Len(waiters[l]) /\ j \in 1 .. Len(waiters[l])
        BY <3>2, <4>1, <4>3 DEF Lined, QueuedOnce
      <4>4. \A n \in 1 .. Len(waiters[l]) : waiters'[l][n] # t
        BY <4>1, <4>2
      <4>5. /\ i \in 1 .. Len(waiters[l]) \/ i = Len(waiters[l]) + 1
            /\ j \in 1 .. Len(waiters[l]) \/ j = Len(waiters[l]) + 1
        BY <3>2, <4>1
      <4> QED
        BY <3>2, <4>1, <4>3, <4>4, <4>5
    <3> QED
      BY <3>1, <3>2
  <2> QED
    BY <2>2, <2>5, <2>6 DEF Lined
<1> QED
  BY <1>4, <1>5

LEMMA WakeLined ==
    ASSUME Safe, Lined, NEW t \in Tasks, Wake(t)
    PROVE  Lined'
<1>1. TypeOK /\ lock[t] \in LockIds
  BY DEF Safe, TypeOK, CallState, Wake
<1> PICK l \in LockIds : l = lock[t]
  BY <1>1
<1>2. /\ holder[l] = NoTask /\ waiters[l] # <<>> /\ Head(waiters[l]) = t
      /\ holder' = [holder EXCEPT ![l] = t]
      /\ waiters' = [waiters EXCEPT ![l] = Tail(@)]
      /\ pc' = [pc EXCEPT ![t] = "critical"]
      /\ lock' = lock /\ pc[t] = "waiting"
  BY DEF Wake
<1>3. waiters[l] \in Seq(Tasks)
  BY <1>1 DEF TypeOK
<1>4. /\ waiters'[l] = Tail(waiters[l])
      /\ \A m \in LockIds \ {l} : waiters'[m] = waiters[m]
  BY <1>1, <1>2 DEF TypeOK
<1>5. HoldersCritical'
  BY <1>1, <1>2 DEF Lined, HoldersCritical, TypeOK
<1>tail. /\ Len(waiters'[l]) = Len(waiters[l]) - 1 /\ Len(waiters[l]) \in Nat \ {0}
      /\ \A i \in 1 .. Len(waiters[l]) - 1 : waiters'[l][i] = waiters[l][i + 1]
      /\ waiters[l][1] = t
  <2>1. /\ Len(Tail(waiters[l])) = Len(waiters[l]) - 1 /\ Len(waiters[l]) \in Nat \ {0}
        /\ \A i \in 1 .. Len(waiters[l]) - 1 : Tail(waiters[l])[i] = waiters[l][i + 1]
        /\ Head(waiters[l]) = waiters[l][1]
    BY <1>2, <1>3, TailElements
  <2> QED
    BY <1>2, <1>4, <2>1
<1>6. QueuedWait'
  <2> SUFFICES ASSUME NEW m \in LockIds, NEW i \in 1 .. Len(waiters'[m])
               PROVE  pc'[waiters'[m][i]] = "waiting" /\ lock'[waiters'[m][i]] = m
    BY DEF QueuedWait
  <2>1. CASE m = l
    <3>1. /\ waiters'[l][i] = waiters[l][i + 1]
          /\ i + 1 \in 1 .. Len(waiters[l])
          /\ 1 \in 1 .. Len(waiters[l]) /\ i + 1 # 1
      BY <1>tail, <2>1
    <3>2. waiters[l][i + 1] # t /\ waiters[l][i + 1] \in Tasks
      BY <1>3, <1>tail, <3>1 DEF Lined, QueuedOnce
    <3> QED
      BY <1>1, <1>2, <2>1, <3>1, <3>2 DEF Lined, QueuedWait, TypeOK
  <2>2. CASE m # l
    <3>1. waiters'[m] = waiters[m] /\ waiters[m][i] \in Tasks
      BY <1>1, <1>4, <2>2 DEF TypeOK
    <3>2. pc[waiters[m][i]] = "waiting" /\ lock[waiters[m][i]] = m
      BY <3>1 DEF Lined, QueuedWait
    <3> QED
      BY <1>1, <1>2, <2>2, <3>1, <3>2 DEF TypeOK
  <2> QED
    BY <2>1, <2>2
<1>7. QueuedOnce'
  <2> SUFFICES ASSUME NEW m \in LockIds, NEW i \in 1 .. Len(waiters'[m]),
                      NEW j \in 1 .. Len(waiters'[m]), waiters'[m][i] = waiters'[m][j]
               PROVE  i = j
    BY DEF QueuedOnce
  <2>1. CASE m # l
    BY <1>4, <2>1 DEF Lined, QueuedOnce
  <2>2. CASE m = l
    <3>1. /\ waiters[l][i + 1] = waiters[l][j + 1]
          /\ i + 1 \in 1 .. Len(waiters[l]) /\ j + 1 \in 1 .. Len(waiters[l])
      BY <1>tail, <2>2
    <3>2. i + 1 = j + 1
      BY <3>1 DEF Lined, QueuedOnce
    <3> QED
      BY <3>2
  <2> QED
    BY <2>1, <2>2
<1> QED
  BY <1>5, <1>6, <1>7 DEF Lined

LEMMA ExitLined ==
    ASSUME Safe, Lined, NEW t \in Tasks, Exit(t)
    PROVE  Lined'
<1>1. TypeOK /\ lock[t] \in LockIds /\ holder[lock[t]] = t /\ pc[t] = "critical"
  BY DEF Safe, TypeOK, CallState, Exit
<1>2. /\ holder' = [holder EXCEPT ![lock[t]] = NoTask]
      /\ pc' = [pc EXCEPT ![t] = "idle"]
      /\ lock' = [lock EXCEPT ![t] = NoLock]
      /\ waiters' = waiters
  BY DEF Exit, ReleaseLock
<1>3. HoldersCritical'
  BY <1>1, <1>2 DEF Lined, HoldersCritical, TypeOK
<1>4. QueuedWait'
  BY <1>1, <1>2 DEF Lined, QueuedWait, TypeOK
<1>5. QueuedOnce'
  BY <1>2 DEF Lined, QueuedOnce
<1> QED
  BY <1>3, <1>4, <1>5 DEF Lined

LEMMA CancelWaitingLined ==
    ASSUME Safe, Lined, NEW t \in Tasks, CancelWaiting(t)
    PROVE  Lined'
<1>1. TypeOK /\ lock[t] \in LockIds /\ pc[t] = "waiting"
  BY DEF Safe, TypeOK, CallState, CancelWaiting
<1> PICK l \in LockIds : l = lock[t]
  BY <1>1
<1>2. waiters[l] \in Seq(Tasks)
  BY <1>1 DEF TypeOK
<1>3. PICK n \in 1 .. Len(waiters[l]) :
        waiters[l][n] = t /\ waiters' = [waiters EXCEPT ![l] = RemoveAt(@, n)]
  <2>1. DOMAIN waiters[l] = 1 .. Len(waiters[l])
    BY <1>2
  <2> QED
    BY <2>1 DEF CancelWaiting
<1>4. /\ pc' = [pc EXCEPT ![t] = "idle"]
      /\ lock' = [lock EXCEPT ![t] = NoLock]
      /\ holder' = holder
  BY DEF CancelWaiting, ReleaseLock
<1>5. /\ waiters'[l] = RemoveAt(waiters[l], n)
      /\ \A m \in LockIds \ {l} : waiters'[m] = waiters[m]
  BY <1>1, <1>3 DEF TypeOK
<1>6. HoldersCritical'
  BY <1>1, <1>4 DEF Lined, HoldersCritical, TypeOK
<1> DEFINE old(i) == IF i < n THEN i ELSE i + 1
<1>7. ASSUME NEW i \in 1 .. Len(waiters'[l])
      PROVE  /\ waiters'[l][i] = waiters[l][old(i)]
             /\ old(i) \in 1 .. Len(waiters[l]) /\ old(i) # n
  <2>1. /\ Len(waiters'[l]) = Len(waiters[l]) - 1 /\ Len(waiters[l]) \in Nat
        /\ \A j \in 1 .. Len(waiters[l]) - 1 :
             waiters'[l][j] = IF j < n THEN waiters[l][j] ELSE waiters[l][j + 1]
    <3>1. Len(waiters[l]) \in Nat
      BY <1>2
    <3>2. /\ Len(RemoveAt(waiters[l], n)) = Len(waiters[l]) - 1
          /\ \A j \in 1 .. Len(waiters[l]) - 1 :
               RemoveAt(waiters[l], n)[j] = IF j < n THEN waiters[l][j] ELSE waiters[l][j + 1]
      BY <1>2, RemoveAtElements
    <3> QED
      BY <1>5, <3>1, <3>2
  <2> QED
    BY <2>1
<1>8. QueuedWait'
  <2> SUFFICES ASSUME NEW m \in LockIds, NEW i \in 1 .. Len(waiters'[m])
               PROVE  pc'[waiters'[m][i]] = "waiting" /\ lock'[waiters'[m][i]] = m
    BY DEF QueuedWait
  <2>1. \E j \in 1 .. Len(waiters[m]) : waiters'[m][i] = waiters[m][j] /\ waiters[m][j] # t
    <3>1. CASE m = l
      <4>1. waiters[l][old(i)] # t
        BY <1>3, <1>7, <3>1 DEF Lined, QueuedOnce
      <4> QED
        BY <1>7, <3>1, <4>1
    <3>2. CASE m # l
      BY <1>1, <1>3, <1>5, <3>2 DEF Lined, QueuedWait
    <3> QED
      BY <3>1, <3>2
  <2>2. PICK j \in 1 .. Len(waiters[m]) : waiters'[m][i] = waiters[m][j] /\ waiters[m][j] # t
    BY <2>1
  <2>3. pc[waiters[m][j]] = "waiting" /\ lock[waiters[m][j]] = m /\ waiters[m][j] \in Tasks
    BY <1>1 DEF Lined, QueuedWait, TypeOK
  <2> QED
    BY <1>1, <1>4, <2>2, <2>3 DEF TypeOK
<1>9. QueuedOnce'
  <2> SUFFICES ASSUME NEW m \in LockIds, NEW i \in 1 .. Len(waiters'[m]),
                      NEW j \in 1 .. Len(waiters'[m]), waiters'[m][i] = waiters'[m][j]
               PROVE  i = j
    BY DEF QueuedOnce
  <2>1. CASE m # l
    BY <1>5, <2>1 DEF Lined, QueuedOnce
  <2>2. CASE m = l
    <3>1. old(i) = old(j)
      <4>1. /\ waiters[l][old(i)] = waiters[l][old(j)]
            /\ old(i) \in 1 .. Len(waiters[l]) /\ old(j) \in 1 .. Len(waiters[l])
        BY <1>7, <2>2
      <4> HIDE DEF old
      <4> QED
        BY <4>1 DEF Lined, QueuedOnce
    <3>2. Len(waiters'[l]) \in Nat
      BY <1>2, <1>5, RemoveAtElements
    <3> QED
      BY <2>2, <3>1, <3>2
  <2> QED
    BY <2>1, <2>2
<1> QED
  BY <1>6, <1>8, <1>9 DEF Lined

LEMMA StepLined == Safe /\ Lined /\ [Next]_vars => Lined'
<1> SUFFICES ASSUME Safe, Lined, [Next]_vars PROVE Lined'
  OBVIOUS
<1>1. CASE UNCHANGED vars
  BY <1>1 DEF vars, Lined, HoldersCritical, QueuedWait, QueuedOnce
<1> QED
  BY <1>1, EnterLined, WakeLined, ExitLined, CancelWaitingLined DEF Next

-----------------------------------------------------------------------------
LEMMA InitRefines == Init => Abstract!Init
BY DEF Init, Abstract!Init, Line, Inside

(* A task outside of any call is in no line and inside for no key. *)
LEMMA IdleAway ==
    ASSUME Safe, Lined, NEW t \in Tasks, pc[t] = "idle"
    PROVE  Abstract!Away(t)
<1> SUFFICES ASSUME NEW k \in Keys
             PROVE  Inside(k) # t /\ ~ Abstract!Contains(Line(k), t)
  BY DEF Abstract!Away
<1>1. CASE locks[k] = NoLock
  BY <1>1, SentinelAssumption DEF Inside, Line, Abstract!Contains
<1>2. CASE locks[k] # NoLock
  <2>1. locks[k] \in LockIds /\ waiters[locks[k]] \in Seq(Tasks)
    BY <1>2 DEF Safe, TypeOK
  <2>2. holder[locks[k]] # t /\ \A i \in 1 .. Len(waiters[locks[k]]) : waiters[locks[k]][i] # t
    BY <2>1, IdleNowhere
  <2> QED
    BY <1>2, <2>1, <2>2 DEF Inside, Line, Abstract!Contains
<1> QED
  BY <1>1, <1>2

(* Nobody holds an object that nothing refers to, or waits for it: the     *)
(* object a new key gets is as good as new.                                *)
LEMMA UnreferencedIsNew ==
    ASSUME Safe, Lined, NEW l \in LockIds, Unreferenced(l)
    PROVE  holder[l] = NoTask /\ waiters[l] = <<>>
<1>1. holder[l] = NoTask
  BY DEF Safe, TypeOK, Lined, HoldersCritical, Unreferenced
<1>2. waiters[l] \in Seq(Tasks)
  BY DEF Safe, TypeOK
<1>3. Len(waiters[l]) = 0
  <2>1. ASSUME 1 \in 1 .. Len(waiters[l]) PROVE FALSE
    BY <1>2, <2>1 DEF Lined, QueuedWait, Unreferenced
  <2> QED
    BY <1>2, <2>1
<1> QED
  BY <1>1, <1>2, <1>3

LEMMA EnterArrives ==
    ASSUME Safe, Lined, NEW t \in Tasks, NEW k \in Keys, NEW l \in LockIds, Enter(t, k, l)
    PROVE  Abstract!Arrive(t, k)
<1>1. TypeOK /\ LocksDistinct
  BY DEF Safe
<1>2. /\ pc[t] = "idle"
      /\ IF locks[k] = NoLock THEN Unreferenced(l) ELSE l = locks[k]
      /\ locks' = [locks EXCEPT ![k] = l]
      /\ Acquire(t, l)
  BY DEF Enter, GetLock
<1>3. Abstract!Away(t)
  BY <1>2, IdleAway
<1>4. Line(k) = waiters[l] /\ Inside(k) = holder[l]
  BY <1>2, UnreferencedIsNew DEF Line, Inside
<1>5. Line(k)' = waiters'[l] /\ Inside(k)' = holder'[l]
  BY <1>1, <1>2, SentinelAssumption DEF Line, Inside, TypeOK
<1>6. ASSUME NEW j \in Keys \ {k}
      PROVE  Line(j)' = Line(j) /\ Inside(j)' = Inside(j)
  <2>1. locks'[j] = locks[j] /\ locks[j] # l
    BY <1>1, <1>2 DEF TypeOK, LocksDistinct, Unreferenced
  <2>2. locks[j] # NoLock => /\ waiters'[locks[j]] = waiters[locks[j]]
                            /\ holder'[locks[j]] = holder[locks[j]]
    BY <1>1, <1>2, <2>1 DEF TypeOK, Acquire
  <2> QED
    BY <2>1, <2>2 DEF Line, Inside
<1>7. CASE Inside(k) = NoTask /\ Line(k) = <<>>
  <2>1. Inside(k)' = t /\ Line(k)' = Line(k)
    BY <1>1, <1>2, <1>4, <1>5, <1>7 DEF Acquire, TypeOK
  <2> QED
    BY <1>3, <1>6, <1>7, <2>1 DEF Abstract!Arrive
<1>8. CASE ~ (Inside(k) = NoTask /\ Line(k) = <<>>)
  <2>1. Line(k)' = Append(Line(k), t) /\ Inside(k)' = Inside(k)
    BY <1>1, <1>2, <1>4, <1>5, <1>8 DEF Acquire, TypeOK
  <2> QED
    BY <1>3, <1>6, <1>8, <2>1 DEF Abstract!Arrive
<1> QED
  BY <1>7, <1>8

(* The object of a call is the one of its key, which is no other key's. *)
LEMMA ObjectOfKey ==
    ASSUME Safe, NEW t \in Tasks, pc[t] # "idle"
    PROVE  /\ key[t] \in Keys /\ lock[t] \in LockIds /\ locks[key[t]] = lock[t]
           /\ Line(key[t]) = waiters[lock[t]] /\ Inside(key[t]) = holder[lock[t]]
           /\ \A j \in Keys \ {key[t]} : locks[j] # lock[t]
<1>1. key[t] \in Keys /\ lock[t] \in LockIds /\ locks[key[t]] = lock[t]
  BY DEF Safe, TypeOK, CallState, OneObjectPerKey
<1>2. \A j \in Keys \ {key[t]} : locks[j] # lock[t]
  BY <1>1, SentinelAssumption DEF Safe, LocksDistinct
<1> QED
  BY <1>1, <1>2, SentinelAssumption DEF Line, Inside

LEMMA WakeServes ==
    ASSUME Safe, Lined, NEW t \in Tasks, Wake(t)
    PROVE  Abstract!Serve(key[t])
<1>1. pc[t] = "waiting" /\ pc[t] # "idle"
  BY DEF Wake
<1> PICK k \in Keys, l \in LockIds : k = key[t] /\ l = lock[t]
  BY <1>1, ObjectOfKey
<1>2. /\ locks[k] = l /\ Line(k) = waiters[l] /\ Inside(k) = holder[l]
      /\ \A j \in Keys \ {k} : locks[j] # l
  BY <1>1, ObjectOfKey
<1>3. /\ holder[l] = NoTask /\ waiters[l] # <<>> /\ Head(waiters[l]) = t
      /\ holder' = [holder EXCEPT ![l] = t]
      /\ waiters' = [waiters EXCEPT ![l] = Tail(@)]
      /\ locks' = locks
  BY DEF Wake
<1>4. Line(k)' = Tail(Line(k)) /\ Inside(k)' = t
  BY <1>2, <1>3, SentinelAssumption DEF Line, Inside, Safe, TypeOK
<1>5. ASSUME NEW j \in Keys \ {k}
      PROVE  Line(j)' = Line(j) /\ Inside(j)' = Inside(j)
  BY <1>2, <1>3 DEF Line, Inside, Safe, TypeOK
<1> QED
  BY <1>2, <1>3, <1>4, <1>5 DEF Abstract!Serve

(* When the last caller of a key leaves, nobody is left in its object but *)
(* that caller.                                                            *)
LEMMA LastAlone ==
    ASSUME Safe, Lined, NEW t \in Tasks, pc[t] # "idle", Callers(key[t]) = {t}
    PROVE  /\ holder[lock[t]] \in {NoTask, t}
           /\ \A i \in 1 .. Len(waiters[lock[t]]) : waiters[lock[t]][i] = t
<1>1. lock[t] \in LockIds /\ \A j \in Keys \ {key[t]} : locks[j] # lock[t]
  BY ObjectOfKey
<1>2. ASSUME NEW u \in Tasks, pc[u] # "idle", lock[u] = lock[t]
      PROVE  u = t
  <2>1. key[u] \in Keys /\ locks[key[u]] = lock[t]
    BY <1>2, ObjectOfKey
  <2>2. key[u] = key[t]
    BY <1>1, <2>1
  <2> QED
    BY <2>2 DEF Callers
<1>3. holder[lock[t]] \in Tasks \cup {NoTask} /\ waiters[lock[t]] \in Seq(Tasks)
  BY <1>1 DEF Safe, TypeOK
<1>4. holder[lock[t]] \in {NoTask, t}
  BY <1>1, <1>2, <1>3 DEF Lined, HoldersCritical
<1>5. ASSUME NEW i \in 1 .. Len(waiters[lock[t]])
      PROVE  waiters[lock[t]][i] = t
  <2>1. waiters[lock[t]][i] \in Tasks
    BY <1>3
  <2> QED
    BY <1>1, <1>2, <2>1 DEF Lined, QueuedWait
<1> QED
  BY <1>4, <1>5

LEMMA ExitLeaves ==
    ASSUME Safe, Lined, NEW t \in Tasks, Exit(t)
    PROVE  Abstract!Leave(key[t])
<1>1. pc[t] = "critical" /\ pc[t] # "idle" /\ ReleaseLock(t)
  BY DEF Exit
<1> PICK k \in Keys, l \in LockIds : k = key[t] /\ l = lock[t]
  BY <1>1, ObjectOfKey
<1>2. /\ locks[k] = l /\ Line(k) = waiters[l] /\ Inside(k) = holder[l]
      /\ \A j \in Keys \ {k} : locks[j] # l
  BY <1>1, ObjectOfKey
<1>3. /\ holder[l] = t
      /\ holder' = [holder EXCEPT ![l] = NoTask]
      /\ waiters' = waiters
      /\ \E n \in {NoLock, locks[k]} : locks' = [locks EXCEPT ![k] = n]
      /\ waiters[l] \in Seq(Tasks)
  BY DEF Exit, ReleaseLock, Safe, CallState, TypeOK
<1>4. Inside(k)' = NoTask
  BY <1>2, <1>3 DEF Inside, Safe, TypeOK
<1>5. Line(k)' = Line(k)
  <2>1. CASE locks'[k] # NoLock
    BY <1>2, <1>3, <2>1 DEF Line, Safe, TypeOK
  <2>2. CASE locks'[k] = NoLock
    <3>1. Callers(k) = {t}
      BY <1>1, <2>2, LeaveCounts
    <3>2. \A i \in 1 .. Len(waiters[l]) : waiters[l][i] = t
      BY <1>1, <3>1, LastAlone
    <3>3. \A i \in 1 .. Len(waiters[l]) : pc[waiters[l][i]] = "waiting"
      BY DEF Lined, QueuedWait
    <3>4. ~ (1 \in 1 .. Len(waiters[l]))
      BY <1>1, <3>2, <3>3
    <3>5. waiters[l] = <<>>
      BY <1>3, <3>4
    <3> QED
      BY <1>2, <2>2, <3>5 DEF Line
  <2> QED
    BY <2>1, <2>2
<1>6. ASSUME NEW j \in Keys \ {k}
      PROVE  Line(j)' = Line(j) /\ Inside(j)' = Inside(j)
  BY <1>2, <1>3 DEF Line, Inside, Safe, TypeOK
<1> QED
  BY <1>2, <1>3, <1>4, <1>5, <1>6, SentinelAssumption DEF Abstract!Leave

LEMMA CancelStepsOut ==
    ASSUME Safe, Lined, NEW t \in Tasks, CancelWaiting(t)
    PROVE  Abstract!StepOut(key[t])
<1>1. pc[t] = "waiting" /\ pc[t] # "idle" /\ ReleaseLock(t)
  BY DEF CancelWaiting
<1> PICK k \in Keys, l \in LockIds : k = key[t] /\ l = lock[t]
  BY <1>1, ObjectOfKey
<1>2. /\ locks[k] = l /\ Line(k) = waiters[l] /\ Inside(k) = holder[l]
      /\ \A j \in Keys \ {k} : locks[j] # l
  BY <1>1, ObjectOfKey
<1>3. waiters[l] \in Seq(Tasks) /\ DOMAIN waiters[l] = 1 .. Len(waiters[l])
  BY DEF Safe, TypeOK
<1>4. PICK n \in DOMAIN waiters[l] :
        waiters[l][n] = t /\ waiters' = [waiters EXCEPT ![l] = RemoveAt(@, n)]
  BY DEF CancelWaiting
<1>5. /\ holder' = holder
      /\ \E o \in {NoLock, locks[k]} : locks' = [locks EXCEPT ![k] = o]
  BY DEF CancelWaiting, ReleaseLock, Safe, TypeOK
<1>6. /\ RemoveAt(waiters[l], n) \in Seq(Tasks)
      /\ Len(RemoveAt(waiters[l], n)) = Len(waiters[l]) - 1
  BY <1>3, <1>4, RemoveAtElements
<1>7. Line(k)' = RemoveAt(Line(k), n) /\ Inside(k)' = Inside(k)
  <2>1. CASE locks'[k] # NoLock
    BY <1>2, <1>4, <1>5, <2>1 DEF Line, Inside, Safe, TypeOK
  <2>2. CASE locks'[k] = NoLock
    <3>1. Callers(k) = {t}
      BY <1>1, <2>2, LeaveCounts
    <3>2. holder[l] \in {NoTask, t} /\ \A i \in 1 .. Len(waiters[l]) : waiters[l][i] = t
      BY <1>1, <3>1, LastAlone
    <3>3. holder[l] = NoTask
      BY <1>1, <3>2 DEF Lined, HoldersCritical
    <3>4. \A i \in 1 .. Len(waiters[l]) : i = n
      BY <1>3, <1>4, <3>2 DEF Lined, QueuedOnce
    <3>5. Len(waiters[l]) = 1
      <4>1. Len(waiters[l]) \in Nat /\ n \in 1 .. Len(waiters[l])
        BY <1>3, <1>4
      <4>2. 1 = n /\ Len(waiters[l]) = n
        BY <3>4, <4>1
      <4> QED
        BY <4>2
    <3>6. RemoveAt(waiters[l], n) = <<>>
      BY <1>6, <3>5
    <3> QED
      BY <1>2, <2>2, <3>3, <3>6 DEF Line, Inside
  <2> QED
    BY <2>1, <2>2
<1>8. ASSUME NEW j \in Keys \ {k}
      PROVE  Line(j)' = Line(j) /\ Inside(j)' = Inside(j)
  BY <1>2, <1>4, <1>5 DEF Line, Inside, Safe, TypeOK
<1>9. RemoveAt(Line(k), n) = Abstract!RemoveAt(Line(k), n)
  BY DEF RemoveAt, Abstract!RemoveAt
<1> QED
  BY <1>2, <1>4, <1>7, <1>8, <1>9 DEF Abstract!StepOut

LEMMA StepRefines ==
    Safe /\ Lined /\ [Next]_vars => [Abstract!Next]_(Abstract!lineVars)
<1> SUFFICES ASSUME Safe, Lined, [Next]_vars
             PROVE  Abstract!Next \/ UNCHANGED Abstract!lineVars
  OBVIOUS
<1>1. CASE UNCHANGED vars
  BY <1>1 DEF vars, Abstract!lineVars, Line, Inside
<1>2. ASSUME NEW t \in Tasks, NEW k \in Keys, NEW l \in LockIds, Enter(t, k, l)
      PROVE  Abstract!Next
  BY <1>2, EnterArrives DEF Abstract!Next
<1>3. ASSUME NEW t \in Tasks, Wake(t) \/ Exit(t) \/ CancelWaiting(t)
      PROVE  Abstract!Next
  <2>1. key[t] \in Keys
    BY <1>3, ObjectOfKey DEF Wake, Exit, CancelWaiting
  <2> QED
    BY <1>3, <2>1, WakeServes, ExitLeaves, CancelStepsOut DEF Abstract!Next
<1> QED
  BY <1>1, <1>2, <1>3 DEF Next

(* The table of lock objects is an implementation detail: every step of    *)
(* KeyedMutex is a step of a FIFO line per key, however the objects are    *)
(* dropped, made again and their callers cancelled (make_mutex.py 29-52).  *)
THEOREM MutexIsLine == Spec => ImplementsKeyedLine
<1>1. Spec => []Lined
  BY InitLined, StepLined, SafeInvariant, PTL DEF Spec
<1> QED
  BY <1>1, InitRefines, StepRefines, SafeInvariant, PTL
     DEF Spec, ImplementsKeyedLine, Abstract!Spec
=============================================================================
