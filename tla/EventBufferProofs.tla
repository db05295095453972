-------------------------- MODULE EventBufferProofs ---------------------------
(***************************************************************************)
(* Sessions of the event buffer: their deadline, and their nesting count.  *)
(* Its events: none is lost, none given more often than it should.         *)
(***************************************************************************)
EXTENDS EventBuffer, FiniteSetTheorems, SequenceTheorems, TLAPS

(* buffer() and flush() keep a session and its deadline together, and a    *)
(* flush leaves only undecided updates behind.                             *)
LEMMA BufferHolds == Buffer => HeldOnlyInSession'
BY DEF Buffer, HeldOnlyInSession

LEMMA FlushHolds ==
    ASSUME HeldOnlyInSession, NEW handle, Flush(handle)
    PROVE  HeldOnlyInSession'
<1>1. CASE buffering
  BY <1>1 DEF Flush, NoteFlush, HeldOnlyInSession
<1>2. CASE ~ buffering
  BY <1>2 DEF Flush, flushVars, sessionHistory, HeldOnlyInSession
<1> QED
  BY <1>1, <1>2

(* The end of emit() buffers only in a session that is open now, whatever  *)
(* was open when it began: base is a part of what is buffered now.         *)
LEMMA FinishHolds ==
    ASSUME HeldOnlyInSession, NEW t, NEW e, NEW base, NEW given, base \subseteq data,
           Finish(t, e, base, given), UNCHANGED <<buffering, limitArmed, leftBehind>>
    PROVE  HeldOnlyInSession'
<1>1. CASE buffering
  BY <1>1 DEF HeldOnlyInSession
<1>2. CASE ~ buffering
  <2>1. data' = base /\ undecided' = undecided
    BY <1>2 DEF Finish
  <2> QED
    BY <1>2, <2>1 DEF HeldOnlyInSession
<1> QED
  BY <1>1, <1>2

LEMMA HoldLockHolds ==
    ASSUME HeldOnlyInSession, NEW t, NEW e, NEW line,
           HoldLock(t, e, line), UNCHANGED <<buffering, limitArmed, leftBehind>>
    PROVE  HeldOnlyInSession'
<1>1. CASE Finish(t, e, data, {})
  BY <1>1, FinishHolds
<1>2. CASE Finish(t, e, data \ BufferedUpserts, BufferedUpserts)
  <2>1. data \ BufferedUpserts \subseteq data
    OBVIOUS
  <2> QED
    BY <1>2, <2>1, FinishHolds
<1>3. CASE UNCHANGED <<data, undecided>>
  BY <1>3 DEF HeldOnlyInSession
<1> QED
  BY <1>1, <1>2, <1>3 DEF HoldLock, Refuse

(* Every session has its deadline, and outside a session nothing is held   *)
(* but undecided chat updates that a flush put back: each other buffered   *)
(* event is under an armed 30 s limit.                                     *)
THEOREM SessionHasDeadline == Spec => []HeldOnlyInSession
<1>1. Init => HeldOnlyInSession
  BY DEF Init, HeldOnlyInSession
<1>2. HeldOnlyInSession /\ [Next]_vars => HeldOnlyInSession'
  <2> SUFFICES ASSUME HeldOnlyInSession, [Next]_vars
               PROVE  HeldOnlyInSession'
    OBVIOUS
  <2>1. CASE OpenSession
    BY <2>1, BufferHolds DEF OpenSession
  <2>2. CASE CloseSession
    BY <2>2, FlushHolds DEF CloseSession
  <2>3. CASE LimitFires
    BY <2>3, FlushHolds DEF LimitFires
  <2>4. CASE PendingFlushFires
    BY <2>4, FlushHolds DEF PendingFlushFires
  <2>5. CASE SingleFires
    <3>1. CASE Flush(pendingFlush)
      BY <3>1, FlushHolds
    <3>2. CASE UNCHANGED <<buffering, limitArmed, data, undecided, leftBehind>>
      BY <3>2 DEF HeldOnlyInSession
    <3> QED
      BY <2>5, <3>1, <3>2 DEF SingleFires, bufferVars, flushVars, sessionHistory
  <2>6. CASE DeliverBatch
    BY <2>6 DEF DeliverBatch, sessionVars, flushVars, sessionHistory, HeldOnlyInSession
  <2>7. ASSUME NEW t \in Tasks, BeginWork(t)
        PROVE  HeldOnlyInSession'
    BY <2>7, BufferHolds DEF BeginWork
  <2>8. ASSUME NEW t \in Tasks, NEW raised \in BOOLEAN, EndWork(t, raised)
        PROVE  HeldOnlyInSession'
    BY <2>8 DEF EndWork, bufferVars, HeldOnlyInSession
  <2>9. ASSUME NEW t \in Tasks, NEW k \in Kinds, Emit(t, k)
        PROVE  HeldOnlyInSession'
    <3> DEFINE e == [no |-> emitted + 1, kind |-> k]
    <3>1. UNCHANGED <<buffering, limitArmed, leftBehind>>
      BY <2>9 DEF Emit, sessionVars, sessionHistory
    <3>2. CASE HoldLock(t, e, <<t>>)
      BY <3>1, <3>2, HoldLockHolds
    <3>3. CASE UNCHANGED <<data, undecided>>
      BY <3>1, <3>3 DEF HeldOnlyInSession
    <3> QED
      BY <2>9, <3>2, <3>3 DEF Emit
  <2>10. ASSUME NEW t \in Tasks, Woken(t)
         PROVE  HeldOnlyInSession'
    BY <2>10, HoldLockHolds DEF Woken, sessionVars, sessionHistory
  <2>11. ASSUME NEW t \in Tasks, Handed(t)
         PROVE  HeldOnlyInSession'
    <3>1. data \ BufferedUpserts \subseteq data
      OBVIOUS
    <3> QED
      BY <2>11, <3>1, FinishHolds DEF Handed, sessionVars, flushVars, sessionHistory
  <2>12. ASSUME NEW t \in Tasks, EmitFromListener(t)
         PROVE  HeldOnlyInSession'
    BY <2>12 DEF EmitFromListener, sessionVars, bufferVars, flushVars, sessionHistory,
                 HeldOnlyInSession
  <2>13. ASSUME NEW t \in Tasks, BreakOff(t)
         PROVE  HeldOnlyInSession'
    BY <2>13 DEF BreakOff, Refuse, sessionVars, sessionHistory, HeldOnlyInSession
  <2>14. CASE UNCHANGED vars
    BY <2>14 DEF vars, sessionVars, bufferVars, flushVars, sessionHistory, HeldOnlyInSession
  <2> QED
    BY <2>1, <2>2, <2>3, <2>4, <2>5, <2>6, <2>7, <2>8, <2>9, <2>10, <2>11,
       <2>12, <2>13, <2>14 DEF Next
<1> QED
  BY <1>1, <1>2, PTL DEF Spec

-----------------------------------------------------------------------------
(* What the nesting count depends on. *)
Counting ==
    /\ count \in Nat /\ bare \in Nat /\ stray \in Nat
    /\ working \in SUBSET Tasks /\ outlived \in SUBSET working
    /\ CountCoversUsers

LEMMA UsersFinite ==
    ASSUME Counting
    PROVE  IsFiniteSet(working \ outlived) /\ Cardinality(working \ outlived) \in Nat
BY TasksFinite, FS_Subset, FS_CardinalityType DEF Counting

LEMMA FlushCounts ==
    ASSUME Counting, NEW handle, Flush(handle), UNCHANGED working
    PROVE  Counting'
<1>1. CASE buffering
  <2>1. Cardinality(working \ working) = 0
    <3>1. working \ working = {}
      OBVIOUS
    <3> QED
      BY <3>1, FS_EmptySet
  <2> QED
    BY <1>1, <2>1 DEF Flush, NoteFlush, Counting, CountCoversUsers, Users
<1>2. CASE ~ buffering
  BY <1>2 DEF Flush, flushVars, sessionHistory, Counting, CountCoversUsers, Users
<1> QED
  BY <1>1, <1>2

(* Outside a session nothing is counted. *)
Uncounted == ~ buffering => count = 0 /\ Users = 0

(* The nesting count is the number of buffered functions that began in     *)
(* this session and run, plus its bare buffer() calls, less at most the    *)
(* endings of functions that an earlier flush left running.                *)
THEOREM CountIsCovered == Spec => []CountCoversUsers
<1>1. Init => Counting /\ Uncounted
  <2>1. Cardinality({}) = 0 /\ {} \ {} = {}
    BY FS_EmptySet
  <2> QED
    BY <2>1 DEF Init, Counting, CountCoversUsers, Users, Uncounted
<1>2. Counting /\ Uncounted /\ [Next]_vars => (Counting /\ Uncounted)'
  <2> SUFFICES ASSUME Counting, Uncounted, [Next]_vars
               PROVE  (Counting /\ Uncounted)'
    OBVIOUS
  <2>0. ASSUME NEW handle, Flush(handle), UNCHANGED working
        PROVE  (Counting /\ Uncounted)'
    <3>1. Counting'
      BY <2>0, FlushCounts
    <3>2. CASE buffering
      <4>1. ~ buffering' /\ count' = 0 /\ bare' = 0 /\ outlived' = working'
        BY <2>0, <3>2 DEF Flush, NoteFlush
      <4>2. working' \ outlived' = {}
        BY <4>1
      <4> QED
        BY <3>1, <4>1, <4>2, FS_EmptySet DEF Uncounted, Users
    <3>3. CASE ~ buffering
      BY <2>0, <3>1, <3>3 DEF Flush, flushVars, sessionHistory, Uncounted, Users
    <3> QED
      BY <3>2, <3>3
  <2>1. CASE OpenSession
    BY <2>1, UsersFinite DEF OpenSession, Buffer, Counting, CountCoversUsers, Users, Uncounted
  <2>2. CASE CloseSession \/ LimitFires \/ PendingFlushFires
    BY <2>0, <2>2 DEF CloseSession, LimitFires, PendingFlushFires
  <2>3. CASE SingleFires
    <3>1. CASE Flush(pendingFlush)
      BY <2>0, <2>3, <3>1 DEF SingleFires
    <3>2. CASE UNCHANGED <<buffering, count, bare, outlived, stray>>
      BY <2>3, <3>2 DEF SingleFires, Counting, CountCoversUsers, Users, Uncounted
    <3> QED
      BY <2>3, <3>1, <3>2 DEF SingleFires, flushVars, sessionHistory
  <2>4. ASSUME NEW t \in Tasks, BeginWork(t)
        PROVE  (Counting /\ Uncounted)'
    <3>1. /\ t \notin working /\ working' = working \cup {t} /\ buffering'
          /\ UNCHANGED <<bare, outlived, stray>>
          /\ count' = IF buffering THEN count + 1 ELSE 1
      BY <2>4 DEF BeginWork, Buffer, flushVars, sessionHistory
    <3>2. (working \cup {t}) \ outlived = (working \ outlived) \cup {t}
      BY <3>1 DEF Counting
    <3>3. Cardinality((working \cup {t}) \ outlived) = Cardinality(working \ outlived) + 1
      BY <3>1, <3>2, UsersFinite, FS_AddElement
    <3> QED
      BY <3>1, <3>3, UsersFinite DEF Counting, CountCoversUsers, Users, Uncounted
  <2>5. ASSUME NEW t \in Tasks, NEW raised \in BOOLEAN, EndWork(t, raised)
        PROVE  (Counting /\ Uncounted)'
    <3>1. /\ t \in working /\ working' = working \ {t} /\ outlived' = outlived \ {t}
          /\ UNCHANGED <<buffering, bare>>
          /\ count' = IF count = 0 THEN 0 ELSE count - 1
          /\ stray' = IF buffering /\ t \in outlived THEN stray + 1 ELSE stray
      BY <2>5 DEF EndWork
    <3>2. CASE t \in outlived
      <4>1. working' \ outlived' = working \ outlived
        BY <3>1, <3>2
      <4>2. Users' = Users
        BY <3>1, <4>1 DEF Users
      <4>3. PICK u \in Nat : u = Users
        BY UsersFinite DEF Users, Counting
      <4>4. count' \in Nat /\ stray' \in Nat /\ count' <= u /\ u <= count' + stray'
        BY <3>1, <3>2, <4>3 DEF Counting, CountCoversUsers, Uncounted
      <4>5. CountCoversUsers' /\ Uncounted'
        BY <3>1, <4>2, <4>3, <4>4 DEF CountCoversUsers, Uncounted
      <4> QED
        BY <3>1, <4>4, <4>5 DEF Counting
    <3>3. CASE t \notin outlived
      <4>1. working' \ outlived' = (working \ outlived) \ {t} /\ t \in working \ outlived
        BY <3>1, <3>3
      <4>2. Cardinality(working' \ outlived') = Cardinality(working \ outlived) - 1
        BY <4>1, UsersFinite, FS_RemoveElement
      <4>3. Cardinality(working' \ outlived') \in Nat
        <5>1. IsFiniteSet((working \ outlived) \ {t})
          BY UsersFinite, FS_RemoveElement
        <5> QED
          BY <4>1, <5>1, FS_CardinalityType
      <4>4. PICK c \in Nat, d \in Nat :
              c = Cardinality(working \ outlived) /\ d = Cardinality(working' \ outlived')
        BY <4>3, UsersFinite
      <4>5. d = c - 1 /\ stray' = stray /\ outlived' = outlived
        BY <3>1, <3>3, <4>2, <4>4
      <4>6. Users = c + bare /\ Users' = d + bare
        BY <3>1, <4>4 DEF Users
      <4>7. count' \in Nat /\ count' <= Users' /\ Users' <= count' + stray'
        BY <3>1, <4>5, <4>6 DEF Counting, CountCoversUsers
      <4>8. Uncounted'
        BY <3>1, <4>5, <4>6 DEF Counting, Uncounted
      <4> QED
        BY <3>1, <3>3, <4>5, <4>7, <4>8 DEF Counting, CountCoversUsers
    <3> QED
      BY <3>2, <3>3
  <2>6. CASE UNCHANGED <<buffering, count, bare, working, outlived, stray>>
    BY <2>6 DEF Counting, CountCoversUsers, Users, Uncounted
  <2> QED
    BY <2>1, <2>2, <2>3, <2>4, <2>5, <2>6
       DEF Next, DeliverBatch, Emit, Woken, Handed, BreakOff, EmitFromListener, vars,
           sessionVars, flushVars, sessionHistory
<1>3. Counting => CountCoversUsers
  BY DEF Counting
<1> QED
  BY <1>1, <1>2, <1>3, PTL DEF Spec

-----------------------------------------------------------------------------
(***************************************************************************)
(* Where an event is.  Events are told apart by their numbers: kinds says  *)
(* of which kind each is, and place where it is, in one place only.        *)
(***************************************************************************)
Events(kinds) ==
    {e \in [no : DOMAIN kinds, kind : Kinds] : kinds[e.no] = e.kind}

Somebody == \E t \in Tasks : at[t] \in {"handing", "stuck"}

(* How often an event was delivered, less what was to be given again. *)
net == [n \in 1 .. MaxEvents |-> delivered[n] - again[n]]
Right(where, kind, somebody, times) ==
    times = IF where = "given" \/ (where = "data" /\ kind \in Upserts /\ somebody)
            THEN 1 ELSE 0

Places == {"flying", "refused", "data", "undecided", "dropped", "tasks", "given"}
Tallied == delivered \in [1 .. MaxEvents -> Nat] /\ again \in [1 .. MaxEvents -> Nat]
Numbered(kinds, place) ==
    /\ emitted \in 0 .. MaxEvents
    /\ kinds \in [1 .. emitted -> Kinds] /\ place \in [1 .. emitted -> Places]
    /\ Tallied /\ net \in [1 .. MaxEvents -> Nat]
    /\ \A n \in 1 .. MaxEvents : n > emitted => net[n] = 0
Counted(kinds, place) ==
    \A n \in 1 .. emitted : Right(place[n], kinds[n], Somebody, net[n])
Kept(kinds, place) ==
    /\ data \subseteq Events(kinds) /\ undecided \subseteq Events(kinds)
    /\ dropped \subseteq Events(kinds)
    /\ \A e \in Events(kinds) :
         /\ e \in data <=> place[e.no] = "data"
         /\ e \in undecided <=> place[e.no] = "undecided"
         /\ e \in dropped <=> place[e.no] = "dropped"
         /\ place[e.no] = "refused" => e.no \in refused
(* Under way to the listeners are the upserts that are buffered still. *)
Handing ==
    IF Somebody THEN handedOut \cap data = BufferedUpserts ELSE handedOut = {}
InTasks(kinds, place) ==
    /\ tasks \in Seq(SUBSET Events(kinds))
    /\ \A e \in Events(kinds) :
         place[e.no] = "tasks" <=> \E i \in 1 .. Len(tasks) : e \in tasks[i]
    /\ \A i, j \in 1 .. Len(tasks) : tasks[i] \cap tasks[j] # {} => i = j
Flying(kinds, place) ==
    /\ event \in [Tasks -> Events(kinds) \cup {NoEvent}]
    /\ \A t \in Tasks : at[t] = "idle" <=> event[t] = NoEvent
    /\ \A e \in Events(kinds) :
         place[e.no] = "flying" <=> \E t \in Tasks : event[t] = e
    /\ \A t, u \in Tasks : event[t] = event[u] /\ event[t] # NoEvent => t = u
(* Who emits stands in line, and who hands events to listeners is its head.*)
Stands(t, line) == \E i \in 1 .. Len(line) : line[i] = t
InLine ==
    /\ lockLine \in Seq(Tasks)
    /\ at \in [Tasks -> {"idle", "queued", "handing", "stuck"}]
    /\ \A t \in Tasks : at[t] \in {"handing", "stuck"} =>
         HandlersSuspend /\ Head(lockLine) = t
    /\ \A t \in Tasks : at[t] # "idle" => Stands(t, lockLine)
Placed(kinds, place) ==
    /\ Numbered(kinds, place) /\ Counted(kinds, place) /\ Kept(kinds, place)
    /\ InTasks(kinds, place) /\ Flying(kinds, place) /\ InLine /\ Handing
Somewhere == \E kinds, place : Placed(kinds, place)

(* A number tells its event. *)
LEMMA OneEvent ==
    ASSUME NEW kinds, NEW d \in Events(kinds), NEW e \in Events(kinds), d.no = e.no
    PROVE  d = e
BY DEF Events

LEMMA HasEvent ==
    ASSUME NEW kinds, NEW n \in DOMAIN kinds, kinds[n] \in Kinds
    PROVE  /\ [no |-> n, kind |-> kinds[n]] \in Events(kinds)
           /\ \E e \in Events(kinds) : e.no = n
<1>1. [no |-> n, kind |-> kinds[n]] \in Events(kinds)
  BY DEF Events
<1> QED
  BY <1>1

(* The event of a number. *)
EventOf(kinds, n) == [no |-> n, kind |-> kinds[n]]
LEMMA NumberTells ==
    ASSUME NEW kinds
    PROVE  /\ \A e \in Events(kinds) : e.no \in DOMAIN kinds /\ EventOf(kinds, e.no) = e
           /\ \A n \in DOMAIN kinds :
                kinds[n] \in Kinds => /\ EventOf(kinds, n) \in Events(kinds)
                                     /\ EventOf(kinds, n).no = n
                                     /\ EventOf(kinds, n).kind = kinds[n]
BY DEF Events, EventOf

(* At most one event of a set has a number. *)
LEMMA HowMany ==
    ASSUME NEW kinds, NEW es \in SUBSET Events(kinds), NEW n
    PROVE  Cardinality({e \in es : e.no = n}) = IF \E e \in es : e.no = n THEN 1 ELSE 0
<1>1. CASE \E e \in es : e.no = n
  <2>1. PICK e \in es : e.no = n
    BY <1>1
  <2>2. {d \in es : d.no = n} = {e}
    BY <2>1, OneEvent
  <2> QED
    BY <1>1, <2>2, FS_Singleton
<1>2. CASE ~ \E e \in es : e.no = n
  <2>1. {e \in es : e.no = n} = {}
    BY <1>2
  <2> QED
    BY <1>2, <2>1, FS_EmptySet
<1> QED
  BY <1>1, <1>2

(* How often events with a number are delivered with a set of events. *)
Times(es, n) == IF \E e \in es : e.no = n THEN 1 ELSE 0

LEMMA Delivering ==
    ASSUME NEW kinds, NEW es \in SUBSET Events(kinds), Deliver(es),
           Tallied, net \in [1 .. MaxEvents -> Nat], again' = again
    PROVE  /\ Tallied' /\ net' \in [1 .. MaxEvents -> Nat]
           /\ \A n \in 1 .. MaxEvents : net'[n] = net[n] + Times(es, n)
<1>1. \A n : Cardinality({e \in es : e.no = n}) = IF \E e \in es : e.no = n THEN 1 ELSE 0
  BY HowMany
<1>2. delivered' = [n \in 1 .. MaxEvents |-> delivered[n] + Times(es, n)]
  BY <1>1 DEF Deliver, Times
<1>3. Tallied' /\ \A n \in 1 .. MaxEvents : delivered'[n] = delivered[n] + Times(es, n)
  BY <1>2 DEF Times, Tallied
<1>4. \A n \in 1 .. MaxEvents : net[n] = delivered[n] - again[n] /\ net[n] \in Nat
  BY DEF net
<1>5. \A n \in 1 .. MaxEvents : Times(es, n) \in Nat
  BY DEF Times
<1>6. \A n \in 1 .. MaxEvents : delivered'[n] - again'[n] = net[n] + Times(es, n)
  BY <1>3, <1>4 DEF Tallied, Times
<1>7. net' = [n \in 1 .. MaxEvents |-> net[n] + Times(es, n)]
  BY <1>6 DEF net
<1> QED
  BY <1>3, <1>4, <1>5, <1>7

(* What was handed out and is to be given again. *)
LEMMA Again ==
    ASSUME NEW es, GivenAgain(es), Tallied, delivered' = delivered
    PROVE  /\ Tallied'
           /\ \A n \in 1 .. MaxEvents : net'[n] = net[n] - Times(es, n)
<1>1. again' = [n \in 1 .. MaxEvents |-> again[n] + Times(es, n)]
  BY DEF GivenAgain, Times, Tallied
<1>2. Tallied'
  BY <1>1 DEF Tallied, Times
<1>3. \A n \in 1 .. MaxEvents :
        /\ delivered'[n] - again'[n] = (delivered[n] - again[n]) - Times(es, n)
        /\ net[n] = delivered[n] - again[n] /\ net'[n] = delivered'[n] - again'[n]
  BY <1>1, <1>2 DEF Tallied, Times, net
<1> QED
  BY <1>2, <1>3

-----------------------------------------------------------------------------
(* The line of the lock. *)
LEMMA LineGrows ==
    ASSUME NEW line \in Seq(Tasks), NEW t \in Tasks
    PROVE  /\ Append(line, t) \in Seq(Tasks)
           /\ \A u : u = t \/ Stands(u, line) => Stands(u, Append(line, t))
           /\ line # <<>> => Head(Append(line, t)) = Head(line)
<1>1. Len(line) \in Nat
  BY LenProperties
<1>2. /\ Append(line, t) \in Seq(Tasks) /\ Append(line, t) # <<>>
      /\ Len(Append(line, t)) = Len(line) + 1 /\ Append(line, t)[Len(line) + 1] = t
      /\ \A i \in 1 .. Len(line) : Append(line, t)[i] = line[i]
  BY AppendProperties
<1>3. line # <<>> => Head(Append(line, t)) = Head(line)
  BY <1>1, <1>2, HeadTailProperties, EmptySeq
<1> QED
  BY <1>1, <1>2, <1>3 DEF Stands

LEMMA LineShrinks ==
    ASSUME NEW line \in Seq(Tasks), line # <<>>
    PROVE  /\ Tail(line) \in Seq(Tasks)
           /\ \A u : u # Head(line) /\ Stands(u, line) => Stands(u, Tail(line))
<1>1. /\ Len(line) \in Nat \ {0} /\ Head(line) = line[1]
      /\ Tail(line) \in Seq(Tasks) /\ Len(Tail(line)) = Len(line) - 1
      /\ \A i \in 1 .. Len(Tail(line)) : Tail(line)[i] = line[i + 1]
  BY HeadTailProperties, LenProperties, EmptySeq
<1>2. ASSUME NEW u, u # Head(line), Stands(u, line) PROVE Stands(u, Tail(line))
  <2>1. PICK i \in 1 .. Len(line) : line[i] = u
    BY <1>2 DEF Stands
  <2>2. i # 1
    BY <1>1, <1>2, <2>1
  <2>3. PICK j : j = i - 1
    OBVIOUS
  <2>4. j \in 1 .. Len(Tail(line)) /\ j + 1 = i
    BY <1>1, <2>2, <2>3
  <2> QED
    BY <1>1, <2>1, <2>4 DEF Stands
<1> QED
  BY <1>1, <1>2

LEMMA StandsInLine ==
    ASSUME NEW line \in Seq(Tasks), NEW t, Stands(t, line)
    PROVE  line # <<>>
<1>1. Len(line) # 0
  BY LenProperties DEF Stands
<1> QED
  BY <1>1, EmptySeq

(* Steps that leave the events where they are. *)
LEMMA NothingMoves ==
    ASSUME NEW kinds, NEW place, Placed(kinds, place),
           UNCHANGED <<emitted, delivered, again, data, undecided, dropped, refused, handedOut,
                       tasks, event, at, lockLine>>
    PROVE  Placed(kinds, place)'
<1>1. net' = net /\ Somebody' = Somebody /\ BufferedUpserts' = BufferedUpserts
  BY DEF net, Somebody, BufferedUpserts
<1> QED
  BY <1>1 DEF Placed, Numbered, Tallied, Counted, Kept, InTasks, Flying, InLine, Handing

(* A flush puts all that is buffered into a task. *)
LEMMA FlushMoves ==
    ASSUME Somewhere, NEW handle, Flush(handle),
           UNCHANGED <<emitted, delivered, dropped, refused, handedOut, event, at, lockLine>>
    PROVE  Somewhere'
<1>1. PICK kinds, place : Placed(kinds, place)
  BY DEF Somewhere
<1>2. CASE data = {} \/ ~ buffering
  <2>1. UNCHANGED <<data, undecided, tasks>> /\ again' = again
    <3>1. CASE buffering
      <4>1. again' = [n \in 1 .. MaxEvents |-> again[n]]
        BY <1>2, <3>1 DEF Flush, NoteFlush, GivenAgain
      <4>2. again \in [1 .. MaxEvents -> Nat]
        BY <1>1 DEF Placed, Numbered, Tallied
      <4> QED
        BY <1>2, <3>1, <4>1, <4>2 DEF Flush
    <3>2. CASE ~ buffering
      BY <3>2 DEF Flush, flushVars
    <3> QED
      BY <3>1, <3>2
  <2> QED
    BY <1>1, <2>1, NothingMoves DEF Somewhere
<1>3. CASE data # {} /\ buffering
  <2>1. /\ data' = {} /\ UNCHANGED undecided /\ tasks' = Append(tasks, data)
        /\ GivenAgain(handedOut \cap data)
    BY <1>3 DEF Flush, NoteFlush
  <2> DEFINE next == [n \in DOMAIN place |-> IF place[n] = "data" THEN "tasks" ELSE place[n]]
  <2>2. /\ next \in [1 .. emitted -> Places] /\ DOMAIN place = 1 .. emitted
        /\ Flying(kinds, place) /\ 1 .. emitted \subseteq 1 .. MaxEvents
        /\ \A e \in Events(kinds) : e.no \in 1 .. emitted
    BY <1>1, BoundsAssumption DEF Placed, Numbered, Places, Events
  <2>3. Kept(kinds, next)'
    BY <1>1, <2>1, <2>2 DEF Placed, Kept
  <2>4. Flying(kinds, next)'
    BY <2>2 DEF Flying
  <2>5. Counted(kinds, next)' /\ Numbered(kinds, next)' /\ Handing'
    <3>1. PICK gone \in SUBSET Events(kinds) : gone = handedOut \cap data
      BY <1>1 DEF Placed, Kept
    <3>2. Somebody' = Somebody
      BY DEF Somebody
    <3>3. \A e \in Events(kinds) :
            e \in gone <=> Somebody /\ place[e.no] = "data" /\ kinds[e.no] \in Upserts
      BY <1>1, <3>1 DEF Placed, Handing, Kept, BufferedUpserts, Events
    <3>4. Tallied' /\ \A n \in 1 .. MaxEvents : net'[n] = net[n] - Times(gone, n)
      BY <1>1, <2>1, <3>1, Again DEF Placed, Numbered
    <3>5. ASSUME NEW n \in 1 .. emitted
          PROVE  Right(next[n], kinds[n], Somebody, net'[n])
      <4>1. PICK e \in Events(kinds) : e.no = n
        <5>1. n \in DOMAIN kinds /\ kinds[n] \in Kinds
          BY <1>1 DEF Placed, Numbered
        <5> QED
          BY <5>1, HasEvent
      <4>2. Times(gone, n) = IF e \in gone THEN 1 ELSE 0
        <5>1. (\E x \in gone : x.no = n) <=> e \in gone
          BY <3>1, <4>1, OneEvent
        <5> QED
          BY <5>1 DEF Times
      <4>3. Right(place[n], kinds[n], Somebody, net[n]) /\ net'[n] = net[n] - Times(gone, n)
        BY <1>1, <2>2, <3>4 DEF Placed, Counted
      <4>4. next[n] = IF place[n] = "data" THEN "tasks" ELSE place[n]
        BY <2>2
      <4>5. e \in gone <=> Somebody /\ place[n] = "data" /\ kinds[n] \in Upserts
        BY <3>3, <4>1
      <4> HIDE DEF next
      <4> QED
        BY <4>2, <4>3, <4>4, <4>5 DEF Right
    <3>6. ASSUME NEW n \in 1 .. MaxEvents, n > emitted
          PROVE  net'[n] = 0
      <4>1. \A x \in gone : x.no \in 1 .. emitted
        BY <2>2, <3>1
      <4>2. Times(gone, n) = 0 /\ net[n] = 0 /\ net'[n] = net[n] - Times(gone, n)
        BY <1>1, <3>4, <3>6, <4>1 DEF Times, Placed, Numbered
      <4> QED
        BY <4>2
    <3>7. net' \in [1 .. MaxEvents -> Nat]
      <4>1. emitted \in Nat
        BY <1>1 DEF Placed, Numbered
      <4>2. \A n \in 1 .. MaxEvents : net'[n] \in Nat
        <5> HIDE DEF next
        <5> QED
          BY <3>5, <3>6, <4>1 DEF Right
      <4>3. net' = [n \in 1 .. MaxEvents |-> net'[n]]
        BY DEF net
      <4> QED
        BY <4>2, <4>3
    <3>8. Handing'
      BY <1>1, <2>1, <3>2 DEF Placed, Handing, BufferedUpserts
    <3>9. Counted(kinds, next)'
      BY <3>2, <3>5 DEF Counted
    <3> QED
      BY <1>1, <2>2, <3>4, <3>6, <3>7, <3>8, <3>9 DEF Placed, Numbered
  <2>6. InTasks(kinds, next)'
    <3>1. /\ tasks \in Seq(SUBSET Events(kinds)) /\ data \in SUBSET Events(kinds)
          /\ \A i \in 1 .. Len(tasks) : tasks[i] \in SUBSET Events(kinds)
          /\ Len(tasks) \in Nat
      BY <1>1, LenProperties, ElementOfSeq DEF Placed, InTasks, Kept
    <3>2. /\ tasks' \in Seq(SUBSET Events(kinds))
          /\ Len(tasks') = Len(tasks) + 1 /\ tasks'[Len(tasks) + 1] = data
          /\ \A i \in 1 .. Len(tasks) : tasks'[i] = tasks[i]
      BY <2>1, <3>1, AppendProperties
    <3>3. ASSUME NEW e \in Events(kinds)
          PROVE  next[e.no] = "tasks" <=> \E i \in 1 .. Len(tasks') : e \in tasks'[i]
      <4>1. next[e.no] = "tasks" <=> place[e.no] = "tasks" \/ place[e.no] = "data"
        BY <2>2
      <4>2. place[e.no] = "tasks" <=> \E i \in 1 .. Len(tasks) : e \in tasks[i]
        BY <1>1 DEF Placed, InTasks
      <4>3. place[e.no] = "data" <=> e \in data
        BY <1>1 DEF Placed, Kept
      <4> HIDE DEF next
      <4> QED
        BY <3>1, <3>2, <4>1, <4>2, <4>3
    <3>4. ASSUME NEW i \in 1 .. Len(tasks'), NEW j \in 1 .. Len(tasks'), tasks'[i] \cap tasks'[j] # {}
          PROVE  i = j
      <4>1. \A k \in 1 .. Len(tasks) : tasks[k] \cap data = {}
        BY <1>1, <3>1 DEF Placed, InTasks, Kept
      <4>2. \A k, l \in 1 .. Len(tasks) : tasks[k] \cap tasks[l] # {} => k = l
        BY <1>1 DEF Placed, InTasks
      <4> QED
        BY <3>1, <3>2, <3>4, <4>1, <4>2
    <3> QED
      BY <3>2, <3>3, <3>4 DEF InTasks
  <2>7. InLine'
    BY <1>1 DEF Placed, InLine
  <2> QED
    BY <2>3, <2>4, <2>5, <2>6, <2>7 DEF Somewhere, Placed
<1> QED
  BY <1>2, <1>3

(* A delivery task gives its events to the listeners. *)
LEMMA BatchMoves ==
    ASSUME Somewhere, DeliverBatch
    PROVE  Somewhere'
<1>1. PICK kinds, place : Placed(kinds, place)
  BY DEF Somewhere
<1>2. PICK batch : batch = Head(tasks)
  OBVIOUS
<1>3. /\ tasks # <<>> /\ Deliver(batch) /\ tasks' = Tail(tasks)
      /\ UNCHANGED <<data, undecided, dropped, refused, handedOut, again, emitted,
                     event, at, lockLine>>
  BY <1>2 DEF DeliverBatch, emitVars, flushVars
<1>4. /\ tasks \in Seq(SUBSET Events(kinds)) /\ Len(tasks) \in Nat \ {0}
      /\ batch = tasks[1] /\ batch \in SUBSET Events(kinds)
      /\ tasks' \in Seq(SUBSET Events(kinds)) /\ Len(tasks') = Len(tasks) - 1
      /\ \A i \in 1 .. Len(tasks') : tasks'[i] = tasks[i + 1]
  <2>1. tasks \in Seq(SUBSET Events(kinds))
    BY <1>1 DEF Placed, InTasks
  <2> QED
    BY <1>2, <1>3, <2>1, HeadTailProperties, EmptySeq, LenProperties, ElementOfSeq
<1> DEFINE next == [n \in DOMAIN place |-> IF \E e \in batch : e.no = n THEN "given" ELSE place[n]]
<1>5. /\ Tallied' /\ net' \in [1 .. MaxEvents -> Nat]
      /\ \A n \in 1 .. MaxEvents : net'[n] = net[n] + Times(batch, n)
  <2>1. Tallied /\ net \in [1 .. MaxEvents -> Nat] /\ again' = again
    BY <1>1, <1>3 DEF Placed, Numbered
  <2>2. batch \in SUBSET Events(kinds) /\ Deliver(batch)
    BY <1>3, <1>4
  <2> QED
    BY <2>1, <2>2, Delivering
<1>6. /\ DOMAIN place = 1 .. emitted /\ 1 .. emitted \subseteq 1 .. MaxEvents
      /\ \A e \in Events(kinds) : e.no \in 1 .. emitted
  BY <1>1, BoundsAssumption DEF Placed, Numbered, Events
<1>7. \A e \in Events(kinds) : /\ e \in batch => place[e.no] = "tasks"
                               /\ next[e.no] = IF e \in batch THEN "given" ELSE place[e.no]
  <2>1. \A e \in Events(kinds) : e \in batch => place[e.no] = "tasks"
    BY <1>1, <1>4 DEF Placed, InTasks
  <2>2. \A e \in Events(kinds) : (\E d \in batch : d.no = e.no) <=> e \in batch
    BY <1>4, OneEvent
  <2> QED
    BY <1>6, <2>1, <2>2
<1>8. \A n \in 1 .. emitted : (\E e \in batch : e.no = n) => place[n] = "tasks"
  <2> HIDE DEF next
  <2> QED
    BY <1>4, <1>7
<1>9. Numbered(kinds, next)'
  <2>1. \A n \in 1 .. MaxEvents : n > emitted => ~ \E e \in batch : e.no = n
    <3>1. emitted \in Nat /\ \A e \in batch : e.no \in 1 .. emitted
      BY <1>1, <1>4, <1>6 DEF Placed, Numbered
    <3> QED
      BY <3>1
  <2>2. \A n \in 1 .. MaxEvents : n > emitted => net[n] = 0
    BY <1>1 DEF Placed, Numbered
  <2>3. \A n \in 1 .. MaxEvents : n > emitted => net'[n] = 0
    BY <1>5, <2>1, <2>2 DEF Times
  <2>4. next \in [1 .. emitted -> Places]
    BY <1>1 DEF Placed, Numbered, Places
  <2> HIDE DEF next
  <2> QED
    BY <1>1, <1>3, <1>5, <2>3, <2>4 DEF Placed, Numbered
<1>10. Counted(kinds, next)'
  <2> SUFFICES ASSUME NEW n \in 1 .. emitted
               PROVE  Right(next[n], kinds[n], Somebody, net'[n])
    BY <1>3 DEF Counted, Somebody
  <2>1. Right(place[n], kinds[n], Somebody, net[n]) /\ net[n] \in Nat
    <3> HIDE DEF next
    <3>1. n \in 1 .. MaxEvents
      BY <1>6
    <3> QED
      BY <1>1, <3>1 DEF Placed, Counted, Numbered
  <2>2. CASE \E e \in batch : e.no = n
    <3>1. place[n] = "tasks" /\ next[n] = "given" /\ net'[n] = net[n] + 1
      BY <1>5, <1>6, <1>8, <2>2 DEF Times
    <3> HIDE DEF next
    <3> QED
      BY <2>1, <3>1 DEF Right
  <2>3. CASE ~ \E e \in batch : e.no = n
    <3>1. next[n] = place[n] /\ net'[n] = net[n]
      BY <1>5, <1>6, <2>1, <2>3 DEF Times
    <3> HIDE DEF next
    <3> QED
      BY <2>1, <3>1
  <2> QED
    BY <2>2, <2>3
<1> HIDE DEF next
<1>11. Kept(kinds, next)'
  BY <1>1, <1>3, <1>7 DEF Placed, Kept
<1>12. Flying(kinds, next)'
  BY <1>1, <1>3, <1>7 DEF Placed, Flying
<1>13. InTasks(kinds, next)'
  <2>1. \A i, j \in 1 .. Len(tasks) : tasks[i] \cap tasks[j] # {} => i = j
    BY <1>1 DEF Placed, InTasks
  <2>2. \A i \in 1 .. Len(tasks') : i + 1 \in 1 .. Len(tasks) /\ i + 1 # 1
    BY <1>4
  <2>3. \A i, j \in 1 .. Len(tasks') : tasks'[i] \cap tasks'[j] # {} => i = j
    <3> SUFFICES ASSUME NEW i \in 1 .. Len(tasks'), NEW j \in 1 .. Len(tasks'),
                        tasks'[i] \cap tasks'[j] # {}
                 PROVE  i = j
      OBVIOUS
    <3>1. i + 1 = j + 1
      BY <1>4, <2>1, <2>2
    <3> QED
      BY <3>1
  <2>4. ASSUME NEW e \in Events(kinds)
        PROVE  next[e.no] = "tasks" <=> \E i \in 1 .. Len(tasks') : e \in tasks'[i]
    <3>1. ASSUME NEW i \in 1 .. Len(tasks'), e \in tasks'[i] PROVE next[e.no] = "tasks"
      <4>1. e \in tasks[i + 1] /\ i + 1 \in 1 .. Len(tasks) /\ i + 1 # 1
        BY <1>4, <2>2, <3>1
      <4>2. place[e.no] = "tasks"
        BY <1>1, <4>1 DEF Placed, InTasks
      <4>3. e \notin batch
        BY <1>4, <2>1, <4>1
      <4> QED
        BY <1>7, <4>2, <4>3
    <3>2. ASSUME next[e.no] = "tasks" PROVE \E i \in 1 .. Len(tasks') : e \in tasks'[i]
      <4>1. e \notin batch /\ place[e.no] = "tasks"
        BY <1>7, <3>2
      <4>2. PICK j \in 1 .. Len(tasks) : e \in tasks[j]
        BY <1>1, <4>1 DEF Placed, InTasks
      <4>3. j # 1
        BY <1>4, <4>1, <4>2
      <4>4. PICK i : i = j - 1
        OBVIOUS
      <4>5. i \in 1 .. Len(tasks') /\ i + 1 = j
        BY <1>4, <4>2, <4>3, <4>4
      <4> QED
        BY <1>4, <4>2, <4>5
    <3> QED
      BY <3>1, <3>2
  <2> QED
    BY <1>4, <2>3, <2>4 DEF InTasks
<1>14. InLine' /\ Handing'
  BY <1>1, <1>3 DEF Placed, InLine, Handing, Somebody, BufferedUpserts
<1> QED
  BY <1>9, <1>10, <1>11, <1>12, <1>13, <1>14 DEF Somewhere, Placed

-----------------------------------------------------------------------------
(* What _append does with an event and those that wait for its chat. *)
LEMMA Sorted ==
    ASSUME NEW e, NEW base, e \notin base, e \notin undecided, e \notin dropped,
           base \cap undecided = {}, base \cap dropped = {}, undecided \cap dropped = {},
           AppendTo(base, e)
    PROVE  /\ base \subseteq data' /\ dropped \subseteq dropped'
           /\ undecided \subseteq data' \cup undecided' \cup dropped'
           /\ e \in data' \cup undecided' \cup dropped'
           /\ data' \cup undecided' \cup dropped' \subseteq base \cup undecided \cup dropped \cup {e}
           /\ dropped' \cap base = {} /\ undecided' \cap base = {} /\ data' \cap dropped = {}
           /\ undecided' \cap dropped = {}
           /\ data' \cap undecided' = {} /\ data' \cap dropped' = {}
           /\ undecided' \cap dropped' = {}
<1>1. CASE e.kind \in Upserts /\ data' = base \cup {e} /\ UNCHANGED <<undecided, dropped>>
  BY <1>1
<1>2. ASSUME NEW met \in SUBSET undecided, NEW failed \in SUBSET (undecided \ met),
             data' = base \cup {e} \cup met, undecided' = undecided \ (met \cup failed),
             dropped' = dropped \cup failed
      PROVE  TRUE
  OBVIOUS
<1> QED
  BY DEF AppendTo

(* Where the events are when emit() ends: place tells where they are as    *)
(* base is what is left in the buffer and given what is delivered first.   *)
Staged(kinds, place, em, e, base, given) ==
    /\ em \in 0 .. MaxEvents /\ kinds \in [1 .. em -> Kinds] /\ place \in [1 .. em -> Places]
    /\ Tallied /\ net \in [1 .. MaxEvents -> Nat]
    /\ e \in Events(kinds) /\ place[e.no] = "flying" /\ e \notin given
    /\ base \in SUBSET Events(kinds) /\ given \in SUBSET Events(kinds)
    /\ undecided \subseteq Events(kinds) /\ dropped \subseteq Events(kinds)
    /\ \A x \in Events(kinds) :
         /\ x \in base <=> place[x.no] = "data"
         /\ x \in undecided <=> place[x.no] = "undecided"
         /\ x \in dropped <=> place[x.no] = "dropped"
         /\ place[x.no] = "refused" => x.no \in refused
    /\ \A n \in 1 .. em : Right(place[n], kinds[n], FALSE, net[n] + Times(given, n))
(* Next tells where they are then. *)
MovedOn(kinds, place, next, em, e) ==
    /\ next \in [1 .. em -> Places]
    /\ \A x \in Events(kinds) :
         /\ next[x.no] = "flying" <=> place[x.no] = "flying" /\ x # e
         /\ next[x.no] = "tasks" <=> place[x.no] = "tasks"
    /\ Kept(kinds, next)'
    /\ Tallied' /\ net' \in [1 .. MaxEvents -> Nat]
    /\ \A n \in 1 .. MaxEvents : n > em /\ net[n] = 0 => net'[n] = 0
    /\ \A n \in 1 .. em : Right(next[n], kinds[n], FALSE, net'[n])

LEMMA Finishing ==
    ASSUME NEW em, NEW kinds, NEW place, NEW t, NEW e, NEW base, NEW given,
           Staged(kinds, place, em, e, base, given), Finish(t, e, base, given),
           UNCHANGED <<refused, again>>
    PROVE  \E next : MovedOn(kinds, place, next, em, e)
<1> USE DEF Staged
<1>1. /\ \A n \in 1 .. em : /\ EventOf(kinds, n) \in Events(kinds)
                             /\ EventOf(kinds, n).no = n
      /\ \A x \in Events(kinds) : x.no \in 1 .. em /\ EventOf(kinds, x.no) = x
      /\ 1 .. em \subseteq 1 .. MaxEvents
  BY NumberTells, BoundsAssumption
<1>2. CASE AppendTo(base, e) /\ Deliver(given)
  <2>1. PICK d, u, x : d = data' /\ u = undecided' /\ x = dropped'
    OBVIOUS
  <2>2. /\ base \subseteq d /\ dropped \subseteq x /\ undecided \subseteq d \cup u \cup x
        /\ e \in d \cup u \cup x /\ d \cup u \cup x \subseteq base \cup undecided \cup dropped \cup {e}
        /\ x \cap base = {} /\ u \cap base = {} /\ d \cap dropped = {} /\ u \cap dropped = {}
        /\ d \cap u = {} /\ d \cap x = {} /\ u \cap x = {}
    <3>1. /\ e \notin base /\ e \notin undecided /\ e \notin dropped
          /\ base \cap undecided = {} /\ base \cap dropped = {} /\ undecided \cap dropped = {}
      OBVIOUS
    <3> QED
      BY <1>2, <2>1, <3>1, Sorted
  <2> DEFINE next == [n \in 1 .. em |-> IF EventOf(kinds, n) \in d THEN "data"
                                   ELSE IF EventOf(kinds, n) \in u THEN "undecided"
                                   ELSE IF EventOf(kinds, n) \in x THEN "dropped" ELSE place[n]]
  <2>3. next \in [1 .. em -> Places]
    BY DEF Places
  <2>4. /\ \A y \in Events(kinds) :
             next[y.no] = IF y \in d THEN "data" ELSE IF y \in u THEN "undecided"
                          ELSE IF y \in x THEN "dropped" ELSE place[y.no]
        /\ \A n \in 1 .. em : \E y \in Events(kinds) : y.no = n
    BY <1>1
  <2> HIDE DEF next
  <2>5. ASSUME NEW y \in Events(kinds)
        PROVE  /\ next[y.no] = "flying" <=> place[y.no] = "flying" /\ y # e
               /\ next[y.no] = "tasks" <=> place[y.no] = "tasks"
               /\ y \in d <=> next[y.no] = "data"
               /\ y \in u <=> next[y.no] = "undecided"
               /\ y \in x <=> next[y.no] = "dropped"
               /\ next[y.no] = "refused" => place[y.no] = "refused"
    BY <2>2, <2>4
  <2>6. Kept(kinds, next)'
    <3>1. d \subseteq Events(kinds) /\ u \subseteq Events(kinds) /\ x \subseteq Events(kinds)
      BY <2>2
    <3> QED
      BY <2>1, <2>5, <3>1 DEF Kept
  <2>7. /\ Tallied' /\ net' \in [1 .. MaxEvents -> Nat]
        /\ \A n \in 1 .. MaxEvents :
             net'[n] = net[n] + Times(given, n)
    BY <1>2, Delivering
  <2>8. \A n \in 1 .. MaxEvents : n > em /\ net[n] = 0 => net'[n] = 0
    <3>1. \A y \in given : y.no \in 1 .. em
      BY <1>1
    <3> QED
      BY <2>7, <3>1 DEF Times
  <2>9. ASSUME NEW n \in 1 .. em
        PROVE  Right(next[n], kinds[n], FALSE, net'[n])
    <3>1. Right(place[n], kinds[n], FALSE, net'[n])
      <4>1. net'[n] = net[n] + Times(given, n)
        BY <1>1, <2>7
      <4> QED
        BY <4>1 DEF Right
    <3>2. PICK y \in Events(kinds) : y.no = n
      BY <2>4
    <3>3. next[n] = place[n] \/ (place[n] \in {"flying", "undecided"}
                                  /\ next[n] \in {"data", "undecided", "dropped"})
      BY <2>2, <2>4, <3>2
    <3> QED
      BY <3>1, <3>3 DEF Right
  <2> QED
    BY <2>3, <2>5, <2>6, <2>7, <2>8, <2>9 DEF MovedOn
<1>3. CASE data' = base /\ Deliver(given \cup {e}) /\ UNCHANGED <<undecided, dropped>>
  <2> DEFINE next == [place EXCEPT ![e.no] = "given"]
  <2>1. next \in [1 .. em -> Places]
    BY DEF Places
  <2>2. \A y \in Events(kinds) : next[y.no] = IF y = e THEN "given" ELSE place[y.no]
    BY <1>1, OneEvent
  <2>3. /\ next[e.no] = "given"
        /\ \A n \in 1 .. em : n # e.no => next[n] = place[n]
    BY <1>1
  <2> HIDE DEF next
  <2>4. Kept(kinds, next)'
    BY <1>3, <2>2 DEF Kept
  <2>5. /\ Tallied' /\ net' \in [1 .. MaxEvents -> Nat]
        /\ \A n \in 1 .. MaxEvents :
             net'[n] = net[n] + Times(given \cup {e}, n)
    <3>1. given \cup {e} \in SUBSET Events(kinds)
      OBVIOUS
    <3> QED
      BY <1>3, <3>1, Delivering
  <2>6. \A n \in 1 .. MaxEvents : n > em /\ net[n] = 0 => net'[n] = 0
    <3>1. \A y \in given \cup {e} : y.no \in 1 .. em
      BY <1>1
    <3> QED
      BY <2>5, <3>1 DEF Times
  <2>7. ASSUME NEW n \in 1 .. em
        PROVE  Right(next[n], kinds[n], FALSE, net'[n])
    <3>1. CASE n = e.no
      <4>1. net[n] = 0
        <5>1. place[n] = "flying"
          BY <3>1
        <5>2. net[n] \in Nat
          BY <1>1
        <5>3. net[n] + Times(given, n) = 0
          BY <5>1 DEF Right
        <5> QED
          BY <5>2, <5>3 DEF Times
      <4>2. \E y \in given \cup {e} : y.no = n
        BY <3>1
      <4>3. net'[n] = 1
        BY <1>1, <2>5, <4>1, <4>2, SMTT(60) DEF Times
      <4> QED
        BY <2>3, <3>1, <4>3, BoundsAssumption DEF Right
    <3>2. CASE n # e.no
      <4>1. net'[n] = net[n] + Times(given, n)
        BY <1>1, <2>5, <3>2 DEF Times
      <4> QED
        BY <2>3, <3>2, <4>1
    <3> QED
      BY <3>1, <3>2
  <2> QED
    BY <2>1, <2>2, <2>4, <2>5, <2>6, <2>7 DEF MovedOn
<1> QED
  BY <1>2, <1>3 DEF Finish

(* t's event e, whether it waited or has just been emitted, among the      *)
(* events emitted so far.                                                  *)
Emitting(kinds, place, em, t, e) ==
    /\ em \in 0 .. MaxEvents
    /\ kinds \in [1 .. em -> Kinds] /\ place \in [1 .. em -> Places]
    /\ Tallied /\ net \in [1 .. MaxEvents -> Nat]
    /\ \A n \in 1 .. MaxEvents : n > em => net[n] = 0
    /\ \A n \in 1 .. em : Right(place[n], kinds[n], Somebody, net[n])
    /\ Kept(kinds, place) /\ InTasks(kinds, place)
    /\ e \in Events(kinds) /\ place[e.no] = "flying"
    /\ event \in [Tasks -> Events(kinds) \cup {NoEvent}]
    /\ \A x \in Events(kinds) :
         place[x.no] = "flying" <=> x = e \/ \E u \in Tasks \ {t} : event[u] = x
    /\ \A u \in Tasks \ {t} : event[u] # e /\ (at[u] = "idle" <=> event[u] = NoEvent)
    /\ \A u, v \in Tasks \ {t} : event[u] = event[v] /\ event[u] # NoEvent => u = v
    /\ InLine

(* The end of emit(): base stays in the buffer, given is delivered now, or *)
(* was delivered during the wait for listeners.                            *)
LEMMA Finished ==
    ASSUME NEW kinds, NEW place, NEW em, NEW t \in Tasks, NEW e, NEW base, NEW given, NEW line,
           Emitting(kinds, place, em, t, e),
           \A u \in Tasks \ {t} : at[u] \notin {"handing", "stuck"},
           base \subseteq data, given \subseteq data,
           \A x \in data : net[x.no] + (IF x \in given THEN 1 ELSE 0)
                             = IF x \in base THEN 0 ELSE 1,
           line \in Seq(Tasks), line # <<>>, Head(line) = t, lockLine' = Tail(line),
           \A u \in Tasks \ {t} : at[u] # "idle" => Stands(u, line),
           emitted' = em, tasks' = tasks, Finish(t, e, base, given),
           UNCHANGED <<refused, again>>, handedOut' = {}
    PROVE  Somewhere'
<1>1. /\ em \in 0 .. MaxEvents
      /\ kinds \in [1 .. em -> Kinds] /\ place \in [1 .. em -> Places]
      /\ Tallied /\ net \in [1 .. MaxEvents -> Nat]
      /\ e \in Events(kinds) /\ place[e.no] = "flying"
      /\ Kept(kinds, place) /\ InTasks(kinds, place)
  BY DEF Emitting
<1>2. /\ \A n \in 1 .. em : /\ EventOf(kinds, n) \in Events(kinds)
                             /\ EventOf(kinds, n).no = n
      /\ \A x \in Events(kinds) : x.no \in 1 .. em /\ EventOf(kinds, x.no) = x
      /\ 1 .. em \subseteq 1 .. MaxEvents /\ em \in Nat
  BY <1>1, NumberTells, BoundsAssumption
<1> DEFINE stage == [n \in 1 .. em |->
                       IF EventOf(kinds, n) \in data \ base THEN "given" ELSE place[n]]
<1>3. PICK mid : mid = stage
  OBVIOUS
<1>4. mid \in [1 .. em -> Places]
  BY <1>1, <1>3 DEF Places
<1>5. \A x \in Events(kinds) : mid[x.no] = IF x \in data \ base THEN "given" ELSE place[x.no]
  BY <1>2, <1>3
<1> HIDE DEF stage
<1>6. \A x \in Events(kinds) :
        /\ x \in base <=> mid[x.no] = "data"
        /\ x \in undecided <=> mid[x.no] = "undecided"
        /\ x \in dropped <=> mid[x.no] = "dropped"
        /\ mid[x.no] = "flying" <=> place[x.no] = "flying"
        /\ mid[x.no] = "tasks" <=> place[x.no] = "tasks"
        /\ mid[x.no] = "refused" => x.no \in refused
  BY <1>1, <1>5 DEF Kept
<1>7. \A n \in 1 .. em :
        Right(mid[n], kinds[n], FALSE,
              net[n] + Times(given, n))
  <2> SUFFICES ASSUME NEW n \in 1 .. em
               PROVE  Right(mid[n], kinds[n], FALSE,
                            net[n] + Times(given, n))
    OBVIOUS
  <2>1. PICK y \in Events(kinds) : y.no = n
    BY <1>2
  <2>2. (\E x \in given : x.no = n) <=> y \in given
    BY <1>1, <2>1, OneEvent DEF Kept
  <2>3. net[n] \in Nat
    BY <1>1, <1>2
  <2>4. CASE y \in data
    <3>1. net[n] + (IF y \in given THEN 1 ELSE 0) = IF y \in base THEN 0 ELSE 1
      BY <2>1, <2>4
    <3>2. mid[n] = IF y \in base THEN "data" ELSE "given"
      BY <1>5, <1>6, <2>1, <2>4
    <3> QED
      BY <2>2, <3>1, <3>2, BoundsAssumption DEF Right, Times
  <2>5. CASE y \notin data
    <3>1. mid[n] = place[n] /\ place[n] # "data" /\ y \notin given
      BY <1>1, <1>5, <2>1, <2>5 DEF Kept
    <3>2. Right(place[n], kinds[n], Somebody, net[n])
      BY DEF Emitting
    <3>3. Right(place[n], kinds[n], FALSE, net[n])
      BY <3>1, <3>2 DEF Right
    <3>4. net[n] + Times(given, n) = net[n]
      BY <2>2, <2>3, <3>1 DEF Times
    <3> QED
      BY <3>1, <3>3, <3>4
  <2> QED
    BY <2>4, <2>5
<1>8. /\ e \notin given /\ mid[e.no] = "flying"
      /\ base \in SUBSET Events(kinds) /\ given \in SUBSET Events(kinds)
      /\ undecided \subseteq Events(kinds) /\ dropped \subseteq Events(kinds)
  BY <1>1, <1>6 DEF Kept
<1>9. Staged(kinds, mid, em, e, base, given)
  BY <1>1, <1>4, <1>6, <1>7, <1>8 DEF Staged
<1>10. PICK next : MovedOn(kinds, mid, next, em, e)
  BY <1>9, Finishing
<1>11. /\ at' = [at EXCEPT ![t] = "idle"] /\ event' = [event EXCEPT ![t] = NoEvent]
       /\ at \in [Tasks -> {"idle", "queued", "handing", "stuck"}]
  BY DEF Finish, Emitting, InLine
<1>12. ~ Somebody' /\ Handing'
  BY <1>11 DEF Somebody, Handing
<1>13. Numbered(kinds, next)'
  BY <1>1, <1>10 DEF MovedOn, Numbered, Emitting
<1>14. Counted(kinds, next)'
  <2> SUFFICES ASSUME NEW n \in 1 .. em
               PROVE  Right(next[n], kinds[n], Somebody', net'[n])
    BY DEF Counted
  <2> QED
    BY <1>10, <1>12 DEF MovedOn, Right
<1>15. InTasks(kinds, next)'
  BY <1>1, <1>6, <1>10 DEF MovedOn, InTasks
<1>16. Flying(kinds, next)'
  <2>1. NoEvent \notin Events(kinds)
    BY <1>2 DEF NoEvent
  <2>2. event' \in [Tasks -> Events(kinds) \cup {NoEvent}]
    BY <1>11 DEF Emitting
  <2>3. /\ event'[t] = NoEvent /\ at'[t] = "idle"
        /\ \A u \in Tasks \ {t} : event'[u] = event[u] /\ at'[u] = at[u]
    BY <1>11 DEF Emitting
  <2>4. /\ \A x \in Events(kinds) :
             place[x.no] = "flying" <=> x = e \/ \E u \in Tasks \ {t} : event[u] = x
        /\ \A u \in Tasks \ {t} : event[u] # e /\ (at[u] = "idle" <=> event[u] = NoEvent)
        /\ \A u, v \in Tasks \ {t} : event[u] = event[v] /\ event[u] # NoEvent => u = v
    BY DEF Emitting
  <2>5. ASSUME NEW x \in Events(kinds)
        PROVE  next[x.no] = "flying" <=> \E u \in Tasks : event'[u] = x
    BY <1>6, <1>10, <2>1, <2>3, <2>4 DEF MovedOn
  <2>6. \A u \in Tasks : at'[u] = "idle" <=> event'[u] = NoEvent
    BY <2>3, <2>4
  <2>7. \A u, v \in Tasks : event'[u] = event'[v] /\ event'[u] # NoEvent => u = v
    BY <2>3, <2>4
  <2> QED
    BY <2>2, <2>5, <2>6, <2>7 DEF Flying
<1>17. InLine'
  <2>1. /\ lockLine' \in Seq(Tasks)
        /\ \A u : u # t /\ Stands(u, line) => Stands(u, lockLine')
    BY LineShrinks
  <2> QED
    BY <1>11, <2>1 DEF InLine
<1> QED
  BY <1>12, <1>13, <1>14, <1>10, <1>15, <1>16, <1>17 DEF MovedOn, Somewhere, Placed

(* t waits with its event, for the lock or for listeners. *)
LEMMA Waits ==
    ASSUME NEW kinds, NEW place, NEW em, NEW t \in Tasks, NEW e, NEW where \in {"queued", "handing"},
           Emitting(kinds, place, em, t, e),
           at' = [at EXCEPT ![t] = where], event' = [event EXCEPT ![t] = e],
           emitted' = em, UNCHANGED <<data, undecided, dropped, refused, tasks>>,
           Tallied' /\ net' \in [1 .. MaxEvents -> Nat],
           \A n \in 1 .. MaxEvents : n > em => net'[n] = 0,
           \A n \in 1 .. em : Right(place[n], kinds[n], Somebody', net'[n]), InLine', Handing'
    PROVE  Somewhere'
<1>1. Numbered(kinds, place)' /\ Counted(kinds, place)' /\ Kept(kinds, place)' /\ InTasks(kinds, place)'
  BY DEF Emitting, Numbered, Counted, Kept, InTasks
<1>2. Flying(kinds, place)'
  <2>1. e \in Events(kinds) /\ NoEvent \notin Events(kinds)
    <3>1. DOMAIN kinds = 1 .. em /\ \A x \in Events(kinds) : x.no \in DOMAIN kinds
      BY NumberTells DEF Emitting
    <3> QED
      BY <3>1 DEF Emitting, NoEvent
  <2>2. event' \in [Tasks -> Events(kinds) \cup {NoEvent}]
    BY <2>1 DEF Emitting
  <2>3. /\ event'[t] = e /\ at'[t] # "idle" /\ e # NoEvent
        /\ \A u \in Tasks \ {t} : event'[u] = event[u] /\ at'[u] = at[u]
    BY <2>1 DEF Emitting, InLine
  <2>4. /\ \A x \in Events(kinds) :
             place[x.no] = "flying" <=> x = e \/ \E u \in Tasks \ {t} : event[u] = x
        /\ \A u \in Tasks \ {t} : event[u] # e /\ (at[u] = "idle" <=> event[u] = NoEvent)
        /\ \A u, v \in Tasks \ {t} : event[u] = event[v] /\ event[u] # NoEvent => u = v
    BY DEF Emitting
  <2>5. ASSUME NEW x \in Events(kinds)
        PROVE  place[x.no] = "flying" <=> \E u \in Tasks : event'[u] = x
    BY <2>1, <2>3, <2>4
  <2>6. \A u \in Tasks : at'[u] = "idle" <=> event'[u] = NoEvent
    BY <2>3, <2>4
  <2>7. \A u, v \in Tasks : event'[u] = event'[v] /\ event'[u] # NoEvent => u = v
    BY <2>3, <2>4
  <2> QED
    BY <2>2, <2>5, <2>6, <2>7 DEF Flying
<1> QED
  BY <1>1, <1>2 DEF Somewhere, Placed

(* t's event is refused: it is nowhere any more, and t has left the line.  *)
LEMMA Refusing ==
    ASSUME NEW kinds, NEW place, NEW em, NEW t \in Tasks, NEW e,
           Emitting(kinds, place, em, t, e),
           at' = [at EXCEPT ![t] = "idle"], event' = [event EXCEPT ![t] = NoEvent],
           refused' = refused \cup {e.no}, emitted' = em,
           UNCHANGED <<data, undecided, dropped, tasks>>,
           Tallied', net' \in [1 .. MaxEvents -> Nat],
           \A n \in 1 .. MaxEvents : n > em => net'[n] = 0,
           \A n \in 1 .. em : Right(place[n], kinds[n], Somebody', net'[n]),
           lockLine' \in Seq(Tasks),
           \A u \in Tasks \ {t} : at[u] # "idle" => Stands(u, lockLine'),
           \A u \in Tasks \ {t} : at[u] \in {"handing", "stuck"} => Head(lockLine') = u,
           Handing'
    PROVE  Somewhere'
<1>1. /\ em \in 0 .. MaxEvents /\ e \in Events(kinds) /\ place[e.no] = "flying"
      /\ kinds \in [1 .. em -> Kinds] /\ place \in [1 .. em -> Places]
      /\ Kept(kinds, place) /\ InTasks(kinds, place) /\ DOMAIN kinds = 1 .. em
      /\ \A x \in Events(kinds) : x.no \in 1 .. em
  BY NumberTells DEF Emitting
<1> DEFINE next == [place EXCEPT ![e.no] = "refused"]
<1>2. /\ next \in [1 .. em -> Places]
      /\ \A x \in Events(kinds) : next[x.no] = IF x = e THEN "refused" ELSE place[x.no]
      /\ \A n \in 1 .. em : next[n] = place[n] \/ (next[n] = "refused" /\ place[n] = "flying")
  <2>1. next \in [1 .. em -> Places]
    BY <1>1 DEF Places
  <2> QED
    BY <1>1, <2>1, OneEvent
<1> HIDE DEF next
<1>3. Numbered(kinds, next)'
  BY <1>1, <1>2 DEF Numbered
<1>4. Counted(kinds, next)'
  BY <1>2 DEF Counted, Right
<1>5. Kept(kinds, next)'
  BY <1>1, <1>2 DEF Kept
<1>6. InTasks(kinds, next)'
  BY <1>1, <1>2 DEF InTasks
<1>7. Flying(kinds, next)'
  <2>1. NoEvent \notin Events(kinds)
    BY <1>1 DEF NoEvent
  <2>2. event' \in [Tasks -> Events(kinds) \cup {NoEvent}]
    BY DEF Emitting
  <2>3. /\ event'[t] = NoEvent /\ at'[t] = "idle"
        /\ \A u \in Tasks \ {t} : event'[u] = event[u] /\ at'[u] = at[u]
    BY DEF Emitting, InLine
  <2>4. /\ \A x \in Events(kinds) :
             place[x.no] = "flying" <=> x = e \/ \E u \in Tasks \ {t} : event[u] = x
        /\ \A u \in Tasks \ {t} : event[u] # e /\ (at[u] = "idle" <=> event[u] = NoEvent)
        /\ \A u, v \in Tasks \ {t} : event[u] = event[v] /\ event[u] # NoEvent => u = v
    BY DEF Emitting
  <2>5. ASSUME NEW x \in Events(kinds)
        PROVE  next[x.no] = "flying" <=> \E u \in Tasks : event'[u] = x
    BY <1>2, <2>1, <2>3, <2>4
  <2>6. \A u \in Tasks : at'[u] = "idle" <=> event'[u] = NoEvent
    BY <2>3, <2>4
  <2>7. \A u, v \in Tasks : event'[u] = event'[v] /\ event'[u] # NoEvent => u = v
    BY <2>3, <2>4
  <2> QED
    BY <2>2, <2>5, <2>6, <2>7 DEF Flying
<1>8. InLine'
  BY DEF Emitting, InLine
<1> QED
  BY <1>3, <1>4, <1>5, <1>6, <1>7, <1>8 DEF Somewhere, Placed

(* Upserts handed out and kept are to be given again: nothing is settled.  *)
LEMMA GivenTwice ==
    ASSUME NEW kinds, NEW es \in SUBSET Events(kinds), Deliver(es), GivenAgain(es),
           Tallied, net \in [1 .. MaxEvents -> Nat]
    PROVE  net' = net /\ Tallied'
<1>1. \A n : Cardinality({e \in es : e.no = n}) = IF \E e \in es : e.no = n THEN 1 ELSE 0
  BY HowMany
<1>2. delivered' = [n \in 1 .. MaxEvents |-> delivered[n] + Times(es, n)]
  BY <1>1 DEF Deliver, Times
<1>3. again' = [n \in 1 .. MaxEvents |-> again[n] + Times(es, n)]
  BY DEF GivenAgain, Times, Tallied
<1>4. Tallied'
  BY <1>2, <1>3 DEF Tallied, Times
<1>5. \A n \in 1 .. MaxEvents : delivered'[n] - again'[n] = delivered[n] - again[n]
  BY <1>2, <1>3 DEF Tallied, Times
<1> QED
  BY <1>4, <1>5 DEF net

(* What holding the lock does, up to the next suspension. *)
LEMMA Holding ==
    ASSUME NEW kinds, NEW place, NEW em, NEW t \in Tasks, NEW e, NEW line,
           Emitting(kinds, place, em, t, e), ~ Somebody,
           line \in Seq(Tasks), line # <<>>, Head(line) = t, Stands(t, line),
           \A u \in Tasks \ {t} : at[u] # "idle" => Stands(u, line),
           emitted' = em, tasks' = tasks, HoldLock(t, e, line), Handing
    PROVE  Somewhere'
<1>1. /\ em \in 0 .. MaxEvents /\ Kept(kinds, place) /\ DOMAIN kinds = 1 .. em
      /\ 1 .. em \subseteq 1 .. MaxEvents /\ em \in Nat
      /\ kinds \in [1 .. em -> Kinds] /\ place \in [1 .. em -> Places]
      /\ Tallied /\ net \in [1 .. MaxEvents -> Nat]
      /\ \A x \in Events(kinds) : x.no \in 1 .. em /\ kinds[x.no] = x.kind
  BY BoundsAssumption DEF Emitting, Events
<1>2. \A x \in data : net[x.no] = 0
  <2>1. \A n \in 1 .. em : place[n] = "data" => net[n] = 0
    BY DEF Emitting, Right
  <2> QED
    BY <1>1, <2>1 DEF Kept
<1>3. /\ \A u \in Tasks \ {t} : at[u] \notin {"handing", "stuck"}
      /\ handedOut = {}
  BY DEF Somebody, Handing
<1>4. CASE /\ Finish(t, e, data, {}) /\ lockLine' = Tail(line)
           /\ UNCHANGED <<refused, handedOut, again>>
  <2>1. \A x \in data : net[x.no] + (IF x \in {} THEN 1 ELSE 0) = IF x \in data THEN 0 ELSE 1
    BY <1>2
  <2> QED
    BY <1>3, <1>4, <2>1, Finished
<1>5. CASE /\ Finish(t, e, data \ BufferedUpserts, BufferedUpserts) /\ lockLine' = Tail(line)
           /\ UNCHANGED <<refused, handedOut, again>>
  <2>1. PICK upserts : upserts = BufferedUpserts
    OBVIOUS
  <2>2. \A x \in data : net[x.no] + (IF x \in upserts THEN 1 ELSE 0)
                         = IF x \in data \ upserts THEN 0 ELSE 1
    BY <1>2
  <2>3. PICK rest : rest = data \ upserts
    OBVIOUS
  <2>4. \A x \in data : net[x.no] + (IF x \in upserts THEN 1 ELSE 0)
                         = IF x \in rest THEN 0 ELSE 1
    BY <2>2, <2>3
  <2>5. upserts \subseteq data /\ rest \subseteq data
    BY <2>1, <2>3 DEF BufferedUpserts
  <2>6. Finish(t, e, rest, upserts)
    BY <1>5, <2>1, <2>3
  <2> QED
    BY <1>3, <1>5, <2>4, <2>5, <2>6, Finished
<1>6. CASE /\ HandlersSuspend /\ Deliver(BufferedUpserts) /\ lockLine' = line
           /\ at' = [at EXCEPT ![t] = "handing"] /\ event' = [event EXCEPT ![t] = e]
           /\ handedOut' = BufferedUpserts
           /\ UNCHANGED <<data, undecided, dropped, refused, again>>
  <2>1. /\ at \in [Tasks -> {"idle", "queued", "handing", "stuck"}]
    BY DEF Emitting, InLine
  <2>2. InLine' /\ Somebody' /\ Handing'
    BY <1>3, <1>6, <2>1 DEF InLine, Somebody, Handing, BufferedUpserts
  <2>3. PICK upserts : upserts = BufferedUpserts
    OBVIOUS
  <2>4. upserts \in SUBSET Events(kinds) /\ Deliver(upserts)
    BY <1>1, <1>6, <2>3 DEF BufferedUpserts, Kept
  <2>5. /\ Tallied' /\ net' \in [1 .. MaxEvents -> Nat]
        /\ \A n \in 1 .. MaxEvents : net'[n] = net[n] + Times(upserts, n)
    BY <1>1, <1>6, <2>4, Delivering
  <2>6. \A n \in 1 .. MaxEvents : n > em => net'[n] = 0
    <3>1. \A n \in 1 .. MaxEvents : n > em => Times(upserts, n) = 0
      <4>1. \A x \in upserts : x.no \in 1 .. em
        BY <1>1, <2>4
      <4> QED
        BY <1>1, <4>1 DEF Times
    <3>2. \A n \in 1 .. MaxEvents : n > em => net[n] = 0
      BY DEF Emitting
    <3> QED
      BY <2>5, <3>1, <3>2
  <2>7. ASSUME NEW n \in 1 .. em
        PROVE  Right(place[n], kinds[n], Somebody', net'[n])
    <3>1. Right(place[n], kinds[n], FALSE, net[n]) /\ net[n] \in Nat
      BY <1>1 DEF Emitting, Right
    <3>2. net'[n] = net[n] + Times(upserts, n)
      BY <1>1, <2>5
    <3>3. Times(upserts, n) = IF place[n] = "data" /\ kinds[n] \in Upserts THEN 1 ELSE 0
      <4>1. PICK y \in Events(kinds) : y.no = n /\ kinds[n] = y.kind
        BY <1>1, HasEvent, ZenonT(60)
      <4>2. (\E x \in upserts : x.no = n) <=> y \in upserts
        BY <2>4, <4>1, OneEvent
      <4>3. y \in upserts <=> place[n] = "data" /\ kinds[n] \in Upserts
        BY <1>1, <2>3, <4>1 DEF BufferedUpserts, Kept
      <4> QED
        BY <4>2, <4>3 DEF Times
    <3> QED
      BY <2>2, <3>1, <3>2, <3>3 DEF Right
  <2> QED
    BY <1>6, <2>2, <2>5, <2>6, <2>7, Waits
<1>7. CASE Deliver(BufferedUpserts) /\ Refuse(t, e, BufferedUpserts) /\ lockLine' = Tail(line)
           /\ UNCHANGED handedOut
  <2>1. PICK upserts : upserts = BufferedUpserts
    OBVIOUS
  <2>2. net' = net /\ Tallied'
    <3>1. upserts \cap data = upserts /\ upserts \in SUBSET Events(kinds)
      BY <1>1, <2>1 DEF BufferedUpserts, Kept
    <3>2. GivenAgain(upserts)
      <4>1. GivenAgain(upserts \cap data)
        BY <1>7, <2>1 DEF Refuse
      <4> QED
        BY <3>1, <4>1
    <3>3. Deliver(upserts)
      BY <1>7, <2>1
    <3> QED
      BY <1>1, <3>1, <3>2, <3>3, GivenTwice
  <2>3. net' \in [1 .. MaxEvents -> Nat]
    BY <1>1, <2>2
  <2>4. /\ at' = [at EXCEPT ![t] = "idle"] /\ event' = [event EXCEPT ![t] = NoEvent]
        /\ refused' = refused \cup {e.no} /\ UNCHANGED <<data, undecided, dropped>>
    BY <1>7 DEF Refuse
  <2>5. ~ Somebody' /\ Handing'
    <3>1. at \in [Tasks -> {"idle", "queued", "handing", "stuck"}]
      BY DEF Emitting, InLine
    <3>2. ~ Somebody'
      BY <1>3, <2>4, <3>1 DEF Somebody
    <3> QED
      BY <1>3, <1>7, <3>2 DEF Handing
  <2>6. /\ lockLine' \in Seq(Tasks)
        /\ \A u \in Tasks \ {t} : at[u] # "idle" => Stands(u, lockLine')
    BY <1>7, LineShrinks
  <2>7. /\ \A n \in 1 .. em : Right(place[n], kinds[n], Somebody', net'[n])
        /\ \A n \in 1 .. MaxEvents : n > em => net'[n] = 0
    BY <2>2, <2>5 DEF Emitting, Right
  <2> QED
    BY <1>3, <2>2, <2>3, <2>4, <2>5, <2>6, <2>7, Refusing
<1> QED
  BY <1>4, <1>5, <1>6, <1>7 DEF HoldLock

-----------------------------------------------------------------------------
(* A task that waits is emitting. *)
LEMMA Waiting ==
    ASSUME NEW kinds, NEW place, Placed(kinds, place), NEW t \in Tasks, at[t] # "idle"
    PROVE  Emitting(kinds, place, emitted, t, event[t])
<1>1. /\ Numbered(kinds, place) /\ Counted(kinds, place) /\ Kept(kinds, place)
      /\ InTasks(kinds, place) /\ Flying(kinds, place) /\ InLine
  BY DEF Placed
<1>2. event[t] # NoEvent /\ event[t] \in Events(kinds)
  BY <1>1 DEF Flying
<1>3. place[event[t].no] = "flying"
  BY <1>1, <1>2 DEF Flying
<1>4. /\ \A x \in Events(kinds) :
           place[x.no] = "flying" <=> x = event[t] \/ \E u \in Tasks \ {t} : event[u] = x
      /\ \A u \in Tasks \ {t} : event[u] # event[t] /\ (at[u] = "idle" <=> event[u] = NoEvent)
      /\ \A u, v \in Tasks \ {t} : event[u] = event[v] /\ event[u] # NoEvent => u = v
      /\ event \in [Tasks -> Events(kinds) \cup {NoEvent}]
  BY <1>1, <1>2 DEF Flying
<1> QED
  BY <1>1, <1>2, <1>3, <1>4 DEF Emitting, Numbered, Counted

(* So is one that begins to emit, with one event more. *)
LEMMA Begins ==
    ASSUME NEW kinds, NEW place, Placed(kinds, place), NEW t \in Tasks, at[t] = "idle",
           NEW k \in Kinds, emitted < MaxEvents, NEW e, e = [no |-> emitted + 1, kind |-> k]
    PROVE  \E kinds2, place2 : Emitting(kinds2, place2, emitted + 1, t, e)
<1>1. /\ Numbered(kinds, place) /\ Counted(kinds, place) /\ Kept(kinds, place)
      /\ InTasks(kinds, place) /\ Flying(kinds, place) /\ InLine
  BY DEF Placed
<1>2. PICK n \in Nat : n = emitted
  BY <1>1 DEF Numbered
<1>3. n + 1 \in 0 .. MaxEvents /\ n + 1 \in 1 .. MaxEvents /\ 1 .. n + 1 = 1 .. n \cup {n + 1}
  BY <1>2, BoundsAssumption
<1> DEFINE kinds2 == [m \in 1 .. n + 1 |-> IF m = n + 1 THEN k ELSE kinds[m]]
           place2 == [m \in 1 .. n + 1 |-> IF m = n + 1 THEN "flying" ELSE place[m]]
<1>4. /\ kinds2 \in [1 .. n + 1 -> Kinds] /\ place2 \in [1 .. n + 1 -> Places]
      /\ DOMAIN kinds = 1 .. n
      /\ kinds2[n + 1] = k /\ place2[n + 1] = "flying"
      /\ \A m \in 1 .. n : kinds2[m] = kinds[m] /\ place2[m] = place[m] /\ m # n + 1
  BY <1>1, <1>2, <1>3 DEF Numbered, Places
<1> HIDE DEF kinds2, place2
<1>5. /\ Events(kinds2) = Events(kinds) \cup {e}
      /\ e.no = n + 1 /\ e.kind = k /\ e \notin Events(kinds)
      /\ \A x \in Events(kinds) : x.no \in 1 .. n
  <2>1. e.no = n + 1 /\ e.kind = k /\ \A x \in Events(kinds) : x.no \in 1 .. n
    BY <1>2, <1>4 DEF Events
  <2>2. DOMAIN kinds2 = 1 .. n \cup {n + 1}
    BY <1>3, <1>4
  <2>3. e \in Events(kinds2)
    BY <1>2, <1>4, <2>2 DEF Events
  <2>4. \A x \in Events(kinds) : x \in Events(kinds2)
    BY <1>4, <2>2 DEF Events
  <2>5. ASSUME NEW x \in Events(kinds2) PROVE x \in Events(kinds) \cup {e}
    <3>1. CASE x.no = n + 1
      BY <2>1, <2>3, <3>1, OneEvent
    <3>2. CASE x.no # n + 1
      BY <1>4, <2>2, <3>2 DEF Events
    <3> QED
      BY <3>1, <3>2
  <2>6. e \notin Events(kinds)
    BY <1>4, <2>1
  <2> QED
    BY <2>1, <2>3, <2>4, <2>5, <2>6
<1>6. \A x \in Events(kinds) : place2[x.no] = place[x.no]
  BY <1>4, <1>5
<1>7. /\ Tallied /\ net \in [1 .. MaxEvents -> Nat] /\ net[n + 1] = 0
      /\ \A m \in 1 .. MaxEvents : m > n + 1 => net[m] = 0
  BY <1>1, <1>2, <1>3, BoundsAssumption DEF Numbered
<1>8. \A m \in 1 .. n + 1 : Right(place2[m], kinds2[m], Somebody, net[m])
  <2>1. \A m \in 1 .. n : Right(place2[m], kinds2[m], Somebody, net[m])
    BY <1>1, <1>2, <1>4 DEF Counted
  <2>2. Right(place2[n + 1], kinds2[n + 1], Somebody, net[n + 1])
    BY <1>4, <1>7 DEF Right
  <2> QED
    BY <1>3, <2>1, <2>2
<1>9. Kept(kinds2, place2)
  BY <1>1, <1>4, <1>5, <1>6 DEF Kept
<1>10. InTasks(kinds2, place2)
  <2>1. /\ tasks \in Seq(SUBSET Events(kinds)) /\ SUBSET Events(kinds) \subseteq SUBSET Events(kinds2)
    BY <1>1, <1>5 DEF InTasks
  <2>2. tasks \in Seq(SUBSET Events(kinds2))
    BY <2>1, SeqMonotonic
  <2>3. \A i \in 1 .. Len(tasks) : e \notin tasks[i]
    BY <1>5, <2>1, ElementOfSeq
  <2> QED
    <3>1. ASSUME NEW x \in Events(kinds2)
          PROVE  place2[x.no] = "tasks" <=> \E i \in 1 .. Len(tasks) : x \in tasks[i]
      <4>1. CASE x = e
        BY <1>4, <1>5, <2>3, <4>1
      <4>2. CASE x \in Events(kinds)
        BY <1>1, <1>6, <4>2 DEF InTasks
      <4> QED
        BY <1>5, <4>1, <4>2
    <3>2. \A i, j \in 1 .. Len(tasks) : tasks[i] \cap tasks[j] # {} => i = j
      BY <1>1 DEF InTasks
    <3> QED
      BY <2>2, <3>1, <3>2 DEF InTasks
<1>11. /\ event \in [Tasks -> Events(kinds2) \cup {NoEvent}]
       /\ \A x \in Events(kinds2) :
            place2[x.no] = "flying" <=> x = e \/ \E u \in Tasks \ {t} : event[u] = x
       /\ \A u \in Tasks \ {t} : event[u] # e /\ (at[u] = "idle" <=> event[u] = NoEvent)
       /\ \A u, v \in Tasks \ {t} : event[u] = event[v] /\ event[u] # NoEvent => u = v
  <2>1. event[t] = NoEvent /\ NoEvent # e /\ NoEvent \notin Events(kinds)
    BY <1>1, <1>5 DEF Flying, NoEvent
  <2>2. /\ event \in [Tasks -> Events(kinds) \cup {NoEvent}]
        /\ \A u \in Tasks : event[u] # e
    BY <1>1, <1>5, <2>1 DEF Flying
  <2>3. \A x \in Events(kinds) :
          place[x.no] = "flying" <=> \E u \in Tasks \ {t} : event[u] = x
    BY <1>1, <2>1 DEF Flying
  <2>4. \A x \in Events(kinds2) :
          place2[x.no] = "flying" <=> x = e \/ \E u \in Tasks \ {t} : event[u] = x
    BY <1>4, <1>5, <1>6, <2>2, <2>3
  <2>5. event \in [Tasks -> Events(kinds2) \cup {NoEvent}]
    BY <1>5, <2>2
  <2> QED
    BY <1>1, <2>2, <2>4, <2>5 DEF Flying
<1>12. Emitting(kinds2, place2, n + 1, t, e)
  BY <1>1, <1>3, <1>4, <1>5, <1>7, <1>8, <1>9, <1>10, <1>11 DEF Emitting
<1> QED
  BY <1>2, <1>12

(* The steps of emit(). *)
LEMMA EmitMoves ==
    ASSUME Somewhere, NEW t \in Tasks, NEW k \in Kinds, Emit(t, k)
    PROVE  Somewhere'
<1>1. PICK kinds, place : Placed(kinds, place)
  BY DEF Somewhere
<1>2. PICK e : e = [no |-> emitted + 1, kind |-> k]
  OBVIOUS
<1>3. PICK em : em = emitted + 1
  OBVIOUS
<1>4. /\ at[t] = "idle" /\ emitted < MaxEvents /\ emitted' = em /\ tasks' = tasks
      /\ IF lockLine = <<>>
         THEN HoldLock(t, e, <<t>>)
         ELSE /\ lockLine' = Append(lockLine, t) /\ at' = [at EXCEPT ![t] = "queued"]
              /\ event' = [event EXCEPT ![t] = e]
              /\ UNCHANGED <<data, undecided, delivered, dropped, refused, handedOut, again>>
  BY <1>2, <1>3 DEF Emit
<1>5. PICK kinds2, place2 : Emitting(kinds2, place2, em, t, e)
  BY <1>1, <1>2, <1>3, <1>4, Begins
<1>6. CASE lockLine = <<>>
  <2>1. ~ Somebody
    BY <1>1, <1>6, StandsInLine DEF Placed, InLine, Somebody
  <2>2. <<t>> \in Seq(Tasks) /\ <<t>> # <<>> /\ Head(<<t>>) = t /\ Stands(t, <<t>>)
    BY DEF Stands
  <2>3. HoldLock(t, e, <<t>>)
    BY <1>4, <1>6
  <2>4. \A u \in Tasks : at[u] = "idle"
    BY <1>1, <1>6, StandsInLine DEF Placed, InLine
  <2> QED
    BY <1>1, <1>4, <1>5, <2>1, <2>2, <2>3, <2>4, Holding DEF Placed
<1>7. CASE lockLine # <<>>
  <2>1. /\ lockLine' = Append(lockLine, t) /\ at' = [at EXCEPT ![t] = "queued"]
        /\ event' = [event EXCEPT ![t] = e]
        /\ UNCHANGED <<data, undecided, delivered, dropped, refused, handedOut, again>>
    BY <1>4, <1>7
  <2>2. InLine
    BY <1>1 DEF Placed
  <2>3. /\ lockLine' \in Seq(Tasks) /\ Head(lockLine') = Head(lockLine)
        /\ \A u : u = t \/ Stands(u, lockLine) => Stands(u, lockLine')
    <3>1. lockLine \in Seq(Tasks)
      BY <2>2 DEF InLine
    <3> QED
      BY <1>7, <2>1, <3>1, LineGrows
  <2>4. InLine' /\ Somebody' = Somebody /\ Handing' /\ net' = net
    <3>1. InLine' /\ Somebody' = Somebody
      BY <1>4, <2>1, <2>2, <2>3 DEF InLine, Somebody
    <3>2. BufferedUpserts' = BufferedUpserts /\ net' = net
      BY <2>1 DEF BufferedUpserts, net
    <3> QED
      BY <1>1, <2>1, <3>1, <3>2 DEF Placed, Handing
  <2>5. /\ Tallied' /\ net' \in [1 .. MaxEvents -> Nat]
        /\ \A n \in 1 .. MaxEvents : n > em => net'[n] = 0
        /\ \A n \in 1 .. em : Right(place2[n], kinds2[n], Somebody', net'[n])
    BY <1>5, <2>1, <2>4 DEF Emitting, Tallied
  <2> QED
    BY <1>4, <1>5, <2>1, <2>4, <2>5, Waits
<1> QED
  BY <1>6, <1>7

LEMMA WokenMoves ==
    ASSUME Somewhere, NEW t \in Tasks, Woken(t)
    PROVE  Somewhere'
<1>1. PICK kinds, place : Placed(kinds, place)
  BY DEF Somewhere
<1>2. /\ at[t] = "queued" /\ Head(lockLine) = t /\ HoldLock(t, event[t], lockLine)
      /\ UNCHANGED <<emitted, tasks>>
  BY DEF Woken
<1>3. Emitting(kinds, place, emitted, t, event[t])
  BY <1>1, <1>2, Waiting
<1>4. PICK em, e, line : em = emitted /\ e = event[t] /\ line = lockLine
  OBVIOUS
<1>5. ~ Somebody
  BY <1>1, <1>2 DEF Placed, InLine, Somebody
<1>6. /\ line \in Seq(Tasks) /\ line # <<>> /\ Head(line) = t /\ Stands(t, line)
      /\ \A u \in Tasks \ {t} : at[u] # "idle" => Stands(u, line)
  <2>1. /\ lockLine \in Seq(Tasks) /\ Stands(t, lockLine)
        /\ \A u \in Tasks \ {t} : at[u] # "idle" => Stands(u, lockLine)
    BY <1>1, <1>2 DEF Placed, InLine
  <2> QED
    BY <1>2, <1>4, <2>1, StandsInLine
<1>7. /\ Emitting(kinds, place, em, t, e) /\ HoldLock(t, e, line)
      /\ emitted' = em /\ tasks' = tasks
  BY <1>2, <1>3, <1>4
<1> QED
  BY <1>1, <1>5, <1>6, <1>7, Holding DEF Placed

LEMMA HandedMoves ==
    ASSUME Somewhere, NEW t \in Tasks, Handed(t)
    PROVE  Somewhere'
<1>1. PICK kinds, place : Placed(kinds, place)
  BY DEF Somewhere
<1>2. PICK em, e, line, rest :
        em = emitted /\ e = event[t] /\ line = lockLine /\ rest = data \ BufferedUpserts
  OBVIOUS
<1>3. /\ at[t] = "handing" /\ Finish(t, e, rest, {}) /\ lockLine' = Tail(line)
      /\ emitted' = em /\ tasks' = tasks /\ handedOut' = {} /\ UNCHANGED <<refused, again>>
  BY <1>2 DEF Handed, flushVars
<1>4. Emitting(kinds, place, em, t, e)
  BY <1>1, <1>2, <1>3, Waiting
<1>5. /\ line \in Seq(Tasks) /\ line # <<>> /\ Head(line) = t
      /\ \A u \in Tasks \ {t} : at[u] # "idle" => Stands(u, line)
      /\ \A u \in Tasks \ {t} : at[u] \notin {"handing", "stuck"}
  BY <1>1, <1>2, <1>3, StandsInLine DEF Placed, InLine
<1>6. rest \subseteq data /\ {} \subseteq data
  BY <1>2
<1>7. \A x \in data : net[x.no] + (IF x \in {} THEN 1 ELSE 0) = IF x \in rest THEN 0 ELSE 1
  <2> SUFFICES ASSUME NEW x \in data PROVE net[x.no] = IF x \in rest THEN 0 ELSE 1
    OBVIOUS
  <2>1. Somebody
    BY <1>3 DEF Somebody
  <2>2. /\ x \in Events(kinds) /\ place[x.no] = "data"
        /\ x.no \in 1 .. emitted /\ kinds[x.no] = x.kind
    BY <1>1 DEF Placed, Kept, Numbered, Events
  <2>3. Right("data", x.kind, Somebody, net[x.no])
    BY <1>1, <2>2 DEF Placed, Counted
  <2>4. x \in rest <=> x.kind \notin Upserts
    BY <1>2 DEF BufferedUpserts
  <2> QED
    BY <2>1, <2>3, <2>4 DEF Right
<1> QED
  BY <1>3, <1>4, <1>5, <1>6, <1>7, Finished

(* A listener that emits waits for ever, with the event of its task. *)
LEMMA EmitFromListenerMoves ==
    ASSUME Somewhere, NEW t \in Tasks, EmitFromListener(t)
    PROVE  Somewhere'
<1>1. PICK kinds, place : Placed(kinds, place)
  BY DEF Somewhere
<1>2. /\ at[t] = "handing" /\ at' = [at EXCEPT ![t] = "stuck"] /\ lockLine' = Append(lockLine, t)
      /\ UNCHANGED <<data, undecided, tasks, event, emitted, delivered, dropped, refused,
                     handedOut, again>>
  BY DEF EmitFromListener, bufferVars, historyVars, flushVars
<1>3. /\ lockLine \in Seq(Tasks) /\ lockLine # <<>> /\ Stands(t, lockLine)
      /\ at \in [Tasks -> {"idle", "queued", "handing", "stuck"}]
  BY <1>1, <1>2, StandsInLine DEF Placed, InLine
<1>4. /\ lockLine' \in Seq(Tasks) /\ Head(lockLine') = Head(lockLine)
      /\ \A u : Stands(u, lockLine) => Stands(u, lockLine')
  BY <1>2, <1>3, LineGrows
<1>5. InLine' /\ Somebody' /\ Somebody
  BY <1>1, <1>2, <1>3, <1>4 DEF Placed, InLine, Somebody
<1>6. \A u \in Tasks : at'[u] = "idle" <=> at[u] = "idle"
  BY <1>2, <1>3
<1>7. Counted(kinds, place)' /\ Handing' /\ net' = net
  <2>1. BufferedUpserts' = BufferedUpserts /\ net' = net
    BY <1>2 DEF BufferedUpserts, net
  <2> QED
    BY <1>1, <1>2, <1>5, <2>1 DEF Placed, Counted, Right, Handing
<1> QED
  <2>1. Numbered(kinds, place)' /\ Kept(kinds, place)' /\ InTasks(kinds, place)'
    BY <1>1, <1>2, <1>7 DEF Placed, Numbered, Tallied, Kept, InTasks
  <2>2. Flying(kinds, place)'
    BY <1>1, <1>2, <1>6 DEF Placed, Flying
  <2> QED
    BY <1>5, <1>7, <2>1, <2>2 DEF Somewhere, Placed

(* A line that one has left. *)
LEMMA LineWithout ==
    ASSUME NEW line \in Seq(Tasks), NEW p \in 1 .. Len(line)
    PROVE  /\ Without(line, p) \in Seq(Tasks)
           /\ \A u : u # line[p] /\ Stands(u, line) => Stands(u, Without(line, p))
           /\ Head(line) # line[p] => Head(Without(line, p)) = Head(line)
           /\ p # 1 => Without(line, p) # <<>> /\ Head(Without(line, p)) = Head(line)
<1>1. /\ Len(line) \in Nat /\ line \in [1 .. Len(line) -> Tasks] /\ line # <<>>
      /\ Len(line) - 1 \in Nat
  <2>1. Len(line) \in Nat /\ line \in [1 .. Len(line) -> Tasks]
    BY LenProperties
  <2>2. Len(line) # 0
    BY <2>1
  <2> QED
    BY <2>1, <2>2, EmptySeq
<1>2. PICK k : k = Len(line) - 1
  OBVIOUS
<1>3. k \in Nat /\ \A i \in 1 .. k : (IF i < p THEN i ELSE i + 1) \in 1 .. Len(line)
  BY <1>1, <1>2
<1>4. Without(line, p) \in [1 .. k -> Tasks]
  BY <1>1, <1>2, <1>3 DEF Without
<1>5. Without(line, p) \in Seq(Tasks) /\ Len(Without(line, p)) = k
  BY <1>3, <1>4, SeqDef, LenProperties
<1>6. ASSUME NEW u, u # line[p], Stands(u, line) PROVE Stands(u, Without(line, p))
  <2>1. PICK i \in 1 .. Len(line) : line[i] = u
    BY <1>6 DEF Stands
  <2>2. PICK j : j = IF i < p THEN i ELSE i - 1
    OBVIOUS
  <2>3. i # p /\ j \in 1 .. k /\ i = IF j < p THEN j ELSE j + 1
    BY <1>1, <1>2, <1>3, <1>6, <2>1, <2>2
  <2>4. Without(line, p)[j] = line[i]
    BY <1>2, <2>3 DEF Without
  <2> QED
    BY <1>5, <2>1, <2>3, <2>4 DEF Stands
<1>7. p # 1 => Without(line, p) # <<>> /\ Head(Without(line, p)) = Head(line)
  <2> HAVE p # 1
  <2>1. 1 \in 1 .. k /\ 1 < p
    BY <1>1, <1>2, <1>3
  <2>2. Without(line, p)[1] = line[1]
    BY <1>2, <2>1 DEF Without
  <2> QED
    BY <1>1, <1>5, <2>1, <2>2, HeadTailProperties, EmptySeq
<1>8. Head(line) = line[1]
  BY <1>1, HeadTailProperties
<1> QED
  BY <1>5, <1>6, <1>7, <1>8

(* An exception ends emit(): the lock and the line are left, the event is  *)
(* refused, and upserts that were under way and are buffered still are to  *)
(* be given again.                                                         *)
LEMMA BreakOffMoves ==
    ASSUME Somewhere, NEW t \in Tasks, BreakOff(t)
    PROVE  Somewhere'
<1>1. PICK kinds, place : Placed(kinds, place)
  BY DEF Somewhere
<1>2. PICK em, e : em = emitted /\ e = event[t]
  OBVIOUS
<1>3. PICK given : given = (IF at[t] = "queued" THEN {} ELSE handedOut) \cap data
  OBVIOUS
<1>4. /\ at[t] # "idle" /\ GivenAgain(given) /\ refused' = refused \cup {e.no}
      /\ at' = [at EXCEPT ![t] = "idle"] /\ event' = [event EXCEPT ![t] = NoEvent]
      /\ \E p \in DOMAIN lockLine :
           /\ lockLine[p] = t
           /\ IF at[t] = "stuck" THEN p # 1 /\ lockLine' = Tail(Without(lockLine, p))
              ELSE lockLine' = Without(lockLine, p)
      /\ handedOut' = IF at[t] = "queued" THEN handedOut ELSE {}
      /\ emitted' = em /\ UNCHANGED <<data, undecided, dropped, tasks, delivered>>
  BY <1>2, <1>3 DEF BreakOff, Refuse
<1>5. Emitting(kinds, place, em, t, e)
  BY <1>1, <1>2, <1>4, Waiting
<1>6. /\ InLine /\ Handing /\ Kept(kinds, place) /\ DOMAIN kinds = 1 .. em
      /\ Tallied /\ net \in [1 .. MaxEvents -> Nat]
      /\ \A n \in 1 .. MaxEvents : n > em => net[n] = 0
      /\ \A n \in 1 .. em : Right(place[n], kinds[n], Somebody, net[n])
      /\ 1 .. em \subseteq 1 .. MaxEvents /\ em \in Nat
      /\ kinds \in [1 .. em -> Kinds]
  BY <1>1, <1>2, BoundsAssumption DEF Placed, Numbered, Counted
<1>7. /\ lockLine' \in Seq(Tasks)
      /\ \A u \in Tasks \ {t} : at[u] # "idle" => Stands(u, lockLine')
      /\ \A u \in Tasks \ {t} : at[u] \in {"handing", "stuck"} => Head(lockLine') = u
  <2>1. lockLine \in Seq(Tasks) /\ at \in [Tasks -> {"idle", "queued", "handing", "stuck"}]
    BY <1>6 DEF InLine
  <2>2. \A u \in Tasks \ {t} : at[u] # "idle" => Stands(u, lockLine)
    BY <1>6 DEF InLine
  <2>3. ASSUME NEW u \in Tasks \ {t}, at[u] \in {"handing", "stuck"}
        PROVE  lockLine # <<>> /\ Head(lockLine) = u
    BY <1>6, <2>1, <2>2, <2>3, StandsInLine DEF InLine
  <2>4. PICK p \in 1 .. Len(lockLine) :
          /\ lockLine[p] = t
          /\ IF at[t] = "stuck" THEN p # 1 /\ lockLine' = Tail(Without(lockLine, p))
             ELSE lockLine' = Without(lockLine, p)
    BY <1>4, <2>1, LenProperties
  <2>5. PICK rest : rest = Without(lockLine, p)
    OBVIOUS
  <2>6. /\ rest \in Seq(Tasks)
        /\ \A u : u # t /\ Stands(u, lockLine) => Stands(u, rest)
        /\ Head(lockLine) # t => Head(rest) = Head(lockLine)
        /\ p # 1 => rest # <<>> /\ Head(rest) = Head(lockLine)
    BY <2>1, <2>4, <2>5, LineWithout
  <2>7. CASE at[t] = "stuck"
    <3>1. Head(lockLine) = t
      BY <1>6, <2>7 DEF InLine
    <3>2. lockLine' = Tail(rest) /\ rest # <<>> /\ Head(rest) = t
      BY <2>4, <2>5, <2>6, <2>7, <3>1
    <3>3. /\ lockLine' \in Seq(Tasks)
          /\ \A u : u # t /\ Stands(u, rest) => Stands(u, lockLine')
      BY <2>6, <3>2, LineShrinks
    <3>4. \A u \in Tasks \ {t} : at[u] \notin {"handing", "stuck"}
      BY <2>3, <3>1
    <3> QED
      BY <2>2, <2>6, <3>3, <3>4
  <2>8. CASE at[t] # "stuck"
    <3>1. lockLine' = rest
      BY <2>4, <2>5, <2>8
    <3> QED
      BY <2>2, <2>3, <2>6, <3>1
  <2> QED
    BY <2>7, <2>8
<1>8. /\ Somebody' <=> at[t] = "queued" /\ Somebody
      /\ at[t] # "queued" => Somebody
      /\ Handing'
  <2>1. at \in [Tasks -> {"idle", "queued", "handing", "stuck"}]
    BY <1>6 DEF InLine
  <2>2. \A u \in Tasks \ {t} : at'[u] = at[u]
    BY <1>4, <2>1
  <2>3. at'[t] = "idle"
    BY <1>4, <2>1
  <2>4. at[t] # "queued" => at[t] \in {"handing", "stuck"}
    BY <1>4, <2>1
  <2>5. at[t] \in {"handing", "stuck"} => \A u \in Tasks \ {t} : at[u] \notin {"handing", "stuck"}
    BY <1>6 DEF InLine
  <2>6. Somebody' <=> at[t] = "queued" /\ Somebody
    BY <2>2, <2>3, <2>4, <2>5 DEF Somebody
  <2>7. at[t] # "queued" => Somebody
    BY <2>4 DEF Somebody
  <2>8. BufferedUpserts' = BufferedUpserts
    BY <1>4 DEF BufferedUpserts
  <2> QED
    BY <1>4, <1>6, <2>6, <2>7, <2>8 DEF Handing
<1>9. given = IF at[t] = "queued" THEN {} ELSE BufferedUpserts
  BY <1>3, <1>6, <1>8 DEF Handing
<1>10. given \in SUBSET Events(kinds)
  BY <1>3, <1>6 DEF Kept
<1>11. Tallied' /\ \A n \in 1 .. MaxEvents : net'[n] = net[n] - Times(given, n)
  BY <1>4, <1>6, Again
<1>12. ASSUME NEW n \in 1 .. em
       PROVE  Right(place[n], kinds[n], Somebody', net'[n])
  <2>1. PICK y \in Events(kinds) : y.no = n /\ kinds[n] = y.kind
    <3>1. n \in DOMAIN kinds /\ kinds[n] \in Kinds
      BY <1>6
    <3> QED
      BY <3>1, NumberTells
  <2>2. Times(given, n) = IF y \in given THEN 1 ELSE 0
    <3>1. (\E x \in given : x.no = n) <=> y \in given
      BY <1>10, <2>1, OneEvent
    <3> QED
      BY <3>1 DEF Times
  <2>3. y \in BufferedUpserts <=> place[n] = "data" /\ kinds[n] \in Upserts
    BY <1>6, <2>1 DEF BufferedUpserts, Kept
  <2>4. Right(place[n], kinds[n], Somebody, net[n]) /\ net'[n] = net[n] - Times(given, n)
    BY <1>6, <1>11
  <2> QED
    BY <1>8, <1>9, <2>2, <2>3, <2>4 DEF Right
<1>13. ASSUME NEW n \in 1 .. MaxEvents, n > em
       PROVE  net'[n] = 0
  <2>1. \A x \in given : x.no \in 1 .. em
    BY <1>6, <1>10, NumberTells
  <2>2. Times(given, n) = 0 /\ net[n] = 0 /\ net'[n] = net[n] - Times(given, n)
    BY <1>6, <1>11, <1>13, <2>1 DEF Times
  <2> QED
    BY <2>2
<1>14. net' \in [1 .. MaxEvents -> Nat]
  <2>1. \A n \in 1 .. MaxEvents : net'[n] \in Nat
    BY <1>6, <1>12, <1>13 DEF Right
  <2>2. net' = [n \in 1 .. MaxEvents |-> net'[n]]
    BY DEF net
  <2> QED
    BY <2>1, <2>2
<1> QED
  BY <1>4, <1>5, <1>7, <1>8, <1>11, <1>12, <1>13, <1>14, Refusing

LEMMA SomewhereHolds == Spec => []Somewhere
<1>1. Init => Somewhere
  <2> SUFFICES ASSUME Init PROVE Somewhere
    OBVIOUS
  <2>1. PICK none : none = [n \in 1 .. 0 |-> "flying"]
    OBVIOUS
  <2>2. none \in [1 .. 0 -> Kinds] /\ none \in [1 .. 0 -> Places] /\ Events(none) = {}
    BY <2>1 DEF Events
  <2>3. 0 \in 0 .. MaxEvents
    BY BoundsAssumption
  <2>4. Numbered(none, none) /\ Counted(none, none) /\ Kept(none, none) /\ Handing
    BY <2>2, <2>3 DEF Init, Numbered, Tallied, net, Counted, Kept, Handing, Somebody
  <2>5. InTasks(none, none)
    BY <2>2, EmptySeq DEF Init, InTasks
  <2>6. Flying(none, none) /\ InLine
    BY <2>2, EmptySeq DEF Init, Flying, InLine
  <2> QED
    BY <2>4, <2>5, <2>6 DEF Somewhere, Placed
<1>2. Somewhere /\ [Next]_vars => Somewhere'
  <2> SUFFICES ASSUME Somewhere, [Next]_vars PROVE Somewhere'
    OBVIOUS
  <2>1. ASSUME UNCHANGED <<emitted, delivered, again, data, undecided, dropped, refused,
                           handedOut, tasks, event, at, lockLine>>
        PROVE  Somewhere'
    BY <2>1, NothingMoves DEF Somewhere
  <2>2. CASE OpenSession
    BY <2>1, <2>2 DEF OpenSession, bufferVars, emitVars, historyVars
  <2>3. CASE CloseSession
    BY <2>3, FlushMoves DEF CloseSession, emitVars, historyVars
  <2>4. CASE LimitFires
    BY <2>4, FlushMoves DEF LimitFires, emitVars, historyVars
  <2>5. CASE PendingFlushFires
    BY <2>5, FlushMoves DEF PendingFlushFires, emitVars, historyVars
  <2>6. CASE SingleFires
    <3>1. CASE Flush(pendingFlush)
      BY <2>6, <3>1, FlushMoves DEF SingleFires, emitVars, historyVars
    <3>2. CASE UNCHANGED <<bufferVars, flushVars>>
      BY <2>1, <2>6, <3>2 DEF SingleFires, emitVars, historyVars, bufferVars, flushVars
    <3> QED
      BY <2>6, <3>1, <3>2 DEF SingleFires
  <2>7. CASE DeliverBatch
    BY <2>7, BatchMoves
  <2>8. ASSUME NEW t \in Tasks, BeginWork(t)
        PROVE  Somewhere'
    BY <2>1, <2>8 DEF BeginWork, bufferVars, emitVars, historyVars, flushVars
  <2>9. ASSUME NEW t \in Tasks, NEW raised \in BOOLEAN, EndWork(t, raised)
        PROVE  Somewhere'
    BY <2>1, <2>9 DEF EndWork, bufferVars, emitVars, historyVars
  <2>10. ASSUME NEW t \in Tasks, NEW k \in Kinds, Emit(t, k)
         PROVE  Somewhere'
    BY <2>10, EmitMoves
  <2>11. ASSUME NEW t \in Tasks, Woken(t) \/ Handed(t) \/ BreakOff(t) \/ EmitFromListener(t)
         PROVE  Somewhere'
    BY <2>11, WokenMoves, HandedMoves, BreakOffMoves, EmitFromListenerMoves
  <2>12. CASE UNCHANGED vars
    BY <2>1, <2>12 DEF vars, bufferVars, emitVars, historyVars, flushVars
  <2> QED
    BY <2>2, <2>3, <2>4, <2>5, <2>6, <2>7, <2>8, <2>9, <2>10, <2>11, <2>12 DEF Next
<1> QED
  BY <1>1, <1>2, PTL DEF Spec

(* What the copies of an event amount to. *)
LEMMA Copied ==
    ASSUME NEW kinds, NEW place, Placed(kinds, place), NEW n \in 1 .. emitted
    PROVE  /\ CopyCount(n) >= 1 \/ n \in refused
           /\ Copies(n).tasks + Copies(n).given <= 1 + again[n]
<1>1. /\ Numbered(kinds, place) /\ Counted(kinds, place) /\ Kept(kinds, place)
      /\ InTasks(kinds, place) /\ Flying(kinds, place)
  BY DEF Placed
<1>2. n \in 1 .. MaxEvents /\ n \in DOMAIN kinds /\ kinds[n] \in Kinds /\ n # 0
  BY <1>1, BoundsAssumption DEF Numbered
<1>3. PICK e \in Events(kinds) : e.no = n
  BY <1>2, HasEvent
<1> DEFINE Holds(es) == Cardinality({x \in es : x.no = n})
<1>4. \A es \in SUBSET Events(kinds) : Holds(es) = IF e \in es THEN 1 ELSE 0
  <2> SUFFICES ASSUME NEW es \in SUBSET Events(kinds) PROVE Holds(es) = IF e \in es THEN 1 ELSE 0
    OBVIOUS
  <2>1. (\E x \in es : x.no = n) <=> e \in es
    BY <1>3, OneEvent
  <2> QED
    BY <2>1, HowMany
<1> HIDE DEF Holds
<1>5. /\ data \in SUBSET Events(kinds) /\ undecided \in SUBSET Events(kinds)
      /\ dropped \in SUBSET Events(kinds)
  BY <1>1 DEF Kept
<1>6. Holds(data) + Holds(undecided) + Holds(dropped)
        = IF place[n] \in {"data", "undecided", "dropped"} THEN 1 ELSE 0
  BY <1>1, <1>3, <1>4, <1>5 DEF Kept
<1>7. Cardinality({t \in Tasks : event[t].no = n}) = IF place[n] = "flying" THEN 1 ELSE 0
  <2>1. \A t \in Tasks : event[t].no = n <=> event[t] = e
    BY <1>1, <1>2, <1>3, OneEvent DEF Flying, NoEvent
  <2>2. CASE place[n] = "flying"
    <3>1. PICK t \in Tasks : event[t] = e
      BY <1>1, <1>3, <2>2 DEF Flying
    <3>2. e # NoEvent
      BY <1>2, <1>3 DEF NoEvent
    <3>3. {u \in Tasks : event[u].no = n} = {t}
      BY <1>1, <2>1, <3>1, <3>2 DEF Flying
    <3> QED
      BY <2>2, <3>3, FS_Singleton
  <2>3. CASE place[n] # "flying"
    <3>1. {u \in Tasks : event[u].no = n} = {}
      BY <1>1, <1>3, <2>1, <2>3 DEF Flying
    <3> QED
      BY <2>3, <3>1, FS_EmptySet
  <2> QED
    BY <2>2, <2>3
<1>8. Cardinality({i \in DOMAIN tasks : Holds(tasks[i]) > 0}) = IF place[n] = "tasks" THEN 1 ELSE 0
  <2>1. /\ tasks \in Seq(SUBSET Events(kinds)) /\ DOMAIN tasks = 1 .. Len(tasks)
        /\ \A i \in DOMAIN tasks : tasks[i] \in SUBSET Events(kinds)
    BY <1>1, LenProperties, ElementOfSeq DEF InTasks
  <2>2. \A i \in DOMAIN tasks : Holds(tasks[i]) > 0 <=> e \in tasks[i]
    BY <1>4, <2>1
  <2>3. CASE place[n] = "tasks"
    <3>1. PICK i \in DOMAIN tasks : e \in tasks[i]
      BY <1>1, <1>3, <2>1, <2>3 DEF InTasks
    <3>2. {j \in DOMAIN tasks : Holds(tasks[j]) > 0} = {i}
      BY <1>1, <2>1, <2>2, <3>1 DEF InTasks
    <3> QED
      BY <2>3, <3>2, FS_Singleton
  <2>4. CASE place[n] # "tasks"
    <3>1. {j \in DOMAIN tasks : Holds(tasks[j]) > 0} = {}
      BY <1>1, <1>3, <2>1, <2>2, <2>4 DEF InTasks
    <3> QED
      BY <2>4, <3>1, FS_EmptySet
  <2> QED
    BY <2>3, <2>4
<1>9. /\ Right(place[n], kinds[n], Somebody, net[n]) /\ place[n] \in Places
      /\ delivered[n] \in Nat /\ again[n] \in Nat /\ net[n] = delivered[n] - again[n]
  BY <1>1, <1>2 DEF Counted, Numbered, Tallied, net
<1>10. PICK flying, held, batches :
         /\ flying = Cardinality({t \in Tasks : event[t].no = n})
         /\ held = Holds(data) + Holds(undecided) + Holds(dropped)
         /\ batches = Cardinality({i \in DOMAIN tasks : Holds(tasks[i]) > 0})
  OBVIOUS
<1>11. Copies(n) = [flying |-> flying, held |-> held, tasks |-> batches, given |-> delivered[n]]
  BY <1>10 DEF Copies, Holds
<1>12. /\ CopyCount(n) = flying + held + batches + delivered[n]
       /\ Copies(n).tasks + Copies(n).given = batches + delivered[n]
  BY <1>11 DEF CopyCount
<1>13. place[n] = "refused" => n \in refused
  BY <1>1, <1>3 DEF Kept
<1>14. PICK p : p = place[n]
  OBVIOUS
<1>15. /\ flying = IF p = "flying" THEN 1 ELSE 0
       /\ held = IF p \in {"data", "undecided", "dropped"} THEN 1 ELSE 0
       /\ batches = IF p = "tasks" THEN 1 ELSE 0
  BY <1>6, <1>7, <1>8, <1>10, <1>14
<1>16. /\ p = "given" => delivered[n] = 1 + again[n]
       /\ p # "given" => delivered[n] <= again[n] + 1
       /\ p = "tasks" => delivered[n] = again[n]
  BY <1>9, <1>14 DEF Right
<1> QED
  BY <1>9, <1>12, <1>13, <1>14, <1>15, <1>16 DEF Places

(* No event is lost but those whose own emit() raised, and each is given   *)
(* once, and once more only for a hand-out of it that a listener broke off *)
(* or a flush overlapped (event_buffer.py 172-192).                        *)
THEOREM EventsDeliveredOnce == Spec => []DeliveredOnce
<1>1. Somewhere => DeliveredOnce
  BY Copied DEF Somewhere, DeliveredOnce
<1> QED
  BY <1>1, SomewhereHolds, PTL
=============================================================================
