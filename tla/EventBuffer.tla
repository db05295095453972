----------------------------- MODULE EventBuffer ------------------------------
(***************************************************************************)
(* utils/event_buffer.py: BaileysBufferableEventEmitter, the bus through   *)
(* which every component of the client publishes.  While it buffers, the   *)
(* events a user's listeners see are collected and consolidated; a flush   *)
(* hands them to the listeners in tasks of their own.                      *)
(*                                                                         *)
(* Three timers flush besides the callers of flush(): the 30 s limit armed *)
(* by the first buffer(), the 0.1 s timer a buffered function arms when it *)
(* ends as the last one (_flush_pending_timeout), and the 0.1 s timer of a *)
(* buffered function that ran alone (_maybe_flush_single).  Any armed      *)
(* timer may fire at any time: the model keeps their order free.           *)
(*                                                                         *)
(* An event is its number in the order of emission and its kind; payloads  *)
(* and the way events consolidate are left out, except that a chat update  *)
(* with an undecided condition stays behind at a flush.  An event counts   *)
(* as delivered once its listeners are being called; a listener that       *)
(* raises keeps it from the later ones.  Code between two awaits that      *)
(* suspend is one step.                                                    *)
(***************************************************************************)
EXTENDS Naturals, Sequences, FiniteSets

CONSTANTS
    Tasks,              \* tasks that emit and run buffered functions
    MaxEvents,          \* bound: events emitted
    MaxBuffers,         \* bound: sessions opened by a bare buffer()
    MaxWork,            \* bound: calls of buffered functions
    HandlersSuspend,    \* listeners may await something
    HandlersEmit        \* listeners may emit

ASSUME BoundsAssumption ==
    /\ MaxEvents \in Nat /\ MaxBuffers \in Nat /\ MaxWork \in Nat
    /\ HandlersSuspend \in BOOLEAN /\ HandlersEmit \in BOOLEAN
ASSUME TasksFinite == IsFiniteSet(Tasks)

Upserts == {"notify", "append"}                 \* messages.upsert by type
Bufferable == Upserts \cup {"chat", "conditional"}
Kinds == Bufferable \cup {"unbuffered"}         \* connection.update, node, ...
NoEvent == [no |-> 0, kind |-> "none"]

VARIABLES
    buffering,      \* _is_buffering
    count,          \* _buffer_count
    limitArmed,     \* _buffer_timeout is armed
    pendingFlush,   \* _flush_pending_timeout: None, armed, or a handle that fired
    singles,        \* armed _maybe_flush_single timers
    data,           \* _data: the buffered events
    undecided,      \* _data["chatUpdates"] with a condition still undecided
    tasks,          \* created delivery tasks, one batch of events per flush
    lockLine,       \* _lock: its holder and then its waiters, in order
    at,             \* where each task stands in emit()
    event,          \* the event each task emits
    working,        \* tasks inside a buffered function
    emitted,        \* history: events emitted so far; MaxEvents bounds it
    delivered,      \* history: how often each event reached its listeners
    dropped,        \* history: conditional updates whose condition failed
    refused,        \* history: events whose emit() raised before taking them
    leftBehind,     \* history: undecided updates that a flush put back
    handedOut,      \* history: the upserts being handed out under the lock
    again,          \* history: per event, hand-outs of it that a listener
                    \* broke off and flushes that took it during one
    bare,           \* history: bare buffer() calls since the last flush
    outlived,       \* history: buffered functions that a flush left running
    stray,          \* history: their endings in the present session
    opened, worked  \* counters for the bounds

sessionVars == <<buffering, count, limitArmed, pendingFlush, singles>>
bufferVars == <<data, undecided, tasks>>
emitVars == <<lockLine, at, event>>
historyVars == <<emitted, delivered, dropped, refused>>
sessionHistory == <<leftBehind, bare, outlived, stray>>
flushVars == <<sessionHistory, again>>
boundVars == <<opened, worked>>
vars == <<sessionVars, bufferVars, emitVars, working, historyVars, handedOut,
          flushVars, boundVars>>

Init ==
    /\ buffering = FALSE /\ count = 0
    /\ limitArmed = FALSE /\ pendingFlush = "none" /\ singles = 0
    /\ data = {} /\ undecided = {} /\ tasks = <<>>
    /\ lockLine = <<>>
    /\ at = [t \in Tasks |-> "idle"]
    /\ event = [t \in Tasks |-> NoEvent]
    /\ working = {}
    /\ emitted = 0
    /\ delivered = [n \in 1 .. MaxEvents |-> 0]
    /\ dropped = {} /\ refused = {} /\ leftBehind = {} /\ handedOut = {}
    /\ again = [n \in 1 .. MaxEvents |-> 0]
    /\ bare = 0 /\ outlived = {} /\ stray = 0 /\ opened = 0 /\ worked = 0

-----------------------------------------------------------------------------
(* Mutant: buffer() forgets the limit. *)
BufferUnarmed ==
    /\ buffering' = TRUE
    /\ count' = IF buffering THEN count + 1 ELSE 1
    /\ UNCHANGED limitArmed

(* buffer(): the first call of a session arms the 30 s limit. *)
Buffer ==
    /\ buffering' = TRUE
    /\ limitArmed' = TRUE
    /\ count' = IF buffering THEN count + 1 ELSE 1

(* What is given once more for each of es, which was given already. *)
GivenAgain(es) ==
    again' = [n \in 1 .. MaxEvents |->
                IF \E e \in es : e.no = n THEN again[n] + 1 ELSE again[n]]

(* What the histories note of a flush. *)
NoteFlush ==
    /\ leftBehind' = leftBehind \cup undecided
    /\ GivenAgain(handedOut \cap data)
    /\ bare' = 0 /\ stray' = 0
    /\ outlived' = working

(* Mutant: the nesting count is kept. *)
FlushKeepsCount(handle) ==
    IF ~ buffering
    THEN /\ pendingFlush' = handle
         /\ UNCHANGED <<buffering, count, limitArmed, data, undecided, tasks, flushVars>>
    ELSE /\ buffering' = FALSE /\ limitArmed' = FALSE /\ pendingFlush' = "none"
         /\ tasks' = IF data = {} THEN tasks ELSE Append(tasks, data)
         /\ data' = {} /\ NoteFlush
         /\ UNCHANGED <<count, undecided>>

(* flush(): a no-op outside a session, and it then leaves the handle of a  *)
(* pending flush as it is.  Otherwise it cancels both timers and creates   *)
(* the delivery tasks; undecided updates are put back.                     *)
Flush(handle) ==
    IF ~ buffering
    THEN /\ pendingFlush' = handle
         /\ UNCHANGED <<buffering, count, limitArmed, data, undecided, tasks, flushVars>>
    ELSE /\ buffering' = FALSE
         /\ count' = 0
         /\ limitArmed' = FALSE
         /\ pendingFlush' = "none"
         /\ tasks' = IF data = {} THEN tasks ELSE Append(tasks, data)
         /\ data' = {}
         /\ UNCHANGED undecided
         /\ NoteFlush

(* A bare buffer(), as connect() and the processing of a stanza call it. *)
OpenSession ==
    /\ opened < MaxBuffers
    /\ opened' = opened + 1
    /\ bare' = bare + 1
    /\ Buffer
    /\ UNCHANGED <<pendingFlush, singles, bufferVars, emitVars, working, historyVars,
                   handedOut, leftBehind, again, outlived, stray, worked>>

(* flush() called by the end of the offline phase or of a stanza. *)
CloseSession ==
    /\ buffering
    /\ Flush(pendingFlush)
    /\ UNCHANGED <<singles, emitVars, working, historyVars, handedOut, boundVars>>

LimitFires ==
    /\ limitArmed
    /\ Flush(pendingFlush)
    /\ UNCHANGED <<singles, emitVars, working, historyVars, handedOut, boundVars>>

PendingFlushFires ==
    /\ pendingFlush = "armed"
    /\ Flush("fired")
    /\ UNCHANGED <<singles, emitVars, working, historyVars, handedOut, boundVars>>

SingleFires ==
    /\ singles > 0
    /\ singles' = singles - 1
    /\ IF buffering /\ count = 1
       THEN Flush(pendingFlush)
       ELSE UNCHANGED <<buffering, count, limitArmed, pendingFlush, bufferVars, flushVars>>
    /\ UNCHANGED <<emitVars, working, historyVars, handedOut, boundVars>>

(***************************************************************************)
(* create_buffered_function: the wrapped work buffers for its duration.    *)
(***************************************************************************)
BeginWork(t) ==
    /\ t \notin working /\ at[t] = "idle"
    /\ worked < MaxWork
    /\ worked' = worked + 1
    /\ working' = working \cup {t}
    /\ Buffer
    /\ UNCHANGED <<pendingFlush, singles, bufferVars, emitVars, historyVars,
                   handedOut, flushVars, opened>>

(* The work ends; one that raises arms no single-function timer. *)
EndWork(t, raised) ==
    /\ t \in working /\ at[t] = "idle"
    /\ working' = working \ {t}
    /\ singles' = IF ~ raised /\ count = 1 THEN singles + 1 ELSE singles
    /\ count' = IF count = 0 THEN 0 ELSE count - 1
    /\ pendingFlush' = IF count <= 1 /\ pendingFlush = "none" THEN "armed" ELSE pendingFlush
    /\ outlived' = outlived \ {t}
    /\ stray' = IF buffering /\ t \in outlived THEN stray + 1 ELSE stray
    /\ UNCHANGED <<buffering, limitArmed, bufferVars, emitVars, historyVars, handedOut,
                   leftBehind, again, bare, boundVars>>

(***************************************************************************)
(* emit(): the lock orders the emitters.  A messages.upsert of another     *)
(* type than the buffered ones first hands those to the listeners, under   *)
(* the lock; then the event is buffered or, outside the lock, delivered.   *)
(***************************************************************************)
Deliver(es) ==
    delivered' = [n \in 1 .. MaxEvents |->
                    delivered[n] + Cardinality({e \in es : e.no = n})]

BufferedUpserts == {e \in data : e.kind \in Upserts}
Mismatch(e) ==
    /\ e.kind \in Upserts
    /\ \E u \in BufferedUpserts : u.kind # e.kind

(* _append of e to the buffered events in base.  A chat event decides the  *)
(* conditions that wait for its chat; a conditional update is met, kept    *)
(* undecided, or not taken.                                                *)
AppendTo(base, e) ==
    \/ /\ e.kind \in Upserts
       /\ data' = base \cup {e}
       /\ UNCHANGED <<undecided, dropped>>
    \/ /\ e.kind = "chat"
       /\ \E met \in SUBSET undecided : \E failed \in SUBSET (undecided \ met) :
            /\ data' = base \cup {e} \cup met
            /\ undecided' = undecided \ (met \cup failed)
            /\ dropped' = dropped \cup failed
    \/ /\ e.kind = "conditional"
       /\ \/ data' = base \cup {e} /\ UNCHANGED <<undecided, dropped>>
          \/ data' = base /\ undecided' = undecided \cup {e} /\ UNCHANGED dropped
          \/ data' = base /\ dropped' = dropped \cup {e} /\ UNCHANGED undecided

(* The rest of emit() for t's event e with base in the buffer: e is        *)
(* buffered, or the lock is left and e goes to the listeners with given.   *)
Finish(t, e, base, given) ==
    /\ IF buffering /\ e.kind \in Bufferable
       THEN AppendTo(base, e) /\ Deliver(given)
       ELSE data' = base /\ Deliver(given \cup {e}) /\ UNCHANGED <<undecided, dropped>>
    /\ at' = [at EXCEPT ![t] = "idle"]
    /\ event' = [event EXCEPT ![t] = NoEvent]

(* An exception leaves emit() with t's event e not taken.  The upserts in  *)
(* given were being handed out, and those still buffered stay buffered.    *)
Refuse(t, e, given) ==
    /\ refused' = refused \cup {e.no}
    /\ GivenAgain(given \cap data)
    /\ at' = [at EXCEPT ![t] = "idle"]
    /\ event' = [event EXCEPT ![t] = NoEvent]
    /\ UNCHANGED <<data, undecided, dropped>>

(* emit() from the moment t has the lock up to its next suspension; line   *)
(* is the lock's line with t at its head.                                  *)
HoldLock(t, e, line) ==
    \/ /\ ~ Mismatch(e)
       /\ Finish(t, e, data, {})
       /\ lockLine' = Tail(line)
       /\ UNCHANGED <<refused, handedOut, again>>
    \/ /\ Mismatch(e)
       /\ Finish(t, e, data \ BufferedUpserts, BufferedUpserts)
       /\ lockLine' = Tail(line)
       /\ UNCHANGED <<refused, handedOut, again>>
    \/ /\ Mismatch(e)                               \* a listener raises
       /\ Deliver(BufferedUpserts)
       /\ Refuse(t, e, BufferedUpserts)
       /\ lockLine' = Tail(line)
       /\ UNCHANGED handedOut
    \/ /\ Mismatch(e) /\ HandlersSuspend
       /\ Deliver(BufferedUpserts)
       /\ handedOut' = BufferedUpserts
       /\ at' = [at EXCEPT ![t] = "handing"]
       /\ event' = [event EXCEPT ![t] = e]
       /\ lockLine' = line
       /\ UNCHANGED <<data, undecided, dropped, refused, again>>

(* A free lock is taken without a suspension. *)
Emit(t, k) ==
    LET e == [no |-> emitted + 1, kind |-> k] IN
    /\ at[t] = "idle"
    /\ emitted < MaxEvents
    /\ emitted' = emitted + 1
    /\ IF lockLine = <<>>
       THEN HoldLock(t, e, <<t>>)
       ELSE /\ lockLine' = Append(lockLine, t)
            /\ at' = [at EXCEPT ![t] = "queued"]
            /\ event' = [event EXCEPT ![t] = e]
            /\ UNCHANGED <<data, undecided, delivered, dropped, refused, handedOut, again>>
    /\ UNCHANGED <<sessionVars, tasks, working, sessionHistory, boundVars>>

(* The holder before t released the lock and woke it. *)
Woken(t) ==
    /\ at[t] = "queued" /\ Head(lockLine) = t
    /\ HoldLock(t, event[t], lockLine)
    /\ UNCHANGED <<sessionVars, tasks, working, emitted, sessionHistory, boundVars>>

(* Mutants of what follows the wait: the buffer is replaced; buffering is  *)
(* not looked at again.                                                    *)
HandedClears(t) ==
    /\ at[t] = "handing"
    /\ Finish(t, event[t], {}, {})
    /\ handedOut' = {}
    /\ lockLine' = Tail(lockLine)
    /\ UNCHANGED <<sessionVars, tasks, working, emitted, refused, flushVars, boundVars>>
HandedStale(t) ==
    /\ at[t] = "handing"
    /\ data' = (data \ BufferedUpserts) \cup {event[t]}
    /\ at' = [at EXCEPT ![t] = "idle"]
    /\ event' = [event EXCEPT ![t] = NoEvent]
    /\ handedOut' = {}
    /\ lockLine' = Tail(lockLine)
    /\ UNCHANGED <<sessionVars, undecided, tasks, working, historyVars, flushVars, boundVars>>

(* The listeners return: the upserts buffered now are cleared, which a     *)
(* flush during the wait has already handed to a delivery task.            *)
Handed(t) ==
    /\ at[t] = "handing"
    /\ Finish(t, event[t], data \ BufferedUpserts, {})
    /\ handedOut' = {}
    /\ lockLine' = Tail(lockLine)
    /\ UNCHANGED <<sessionVars, tasks, working, emitted, refused, flushVars, boundVars>>

(* A listener that is handed events under the lock emits: its task waits   *)
(* for the lock it holds itself.                                           *)
EmitFromListener(t) ==
    /\ HandlersEmit
    /\ at[t] = "handing"
    /\ at' = [at EXCEPT ![t] = "stuck"]
    /\ lockLine' = Append(lockLine, t)
    /\ UNCHANGED <<sessionVars, bufferVars, event, working, historyVars, handedOut,
                   flushVars, boundVars>>

(* A line without the one at place p. *)
Without(line, p) == [i \in 1 .. Len(line) - 1 |-> line[IF i < p THEN i ELSE i + 1]]

(* A listener that was awaited under the lock raises, or the emitter is    *)
(* cancelled there or in the line for the lock.                            *)
BreakOff(t) ==
    /\ at[t] # "idle"
    /\ Refuse(t, event[t], IF at[t] = "queued" THEN {} ELSE handedOut)
    /\ handedOut' = IF at[t] = "queued" THEN handedOut ELSE {}
    /\ \E p \in DOMAIN lockLine :
         /\ lockLine[p] = t
         /\ IF at[t] = "stuck"
            THEN p # 1 /\ lockLine' = Tail(Without(lockLine, p))
            ELSE lockLine' = Without(lockLine, p)
    /\ UNCHANGED <<sessionVars, tasks, working, emitted, delivered, sessionHistory, boundVars>>

(* The delivery tasks of a flush start in the order they were created. *)
DeliverBatch ==
    /\ tasks # <<>>
    /\ Deliver(Head(tasks))
    /\ tasks' = Tail(tasks)
    /\ UNCHANGED <<sessionVars, data, undecided, emitVars, working, emitted,
                   dropped, refused, handedOut, flushVars, boundVars>>

Next ==
    \/ OpenSession \/ CloseSession
    \/ LimitFires \/ PendingFlushFires \/ SingleFires
    \/ DeliverBatch
    \/ \E t \in Tasks :
         \/ BeginWork(t)
         \/ \E raised \in BOOLEAN : EndWork(t, raised)
         \/ \E k \in Kinds : Emit(t, k)
         \/ Woken(t) \/ Handed(t) \/ BreakOff(t) \/ EmitFromListener(t)

(***************************************************************************)
(* Armed timers fire, created tasks and woken tasks run, and listeners     *)
(* that await return.  No caller is obliged to flush or to end its work.   *)
(***************************************************************************)
Fairness ==
    /\ WF_vars(LimitFires) /\ WF_vars(PendingFlushFires) /\ WF_vars(SingleFires)
    /\ WF_vars(DeliverBatch)
    /\ \A t \in Tasks : WF_vars(Woken(t)) /\ WF_vars(Handed(t))

Spec == Init /\ [][Next]_vars
FairSpec == Spec /\ Fairness

-----------------------------------------------------------------------------
(* A session always has its 30 s limit armed, and outside a session        *)
(* nothing is held but the undecided chat updates that a flush put back    *)
(* (126-141), however flushes, timers and the endings of buffered          *)
(* functions interleave (event_buffer.py 92-143): every other buffered     *)
(* event has a deadline.                                                   *)
HeldOnlyInSession ==
    /\ buffering <=> limitArmed
    /\ ~ buffering => data = {} /\ undecided \subseteq leftBehind

(* The nesting count counts the users of the session, the functions that   *)
(* began in it and the bare calls: a flush in the middle of a function     *)
(* resets it, and the count neither carries over into the next session     *)
(* (112-113) nor falls behind, except by the endings of functions the      *)
(* flush left running, each of which takes one off a session it never      *)
(* was a user of (161).                                                    *)
Users == Cardinality(working \ outlived) + bare
CountCoversUsers == count <= Users /\ Users <= count + stray

(* Where the copies of an emitted event are. *)
Copies(n) ==
    LET Holds(es) == Cardinality({e \in es : e.no = n}) IN
    [flying |-> Cardinality({t \in Tasks : event[t].no = n}),
     held |-> Holds(data) + Holds(undecided) + Holds(dropped),
     tasks |-> Cardinality({i \in DOMAIN tasks : Holds(tasks[i]) > 0}),
     given |-> delivered[n]]
CopyCount(n) ==
    Copies(n).flying + Copies(n).held + Copies(n).tasks + Copies(n).given

(* No emitted event is lost unless its own emit() raised: it is with its   *)
(* emitter, in the buffer, in a delivery task, or was delivered, even when *)
(* a flush replaces the buffer while emit() waits for listeners it handed  *)
(* upserts to.  An event is given once, and once more only for each        *)
(* hand-out of it that a listener broke off while it was buffered still    *)
(* (190-192 are not reached) and for each flush that took it during one.   *)
DeliveredOnce ==
    \A n \in 1 .. emitted :
        /\ CopyCount(n) >= 1 \/ n \in refused
        /\ Copies(n).tasks + Copies(n).given <= 1 + again[n]

(* Whatever is buffered is delivered in the end, also when the lock is     *)
(* dead because a listener emitted: no timer takes the lock.               *)
BufferedDelivered ==
    \A n \in 1 .. MaxEvents :
        (\E e \in data : e.no = n) ~> delivered[n] > 0
=============================================================================
