------------------------------ MODULE InitialSync ------------------------------
(***************************************************************************)
(* socket/chats.py: the initial sync of a login, with the event buffer it  *)
(* keeps closed meanwhile (utils/event_buffer.py, whose data EventData     *)
(* models) and the handlers of the messages that drive it                  *)
(* (utils/process_message.py).                                             *)
(*                                                                         *)
(* After the offline messages the client buffers its events and waits for  *)
(* the phone's history: at most 20 s for the first of it, then until the   *)
(* app state is synced.  Each message has a handler, and the handler of a  *)
(* history two tasks: one processes the history, one syncs the app state.  *)
(*                                                                         *)
(* The listeners do not suspend, and the session of the buffer is the one  *)
(* the sync opens: EventBuffer models how sessions nest and who flushes,   *)
(* and here any other flush may come at any time.  Code between two awaits *)
(* that suspend is one step.                                               *)
(***************************************************************************)
EXTENDS EventData

CONSTANTS
    Handlers,       \* messages of the phone that drive the sync
    EarlierViews,   \* what the listeners may know from an earlier login
    MaxEvents       \* bound: events emitted

ASSUME BoundsAssumption == MaxEvents \in Nat
ASSUME ViewsAssumption ==
    EarlierViews \subseteq [messages : [Messages -> {NoEntry} \cup Nat], unread : BOOLEAN]

VARIABLES
    sync,           \* _sync_state
    timer,          \* _awaiting_sync_timeout is armed
    flushSoon,      \* a flush is due in the next round of the loop
    process,        \* process_message of each handler
    appSync,        \* do_app_state_sync of each handler
    buffering,      \* _is_buffering
    data,           \* _data
    cache,          \* _history_cache
    deliveries,     \* delivery tasks created and not run: their events
    view,           \* what the listeners know
    direct,         \* history: what they would know had nothing been buffered
    excused,        \* history: what consolidation is known to tell otherwise
    emitted         \* history: events emitted

syncVars == <<sync, timer, flushSoon>>
taskVars == <<process, appSync>>
bufferVars == <<buffering, data, deliveries>>
emitVars == <<data, cache, view, direct, excused, emitted>>
initialSyncVars == <<syncVars, taskVars, bufferVars, cache, view, direct, excused, emitted>>

SyncInit ==
    /\ sync = "Connecting" /\ timer = FALSE /\ flushSoon = FALSE
    /\ process = [h \in Handlers |-> "none"]
    /\ appSync = [h \in Handlers |-> "none"]
    /\ buffering = FALSE /\ data = EmptyData /\ cache = {} /\ deliveries = <<>>
    /\ view \in EarlierViews
    /\ direct = view /\ excused = {}
    /\ emitted = 0

-----------------------------------------------------------------------------
(* flush() *)
Flush ==
    IF buffering
    THEN /\ buffering' = FALSE
         /\ deliveries' = deliveries \o Consolidate(data)
         /\ data' = KeptBack(data)
    ELSE UNCHANGED bufferVars

(* flush() called by another component, or by the limit of the session. *)
CloseSession ==
    /\ buffering
    /\ Flush
    /\ UNCHANGED <<syncVars, taskVars, cache, view, direct, excused, emitted>>

(* _emit_local in the task of the oldest event handed out. *)
Deliver ==
    /\ deliveries # <<>>
    /\ view' = Apply(view, Head(deliveries))
    /\ deliveries' = Tail(deliveries)
    /\ UNCHANGED <<syncVars, taskVars, buffering, data, cache, direct, excused,
                   emitted>>

-----------------------------------------------------------------------------
(* What consolidation is known to tell otherwise than the events one by    *)
(* one: of messages,                                                       *)
Pending(m) == \E i \in DOMAIN deliveries : m \in deliveries[i].messages
ReappearsDeleted(e) ==      \* a deletion is handed out after what follows it
    {m \in e.messages : /\ buffering /\ m \in data.deletes
                        /\ e.event \in {"messages.upsert", "messaging-history.set"}}
RepeatedHistory(e) ==       \* deleted since an earlier history
    {m \in e.messages : /\ e.event = "messaging-history.set"
                        /\ buffering /\ m \in cache
                        /\ direct.messages[m] = NoEntry}
HistoryAfter(e) ==          \* what was buffered before it is handed out after it
    {m \in e.messages : /\ buffering /\ e.event = "messaging-history.set"
                        /\ data.upserts[m] # NoEntry \/ data.updates[m] # NoEntry}
Overtaken(e, given) ==      \* told before what was handed out earlier
    {m \in Messages : /\ Pending(m)
                      /\ m \in given.messages \/ (~ buffering /\ m \in e.messages)}

(* and of the chat: a count of zero added to one of new messages, a mark   *)
(* that an update without a count removes, an upsert handed out after the  *)
(* history that followed it,                                               *)
CountsDiffer(a, b) == (a > 0 /\ b = 0) \/ (a = Marked /\ b = NoField)
Merged(d, e) ==
    CASE e.event = "chats.update" -> CountsDiffer(d[UpdateField(d)], e.count)
      [] e.event = "chats.upsert" ->
            \/ CountsDiffer(d[UpsertField(d)], e.count)
            \/ CountsDiffer(d.chatUpdate, e.count)
      [] e.event = "messaging-history.set" ->
            d.chatUpsert # NoEntry \/ CountsDiffer(d.chatUpdate, e.count)
      [] OTHER -> FALSE

(* an undecided condition, a deletion that a later event without a count   *)
(* cancels or that a history does not, a history the cache knows, the last *)
(* unread message read in the session.                                     *)
ChatDiffers(d, e) ==
    \/ Merged(d, e)
    \/ e.event = "chats.update" /\ Condition(d, e.condition) = "undecided"
    \/ /\ d.chatDelete
       /\ \/ e.event \in {"chats.update", "chats.upsert"} /\ e.count = NoField
          \/ e.event = "chats.update" /\ Condition(d, e.condition) # "true"
          \/ e.event = "messaging-history.set"
    \/ e.event = "messaging-history.set" /\ "chat" \in cache
    \/ e.event = "messages.update" /\ e.type = "read" /\ d[CountedField(d)] = 1

OfTheChat == {"chats.update", "chats.upsert", "chats.delete", "messaging-history.set"}
ChatExcused(e) ==
    \/ buffering /\ ChatDiffers(data, e)
    \/ ~ buffering /\ e.condition = "older"
    \/ /\ ~ buffering /\ e.event \in OfTheChat
       /\ \E i \in DOMAIN deliveries : deliveries[i].event \in OfTheChat

-----------------------------------------------------------------------------
(* emit(): upserts of another type than the buffered ones hand those out   *)
(* first; then the event is buffered or told at once.                      *)
HandedOut(e) ==
    IF e.event = "messages.upsert" /\ data.type # e.type
    THEN Entries("messages.upsert", data.upserts)
    ELSE About("messages.upsert", {}, 0)

Emit(e) ==
    LET given == HandedOut(e)
        told == Apply(view, given)
        left == [data EXCEPT !.upserts = [m \in Messages |->
                                            IF m \in given.messages THEN NoEntry ELSE @[m]]]
    IN /\ emitted < MaxEvents
       /\ emitted' = emitted + 1
       /\ view' = IF buffering THEN told ELSE Apply(told, e)
       /\ data' = IF buffering THEN AppendEvent(left, cache, e) ELSE left
       /\ cache' = IF buffering THEN CacheWith(cache, e) ELSE cache
       /\ direct' = IF e.condition = "older" THEN direct ELSE Apply(direct, e)
       /\ excused' = excused \cup ReappearsDeleted(e) \cup RepeatedHistory(e)
                        \cup HistoryAfter(e) \cup Overtaken(e, given)
                        \cup (IF ChatExcused(e) THEN {"chat"} ELSE {})

(* The events the stanzas of the server give rise to at any time: messages,*)
(* receipts, deletions and what the other devices do to the chat.          *)
OfType(event, m, value, type) == [About(event, {m}, value) EXCEPT !.type = type]
Events ==
    {OfType("messages.upsert", m, 0, t) : m \in Messages, t \in {"notify", "append"}}
    \cup {OfType("messages.update", m, emitted + 1, t) :
              m \in Messages, t \in {"read", "other"}}
    \cup {About("messages.delete", {m}, NoEntry) : m \in Messages}
    \cup {OfChat("chats.update", c) : c \in {1, 0, Marked, NoField}}
    \cup {OfChat("chats.upsert", NoField), OfChat("chats.delete", NoField)}

EmitEvent ==
    /\ \E e \in Events : Emit(e)
    /\ UNCHANGED <<syncVars, taskVars, buffering, deliveries>>

-----------------------------------------------------------------------------
(* _handle_connection_update: the offline messages are done.  Without a    *)
(* history to wait for the client is online and the buffer is flushed in   *)
(* the next round of the loop.                                             *)
ReceivedPendingNotifications(willSyncHistory) ==
    /\ sync = "Connecting"
    /\ buffering' = TRUE
    /\ IF willSyncHistory
       THEN sync' = "AwaitingInitialSync" /\ timer' = TRUE /\ UNCHANGED flushSoon
       ELSE sync' = "Online" /\ flushSoon' = TRUE /\ UNCHANGED timer
    /\ UNCHANGED <<taskVars, data, deliveries, cache, view, direct, excused,
                   emitted>>

FlushSoon ==
    /\ flushSoon
    /\ flushSoon' = FALSE
    /\ Flush
    /\ UNCHANGED <<sync, timer, taskVars, cache, view, direct, excused, emitted>>

SyncTimeout ==
    /\ timer
    /\ timer' = FALSE
    /\ IF sync = "AwaitingInitialSync"
       THEN sync' = "Online" /\ Flush
       ELSE UNCHANGED <<sync, bufferVars>>
    /\ UNCHANGED <<flushSoon, taskVars, cache, view, direct, excused, emitted>>

(* _upsert_message_impl of a history notification; wanted says whether the *)
(* client processes a history of its kind.                                 *)
HistoryArrives(h, wanted) ==
    /\ process[h] = "none"
    /\ process' = [process EXCEPT ![h] = IF wanted THEN "history" ELSE "done"]
    /\ appSync' = [appSync EXCEPT ![h] = IF wanted THEN "created" ELSE "done"]
    /\ IF sync = "AwaitingInitialSync"
       THEN /\ timer' = FALSE
            /\ IF wanted THEN sync' = "Syncing" /\ UNCHANGED bufferVars
                         ELSE sync' = "Online" /\ Flush
       ELSE UNCHANGED <<sync, timer, bufferVars>>
    /\ UNCHANGED <<flushSoon, cache, view, direct, excused, emitted>>

(* process_message downloads the history and tells it, or fails. *)
HistoryProcessed(h) ==
    /\ process[h] = "history"
    /\ process' = [process EXCEPT ![h] = "done"]
    /\ \/ \E ms \in SUBSET Messages, c \in {0, 1} :
            Emit([About("messaging-history.set", ms, 0) EXCEPT !.count = c])
       \/ UNCHANGED emitVars
    /\ UNCHANGED <<syncVars, appSync, buffering, deliveries>>

(* do_app_state_sync begins: only while the initial sync is on. *)
StartAppSync(h) ==
    /\ appSync[h] = "created"
    /\ appSync' = [appSync EXCEPT ![h] = IF sync = "Syncing" THEN "running" ELSE "done"]
    /\ UNCHANGED <<syncVars, process, bufferVars, cache, view, direct, excused,
                   emitted>>

(* resync_app_state tells what it decoded: chats read, while the history   *)
(* may not have come yet, and messages deleted.                            *)
ReadIf(condition, count) == [OfChat("chats.update", count) EXCEPT !.condition = condition]
DecodedEvents ==
    {About("messages.delete", {m}, NoEntry) : m \in Messages}
    \cup {ReadIf(k, c) : k \in {"newer", "older"}, c \in {Null, Marked, NoField}}
AppSyncTells(h) ==
    /\ appSync[h] = "running"
    /\ \E e \in DecodedEvents : Emit(e)
    /\ UNCHANGED <<syncVars, taskVars, buffering, deliveries>>

(* Mutant: the state is left as it is. *)
EndAppSyncStays(h) ==
    /\ appSync[h] = "running"
    /\ appSync' = [appSync EXCEPT ![h] = "done"]
    /\ Flush
    /\ UNCHANGED <<syncVars, process, cache, view, direct, excused, emitted>>

EndAppSync(h) ==
    /\ appSync[h] = "running"
    /\ appSync' = [appSync EXCEPT ![h] = "done"]
    /\ sync' = "Online"
    /\ Flush
    /\ UNCHANGED <<timer, flushSoon, process, cache, view, direct, excused,
                   emitted>>

AppSyncRaises(h) ==
    /\ appSync[h] = "running"
    /\ appSync' = [appSync EXCEPT ![h] = "raised"]
    /\ UNCHANGED <<syncVars, process, bufferVars, cache, view, direct, excused,
                   emitted>>

(* A message that shares app state keys: once they are stored, a sync that *)
(* is still on is run again.                                               *)
KeyShareArrives(h) ==
    /\ process[h] = "none"
    /\ process' = [process EXCEPT ![h] = "keyShare"]
    /\ UNCHANGED <<syncVars, appSync, bufferVars, cache, view, direct, excused,
                   emitted>>

KeyShareStored(h) ==
    /\ process[h] = "keyShare"
    /\ process' = [process EXCEPT ![h] = "done"]
    /\ appSync' = [appSync EXCEPT ![h] = IF sync = "Syncing" THEN "running" ELSE "done"]
    /\ UNCHANGED <<syncVars, bufferVars, cache, view, direct, excused, emitted>>

SyncNext ==
    \/ EmitEvent \/ CloseSession \/ Deliver
    \/ \E will \in BOOLEAN : ReceivedPendingNotifications(will)
    \/ FlushSoon \/ SyncTimeout
    \/ \E h \in Handlers :
        \/ \E wanted \in BOOLEAN : HistoryArrives(h, wanted)
        \/ HistoryProcessed(h) \/ StartAppSync(h) \/ AppSyncTells(h)
        \/ EndAppSync(h) \/ AppSyncRaises(h)
        \/ KeyShareArrives(h) \/ KeyShareStored(h)

(* Timers fire, created tasks run, and the app state sync ends: each of    *)
(* its requests has a timeout.                                             *)
SyncFairness ==
    /\ WF_initialSyncVars(SyncTimeout)
    /\ \A h \in Handlers : /\ WF_initialSyncVars(StartAppSync(h))
                           /\ WF_initialSyncVars(EndAppSync(h) \/ AppSyncRaises(h))

SyncSpec == SyncInit /\ [][SyncNext]_initialSyncVars /\ SyncFairness

-----------------------------------------------------------------------------
Settled == data = EmptyData /\ deliveries = <<>>

(* Consolidation loses nothing about messages: when all is told, the       *)
(* listeners know of every message what the events one by one would have   *)
(* told them, or a later update, except a message that reappears in the    *)
(* session that deleted it or in a history that was consolidated before,   *)
(* or that an event told at once overtook.                                 *)
MessagesTold ==
    Settled => \A m \in Messages \ excused :
        /\ direct.messages[m] <= view.messages[m]
        /\ direct.messages[m] = NoEntry => view.messages[m] = NoEntry

(* Nor about unread messages: when all is told, the chat has unread        *)
(* messages if and only if the events one by one would have said so, but   *)
(* for the cases named above.                                              *)
UnreadTold ==
    Settled /\ "chat" \notin excused => view.unread = direct.unread

(* The initial sync ends: the client that waits for a history, or syncs    *)
(* the app state after one, gets online, or the sync of a handler failed.  *)
SyncEnds ==
    sync \in {"AwaitingInitialSync", "Syncing"} ~>
        (sync = "Online" \/ \E h \in Handlers : appSync[h] = "raised")
===============================================================================
