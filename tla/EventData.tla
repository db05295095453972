------------------------------- MODULE EventData -------------------------------
(***************************************************************************)
(* utils/event_buffer.py: _append, which consolidates the events of one    *)
(* session of buffering, and _consolidate_events, which makes of them the  *)
(* few events a flush hands out; with them the conditions that app state   *)
(* puts on its chat updates (utils/chat_utils.py).                         *)
(*                                                                         *)
(* Of a message the model keeps the number of the latest update in it, of  *)
(* a chat the count of unread messages.  There is one chat.  Contacts,     *)
(* groups, reactions and receipts, which are merged field by field, are    *)
(* left out.                                                               *)
(***************************************************************************)
EXTENDS Integers, Sequences

CONSTANT Messages

-----------------------------------------------------------------------------
(* Entries.  A message is the number of its last update, 0 before any.  A  *)
(* chat is its unreadCount: a number of unread messages, Marked as unread  *)
(* by hand, Null, or without the field.                                    *)
NoEntry == -4
NoField == -3
Null == -2
Marked == -1

(* What one session buffers. *)
EmptyData ==
    [historySet   |-> FALSE,                             \* not "empty"
     history      |-> [m \in Messages |-> NoEntry],      \* historySets.messages
     historyChat  |-> NoEntry,                           \* historySets.chats
     upserts      |-> [m \in Messages |-> NoEntry],      \* messageUpserts
     type         |-> "none",                            \* their type
     updates      |-> [m \in Messages |-> NoEntry],      \* messageUpdates
     deletes      |-> {},                                \* messageDeletes
     chatUpsert   |-> NoEntry,                           \* chatUpserts
     chatUpdate   |-> NoEntry,                           \* chatUpdates
     condition    |-> "none",                            \* of the chat update
     chatDelete   |-> FALSE]                             \* chatDeletes

(* An event: the messages it is about with their entries, the count of the *)
(* chat; type is notify or append, or that an update marks as read.        *)
Blank == [event |-> "none", messages |-> {}, type |-> "none",
          values |-> EmptyData.history, count |-> NoField, condition |-> "none"]
About(event, messages, value) ==
    [Blank EXCEPT !.event = event, !.messages = messages,
                  !.values = [m \in Messages |-> IF m \in messages THEN value ELSE @[m]]]
OfChat(event, count) == [Blank EXCEPT !.event = event, !.count = count]

-----------------------------------------------------------------------------
(* Mutant: a chat update without a count clears the count. *)
ConcatClears(a, b) ==
    IF a >= Marked /\ b >= 0 THEN b + (IF a > 0 THEN a ELSE 0) ELSE b

(* _concat_chats of the counts: counts add up, a count that is marked is   *)
(* neutralized by an update without one, and otherwise the later one wins. *)
Concat(a, b) ==
    CASE a = Marked /\ b \in {Null, NoField} -> Null
      [] a >= Marked /\ b >= 0 -> b + (IF a > 0 THEN a ELSE 0)
      [] OTHER -> IF b = NoField THEN a ELSE b

ChatKnown(d) == d.historyChat # NoEntry \/ d.chatUpsert # NoEntry

(* The condition of an update when it is evaluated: None until the chat is *)
(* buffered, then whether the action is newer than the chat's last message.*)
Condition(d, condition) ==
    IF condition = "none" THEN "true"
    ELSE IF ~ ChatKnown(d) THEN "undecided"
    ELSE IF condition = "newer" THEN "true" ELSE "false"

DropChatUpdate(d) == [d EXCEPT !.chatUpdate = NoEntry, !.condition = "none"]

(* _absorbing_chat_update: a buffered update is merged into the chat that  *)
(* has come, whose own fields win, or is dropped with its condition.       *)
Absorb(d, field) ==
    IF d.chatUpdate = NoEntry THEN d
    ELSE CASE Condition(d, d.condition) = "true" ->
                DropChatUpdate([d EXCEPT ![field] = Concat(d.chatUpdate, @)])
           [] Condition(d, d.condition) = "false" -> DropChatUpdate(d)
           [] OTHER -> d

-----------------------------------------------------------------------------
(* _append, by event.  cache is _history_cache, which _append also fills.  *)

(* messaging-history.set: only what no earlier history brought is taken.   *)
AppendHistory(d, cache, e) ==
    LET fresh == {m \in e.messages : d.history[m] = NoEntry /\ m \notin cache}
        set == [d EXCEPT !.historySet = TRUE,
                         !.history = [m \in Messages |->
                                        IF m \in fresh THEN 0 ELSE @[m]]]
    IN IF d.historyChat = NoEntry /\ "chat" \notin cache
       THEN Absorb([set EXCEPT !.historyChat = e.count], "historyChat")
       ELSE set
CacheWith(cache, e) ==
    IF e.event = "messaging-history.set" THEN cache \cup e.messages \cup {"chat"}
                                         ELSE cache

(* The buffered chat that an upsert, and one that an update, is merged     *)
(* into.                                                                   *)
UpsertField(d) == IF d.chatUpsert = NoEntry /\ d.historyChat # NoEntry
                  THEN "historyChat" ELSE "chatUpsert"
UpdateField(d) == IF d.historyChat # NoEntry THEN "historyChat"
                  ELSE IF d.chatUpsert # NoEntry THEN "chatUpsert"
                  ELSE "chatUpdate"

AppendChatUpsert(d, e) ==
    LET field == UpsertField(d) IN
    [Absorb([d EXCEPT ![field] = IF @ = NoEntry THEN e.count ELSE Concat(@, e.count)],
            field) EXCEPT !.chatDelete = FALSE]

(* An undecided update takes the place of whatever was buffered for the    *)
(* chat; one that is applied leaves the condition of the entry it is       *)
(* merged into.                                                            *)
AppendChatUpdate(d, e) ==
    LET field == UpdateField(d)
        decided == Condition(d, e.condition)
        taken == CASE decided = "true" ->
                        [d EXCEPT ![field] = Concat(IF @ = NoEntry THEN NoField ELSE @,
                                                    e.count)]
                   [] decided = "undecided" ->
                        [d EXCEPT !.chatUpdate = e.count, !.condition = e.condition]
                   [] OTHER -> d
    IN [taken EXCEPT !.chatDelete = FALSE]

AppendChatDelete(d) ==
    [DropChatUpdate(d) EXCEPT !.chatDelete = TRUE, !.chatUpsert = NoEntry,
                              !.historyChat = NoEntry]

(* The upserts buffered are all of one type: emit() has handed out those   *)
(* of another.                                                             *)
AppendUpsert(d, e) ==
    LET value(m) == IF d.updates[m] = NoEntry THEN e.values[m] ELSE d.updates[m]
        inHistory == {m \in e.messages : d.history[m] # NoEntry}
    IN [d EXCEPT !.updates = [m \in Messages |-> IF m \in e.messages THEN NoEntry ELSE @[m]],
                 !.history = [m \in Messages |-> IF m \in inHistory THEN value(m) ELSE @[m]],
                 !.upserts = [m \in Messages |->
                                IF m \in e.messages \ inHistory THEN value(m) ELSE @[m]],
                 !.type = e.type]

(* _decrement_chat_read_counter_if_msg_did_unread: of the update or the    *)
(* upsert of the chat, never of the chat in a history.                     *)
CountedField(d) == IF d.chatUpdate # NoEntry THEN "chatUpdate" ELSE "chatUpsert"
Decrement(d) ==
    [d EXCEPT ![CountedField(d)] = IF @ > 1 THEN @ - 1 ELSE IF @ = 1 THEN NoField ELSE @]

(* messages.update merges into the message, or waits for it. *)
AppendUpdate(d, e) ==
    LET inHistory == {m \in e.messages : d.history[m] # NoEntry}
        inUpserts == {m \in e.messages : d.upserts[m] # NoEntry} \ inHistory
        merged(entries, ms) == [m \in Messages |-> IF m \in ms THEN e.values[m] ELSE entries[m]]
        updated == [d EXCEPT !.history = merged(@, inHistory),
                             !.upserts = merged(@, inUpserts),
                             !.updates = merged(@, e.messages \ (inHistory \cup inUpserts))]
    IN IF e.type = "read" /\ inHistory \cup inUpserts # {}
       THEN Decrement(updated) ELSE updated

(* Mutant: a deletion and the upsert it removes cancel each other out. *)
AppendDeleteCancels(d, e) ==
    LET without(entries) == [m \in Messages |-> IF m \in e.messages THEN NoEntry
                                                ELSE entries[m]]
    IN [d EXCEPT !.deletes = @ \cup {m \in e.messages : d.upserts[m] = NoEntry},
                 !.upserts = without(@), !.updates = without(@)]

(* messages.delete: a message in a buffered history stays there. *)
AppendDelete(d, e) ==
    LET without(entries) == [m \in Messages |-> IF m \in e.messages THEN NoEntry
                                                ELSE entries[m]]
    IN [d EXCEPT !.deletes = @ \cup e.messages,
                 !.upserts = without(@), !.updates = without(@)]

AppendEvent(d, cache, e) ==
    CASE e.event = "messaging-history.set" -> AppendHistory(d, cache, e)
      [] e.event = "chats.upsert"    -> AppendChatUpsert(d, e)
      [] e.event = "chats.update"    -> AppendChatUpdate(d, e)
      [] e.event = "chats.delete"    -> AppendChatDelete(d)
      [] e.event = "messages.upsert" -> AppendUpsert(d, e)
      [] e.event = "messages.update" -> AppendUpdate(d, e)
      [] e.event = "messages.delete" -> AppendDelete(d, e)

-----------------------------------------------------------------------------
(* What a flush keeps back: an update whose condition is undecided. *)
KeptBack(d) ==
    IF d.condition = "none" THEN EmptyData
    ELSE [EmptyData EXCEPT !.chatUpdate = d.chatUpdate, !.condition = d.condition]

Entries(event, entries) ==
    [Blank EXCEPT !.event = event, !.values = entries,
                  !.messages = {m \in Messages : entries[m] # NoEntry}]

(* _consolidate_events: the events of a flush in the order they are handed *)
(* out.                                                                    *)
Consolidate(d) ==
    LET history == [Entries("messaging-history.set", d.history) EXCEPT !.count = d.historyChat]
        chat(event, count) ==
            IF count = NoEntry THEN <<>> ELSE <<OfChat(event, count)>>
        messages(e) == IF e.messages = {} THEN <<>> ELSE <<e>>
    IN (IF d.historySet THEN <<history>> ELSE <<>>)
       \o chat("chats.upsert", d.chatUpsert)
       \o chat("chats.update", IF d.condition = "none" THEN d.chatUpdate ELSE NoEntry)
       \o chat("chats.delete", IF d.chatDelete THEN 0 ELSE NoEntry)
       \o messages(Entries("messages.upsert", d.upserts))
       \o messages(Entries("messages.update", d.updates))
       \o messages(About("messages.delete", d.deletes, NoEntry))

-----------------------------------------------------------------------------
(* A listener that keeps what it is told: every message with its latest    *)
(* update, and whether the chat has unread messages.                       *)
EmptyView == [messages |-> EmptyData.history, unread |-> FALSE]

ShownMessage(known, e, m) ==
    IF m \notin e.messages \/ (e.event = "messages.update" /\ known = NoEntry)
    THEN known ELSE e.values[m]
ShownUnread(unread, e) ==
    IF e.event = "chats.delete" THEN FALSE
    ELSE IF e.count \in {NoEntry, NoField} THEN unread
    ELSE e.count = Marked \/ e.count > 0

Apply(v, e) ==
    [messages |-> [m \in Messages |-> ShownMessage(v.messages[m], e, m)],
     unread   |-> ShownUnread(v.unread, e)]
===============================================================================
