# A TLA+ verification of wassupweb

wassupweb is an asynchronous Python client of the WhatsApp Web protocol, a port of
Baileys. One process, one asyncio event loop: every interleaving happens at an `await`
that suspends, and everything between two such awaits is atomic. That is the grain of all
the modules here. Blocking work (files) runs in threads, timers are `call_later` handles
or `wait_for`, and background work is `create_task`.

Paths below are relative to the repository's `wassupweb/` directory.

## 1. Inventory

### Event layer
* **Event buffer** (`utils/event_buffer.py`). State: whether it buffers, nesting count,
  three kinds of timer handle, buffered data by event type, one `asyncio.Lock`, the
  listeners. Operations: `buffer`, `flush`, `emit`, `create_buffered_function`, timer
  callbacks. Every component publishes through it; listeners run inside `emit`. Hard:
  listeners awaited under the lock while a timer flushes; nesting counts reset by a
  flush; delivery tasks against direct delivery. Right when: no event is lost but one
  whose own `emit` raised, none is held without a deadline but undecided updates, the count is
  the session's users, and duplicates are limited to what a flush overlapped or a listener broke off.
* **Event bus** (`utils/event_bus.py`): a simpler emitter of the same shape for user-level
  clients (`api.py`, `central.py`). Right when: events come out in order of emission.

### Concurrency primitives
* **Mutexes** (`utils/make_mutex.py`). State: lock objects and reference counts by key.
  Hard: objects dropped and remade while tasks wait, cancellation at each await.
  Right when: one task per key, FIFO, no leak, no lost wake-up.

### Key material and persistence
* **Key store wrappers** (`utils/auth_utils.py`, `utils/pre_key_manager.py`): a read-through
  cache with a time to live, and transactions in a context variable with a lock per key,
  commit retries and pre-key deletion checks. Hard: cache fill against a concurrent write,
  contexts copied into tasks, sibling reads and writes inside one transaction, two
  transactions of different keys on one record. Right when: a transaction
  that returns has made each of its updates once, from the value that is stored, and a reader
  never keeps a value older than the last write.
* **File store** (`utils/use_multi_file_auth_state.py`): a lock per file, writes in threads,
  no transactions; `creds.json` saved on every `creds.update`. Hard: cancellation leaves a
  thread writing, a crash leaves a truncated file, several files are not one write.
* **Pre-keys** (`utils/signal.py`, `socket/socket.py` 930-1042, `socket/messages_recv.py`
  998-1111): generation, upload with single flight, retry receipts. Right when: what the
  server hands out can be decrypted, ids are never reused.
* **Signal sessions, sender keys, LID mapping** (`signal/libsignal.py`, `signal/group/*`,
  `signal/lid_mapping.py`). Hard: one record reached under two addresses, chains that
  advance on both sides, out-of-order group messages, session migration.

### Connection
* **Noise channel** (`utils/noise_handler.py`): handshake hash, keys, counters, frame buffer.
  Hard: counters on both sides must stay in step, frames split anywhere, a frame that
  arrives before the handshake is finished, a handler that raises with frames in the buffer.
* **Core socket** (`socket/client.py`, `socket/socket.py`): connection state, receive loop,
  pending queries, handshake, pairing, keep-alive, stream errors, close. Hard: handlers are
  awaited by the receive loop that would deliver the answers they wait for; queries that
  time out while the answer arrives; close against connect.

### Messages
* **Receiving** (`socket/messages_recv.py`): offline queue, decryption, retry requests and
  resends, placeholder resends, receipts, notifications, acks. Hard: the offline task
  against the receive loop, mutexes held across awaits, retry counters.
* **Message retry manager** (`utils/message_retry_manager.py`): recent messages, retry counters,
  session recreation, phone requests on timers, all bounded caches with a time to live.
* **Identity changes** (`utils/identity_change_handler.py`): debounced session refresh.
* **Sending** (`socket/messages_send.py`): session assertion, fan-out to devices, sender-key
  distribution memory. Hard: memory written before the send can fail.
* **App state** (`socket/chats.py` 220-428, `utils/chat_utils.py`, `utils/lt_hash.py`,
  `utils/sync_action_utils.py`): versioned patches with an LT hash per collection, resync
  with snapshot fallback, conflicting patches of other devices.
* **Initial sync** (`socket/chats.py` 1046-1195): a state machine driven by the offline
  messages, the phone's histories and key shares, and a timeout, with a session of the event
  buffer open meanwhile. Hard: handlers that overtake each other around awaits; what the
  buffer makes of the events of a long session. Right when: it ends, and the listeners know
  afterwards what the events would have told them.
* **Message processing, history** (`utils/process_message.py`, `utils/history.py`).

### Pure codecs and builders
`wabinary/*` (binary node codec, JIDs), `wausync/*` (device queries), `utils/messages.py`,
`utils/generics.py`, `utils/decode_wa_message.py`, `utils/reporting_utils.py`,
`utils/crypto.py`, `utils/messages_media.py`, group, community, newsletter and business
sockets (request builders over `query`), `wam/*`, generated protobuf code.

### How they interact
The receive loop of the core socket decrypts frames with the noise channel, decodes nodes
and awaits the handlers of the receiving and chat layers; those use the key store (Signal),
the mutexes and the retry manager, and publish through the event buffer. Answers to queries
resolve futures from the same loop. `creds.update` events come back to the core socket, which
changes the credentials and saves them. The sending layer shares the key store and the
mutexes with the receiving one.

## 2. Plan

| Modules | Component | State |
|---|---|---|
| `EventBuffer`, `EventData` | event buffer: sessions and timers, consolidation | done, proved |
| `KeyedMutex`, `KeyedLine` | mutexes | done; `KeyedMutex` implements `KeyedLine` (proved) |
| `PreKeys` | pre-keys over a key store | done, proved |
| `KeyTransactions`, `AtomicStore` | transactions of the key store | done; implements `AtomicStore` (proved) |
| `CoreSocket` | connection, receive loop, queries | done, proved |
| `AppState` | app state patches, with the server's log | done, proved |
| `MessageReceive` | ways of a node, retries, placeholder requests | done, proved |
| `SenderKeys`, `FileStore`, `GroupSend` | sender keys, files, group messages, composed | done, proved |
| `LidMapping`, `Sessions` | sessions of a contact under two addresses, composed | done, proved |
| `NodeCodec`, `NoiseChannel`, `NodeChannel`, `Fifo` | codec, channel, and the two composed | done; the channel implements `Fifo` (proved) |
| `InitialSync` | initial sync over `EventData` | done, proved |

Left, in this order: the resending of own messages on a retry receipt (with the recent
messages and session recreation of the retry manager); transaction contexts
copied into tasks and timers, for which the specification of what is promised has to be found first;
the read-through cache; the debounce of identity changes; protocol messages into events;
receipts, contacts and groups in the consolidation; the order of the reports of two resyncs.
Every safety property that a run shows to hold is proved but `SameNodes` (section 5).

## 3. The modules

Everything between two suspending awaits is one action; where an await may or may not
suspend, both are there. Comments in the modules name the lines. Operators that end in a
word like `Always`, `Leaks`, `Unkept` and are marked "Mutant" are wrong variants of the
operator after them, which no specification uses: replacing it by one breaks a property.

* **`KeyedMutex`** (`make_mutex.py`): `locks` and `refCount` are the two dictionaries,
  `holder` and `waiters` the inside of the `asyncio.Lock` objects, which are model values
  that are reused once nobody refers to them. A call takes its reference (`GetLock`), waits
  (`Enter`), is woken (`Wake`), leaves (`Exit`, `ReleaseLock`) or is cancelled while it waits,
  before or after its wake-up (`CancelWaiting`). **`KeyedLine`** is what it promises: a FIFO
  line per key, without lock objects.
* **`EventBuffer`** (`event_buffer.py` 100-213): `buffering`, `count`, the limit timer, the
  pending flush and the single-function timers are the fields of the buffer; events are
  numbered and have the kinds that `emit` tells apart (upserts of two types, chats,
  conditional updates, unbuffered). Listeners may suspend inside the lock, may emit, may
  raise, and may be cut off when the task of `emit` is cancelled; either way `emit` ends before
  it has cleared the upserts it handed out. An undecided update goes back into the buffer at a
  flush, outside of any session (`leftBehind`).
  Here an event is held, decided with its chat, or delivered.
* **`EventData`** (`event_buffer.py` 214-545): what becomes of the events of one session.
  `AppendEvent` and `Consolidate` are `_append` and `_consolidate_events` for messages (with
  their last update), deletions, histories, and one chat with its unread count, conditions
  of app state included; `Apply` is what a listener does with an event (external).
* **`PreKeys`** (`signal.py`, `upload_pre_keys`, the keys of `send_retry_request`): a task of
  an upload or of a retry receipt goes through `get_next_pre_keys` await by await,
  emits and saves the credentials (a save that fails is only logged), publishes, and is answered,
  fails, backs off, is cancelled, or crashes with the process, after which the credentials are
  those that were saved. `Tracked` leaves out the ids that the counters lost: `forgotten` by a
  crash after a failed save, or `overlapped`, numbered by calls that counted at the same time,
  which only a store without transactions allows.
* **`KeyTransactions`** (`auth_utils.py` 111-237): a task's context, its fetches and updates
  in any order, and the commit, which writes one file for each record, may fail with some of
  them written, and is retried. Any record may be updated under any key, as the code does: a
  session under its jid, under the own jid around a send, and under the keys of a deletion and a
  migration. `overtaken` notes the records that a transaction of another key, or a write that a
  cancelled one left to a thread, wrote after they were read. **`AtomicStore`** is what the users
  of transactions may rely on: a transaction that returns has made each update once, one that
  raises some of them, those of one key write one after the other, and only overtaken records
  lose updates. That a file may be torn by such a thread is `FileStore`'s matter.
* **`CoreSocket`** (`client.py`, `socket.py`): `connect`, the receive loop, the keep-alive
  loop, a user's `query` and `disconnect`, with `_closed`, `_pending_queries`, the date of the
  last message and the timeouts of every wait, for the transport to take what is sent
  as for an answer. The receive loop *awaits* the handlers, so that
  a handler that queries waits for what only it could receive. Time is a `Tick` that counts
  down the waits and may pass only when no task is ready to run.
* **`AppState`** (`chats.py` 220-428, `chat_utils.py`, `lt_hash.py`): one collection. The
  server (external) keeps a log of patches, answers in pages and takes a patch that is made
  on its last version. The client resyncs in rounds, applies a snapshot or patches to version,
  hash and index map, recovers from what it cannot decode, and patches after a resync. `mode`,
  chosen at the start, says whether the store has transactions, whether macs are verified,
  whether own patches are told (`emit_own_events`), and which failures happen. Mutations are
  told one by one, and a listener may raise. The LT hash is a count per mac, which is what its
  additions and subtractions amount to. Histories note what has gone wrong with a state since
  the snapshot it comes from (`flaws`), that such a state was stored (`strayed`), and what a
  task stored but no longer tells (`untold`).
* **`MessageReceive`** (`messages_recv.py`, `message_retry_manager.py`): the receive loop and
  the offline task handle nodes of every kind, messages under `message_mutex`; retry counters,
  timers (threads: one that is past its wait cannot be cancelled), requests to the phone and
  their cleanup. `answers`, `excused` and `requested` are histories.
* **`SenderKeys`** (`signal/group`): a record is a sequence of states, a state the id of a
  key, an iteration and the message keys that were passed over, each with its limit.
* **`FileStore`** (`use_multi_file_auth_state.py`): a write waits for the lock of its file and
  then empties and fills it in a thread. The thread of a cancelled task goes on without the
  lock, a crash leaves what is there; a torn file is one that a read refuses.
* **`GroupSend`** (`relay_message`, `encrypt_group_message`) composes the two: tasks that send
  to a group read the memory of the devices with the key, make or read the own record,
  encrypt, address the devices that lack the key, remember them and send, in a transaction
  that is committed file by file with retries, or without: then a record is loaded in a step of
  its own (`Load`), before each of the three that may store it, and other sends store theirs
  in between. Devices (external) keep records as the repository does and get stanzas in any
  order and some again. What answers a retry receipt is another send.
* **`NodeCodec`** (`wabinary`): texts are their class, length and a number, JIDs their parts;
  `Encode` gives tagged bytes (list sizes, tokens, packed and raw texts, JIDs with and
  without devices) over a small base, and `Decode` reads them as the code does. `Normal` is
  what a node is expected to become.
* **`NoiseChannel`** (`noise_handler.py`, `socket.py` where it drives it): phases of the
  handshake, the intro header, the counters, frames to be written and written, and the bytes
  received, which the transport cuts anywhere that makes a difference (`Cuts`); the receive
  loop takes whole frames and awaits their handlers, which may raise. The server (external)
  reads by its own counter. **`Fifo`** is the promise: what is given is a prefix of what was
  sent. The channel knows of a node only how many bytes it has, a parameter; **`NodeChannel`**
  gives it the bytes that `NodeCodec` encodes, and says what they are read as.
* **`LidMapping`** (`lid_mapping.py`): the stored pair and its cache, and the lookups that
  share a fetch through a future, awaited with the lock held. **`Sessions`** (`libsignal.py`,
  `messages_send.py`, `identity_change_handler.py`) composes it with the tasks of one contact
  with two addresses: device lists, sends, a pkmsg, retry receipts, a changed identity,
  mappings and migrations, await by await, over the session at each address, the peer-session
  cache and the per-name mutex.
* **`InitialSync`** (`chats.py`, `process_message.py`): the sync state, its timeout, the two
  tasks of every history or key share, and the events of the meantime, over `EventData`. A
  `view` of the listeners is compared with what it would be without buffering (`direct`).

## 4. The runs

| Run | Instance | What it shows |
|---|---|---|
| `keyed_mutex` | 4 tasks, 2 keys, 3 lock objects | `MutualExclusion` per key, exact counts (`CountsCallers`), `WaiterServed`, `ImplementsKeyedLine`, with cancellations |
| `event_buffer` | 2 tasks, 3 events, 1 bare session, 2 buffered functions | `HeldOnlyInSession`: nothing is held with no timer armed to release it, but for undecided updates that a flush put back; `CountCoversUsers`, in both directions, but for the endings of functions that a flush left running; `DeliveredOnce`, and once more only for each hand-out that a listener broke off or a flush overlapped; `BufferedDelivered` |
| `pre_keys` | 2 uploaders, 1 retrier, both kinds of store, 3 ids, 2 calls of `get_next_pre_keys`, 2 faults (crash, failed commit, failed save) | of the tracked ids: `PublishedStored`: a published key is in the store under its id (or its transaction failed after the receipt left); `NoIdReuse`; and `SingleFlight`, `UploadReturns` |
| `key_transactions` | 2 tasks, 2 records under 2 keys (one task under one of them), 2 commit attempts, 1 late write | `ReadsCurrent` until the commit and `ImplementsAtomicStore`, both but for overtaken records; `TransactionEnds` |
| `core_socket` | server silent, slow or dying; queries with and without a limit; `disconnect` at any time | `SilenceBounded`: a dead server is noticed within a bound, the sending of the ping included, while the keep-alive loop runs and has no ping without a time limit; `NoOpenAfterClose`; `CloseReported`; `QueryEnds` for every query that has a limit |
| `core_socket_success` (violation) | a server that answers at once | `SuccessOpens`: see the finding |
| `app_state` | 2 indexes, a resync and a patcher that also removes, other devices patching at any time. With transactions: 4 versions, 4 macs, pages of 1 patch, timeouts, late answers, failed commits, raising listeners; or 4 versions, 3 macs, lost keys and snapshots, macs verified. Without: 3 versions, 3 macs, lost keys and snapshots, macs verified | `StoreIsServers` of the stored version, but for a state into which an own removal, a lost snapshot or a refused patch has gone; `NothingUnreported` with transactions, until such a state is stored: what is stored was told, will be by the task that has it, or was stopped from being told; `PatchHeals`: a patch with the right hash is applied on the server's state only, so a verifying client does not build on its error |
| `message_receive` | 3 nodes for one message, 2 retries | `AnsweredOnce`, `OneRequest` to the phone at a time, `NodeHandled` while the connection lasts |
| `group_send` | 2 sends, 2 devices, 2 faults, 1 crash, both kinds of store | `NoKeyReuse`, with transactions and but for a record that was rolled back after its stanza left; `RememberedHaveKey`: who is remembered has, is being sent or failed to get the key, unless a commit was cut short or, without transactions, a record was stored over one that was loaded; `ReadersFindData`: no read meets a torn file that no crash, full disk or pair of threads tore; `OpenedOnce` |
| `wire` | 2 nodes each way of 3 each, 1 fault | `SendsInStep` with the server's counter; `SameNodes`: what is read is what was sent, at every limit of lengths, but for JIDs that the encoding has no room for; `ImplementsFifo`; `NodesGiven` in the end |
| `sessions` | 2 tasks, 3 operations, 1 fault | `TrustedHaveSession`: a contact trusted in has a session where an encryption looks, or a nameable reason why not; `MadeUpOnce`: no two tasks make up a key for one name; `OperationsEnd` unless a lookup lost its owner |
| `initial_sync` | 1 message, 1 chat, 2 messages of the phone, 3 events | `MessagesTold`, `UnreadTold`: in the end the listeners know what the events one by one would have told, but for the cases in `excused`; `SyncEnds` |

**Finding.** *The success handler opens the connection* (`tests/utils/test_core_socket.py:488`).
It queries the server while the receive loop awaits it, so none of its queries can be
answered: that for the number of pre-keys and the passive one time out after 60 s each (without
an answer to the second the digest is not asked for), and the keep-alive loop, which takes more
than 35 s of silence for a loss when it wakes up, ends the connection first.

### Observed without a run of its own

These are behaviours of the code that the models have, and that a property had to name as an
exception, or that came up in writing them.

*Connection.* When the receive loop is in `end()`, `disconnect()` cancels it before its
report and makes none itself. `_is_waiting_for_transport` is set and cleared with no await in
between, so `_pending_on_frame` is never used: a frame of the server that arrives between
the client's finish and `finish_init` is treated as one of the handshake, is lost, and leaves
the read counter one behind for good (`early`). An exception in a handler leaves the frames
behind it in the buffer until the next bytes come (`stalled`). A send that is cancelled or
times out while it waits has used its counter, and the server refuses what comes after it.

*Codec.* Attributes whose value is no text count in the size of the list and are not
written. `jid_decode` raises for agents it does not know, where the Rust version takes them
(`src/wabinary/jid_utils.rs:210`). A JID with a device keeps its server only if it is one of four, its
device modulo 256, not its agent, and device 0 as none. Frames above 2^24-1 bytes and lists above
65535 entries have their sizes cut.

*Event buffer.* A function that a flush left running takes one off the count of the next
session, which then ends too early. Undecided updates that a flush put back have no deadline. An
upsert whose listener raises stays in the buffer and is given again; one that is handed out while
a flush takes it is given twice.

*Key store.* "Rolling back" (`auth_utils.py:233`) undoes nothing in the files: what a failed
commit has written stays. Transactions of different keys on one record lose updates; so does
whoever reads a record while a thread still writes it for a cancelled transaction. A retry receipt over a store without transactions may publish the id of an
upload, and the call that ends last sets the counters back (`overlapped`). A failed save of the
credentials is logged and the upload goes on: if the process dies before the next save, the ids
it published are given out again (`forgotten`). A commit cut short between two files leaves
the memory of the devices without the record. Without transactions two first sends to a group
both make a key, and devices that are remembered may never get the one that is stored last.
Nothing repairs it: a retry receipt is answered by another send to the group, which finds the
device remembered and gives it no key. A send rolled back after its stanza left uses
its message keys again. A distribution that is repeated is appended as a second state of the
same id, and pushes others out.

*Sessions.* No function that asks the server for a LID is ever configured. A task that joins
a lookup awaits its future with the lock held: if the owner is cancelled it waits for ever,
and so does every later lookup; if it is cancelled itself the owner raises. The peer-session
cache is by name, sessions by resolved address: an entry of a phone number stays "no" when the
wire address is the LID, and each send fetches again and overwrites the session; a mapping
learnt while the entry says "yes" makes the next encryption make up a key. A retry receipt
deletes at the unresolved address and leaves the cache. A bundle that lacks keys still sets
it. A session under the phone number after a migration is not migrated again. Encryption is
serialised by name only, so the two names of a contact are not.

*Receiving.* A retry counter restarts after the last retry; a request to the phone may go out
for a message that has come since its timer fired; the note of a request that could not be
sent is never removed; the answer to a placeholder request is looked for in a field that
the schema does not have (`process_message.py` 330).

*App state.* `app_patch` stores its patch whatever the server says to it, so a rejected one
diverges the client, for good unless macs are verified (they are not by default); a collection
without a usable snapshot is rebuilt from version 0 or on the empty state; the mac of an own
removal is put back into the index map (`chat_utils.py` 187), so that a later change of that index
subtracts a mac that was never added. These three are the `flaws` of a state. The snapshot that
corrects a flawed state may be no newer than it, and then tells listeners nothing. A listener
that raises leaves the mutations after its own stored and untold.

*Buffered events* (the cases in `excused`). A message deleted and received again in one session
is told deleted last; a history skips a message that was deleted since an earlier history;
what was buffered before a history is told after it, also where it is older; an event that is
told at once overtakes the delivery tasks of a flush. For the chat: a count of zero does not
clear a buffered count; "marked unread" is undone by an update without a count; an update with
a condition replaces or captures the buffered one; a deletion is cancelled by later updates
but not by a history. `emit()` calls hang behind a listener that emits under the lock.

*Initial sync.* Two handlers may both find the state Syncing and both run the resync; a resync
that raises leaves the state there until the next history or key share; `_sync_state` is
never reset.

**Bounds.** *Mutex*: three objects for two keys let an object be dropped and remade while
another is in use; four tasks are a holder, two waiters and a newcomer. *Event buffer*: three
events are an upsert, one of another type and one that arrives meanwhile. *Pre-keys*: calls
of sizes 1 and 2 make ids overlap where they can; three calls are two uploads and a retry,
or one of them again after the crash. *Transactions*: two records and two
keys, with one task under the first key and the other under either, let transactions be
rivals for a key, overtake each other under two, and be independent. *Core socket*: a tick is
30 s, so the interval is 1, the query timeout 2 and a send's limit 1 (for 20 s); with a prompt
server it is 15 s, and they are 2, 4 and 2; the 5 s of grace are less than a tick. One message under way at a time (`MaxInbox`); several differ only in how long
the loop is busy. *App state*: with pages of one patch a resync takes several rounds,
during which the log grows; macs bound the mutations of all devices. *Receiving*: three
nodes are what it takes to retry, to be told not to ask the phone, and to run out of retries;
all state of a message is keyed by its id, and the mutex is the only thing messages share, for
which nodes of one id compete as well. *Group*: two states, two kept keys and three iterations
ahead stand for 5, 2000 and 2000 and are reached by two sends with a repeat and a rollback;
two devices let one have the key that the other lacks; two faults are a failed write and what follows it, and the crash may come after both.
*Wire*: with base 4, half 2 and packed length 3, the nodes of the instance reach each size
class of lists, texts and contents. *Sessions*: an operation can be overtaken by two of the
other task, and three that run one after another come in every order. *Initial sync*: three events are a
session's content, a history and what follows; what an earlier login left is in `EarlierViews`.
A larger instance (8 million states) was checked as well, beyond the time a run should take.
Where a run says `CHECK_DEADLOCK FALSE` the system stops because a bound is used up or
the connection has ended.

**Fairness.** asyncio runs every ready task, so each step of a task that is ready has weak
fairness, as have the threads of the file store; a step that waits for a free lock handed over
in FIFO order has strong fairness in `KeyTransactions`, where the
line is abstracted to a free lock. Timers fire (`Tick` in `CoreSocket` has strong fairness: it
waits for tasks to be idle, again and again; `SyncTimeout`). The network of `NoiseChannel` delivers
what was written, as TCP does while the connection lasts. Callers, listeners that deadlock, other behaviour of the server,
failures, cancellations and crashes have none; in `core_socket_success` alone the server is
`Prompt`. `AppState` is checked for safety only.

## 5. Proofs

For every value of the constants (and with no bound on events, calls or time beyond those
that the specification itself has):

| Theorem | Argument |
|---|---|
| `SafeInvariant`, `MutexExcludes`, `MutexCountsCallers` (`KeyedMutexProofs`) | `Safe` joins the types, what each state of a call implies (`CallState`), that all callers of a key share its current object (`OneObjectPerKey`) and that keys do not share objects. Exclusion is not inductive without the last two: an object that was dropped too early would be remade beside a holder. Counting needs the finiteness of `Tasks`. |
| `MutexIsLine` (`KeyedMutexProofs`) | `KeyedMutex` implements `KeyedLine`. `Lined` adds that who holds an object is critical on it and who is in its queue waits for it, once. An object that nothing refers to is then as good as new, and when the last caller of a key leaves its line is empty, so that neither making nor dropping an object shows. |
| `SessionHasDeadline` (`EventBufferProofs`) | `HeldOnlyInSession` is inductive by itself: a session has its limit timer armed, and outside of it only undecided updates are held, which a flush put back. |
| `CountIsCovered` | `Counting`: the nesting count is what the running functions of this session and the bare calls come to, less at most the endings of functions that an earlier flush left running (`stray`). |
| `EventsDeliveredOnce` | `Placed`: every number has one event in one place (with its emitter, refused, buffered, undecided, dropped, in one delivery task, or given), which says how often it was delivered beyond the hand-outs to be made again; whoever emits stands in the line of the lock, and who hands upserts to listeners is its head. While it does, what is handed out and buffered is all upserts that are buffered, so that clearing "the upserts buffered now" after the wait drops nothing that was not given, whether or not a flush has taken them (`Handing`). The counts of `DeliveredOnce` alone say neither. |
| `OneUploadAtATime`, `PublishedAreStored`, `IdsNotReused` (`PreKeysProofs`) | `Below`, of the tracked ids: the counters are above every id that is published or on its way (`Issued`), the saved ones above those past their save but for the `unsaved`, which a crash gives up; and the ids of a task that may write (`Owning`: it has the transaction, or counts over a plain store) are above all others', or overlapped. So no write touches a key that must be stored (`Kept`), and a task that puts its keys on their way finds no other of their ids (`Same`). `NoIdReuse` alone is not inductive, as it says nothing of the ids of a task that has yet to publish. |
| `TransactionsReadCurrent`, `TransactionsAtomic` (`KeyTransactionsProofs`) | `Inv` joins that running tasks hold their key's lock (`HoldersRun`), that a transaction has values of the records it is to update only (`Scoped`), that what a commit has not to write any more is written (`Committing`), and that what was read and not overtaken is current. Whoever writes is the only running transaction of its key (`OneOfKey`), so that anybody else who has read the record is under another key and is overtaken by the write (`WritesOvertake`); a retried write of a record that nobody overtook changes nothing. No assumption says which records are updated under which keys. |
| `SilenceIsBounded` (`SocketProofs`) | `Silence` bounds the age of the last message by what the keep-alive loop still has to wait in each of its states; for that the client's finish must leave in the time of one send after the server's hello. |
| `CloseIsFinal` | `Closing`: once closed is reported, no task is left in a state from which it reports `open`. |
| `KeysNotReused` | `Inv`, for stores with transactions: one send at a time, which alone writes the record once it has it (`OwnLine`); a thread whose send is gone leaves the file torn until it ends, so that nobody reads a record before (`TornMeanwhile`); and in every place a record may still be read from (the file, a thread, a line, the transaction) the key is used up to what the saved messages have taken (`Used`, `InHand`). `NoKeyReuse` speaks of two messages that have left and not of the record the next one starts from. |
| `FilesAreRead` | `TornForReason`: a torn file is in the hands of a running write, or named as spoilt, or a thread without a task still writes it; with or without transactions. That a cancelled task's line keeps its order (`WithoutFacts`) is proved by the least number of a set, which the well-founded order of finite sets gives. |
| `RememberedHave` | `Sharing`, for the stores with transactions and as long as no commit is cut short: there is one id in all the places a record may be read from (`OneId`), since a key is made only where no file, line or thread has a record; whatever is, or may yet be, the memory (the file, its lines and threads, the context, the hands of a send that reads it) names devices that know the key of that id (`Known`: given it, failed to be, or in the stanza of a send that has left); a send distributes that id (`SameKey`); and no memory is there before the record (`RecordFirst`), so that the first key finds nobody remembered. Whose writes are in a line (`Waiting`: those of a commit) says why a cancelled, failed or ended send leaves none of this undone. The property reads the two files alone, when nobody writes them, and so is not inductive. Without transactions it is model-checked, with its exception. |
| `EachOpenedOnce` | `Device`, of each device's keys, record and opened ciphertexts: its record is the newest of the keys it was given, in order (`Newer`); a ciphertext was opened at most as often as its key was given to states that can open it no more (`CanOpen`, a count: opening takes a state from those that can to those that cannot, and no later step brings it back, since the kept keys rise below the chain and a removed key is the only one of its iteration); and, as long as no state was dropped, whatever lies between the first key of an id and the chain of its state was opened, is kept or was passed by more than `MaxKeys` (`MustOpen`). The property counts what was opened and speaks of the step that refuses; neither says what a record still holds. |
| `ServerInStep` | For every set of nodes and whatever bytes they have. `Shaken`: which frames are the handshake's, by the phase. A frame after those has the counter its node had when it was sent (`Outbound`) and, until a send is cancelled, that of its place among the written and the queued (`Unbroken`): so the server stops listening after a cancelled send only. `SendsInStep` says nothing of the frames under way. |
| `ChannelIsFifo` | `Inward`: the frame after those taken has the counter `taken - 1`, and `readCounter` is that until a frame is taken for one of the handshake; from then on it stays behind and nothing can be decrypted, so that what is given is a prefix of what was sent for all times to come. `Fifo` compares two sequences and does not say why the next frame fits. |
| `PhoneAskedOnce` (`MessageReceiveProofs`) | `Single` counts the requests for a message (those asleep in either task or in a timer's task, and those waiting for their cleanup): at most one, and while there is one its note is in the cache. `OneRequest` alone is not inductive, since it does not say that the note is there to stop the next one. |
| `NodesAnsweredOnce` | `Answered`: a node is in one place, the offline queue (in the order of coming), the hands of one task, or done, and has been answered only where its handler says so; so whoever answers, in whatever order handlers end, raise or are cut off, answers a node that has no answer. |
| `TrustHasReason` (`SessionsProofs`) | `Seen(a)`: there is a session, or a reason, at the address that an encryption for `a` looks at. A cache entry "yes" implies it, and so does a task about to set one; addresses that a task has resolved fit the mapping or the mapping has come since; who moves a session has one to move and knows the mapping. `TrustedHaveSession` is about the cache only and so not inductive. |
| `KeysMadeUpOnce` | `Once`: a task between its look for a session and its keys holds the mutex of its name, and every address that its lookups may still give is clear for that name (both of the contact while the mapping is unknown, the LID's once it is known); what it has resolved fits the mapping; only mapped contacts have a number's keys at the LID, and only a migration moves a session. The others make keys only for names whose mutex they hold, hence for other addresses. The property looks at the moment of making alone, and so is not inductive. |
| `StoredIsServers`, `VerifiedPatchHeals` (`AppStateProofs`) | `General`, for every mode. Every mac was minted for one index and one kind of mutation, so that the hash of a state tells its map (`HashTells`) but for the macs of removals, and stays its hash when a mutation is mixed in (`Sums`); logged patches lead from each map of the server to the next. That gives `PatchHeals`. For the stored state: a request that is waited for is the task's only one and fits its state (`Awaited`), so that no answer of an earlier, given-up task is taken for its own; every state in hand without a flaw is the server's of its version, and the patches in hand follow it or the snapshot before them (`Right`); the state of an own patch is what the server will have if it takes it. `StoreIsServers` alone says nothing of what tasks have in hand, and so is not inductive. `NothingUnreported` is model-checked only. |
| `ListenersToldMessages`, `ListenersToldUnread` (`AppStateProofs`, second half) | `SyncFollows`, for any messages and number of events and whenever sessions are opened and flushed. The events handed out and not yet told lead each subject (a message, or the chat) through a chain of values, from what the listeners know of it to what they will (`Leads`); flushing the buffer then makes of the last value one that is not older than what the events one by one would have told (`FlushedMessage`, `NotOlder`), and for the chat the same unread state (`FlushedChat`). So that this survives the next event, the parts of the buffered data that could contradict each other do not both hold a subject that is not excused: no message of a history has an upsert or update, none of an upsert an update or deletion (`MessageApart`), and the chat is in one of its three places, with nothing undecided (`ChatApart`). An event that is told at once goes past what was handed out; it excuses the subject unless the chain has no step, and then it moves both ends. With nothing buffered or under way the chains have no steps, and the properties follow; they say nothing of any other state, and so are not inductive. |

Assumptions are the `ASSUME`s of the modules: disjoint task sets, finite `Tasks`, positive
times, `Absent` and `Torn` no contents of a file, earlier views of
the listeners that hold entries of messages.

`SocketProofs` has the theorems of three modules of the socket layer, which is why the names of
`CoreSocket` and `NoiseChannel` are their own (`SocketInit`, `at`, `ChannelInit`); `AppStateProofs` has
those of `AppState` and `InitialSync` (`SyncInit`, `SyncSpec`).

Only model-checked: liveness (out of the prover's reach, as is `ENABLED`); `SameNodes`, as
`NodeCodec` encodes and decodes nested nodes by `RECURSIVE` operators, and that one undoes the
other for every node is an induction over data.

## 6. Not modelled

* *Core socket*: pairing and QR codes, the cryptography of the handshake, unified sessions and WAM
  buffers, several connections of one object. *Pre-keys*: the digest check and the minimum
  count, signed pre-keys.
* *Key store*: the read-through cache, which no socket uses; calls outside of transactions beside
  transactions on the same record; contexts copied into tasks and timers that outlive the
  transaction (nested transactions take the outer one's context and no lock of their own, which is
  a record updated under another key).
  *File store*: removal, `clear`, the conversion to JSON.
* *Messages*: the bodies of receipts and notifications, the resending of own messages on a
  retry receipt (with recent messages, session recreation, and expiry of the retry manager's
  caches), the debounce of identity changes, tokens of trusted contacts, reporting tokens.
* *Event buffer*: contacts, groups, receipts and reactions, which are merged field by field
  as chats and messages are. *App state*: the contents of mutations, several collections
  in one resync, the order of the reports of two resyncs.
* *Event bus* (a small emitter for `api.py`), *chat requests*, *groups, communities, newsletters,
  business*: one query each, with nothing kept between calls. *Builders, media, crypto helpers,
  device queries*: construction and parsing of payloads, ciphers, HTTP; no state. *Wiring,
  types*: no behaviour of their own. *WAM, token tables, protobuf code*: data and generated
  code, more than 20,000 of the lines. *Rust codec*: a second implementation, optional.
