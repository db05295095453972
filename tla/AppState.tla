------------------------------ MODULE AppState ------------------------------
(***************************************************************************)
(* One app state collection (socket/chats.py 220-428,                      *)
(* utils/chat_utils.py): the server keeps a log of patches, one version    *)
(* each; the client keeps a version, a hash and the index map of what it   *)
(* applied.  Tasks resync (resync_app_state), others patch (app_patch,     *)
(* which resyncs first), in a transaction of the key store or, if the      *)
(* store has none, without.  Other devices patch the same log.             *)
(*                                                                         *)
(* A mutation is its index and the mac of its value, one number each; the  *)
(* hash counts how often each mac was added less how often subtracted.     *)
(* The server and its connection, a queue of requests, are external: it    *)
(* takes a patch made on its last version and ignores any other.           *)
(***************************************************************************)
EXTENDS Integers, Sequences

CONSTANTS
    Indexes,        \* what mutations are about
    Resyncers,      \* tasks of notifications and of the initial sync
    Patchers,       \* tasks of app_patch
    Nobody,         \* sender of a request whose task has given up
    Modes           \* how the client and its surroundings may be

ASSUME TasksAssumption ==
    Resyncers \cap Patchers = {} /\ Nobody \notin Resyncers \cup Patchers
ASSUME ModesAssumption ==
    Modes \subseteq
        [page : Nat \ {0}, maxVersion : Nat, maxMacs : Nat, maxWire : Nat,
         transactional : BOOLEAN, verify : BOOLEAN, emits : BOOLEAN,
         failures : BOOLEAN, missingKeys : BOOLEAN, conflicts : BOOLEAN]

VARIABLE mode       \* the one of this run, which no step changes

Page == mode.page                       \* server: patches in an answer
MaxVersion == mode.maxVersion           \* bound: versions of the log
MaxMacs == mode.maxMacs                 \* bound: mutations made
MaxWire == mode.maxWire                 \* bound: requests under way
Transactional == mode.transactional     \* the key store has transactions
Verify == mode.verify                   \* app_state_mac_verification
Emits == mode.emits                     \* emit_own_events
Failures == mode.failures               \* queries, writes and listeners raise
MissingKeys == mode.missingKeys         \* undecodable patches, lost snapshots
Conflicts == mode.conflicts             \* others patch between resync and patch

Tasks == Resyncers \cup Patchers
Macs == 1 .. MaxMacs
None == 0                               \* no mac at an index
NoMap == [i \in Indexes |-> None]

(* The hash of a map, as every device should have it. *)
Sum(map) == [k \in Macs |-> IF \E i \in Indexes : map[i] = k THEN 1 ELSE 0]

(* new_lthash_state().  A stored None has the version -1, also as the      *)
(* version that a task has not noted yet.  flaws is history, which the     *)
(* code does not keep: what went wrong with a state since the snapshot it  *)
(* comes from.                                                             *)
(*   removal   a removal of the client's own is in its index map (187)     *)
(*   lost      patches were applied without the snapshot they follow       *)
(*   refused   it holds a patch of the client that the server did not take *)
Unset == -1
Fresh == [version |-> 0, map |-> NoMap, hash |-> Sum(NoMap), flaws |-> {}]
NoState == [Fresh EXCEPT !.version = Unset]

VARIABLES
    log,        \* the server's patches
    truth,      \* the map after each of them, the first one empty
    made,       \* mutations made so far
    wire,       \* the client's requests on their way to the server
    store,      \* app-state-sync-version
    pending,    \* the same as the running transaction sees it
    pc,         \* where each task is
    acc,        \* its states[name] or the state that is decoded or encoded
    min,        \* its initial_version_map[name]
    snapshot, patches, more,    \* the answer that it decodes
    tries,      \* its attempts_map[name]
    fresh,      \* mutations of the patches that are decoded
    muts,       \* its global_mutation_map
    reported,   \* macs whose mutations were given to listeners
    untold,     \* history: macs of mutations that a task stored, but no
                \* longer tells
    strayed     \* history: a state with a flaw was stored

server == <<mode, log, truth, made>>
answer == <<snapshot, patches, more>>
local == <<pc, acc, min, answer, tries, fresh, muts>>
telling == <<reported, untold>>
vars == <<server, wire, store, pending, local, telling, strayed>>

Init ==
    /\ mode \in Modes
    /\ log = <<>> /\ truth = <<NoMap>> /\ made = 0 /\ wire = <<>>
    /\ store = NoState /\ pending = NoState
    /\ pc = [t \in Tasks |-> "idle"]
    /\ acc = [t \in Tasks |-> NoState]
    /\ min = [t \in Tasks |-> Unset]
    /\ snapshot = [t \in Tasks |-> NoState]
    /\ patches = [t \in Tasks |-> <<>>]
    /\ more = [t \in Tasks |-> FALSE]
    /\ tries = [t \in Tasks |-> 0]
    /\ fresh = [t \in Tasks |-> NoMap]
    /\ muts = [t \in Tasks |-> NoMap]
    /\ reported = {} /\ untold = {} /\ strayed = FALSE

-----------------------------------------------------------------------------
(* Mutant: nothing is subtracted. *)
MixAdding(s, m, version) ==
    [version |-> version,
     map |-> [s.map EXCEPT ![m.index] = IF m.op = "set" THEN m.mac ELSE None],
     hash |-> [k \in Macs |-> s.hash[k] + IF m.op = "set" /\ k = m.mac THEN 1 ELSE 0],
     flaws |-> s.flaws]

(* make_lt_hash_generator: one mutation mixed into a state.  A removal of  *)
(* nothing raises.                                                         *)
Mixes(s, m) == m.op = "remove" => s.map[m.index] # None
Mix(s, m, version) ==
    [version |-> version,
     map |-> [s.map EXCEPT ![m.index] = IF m.op = "set" THEN m.mac ELSE None],
     hash |-> [k \in Macs |-> s.hash[k]
                 + (IF m.op = "set" /\ k = m.mac THEN 1 ELSE 0)
                 - (IF k = s.map[m.index] THEN 1 ELSE 0)],
     flaws |-> s.flaws]

(* encode_syncd_patch: the same, but the index maps to the patch's mac     *)
(* also when it removes (187).                                             *)
Encoded(s, m) ==
    [Mix(s, m, s.version + 1) EXCEPT
       !.map = [s.map EXCEPT ![m.index] = m.mac],
       !.flaws = IF m.op = "remove" THEN @ \cup {"removal"} ELSE @]

(* What a task reads of the key store. *)
Stored == IF Transactional THEN pending ELSE store
Current == IF Stored = NoState THEN Fresh ELSE Stored
Write(s) ==
    /\ IF Transactional THEN pending' = s /\ UNCHANGED store
                        ELSE store' = s /\ UNCHANGED pending
    /\ strayed' = (strayed \/ s.flaws # {})

Commit(s) ==
    /\ store' = s /\ pending' = NoState
    /\ strayed' = (strayed \/ s.flaws # {})

(* Mutant: what the transaction wrote is kept. *)
RollBackNot == Commit(Stored)

RollBack == pending' = NoState /\ UNCHANGED <<store, strayed>>

(* The end of a task: its work is forgotten, what it asked is not. *)
End(t, next) ==
    /\ pc' = [pc EXCEPT ![t] = next]
    /\ acc' = [acc EXCEPT ![t] = NoState]
    /\ min' = [min EXCEPT ![t] = Unset]
    /\ snapshot' = [snapshot EXCEPT ![t] = NoState]
    /\ patches' = [patches EXCEPT ![t] = <<>>]
    /\ more' = [more EXCEPT ![t] = FALSE]
    /\ tries' = [tries EXCEPT ![t] = 0]
    /\ fresh' = [fresh EXCEPT ![t] = NoMap]

Continue(t, next) ==
    /\ pc' = [pc EXCEPT ![t] = next]
    /\ UNCHANGED <<acc, min, answer, tries, fresh>>

-----------------------------------------------------------------------------
Mutated(t) == {muts[t][i] : i \in Indexes} \ {None}

(* The transaction's lock, and app_patch_mutex around that of a patch. *)
Inside(t) == pc[t] \notin {"idle", "publish"}
Enter(t) ==
    /\ pc[t] = "idle" /\ Len(wire) < MaxWire
    /\ Transactional => \A u \in Tasks : ~Inside(u)
    /\ t \in Patchers => \A u \in Patchers : ~Inside(u)
    /\ Continue(t, "read")
    /\ pending' = IF Transactional THEN store ELSE NoState
    /\ UNCHANGED <<server, wire, store, muts, telling, strayed>>

(* A round of resync_app_state: the stored version is read and the server  *)
(* asked for what follows it.                                              *)
Ask(t) ==
    /\ pc[t] = "read"
    /\ pc' = [pc EXCEPT ![t] = "asked"]
    /\ acc' = [acc EXCEPT ![t] = Current]
    /\ min' = [min EXCEPT ![t] = IF @ = Unset THEN Stored.version ELSE @]
    /\ wire' = Append(wire, [from |-> t, kind |-> "read", version |-> Current.version])
    /\ UNCHANGED <<server, store, pending, answer, tries, fresh, muts, telling, strayed>>

(* A patch's mutation is an event if it is newer than what the task began  *)
(* with (are_mutations_required, should_mutate).                           *)
ShouldMutate(t, version) == version > min[t]

(* decode_syncd_snapshot: the state of the snapshot, stored at once; its   *)
(* mutations count if it is newer than what the task began with.           *)
Newer(map, old) == [i \in Indexes |-> IF map[i] # None THEN map[i] ELSE old[i]]
TakeSnapshot(t) ==
    /\ pc[t] = "decode" /\ snapshot[t] # NoState
    /\ acc' = [acc EXCEPT ![t] = snapshot[t]]
    /\ muts' = IF ShouldMutate(t, snapshot[t].version)
                 THEN [muts EXCEPT ![t] = Newer(snapshot[t].map, @)] ELSE muts
    /\ Write(snapshot[t])
    /\ snapshot' = [snapshot EXCEPT ![t] = NoState]
    /\ UNCHANGED <<server, wire, pc, min, patches, more, tries, fresh, telling>>

(* An external snapshot whose download fails is none, and the patches that *)
(* came with it are applied on the empty state (chat_utils.py 351-354).    *)
LoseSnapshot(t) ==
    /\ MissingKeys
    /\ pc[t] = "decode" /\ snapshot[t] # NoState
    /\ snapshot' = [snapshot EXCEPT ![t] = NoState]
    /\ acc' = [acc EXCEPT ![t].flaws = @ \cup {"lost"}]
    /\ UNCHANGED <<server, wire, store, pending, pc, min, patches, more, tries, fresh,
                   muts, telling, strayed>>

(* Mutant: the hashes are not compared. *)
SoundUnverified(s, patch) == Mixes(s, patch)

Ready(t) ==
    pc[t] \in {"decode", "patching"} /\ snapshot[t] = NoState /\ patches[t] # <<>>
Sound(s, patch) ==
    /\ Mixes(s, patch)
    /\ Verify => Mix(s, patch, patch.version).hash = patch.sum

(* decode_patches, one patch: its version, its mutation mixed in and, when *)
(* macs are verified, the hash compared with the one its author had.       *)
TakePatch(t) ==
    /\ Ready(t)
    /\ LET patch == Head(patches[t]) IN
         /\ Sound(acc[t], patch)
         /\ acc' = [acc EXCEPT ![t] = Mix(@, patch, patch.version)]
         /\ fresh' = IF ShouldMutate(t, patch.version)
                       THEN [fresh EXCEPT ![t][patch.index] = patch.mac] ELSE fresh
    /\ patches' = [patches EXCEPT ![t] = Tail(@)]
    /\ pc' = [pc EXCEPT ![t] = "patching"]
    /\ UNCHANGED <<server, wire, store, pending, min, snapshot, more, tries, muts, telling,
                   strayed>>

(* After the last one the state is stored ... *)
StorePatches(t) ==
    /\ pc[t] = "patching" /\ patches[t] = <<>>
    /\ Write(acc[t])
    /\ min' = [min EXCEPT ![t] = acc[t].version]
    /\ muts' = [muts EXCEPT ![t] = Newer(fresh[t], @)]
    /\ fresh' = [fresh EXCEPT ![t] = NoMap]
    /\ pc' = [pc EXCEPT ![t] = "decode"]
    /\ UNCHANGED <<server, wire, acc, answer, tries, telling>>

(* ... and another round follows if the server has more patches. *)
Round(t) ==
    /\ pc[t] = "decode" /\ snapshot[t] = NoState /\ patches[t] = <<>>
    /\ Continue(t, IF more[t] THEN "read" ELSE "done")
    /\ UNCHANGED <<server, wire, store, pending, muts, telling, strayed>>

(* Whatever raises removes the state, to start from a snapshot; the second *)
(* time, or when it cannot help (404, TypeError), the task is content with *)
(* none (MAX_SYNC_ATTEMPTS).                                               *)
DecodeFails(t) ==
    /\ \/ Ready(t) /\ (MissingKeys \/ ~Sound(acc[t], Head(patches[t])))
       \/ MissingKeys /\ pc[t] = "decode" /\ snapshot[t] # NoState
    /\ tries' = [tries EXCEPT ![t] = @ + 1]
    /\ Write(NoState)
    /\ snapshot' = [snapshot EXCEPT ![t] = NoState]
    /\ patches' = [patches EXCEPT ![t] = <<>>]
    /\ fresh' = [fresh EXCEPT ![t] = NoMap]
    /\ \E next \in {"done"} \cup IF tries[t] + 1 < 2 THEN {"read"} ELSE {} :
         /\ next = "done" => MissingKeys \/ tries[t] + 1 = 2
         /\ pc' = [pc EXCEPT ![t] = next]
    /\ UNCHANGED <<server, wire, acc, min, more, muts, telling>>

(* A resync ends: it commits, then gives its mutations to listeners.       *)
(* Within app_patch it has no transaction of its own to commit.            *)
Finish(t) ==
    /\ pc[t] = "done"
    /\ \/ t \in Resyncers /\ Commit(Stored) /\ End(t, "publish")
       \/ t \in Patchers /\ End(t, "tell") /\ UNCHANGED <<store, pending, strayed>>
    /\ UNCHANGED <<server, wire, muts, telling>>

(* The mutations are given to listeners one by one, each of which may      *)
(* suspend.  Then a resync is over and app_patch goes on.                  *)
Publish(t) ==
    /\ pc[t] \in {"publish", "tell"}
    /\ \/ \E i \in Indexes :
            /\ muts[t][i] # None
            /\ reported' = reported \cup {muts[t][i]}
            /\ muts' = [muts EXCEPT ![t][i] = None]
            /\ Continue(t, pc[t])
       \/ /\ Mutated(t) = {}
          /\ Continue(t, IF pc[t] = "tell" THEN "encode" ELSE "idle")
          /\ UNCHANGED <<muts, reported>>
    /\ UNCHANGED <<server, wire, store, pending, untold, strayed>>

(* A listener raises or the task is cancelled: what it has committed and   *)
(* not told yet it does not tell.                                          *)
StopPublishing(t) ==
    /\ Failures /\ pc[t] = "publish"
    /\ untold' = untold \cup Mutated(t)
    /\ muts' = [muts EXCEPT ![t] = NoMap]
    /\ Continue(t, "idle")
    /\ UNCHANGED <<server, wire, store, pending, reported, strayed>>

(* app_patch: the patch is made on the stored state and sent with the      *)
(* version it was made on.                                                 *)
Push(t, i, op) ==
    /\ pc[t] = "encode" /\ Len(log) < MaxVersion /\ made < MaxMacs
    /\ LET m == [index |-> i, op |-> op, mac |-> made + 1]
           state == Encoded(Current, m) IN
         /\ Mixes(Current, m)
         /\ acc' = [acc EXCEPT ![t] = state]
         /\ fresh' = [fresh EXCEPT ![t][i] = m.mac]
         /\ wire' = Append(wire,
              [from |-> t, kind |-> "push", version |-> Current.version,
               patch |-> [index |-> i, op |-> op, mac |-> m.mac,
                          version |-> state.version, sum |-> state.hash]])
    /\ made' = made + 1
    /\ pc' = [pc EXCEPT ![t] = "pushed"]
    /\ UNCHANGED <<mode, log, truth, store, pending, min, answer, tries, muts, telling, strayed>>

(* The query returned, whatever the answer: the state is stored and        *)
(* committed, and with emit_own_events the client's own mutation is its    *)
(* event.                                                                  *)
StorePush(t) ==
    /\ pc[t] = "answered"
    /\ Commit(acc[t]) /\ End(t, "publish")
    /\ IF Emits
       THEN muts' = [muts EXCEPT ![t] = fresh[t]] /\ UNCHANGED untold
       ELSE untold' = untold \cup {fresh[t][i] : i \in Indexes} /\ UNCHANGED muts
    /\ UNCHANGED <<server, wire, reported>>

(* A query times out, a commit or a listener fails, the task is cancelled, *)
(* a patch cannot be made (a removal of nothing): the task raises and its  *)
(* transaction rolls back.  What it asked is still under way.              *)
Raise(t) ==
    /\ \/ Failures /\ Inside(t)
       \/ pc[t] = "encode"
    /\ RollBack /\ End(t, "idle")
    /\ muts' = [muts EXCEPT ![t] = NoMap]
    /\ wire' = [n \in DOMAIN wire |->
                  IF wire[n].from = t THEN [wire[n] EXCEPT !.from = Nobody] ELSE wire[n]]
    /\ UNCHANGED <<server, telling>>

-----------------------------------------------------------------------------
(* The server answers with a snapshot, if the client has nothing, and the  *)
(* patches that follow, a page of them.                                    *)
Least(a, b) == IF a < b THEN a ELSE b
Server == wire # <<>> /\ wire' = Tail(wire)
ServeRead ==
    /\ Server /\ Head(wire).kind = "read"
    /\ LET t == Head(wire).from
           version == Head(wire).version IN
       IF t = Nobody THEN UNCHANGED local
       ELSE \E at \in IF version > 0 \/ log = <<>> THEN {version} ELSE 1 .. Len(log) :
         LET last == Least(at + Page, Len(log)) IN
         /\ snapshot' = [snapshot EXCEPT ![t] =
              IF at = version THEN NoState
              ELSE [version |-> at, map |-> truth[at + 1], hash |-> Sum(truth[at + 1]),
                    flaws |-> {}]]
         /\ patches' = [patches EXCEPT ![t] = SubSeq(log, at + 1, last)]
         /\ more' = [more EXCEPT ![t] = last < Len(log)]
         /\ pc' = [pc EXCEPT ![t] = "decode"]
         /\ UNCHANGED <<acc, min, tries, fresh, muts>>
    /\ UNCHANGED <<server, store, pending, telling, strayed>>

(* A patch made on the last version is the next one.  The answer to any    *)
(* other tells so, which app_patch does not read.                          *)
After(map, m) == [map EXCEPT ![m.index] = IF m.op = "set" THEN m.mac ELSE None]
ServePush ==
    /\ Server /\ Head(wire).kind = "push"
    /\ LET request == Head(wire)
           t == request.from
           taken == request.version = Len(log) IN
         /\ IF taken
            THEN /\ log' = Append(log, request.patch)
                 /\ truth' = Append(truth, After(truth[Len(truth)], request.patch))
            ELSE UNCHANGED <<log, truth>>
         /\ pc' = IF t = Nobody THEN pc ELSE [pc EXCEPT ![t] = "answered"]
         /\ acc' = IF t = Nobody \/ taken THEN acc
                   ELSE [acc EXCEPT ![t].flaws = @ \cup {"refused"}]
    /\ UNCHANGED <<mode, made, store, pending, min, answer, tries, fresh, muts, telling, strayed>>

(* Another device patches, on the last version. *)
Patching(t) == t \in Patchers /\ pc[t] \in {"decode", "patching", "done", "tell", "encode", "pushed"}
OtherPatch(i, op) ==
    /\ Len(log) < MaxVersion /\ made < MaxMacs
    /\ Conflicts \/ \A t \in Tasks : ~Patching(t)
    /\ LET last == truth[Len(truth)]
           m == [index |-> i, op |-> op, mac |-> made + 1] IN
         /\ op = "remove" => last[i] # None
         /\ log' = Append(log, [index |-> i, op |-> op, mac |-> m.mac,
                                 version |-> Len(log) + 1, sum |-> Sum(After(last, m))])
         /\ truth' = Append(truth, After(last, m))
    /\ made' = made + 1
    /\ UNCHANGED <<mode, wire, store, pending, local, telling, strayed>>

Step(t) ==
    \/ Ask(t) \/ TakeSnapshot(t) \/ LoseSnapshot(t) \/ TakePatch(t) \/ StorePatches(t)
    \/ Round(t) \/ DecodeFails(t) \/ Finish(t) \/ StorePush(t) \/ Publish(t)
    \/ StopPublishing(t)

Next ==
    \/ \E t \in Tasks : Enter(t) \/ Step(t) \/ Raise(t)
    \/ \E t \in Patchers, i \in Indexes, op \in {"set", "remove"} : Push(t, i, op)
    \/ ServeRead \/ ServePush
    \/ \E i \in Indexes, op \in {"set", "remove"} : OtherPatch(i, op)

Spec == Init /\ [][Next]_vars

-----------------------------------------------------------------------------
(* The client's state is the server's of the same version, map and hash. *)
IsServers(s) ==
    s # NoState =>
      /\ s.version \in 0 .. Len(log)
      /\ s.map = truth[s.version + 1] /\ s.hash = Sum(s.map)

(* What is stored is what the server has at that version, in stores with   *)
(* and without transactions, with answers that come too late or never and  *)
(* other devices patching (chats.py 266-318, 363-406).  It is not, until   *)
(* the next snapshot, once a removal of the client's own, a lost snapshot  *)
(* or a patch the server refused has gone into it (chat_utils.py 187 and   *)
(* 351, chats.py 377).                                                     *)
StoreIsServers == store.flaws = {} => IsServers(store)

(* In a store with transactions whatever is stored listeners were told, or *)
(* a task that has committed is about to tell them (chats.py 336-339,      *)
(* 412-426).  Not so what a task was stopped from telling, own mutations   *)
(* without emit_own_events, and everything once a state with a flaw was    *)
(* stored: the snapshot that corrects it may be no newer than the flawed   *)
(* version, and so tell nothing.                                           *)
Held == {muts[t][i] : t \in {u \in Tasks : pc[u] = "publish"}, i \in Indexes}
NothingUnreported ==
    Transactional /\ ~strayed =>
        \A i \in Indexes : store.map[i] \in reported \cup Held \cup untold \cup {None}

(* With macs verified a patch whose author had the right hash is applied   *)
(* on the right state only: the client then has the server's, also if it   *)
(* lost a snapshot or stored a patch the server refused before             *)
(* (chat_utils.py 477-491).  A removal of the client's own that its index  *)
(* map still holds (187) the hash does not tell, but then the server has   *)
(* nothing at that index: no later change of it was mixed in wrongly.      *)
PatchHeals ==
    Verify => \A t \in Tasks :
        LET v == acc[t].version IN
        pc[t] = "patching" /\ log[v].sum = Sum(truth[v + 1]) =>
          /\ acc[t].hash = Sum(truth[v + 1])
          /\ \A i \in Indexes :
               \/ acc[t].map[i] = truth[v + 1][i]
               \/ "removal" \in acc[t].flaws /\ truth[v + 1][i] = None
=============================================================================
