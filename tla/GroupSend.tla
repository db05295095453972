------------------------------ MODULE GroupSend ------------------------------
(***************************************************************************)
(* Messages to one group (relay_message of socket/messages_send.py,        *)
(* encrypt_group_message of signal/libsignal.py): the record of the own    *)
(* sender key and the memory of the devices that have it are two files,    *)
(* changed in a transaction of the key store, if it has them, or one by    *)
(* one.  Each send is a task and sends one message; what answers a retry   *)
(* receipt is one of them (send_messages_again, messages_recv.py 987).     *)
(* The devices keep records and decrypt as the repository does             *)
(* (SenderKeys); which device is given what, and when, is external.        *)
(***************************************************************************)
EXTENDS SenderKeys, FileStore, FiniteSets

CONSTANTS
    Sends,          \* the tasks that call relay_message
    Devices,        \* the other devices of the group
    None,           \* nothing in hand
    Attempts,       \* max_commit_retries
    MaxFaults,      \* bound: failures, cancellations and repeated deliveries
    MaxCrashes      \* bound: ends of the process

ASSUME GroupAssumption ==
    /\ None \notin Sends \cup Devices
    /\ Attempts \in Nat \ {0} /\ MaxFaults \in Nat /\ MaxCrashes \in Nat

Record == "sender-key"
Memory == "sender-key-memory"
ASSUME FilesAssumption == Files = {Record, Memory}
(* No file and a torn one are told from whatever is written. *)
ASSUME ValuesAssumption ==
    \A x \in {Absent, Torn} :
        /\ x \notin Seq([id : Nat, chain : Nat, keys : Seq(Nat)])
        /\ \A D \in SUBSET Devices : x # D

VARIABLES
    transactional,  \* the key store has transactions
    pc, memo, key, skdm, due, attempt,   \* of each send: see Begin
    loaded,         \* the record a send has loaded, without transactions
    ctx,            \* what the running transaction has written
    net,            \* stanzas under way, one for each device
    records,        \* the devices' records
    ids, faults, crashes,                \* bounds
    left,           \* history: sends whose stanza has left
    unsaved,        \* history: of these, those whose record was not saved
    cut,            \* history: a commit was left with some of its files written
    raced,          \* history: a send wrote the record while another had it loaded
    keyed,          \* history: keys each device was given, in order, with repeats
    spared,         \* history: devices remembered without the key
    opened,         \* history: ciphertexts each device decrypted, with repeats
    refused         \* history: those it could not

hand == <<pc, memo, key, skdm, due, attempt, loaded>>
peers == <<net, records, keyed, opened, refused>>
bounds == <<ids, faults, crashes>>
history == <<left, unsaved, cut, raced, spared>>
vars == <<fileVars, transactional, hand, ctx, peers, bounds, history>>

Nothing == [f \in {} |-> None]

(* A group that nothing was sent to, or that one message was sent to and   *)
(* every device has read.                                                  *)
Init ==
    /\ transactional \in BOOLEAN
    /\ ids \in {0, 1}
    /\ LET sent(x, y) == IF ids = 0 THEN x ELSE y
           after == <<Derived(State(1, 0), 0)>> IN
         /\ InitFiles([f \in Files |->
              sent(Absent, IF f = Record THEN after ELSE Devices)])
         /\ records = [d \in Devices |-> sent(<<>>, after)]
         /\ keyed = [d \in Devices |-> sent(<<>>, <<[id |-> 1, chain |-> 0]>>)]
         /\ opened = [d \in Devices |-> sent(<<>>, <<[id |-> 1, i |-> 0]>>)]
    /\ pc = [s \in Sends |-> "idle"]
    /\ memo = [s \in Sends |-> {}]
    /\ key = [s \in Sends |-> None]
    /\ skdm = [s \in Sends |-> None]
    /\ due = [s \in Sends |-> {}]
    /\ attempt = [s \in Sends |-> 0]
    /\ loaded = [s \in Sends |-> None]
    /\ ctx = Nothing
    /\ net = {}
    /\ faults = 0 /\ crashes = 0
    /\ left = {} /\ unsaved = {} /\ cut = FALSE /\ raced = FALSE /\ spared = {}
    /\ refused = [d \in Devices |-> {}]

-----------------------------------------------------------------------------
(* The key store as a send sees it: a transaction has what it has read and *)
(* written; without one a record is loaded, with the lock of its file, and *)
(* stored later on, with the lock taken again.                             *)
Ended(s) == pc[s] \in {"idle", "sent", "failed"}
Free == \A s \in Sends : Ended(s)
Value(f) == IF f \in DOMAIN ctx THEN ctx[f] ELSE files[f]
CanGet(f) == f \in DOMAIN ctx \/ Readable(f)
Get(f) == CanGet(f) /\ Value(f) # Torn

Put(s, f, value) ==
    IF transactional
    THEN /\ ctx' = [g \in DOMAIN ctx \cup {f} |-> IF g = f THEN value ELSE ctx[g]]
         /\ UNCHANGED fileVars
    ELSE /\ lines' = Queued(f, s, value)
         /\ UNCHANGED <<files, strays, damaged, ctx>>

Holds(s) == IF transactional THEN Get(Record) ELSE loaded[s] # None
RecordOf(s) == IF transactional THEN Value(Record) ELSE loaded[s]
NoState(record) == record \in {Absent, <<>>}
Forgets(s) == loaded' = [loaded EXCEPT ![s] = None]
Overtakes(s) == raced' = (raced \/ \E t \in Sends \ {s} : loaded[t] # None)

Goto(s, place) == pc' = [pc EXCEPT ![s] = place]
At(s, place) == pc[s] = place /\ Settled(s)

(* A send takes the transaction of its own id ... *)
Begin(s) ==
    /\ pc[s] = "idle"
    /\ transactional => Free
    /\ Goto(s, "memory")
    /\ UNCHANGED <<fileVars, transactional, memo, key, skdm, due, attempt, loaded, ctx,
                   peers, bounds, history>>

(* ... reads who has the key (729-732), then looks up the devices of the   *)
(* group.                                                                  *)
ReadMemory(s) ==
    /\ At(s, "memory") /\ Get(Memory)
    /\ memo' = [memo EXCEPT ![s] = IF Value(Memory) = Absent THEN {} ELSE Value(Memory)]
    /\ Goto(s, IF transactional THEN "create" ELSE "blank")
    /\ UNCHANGED <<fileVars, transactional, key, skdm, due, attempt, loaded, ctx,
                   peers, bounds, history>>

(* Without transactions: the record is loaded, once before each of the     *)
(* three steps that may store it.                                          *)
Load(s) ==
    /\ ~transactional /\ pc[s] \in {"blank", "create", "encrypt"} /\ Settled(s)
    /\ loaded[s] = None /\ Get(Record)
    /\ loaded' = [loaded EXCEPT ![s] = Value(Record)]
    /\ UNCHANGED <<fileVars, transactional, pc, memo, key, skdm, due, attempt, ctx,
                   peers, bounds, history>>

(* encrypt_group_message stores an empty record if there is none; nobody   *)
(* sees that one in a transaction.                                         *)
StoreBlank(s) ==
    /\ At(s, "blank") /\ Holds(s)
    /\ IF RecordOf(s) = Absent
       THEN Put(s, Record, <<>>) /\ Overtakes(s)
       ELSE UNCHANGED <<fileVars, ctx, raced>>
    /\ Forgets(s) /\ Goto(s, "create")
    /\ UNCHANGED <<transactional, memo, key, skdm, due, attempt, peers, bounds, left,
                   unsaved, cut, spared>>

(* builder.create: a new key if the record has none; the distribution      *)
(* message is of the state that the record has now.  What a transaction    *)
(* has read it does not read again.                                        *)
CreateKey(s) ==
    /\ At(s, "create") /\ Holds(s)
    /\ LET record == RecordOf(s) IN
       IF NoState(record)
       THEN /\ ids' = ids + 1
            /\ skdm' = [skdm EXCEPT ![s] = [id |-> ids + 1, chain |-> 0]]
            /\ Put(s, Record, SetState(ids + 1)) /\ Overtakes(s)
       ELSE /\ skdm' = [skdm EXCEPT ![s] = [id |-> Last(record).id, chain |-> Last(record).chain]]
            /\ IF transactional THEN Put(s, Record, record)
                                ELSE UNCHANGED <<fileVars, ctx>>
            /\ UNCHANGED <<ids, raced>>
    /\ Forgets(s) /\ Goto(s, "encrypt")
    /\ UNCHANGED <<transactional, memo, key, due, attempt, peers, faults, crashes, left,
                   unsaved, cut, spared>>

(* Mutant: the record is not stored. *)
EncryptUnsaved(s) ==
    /\ At(s, "encrypt") /\ Holds(s) /\ ~NoState(RecordOf(s))
    /\ LET state == Last(RecordOf(s)) IN
         key' = [key EXCEPT ![s] = [id |-> state.id, i |-> Iteration(state)]]
    /\ Forgets(s) /\ Goto(s, "address")
    /\ UNCHANGED <<fileVars, ctx, transactional, memo, skdm, due, attempt, peers, bounds,
                   history>>

(* GroupCipher.encrypt: the record is read again, and stored. *)
Encrypt(s) ==
    /\ At(s, "encrypt") /\ Holds(s) /\ ~NoState(RecordOf(s))
    /\ LET record == RecordOf(s)
           i == Iteration(Last(record)) IN
         /\ key' = [key EXCEPT ![s] = [id |-> Last(record).id, i |-> i]]
         /\ Put(s, Record, [record EXCEPT ![Len(record)] = Derived(@, i)])
    /\ Overtakes(s) /\ Forgets(s) /\ Goto(s, "address")
    /\ UNCHANGED <<transactional, memo, skdm, due, attempt, peers, bounds, left, unsaved,
                   cut, spared>>

(* Mutant: devices are remembered that the group has not sent the key.     *)
AddressAll(s) ==
    /\ At(s, "address") /\ Goto(s, "remember")
    /\ memo' = [memo EXCEPT ![s] = Devices]
    /\ UNCHANGED <<fileVars, transactional, key, skdm, due, attempt, loaded, ctx, peers,
                   bounds, history>>

(* The devices that are not remembered are remembered, and the key is      *)
(* encrypted for each of them (796-819): those it fails for are left out,  *)
(* unless it fails for all.                                                *)
Fault == faults < MaxFaults /\ faults' = faults + 1
Address(s) ==
    /\ At(s, "address")
    /\ LET missing == Devices \ memo[s] IN
       \E failing \in SUBSET missing :
         /\ IF failing = {} THEN UNCHANGED faults ELSE Fault
         /\ IF missing # {} /\ failing = missing
            THEN /\ Goto(s, "raise")
                 /\ UNCHANGED <<memo, due, spared>>
            ELSE /\ Goto(s, "remember")
                 /\ due' = [due EXCEPT ![s] = missing \ failing]
                 /\ memo' = [memo EXCEPT ![s] = Devices]
                 /\ spared' = spared \cup {<<d, skdm[s].id>> : d \in failing}
    /\ UNCHANGED <<fileVars, transactional, key, skdm, attempt, loaded, ctx, peers,
                   ids, crashes, left, unsaved, cut, raced>>

Remember(s) ==
    /\ At(s, "remember")
    /\ Put(s, Memory, memo[s])
    /\ Goto(s, "send")
    /\ UNCHANGED <<transactional, memo, key, skdm, due, attempt, loaded, peers, bounds,
                   history>>

(* send_node: one stanza, which every device of the group is given, with   *)
(* the key for those it is due to.                                         *)
Stanza(s, d) ==
    [to |-> d, message |-> s, id |-> key[s].id, i |-> key[s].i,
     skdm |-> IF d \in due[s] THEN skdm[s] ELSE None]
Leave(s) ==
    /\ net' = net \cup {Stanza(s, d) : d \in Devices}
    /\ left' = left \cup {s}
Send(s) ==
    /\ At(s, "send")
    /\ Leave(s)
    /\ Goto(s, IF transactional THEN "commit" ELSE "sent")
    /\ UNCHANGED <<fileVars, transactional, memo, key, skdm, due, attempt, loaded, ctx, records,
                   keyed, opened, refused, bounds, unsaved, cut, raced, spared>>

(* It raises, before the stanza has left or after. *)
Unsent(s) == {<<d, skdm[s].id>> : d \in due[s]}
SendRaises(s) ==
    /\ At(s, "send") /\ Fault
    /\ \/ Leave(s) /\ UNCHANGED spared
       \/ spared' = spared \cup Unsent(s) /\ UNCHANGED <<net, left>>
    /\ Goto(s, "raise")
    /\ UNCHANGED <<fileVars, transactional, memo, key, skdm, due, attempt, loaded, ctx,
                   records, keyed, opened, refused, ids, crashes, unsaved, cut, raced>>

(* The transaction commits: both files are written at once, again if one   *)
(* of them fails.                                                          *)
Commit(s) ==
    /\ pc[s] = "commit" /\ attempt[s] < Attempts
    /\ lines' = [f \in Files |-> IF f \in DOMAIN ctx
                                 THEN Append(lines[f], Job(s, ctx[f])) ELSE lines[f]]
    /\ attempt' = [attempt EXCEPT ![s] = @ + 1]
    /\ Goto(s, "committing")
    /\ UNCHANGED <<files, strays, damaged, transactional, memo, key, skdm, due, loaded, ctx,
                   peers, bounds, history>>

Committed(s) ==
    /\ At(s, "committing")
    /\ Goto(s, "sent") /\ ctx' = Nothing
    /\ UNCHANGED <<fileVars, transactional, memo, key, skdm, due, attempt, loaded, peers,
                   bounds, history>>

(* A write raises: the send does, or the commit is tried again.  Nobody    *)
(* hears of a second one that fails: the first has ended the waiting, and  *)
(* the rest goes on alone.                                                 *)
Heard(f, s) ==
    /\ ~Ended(s) /\ pc[s] \notin {"commit", "raise"}
    /\ \A n \in 2 .. Len(lines[f]) : lines[f][n].task # s
FailWrite(f) ==
    /\ FailFile(f) /\ Fault
    /\ LET s == Head(lines[f]).task IN
       IF Heard(f, s)
       THEN Goto(s, IF transactional /\ attempt[s] < Attempts THEN "commit" ELSE "raise")
       ELSE UNCHANGED pc
    /\ UNCHANGED <<transactional, memo, key, skdm, due, attempt, loaded, ctx, peers, ids,
                   crashes, history>>

-----------------------------------------------------------------------------
Lost(S) ==
    /\ unsaved' = unsaved \cup (S \cap left)
    /\ cut' = (cut \/ \E s \in S : attempt[s] > 0)

(* An exception, of the send itself, of a query for the devices and their  *)
(* sessions, of a file that cannot be read or a record without a state:    *)
(* the transaction rolls back.                                             *)
Raise(s) ==
    /\ \/ pc[s] = "raise" /\ UNCHANGED faults
       \/ At(s, "memory") /\ CanGet(Memory) /\ Value(Memory) = Torn /\ UNCHANGED faults
       \/ /\ At(s, "blank") \/ At(s, "create") \/ At(s, "encrypt")
          /\ loaded[s] = None /\ CanGet(Record) /\ Value(Record) = Torn /\ UNCHANGED faults
       \/ At(s, "encrypt") /\ Holds(s) /\ NoState(RecordOf(s)) /\ UNCHANGED faults
       \/ (At(s, "create") \/ At(s, "address")) /\ Fault
    /\ Goto(s, "failed") /\ Forgets(s)
    /\ ctx' = Nothing
    /\ Lost({s})
    /\ UNCHANGED <<fileVars, transactional, memo, key, skdm, due, attempt, peers,
                   ids, crashes, left, raced, spared>>

(* The caller is cancelled, wherever it waits; its threads are not. *)
Cancel(s) ==
    /\ ~Ended(s) /\ Fault
    /\ Abandon(s)
    /\ Goto(s, "failed") /\ Forgets(s)
    /\ ctx' = Nothing
    /\ Lost({s})
    /\ spared' = IF s \in left \/ pc[s] # "send" THEN spared ELSE spared \cup Unsent(s)
    /\ UNCHANGED <<transactional, memo, key, skdm, due, attempt, peers, ids,
                   crashes, left, raced>>

(* The process ends and starts again with its files. *)
Crash ==
    /\ crashes < MaxCrashes /\ crashes' = crashes + 1
    /\ CrashFiles
    /\ LET gone == {s \in Sends : ~Ended(s)} IN
         /\ pc' = [s \in Sends |-> IF s \in gone THEN "failed" ELSE pc[s]]
         /\ Lost(gone)
         /\ spared' = spared \cup UNION {Unsent(s) : s \in {t \in gone \ left : pc[t] = "send"}}
    /\ loaded' = [s \in Sends |-> None] /\ ctx' = Nothing
    /\ UNCHANGED <<transactional, memo, key, skdm, due, attempt, peers, ids, faults, left,
                   raced>>

-----------------------------------------------------------------------------
(* A device is given a stanza, in any order, or once more: it processes    *)
(* the key and decrypts.                                                   *)
Deliver(m) ==
    /\ m \in net
    /\ \/ net' = net \ {m} /\ UNCHANGED faults
       \/ Fault /\ UNCHANGED net
    /\ LET d == m.to
           record == IF m.skdm = None THEN records[d]
                     ELSE AddState(records[d], m.skdm.id, m.skdm.chain) IN
         /\ keyed' = IF m.skdm = None THEN keyed ELSE [keyed EXCEPT ![d] = Append(@, m.skdm)]
         /\ IF Decrypts(record, m.id, m.i)
            THEN /\ records' = [records EXCEPT ![d] = Decrypted(record, m.id, m.i)]
                 /\ opened' = [opened EXCEPT ![d] = Append(@, [id |-> m.id, i |-> m.i])]
                 /\ UNCHANGED refused
            ELSE /\ records' = [records EXCEPT ![d] = record]
                 /\ refused' = [refused EXCEPT ![d] = @ \cup {[id |-> m.id, i |-> m.i]}]
                 /\ UNCHANGED opened
    /\ UNCHANGED <<fileVars, transactional, hand, ctx, ids, crashes, history>>

Write(f) == (OpenFile(f) \/ WriteFile(f)) /\ UNCHANGED
              <<transactional, hand, ctx, peers, bounds, history>>
Stray(f) == StrayWrites(f) /\ UNCHANGED
              <<transactional, hand, ctx, peers, bounds, history>>

Next ==
    \/ \E s \in Sends :
         \/ Begin(s) \/ ReadMemory(s) \/ Load(s) \/ StoreBlank(s) \/ CreateKey(s) \/ Encrypt(s)
         \/ Address(s) \/ Remember(s) \/ Send(s) \/ Commit(s) \/ Committed(s)
         \/ SendRaises(s) \/ Raise(s) \/ Cancel(s)
    \/ \E f \in Files : Write(f) \/ FailWrite(f) \/ Stray(f)
    \/ \E m \in net : Deliver(m)
    \/ Crash

Spec == Init /\ [][Next]_vars
-----------------------------------------------------------------------------
(* With transactions, two messages have the same key of a chain only if    *)
(* the record of one of them was never saved: it left in a transaction     *)
(* that was then rolled back (messages_send.py 987-992).                   *)
NoKeyReuse ==
    transactional =>
        \A s, t \in left : s # t /\ key[s] = key[t] => s \in unsaved \/ t \in unsaved

(* A device that the memory says has the key of the record was sent it, or *)
(* is being sent it, or is one that the encryption or the send failed for, *)
(* unless a commit was cut short or, without transactions, a send stored   *)
(* the record while another had it loaded: of two first sends one makes a  *)
(* key that the other's replaces (messages_send.py 796-821, libsignal.py   *)
(* 243-246, auth_utils.py 218-228).                                        *)
WasSent(d, id) ==
    \E s \in Sends : d \in due[s] /\ skdm[s].id = id /\ (s \in left \/ ~Ended(s))
RememberedHaveKey ==
    /\ Readable(Record) /\ Readable(Memory) /\ damaged = {} /\ ~cut /\ ~raced
    /\ \A f \in Files : ~Straying(f)
    /\ files[Record] # Absent /\ files[Memory] # Absent
    => \A d \in files[Memory] :
         LET id == Last(files[Record]).id IN
         \/ WasSent(d, id) \/ <<d, id>> \in spared
         \/ \E n \in DOMAIN keyed[d] : keyed[d][n].id = id

Given(d, id) == {n \in DOMAIN keyed[d] : keyed[d][n].id = id}
FirstGiven(d, id) == keyed[d][CHOOSE n \in Given(d, id) : \A m \in Given(d, id) : n <= m]
Opens(d, c) == {n \in DOMAIN opened[d] : opened[d][n] = c}
RoomFor(d, c) ==
    /\ Len(keyed[d]) <= MaxStates
    /\ c.i - FirstGiven(d, c.id).chain <= MaxFuture
    /\ \A n \in DOMAIN opened[d] :
         opened[d][n].id = c.id => opened[d][n].i - c.i <= MaxKeys

(* No device decrypts one ciphertext twice, unless it was given the key of *)
(* it twice; and it refuses one only if it has not got the key, got it     *)
(* first from a later iteration on, has decrypted the ciphertext before or *)
(* had no room for the state or the message key, however messages are      *)
(* reordered and repeated (group_cipher.py 86-110).                        *)
AsGiven ==
    \A d \in Devices : \A n \in DOMAIN opened[d] :
        Cardinality(Opens(d, opened[d][n])) <= Cardinality(Given(d, opened[d][n].id))
RefusedForReason ==
    \A d \in Devices : \A c \in refused'[d] \ refused[d] :
         \/ Given(d, c.id)' = {}
         \/ FirstGiven(d, c.id)'.chain > c.i
         \/ Opens(d, c) # {}
         \/ ~RoomFor(d, c)'
OpenedOnce == [][AsGiven' /\ RefusedForReason]_vars
=============================================================================
