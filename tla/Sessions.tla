------------------------------ MODULE Sessions ------------------------------
(***************************************************************************)
(* The Signal sessions with one device of a contact                        *)
(* (signal/libsignal.py), who has a phone number and a LID, and the tasks  *)
(* that use them: sends (socket/messages_send.py: get_usync_devices,       *)
(* assert_sessions, create_participant_nodes), the receipt of a pkmsg, a   *)
(* retry receipt, a changed identity (utils/identity_change_handler.py),   *)
(* and a mapping that arrives.  A task awaits every access to the key      *)
(* store, which runs no transactions here, the server, and the lookups of  *)
(* LidMapping.                                                             *)
(***************************************************************************)
EXTENDS Naturals, LidMapping

CONSTANTS
    Operations,     \* the operations, with the names they may be about
    MaxOps,         \* bound: operations that begin
    MaxFaults       \* bound: cancelled tasks, and answers without a bundle

Names == {"pn", "lid"}
PhoneOperations == {"devices", "mapping", "migrate"} \X {"pn"}
NameOperations == {"send", "receive", "retry", "identity"} \X Names

ASSUME SessionsAssumption ==
    /\ NoTask \notin Tasks /\ MaxOps \in Nat /\ MaxFaults \in Nat
    /\ Operations \subseteq PhoneOperations \cup NameOperations

VARIABLES
    session,        \* the key at the address of every name
    migrated,       \* migrated_session_cache
    cache,          \* _peer_sessions_cache: "unset", "yes" or "no"
    mutex,          \* _encryption_mutex, by name
    task,           \* what every task does
    reasons,        \* history: why a name that is trusted may have no session
    ops, faults

sessions == <<session, migrated, reasons>>
vars == <<mapping, sessions, cache, mutex, task, ops, faults>>

(* A key is none, that of a bundle, or made up by a task for a name. *)
Key(kind, name, t) == [kind |-> kind, name |-> name, task |-> t]
NoKey == Key("none", "pn", NoTask)
Agreed == Key("agreed", "pn", NoTask)
MadeUp(name, t) == Key("made", name, t)

(* Where the sessions of a name are, by the stored mapping. *)
At(name) == IF mapped THEN "lid" ELSE name

(* A task: its operation, the name it is about, whether it forces; where it*)
(* is; the address that a lookup gave, and where it goes on from there.    *)
Idle == [op |-> "none", name |-> "pn", force |-> FALSE, pc |-> "idle",
         addr |-> "pn", wire |-> "pn", then |-> "idle", moved |-> NoKey]

Init ==
    /\ InitMapping
    /\ session = [n \in Names |-> NoKey]
    /\ migrated = FALSE
    /\ cache = [n \in Names |-> "unset"]
    /\ mutex = [n \in Names |-> NoTask]
    /\ task = [t \in Tasks |-> Idle]
    /\ reasons = [n \in Names |-> {}]
    /\ ops = 0 /\ faults = 0

-----------------------------------------------------------------------------
(* Going on. *)
In(t, pc) == task[t].pc = pc
Become(t, r) == task' = [task EXCEPT ![t] = r]
Goto(t, pc) == Become(t, [task[t] EXCEPT !.pc = pc])
End(t) == Become(t, Idle)

(* _resolve_lid_signal_address: a LID is its own address. *)
Resolve(r, name, then) ==
    IF name = "lid" THEN [r EXCEPT !.addr = "lid", !.pc = then]
                    ELSE [r EXCEPT !.pc = "lookup", !.then = then]
Resolved(t, lid) ==
    [task[t] EXCEPT !.addr = IF lid THEN "lid" ELSE "pn", !.pc = task[t].then, !.then = "idle"]

(* A lookup raises: a validation takes that for no session, and anything   *)
(* else ends.                                                              *)
Raised(t) == IF task[t].then = "validate" THEN [task[t] EXCEPT !.pc = "invalid", !.then = "idle"] ELSE Idle

Elsewhere == UNCHANGED <<sessions, cache, mutex, ops, faults>>
Unlock(t) == mutex' = [n \in Names |-> IF mutex[n] = t THEN NoTask ELSE mutex[n]]
Ended(t, r) == Become(t, r) /\ IF r = Idle THEN Unlock(t) ELSE UNCHANGED mutex

Lookup(t) ==
    /\ In(t, "lookup")
    /\ \/ LookupCached /\ Become(t, Resolved(t, TRUE))
       \/ BeginLookup(t) /\ Goto(t, "read")
       \/ JoinLookup(t) /\ Goto(t, "join")
    /\ Elsewhere

LookupRead(t) ==
    /\ In(t, "read") /\ EndRead(t)
    /\ LET r == IF future = "cancelled" THEN Raised(t) ELSE Resolved(t, mapped)
       IN  IF holder = NoTask THEN Ended(t, r)
           ELSE Become(t, [r EXCEPT !.pc = "remove", !.then = r.pc]) /\ UNCHANGED mutex
    /\ UNCHANGED <<sessions, cache, ops, faults>>

LookupRemoved(t) ==
    /\ In(t, "remove") /\ RemoveLookup(t)
    /\ LET r == [task[t] EXCEPT !.pc = task[t].then, !.then = "idle"]
       IN  Ended(t, IF r.pc = "idle" THEN Idle ELSE r)
    /\ UNCHANGED <<sessions, cache, ops, faults>>

LookupJoined(t) ==
    /\ In(t, "join") /\ LeaveLookup(t)
    /\ Ended(t, IF future = "cancelled" THEN Raised(t) ELSE Resolved(t, known))
    /\ UNCHANGED <<sessions, cache, ops, faults>>

-----------------------------------------------------------------------------
(* The operations begin.  Bound: MaxOps. *)
Begin(t, op, name) ==
    /\ In(t, "idle") /\ ops < MaxOps /\ ops' = ops + 1
    /\ LET r == [Idle EXCEPT !.op = op, !.name = name]
       IN  Become(t, CASE op = "send" -> [r EXCEPT !.pc = "assert"]
                       [] op \in {"devices", "mapping", "migrate"} -> [r EXCEPT !.pc = "learn"]
                       [] op = "receive" -> Resolve(r, name, "decrypt")
                       [] op \in {"retry", "identity"} -> Resolve(r, name, "validate"))
    /\ UNCHANGED <<mapping, sessions, cache, mutex, faults>>

(* store_lid_pn_mappings; then what came with the mapping: the devices of  *)
(* the user, who has a session with the LID forced, a payload that         *)
(* migrates, or nothing.                                                   *)
Learnt(t) ==
    LET r == task[t] IN
    CASE r.op = "devices" -> [r EXCEPT !.name = "lid", !.force = TRUE, !.pc = "assert"]
      [] r.op = "migrate" -> [r EXCEPT !.pc = "scan"]
      [] r.op = "mapping" -> Idle

Learn(t) ==
    /\ In(t, "learn")
    /\ \/ FindPair /\ Become(t, Learnt(t))
       \/ ~known /\ ~mapped /\ UNCHANGED mapping /\ Goto(t, "store")
    /\ Elsewhere

StoreMapping(t) ==
    /\ In(t, "store") /\ StorePair
    /\ reasons' = IF mapped THEN reasons ELSE [reasons EXCEPT !["pn"] = @ \cup {"mapped"}]
    /\ Become(t, Learnt(t))
    /\ UNCHANGED <<session, migrated, cache, mutex, ops, faults>>

(* migrate_session looks whether there is a session to move, reads it, and *)
(* writes it at its new address, once.                                     *)
Scan(t) ==
    /\ In(t, "scan")
    /\ IF session["pn"] = NoKey THEN End(t) ELSE Goto(t, "reread")
    /\ UNCHANGED mapping /\ Elsewhere

Reread(t) ==
    /\ In(t, "reread")
    /\ IF migrated \/ session["pn"] = NoKey THEN End(t) /\ UNCHANGED migrated
       ELSE /\ Become(t, [task[t] EXCEPT !.moved = session["pn"], !.pc = "move"])
            /\ migrated' = TRUE
    /\ UNCHANGED <<mapping, session, reasons, cache, mutex, ops, faults>>

Move(t) ==
    /\ In(t, "move")
    /\ session' = [pn |-> NoKey, lid |-> task[t].moved]
    /\ End(t)
    /\ UNCHANGED <<mapping, migrated, reasons, cache, mutex, ops, faults>>

-----------------------------------------------------------------------------
(* What follows when the sessions of the task's name are asserted. *)
Asserted(t) ==
    LET r == [task[t] EXCEPT !.addr = "pn", !.wire = "pn"] IN
    CASE r.op \in {"send", "retry"} -> [r EXCEPT !.pc = "encrypt"]
      [] r.op = "devices" -> [r EXCEPT !.op = "send", !.name = "pn", !.force = FALSE, !.pc = "assert"]
      [] r.op = "identity" -> Idle

(* The wire JIDs are the LIDs, where there are any. *)
ToWire(r) == Resolve(r, r.name, "fetch")

(* assert_sessions: a name that is trusted, one that nothing is known of,  *)
(* and one that had no session the last time, or is forced.                *)
Assert(t) ==
    /\ In(t, "assert")
    /\ LET r == task[t] IN
       Become(t, IF cache[r.name] = "yes" /\ ~r.force THEN Asserted(t)
                 ELSE IF cache[r.name] = "unset" THEN Resolve(r, r.name, "validate")
                 ELSE ToWire(r))
    /\ UNCHANGED mapping /\ Elsewhere

(* A session that was found is a reason no longer. *)
Found(name, addr) ==
    reasons' = [n \in Names |-> IF n = name /\ addr = At(n) THEN {} ELSE reasons[n]]

(* validate_session, of assert_sessions, ... *)
Validate(t) ==
    /\ \/ In(t, "validate") \/ In(t, "invalid")
    /\ task[t].op \in {"send", "devices"} \/ task[t].force
    /\ LET r == task[t]
           has == r.pc = "validate" /\ session[r.addr] # NoKey
       IN  /\ cache' = [cache EXCEPT ![r.name] = IF has THEN "yes" ELSE "no"]
           /\ IF has THEN Found(r.name, r.addr) ELSE UNCHANGED reasons
           /\ Become(t, IF has /\ ~r.force THEN Asserted(t) ELSE ToWire(r))
    /\ UNCHANGED <<mapping, session, migrated, mutex, ops, faults>>

(* ... of a retry, which may delete a session that is old enough, and of a *)
(* changed identity, which does nothing without one, or when it is offline *)
(* or comes again too soon.                                                *)
Consider(t) ==
    /\ \/ In(t, "validate") \/ In(t, "invalid")
    /\ task[t].op \in {"retry", "identity"} /\ ~task[t].force
    /\ LET r == task[t]
           has == r.pc = "validate" /\ session[r.addr] # NoKey
       IN  IF r.op = "retry"
           THEN \/ Goto(t, "delete")
                \/ has /\ Become(t, [r EXCEPT !.op = "send", !.pc = "assert"])
           ELSE \/ End(t)
                \/ has /\ Become(t, [r EXCEPT !.force = TRUE, !.pc = "assert"])
    /\ UNCHANGED mapping /\ Elsewhere

(* The retry deletes at the address of the name itself. *)
Delete(t) ==
    /\ In(t, "delete")
    /\ LET n == task[t].name IN
         /\ session' = [session EXCEPT ![n] = NoKey]
         /\ reasons' = [m \in Names |-> IF At(m) = n THEN reasons[m] \cup {"deleted"} ELSE reasons[m]]
    /\ Become(t, [task[t] EXCEPT !.op = "send", !.addr = "pn", !.pc = "assert"])
    /\ UNCHANGED <<mapping, migrated, cache, mutex, ops, faults>>

(* Mutant: a name is trusted when its bundle is asked for. *)
FetchTrusting(t) ==
    /\ In(t, "fetch")
    /\ LET r == [task[t] EXCEPT !.wire = task[t].addr] IN Become(t, Resolve(r, r.wire, "inject"))
    /\ cache' = [cache EXCEPT ![task[t].addr] = "yes"]
    /\ UNCHANGED <<mapping, sessions, mutex, ops, faults>>

(* The server answers the query with a bundle, without one, or not at all; *)
(* that the query fails ends an assertion, and what asked for it, but the  *)
(* device list.                                                            *)
Fetch(t) ==
    /\ In(t, "fetch")
    /\ LET r == [task[t] EXCEPT !.wire = task[t].addr] IN
       \/ Become(t, Resolve(r, r.wire, "inject")) /\ UNCHANGED faults
       \/ /\ faults < MaxFaults /\ faults' = faults + 1
          /\ \/ Become(t, [r EXCEPT !.pc = "trustless"])
             \/ Become(t, IF r.op = "devices" THEN Asserted(t) ELSE Idle)
    /\ UNCHANGED <<mapping, sessions, cache, mutex, ops>>

(* inject_e2e_session. *)
Inject(t) ==
    /\ In(t, "inject")
    /\ session' = [session EXCEPT ![task[t].addr] = Agreed]
    /\ reasons' = [n \in Names |-> IF At(n) = task[t].addr THEN {} ELSE reasons[n]]
    /\ Goto(t, "trust")
    /\ UNCHANGED <<mapping, migrated, cache, mutex, ops, faults>>

Trust(t) ==
    /\ \/ In(t, "trust") /\ UNCHANGED reasons
       \/ In(t, "trustless") /\ reasons' = [reasons EXCEPT ![task[t].wire] = @ \cup {"no bundle"}]
    /\ cache' = [cache EXCEPT ![task[t].wire] = "yes"]
    /\ Become(t, Asserted(t))
    /\ UNCHANGED <<mapping, session, migrated, mutex, ops, faults>>

(* An entry expires. *)
Expire(n) ==
    /\ cache[n] # "unset" /\ cache' = [cache EXCEPT ![n] = "unset"]
    /\ UNCHANGED <<mapping, sessions, mutex, task, ops, faults>>

-----------------------------------------------------------------------------
(* Mutant: an encryption does not wait for another one with its name. *)
EncryptUnlocked(t) ==
    /\ In(t, "encrypt")
    /\ Become(t, Resolve(task[t], task[t].name, "get"))
    /\ UNCHANGED <<mapping, sessions, cache, mutex, ops, faults>>

(* encrypt_message, under the mutex of its name, looks for the session,    *)
(* twice, of which the second look decides ...                             *)
Encrypt(t) ==
    /\ In(t, "encrypt") /\ mutex[task[t].name] = NoTask
    /\ mutex' = [mutex EXCEPT ![task[t].name] = t]
    /\ Become(t, Resolve(task[t], task[t].name, "get"))
    /\ UNCHANGED <<mapping, sessions, cache, ops, faults>>

(* ... and makes up a key where there is none.  A pkmsg, of which the name *)
(* is resolved before, does the same without the mutex.                    *)
GetOrCreate(t) ==
    /\ In(t, "get")
    /\ IF session[task[t].addr] = NoKey
       THEN Become(t, Resolve(task[t], task[t].name, "make")) /\ UNCHANGED mutex
       ELSE End(t) /\ Unlock(t)
    /\ UNCHANGED <<mapping, sessions, cache, ops, faults>>

Decrypt(t) ==
    /\ In(t, "decrypt")
    /\ LET r == [task[t] EXCEPT !.name = task[t].addr] IN Become(t, Resolve(r, r.name, "get"))
    /\ UNCHANGED mapping /\ Elsewhere

Make(t) ==
    /\ In(t, "make")
    /\ session' = [session EXCEPT ![task[t].addr] =
                     MadeUp(IF task[t].op = "receive" THEN "receive" ELSE task[t].name, t)]
    /\ End(t) /\ Unlock(t)
    /\ UNCHANGED <<mapping, migrated, reasons, cache, ops, faults>>

(* A task is cancelled where it waits.  The owner of a lookup that has a   *)
(* joiner waits for the lock.                                              *)
Cancel(t) ==
    /\ faults < MaxFaults /\ faults' = faults + 1
    /\ task[t].pc \notin {"idle", "remove"}
    /\ IF In(t, "read")
       THEN /\ CancelRead(t)
            /\ IF holder = NoTask THEN End(t)
               ELSE Become(t, [Idle EXCEPT !.pc = "remove"])
       ELSE /\ IF In(t, "join") THEN CancelJoin(t) ELSE UNCHANGED mapping
            /\ End(t)
    /\ Unlock(t)
    /\ UNCHANGED <<sessions, cache, ops>>

Step(t) ==
    \/ Lookup(t) \/ LookupRead(t) \/ LookupRemoved(t) \/ LookupJoined(t)
    \/ Learn(t) \/ StoreMapping(t) \/ Scan(t) \/ Reread(t) \/ Move(t)
    \/ Assert(t) \/ Validate(t) \/ Consider(t) \/ Delete(t)
    \/ Fetch(t) \/ Inject(t) \/ Trust(t)
    \/ Encrypt(t) \/ GetOrCreate(t) \/ Decrypt(t) \/ Make(t)

Next ==
    \/ \E t \in Tasks : Step(t) \/ Cancel(t) \/ \E o \in Operations : Begin(t, o[1], o[2])
    \/ \E n \in Names : Expire(n)

Spec == Init /\ [][Next]_vars /\ \A t \in Tasks : WF_vars(Step(t))
-----------------------------------------------------------------------------
(* A name that _peer_sessions_cache says yes of has a session where an     *)
(* encryption will look for it, or its mapping became known, or a retry    *)
(* deleted the session, or the server gave no bundle, since one was seen   *)
(* there (messages_send.py 468-539): else an encryption makes up a key     *)
(* that no one else has.                                                   *)
TrustedHaveSession ==
    \A n \in Names : cache[n] = "yes" /\ session[At(n)] = NoKey => reasons[n] # {}

(* A key that an encryption made up, and has encrypted with, is not        *)
(* replaced by another that is made up for the same name, unless it was    *)
(* moved (libsignal.py 130-136 and 347-367, messages_send.py 599).         *)
MadeUpOnce ==
    [][\A a \in Names :
         LET old == session[a]
             new == session'[a]
         IN  old.kind = "made" /\ new.kind = "made" /\ new # old /\ old.name # "receive"
             => new.name # old.name \/ (a = "lid" /\ migrated)]_vars

(* Every operation ends, unless a lookup was cancelled that another task   *)
(* waits for: the waiting task holds the lock, without which no lookup of  *)
(* any contact begins or ends (lid_mapping.py 120-141).                    *)
Orphaned == \E t \in Tasks : In(t, "remove") /\ task[t].then = "idle" /\ future = "pending"
OperationsEnd == \A t \in Tasks : ~In(t, "idle") ~> In(t, "idle") \/ Orphaned
=============================================================================
