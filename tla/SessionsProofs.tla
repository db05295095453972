---------------------------- MODULE SessionsProofs ----------------------------
(***************************************************************************)
(* For any tasks, operations and faults: a name that is trusted has a      *)
(* session, or there is a reason why not; and no key is made up in place   *)
(* of another one for the same name.                                       *)
(***************************************************************************)
EXTENDS Sessions, TLAPS

Seeking == {"lookup", "read", "join"}
Asserting == {"assert", "validate", "invalid", "delete", "fetch", "inject", "trust",
              "trustless"}
Learning == {"learn", "store"}
Moving == {"scan", "reread", "move"}
Encrypting == {"encrypt", "decrypt", "get", "make"}
Places == {"idle"} \cup Asserting \cup Learning \cup Moving \cup Encrypting

Keys == [kind : {"none", "agreed", "made"}, name : Names \cup {"receive"},
         task : Tasks \cup {NoTask}]
Ops == {"none", "send", "receive", "retry", "identity", "devices", "mapping", "migrate"}
TaskStates ==
    [op : Ops, name : Names, force : BOOLEAN, pc : Places \cup Seeking \cup {"remove"},
     addr : Names, wire : Names, then : Places, moved : Keys]

Reasons == SUBSET {"mapped", "deleted", "no bundle"}

Typed ==
    /\ mapped \in BOOLEAN /\ known \in BOOLEAN
    /\ session \in [Names -> Keys]
    /\ cache \in [Names -> {"unset", "yes", "no"}]
    /\ reasons \in [Names -> Reasons]
    /\ task \in [Tasks -> TaskStates]

(* Where a task is, or goes on after its lookup, and whether the lookup    *)
(* has given the address.                                                  *)
Place(r) == IF r.pc \in Seeking \cup {"remove"} THEN r.then ELSE r.pc
Has(r, place) == Place(r) = place /\ r.pc \notin Seeking

(* The address is that of the name, where m says whether it is mapped. *)
Fits(name, addr, m) == IF name = "lid" THEN addr = "lid" ELSE addr = "lid" => m

(* What a task's place says of it.  Only a phone number is looked up; who  *)
(* moves a session knows the mapping, and has one to move.                 *)
Formed(r, m) ==
    /\ Place(r) \in Learning => r.op \in {"devices", "mapping", "migrate"}
    /\ Place(r) \in Asserting => r.op \in {"send", "retry", "identity", "devices"}
    /\ r.pc \in Seeking =>
         /\ r.then = "validate" => r.name = "pn"
         /\ r.then = "inject" => r.wire = "pn"
    /\ Has(r, "validate") => Fits(r.name, r.addr, m)
    /\ Has(r, "inject") => Fits(r.wire, r.addr, m)
    /\ Place(r) \in Moving => m
    /\ Place(r) = "move" => r.moved # NoKey
    /\ Place(r) = "trust" => r.pc = "trust"

(* A session of the name was seen where an encryption will look, and is    *)
(* there or has a reason not to be.                                        *)
Seen(n) == session[At(n)] # NoKey \/ reasons[n] # {}

Inv ==
    /\ Typed
    /\ known => mapped
    /\ mapped => Seen("pn")
    /\ \A n \in Names : cache[n] = "yes" => Seen(n)
    /\ \A t \in Tasks : Formed(task[t], mapped)
    /\ \A t \in Tasks : In(t, "trust") => Seen(task[t].wire)

-----------------------------------------------------------------------------
LEMMA KeysTyped ==
    /\ NoKey \in Keys /\ Agreed \in Keys /\ Agreed # NoKey
    /\ \A t \in Tasks, n \in Names \cup {"receive"} : MadeUp(n, t) \in Keys /\ MadeUp(n, t) # NoKey
  <1>1. NoKey \in Keys /\ Agreed \in Keys
    BY DEF Keys, NoKey, Agreed, Key, Names
  <1>2. \A t \in Tasks, n \in Names \cup {"receive"} : MadeUp(n, t) \in Keys
    BY DEF Keys, MadeUp, Key
  <1>3. NoKey.kind = "none" /\ Agreed.kind = "agreed"
    BY DEF NoKey, Agreed, Key
  <1>4. \A t \in Tasks, n \in Names \cup {"receive"} : MadeUp(n, t).kind = "made"
    BY DEF MadeUp, Key
  <1>5. Agreed # NoKey
    BY <1>3
  <1>6. \A t \in Tasks, n \in Names \cup {"receive"} : MadeUp(n, t) # NoKey
    BY <1>3, <1>4
  <1> QED BY <1>1, <1>2, <1>5, <1>6

LEMMA IdleTyped == Idle \in TaskStates /\ Formed(Idle, mapped) /\ Idle.pc = "idle"
  <1>1. Idle \in TaskStates
    BY KeysTyped DEF Idle, TaskStates, Names, Places, Ops
  <1>2. Idle.pc = "idle"
    BY DEF Idle
  <1>3. Place(Idle) = "idle"
    BY <1>2 DEF Place, Seeking
  <1> QED BY <1>1, <1>2, <1>3 DEF Formed, Has, Seeking, Asserting, Learning, Moving

LEMMA InvInit == ASSUME Init PROVE Inv
  <1>1. Typed
    BY KeysTyped, IdleTyped DEF Init, InitMapping, Typed, Names, Reasons
  <1>2. \A t \in Tasks : task[t] = Idle
    BY DEF Init
  <1> QED BY <1>1, <1>2, IdleTyped DEF Init, InitMapping, Inv, In

(* Of a step of a task it is enough to know where the task goes, what is   *)
(* seen afterwards, and who is newly trusted.                              *)
LEMMA Goes ==
    ASSUME Inv, NEW t \in Tasks, NEW r \in TaskStates, Become(t, r),
           mapped' \in BOOLEAN, known' \in BOOLEAN, session' \in [Names -> Keys],
           cache' \in [Names -> {"unset", "yes", "no"}], reasons' \in [Names -> Reasons],
           mapped => mapped', known' => mapped', mapped' => Seen("pn")',
           \A n \in Names : Seen(n) => Seen(n)',
           \A n \in Names : cache'[n] = "yes" => cache[n] = "yes" \/ Seen(n)',
           Formed(r, mapped'),
           \A n \in Names : r.pc = "trust" /\ r.wire = n => Seen(n)'
    PROVE  Inv'
  <1> USE DEF Inv
  <1>1. task' = [task EXCEPT ![t] = r] /\ task \in [Tasks -> TaskStates]
    BY DEF Become, Typed
  <1>2. task' \in [Tasks -> TaskStates] /\ task'[t] = r
        /\ \A u \in Tasks \ {t} : task'[u] = task[u]
    BY <1>1
  <1>3. Typed'
    BY <1>2 DEF Typed
  <1>4. \A u \in Tasks : Formed(task'[u], mapped')
    <2>1. \A u \in Tasks \ {t} : Formed(task'[u], mapped')
      BY <1>2 DEF Formed, Place, Has, Fits
    <2>2. Formed(task'[t], mapped')
      BY <1>2 DEF Formed, Place, Has, Fits
    <2> QED BY <2>1, <2>2
  <1>5. \A u \in Tasks : In(u, "trust")' => Seen(task[u].wire)'
    <2>1. \A u \in Tasks \ {t} : In(u, "trust")' => Seen(task[u].wire)'
      <3> SUFFICES ASSUME NEW u \in Tasks \ {t}, In(u, "trust")' PROVE Seen(task[u].wire)'
        OBVIOUS
      <3>1. In(u, "trust") /\ task'[u] = task[u] /\ task[u].wire \in Names
        BY <1>1, <1>2 DEF In, TaskStates
      <3>2. Seen(task[u].wire)
        BY <3>1
      <3>3. PICK n \in Names : n = task[u].wire
        BY <3>1
      <3>4. Seen(n)'
        BY <3>2, <3>3
      <3>5. n = task'[u].wire
        BY <3>1, <3>3
      <3> QED BY <3>4, <3>5 DEF Seen
    <2>2. In(t, "trust")' => Seen(task[t].wire)'
      <3> SUFFICES ASSUME In(t, "trust")' PROVE Seen(task[t].wire)'
        OBVIOUS
      <3>1. r.pc = "trust" /\ r.wire \in Names /\ task'[t].wire = r.wire
        BY <1>2 DEF In, TaskStates
      <3>2. PICK n \in Names : n = r.wire
        BY <3>1
      <3>3. Seen(n)'
        BY <3>1, <3>2
      <3> QED BY <3>1, <3>2, <3>3 DEF Seen
    <2> QED BY <2>1, <2>2
  <1>6. \A n \in Names : cache'[n] = "yes" => Seen(n)'
    OBVIOUS
  <1> QED BY <1>3, <1>4, <1>5, <1>6

LEMMA Stays ==
    ASSUME Inv, NEW t \in Tasks, NEW r \in TaskStates, Become(t, r),
           UNCHANGED <<mapped, session, reasons, cache>>, known' \in BOOLEAN, known' => mapped,
           Formed(r, mapped) \/ Formed(r, mapped'), r.pc = "trust" => Seen(r.wire)
    PROVE  Inv'
  <1>1. \A n \in Names : Seen(n)' <=> Seen(n)
    BY DEF Seen, At
  <1>2. Formed(r, mapped')
    BY DEF Formed, Fits
  <1>3. r.wire \in Names
    BY DEF TaskStates
  <1>4. /\ mapped' \in BOOLEAN /\ session' \in [Names -> Keys]
        /\ cache' \in [Names -> {"unset", "yes", "no"}]
        /\ reasons' \in [Names -> Reasons]
    BY DEF Inv, Typed
  <1>5. mapped' => Seen("pn")'
    BY <1>1 DEF Inv, Names
  <1> QED BY <1>1, <1>2, <1>3, <1>4, <1>5, Goes DEF Inv

(* To end is to go on where nothing is known. *)
LEMMA Ends ==
    ASSUME Inv, NEW t \in Tasks, End(t),
           UNCHANGED <<mapped, session, reasons, cache>>, known' = known
    PROVE  Inv'
  <1>1. Become(t, Idle)
    BY DEF End
  <1>2. known' \in BOOLEAN /\ (known' => mapped)
    BY DEF Inv, Typed
  <1> HIDE DEF End
  <1> QED BY <1>1, <1>2, IdleTyped, Stays

Known == {"validate", "inject", "fetch", "get", "make", "decrypt"}

LEMMA Resolves ==
    ASSUME NEW r \in TaskStates, NEW name \in Names, NEW then \in Known,
           then \in Asserting => r.op \in {"send", "retry", "identity", "devices"},
           then = "validate" => name = r.name, then = "inject" => name = r.wire
    PROVE  LET q == Resolve(r, name, then)
           IN  q \in TaskStates /\ Formed(q, mapped) /\ q.pc # "trust"
  <1> DEFINE q == Resolve(r, name, then)
  <1>1. then \in Places
    BY DEF Known, Places, Asserting, Encrypting
  <1>2. CASE name = "lid"
    <2>1. q = [r EXCEPT !.addr = "lid", !.pc = then]
      BY <1>2 DEF Resolve
    <2>2. q \in TaskStates /\ q.pc = then /\ q.addr = "lid" /\ q.op = r.op /\ q.name = r.name
          /\ q.wire = r.wire
      BY <1>1, <2>1 DEF TaskStates, Names
    <2>3. Place(q) = then /\ q.pc \notin Seeking
      BY <2>2 DEF Place, Seeking, Known
    <2> HIDE DEF q
    <2>4. then \notin Learning \cup Moving /\ then # "trust"
      BY DEF Known, Learning, Moving
    <2>5. Formed(q, mapped)
      BY <1>2, <2>2, <2>3, <2>4 DEF Formed, Has, Fits, Moving
    <2> QED BY <2>2, <2>4, <2>5 DEF q
  <1>3. CASE name = "pn"
    <2>1. q = [r EXCEPT !.pc = "lookup", !.then = then]
      BY <1>3 DEF Resolve
    <2>2. q \in TaskStates /\ q.pc = "lookup" /\ q.then = then /\ q.op = r.op /\ q.name = r.name
          /\ q.wire = r.wire
      BY <1>1, <2>1 DEF TaskStates, Seeking
    <2>3. Place(q) = then /\ q.pc \in Seeking
      BY <2>2 DEF Place, Seeking
    <2> HIDE DEF q
    <2>4. then \notin Learning \cup Moving /\ then # "trust"
      BY DEF Known, Learning, Moving
    <2>5. Formed(q, mapped)
      BY <1>3, <2>2, <2>3, <2>4 DEF Formed, Has, Moving
    <2> QED BY <2>2, <2>5 DEF q
  <1> QED BY <1>2, <1>3 DEF Names

(* A task that is not looking anything up goes on to a place that says     *)
(* nothing but the operation.                                              *)
LEMMA Plain ==
    ASSUME NEW r \in TaskStates, r.pc \in Places \ (Moving \cup {"validate", "inject", "trust"}),
           r.pc \in Learning => r.op \in {"devices", "mapping", "migrate"},
           r.pc \in Asserting => r.op \in {"send", "retry", "identity", "devices"}
    PROVE  Formed(r, mapped) /\ Formed(r, mapped') /\ r.pc # "trust"
  <1>1. r.pc \notin Seeking \cup {"remove"}
    BY DEF Places, Seeking, Asserting, Learning, Moving, Encrypting
  <1> QED BY <1>1 DEF Formed, Place, Has, Moving

(* A lookup gives the address, raises, or leaves its removal to be done.   *)
LEMMA ResolvedFormed ==
    ASSUME Inv, NEW t \in Tasks, task[t].pc \in Seeking, NEW lid \in BOOLEAN, lid => mapped
    PROVE  LET q == Resolved(t, lid)
           IN  q \in TaskStates /\ Formed(q, mapped) /\ q.pc \in Places \ {"trust"}
  <1> DEFINE r == task[t]
             q == Resolved(t, lid)
  <1>1. r \in TaskStates /\ Formed(r, mapped)
    BY DEF Inv, Typed
  <1>2. Place(r) = r.then /\ r.pc # "trust"
    BY DEF Place, Seeking
  <1>3. q = [r EXCEPT !.addr = IF lid THEN "lid" ELSE "pn", !.pc = r.then, !.then = "idle"]
    BY DEF Resolved
  <1>4. /\ q \in TaskStates /\ q.pc = r.then /\ q.op = r.op /\ q.wire = r.wire
        /\ q.name = r.name /\ q.moved = r.moved /\ (q.addr = "lid" => mapped)
    BY <1>1, <1>3 DEF TaskStates, Names, Places
  <1> HIDE DEF q
  <1>5. Place(q) = r.then /\ q.pc \in Places
    BY <1>1, <1>4 DEF Place, TaskStates, Places, Seeking, Asserting, Learning, Moving, Encrypting
  <1>6. Formed(q, mapped)
    <2> HIDE DEF r
    <2>1. Has(q, "validate") => q.name = "pn"
      BY <1>1, <1>2, <1>4, <1>5 DEF Formed, Has, r
    <2>2. Has(q, "inject") => q.wire = "pn"
      BY <1>1, <1>2, <1>4, <1>5 DEF Formed, Has, r
    <2>3. /\ Has(q, "validate") => Fits(q.name, q.addr, mapped)
          /\ Has(q, "inject") => Fits(q.wire, q.addr, mapped)
      BY <1>4, <2>1, <2>2 DEF Fits
    <2>4. q.pc \notin Seeking
      BY <1>5 DEF Places, Seeking, Asserting, Learning, Moving, Encrypting
    <2> QED BY <1>1, <1>2, <1>4, <1>5, <2>3, <2>4 DEF Formed
  <1>7. q.pc # "trust"
    BY <1>1, <1>2, <1>4 DEF Formed
  <1> QED BY <1>4, <1>5, <1>6, <1>7 DEF q

LEMMA RaisedFormed ==
    ASSUME Inv, NEW t \in Tasks, task[t].pc \in Seeking
    PROVE  LET q == Raised(t)
           IN  q \in TaskStates /\ Formed(q, mapped) /\ q.pc \in Places \ {"trust"}
  <1> DEFINE r == task[t]
             q == Raised(t)
  <1>1. r \in TaskStates /\ Formed(r, mapped)
    BY DEF Inv, Typed
  <1>2. CASE r.then = "validate"
    <2>1. q = [r EXCEPT !.pc = "invalid", !.then = "idle"]
      BY <1>2 DEF Raised
    <2>2. q \in TaskStates /\ q.pc = "invalid" /\ q.op = r.op
      BY <1>1, <2>1 DEF TaskStates, Places, Asserting
    <2> HIDE DEF q
    <2>3. r.op \in {"send", "retry", "identity", "devices"}
      BY <1>1, <1>2 DEF Formed, Place, Asserting
    <2>4. q.pc \in Places \ (Moving \cup {"validate", "inject", "trust"}) /\ q.pc \notin Learning
      BY <2>2 DEF Places, Asserting, Moving, Learning
    <2>5. Formed(q, mapped) /\ q.pc # "trust"
      BY <2>2, <2>3, <2>4, Plain
    <2> QED BY <2>2, <2>4, <2>5 DEF q
  <1>3. CASE r.then # "validate"
    BY <1>3, IdleTyped DEF Raised, Places
  <1> QED BY <1>2, <1>3

LEMMA RemovingFormed ==
    ASSUME NEW q \in TaskStates, Formed(q, mapped), q.pc \in Places \ {"trust"}
    PROVE  LET r == [q EXCEPT !.pc = "remove", !.then = q.pc]
           IN  r \in TaskStates /\ Formed(r, mapped) /\ r.pc # "trust"
  <1> DEFINE r == [q EXCEPT !.pc = "remove", !.then = q.pc]
  <1>1. /\ r \in TaskStates /\ r.pc = "remove" /\ r.then = q.pc /\ r.op = q.op
        /\ r.name = q.name /\ r.wire = q.wire /\ r.addr = q.addr /\ r.moved = q.moved
    BY DEF TaskStates
  <1> HIDE DEF r
  <1>2. Place(r) = q.pc /\ Place(q) = q.pc /\ q.pc \notin Seeking /\ r.pc \notin Seeking
    BY <1>1 DEF Place, Places, Seeking, Asserting, Learning, Moving, Encrypting
  <1>3. Formed(r, mapped)
    BY <1>1, <1>2 DEF Formed, Has
  <1> QED BY <1>1, <1>3 DEF r

LEMMA LookupInv == ASSUME Inv, NEW t \in Tasks, Lookup(t) PROVE Inv'
  <1> DEFINE r == task[t]
  <1>1. /\ r \in TaskStates /\ r.pc = "lookup" /\ Formed(r, mapped)
        /\ UNCHANGED <<session, reasons, cache>>
    BY DEF Inv, Typed, Lookup, In, Elsewhere, sessions
  <1>2. known \in BOOLEAN /\ (known => mapped) /\ r.pc \in Seeking
    BY <1>1 DEF Inv, Typed, Seeking
  <1>3. CASE LookupCached /\ Become(t, Resolved(t, TRUE))
    <2>1. mapped /\ UNCHANGED <<mapped, known>>
      BY <1>2, <1>3 DEF LookupCached, mapping
    <2> QED BY <1>1, <1>2, <1>3, <2>1, ResolvedFormed, Stays
  <1>4. ASSUME NEW place \in {"read", "join"}, Goto(t, place), UNCHANGED <<mapped, known>>
        PROVE  Inv'
    <2> DEFINE q == [r EXCEPT !.pc = place]
    <2>1. /\ q \in TaskStates /\ q.pc = place /\ q.then = r.then /\ q.op = r.op
          /\ q.name = r.name /\ q.wire = r.wire /\ q.moved = r.moved
      BY <1>1 DEF TaskStates, Seeking
    <2>2. Become(t, q)
      BY <1>4 DEF Goto
    <2> HIDE DEF q
    <2>3. Place(q) = Place(r) /\ q.pc \in Seeking /\ r.pc # "trust" /\ q.pc # "trust"
      BY <1>1, <2>1 DEF Place, Seeking
    <2>4. Formed(q, mapped)
      BY <1>1, <1>2, <2>1, <2>3 DEF Formed, Has
    <2> QED BY <1>1, <1>2, <1>4, <2>1, <2>2, <2>3, <2>4, Stays
  <1> QED
    BY <1>3, <1>4 DEF Lookup, BeginLookup, JoinLookup

LEMMA LookupReadInv == ASSUME Inv, NEW t \in Tasks, LookupRead(t) PROVE Inv'
  <1>1. task[t].pc \in Seeking /\ UNCHANGED <<mapped, session, reasons, cache>>
    BY DEF LookupRead, In, Seeking, EndRead, sessions
  <1>2. mapped \in BOOLEAN /\ known' \in BOOLEAN /\ (known' => mapped)
    BY DEF LookupRead, EndRead, Inv, Typed
  <1> DEFINE q == IF future = "cancelled" THEN Raised(t) ELSE Resolved(t, mapped)
             r == [q EXCEPT !.pc = "remove", !.then = q.pc]
  <1>3. Become(t, q) \/ Become(t, r)
    BY DEF LookupRead, Ended
  <1>4. q \in TaskStates /\ Formed(q, mapped) /\ q.pc \in Places \ {"trust"}
    BY <1>1, <1>2, RaisedFormed, ResolvedFormed
  <1> HIDE DEF q
  <1>5. r \in TaskStates /\ Formed(r, mapped) /\ r.pc # "trust"
    BY <1>4, RemovingFormed
  <1> HIDE DEF r
  <1> QED BY <1>1, <1>2, <1>3, <1>4, <1>5, Stays

LEMMA LookupRemovedInv == ASSUME Inv, NEW t \in Tasks, LookupRemoved(t) PROVE Inv'
  <1> DEFINE q == task[t]
             r == [q EXCEPT !.pc = q.then, !.then = "idle"]
  <1>1. q \in TaskStates /\ Formed(q, mapped) /\ q.pc = "remove"
    BY DEF LookupRemoved, In, Inv, Typed
  <1>2. UNCHANGED <<mapped, known, session, reasons, cache>> /\ known \in BOOLEAN /\ (known => mapped)
    BY DEF LookupRemoved, RemoveLookup, sessions, Inv, Typed
  <1>3. Become(t, Idle) \/ Become(t, r)
    BY DEF LookupRemoved, Ended
  <1>4. /\ r \in TaskStates /\ r.pc = q.then /\ r.op = q.op /\ r.moved = q.moved
        /\ r.name = q.name /\ r.wire = q.wire /\ r.addr = q.addr
    BY <1>1 DEF TaskStates, Places
  <1> HIDE DEF r
  <1>5. Place(q) = q.then /\ q.pc \notin Seeking /\ q.pc # "trust"
    BY <1>1 DEF Place, Seeking
  <1>6. q.then \in Places /\ q.then \notin Seeking \cup {"remove"}
    BY <1>1 DEF TaskStates, Places, Seeking, Asserting, Learning, Moving, Encrypting
  <1>7. Place(r) = q.then /\ r.pc \notin Seeking
    BY <1>4, <1>6 DEF Place
  <1>8. Formed(r, mapped) /\ r.pc # "trust"
    BY <1>1, <1>4, <1>5, <1>7 DEF Formed, Has
  <1> QED BY <1>2, <1>3, <1>4, <1>8, IdleTyped, Stays

LEMMA LookupJoinedInv == ASSUME Inv, NEW t \in Tasks, LookupJoined(t) PROVE Inv'
  <1>1. task[t].pc \in Seeking /\ UNCHANGED <<mapped, known, session, reasons, cache>>
    BY DEF LookupJoined, In, Seeking, LeaveLookup, sessions
  <1>2. known \in BOOLEAN /\ (known => mapped)
    BY DEF Inv, Typed
  <1>3. Become(t, Raised(t)) \/ Become(t, Resolved(t, known))
    BY DEF LookupJoined, Ended
  <1> QED BY <1>1, <1>2, <1>3, RaisedFormed, ResolvedFormed, Stays

-----------------------------------------------------------------------------
(* The other steps. *)
LEMMA BeginInv ==
    ASSUME Inv, NEW t \in Tasks, NEW o \in Operations, Begin(t, o[1], o[2]) PROVE Inv'
  <1> DEFINE op == o[1]
             name == o[2]
             r == [Idle EXCEPT !.op = op, !.name = name]
  <1>1. op \in Ops \ {"none"} /\ name \in Names
    BY SessionsAssumption DEF Ops, PhoneOperations, NameOperations, Names
  <1> HIDE DEF op, name
  <1>2. r \in TaskStates /\ r.op = op /\ r.name = name /\ r.pc = "idle"
    BY <1>1, IdleTyped DEF TaskStates, Ops, Idle
  <1> HIDE DEF r
  <1>3. UNCHANGED <<mapped, known, session, reasons, cache>> /\ known \in BOOLEAN /\ (known => mapped)
    BY DEF Begin, sessions, mapping, Inv, Typed
  <1>4. CASE op = "send" /\ Become(t, [r EXCEPT !.pc = "assert"])
    <2> DEFINE q == [r EXCEPT !.pc = "assert"]
    <2>1. q \in TaskStates /\ q.op = "send" /\ q.pc = "assert"
      BY <1>2, <1>4 DEF TaskStates, Places, Asserting
    <2> HIDE DEF q
    <2>2. Formed(q, mapped) /\ q.pc # "trust"
      BY <2>1, Plain DEF Places, Asserting, Moving, Learning
    <2> QED BY <1>3, <1>4, <2>1, <2>2, Stays DEF q
  <1>5. CASE op \in {"devices", "mapping", "migrate"} /\ Become(t, [r EXCEPT !.pc = "learn"])
    <2> DEFINE q == [r EXCEPT !.pc = "learn"]
    <2>1. q \in TaskStates /\ q.op = op /\ q.pc = "learn"
      BY <1>2 DEF TaskStates, Places, Learning
    <2> HIDE DEF q
    <2>2. Formed(q, mapped) /\ q.pc # "trust"
      BY <1>5, <2>1, Plain DEF Places, Asserting, Moving, Learning
    <2> QED BY <1>3, <1>5, <2>1, <2>2, Stays DEF q
  <1>6. CASE op = "receive" /\ Become(t, Resolve(r, name, "decrypt"))
    BY <1>1, <1>2, <1>3, <1>6, Resolves, Stays DEF Known, Asserting
  <1>7. CASE op \in {"retry", "identity"} /\ Become(t, Resolve(r, name, "validate"))
    BY <1>1, <1>2, <1>3, <1>7, Resolves, Stays DEF Known, Asserting
  <1>8. op \in {"send", "receive", "devices", "mapping", "migrate", "retry", "identity"}
    BY <1>1 DEF Ops
  <1> QED BY <1>4, <1>5, <1>6, <1>7, <1>8 DEF Begin, r, op, name

(* Where a task that learnt a mapping goes. *)
LEMMA LearntFormed ==
    ASSUME Inv, NEW t \in Tasks, task[t].pc \in Learning, mapped'
    PROVE  LET q == Learnt(t) IN q \in TaskStates /\ Formed(q, mapped') /\ q.pc # "trust"
  <1> DEFINE r == task[t]
             q == Learnt(t)
  <1>1. r \in TaskStates /\ Formed(r, mapped)
    BY DEF Inv, Typed
  <1>2. r.op \in {"devices", "mapping", "migrate"}
    BY <1>1 DEF Formed, Place, Learning, Seeking
  <1>3. CASE r.op = "devices"
    <2>1. q = [r EXCEPT !.name = "lid", !.force = TRUE, !.pc = "assert"]
      BY <1>3 DEF Learnt
    <2>2. q \in TaskStates /\ q.op = "devices" /\ q.pc = "assert"
      BY <1>1, <1>3, <2>1 DEF TaskStates, Names, Places, Asserting
    <2> HIDE DEF q
    <2>3. Formed(q, mapped') /\ q.pc # "trust"
      BY <2>2, Plain DEF Places, Asserting, Moving, Learning
    <2> QED BY <2>2, <2>3 DEF q
  <1>4. CASE r.op = "migrate"
    <2>1. q = [r EXCEPT !.pc = "scan"]
      BY <1>4 DEF Learnt
    <2>2. q \in TaskStates /\ q.pc = "scan"
      BY <1>1, <2>1 DEF TaskStates, Places, Moving
    <2> HIDE DEF q
    <2>3. Formed(q, mapped')
      BY <2>2 DEF Formed, Place, Has, Seeking, Asserting, Moving, Learning
    <2> QED BY <2>2, <2>3 DEF q
  <1>5. CASE r.op = "mapping"
    <2>1. q = Idle
      BY <1>5 DEF Learnt
    <2>2. Formed(Idle, mapped')
      BY IdleTyped, Plain DEF Places, Asserting, Moving, Learning
    <2> QED BY <2>1, <2>2, IdleTyped
  <1> QED BY <1>2, <1>3, <1>4, <1>5

LEMMA LearnInv == ASSUME Inv, NEW t \in Tasks, Learn(t) PROVE Inv'
  <1>1. UNCHANGED <<mapped, session, reasons, cache>> /\ task[t].pc = "learn"
    BY DEF Learn, FindPair, Elsewhere, sessions, mapping, In
  <1>2. known \in BOOLEAN /\ (known => mapped) /\ task[t] \in TaskStates /\ Formed(task[t], mapped)
    BY DEF Inv, Typed
  <1>3. CASE FindPair /\ Become(t, Learnt(t))
    <2>1. mapped /\ mapped' /\ known' \in BOOLEAN
      BY <1>2, <1>3 DEF FindPair
    <2> QED BY <1>1, <1>3, <2>1, LearntFormed, Stays DEF Learning
  <1>4. CASE UNCHANGED mapping /\ Goto(t, "store")
    <2> DEFINE q == [task[t] EXCEPT !.pc = "store"]
    <2>1. q \in TaskStates /\ q.op = task[t].op /\ q.pc = "store"
      BY <1>2 DEF TaskStates, Places, Learning
    <2>2. task[t].op \in {"devices", "mapping", "migrate"}
      BY <1>1, <1>2 DEF Formed, Place, Learning, Seeking
    <2> HIDE DEF q
    <2>3. Formed(q, mapped) /\ q.pc # "trust"
      BY <2>1, <2>2, Plain DEF Places, Asserting, Moving, Learning
    <2>4. UNCHANGED known /\ Become(t, q)
      BY <1>4 DEF mapping, Goto, q
    <2> QED BY <1>1, <1>2, <2>1, <2>3, <2>4, Stays
  <1> QED BY <1>3, <1>4 DEF Learn

LEMMA StoreMappingInv == ASSUME Inv, NEW t \in Tasks, StoreMapping(t) PROVE Inv'
  <1>1. /\ mapped' = TRUE /\ known' = TRUE /\ UNCHANGED <<session, cache>>
        /\ task[t].pc \in Learning
        /\ reasons' = IF mapped THEN reasons ELSE [reasons EXCEPT !["pn"] = @ \cup {"mapped"}]
    BY DEF StoreMapping, StorePair, In, Learning
  <1>2. Typed
    BY DEF Inv
  <1>3. /\ session' \in [Names -> Keys] /\ cache' \in [Names -> {"unset", "yes", "no"}]
        /\ reasons' \in [Names -> Reasons]
    <2>1. reasons \in [Names -> Reasons] /\ {"mapped"} \in Reasons
      BY <1>2 DEF Typed, Reasons
    <2>2. [reasons EXCEPT !["pn"] = @ \cup {"mapped"}] \in [Names -> Reasons]
      BY <2>1 DEF Names, Reasons
    <2> QED BY <1>1, <1>2, <2>1, <2>2 DEF Typed
  <1>4. Seen("pn")'
    <2>1. CASE mapped
      BY <1>1, <2>1 DEF Seen, At, Inv
    <2>2. CASE ~mapped
      BY <1>1, <1>2, <2>2 DEF Seen, Typed, Names
    <2> QED BY <2>1, <2>2
  <1>5. Seen("lid") => Seen("lid")'
    BY <1>1, <1>2 DEF Seen, At, Typed, Names
  <1>6. \A n \in Names : Seen(n) => Seen(n)'
    BY <1>4, <1>5 DEF Names
  <1>7. Become(t, Learnt(t))
    BY DEF StoreMapping
  <1> QED BY <1>1, <1>3, <1>4, <1>6, <1>7, LearntFormed, Goes

LEMMA ScanInv == ASSUME Inv, NEW t \in Tasks, Scan(t) \/ Reread(t) PROVE Inv'
  <1> DEFINE r == task[t]
  <1>1. /\ r \in TaskStates /\ Formed(r, mapped) /\ r.pc \in Moving
        /\ UNCHANGED <<mapped, known, session, reasons, cache>>
    BY DEF Inv, Typed, In, Scan, Reread, Moving, Elsewhere, sessions, mapping
  <1>2. mapped /\ known \in BOOLEAN /\ session["pn"] \in Keys
    BY <1>1 DEF Formed, Place, Moving, Seeking, Inv, Typed, Names
  <1>3. CASE End(t)
    BY <1>1, <1>3, Ends
  <1>4. CASE Goto(t, "reread")
    <2> DEFINE q == [r EXCEPT !.pc = "reread"]
    <2>1. q \in TaskStates /\ q.pc = "reread" /\ Become(t, q)
      BY <1>1, <1>4 DEF TaskStates, Places, Moving, Goto
    <2> HIDE DEF q
    <2>2. Formed(q, mapped)
      BY <1>2, <2>1 DEF Formed, Place, Has, Seeking, Asserting, Moving, Learning
    <2> QED BY <1>1, <1>2, <2>1, <2>2, Stays
  <1>5. CASE session["pn"] # NoKey /\ Become(t, [r EXCEPT !.moved = session["pn"], !.pc = "move"])
    <2> DEFINE q == [r EXCEPT !.moved = session["pn"], !.pc = "move"]
    <2>1. q \in TaskStates /\ q.pc = "move" /\ q.moved # NoKey
      BY <1>1, <1>2, <1>5 DEF TaskStates, Places, Moving
    <2>2. Become(t, q)
      BY <1>5
    <2> HIDE DEF q
    <2>3. Formed(q, mapped)
      BY <1>2, <2>1 DEF Formed, Place, Has, Seeking, Asserting, Moving, Learning
    <2> QED BY <1>1, <1>2, <2>1, <2>2, <2>3, Stays
  <1> QED BY <1>3, <1>4, <1>5 DEF Scan, Reread

(* The steps that change the sessions or their reasons. *)
LEMMA MoveInv == ASSUME Inv, NEW t \in Tasks, Move(t) PROVE Inv'
  <1> DEFINE k == task[t].moved
  <1>1. /\ session' = [pn |-> NoKey, lid |-> k] /\ Become(t, Idle)
        /\ UNCHANGED <<mapped, known, reasons, cache>> /\ task[t].pc = "move"
    BY DEF Move, End, mapping, In
  <1>2. Formed(task[t], mapped) /\ k \in Keys
    BY DEF Inv, Typed, TaskStates
  <1>3. mapped /\ k # NoKey
    BY <1>1, <1>2 DEF Formed, Place, Moving, Seeking
  <1> HIDE DEF k
  <1>4. session' \in [Names -> Keys] /\ session'["lid"] = k
    BY <1>1, <1>2, KeysTyped DEF Names
  <1>5. \A n \in Names : Seen(n)'
    BY <1>1, <1>3, <1>4 DEF Seen, At
  <1>6. mapped' \in BOOLEAN /\ known' \in BOOLEAN /\ (known' => mapped')
        /\ cache' \in [Names -> {"unset", "yes", "no"}] /\ reasons' \in [Names -> Reasons]
    BY <1>1 DEF Inv, Typed
  <1>7. Seen("pn")' /\ Formed(Idle, mapped')
    BY <1>1, <1>5, IdleTyped DEF Names
  <1> QED BY <1>1, <1>4, <1>5, <1>6, <1>7, IdleTyped, Goes

LEMMA DeleteInv == ASSUME Inv, NEW t \in Tasks, Delete(t) PROVE Inv'
  <1> DEFINE r == task[t]
             q == [r EXCEPT !.op = "send", !.addr = "pn", !.pc = "assert"]
  <1>1. /\ r \in TaskStates /\ UNCHANGED <<mapped, known, cache>> /\ Become(t, q)
        /\ session' = [session EXCEPT ![r.name] = NoKey]
        /\ reasons' = [m \in Names |-> IF At(m) = r.name THEN reasons[m] \cup {"deleted"}
                                                       ELSE reasons[m]]
    BY DEF Inv, Typed, Delete, mapping
  <1>2. Typed /\ r.name \in Names
    BY <1>1 DEF Inv, TaskStates
  <1>3. q \in TaskStates /\ q.op = "send" /\ q.pc = "assert"
    BY <1>1 DEF TaskStates, Ops, Names, Places, Asserting
  <1> HIDE DEF q
  <1>4. Formed(q, mapped') /\ q.pc # "trust"
    BY <1>3, Plain DEF Places, Asserting, Moving, Learning
  <1>5. session' \in [Names -> Keys]
    BY <1>1, <1>2, KeysTyped DEF Typed
  <1>6. reasons' \in [Names -> Reasons]
    BY <1>1, <1>2 DEF Typed, Reasons
  <1>7. \A n \in Names : Seen(n) => Seen(n)'
    <2> SUFFICES ASSUME NEW n \in Names, Seen(n) PROVE Seen(n)'
      OBVIOUS
    <2>1. At(n)' = At(n) /\ At(n) \in Names
      BY <1>1 DEF At, Names
    <2>2. CASE At(n) = r.name
      BY <1>1, <2>2 DEF Seen
    <2>3. CASE At(n) # r.name
      BY <1>1, <1>2, <2>1, <2>3 DEF Seen, Typed
    <2> QED BY <2>2, <2>3
  <1>8. mapped' \in BOOLEAN /\ known' \in BOOLEAN /\ (known' => mapped')
        /\ cache' \in [Names -> {"unset", "yes", "no"}] /\ (mapped' => Seen("pn")')
    BY <1>1, <1>7 DEF Inv, Typed, Names
  <1> QED BY <1>1, <1>3, <1>4, <1>5, <1>6, <1>7, <1>8, Goes

(* Where a task goes whose sessions are asserted. *)
LEMMA AssertedFormed ==
    ASSUME Inv, NEW t \in Tasks, task[t].pc \in Asserting
    PROVE  LET q == Asserted(t) IN q \in TaskStates /\ Formed(q, mapped) /\ Formed(q, mapped')
                                   /\ q.pc # "trust"
  <1> DEFINE r == [task[t] EXCEPT !.addr = "pn", !.wire = "pn"]
             q == Asserted(t)
  <1>1. task[t] \in TaskStates /\ Formed(task[t], mapped)
    BY DEF Inv, Typed
  <1>2. r.op \in {"send", "retry", "identity", "devices"} /\ r \in TaskStates
    BY <1>1 DEF Formed, Place, Asserting, Seeking, TaskStates, Names
  <1>3. CASE r.op \in {"send", "retry"}
    <2>1. q = [r EXCEPT !.pc = "encrypt"]
      BY <1>3 DEF Asserted
    <2> HIDE DEF r
    <2>2. q \in TaskStates /\ q.pc = "encrypt"
      BY <1>2, <2>1 DEF TaskStates, Places, Encrypting
    <2> HIDE DEF q
    <2>3. Formed(q, mapped) /\ Formed(q, mapped') /\ q.pc # "trust"
      BY <2>2, Plain DEF Places, Encrypting, Asserting, Moving, Learning
    <2> QED BY <2>2, <2>3 DEF q
  <1>4. CASE r.op = "devices"
    <2>1. q = [r EXCEPT !.op = "send", !.name = "pn", !.force = FALSE, !.pc = "assert"]
      BY <1>4 DEF Asserted
    <2> HIDE DEF r
    <2>2. q \in TaskStates /\ q.pc = "assert" /\ q.op = "send"
      BY <1>2, <2>1 DEF TaskStates, Places, Asserting, Names, Ops
    <2> HIDE DEF q
    <2>3. Formed(q, mapped) /\ Formed(q, mapped') /\ q.pc # "trust"
      BY <2>2, Plain DEF Places, Asserting, Moving, Learning
    <2> QED BY <2>2, <2>3 DEF q
  <1>5. CASE r.op = "identity"
    <2>1. q = Idle
      BY <1>5 DEF Asserted
    <2>2. Formed(Idle, mapped')
      BY IdleTyped, Plain DEF Places, Asserting, Moving, Learning
    <2> QED BY <2>1, <2>2, IdleTyped
  <1> QED BY <1>2, <1>3, <1>4, <1>5

(* A task that asserts: what it is, and that it may go on to the bundles.  *)
LEMMA AtAssert ==
    ASSUME Inv, NEW t \in Tasks, task[t].pc \in Asserting
    PROVE  /\ task[t] \in TaskStates /\ Formed(task[t], mapped) /\ task[t].name \in Names
           /\ task[t].op \in {"send", "retry", "identity", "devices"}
           /\ LET q == ToWire(task[t])
              IN  q \in TaskStates /\ Formed(q, mapped) /\ q.pc # "trust"
  <1>1. task[t] \in TaskStates /\ Formed(task[t], mapped)
    BY DEF Inv, Typed
  <1>2. task[t].op \in {"send", "retry", "identity", "devices"}
    BY <1>1 DEF Formed, Place, Asserting, Seeking
  <1>3. task[t].name \in Names
    BY <1>1 DEF TaskStates
  <1> QED BY <1>1, <1>2, <1>3, Resolves DEF ToWire, Known

LEMMA AssertInv == ASSUME Inv, NEW t \in Tasks, Assert(t) PROVE Inv'
  <1>1. task[t].pc \in Asserting /\ UNCHANGED <<mapped, known, session, reasons, cache>>
    BY DEF Assert, In, Asserting, Elsewhere, sessions, mapping
  <1>2. known \in BOOLEAN /\ (known => mapped)
    BY DEF Inv, Typed
  <1>3. LET q == Resolve(task[t], task[t].name, "validate")
        IN  q \in TaskStates /\ Formed(q, mapped) /\ q.pc # "trust"
    BY <1>1, AtAssert, Resolves DEF Known
  <1>4. \/ Become(t, Asserted(t)) \/ Become(t, ToWire(task[t]))
        \/ Become(t, Resolve(task[t], task[t].name, "validate"))
    BY DEF Assert
  <1>5. CASE Become(t, Asserted(t))
    BY <1>1, <1>2, <1>5, AssertedFormed, Stays
  <1>6. CASE Become(t, ToWire(task[t]))
    BY <1>1, <1>2, <1>6, AtAssert, Stays
  <1>7. CASE Become(t, Resolve(task[t], task[t].name, "validate"))
    BY <1>1, <1>2, <1>3, <1>7, Stays
  <1> QED BY <1>4, <1>5, <1>6, <1>7

LEMMA ValidateInv == ASSUME Inv, NEW t \in Tasks, Validate(t) PROVE Inv'
  <1> DEFINE r == task[t]
             has == r.pc = "validate" /\ session[r.addr] # NoKey
  <1>1. /\ r.pc \in Asserting /\ UNCHANGED <<mapped, known, session>>
        /\ cache' = [cache EXCEPT ![r.name] = IF has THEN "yes" ELSE "no"]
        /\ IF has THEN Found(r.name, r.addr) ELSE UNCHANGED reasons
        /\ Become(t, Asserted(t)) \/ Become(t, ToWire(r))
    BY DEF Validate, In, Asserting, mapping
  <1>2. Typed /\ r.name \in Names /\ Formed(r, mapped) /\ r \in TaskStates
    BY <1>1, AtAssert DEF Inv
  <1>3. cache' \in [Names -> {"unset", "yes", "no"}]
    BY <1>1, <1>2 DEF Typed
  <1>4. reasons' \in [Names -> Reasons]
    BY <1>1, <1>2 DEF Typed, Found, Reasons
  <1>5. \A n \in Names : Seen(n) => Seen(n)'
    <2> SUFFICES ASSUME NEW n \in Names, Seen(n) PROVE Seen(n)'
      OBVIOUS
    <2>1. CASE has /\ n = r.name /\ r.addr = At(n)
      BY <1>1, <2>1 DEF Seen, At
    <2>2. CASE ~(has /\ n = r.name /\ r.addr = At(n))
      BY <1>1, <2>2 DEF Seen, At, Found
    <2> QED BY <2>1, <2>2
  <1>6. mapped' => Seen("pn")'
    BY <1>1, <1>5 DEF Inv, Names
  <1>7. \A n \in Names : cache'[n] = "yes" => cache[n] = "yes" \/ Seen(n)'
    <2> SUFFICES ASSUME has PROVE Seen(r.name) 
      BY <1>1, <1>2, <1>5 DEF Typed
    <2>1. Fits(r.name, r.addr, mapped) /\ r.addr \in Names
      BY <1>2 DEF Formed, Has, Place, Seeking, TaskStates
    <2>2. CASE mapped /\ r.name = "pn"
      BY <2>2 DEF Inv
    <2>3. CASE ~mapped \/ r.name = "lid"
      <3>1. r.addr = At(r.name)
        BY <1>2, <2>1, <2>3 DEF Fits, At, Names
      <3> QED BY <3>1 DEF Seen
    <2> QED BY <1>2, <2>2, <2>3 DEF Names
  <1>8. mapped' \in BOOLEAN /\ known' \in BOOLEAN /\ (known' => mapped')
        /\ session' \in [Names -> Keys]
    BY <1>1 DEF Inv, Typed
  <1>9. CASE Become(t, Asserted(t))
    BY <1>1, <1>3, <1>4, <1>5, <1>6, <1>7, <1>8, <1>9, AssertedFormed, Goes
  <1>10. CASE Become(t, ToWire(r))
    <2>1. LET q == ToWire(r) IN q \in TaskStates /\ Formed(q, mapped') /\ q.pc # "trust"
      BY <1>1, AtAssert
    <2> QED BY <1>1, <1>3, <1>4, <1>5, <1>6, <1>7, <1>8, <1>10, <2>1, Goes
  <1> QED BY <1>1, <1>9, <1>10

LEMMA ConsiderInv == ASSUME Inv, NEW t \in Tasks, Consider(t) PROVE Inv'
  <1> DEFINE r == task[t]
             d == [r EXCEPT !.pc = "delete"]
             s == [r EXCEPT !.op = "send", !.pc = "assert"]
             f == [r EXCEPT !.force = TRUE, !.pc = "assert"]
  <1>1. r.pc \in Asserting /\ UNCHANGED <<mapped, known, session, reasons, cache>>
    BY DEF Consider, In, Asserting, Elsewhere, sessions, mapping
  <1>2. known \in BOOLEAN /\ (known => mapped) /\ r \in TaskStates
        /\ r.op \in {"send", "retry", "identity", "devices"}
    BY <1>1, AtAssert DEF Inv, Typed
  <1>3. End(t) \/ Become(t, d) \/ Become(t, s) \/ Become(t, f)
    BY DEF Consider, Goto
  <1>4. /\ d \in TaskStates /\ d.pc = "delete" /\ d.op = r.op
        /\ s \in TaskStates /\ s.pc = "assert" /\ s.op = "send"
        /\ f \in TaskStates /\ f.pc = "assert" /\ f.op = r.op
    BY <1>2 DEF TaskStates, Ops, Places, Asserting
  <1> HIDE DEF d, s, f
  <1>5. /\ Formed(d, mapped) /\ d.pc # "trust"
        /\ Formed(s, mapped) /\ s.pc # "trust"
        /\ Formed(f, mapped) /\ f.pc # "trust"
    BY <1>2, <1>4, Plain DEF Places, Asserting, Moving, Learning
  <1> QED BY <1>1, <1>2, <1>3, <1>4, <1>5, Ends, Stays

LEMMA FetchInv == ASSUME Inv, NEW t \in Tasks, Fetch(t) PROVE Inv'
  <1> DEFINE r == [task[t] EXCEPT !.wire = task[t].addr]
             q == Resolve(r, r.wire, "inject")
             w == [r EXCEPT !.pc = "trustless"]
  <1>1. task[t].pc \in Asserting /\ UNCHANGED <<mapped, known, session, reasons, cache>>
    BY DEF Fetch, In, Asserting, sessions, mapping
  <1>2. known \in BOOLEAN /\ (known => mapped)
    BY DEF Inv, Typed
  <1>3. /\ r \in TaskStates /\ r.op \in {"send", "retry", "identity", "devices"}
        /\ r.wire \in Names
    BY <1>1, AtAssert DEF TaskStates
  <1>4. Become(t, q) \/ Become(t, w) \/ Become(t, Asserted(t)) \/ Become(t, Idle)
    BY DEF Fetch
  <1> HIDE DEF r
  <1>5. q \in TaskStates /\ Formed(q, mapped) /\ q.pc # "trust"
    BY <1>3, Resolves DEF Known
  <1>6. w \in TaskStates /\ w.pc = "trustless" /\ w.op = r.op
    BY <1>3 DEF TaskStates, Places, Asserting
  <1> HIDE DEF q, w
  <1>7. Formed(w, mapped) /\ w.pc # "trust"
    BY <1>3, <1>6, Plain DEF Places, Asserting, Moving, Learning
  <1>8. CASE Become(t, Asserted(t))
    BY <1>1, <1>2, <1>8, AssertedFormed, Stays
  <1> QED BY <1>1, <1>2, <1>4, <1>5, <1>6, <1>7, <1>8, IdleTyped, Stays

LEMMA InjectInv == ASSUME Inv, NEW t \in Tasks, Inject(t) PROVE Inv'
  <1> DEFINE r == task[t]
             q == [r EXCEPT !.pc = "trust"]
  <1>1. /\ r.pc = "inject" /\ UNCHANGED <<mapped, known, cache>> /\ Become(t, q)
        /\ session' = [session EXCEPT ![r.addr] = Agreed]
        /\ reasons' = [n \in Names |-> IF At(n) = r.addr THEN {} ELSE reasons[n]]
    BY DEF Inject, In, Goto, mapping
  <1>2. /\ Typed /\ r \in TaskStates /\ Formed(r, mapped)
        /\ r.op \in {"send", "retry", "identity", "devices"}
    BY <1>1, AtAssert DEF Inv, Asserting
  <1>3. r.addr \in Names /\ r.wire \in Names /\ Fits(r.wire, r.addr, mapped)
    BY <1>1, <1>2 DEF TaskStates, Formed, Has, Place, Seeking
  <1>4. q \in TaskStates /\ q.pc = "trust" /\ q.op = r.op /\ q.wire = r.wire
    BY <1>2 DEF TaskStates, Places, Asserting
  <1> HIDE DEF q
  <1>5. Formed(q, mapped')
    BY <1>2, <1>4 DEF Formed, Place, Has, Seeking, Asserting, Moving, Learning
  <1>6. session' \in [Names -> Keys] /\ session'[r.addr] # NoKey
        /\ \A a \in Names \ {r.addr} : session'[a] = session[a]
    BY <1>1, <1>2, <1>3, KeysTyped DEF Typed
  <1>7. reasons' \in [Names -> Reasons]
    BY <1>1, <1>2 DEF Typed, Reasons
  <1>8. \A n \in Names : At(n) = r.addr \/ Seen(n) => Seen(n)'
    BY <1>1, <1>6 DEF Seen, At, Names
  <1>9. mapped' \in BOOLEAN /\ known' \in BOOLEAN /\ (known' => mapped')
        /\ cache' \in [Names -> {"unset", "yes", "no"}] /\ (mapped' => Seen("pn")')
    BY <1>1, <1>8 DEF Inv, Typed, Names
  <1>10. \A n \in Names : r.wire = n => Seen(n)'
    <2>1. CASE mapped /\ r.wire = "pn"
      BY <1>8, <2>1 DEF Inv
    <2>2. CASE ~mapped \/ r.wire = "lid"
      BY <1>3, <1>8, <2>2 DEF Fits, At, Names
    <2> QED BY <1>3, <2>1, <2>2 DEF Names
  <1> QED BY <1>1, <1>4, <1>5, <1>6, <1>7, <1>8, <1>9, <1>10, Goes

LEMMA TrustInv == ASSUME Inv, NEW t \in Tasks, Trust(t) PROVE Inv'
  <1> DEFINE w == task[t].wire
  <1>1. /\ task[t].pc \in Asserting /\ UNCHANGED <<mapped, known, session>>
        /\ cache' = [cache EXCEPT ![w] = "yes"] /\ Become(t, Asserted(t))
        /\ \/ In(t, "trust") /\ UNCHANGED reasons
           \/ reasons' = [reasons EXCEPT ![w] = @ \cup {"no bundle"}]
    BY DEF Trust, In, Asserting, mapping
  <1>2. Typed /\ w \in Names
    BY <1>1, AtAssert DEF Inv, TaskStates
  <1>3. cache' \in [Names -> {"unset", "yes", "no"}]
    BY <1>1, <1>2 DEF Typed
  <1>4. reasons' \in [Names -> Reasons]
    <2>1. CASE UNCHANGED reasons
      BY <1>2, <2>1 DEF Typed
    <2>2. CASE reasons' = [reasons EXCEPT ![w] = @ \cup {"no bundle"}]
      BY <1>2, <2>2 DEF Typed, Reasons
    <2> QED BY <1>1, <2>1, <2>2
  <1> HIDE DEF w
  <1>5. \A n \in Names : Seen(n) => Seen(n)'
    BY <1>1, <1>2 DEF Seen, At, Typed
  <1>6. Seen(w) \/ reasons'[w] # {}
    BY <1>1, <1>2 DEF Inv, Typed, w
  <1>7. \A n \in Names : cache'[n] = "yes" => cache[n] = "yes" \/ Seen(n)'
    <2>1. \A n \in Names : n = w => Seen(n)'
      BY <1>5, <1>6 DEF Seen
    <2> QED BY <1>1, <1>2, <2>1 DEF Typed
  <1>8. mapped' \in BOOLEAN /\ known' \in BOOLEAN /\ (known' => mapped')
        /\ session' \in [Names -> Keys] /\ (mapped' => Seen("pn")')
    BY <1>1, <1>5 DEF Inv, Typed, Names
  <1> QED BY <1>1, <1>3, <1>4, <1>5, <1>7, <1>8, AssertedFormed, Goes

LEMMA MakeInv == ASSUME Inv, NEW t \in Tasks, Make(t) PROVE Inv'
  <1> DEFINE a == task[t].addr
             name == IF task[t].op = "receive" THEN "receive" ELSE task[t].name
  <1>1. /\ UNCHANGED <<mapped, known, cache, reasons>> /\ Become(t, Idle)
        /\ session' = [session EXCEPT ![a] = MadeUp(name, t)]
    BY DEF Make, End, mapping
  <1>2. Typed /\ a \in Names /\ name \in Names \cup {"receive"}
    BY DEF Inv, Typed, TaskStates
  <1> HIDE DEF a, name
  <1>3. session' \in [Names -> Keys] /\ session'[a] # NoKey
        /\ \A b \in Names \ {a} : session'[b] = session[b]
    BY <1>1, <1>2, KeysTyped DEF Typed
  <1>4. \A n \in Names : Seen(n) => Seen(n)'
    BY <1>1, <1>3 DEF Seen, At, Names
  <1>5. mapped' \in BOOLEAN /\ known' \in BOOLEAN /\ (known' => mapped')
        /\ cache' \in [Names -> {"unset", "yes", "no"}] /\ reasons' \in [Names -> Reasons]
        /\ (mapped' => Seen("pn")')
    BY <1>1, <1>4 DEF Inv, Typed, Names
  <1>6. Formed(Idle, mapped')
    BY IdleTyped, Plain DEF Places, Asserting, Moving, Learning
  <1> QED BY <1>1, <1>3, <1>4, <1>5, <1>6, IdleTyped, Goes

(* Encryption and decryption up to there, and a cancellation. *)
LEMMA EncryptInv ==
    ASSUME Inv, NEW t \in Tasks, Encrypt(t) \/ GetOrCreate(t) \/ Decrypt(t) PROVE Inv'
  <1> DEFINE r == task[t]
             d == [r EXCEPT !.name = r.addr]
  <1>1. UNCHANGED <<mapped, known, session, reasons, cache>> /\ known \in BOOLEAN
        /\ (known => mapped)
    BY DEF Encrypt, GetOrCreate, Decrypt, Elsewhere, sessions, mapping, Inv, Typed
  <1>2. r \in TaskStates /\ r.name \in Names /\ d \in TaskStates /\ d.name \in Names
    BY DEF Inv, Typed, TaskStates
  <1>3. \/ End(t) \/ Become(t, Resolve(r, r.name, "get")) \/ Become(t, Resolve(r, r.name, "make"))
        \/ Become(t, Resolve(d, d.name, "get"))
    BY DEF Encrypt, GetOrCreate, Decrypt
  <1> HIDE DEF r, d
  <1>4. CASE End(t)
    BY <1>1, <1>4, Ends
  <1>5. CASE Become(t, Resolve(r, r.name, "get"))
    BY <1>1, <1>2, <1>5, Resolves, Stays DEF Known, Asserting
  <1>6. CASE Become(t, Resolve(r, r.name, "make"))
    BY <1>1, <1>2, <1>6, Resolves, Stays DEF Known, Asserting
  <1>7. CASE Become(t, Resolve(d, d.name, "get"))
    BY <1>1, <1>2, <1>7, Resolves, Stays DEF Known, Asserting
  <1> QED BY <1>3, <1>4, <1>5, <1>6, <1>7

LEMMA CancelInv == ASSUME Inv, NEW t \in Tasks, Cancel(t) PROVE Inv'
  <1> DEFINE q == [Idle EXCEPT !.pc = "remove"]
  <1>1. UNCHANGED <<mapped, known, session, reasons, cache>> /\ known \in BOOLEAN
        /\ (known => mapped)
    BY DEF Cancel, CancelRead, CancelJoin, mapping, sessions, Inv, Typed
  <1>2. End(t) \/ Become(t, q)
    BY DEF Cancel
  <1>3. q \in TaskStates /\ q.pc = "remove" /\ q.then = "idle"
    BY IdleTyped DEF TaskStates, Idle
  <1> HIDE DEF q
  <1>4. Formed(q, mapped)
    BY <1>3 DEF Formed, Place, Has, Seeking, Asserting, Moving, Learning
  <1> QED BY <1>1, <1>2, <1>3, <1>4, Ends, Stays

LEMMA ExpireInv == ASSUME Inv, NEW n \in Names, Expire(n) PROVE Inv'
  <1>1. UNCHANGED <<mapped, known, session, reasons, task>>
        /\ cache' = [cache EXCEPT ![n] = "unset"]
    BY DEF Expire, mapping, sessions
  <1>2. Typed'
    BY <1>1 DEF Inv, Typed
  <1>3. \A m \in Names : (cache'[m] = "yes" => cache[m] = "yes") /\ (Seen(m)' <=> Seen(m))
    BY <1>1 DEF Inv, Typed, Seen, At
  <1>4. \A t \in Tasks : Formed(task'[t], mapped') /\ (In(t, "trust")' => Seen(task[t].wire)')
    BY <1>1 DEF Inv, In, Seen, At
  <1>5. mapped' => Seen("pn")'
    BY <1>1, <1>3 DEF Inv, Names
  <1> QED BY <1>1, <1>2, <1>3, <1>4, <1>5 DEF Inv

LEMMA InvNext == ASSUME Inv, [Next]_vars PROVE Inv'
  <1>1. CASE UNCHANGED vars
    <2>1. UNCHANGED <<mapped, known, session, reasons, cache, task>>
      BY <1>1 DEF vars, mapping, sessions
    <2> QED BY <2>1 DEF Inv, Typed, In, Seen, At
  <1>2. ASSUME NEW t \in Tasks, Step(t) PROVE Inv'
    <2>1. CASE Lookup(t) \/ LookupRead(t) \/ LookupRemoved(t) \/ LookupJoined(t)
      BY <2>1, LookupInv, LookupReadInv, LookupRemovedInv, LookupJoinedInv
    <2>2. CASE Learn(t) \/ StoreMapping(t) \/ Scan(t) \/ Reread(t) \/ Move(t)
      BY <2>2, LearnInv, StoreMappingInv, ScanInv, MoveInv
    <2>3. CASE Assert(t) \/ Validate(t) \/ Consider(t) \/ Delete(t)
      BY <2>3, AssertInv, ValidateInv, ConsiderInv, DeleteInv
    <2>4. CASE Fetch(t) \/ Inject(t) \/ Trust(t)
      BY <2>4, FetchInv, InjectInv, TrustInv
    <2>5. CASE Encrypt(t) \/ GetOrCreate(t) \/ Decrypt(t) \/ Make(t)
      BY <2>5, EncryptInv, MakeInv
    <2> QED BY <1>2, <2>1, <2>2, <2>3, <2>4, <2>5 DEF Step
  <1> QED BY <1>1, <1>2, CancelInv, BeginInv, ExpireInv DEF Next

-----------------------------------------------------------------------------
(* A name that the client trusts has a session, or lost it for a reason    *)
(* that is known, whoever sends, receives, retries or learns a mapping     *)
(* meanwhile (messages_send.py 468-539).                                   *)
THEOREM TrustHasReason == Spec => []TrustedHaveSession
  <1>1. Inv => TrustedHaveSession
    BY DEF Inv, TrustedHaveSession, Seen
  <1> QED BY <1>1, InvInit, InvNext, PTL DEF Spec

-----------------------------------------------------------------------------
(* The keys that are made up.  An address is clear for a name when none    *)
(* that was made up for it is there, or when one may have been moved there.*)
Made(addr, name) == session[addr].kind = "made" /\ session[addr].name = name
Clear(addr, name) == ~Made(addr, name) \/ (addr = "lid" /\ migrated)

(* A task that has the mutex of its name and looks up the address, ...     *)
MakingSoon(r) ==
    /\ r.name = "pn"
    /\ Place(r) = "make" => (~mapped => Clear("pn", "pn")) /\ Clear("lid", "pn")

(* ... and one that has it: where it looked for a session, and found none, *)
(* it replaces no key made up for its name, nor where it may yet go.       *)
MakingHere(r) ==
    /\ Fits(r.name, r.addr, mapped)
    /\ Place(r) = "get" /\ r.addr = "pn" => Clear("lid", "pn")
    /\ Place(r) = "make" => Clear(r.addr, r.name)

Making(t, r) ==
    /\ Place(r) = "move" => migrated
    /\ Place(r) = "decrypt" => r.op = "receive"
    /\ Place(r) \in {"get", "make"} /\ r.op # "receive" =>
         /\ mutex[r.name] = t
         /\ r.pc \in Seeking => MakingSoon(r)
         /\ r.pc \notin Seeking => MakingHere(r)

Once ==
    /\ mapped => known
    /\ Made("lid", "pn") => mapped
    /\ ~Made("pn", "lid")
    /\ mutex \in [Names -> Tasks \cup {NoTask}]
    /\ \A t \in Tasks : Making(t, task[t])

(* A step of a task leaves to the others what they rely on, their mutexes, *)
(* and the addresses that are clear for a name whose mutex they hold.      *)
Kept(t) ==
    /\ \A u \in Tasks \ {t} : task'[u] = task[u]
    /\ mapped => mapped'
    /\ migrated => migrated'
    /\ mutex' \in [Names -> Tasks \cup {NoTask}]
    /\ \A n \in Names, u \in Tasks \ {t} : mutex[n] = u => mutex'[n] = u
    /\ \A a \in Names, n \in Names : Clear(a, n) => Clear(a, n)' \/ mutex[n] = t

LEMMA OnceInit == ASSUME Init PROVE Once
  <1>1. \A n \in Names : session[n].kind = "none"
    BY DEF Init, NoKey, Key
  <1>2. \A t \in Tasks : Place(task[t]) = "idle"
    BY IdleTyped DEF Init, Place, Seeking
  <1>3. \A t \in Tasks : Making(t, task[t])
    BY <1>2 DEF Making
  <1>4. mutex \in [Names -> Tasks \cup {NoTask}] /\ mapped = FALSE
    BY DEF Init, InitMapping
  <1> QED BY <1>1, <1>3, <1>4 DEF Once, Made, Names

LEMMA GoesOn ==
    ASSUME Inv, Once, NEW t \in Tasks, Kept(t), Making(t, task[t])',
           mapped' => known', Made("lid", "pn")' => mapped', ~Made("pn", "lid")'
    PROVE  Once'
  <1>1. ASSUME NEW u \in Tasks \ {t} PROVE Making(u, task[u])'
    <2>1. PICK r \in TaskStates : r = task[u]
      BY DEF Inv, Typed
    <2>2. task'[u] = r /\ Making(u, r) /\ r.name \in Names /\ r.addr \in Names
      BY <2>1 DEF Kept, Once, TaskStates
    <2>3. CASE Place(r) \in {"get", "make"} /\ r.op # "receive"
      <3>1. mutex[r.name] = u /\ mutex'[r.name] = u
        BY <2>2, <2>3 DEF Making, Kept
      <3>2. \A a \in Names : Clear(a, r.name) => Clear(a, r.name)'
        BY <2>2, <3>1 DEF Kept
      <3>3. r.pc \in Seeking => MakingSoon(r)'
        <4> SUFFICES ASSUME r.pc \in Seeking PROVE MakingSoon(r)'
          OBVIOUS
        <4>1. MakingSoon(r) /\ r.name = "pn"
          BY <2>2, <2>3 DEF Making, MakingSoon
        <4>2. (Clear("pn", "pn") => Clear("pn", "pn")') /\ (Clear("lid", "pn") => Clear("lid", "pn")')
          BY <3>2, <4>1 DEF Names
        <4> QED BY <4>1, <4>2 DEF MakingSoon, Kept
      <3>4. r.pc \notin Seeking => MakingHere(r)'
        <4> SUFFICES ASSUME r.pc \notin Seeking PROVE MakingHere(r)'
          OBVIOUS
        <4>1. MakingHere(r)
          BY <2>2, <2>3 DEF Making
        <4>2. Fits(r.name, r.addr, mapped)'
          BY <4>1 DEF MakingHere, Fits, Kept
        <4>3. r.addr = "pn" => r.name = "pn"
          BY <2>2, <4>1 DEF MakingHere, Fits, Names
        <4>4. Place(r) = "get" /\ r.addr = "pn" => Clear("lid", "pn")'
          BY <3>2, <4>1, <4>3 DEF MakingHere, Names
        <4>5. Place(r) = "make" => Clear(r.addr, r.name)'
          BY <2>2, <3>2, <4>1 DEF MakingHere
        <4> QED BY <4>2, <4>4, <4>5 DEF MakingHere
      <3>5. Making(u, r)'
        BY <2>3, <3>1, <3>3, <3>4 DEF Making
      <3> QED BY <2>2, <3>5 DEF Making, MakingSoon, MakingHere, Clear, Made
    <2>4. CASE ~(Place(r) \in {"get", "make"} /\ r.op # "receive")
      BY <2>2, <2>4 DEF Making, Kept
    <2> QED BY <2>3, <2>4
  <1> QED BY <1>1 DEF Once, Kept

(* A step that changes no session and learns no mapping. *)
LEMMA Settled ==
    ASSUME Inv, Once, NEW t \in Tasks, NEW r \in TaskStates, Become(t, r),
           UNCHANGED <<mapped, session>>, known => known', migrated => migrated',
           UNCHANGED mutex \/ Unlock(t), Making(t, task[t])'
    PROVE  Once'
  <1>1. \A u \in Tasks \ {t} : task'[u] = task[u]
    BY DEF Become, Inv, Typed
  <1>2. \A a \in Names, n \in Names : (Made(a, n)' <=> Made(a, n)) /\ (Clear(a, n) => Clear(a, n)')
    BY DEF Made, Clear
  <1>3. mutex' \in [Names -> Tasks \cup {NoTask}]
    BY DEF Once, Unlock
  <1>4. \A n \in Names, u \in Tasks \ {t} : mutex[n] = u => mutex'[n] = u
    BY DEF Unlock
  <1>5. Kept(t)
    BY <1>1, <1>2, <1>3, <1>4 DEF Kept
  <1>6. (mapped' => known') /\ (Made("lid", "pn")' => mapped') /\ ~Made("pn", "lid")'
    BY <1>2 DEF Once, Names
  <1> QED BY <1>5, <1>6, GoesOn

(* A task that goes on to where nothing is asked of it. *)
LEMMA Away ==
    ASSUME Inv, NEW t \in Tasks, NEW r \in TaskStates, Become(t, r),
           Place(r) \notin {"decrypt", "get", "make", "move"}
    PROVE  Making(t, task[t])'
  <1>1. task'[t] = r
    BY DEF Become, Inv, Typed
  <1> QED BY <1>1 DEF Making, Place

(* Where a resolution leads. *)
LEMMA ResolveLeads ==
    ASSUME NEW r \in TaskStates, NEW name \in Names, NEW then \in Known
    PROVE  LET q == Resolve(r, name, then)
           IN  /\ q \in TaskStates /\ Place(q) = then /\ q.op = r.op /\ q.name = r.name
               /\ name = "lid" => q.addr = "lid" /\ q.pc \notin Seeking
               /\ name = "pn" => q.pc \in Seeking
  <1> DEFINE q == Resolve(r, name, then)
  <1>1. then \in Places /\ then \notin Seeking \cup {"remove"}
    BY DEF Known, Places, Asserting, Encrypting, Seeking
  <1>2. CASE name = "lid"
    <2>1. q = [r EXCEPT !.addr = "lid", !.pc = then]
      BY <1>2 DEF Resolve
    <2>2. q \in TaskStates /\ q.pc = then /\ q.addr = "lid" /\ q.op = r.op /\ q.name = r.name
      BY <1>1, <2>1 DEF TaskStates, Names
    <2> QED BY <1>1, <1>2, <2>2 DEF Place
  <1>3. CASE name = "pn"
    <2>1. q = [r EXCEPT !.pc = "lookup", !.then = then]
      BY <1>3 DEF Resolve
    <2>2. q \in TaskStates /\ q.pc = "lookup" /\ q.then = then /\ q.op = r.op /\ q.name = r.name
      BY <1>1, <2>1 DEF TaskStates, Seeking
    <2> QED BY <1>3, <2>2 DEF Place, Seeking
  <1> QED BY <1>2, <1>3 DEF Names

(* A lookup is under way: the next part of it, ... *)
LEMMA Seeks ==
    ASSUME Inv, Once, NEW t \in Tasks, task[t].pc \in Seeking, NEW place \in Seeking,
           Goto(t, place), UNCHANGED <<mapped, session, migrated, mutex>>
    PROVE  Making(t, task[t])'
  <1>1. PICK r \in TaskStates : r = task[t]
    BY DEF Inv, Typed
  <1>2. PICK q : q = [r EXCEPT !.pc = place]
    OBVIOUS
  <1>3. task'[t] = q
    BY <1>1, <1>2 DEF Goto, Become, Inv, Typed
  <1>4. q.pc = place /\ q.then = r.then /\ q.op = r.op /\ q.name = r.name
    BY <1>2 DEF TaskStates
  <1>5. Place(q) = Place(r) /\ Making(t, r) /\ r.pc \in Seeking
    BY <1>1, <1>4 DEF Place, Seeking, Once
  <1>6. Making(t, q)'
    BY <1>4, <1>5 DEF Making, MakingSoon, Clear, Made
  <1> QED BY <1>3, <1>6 DEF Making, MakingSoon, MakingHere, Clear, Made

(* ... or its result, of a phone number that is mapped or not. *)
LEMMA Seeked ==
    ASSUME Inv, Once, NEW t \in Tasks, task[t].pc \in Seeking,
           NEW q \in TaskStates, q = Resolved(t, mapped)
    PROVE  Making(t, q)
  <1> DEFINE r == task[t]
  <1>1. r \in TaskStates /\ Making(t, r) /\ Place(r) = r.then
    BY DEF Inv, Typed, Once, Place
  <1>2. q = [r EXCEPT !.addr = IF mapped THEN "lid" ELSE "pn", !.pc = r.then, !.then = "idle"]
    BY DEF Resolved
  <1>3. /\ q.pc = r.then /\ q.op = r.op /\ q.name = r.name
        /\ q.addr = IF mapped THEN "lid" ELSE "pn"
    BY <1>1, <1>2 DEF TaskStates
  <1>4. Place(q) = r.then /\ q.pc \notin Seeking
    BY <1>1, <1>3 DEF Place, TaskStates, Places, Seeking, Asserting, Learning, Moving, Encrypting
  <1>5. CASE r.then \in {"get", "make"} /\ r.op # "receive"
    <2>1. mutex[q.name] = t /\ MakingSoon(r) /\ q.name = "pn"
      BY <1>1, <1>3, <1>5 DEF Making, MakingSoon
    <2>2. ~mapped => Clear("lid", "pn")
      BY DEF Once, Clear
    <2>3. MakingHere(q)
      BY <1>1, <1>3, <1>4, <1>5, <2>1, <2>2 DEF MakingHere, MakingSoon, Fits
    <2> QED BY <1>4, <1>5, <2>1, <2>3 DEF Making
  <1>6. CASE ~(r.then \in {"get", "make"} /\ r.op # "receive")
    BY <1>1, <1>3, <1>4, <1>6 DEF Making
  <1> QED BY <1>5, <1>6

LEMMA GoesTo ==
    ASSUME Inv, Once, NEW t \in Tasks, NEW q \in TaskStates, Making(t, q), Become(t, q),
           UNCHANGED mutex \/ (q = Idle /\ Unlock(t)),
           UNCHANGED <<mapped, session, migrated>>, known => known'
    PROVE  Once'
  <1>1. task'[t] = q
    BY DEF Become, Inv, Typed
  <1>2. Making(t, task[t])'
    <2>1. CASE UNCHANGED mutex
      BY <1>1, <2>1 DEF Making, MakingSoon, MakingHere, Clear, Made
    <2>2. CASE q = Idle
      BY <2>2, Away, IdleTyped DEF Place, Seeking
    <2> QED BY <2>1, <2>2
  <1> QED BY <1>2, Settled

(* The place of what is left of a lookup to be done, and after it. *)
LEMMA SamePlace ==
    ASSUME Once, NEW t \in Tasks, NEW q \in TaskStates, NEW r, Making(t, q),
           Place(r) = Place(q), q.pc \notin Seeking, r.pc \notin Seeking,
           r.op = q.op, r.name = q.name, r.addr = q.addr
    PROVE  Making(t, r)
  BY DEF Making, MakingHere

LEMMA LookupOnce == ASSUME Inv, Once, NEW t \in Tasks, Lookup(t) PROVE Once'
  <1>1. /\ task[t].pc \in Seeking /\ UNCHANGED <<mapped, known, session, migrated, mutex>>
    BY DEF Lookup, In, Elsewhere, sessions, Seeking, LookupCached, BeginLookup, JoinLookup, mapping
  <1>2. CASE LookupCached /\ Become(t, Resolved(t, TRUE))
    <2>1. mapped = TRUE
      BY <1>2 DEF LookupCached, Inv, Typed
    <2>2. PICK q \in TaskStates : q = Resolved(t, mapped)
      BY <1>1, <2>1, ResolvedFormed
    <2>3. Making(t, q)
      BY <1>1, <2>2, Seeked
    <2>4. Become(t, q)
      BY <1>2, <2>1, <2>2
    <2> QED BY <1>1, <2>3, <2>4, GoesTo
  <1>3. ASSUME NEW place \in {"read", "join"}, Goto(t, place) PROVE Once'
    <2>1. Making(t, task[t])'
      BY <1>1, <1>3, Seeks DEF Seeking
    <2>2. PICK q : q = [task[t] EXCEPT !.pc = place]
      OBVIOUS
    <2>3. q \in TaskStates /\ Become(t, q)
      BY <1>3, <2>2 DEF TaskStates, Inv, Typed, Seeking, Goto
    <2> QED BY <1>1, <2>1, <2>3, Settled
  <1> QED BY <1>2, <1>3 DEF Lookup

LEMMA LookupReadOnce == ASSUME Inv, Once, NEW t \in Tasks, LookupRead(t) PROVE Once'
  <1>1. /\ task[t].pc \in Seeking /\ UNCHANGED <<mapped, session, migrated>> /\ (known => known')
        /\ mapped \in BOOLEAN
    BY DEF LookupRead, In, Seeking, EndRead, sessions, Inv, Typed
  <1>2. PICK q : q = IF future = "cancelled" THEN Raised(t) ELSE Resolved(t, mapped)
    OBVIOUS
  <1>3. q \in TaskStates /\ q.pc \in Places
    BY <1>1, <1>2, RaisedFormed, ResolvedFormed
  <1>4. q.pc \notin Seeking \cup {"remove"} /\ Place(q) = q.pc
    BY <1>3 DEF Place, Places, Seeking, Asserting, Learning, Moving, Encrypting
  <1>5. Making(t, q)
    <2>1. CASE future = "cancelled"
      <3>1. q.pc \in {"invalid", "idle"}
        BY <1>1, <1>2, <2>1, IdleTyped DEF Raised, Inv, Typed, TaskStates
      <3> QED BY <1>4, <3>1 DEF Making
    <2>2. CASE future # "cancelled"
      BY <1>1, <1>2, <1>3, <2>2, Seeked
    <2> QED BY <2>1, <2>2
  <1>6. CASE Ended(t, q)
    BY <1>1, <1>3, <1>5, <1>6, GoesTo DEF Ended
  <1>7. CASE Become(t, [q EXCEPT !.pc = "remove", !.then = q.pc]) /\ UNCHANGED mutex
    <2>1. PICK r : r = [q EXCEPT !.pc = "remove", !.then = q.pc]
      OBVIOUS
    <2>2. /\ r \in TaskStates /\ r.pc = "remove" /\ r.then = q.pc /\ r.op = q.op
          /\ r.name = q.name /\ r.addr = q.addr
      BY <1>3, <2>1 DEF TaskStates
    <2>3. Place(r) = Place(q) /\ r.pc \notin Seeking
      BY <1>4, <2>2 DEF Place, Seeking
    <2>4. Making(t, r)
      BY <1>3, <1>4, <1>5, <2>2, <2>3, SamePlace
    <2> QED BY <1>1, <1>7, <2>1, <2>2, <2>4, GoesTo
  <1> QED BY <1>2, <1>6, <1>7 DEF LookupRead

LEMMA LookupRemovedOnce == ASSUME Inv, Once, NEW t \in Tasks, LookupRemoved(t) PROVE Once'
  <1>1. PICK q \in TaskStates : q = task[t]
    BY DEF Inv, Typed
  <1>2. PICK r : r = [q EXCEPT !.pc = q.then, !.then = "idle"]
    OBVIOUS
  <1>3. q.pc = "remove" /\ UNCHANGED <<mapped, known, session, migrated>> /\ Making(t, q)
    BY <1>1 DEF LookupRemoved, In, RemoveLookup, sessions, Once
  <1>4. /\ r \in TaskStates /\ r.pc = q.then /\ r.op = q.op /\ r.name = q.name
        /\ r.addr = q.addr /\ r.pc \in Places
    BY <1>1, <1>2 DEF TaskStates, Places
  <1>5. Place(r) = Place(q) /\ r.pc \notin Seeking /\ q.pc \notin Seeking
    BY <1>3, <1>4 DEF Place, Places, Seeking, Asserting, Learning, Moving, Encrypting
  <1>6. Making(t, r)
    BY <1>3, <1>4, <1>5, SamePlace
  <1>7. Making(t, Idle)
    BY IdleTyped DEF Making, Place, Seeking
  <1>8. Ended(t, Idle) \/ Ended(t, r)
    BY <1>1, <1>2 DEF LookupRemoved
  <1> QED BY <1>3, <1>4, <1>6, <1>7, <1>8, IdleTyped, GoesTo DEF Ended

LEMMA LookupJoinedOnce == ASSUME Inv, Once, NEW t \in Tasks, LookupJoined(t) PROVE Once'
  <1>1. /\ task[t].pc \in Seeking /\ UNCHANGED <<mapped, known, session, migrated>>
        /\ known = mapped /\ mapped \in BOOLEAN
    BY DEF LookupJoined, In, Seeking, LeaveLookup, sessions, Inv, Typed, Once
  <1>2. PICK q : q = IF future = "cancelled" THEN Raised(t) ELSE Resolved(t, mapped)
    OBVIOUS
  <1>3. q \in TaskStates /\ Ended(t, q)
    BY <1>1, <1>2, RaisedFormed, ResolvedFormed DEF LookupJoined
  <1>4. Making(t, q)
    <2>1. CASE future = "cancelled"
      <3>1. q.pc \in {"invalid", "idle"}
        BY <1>1, <1>2, <2>1, IdleTyped DEF Raised, Inv, Typed, TaskStates
      <3> QED BY <3>1 DEF Making, Place, Seeking
    <2>2. CASE future # "cancelled"
      BY <1>1, <1>2, <1>3, <2>2, Seeked
    <2> QED BY <2>1, <2>2
  <1> QED BY <1>1, <1>3, <1>4, GoesTo DEF Ended

-----------------------------------------------------------------------------
(* The other steps.  Of those that make up no key and go on to where none  *)
(* is made up it is enough that no key is.                                 *)
LEMMA Leaves ==
    ASSUME Inv, Once, NEW t \in Tasks, NEW r \in TaskStates, Become(t, r),
           Place(r) \notin {"decrypt", "get", "make", "move"},
           mapped => mapped', mapped' => known', migrated => migrated',
           UNCHANGED mutex \/ Unlock(t),
           \A a \in Names, n \in Names : Made(a, n)' => Made(a, n)
    PROVE  Once'
  <1>1. \A u \in Tasks \ {t} : task'[u] = task[u]
    BY DEF Become, Inv, Typed
  <1>2. \A a \in Names, n \in Names : Clear(a, n) => Clear(a, n)'
    BY DEF Clear
  <1>3. mutex' \in [Names -> Tasks \cup {NoTask}]
    BY DEF Once, Unlock
  <1>4. \A n \in Names, u \in Tasks \ {t} : mutex[n] = u => mutex'[n] = u
    BY DEF Unlock
  <1>5. Kept(t)
    BY <1>1, <1>2, <1>3, <1>4 DEF Kept
  <1>6. (Made("lid", "pn")' => mapped') /\ ~Made("pn", "lid")'
    BY DEF Once, Names
  <1>7. Making(t, task[t])'
    BY Away
  <1> QED BY <1>5, <1>6, <1>7, GoesOn

LEMMA SameMade ==
    ASSUME UNCHANGED session PROVE \A a \in Names, n \in Names : Made(a, n)' => Made(a, n)
  BY DEF Made

LEMMA PlainPlace ==
    ASSUME NEW r, r.pc \in {"idle", "encrypt", "scan", "reread"} \cup Asserting \cup Learning
    PROVE  Place(r) \notin {"decrypt", "get", "make", "move"}
  BY DEF Place, Asserting, Learning, Seeking

LEMMA LearntPlace ==
    ASSUME Inv, NEW t \in Tasks, task[t].pc \in Learning
    PROVE  Learnt(t).pc \in {"idle", "scan", "assert"}
  <1>1. task[t] \in TaskStates /\ task[t].op \in {"devices", "mapping", "migrate"}
    BY DEF Inv, Typed, Formed, Place, Learning, Seeking
  <1> QED BY <1>1, IdleTyped DEF Learnt, TaskStates

LEMMA AssertedPlace ==
    ASSUME Inv, NEW t \in Tasks, task[t].pc \in Asserting
    PROVE  Asserted(t).pc \in {"idle", "encrypt", "assert"}
  <1>1. task[t] \in TaskStates /\ task[t].op \in {"send", "retry", "identity", "devices"}
    BY AtAssert
  <1>2. PICK r : r = [task[t] EXCEPT !.addr = "pn", !.wire = "pn"]
    OBVIOUS
  <1>3. r \in TaskStates /\ r.op = task[t].op
    BY <1>1, <1>2 DEF TaskStates, Names
  <1>4. Asserted(t) = CASE r.op \in {"send", "retry"} -> [r EXCEPT !.pc = "encrypt"]
                        [] r.op = "devices" -> [r EXCEPT !.op = "send", !.name = "pn",
                                                         !.force = FALSE, !.pc = "assert"]
                        [] r.op = "identity" -> Idle
    BY <1>2 DEF Asserted
  <1> QED BY <1>1, <1>3, <1>4, IdleTyped DEF TaskStates

LEMMA LearnOnce == ASSUME Inv, Once, NEW t \in Tasks, Learn(t) \/ StoreMapping(t) PROVE Once'
  <1>1. /\ task[t].pc \in Learning /\ UNCHANGED <<session, migrated, mutex>>
        /\ mapped => mapped'
        /\ mapped' => known'
        /\ (Become(t, Learnt(t)) /\ mapped') \/ Goto(t, "store")
    <2>1. (mapped => known) /\ (known => mapped)
      BY DEF Once, Inv
    <2>2. CASE Learn(t)
      BY <2>1, <2>2 DEF Learn, FindPair, Elsewhere, sessions, mapping, In, Learning
    <2>3. CASE StoreMapping(t)
      BY <2>3 DEF StoreMapping, StorePair, In, Learning
    <2> QED BY <2>2, <2>3
  <1>2. CASE Become(t, Learnt(t)) /\ mapped'
    <2>1. PICK r : r = Learnt(t)
      OBVIOUS
    <2>2. r \in TaskStates /\ Place(r) \notin {"decrypt", "get", "make", "move"}
      BY <1>1, <1>2, <2>1, LearntFormed, LearntPlace, PlainPlace DEF Asserting
    <2> QED BY <1>1, <1>2, <2>1, <2>2, Leaves, SameMade
  <1>3. CASE Goto(t, "store")
    <2>1. PICK r : r = [task[t] EXCEPT !.pc = "store"]
      OBVIOUS
    <2>2. r \in TaskStates /\ r.pc = "store"
      BY <2>1 DEF Inv, Typed, TaskStates, Places, Learning
    <2>3. Become(t, r) /\ Place(r) \notin {"decrypt", "get", "make", "move"}
      BY <1>3, <2>1, <2>2, PlainPlace DEF Learning, Goto
    <2> QED BY <1>1, <2>2, <2>3, Leaves, SameMade
  <1> QED BY <1>1, <1>2, <1>3

LEMMA IdlePlace == Place(Idle) \notin {"decrypt", "get", "make", "move"}
  BY IdleTyped, PlainPlace

LEMMA ScanOnce == ASSUME Inv, Once, NEW t \in Tasks, Scan(t) \/ Reread(t) PROVE Once'
  <1>1. /\ task[t] \in TaskStates /\ UNCHANGED <<mapped, known, session, mutex>>
        /\ migrated => migrated'
    BY DEF Scan, Reread, Elsewhere, sessions, mapping, Inv, Typed
  <1>2. mapped => known
    BY DEF Once
  <1>3. CASE Become(t, Idle)
    BY <1>1, <1>2, <1>3, IdleTyped, IdlePlace, Leaves, SameMade
  <1>4. CASE Goto(t, "reread")
    <2>1. PICK r : r = [task[t] EXCEPT !.pc = "reread"]
      OBVIOUS
    <2>2. r \in TaskStates /\ r.pc = "reread"
      BY <1>1, <2>1 DEF TaskStates, Places, Moving
    <2>3. Become(t, r) /\ Place(r) \notin {"decrypt", "get", "make", "move"}
      BY <1>4, <2>1, <2>2, PlainPlace DEF Goto
    <2> QED BY <1>1, <1>2, <2>2, <2>3, Leaves, SameMade
  <1>5. CASE Become(t, [task[t] EXCEPT !.moved = session["pn"], !.pc = "move"]) /\ migrated' = TRUE
    <2>1. PICK r : r = [task[t] EXCEPT !.moved = session["pn"], !.pc = "move"]
      OBVIOUS
    <2>2. r \in TaskStates /\ Place(r) = "move"
      BY <1>1, <2>1 DEF Inv, Typed, Names, TaskStates, Places, Moving, Place, Seeking
    <2>3. task'[t] = r
      BY <1>5, <2>1 DEF Become, Inv, Typed
    <2>4. Making(t, task[t])'
      BY <1>5, <2>2, <2>3 DEF Making, Place
    <2> QED BY <1>1, <1>5, <2>1, <2>2, <2>4, Settled
  <1> QED BY <1>3, <1>4, <1>5 DEF Scan, Reread, End

(* An assertion goes on to assert, or to encrypt. *)
LEMMA AssertOnce ==
    ASSUME Inv, Once, NEW t \in Tasks,
           Assert(t) \/ Validate(t) \/ Consider(t) \/ Fetch(t) \/ Trust(t)
    PROVE  Once'
  <1>1. /\ task[t].pc \in Asserting /\ UNCHANGED <<mapped, known, session, migrated, mutex>>
    BY DEF Assert, Validate, Consider, Fetch, Trust, In, Asserting, Elsewhere, sessions, mapping
  <1>2. PICK r \in TaskStates : r = task[t]
    BY DEF Inv, Typed
  <1>3. r.name \in Names /\ r.addr \in Names
    BY <1>2 DEF TaskStates
  <1>4. PICK w : w = [r EXCEPT !.wire = r.addr]
    OBVIOUS
  <1>5. w \in TaskStates /\ w.wire \in Names
    BY <1>3, <1>4 DEF TaskStates
  <1>6. \/ Become(t, Asserted(t)) \/ Become(t, Resolve(r, r.name, "validate"))
        \/ Become(t, Resolve(r, r.name, "fetch")) \/ Become(t, Resolve(w, w.wire, "inject"))
        \/ Become(t, [r EXCEPT !.pc = "delete"]) \/ Become(t, Idle)
        \/ Become(t, [r EXCEPT !.op = "send", !.pc = "assert"])
        \/ Become(t, [r EXCEPT !.force = TRUE, !.pc = "assert"])
        \/ Become(t, [w EXCEPT !.pc = "trustless"])
    BY <1>2, <1>4 DEF Assert, Validate, Consider, Fetch, Trust, ToWire, Goto, End
  <1>7. PICK q \in TaskStates :
          Become(t, q) /\ Place(q) \notin {"decrypt", "get", "make", "move"}
    <2>1. CASE Become(t, Asserted(t))
      BY <1>1, <2>1, AssertedFormed, AssertedPlace, PlainPlace DEF Asserting
    <2>2. CASE Become(t, Resolve(r, r.name, "validate"))
      BY <1>3, <2>2, ResolveLeads, ZenonT(60) DEF Known
    <2>3. CASE Become(t, Resolve(r, r.name, "fetch"))
      BY <1>3, <2>3, ResolveLeads DEF Known
    <2>4. CASE Become(t, Resolve(w, w.wire, "inject"))
      BY <1>5, <2>4, ResolveLeads DEF Known
    <2>5. CASE Become(t, Idle)
      BY <2>5, IdleTyped, IdlePlace
    <2>6. CASE Become(t, [r EXCEPT !.pc = "delete"])
      <3>1. PICK q : q = [r EXCEPT !.pc = "delete"]
        OBVIOUS
      <3>2. q \in TaskStates /\ q.pc \in Asserting
        BY <3>1 DEF TaskStates, Places, Asserting
      <3> QED BY <2>6, <3>1, <3>2, PlainPlace
    <2>7. CASE Become(t, [r EXCEPT !.op = "send", !.pc = "assert"])
      <3>1. PICK q : q = [r EXCEPT !.op = "send", !.pc = "assert"]
        OBVIOUS
      <3>2. q \in TaskStates /\ q.pc \in Asserting
        BY <3>1 DEF TaskStates, Places, Asserting, Ops
      <3> QED BY <2>7, <3>1, <3>2, PlainPlace
    <2>8. CASE Become(t, [r EXCEPT !.force = TRUE, !.pc = "assert"])
      <3>1. PICK q : q = [r EXCEPT !.force = TRUE, !.pc = "assert"]
        OBVIOUS
      <3>2. q \in TaskStates /\ q.pc \in Asserting
        BY <3>1 DEF TaskStates, Places, Asserting
      <3> QED BY <2>8, <3>1, <3>2, PlainPlace
    <2>9. CASE Become(t, [w EXCEPT !.pc = "trustless"])
      <3>1. PICK q : q = [w EXCEPT !.pc = "trustless"]
        OBVIOUS
      <3>2. q \in TaskStates /\ q.pc \in Asserting
        BY <1>5, <3>1 DEF TaskStates, Places, Asserting
      <3> QED BY <2>9, <3>1, <3>2, PlainPlace
    <2> QED BY <1>6, <2>1, <2>2, <2>3, <2>4, <2>5, <2>6, <2>7, <2>8, <2>9
  <1> QED BY <1>1, <1>7, Leaves, SameMade DEF Once

(* A session that is deleted, or agreed on, is not made up. *)
LEMMA DeleteOnce == ASSUME Inv, Once, NEW t \in Tasks, Delete(t) \/ Inject(t) PROVE Once'
  <1>1. UNCHANGED <<mapped, known, migrated, mutex>>
    BY DEF Delete, Inject, mapping
  <1>2. PICK r \in TaskStates : r = task[t]
    BY DEF Inv, Typed
  <1>3. \A a \in Names, n \in Names : Made(a, n)' => Made(a, n)
    <2>1. session \in [Names -> Keys] /\ NoKey.kind = "none" /\ Agreed.kind = "agreed"
      BY DEF Inv, Typed, NoKey, Agreed, Key
    <2>2. \A a \in Names : session'[a] \in {session[a], NoKey, Agreed}
      BY <2>1 DEF Delete, Inject
    <2> QED BY <2>1, <2>2 DEF Made
  <1>4. PICK q : q = IF Delete(t) THEN [r EXCEPT !.op = "send", !.addr = "pn", !.pc = "assert"]
                                  ELSE [r EXCEPT !.pc = "trust"]
    OBVIOUS
  <1>5. q \in TaskStates /\ q.pc \in Asserting
    BY <1>4 DEF TaskStates, Ops, Names, Places, Asserting
  <1>6. Become(t, q)
    BY <1>2, <1>4 DEF Delete, Inject, Goto
  <1> QED BY <1>1, <1>3, <1>5, <1>6, PlainPlace, Leaves DEF Once

(* A session that is moved to the LID may be one that was made up. *)
LEMMA MoveOnce == ASSUME Inv, Once, NEW t \in Tasks, Move(t) PROVE Once'
  <1>1. /\ session' = [pn |-> NoKey, lid |-> task[t].moved] /\ Become(t, Idle)
        /\ UNCHANGED <<mapped, known, migrated, mutex>> /\ task[t].pc = "move"
    BY DEF Move, End, mapping, In
  <1>2. mapped /\ migrated
    BY <1>1 DEF Inv, Formed, Once, Making, Place, Moving, Seeking
  <1>3. session'["pn"].kind = "none"
    BY <1>1 DEF NoKey, Key
  <1>4. \A a \in Names, n \in Names : Clear(a, n)'
    BY <1>1, <1>2, <1>3 DEF Clear, Made, Names
  <1>5. \A u \in Tasks \ {t} : task'[u] = task[u]
    BY <1>1 DEF Become, Inv, Typed
  <1>6. Kept(t)
    BY <1>1, <1>4, <1>5 DEF Kept, Once
  <1>7. Making(t, task[t])'
    BY <1>1, Away, IdleTyped, IdlePlace
  <1> QED BY <1>1, <1>2, <1>3, <1>6, <1>7, GoesOn DEF Once, Made

LEMMA BeginOnce ==
    ASSUME Inv, Once, NEW t \in Tasks, NEW o \in Operations, Begin(t, o[1], o[2]) PROVE Once'
  <1>1. PICK op, name : op = o[1] /\ name = o[2]
    OBVIOUS
  <1>2. op \in Ops \ {"none"} /\ name \in Names
    BY <1>1, SessionsAssumption DEF Ops, PhoneOperations, NameOperations, Names
  <1>3. PICK r : r = [Idle EXCEPT !.op = op, !.name = name]
    OBVIOUS
  <1>4. r \in TaskStates /\ r.op = op /\ r.name = name
    BY <1>2, <1>3, IdleTyped DEF TaskStates, Ops, Idle
  <1>5. UNCHANGED <<mapped, known, session, migrated, mutex>>
    BY DEF Begin, sessions, mapping
  <1>6. Begin(t, op, name)
    BY <1>1
  <1>7. CASE op = "receive"
    <2>1. PICK q : q = Resolve(r, name, "decrypt")
      OBVIOUS
    <2>2. q \in TaskStates /\ Place(q) = "decrypt" /\ q.op = "receive" /\ Become(t, q)
      <3>1. Become(t, q)
        BY <1>3, <1>6, <1>7, <2>1 DEF Begin
      <3>2. q \in TaskStates /\ Place(q) = "decrypt" /\ q.op = r.op
        <4>1. name \in Names /\ r \in TaskStates /\ "decrypt" \in Known
          BY <1>2, <1>4 DEF Known
        <4> QED BY <2>1, <4>1, ResolveLeads
      <3> QED BY <1>4, <1>7, <3>1, <3>2
    <2>3. Making(t, q)
      BY <2>2 DEF Making
    <2> QED BY <1>5, <2>2, <2>3, GoesTo
  <1>8. CASE op # "receive"
    <2>1. PICK q \in TaskStates :
            Become(t, q) /\ Place(q) \notin {"decrypt", "get", "make", "move"}
      <3>1. CASE op \in {"retry", "identity"}
        BY <1>2, <1>3, <1>4, <1>6, <3>1, ResolveLeads, ZenonT(60) DEF Known, Begin
      <3>2. CASE op = "send"
        <4>1. PICK q : q = [r EXCEPT !.pc = "assert"]
          OBVIOUS
        <4>2. q \in TaskStates /\ q.pc = "assert"
          BY <1>4, <4>1 DEF TaskStates, Places, Asserting
        <4> QED BY <1>3, <1>6, <3>2, <4>1, <4>2, PlainPlace DEF Begin, Asserting
      <3>3. CASE op \in {"devices", "mapping", "migrate"}
        <4>1. PICK q : q = [r EXCEPT !.pc = "learn"]
          OBVIOUS
        <4>2. q \in TaskStates /\ q.pc = "learn"
          BY <1>4, <4>1 DEF TaskStates, Places, Learning
        <4> QED BY <1>3, <1>6, <3>3, <4>1, <4>2, PlainPlace DEF Begin, Learning
      <3> QED BY <1>2, <1>8, <3>1, <3>2, <3>3 DEF Ops
    <2> QED BY <1>5, <2>1, Leaves, SameMade DEF Once
  <1> QED BY <1>7, <1>8

LEMMA CancelOnce == ASSUME Inv, Once, NEW t \in Tasks, Cancel(t) PROVE Once'
  <1>1. UNCHANGED <<mapped, known, session, migrated>> /\ Unlock(t)
    BY DEF Cancel, CancelRead, CancelJoin, mapping, sessions
  <1>2. PICK q : q = [Idle EXCEPT !.pc = "remove"]
    OBVIOUS
  <1>3. q \in TaskStates /\ Place(q) \notin {"decrypt", "get", "make", "move"}
    BY <1>2, IdleTyped DEF TaskStates, Idle, Place
  <1>4. Become(t, Idle) \/ Become(t, q)
    BY <1>2 DEF Cancel, End
  <1> QED BY <1>1, <1>3, <1>4, IdleTyped, IdlePlace, Leaves, SameMade DEF Once

(* An encryption takes its mutex, which no other task then has. *)
LEMMA EncryptOnce == ASSUME Inv, Once, NEW t \in Tasks, Encrypt(t) PROVE Once'
  <1>1. PICK r \in TaskStates : r = task[t]
    BY DEF Inv, Typed
  <1>2. /\ r.name \in Names /\ mutex[r.name] = NoTask /\ mutex' = [mutex EXCEPT ![r.name] = t]
        /\ UNCHANGED <<mapped, known, session, migrated>>
    BY <1>1 DEF Encrypt, mapping, sessions, TaskStates
  <1>3. PICK q : q = Resolve(r, r.name, "get")
    OBVIOUS
  <1>4. /\ q \in TaskStates /\ Place(q) = "get" /\ q.name = r.name
        /\ r.name = "lid" => q.addr = "lid" /\ q.pc \notin Seeking
        /\ r.name = "pn" => q.pc \in Seeking
    BY <1>2, <1>3, ResolveLeads, ZenonT(60) DEF Known
  <1>5. task'[t] = q /\ \A u \in Tasks \ {t} : task'[u] = task[u]
    BY <1>1, <1>3 DEF Encrypt, Become, Inv, Typed
  <1>6. mutex' \in [Names -> Tasks \cup {NoTask}] /\ mutex'[r.name] = t
    BY <1>2 DEF Once
  <1>7. \A n \in Names, u \in Tasks \ {t} : mutex[n] = u => mutex'[n] = u
    BY <1>2, SessionsAssumption DEF Once
  <1>8. \A a \in Names, n \in Names : (Made(a, n)' <=> Made(a, n)) /\ (Clear(a, n) => Clear(a, n)')
    BY <1>2 DEF Made, Clear
  <1>9. Kept(t)
    BY <1>2, <1>5, <1>6, <1>7, <1>8 DEF Kept
  <1>10. Making(t, task[t])'
    <2>1. q.pc \in Seeking => MakingSoon(q)'
      BY <1>2, <1>4 DEF MakingSoon, Place, Names
    <2>2. q.pc \notin Seeking => MakingHere(q)'
      BY <1>2, <1>4 DEF MakingHere, Fits, Place, Names
    <2>3. Making(t, q)'
      BY <1>4, <1>6, <2>1, <2>2 DEF Making, Place
    <2> QED BY <1>5, <2>3 DEF Making, MakingSoon, MakingHere, Clear, Made
  <1>11. (mapped' => known') /\ (Made("lid", "pn")' => mapped') /\ ~Made("pn", "lid")'
    BY <1>2, <1>8 DEF Once, Names
  <1> QED BY <1>9, <1>10, <1>11, GoesOn

(* Where there is no session there is no key that was made up. *)
LEMMA GetOnce == ASSUME Inv, Once, NEW t \in Tasks, GetOrCreate(t) PROVE Once'
  <1>1. PICK r \in TaskStates : r = task[t]
    BY DEF Inv, Typed
  <1>2. /\ r.name \in Names /\ r.addr \in Names /\ r.pc = "get" /\ Making(t, r)
        /\ UNCHANGED <<mapped, known, session, migrated>>
    BY <1>1 DEF GetOrCreate, In, mapping, sessions, TaskStates, Once
  <1>3. CASE session[r.addr] # NoKey
    BY <1>1, <1>2, <1>3, IdleTyped, IdlePlace, Leaves, SameMade DEF GetOrCreate, End, Once
  <1>4. CASE session[r.addr] = NoKey
    <2>1. PICK q : q = Resolve(r, r.name, "make")
      OBVIOUS
    <2>2. /\ q \in TaskStates /\ Place(q) = "make" /\ q.name = r.name /\ q.op = r.op
          /\ r.name = "lid" => q.addr = "lid" /\ q.pc \notin Seeking
          /\ r.name = "pn" => q.pc \in Seeking
      <3>1. r.name \in Names /\ "make" \in Known
        BY <1>2 DEF Known
      <3> QED BY <2>1, <3>1, ResolveLeads
    <2>3. Become(t, q) /\ UNCHANGED mutex
      BY <1>1, <1>4, <2>1 DEF GetOrCreate
    <2>4. \A n \in Names : Clear(r.addr, n)
      BY <1>4 DEF Clear, Made, NoKey, Key
    <2>5. Making(t, q)
      <3>1. CASE r.op = "receive"
        BY <2>2, <3>1 DEF Making
      <3>2. CASE r.op # "receive"
        <4>1. mutex[r.name] = t /\ MakingHere(r) /\ Place(r) = "get"
          BY <1>2, <3>2 DEF Making, Place, Seeking
        <4>2. Clear("lid", "pn")
          BY <1>2, <2>4, <4>1 DEF MakingHere, Names
        <4>3. r.name = "pn" /\ ~mapped => Clear("pn", "pn")
          BY <1>2, <2>4, <4>1 DEF MakingHere, Fits, Names
        <4>4. q.pc \in Seeking => MakingSoon(q)
          BY <1>2, <2>2, <4>2, <4>3 DEF MakingSoon, Names
        <4>5. r.name = "lid" => r.addr = "lid"
          BY <4>1 DEF MakingHere, Fits
        <4>6. q.pc \notin Seeking => MakingHere(q)
          BY <1>2, <2>2, <2>4, <4>5 DEF MakingHere, Fits, Names
        <4> QED BY <2>2, <4>1, <4>4, <4>6 DEF Making
      <3> QED BY <3>1, <3>2
    <2> QED BY <1>2, <2>2, <2>3, <2>5, GoesTo
  <1> QED BY <1>3, <1>4

LEMMA DecryptOnce == ASSUME Inv, Once, NEW t \in Tasks, Decrypt(t) PROVE Once'
  <1>1. PICK d : d = [task[t] EXCEPT !.name = task[t].addr]
    OBVIOUS
  <1>2. /\ d \in TaskStates /\ d.name \in Names /\ d.op = task[t].op /\ task[t].op = "receive"
        /\ UNCHANGED <<mapped, known, session, migrated, mutex>>
    BY <1>1 DEF Decrypt, In, Elsewhere, mapping, sessions, Inv, Typed, TaskStates, Once, Making,
                Place, Seeking
  <1>3. PICK q : q = Resolve(d, d.name, "get")
    OBVIOUS
  <1>4. q \in TaskStates /\ Place(q) = "get" /\ q.op = "receive" /\ Become(t, q)
    <2>1. d.name \in Names /\ "get" \in Known
      BY <1>2 DEF Known
    <2>2. q \in TaskStates /\ Place(q) = "get" /\ q.op = d.op
      BY <1>2, <1>3, <2>1, ResolveLeads
    <2>3. Become(t, q)
      BY <1>1, <1>3 DEF Decrypt
    <2> QED BY <1>2, <2>2, <2>3
  <1>5. Making(t, q)
    BY <1>4 DEF Making
  <1> QED BY <1>2, <1>4, <1>5, GoesTo

(* A key is made up where there is none for its name. *)
LEMMA MakeFacts ==
    ASSUME Inv, Once, NEW t \in Tasks, Make(t)
    PROVE  \E a \in Names, n \in Names \cup {"receive"} :
             /\ session' = [session EXCEPT ![a] = MadeUp(n, t)]
             /\ n # "receive" => mutex[n] = t /\ Clear(a, n) /\ Fits(n, a, mapped)
  <1>1. PICK r \in TaskStates : r = task[t]
    BY DEF Inv, Typed
  <1>2. r.pc = "make" /\ r.addr \in Names /\ r.name \in Names /\ Making(t, r)
    BY <1>1 DEF Make, In, TaskStates, Once
  <1>3. r.op # "receive" => mutex[r.name] = t /\ MakingHere(r)
    BY <1>2 DEF Making, Place, Seeking
  <1>4. PICK n : n = IF r.op = "receive" THEN "receive" ELSE r.name
    OBVIOUS
  <1>5. session' = [session EXCEPT ![r.addr] = MadeUp(n, t)]
    BY <1>1, <1>4 DEF Make
  <1>6. n # "receive" => mutex[n] = t /\ Clear(r.addr, n) /\ Fits(n, r.addr, mapped)
    BY <1>2, <1>3, <1>4 DEF MakingHere, Place, Seeking
  <1> QED BY <1>2, <1>4, <1>5, <1>6

LEMMA MakeOnce == ASSUME Inv, Once, NEW t \in Tasks, Make(t) PROVE Once'
  <1>1. PICK a \in Names, n \in Names \cup {"receive"} :
          /\ session' = [session EXCEPT ![a] = MadeUp(n, t)]
          /\ n # "receive" => mutex[n] = t /\ Clear(a, n) /\ Fits(n, a, mapped)
    BY MakeFacts
  <1>2. UNCHANGED <<mapped, known, migrated>> /\ Become(t, Idle) /\ Unlock(t)
    BY DEF Make, End, mapping
  <1>3. MadeUp(n, t).kind = "made" /\ MadeUp(n, t).name = n
    BY DEF MadeUp, Key
  <1>4. \A b \in Names, m \in Names : Made(b, m)' => Made(b, m) \/ (b = a /\ m = n)
    BY <1>1, <1>3 DEF Made, Inv, Typed
  <1>5. \A b \in Names, m \in Names : Clear(b, m) => Clear(b, m)' \/ mutex[m] = t
    BY <1>1, <1>2, <1>4 DEF Clear, Names
  <1>6. mutex' \in [Names -> Tasks \cup {NoTask}]
        /\ \A m \in Names, u \in Tasks \ {t} : mutex[m] = u => mutex'[m] = u
    BY <1>2 DEF Once, Unlock
  <1>7. \A u \in Tasks \ {t} : task'[u] = task[u]
    BY <1>2 DEF Become, Inv, Typed
  <1>8. Kept(t)
    BY <1>2, <1>5, <1>6, <1>7 DEF Kept
  <1>9. Making(t, task[t])'
    BY <1>2, Away, IdleTyped, IdlePlace
  <1>10. (Made("lid", "pn")' => mapped') /\ ~Made("pn", "lid")'
    BY <1>1, <1>2, <1>4 DEF Once, Fits, Names
  <1>11. mapped' => known'
    BY <1>2 DEF Once
  <1> QED BY <1>8, <1>9, <1>10, <1>11, GoesOn

LEMMA ExpireOnce == ASSUME Inv, Once, NEW n \in Names, Expire(n) PROVE Once'
  <1>1. UNCHANGED <<mapped, known, session, migrated, mutex, task>>
    BY DEF Expire, mapping, sessions
  <1> QED BY <1>1 DEF Once, Making, MakingSoon, MakingHere, Clear, Made

LEMMA OnceNext == ASSUME Inv, Once, [Next]_vars PROVE Once'
  <1>1. CASE UNCHANGED vars
    <2>1. UNCHANGED <<mapped, known, session, migrated, mutex, task>>
      BY <1>1 DEF vars, mapping, sessions
    <2> QED BY <2>1 DEF Once, Making, MakingSoon, MakingHere, Clear, Made
  <1>2. ASSUME NEW t \in Tasks, Step(t) PROVE Once'
    <2>1. CASE Lookup(t) \/ LookupRead(t) \/ LookupRemoved(t) \/ LookupJoined(t)
      BY <2>1, LookupOnce, LookupReadOnce, LookupRemovedOnce, LookupJoinedOnce
    <2>2. CASE Learn(t) \/ StoreMapping(t) \/ Scan(t) \/ Reread(t) \/ Move(t)
      BY <2>2, LearnOnce, ScanOnce, MoveOnce
    <2>3. CASE Assert(t) \/ Validate(t) \/ Consider(t) \/ Fetch(t) \/ Trust(t)
      BY <2>3, AssertOnce
    <2>4. CASE Delete(t) \/ Inject(t)
      BY <2>4, DeleteOnce
    <2>5. CASE Encrypt(t) \/ GetOrCreate(t) \/ Decrypt(t) \/ Make(t)
      BY <2>5, EncryptOnce, GetOnce, DecryptOnce, MakeOnce
    <2> QED BY <1>2, <2>1, <2>2, <2>3, <2>4, <2>5 DEF Step
  <1> QED BY <1>1, <1>2, CancelOnce, BeginOnce, ExpireOnce DEF Next

(* What a step may put in place of a key.  One that a task makes up is of  *)
(* another name; one that is moved comes to the LID, which has migrated.   *)
Replaced ==
    \A a \in Names :
       LET old == session[a]
           new == session'[a]
       IN  old.kind = "made" /\ new.kind = "made" /\ new # old /\ old.name # "receive"
           => new.name # old.name \/ (a = "lid" /\ migrated)

LEMMA StepReplaces == ASSUME Inv, Once, [Next]_vars PROVE Replaced
  <1>1. CASE UNCHANGED session
    BY <1>1 DEF Replaced
  <1>2. ASSUME NEW t \in Tasks, Delete(t) \/ Inject(t) PROVE Replaced
    <2>1. NoKey.kind = "none" /\ Agreed.kind = "agreed" /\ session \in [Names -> Keys]
      BY DEF NoKey, Agreed, Key, Inv, Typed
    <2>2. \A a \in Names : session'[a] \in {session[a], NoKey, Agreed}
      BY <1>2, <2>1 DEF Delete, Inject
    <2> QED BY <2>1, <2>2 DEF Replaced
  <1>3. ASSUME NEW t \in Tasks, Move(t) PROVE Replaced
    <2>1. session'["pn"].kind = "none"
      BY <1>3 DEF Move, NoKey, Key
    <2>2. migrated
      BY <1>3 DEF Move, In, Once, Making, Place, Seeking
    <2> QED BY <2>1, <2>2 DEF Replaced, Names
  <1>4. ASSUME NEW t \in Tasks, Make(t) PROVE Replaced
    <2>1. PICK a \in Names, n \in Names \cup {"receive"} :
            /\ session' = [session EXCEPT ![a] = MadeUp(n, t)]
            /\ n # "receive" => mutex[n] = t /\ Clear(a, n) /\ Fits(n, a, mapped)
      BY <1>4, MakeFacts
    <2>2. session \in [Names -> Keys] /\ MadeUp(n, t).name = n
      BY DEF Inv, Typed, MadeUp, Key
    <2>3. \A b \in Names \ {a} : session'[b] = session[b]
      BY <2>1, <2>2
    <2>4. session'[a].name = n
      BY <2>1, <2>2
    <2> QED BY <2>1, <2>3, <2>4 DEF Replaced, Clear, Made
  <1>5. UNCHANGED session \/ \E t \in Tasks : Delete(t) \/ Inject(t) \/ Move(t) \/ Make(t)
    <2>1. CASE UNCHANGED vars
      BY <2>1 DEF vars, sessions
    <2>2. ASSUME NEW t \in Tasks, Step(t), ~(Delete(t) \/ Inject(t) \/ Move(t) \/ Make(t))
          PROVE  UNCHANGED session
      BY <2>2 DEF Step, Lookup, LookupRead, LookupRemoved, LookupJoined, Learn, StoreMapping, Scan,
                  Reread, Assert, Validate, Consider, Fetch, Trust, Encrypt, GetOrCreate, Decrypt,
                  Elsewhere, sessions
    <2>3. ASSUME NEW t \in Tasks, Cancel(t) PROVE UNCHANGED session
      BY <2>3 DEF Cancel, sessions
    <2>4. ASSUME NEW t \in Tasks, NEW o \in Operations, Begin(t, o[1], o[2])
          PROVE  UNCHANGED session
      BY <2>4 DEF Begin, sessions
    <2>5. ASSUME NEW n \in Names, Expire(n) PROVE UNCHANGED session
      BY <2>5 DEF Expire, sessions
    <2> QED BY <2>1, <2>2, <2>3, <2>4, <2>5 DEF Next
  <1> QED BY <1>1, <1>2, <1>3, <1>4, <1>5

(* No encryption makes up a key in place of one that another made up for   *)
(* the same name, whatever tasks interleave, unless a session was moved to *)
(* the LID (libsignal.py 130-136 and 347-367, messages_send.py 599): the   *)
(* mutex of the name is held from the look for a session until the key is  *)
(* stored, and the addresses of the name can only change to that of the    *)
(* LID, which was clear.                                                   *)
THEOREM KeysMadeUpOnce == Spec => MadeUpOnce
  <1>1. Inv /\ Once /\ [Next]_vars => Replaced
    BY StepReplaces
  <1>2. Spec => [][Replaced]_vars
    BY <1>1, InvInit, InvNext, OnceInit, OnceNext, PTL DEF Spec
  <1> QED BY <1>2 DEF MadeUpOnce, Replaced
=============================================================================
