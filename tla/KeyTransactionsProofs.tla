------------------------- MODULE KeyTransactionsProofs -------------------------
(***************************************************************************)
(* Transactions of the key store implement AtomicStore, for every set of   *)
(* tasks, records and keys, whichever records are updated under which      *)
(* keys, and every number of commit attempts.                              *)
(***************************************************************************)
EXTENDS KeyTransactions, TLAPS

(* A transaction has values only of records it is to update, and commits   *)
(* when it has updated all of them.                                        *)
Scoped ==
    /\ \A t \in Tasks : \A r \in Records :
         /\ fetched[t][r] # Absent \/ cache[t][r] # Absent => r \in todo[t] /\ Active(t)
         /\ fetched[t][r] # Absent => cache[t][r] = Absent
         /\ mutations[t][r] # Absent => cache[t][r] # Absent
    /\ \A t \in Tasks : Over(t) => todo[t] = {} /\ overtaken[t] = {}
    /\ \A t \in Tasks : Over(t) \/ key[t] \in Keys

(* A commit writes what its transaction is to update, and what it has not  *)
(* to write any more is written.                                           *)
Committing ==
    /\ \A t \in Tasks : pending[t] \subseteq todo[t] /\ written[t] \subseteq todo[t]
    /\ \A t \in Tasks : pc[t] # "committing" => pending[t] = {} /\ written[t] = {}
    /\ \A t \in Tasks : pc[t] = "committing" =>
         /\ todo[t] \subseteq pending[t] \cup written[t]
         /\ \A r \in todo[t] : mutations[t][r] # Absent

Inv == TypeOK /\ HoldersRun /\ ReadsCurrent /\ Scoped /\ Committing

(* Two running transactions of one key are one transaction. *)
LEMMA OneOfKey ==
    ASSUME Inv, NEW t \in Tasks, NEW u \in Tasks, Active(t), Active(u), key[t] = key[u]
    PROVE  t = u
  BY DEF Inv, HoldersRun

(* Writes of a transaction store numbers, and overtake whoever else has    *)
(* read the record.                                                        *)
LEMMA WritesOvertake ==
    ASSUME Inv, NEW t \in Tasks, pc[t] = "committing",
           NEW records, records \subseteq pending[t]
    PROVE  /\ Stored(t, records) \in [Records -> Nat]
           /\ Overtaking(t, records) \in [Tasks -> SUBSET Records]
           /\ \A u \in Tasks \ {t} : \A r \in Records :
                /\ r \in records /\ r \in Met(u) => r \in Overtaking(t, records)[u]
                /\ r \in Overtaking(t, records)[u] => r \in overtaken[u] \/ r \in Met(u)
                /\ r \in overtaken[u] => r \in Overtaking(t, records)[u]
           /\ Overtaking(t, records)[t] = overtaken[t]
  <1>1. \A r \in records : mutations[t][r] # Absent /\ r \in Records
    BY DEF Inv, TypeOK, Committing
  <1>2. Stored(t, records) \in [Records -> Nat]
    BY <1>1 DEF Stored, Inv, TypeOK, Values
  <1>3. /\ Overtaking(t, records) \in [Tasks -> SUBSET Records]
        /\ Overtaking(t, records)[t] = overtaken[t]
    BY DEF Overtaking, Inv, TypeOK
  <1>4. ASSUME NEW u \in Tasks \ {t}, NEW r \in Records
        PROVE  /\ r \in records /\ r \in Met(u) => r \in Overtaking(t, records)[u]
               /\ r \in Overtaking(t, records)[u] => r \in overtaken[u] \/ r \in Met(u)
               /\ r \in overtaken[u] => r \in Overtaking(t, records)[u]
    <2>1. CASE key[u] = key[t]
      <3>1. ~Active(u)
        BY <2>1, OneOfKey DEF Active
      <3>2. r \notin Met(u)
        BY <3>1 DEF Inv, Scoped, Met
      <3> QED BY <2>1, <3>2 DEF Overtaking
    <2>2. CASE key[u] # key[t]
      BY <2>2 DEF Overtaking
    <2> QED BY <2>1, <2>2
  <1> QED BY <1>2, <1>3, <1>4

(* What the end of a transaction leaves true, given that whoever else has  *)
(* read what is written counts as overtaken.                               *)
LEMMA EndSafe ==
    ASSUME Inv, NEW t \in Tasks, NEW how \in {"returned", "raised"}, End(t, how),
           store' \in [Records -> Nat], late' \subseteq Records \X Nat,
           overtaken' \in [Tasks -> SUBSET Records], overtaken'[t] = {},
           \A u \in Tasks \ {t} : \A r \in Records :
             /\ r \in overtaken[u] => r \in overtaken'[u]
             /\ r \in overtaken'[u] => r \in overtaken[u] \/ r \in Met(u)
             /\ store'[r] = store[r] \/ r \in overtaken'[u] \/ r \notin Met(u)
    PROVE  Inv'
  <1> USE AbsentAssumption, BoundsAssumption
  <1>1. TypeOK'
    <2>1. Nothing \in Values
      BY DEF Nothing, Values
    <2>2. /\ cache' \in [Tasks -> Values] /\ fetched' \in [Tasks -> Values]
          /\ mutations' \in [Tasks -> Values]
      BY <2>1 DEF Inv, TypeOK, End
    <2>3. /\ holder' \in [Keys -> Tasks \cup {NoTask}]
          /\ attempt' \in [Tasks -> 0 .. MaxAttempts - 1]
      BY DEF Inv, TypeOK, End
    <2>4. /\ pc' \in [Tasks -> {"waiting", "running", "committing", "returned", "raised"}]
          /\ key' \in [Tasks -> Keys \cup {NoKey}]
          /\ todo' \in [Tasks -> SUBSET Records] /\ pending' \in [Tasks -> SUBSET Records]
          /\ written' \in [Tasks -> SUBSET Records]
      BY DEF Inv, TypeOK, End
    <2> QED BY <2>2, <2>3, <2>4 DEF TypeOK
  <1>2. \A u \in Tasks \ {t} :
          /\ fetched'[u] = fetched[u] /\ cache'[u] = cache[u] /\ mutations'[u] = mutations[u]
          /\ pc'[u] = pc[u] /\ key'[u] = key[u] /\ todo'[u] = todo[u]
          /\ pending'[u] = pending[u] /\ written'[u] = written[u]
    BY DEF Inv, TypeOK, End
  <1>3. /\ fetched'[t] = Nothing /\ cache'[t] = Nothing /\ mutations'[t] = Nothing
        /\ pc'[t] = how /\ todo'[t] = {} /\ pending'[t] = {} /\ written'[t] = {}
    BY DEF Inv, TypeOK, End
  <1>4. HoldersRun'
    <2>0. ~Active(t)'
      BY <1>3 DEF Active
    <2>1. ASSUME NEW u \in Tasks, Active(u)' PROVE (holder[key[u]] = u)'
      <3>1. u # t
        BY <2>0, <2>1
      <3>2. Active(u) /\ key'[u] = key[u]
        BY <1>2, <2>1, <3>1 DEF Active
      <3>3. holder[key[u]] = u /\ key[u] \in Keys
        BY <3>2 DEF Inv, HoldersRun, Scoped, Over, Active
      <3> QED BY <3>1, <3>2, <3>3 DEF End
    <2>2. ASSUME NEW k \in Keys, holder'[k] # NoTask
          PROVE  Active(holder[k])' /\ (key[holder[k]] = k)'
      <3>1. holder'[k] = holder[k] /\ holder[k] # t /\ holder[k] \in Tasks
        BY <2>2 DEF End, Inv, TypeOK
      <3>2. Active(holder[k]) /\ key[holder[k]] = k
        BY <2>2, <3>1 DEF Inv, HoldersRun
      <3> QED BY <1>2, <3>1, <3>2 DEF Active
    <2> QED BY <2>1, <2>2 DEF HoldersRun
  <1>5. ReadsCurrent'
    <2> SUFFICES ASSUME NEW u \in Tasks, NEW r \in Records, r \notin overtaken'[u]
                 PROVE  Current(u, r)'
      BY DEF ReadsCurrent
    <2>1. CASE u = t
      BY <1>3, <2>1 DEF Current, Nothing
    <2>2. CASE u # t
      <3>1. Current(u, r)
        BY <2>2 DEF Inv, ReadsCurrent
      <3>2. fetched[u][r] # Absent \/ cache[u][r] # Absent \/ mutations[u][r] # Absent
              => store'[r] = store[r]
        BY <2>2 DEF Inv, Scoped, Met
      <3> QED BY <1>2, <2>2, <3>1, <3>2 DEF Current
    <2> QED BY <2>1, <2>2
  <1>6. Scoped'
    <2>1. ASSUME NEW u \in Tasks, NEW r \in Records
          PROVE  (/\ fetched[u][r] # Absent \/ cache[u][r] # Absent => r \in todo[u] /\ Active(u)
                  /\ fetched[u][r] # Absent => cache[u][r] = Absent
                  /\ mutations[u][r] # Absent => cache[u][r] # Absent)'
      BY <1>2, <1>3 DEF Inv, Scoped, Active, Nothing
    <2>2. ASSUME NEW u \in Tasks, Over(u)' PROVE (todo[u] = {} /\ overtaken[u] = {})'
      <3>1. CASE u = t
        BY <1>3, <3>1
      <3>2. CASE u # t
        <4>1. Over(u)
          BY <1>2, <2>2, <3>2 DEF Over
        <4>2. \A r \in Records : r \notin Met(u)
          BY <4>1 DEF Inv, Scoped, Met, Over, Active
        <4> QED BY <1>2, <3>2, <4>1, <4>2 DEF Inv, Scoped, TypeOK
      <3> QED BY <3>1, <3>2
    <2>3. ASSUME NEW u \in Tasks PROVE (Over(u) \/ key[u] \in Keys)'
      BY <1>2, <1>3 DEF Inv, Scoped, Over
    <2> QED BY <2>1, <2>2, <2>3 DEF Scoped
  <1>7. Committing'
    BY <1>2, <1>3 DEF Inv, Committing
  <1> QED BY <1>1, <1>4, <1>5, <1>6, <1>7 DEF Inv

(* What a write of some records leaves true while its transaction goes on. *)
LEMMA WriteSafe ==
    ASSUME Inv, NEW t \in Tasks, pc[t] = "committing",
           NEW records, records \subseteq pending[t],
           store' = Stored(t, records), overtaken' = Overtaking(t, records),
           written' = [written EXCEPT ![t] = @ \cup records],
           UNCHANGED <<contextVars, pc, key, todo>>
    PROVE  ReadsCurrent' /\ Scoped'
  <1>1. ReadsCurrent'
    <2> SUFFICES ASSUME NEW u \in Tasks, NEW r \in Records, r \notin overtaken'[u]
                 PROVE  Current(u, r)'
      BY DEF ReadsCurrent
    <2>0. Current(u, r)
      BY WritesOvertake DEF Inv, ReadsCurrent
    <2>1. CASE u # t
      <3>1. fetched[u][r] # Absent \/ cache[u][r] # Absent \/ mutations[u][r] # Absent
              => r \notin records
        BY <2>1, WritesOvertake DEF Inv, Scoped, Met
      <3>2. r \notin records => store'[r] = store[r]
        BY DEF Stored
      <3> QED BY <2>0, <2>1, <3>1, <3>2 DEF Current, contextVars, Inv, TypeOK
    <2>2. CASE u = t /\ r \in records
      <3>1. mutations[t][r] # Absent /\ cache[t][r] # Absent /\ fetched[t][r] = Absent
        BY <2>2 DEF Inv, TypeOK, Committing, Scoped
      <3>2. store'[r] = mutations[t][r] /\ r \in written'[t]
        BY <2>2 DEF Stored, Inv, TypeOK
      <3> QED BY <2>0, <2>2, <3>1, <3>2 DEF Current, contextVars
    <2>3. CASE u = t /\ r \notin records
      <3>1. store'[r] = store[r] /\ (r \in written'[t] <=> r \in written[t])
        BY <2>3 DEF Stored, Inv, TypeOK
      <3> QED BY <2>0, <2>3, <3>1 DEF Current, contextVars
    <2> QED BY <2>1, <2>2, <2>3
  <1>2. Scoped'
    <2>1. ASSUME NEW u \in Tasks, Over(u) PROVE overtaken'[u] = {}
      <3>1. u # t
        BY <2>1 DEF Over
      <3>2. \A r \in Records : r \notin Met(u)
        BY <2>1 DEF Inv, Scoped, Met, Over, Active
      <3> QED BY <2>1, <3>1, <3>2, WritesOvertake DEF Inv, Scoped
    <2> QED BY <2>1 DEF Inv, Scoped, Over, Active, contextVars
  <1> QED BY <1>1, <1>2

LEMMA InvInit == Init => Inv
  <1> SUFFICES ASSUME Init PROVE Inv
    OBVIOUS
  <1> USE NoTaskAssumption, AbsentAssumption, BoundsAssumption DEF Init
  <1>1. TypeOK BY DEF TypeOK, Values, Nothing
  <1>2. HoldersRun BY DEF HoldersRun, Active
  <1>3. ReadsCurrent BY DEF ReadsCurrent, Current, Nothing
  <1>4. Scoped BY DEF Scoped, Nothing, Over
  <1>5. Committing BY DEF Committing
  <1> QED BY <1>1, <1>2, <1>3, <1>4, <1>5 DEF Inv

(* The store and all contexts stay, so that what is read stays current. *)
LEMMA ContextsKept ==
    ASSUME ReadsCurrent, UNCHANGED <<store, contextVars, written, overtaken>>
    PROVE  ReadsCurrent'
  BY DEF ReadsCurrent, Current, contextVars

LEMMA InvStep == Inv /\ [Next]_vars => Inv'
  <1> SUFFICES ASSUME Inv, [Next]_vars PROVE Inv'
    OBVIOUS
  <1> USE NoTaskAssumption, AbsentAssumption, BoundsAssumption
  <1>1. ASSUME NEW t \in Tasks, NEW k \in Keys, NEW records \in SUBSET Records,
               Request(t, k, records)
        PROVE  Inv'
    <2>1. TypeOK' BY <1>1 DEF Request, Inv, TypeOK, contextVars, commitVars
    <2>2. HoldersRun' BY <1>1 DEF Request, Inv, TypeOK, HoldersRun, Active, Over
    <2>3. ReadsCurrent' BY <1>1, ContextsKept DEF Request, Inv, commitVars
    <2>4. Scoped' BY <1>1 DEF Request, Inv, TypeOK, Scoped, Active, Over, contextVars
    <2>5. Committing' BY <1>1 DEF Request, Inv, TypeOK, Committing, Over, contextVars, commitVars
    <2> QED BY <2>1, <2>2, <2>3, <2>4, <2>5 DEF Inv
  <1>2. ASSUME NEW t \in Tasks, Enter(t) PROVE Inv'
    <2>1. TypeOK' BY <1>2 DEF Enter, Inv, TypeOK, contextVars, commitVars
    <2>2. HoldersRun'
      <3>1. key[t] \in Keys
        BY <1>2 DEF Enter, Inv, Scoped, Over
      <3> QED BY <1>2, <3>1 DEF Enter, Inv, TypeOK, HoldersRun, Active
    <2>3. ReadsCurrent' BY <1>2, ContextsKept DEF Enter, Inv, commitVars
    <2>4. Scoped' BY <1>2 DEF Enter, Inv, TypeOK, Scoped, Active, Over, contextVars
    <2>5. Committing' BY <1>2 DEF Enter, Inv, TypeOK, Committing, contextVars, commitVars
    <2> QED BY <2>1, <2>2, <2>3, <2>4, <2>5 DEF Inv
  <1>3. ASSUME NEW t \in Tasks, NEW r \in Records, Fetch(t, r) PROVE Inv'
    <2>1. TypeOK' BY <1>3 DEF Fetch, Inv, TypeOK, Values, commitVars
    <2>2. HoldersRun' BY <1>3 DEF Fetch, Inv, TypeOK, HoldersRun, Active
    <2>3. ReadsCurrent'
      BY <1>3 DEF Fetch, Inv, TypeOK, Values, ReadsCurrent, Current, Scoped, commitVars
    <2>4. Scoped' BY <1>3 DEF Fetch, Inv, TypeOK, Values, Scoped, Active, Over
    <2>5. Committing' BY <1>3 DEF Fetch, Inv, Committing, commitVars
    <2> QED BY <2>1, <2>2, <2>3, <2>4, <2>5 DEF Inv
  <1>4. ASSUME NEW t \in Tasks, NEW r \in Records, Fill(t, r) PROVE Inv'
    <2>1. TypeOK' BY <1>4 DEF Fill, Inv, TypeOK, Values, commitVars
    <2>2. HoldersRun' BY <1>4 DEF Fill, Inv, TypeOK, HoldersRun, Active
    <2>3. ReadsCurrent'
      BY <1>4 DEF Fill, Inv, TypeOK, Values, ReadsCurrent, Current, Scoped, commitVars
    <2>4. Scoped' BY <1>4 DEF Fill, Inv, TypeOK, Values, Scoped, Active, Over
    <2>5. Committing' BY <1>4 DEF Fill, Inv, Committing, commitVars
    <2> QED BY <2>1, <2>2, <2>3, <2>4, <2>5 DEF Inv
  <1>5. ASSUME NEW t \in Tasks, NEW r \in Records, Update(t, r) PROVE Inv'
    <2>0. cache[t][r] \in Nat /\ written[t] = {} /\ fetched[t][r] = Absent
      <3>1. cache[t] \in Values /\ pc[t] # "committing" /\ cache[t][r] # Absent
        BY <1>5 DEF Update, Inv, TypeOK
      <3>2. cache[t][r] \in Nat
        BY <3>1 DEF Values
      <3>3. written[t] = {}
        BY <3>1 DEF Inv, Committing
      <3>4. fetched[t][r] = Absent
        BY <3>1 DEF Inv, Scoped
      <3> QED BY <3>2, <3>3, <3>4
    <2>1. TypeOK' BY <1>5, <2>0 DEF Update, Inv, TypeOK, Values, commitVars
    <2>2. HoldersRun' BY <1>5 DEF Update, Inv, TypeOK, HoldersRun, Active
    <2>3. ReadsCurrent'
      BY <1>5, <2>0 DEF Update, Inv, TypeOK, Values, ReadsCurrent, Current, commitVars
    <2>4. Scoped' BY <1>5, <2>0 DEF Update, Inv, TypeOK, Values, Scoped, Active, Over
    <2>5. Committing' BY <1>5, <2>0 DEF Update, Inv, Committing, commitVars
    <2> QED BY <2>1, <2>2, <2>3, <2>4, <2>5 DEF Inv
  <1>6. ASSUME NEW t \in Tasks, NEW how \in {"returned", "raised"}, End(t, how),
               UNCHANGED store, late' \subseteq Records \X Nat,
               overtaken' = [overtaken EXCEPT ![t] = {}]
        PROVE Inv'
    <2>1. /\ overtaken' \in [Tasks -> SUBSET Records] /\ overtaken'[t] = {}
          /\ \A u \in Tasks \ {t} : overtaken'[u] = overtaken[u]
      BY <1>6 DEF Inv, TypeOK
    <2>2. store' \in [Records -> Nat]
      BY <1>6 DEF Inv, TypeOK
    <2> QED BY <1>6, <2>1, <2>2, EndSafe
  <1>7. ASSUME NEW t \in Tasks, Finish(t), todo[t] # {} PROVE Inv'
    <2>0. /\ pc[t] = "running" /\ pc' = [pc EXCEPT ![t] = "committing"]
          /\ pending' = [pending EXCEPT ![t] = todo[t]]
          /\ \A r \in todo[t] : mutations[t][r] # Absent
          /\ UNCHANGED <<store, late, holder, key, todo, contextVars, attempt, written, overtaken>>
      BY <1>7 DEF Finish
    <2>1. TypeOK' BY <2>0 DEF Inv, TypeOK, contextVars
    <2>2. HoldersRun' BY <2>0 DEF Inv, TypeOK, HoldersRun, Active
    <2>3. ReadsCurrent' BY <2>0, ContextsKept DEF Inv
    <2>4. Scoped' BY <2>0 DEF Inv, TypeOK, Scoped, Active, Over, contextVars
    <2>5. Committing' BY <2>0 DEF Inv, TypeOK, Committing, contextVars
    <2> QED BY <2>1, <2>2, <2>3, <2>4, <2>5 DEF Inv
  <1>8. ASSUME NEW t \in Tasks, NEW r \in Records, WriteOne(t, r) PROVE Inv'
    <2>0. pc[t] = "committing" /\ {r} \subseteq pending[t]
      BY <1>8 DEF WriteOne
    <2>1. TypeOK' BY <1>8, <2>0, WritesOvertake DEF WriteOne, Inv, TypeOK, contextVars
    <2>2. HoldersRun' BY <1>8 DEF WriteOne, Inv, HoldersRun, Active
    <2>3. ReadsCurrent' /\ Scoped' BY <1>8, <2>0, WriteSafe DEF WriteOne
    <2>4. Committing'
      BY <1>8 DEF WriteOne, Inv, TypeOK, Committing, contextVars
    <2> QED BY <2>1, <2>2, <2>3, <2>4 DEF Inv
  <1>9. ASSUME NEW t \in Tasks, CommitFails(t) PROVE Inv'
    <2>1. PICK records \in SUBSET pending[t] :
            /\ store' = Stored(t, records)
            /\ \/ /\ attempt[t] < MaxAttempts - 1
                  /\ attempt' = [attempt EXCEPT ![t] = attempt[t] + 1]
                  /\ overtaken' = Overtaking(t, records)
                  /\ pending' = [pending EXCEPT ![t] = todo[t]]
                  /\ written' = [written EXCEPT ![t] = @ \cup records]
                  /\ UNCHANGED <<holder, pc, key, todo, contextVars>>
               \/ /\ overtaken' = [Overtaking(t, records) EXCEPT ![t] = {}]
                  /\ End(t, "raised")
      BY <1>9 DEF CommitFails
    <2>2. pc[t] = "committing" /\ UNCHANGED late /\ records \subseteq pending[t]
      BY <1>9 DEF CommitFails
    <2>3. CASE UNCHANGED pc
      <3>0. /\ attempt[t] < MaxAttempts - 1
            /\ attempt' = [attempt EXCEPT ![t] = attempt[t] + 1]
            /\ overtaken' = Overtaking(t, records)
            /\ pending' = [pending EXCEPT ![t] = todo[t]]
            /\ written' = [written EXCEPT ![t] = @ \cup records]
            /\ UNCHANGED <<holder, pc, key, todo, contextVars>>
        BY <2>1, <2>2, <2>3 DEF End, Inv, TypeOK
      <3>1. TypeOK'
        BY <2>1, <2>2, <3>0, WritesOvertake DEF Inv, TypeOK, contextVars
      <3>2. HoldersRun' BY <3>0 DEF Inv, HoldersRun, Active
      <3>3. ReadsCurrent' /\ Scoped' BY <2>1, <2>2, <3>0, WriteSafe
      <3>4. Committing' BY <2>2, <3>0 DEF Inv, TypeOK, Committing, contextVars
      <3> QED BY <3>1, <3>2, <3>3, <3>4 DEF Inv
    <2>4. CASE pc' # pc
      <3>0. /\ store' = Stored(t, records)
            /\ overtaken' = [Overtaking(t, records) EXCEPT ![t] = {}]
            /\ End(t, "raised")
        BY <2>1, <2>4
      <3>1. /\ store' \in [Records -> Nat] /\ late' \subseteq Records \X Nat
            /\ overtaken' \in [Tasks -> SUBSET Records] /\ overtaken'[t] = {}
        BY <2>2, <3>0, WritesOvertake DEF Inv, TypeOK
      <3>2. ASSUME NEW u \in Tasks \ {t}, NEW r \in Records
            PROVE  /\ r \in overtaken[u] => r \in overtaken'[u]
                   /\ r \in overtaken'[u] => r \in overtaken[u] \/ r \in Met(u)
                   /\ store'[r] = store[r] \/ r \in overtaken'[u] \/ r \notin Met(u)
        <4>1. overtaken'[u] = Overtaking(t, records)[u]
          BY <2>2, <3>0, WritesOvertake
        <4>2. r \notin records => store'[r] = store[r]
          BY <3>0 DEF Stored
        <4> QED BY <2>2, <4>1, <4>2, WritesOvertake
      <3> QED BY <3>0, <3>1, <3>2, EndSafe
    <2> QED BY <2>3, <2>4
  <1>10. ASSUME NEW t \in Tasks, Raise(t) PROVE Inv'
    <2>1. PICK records \in SUBSET pending[t] :
            late' = late \cup {<<r, mutations[t][r]>> : r \in records}
      BY <1>10 DEF Raise
    <2>2. \A r \in records : r \in Records /\ mutations[t][r] \in Nat
      BY DEF Inv, TypeOK, Values, Committing
    <2>3. late' \subseteq Records \X Nat
      BY <2>1, <2>2 DEF Inv, TypeOK
    <2> QED BY <1>6, <1>10, <2>3 DEF Raise
  <1>11. ASSUME NEW w \in late, Land(w) PROVE Inv'
    <2>0. w[1] \in Records /\ w[2] \in Nat
      BY <1>11 DEF Inv, TypeOK
    <2>1. TypeOK' BY <1>11, <2>0 DEF Land, Inv, TypeOK, contextVars, commitVars
    <2>2. HoldersRun' BY <1>11 DEF Land, Inv, HoldersRun, Active
    <2>3. ReadsCurrent'
      <3> SUFFICES ASSUME NEW u \in Tasks, NEW r \in Records, r \notin overtaken'[u]
                   PROVE  Current(u, r)'
        BY DEF ReadsCurrent
      <3>1. r \notin overtaken[u] /\ ~(r = w[1] /\ r \in Met(u))
        BY <1>11 DEF Land, Inv, TypeOK
      <3>2. Current(u, r)
        BY <3>1 DEF Inv, ReadsCurrent
      <3>3. CASE r = w[1]
        <4>1. fetched[u][r] = Absent /\ cache[u][r] = Absent /\ mutations[u][r] = Absent
          BY <3>1, <3>3 DEF Inv, Scoped, Met
        <4> QED BY <1>11, <4>1 DEF Land, Current, contextVars
      <3>4. CASE r # w[1]
        <4>1. store'[r] = store[r]
          BY <1>11, <3>4 DEF Land, Inv, TypeOK
        <4> QED BY <1>11, <3>2, <4>1 DEF Land, Current, contextVars, commitVars
      <3> QED BY <3>3, <3>4
    <2>4. Scoped'
      <3>1. ASSUME NEW u \in Tasks, Over(u) PROVE overtaken'[u] = {}
        <4>1. \A r \in Records : r \notin Met(u)
          BY <3>1 DEF Inv, Scoped, Met, Over, Active
        <4>2. Met(u) = {}
          BY <4>1 DEF Met
        <4> QED BY <1>11, <3>1, <4>2 DEF Land, Inv, Scoped
      <3> QED BY <1>11, <3>1 DEF Land, Inv, Scoped, Over, Active, contextVars
    <2>5. Committing' BY <1>11 DEF Land, Inv, Committing, contextVars, commitVars
    <2> QED BY <2>1, <2>2, <2>3, <2>4, <2>5 DEF Inv
  <1>12. CASE UNCHANGED vars
    BY <1>12 DEF vars, contextVars, commitVars, Inv, TypeOK, HoldersRun, ReadsCurrent, Current,
                 Scoped, Committing, Active, Over
  <1>13. ASSUME NEW t \in Tasks, Finish(t), todo[t] = {} PROVE Inv'
    BY <1>6, <1>13 DEF Finish, Inv, TypeOK
  <1>14. ASSUME NEW t \in Tasks, Commit(t) PROVE Inv'
    BY <1>6, <1>14 DEF Commit, Inv, TypeOK
  <1> QED
    BY <1>1, <1>2, <1>3, <1>4, <1>5, <1>7, <1>8, <1>9, <1>10, <1>11, <1>12, <1>13, <1>14
    DEF Next

(* What a running transaction has read stays true until it commits, but    *)
(* for what is written under other keys and by cancelled transactions      *)
(* (auth_utils.py 144-156, 207-220).                                       *)
THEOREM TransactionsReadCurrent == Spec => []ReadsCurrent
  <1>1. Inv => ReadsCurrent
    BY DEF Inv
  <1> QED BY InvInit, InvStep, <1>1, PTL DEF Spec

-----------------------------------------------------------------------------
LEMMA InitRefines == Init => Committed!Init
  BY DEF Init, Committed!Init, Status, Over

(* The abstract status of a transaction changes when it begins and ends. *)
LEMMA StatusKept ==
    ASSUME Inv, NEW t \in Tasks, NEW how, ~Over(t),
           how \notin {"returned", "raised"}, pc' = [pc EXCEPT ![t] = how]
    PROVE  Status' = Status
  BY DEF Status, Over, Inv, TypeOK

(* What a transaction that has all its mutations writes are updates. *)
LEMMA WritesUpdate ==
    ASSUME Inv, NEW t \in Tasks, pc[t] = "committing",
           NEW records \in SUBSET pending[t], store' = Stored(t, records),
           overtaken' \in [Tasks -> SUBSET Records],
           \A u \in Tasks \ {t} : overtaken'[u] = Overtaking(t, records)[u]
    PROVE  Committed!Updates(t, records)
  <1>1. records \subseteq todo[t] /\ records \subseteq Records /\ Status[t] = "open"
    BY DEF Inv, TypeOK, Committing, Status, Over
  <1>2. Committed!Alone(t)
    <2>1. ASSUME NEW u \in Tasks \ {t}, key[u] = key[t] PROVE written[u] = {}
      <3>1. ~Active(u)
        BY <2>1, OneOfKey DEF Active
      <3> QED BY <3>1 DEF Active, Inv, Committing
    <2> QED BY <2>1 DEF Committed!Alone
  <1>3. ASSUME NEW r \in Records
        PROVE  \/ r \notin records /\ store'[r] = store[r]
               \/ r \in records \cap overtaken[t] /\ store'[r] \in Nat
               \/ /\ r \in records \ overtaken[t]
                  /\ store'[r] = IF r \in written[t] THEN store[r] ELSE store[r] + 1
    <2>1. r \notin records => store'[r] = store[r]
      BY DEF Stored
    <2>2. r \in records => store'[r] = mutations[t][r] /\ mutations[t][r] # Absent
      BY <1>1 DEF Stored, Inv, Committing
    <2>3. store'[r] \in Nat
      BY WritesOvertake
    <2>4. r \in records \ overtaken[t] =>
            store'[r] = IF r \in written[t] THEN store[r] ELSE store[r] + 1
      BY <2>2 DEF Inv, ReadsCurrent, Current
    <2> QED BY <2>1, <2>3, <2>4
  <1>4. ASSUME NEW u \in Tasks \ {t}
        PROVE  /\ overtaken'[u] \subseteq overtaken[u] \cup (records \cap todo[u])
               /\ overtaken[u] \subseteq overtaken'[u]
               /\ key[u] = key[t] => overtaken'[u] = overtaken[u]
    <2>1. Met(u) \subseteq todo[u]
      BY DEF Met, Inv, Scoped
    <2> QED BY <2>1 DEF Overtaking
  <1>5. store' = [r \in Records |-> store'[r]] /\ overtaken' = [u \in Tasks |-> overtaken'[u]]
    BY WritesOvertake
  <1> QED BY <1>1, <1>2, <1>3, <1>4, <1>5 DEF Committed!Updates

(* A transaction that ends without writing anything changes no record. *)
LEMMA NoUpdates ==
    ASSUME Inv, NEW t \in Tasks, UNCHANGED store, overtaken' = [overtaken EXCEPT ![t] = {}]
    PROVE  Committed!Updates(t, {})
  <1>1. store' = [r \in Records |-> store'[r]] /\ overtaken' = [u \in Tasks |-> overtaken'[u]]
    BY DEF Inv, TypeOK
  <1>2. \A u \in Tasks \ {t} : overtaken'[u] = overtaken[u]
    BY DEF Inv, TypeOK
  <1> QED BY <1>1, <1>2 DEF Committed!Updates

(* The abstract state after the end of a transaction. *)
LEMMA EndMaps ==
    ASSUME Inv, NEW t \in Tasks, NEW how \in {"returned", "raised"}, ~Over(t), End(t, how)
    PROVE  /\ Status[t] = "open" /\ Status' = [Status EXCEPT ![t] = how]
           /\ key' = [key EXCEPT ![t] = NoKey]
           /\ todo' = [todo EXCEPT ![t] = {}] /\ written' = [written EXCEPT ![t] = {}]
  BY DEF End, Status, Over, Inv, TypeOK

(* A transaction returns when its records are written. *)
LEMMA ReturnMaps ==
    ASSUME Inv, NEW t \in Tasks, ~Over(t), End(t, "returned"), written[t] = todo[t],
           UNCHANGED <<store, late>>, overtaken' = [overtaken EXCEPT ![t] = {}]
    PROVE  Committed!Next
  <1>1. Committed!Return(t)
    BY EndMaps DEF Committed!Return
  <1> QED BY <1>1 DEF Committed!Next

LEMMA StepRefines == Inv /\ [Next]_vars => [Committed!Next]_(Committed!vars)
  <1> SUFFICES ASSUME Inv, [Next]_vars
               PROVE  Committed!Next
                      \/ UNCHANGED <<store, late, key, todo, written, overtaken, Status>>
    BY DEF Committed!vars, Committed!transactionVars
  <1>1. ASSUME NEW t \in Tasks, NEW k \in Keys, NEW records \in SUBSET Records,
               Request(t, k, records)
        PROVE  Committed!Next
    <2>1. Status[t] # "open" /\ Status' = [Status EXCEPT ![t] = "open"]
      BY <1>1 DEF Request, Inv, TypeOK, Status, Over
    <2>2. Committed!Ask(t, k, records)
      BY <1>1, <2>1 DEF Request, commitVars, Committed!Ask
    <2> QED BY <2>2 DEF Committed!Next
  <1>2. ASSUME NEW t \in Tasks, Enter(t)
        PROVE  UNCHANGED <<store, late, key, todo, written, overtaken, Status>>
    <2>1. Status' = Status
      BY <1>2, StatusKept DEF Enter, Over
    <2> QED BY <1>2, <2>1 DEF Enter, commitVars
  <1>3. ASSUME NEW t \in Tasks, NEW r \in Records, Fetch(t, r) \/ Fill(t, r) \/ Update(t, r)
        PROVE  UNCHANGED <<store, late, key, todo, written, overtaken, Status>>
    BY <1>3 DEF Fetch, Fill, Update, commitVars, Status, Over
  <1>4. ASSUME NEW t \in Tasks, Finish(t)
        PROVE  Committed!Next
               \/ UNCHANGED <<store, late, key, todo, written, overtaken, Status>>
    <2>1. CASE todo[t] = {}
      <3>1. written[t] = todo[t] /\ ~Over(t)
        BY <1>4, <2>1 DEF Finish, Inv, Committing, Over
      <3> QED BY <1>4, <2>1, <3>1, ReturnMaps DEF Finish
    <2>2. CASE todo[t] # {}
      <3>1. Status' = Status
        BY <1>4, <2>2, StatusKept DEF Finish, Over
      <3> QED BY <1>4, <2>2, <3>1 DEF Finish
    <2> QED BY <2>1, <2>2
  <1>5. ASSUME NEW t \in Tasks, NEW r \in Records, WriteOne(t, r) PROVE Committed!Next
    <2>1. /\ pc[t] = "committing" /\ {r} \in SUBSET pending[t]
          /\ overtaken' = Overtaking(t, {r})
      BY <1>5 DEF WriteOne
    <2>0. Overtaking(t, {r}) \in [Tasks -> SUBSET Records] /\ Overtaking(t, {r})[t] = overtaken[t]
      BY <2>1, WritesOvertake
    <2>2. Committed!Updates(t, {r}) /\ overtaken'[t] = overtaken[t]
      BY <1>5, <2>0, <2>1, WritesUpdate DEF WriteOne
    <2>3. Committed!Write(t, {r})
      BY <1>5, <2>2 DEF WriteOne, Committed!Write, Status, Over
    <2> QED BY <2>3 DEF Committed!Next
  <1>6. ASSUME NEW t \in Tasks, Commit(t) PROVE Committed!Next
    <2>1. written[t] = todo[t] /\ ~Over(t)
      BY <1>6 DEF Commit, Inv, Committing, Over
    <2> QED BY <1>6, <2>1, ReturnMaps DEF Commit
  <1>7. ASSUME NEW t \in Tasks, CommitFails(t) PROVE Committed!Next
    <2>1. PICK records \in SUBSET pending[t] :
            /\ store' = Stored(t, records)
            /\ \/ /\ overtaken' = Overtaking(t, records)
                  /\ written' = [written EXCEPT ![t] = @ \cup records]
                  /\ UNCHANGED <<holder, pc, key, todo, contextVars>>
               \/ /\ overtaken' = [Overtaking(t, records) EXCEPT ![t] = {}]
                  /\ End(t, "raised")
      BY <1>7 DEF CommitFails
    <2>2. pc[t] = "committing" /\ UNCHANGED late /\ ~Over(t) /\ records \in SUBSET Records
      BY <1>7 DEF CommitFails, Over, Inv, TypeOK
    <2>3. CASE /\ overtaken' = Overtaking(t, records)
               /\ written' = [written EXCEPT ![t] = @ \cup records]
               /\ UNCHANGED <<holder, pc, key, todo, contextVars>>
      <3>1. Committed!Updates(t, records) /\ overtaken'[t] = overtaken[t]
        BY <2>1, <2>2, <2>3, WritesUpdate, WritesOvertake
      <3>2. Committed!Write(t, records)
        BY <2>2, <2>3, <3>1 DEF Committed!Write, Status, Over
      <3> QED BY <2>2, <3>2 DEF Committed!Next
    <2>4. CASE /\ overtaken' = [Overtaking(t, records) EXCEPT ![t] = {}]
               /\ End(t, "raised")
      <3>1. /\ overtaken' \in [Tasks -> SUBSET Records] /\ overtaken'[t] = {}
            /\ \A u \in Tasks \ {t} : overtaken'[u] = Overtaking(t, records)[u]
        BY <2>2, <2>4, WritesOvertake
      <3>2. Committed!Updates(t, records)
        BY <2>1, <2>2, <3>1, WritesUpdate
      <3>3. Committed!Abandon(t, records)
        BY <2>2, <2>4, <3>1, <3>2, EndMaps DEF Committed!Abandon
      <3> QED BY <2>2, <3>3 DEF Committed!Next
    <2> QED BY <2>1, <2>3, <2>4
  <1>8. ASSUME NEW t \in Tasks, Raise(t) PROVE Committed!Next
    <2>1. PICK records \in SUBSET pending[t] :
            late' = late \cup {<<r, mutations[t][r]>> : r \in records}
      BY <1>8 DEF Raise
    <2>2. late \subseteq late' /\ \A w \in late' \ late : w[1] \in todo[t]
      BY <2>1 DEF Inv, Committing
    <2>3. Committed!Updates(t, {}) /\ overtaken'[t] = {}
      BY <1>8, NoUpdates DEF Raise, Inv, TypeOK
    <2>4. Committed!Abandon(t, {})
      BY <1>8, <2>2, <2>3, EndMaps DEF Raise, Committed!Abandon
    <2> QED BY <2>4 DEF Committed!Next
  <1>9. ASSUME NEW w \in late, Land(w) PROVE Committed!Next
    <2>1. Status' = Status
      BY <1>9 DEF Land, Status, Over
    <2>2. /\ overtaken' = [t \in Tasks |-> overtaken'[t]]
          /\ \A t \in Tasks : /\ overtaken[t] \subseteq overtaken'[t]
                              /\ overtaken'[t] \subseteq overtaken[t] \cup {w[1]}
      BY <1>9 DEF Land
    <2>3. Committed!Land(w)
      BY <1>9, <2>1, <2>2 DEF Land, commitVars, Committed!Land
    <2> QED BY <2>3 DEF Committed!Next
  <1>10. CASE UNCHANGED vars
    BY <1>10 DEF vars, commitVars, Status, Over
  <1> QED BY <1>1, <1>2, <1>3, <1>4, <1>5, <1>6, <1>7, <1>8, <1>9, <1>10 DEF Next

(* Transactions implement the atomic store: one that returns has updated   *)
(* each of its records once, and no update is lost but to writes under     *)
(* other keys and of cancelled transactions (auth_utils.py 202-235).       *)
THEOREM TransactionsAtomic == Spec => ImplementsAtomicStore
  BY InitRefines, InvInit, InvStep, StepRefines, PTL DEF Spec, ImplementsAtomicStore, Committed!Spec
================================================================================
