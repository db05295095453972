----------------------------- MODULE SocketProofs -----------------------------
(***************************************************************************)
(* The socket layer, for every number of sends and devices and every       *)
(* choice of the times.  Of the connection (CoreSocket): how long a        *)
(* silence can last, and that a reported close is final.  Of the messages  *)
(* to a group (GroupSend): that no key of a chain is used for two of them, *)
(* that what is read is not torn, that the devices that are remembered to  *)
(* have the key were sent it, or failed to be, and that a device opens     *)
(* what it was given the key of, once.  Of the channel (NoiseChannel): that*)
(* both sides stay in step, and that it is a queue.                        *)
(***************************************************************************)
EXTENDS CoreSocket, GroupSend, NoiseChannel, FiniteSetTheorems,
        SequenceTheorems, WellFoundedInduction, TLAPS

-----------------------------------------------------------------------------
(* The connection. *)
States == Waits \cup {"idle", "connected", "recv", "ending", "quiet", "closing", "dead"}

SocketTyped ==
    /\ at \in [Tasks -> States]
    /\ query \in [Tasks -> {"none", "sending", "sent", "arrived", "resolved"}]
    /\ wait \in [Tasks -> Nat \cup {Endless}]
    /\ age \in Nat

(* Where each task can be, as far as the silence depends on it. *)
Placed ==
    /\ at["keepalive"] \in {"idle", "sleep", "ping", "ending", "closing", "dead"}
    /\ at["connector"] \notin {"hello", "finish"} => query["connector"] = "none"
    /\ at["connector"] = "finish" => wait["connector"] >= 0
    /\ at["connector"] \in {"idle", "hello", "finish"} => at["keepalive"] \in {"idle", "dead"}
    /\ at["keepalive"] # "ping" => query["keepalive"] = "none"
    /\ at["keepalive"] = "sleep" => wait["keepalive"] >= 0
    /\ query["keepalive"] = "sending" => wait["keepalive"] >= 0

(* connect() sends its finish in the tick of the hello, and whoever has an *)
(* answer goes on in the tick of it.  A sleep of the keep-alive loop ends, *)
(* and a ping was sent or given up, before the silence is too long.        *)
Timed ==
    /\ query["connector"] = "resolved" => age = 0
    /\ query["keepalive"] = "resolved" => age = 0
    /\ at["connector"] = "finish" => age + wait["connector"] <= ConnectTimeout
    /\ at["keepalive"] = "sleep" => age + wait["keepalive"] <= MaxSilence
    /\ at["keepalive"] = "ping" /\ query["keepalive"] = "sending" =>
         age + wait["keepalive"] <= Interval + Grace + ConnectTimeout
    /\ at["keepalive"] = "ping" /\ wait["keepalive"] # Endless =>
         age + wait["keepalive"] <= Interval + Grace + ConnectTimeout + QueryTimeout

Silence == SocketTyped /\ Placed /\ Timed

LEMMA SilenceInit == SocketInit => Silence
  BY TimesAssumption
  DEF SocketInit, Silence, SocketTyped, Placed, Timed, Tasks, States, Waits, MaxSilence, Endless

(* end() leaves the keep-alive loop ending or dead. *)
LEMMA SilenceEnd ==
    ASSUME Silence, NEW t \in {"connector", "loop", "keepalive"}, End(t),
           at[t] \in {"hello", "finish", "recv", "reply", "sleep"}
    PROVE  Silence'
  <1> USE TimesAssumption
  <1>1. SocketTyped'
    BY DEF Silence, SocketTyped, End, Continue, Tasks, States, Waits
  <1>2. Placed'
    BY DEF Silence, SocketTyped, Placed, End, Continue, Tasks, States, Waits, Endless
  <1>3. Timed'
    BY <1>1 DEF Silence, SocketTyped, Placed, Timed, End, Continue, Tasks, MaxSilence, Endless
  <1> QED BY <1>1, <1>2, <1>3 DEF Silence

LEMMA SilenceStep == Silence /\ [SocketNext]_socketVars => Silence'
  <1> SUFFICES ASSUME Silence, [SocketNext]_socketVars PROVE Silence'
    OBVIOUS
  <1> USE TimesAssumption DEF Silence, SocketTyped, Placed, Timed, Tasks, States, Waits, MaxSilence, Endless
  <1>1. ASSUME Connect PROVE Silence'
    BY <1>1 DEF Connect
  <1>2. ASSUME UserQuery PROVE Silence'
    BY <1>2 DEF UserQuery, Ask
  <1>3. ASSUME Disconnect PROVE Silence'
    BY <1>3 DEF Disconnect
  <1>4. ASSUME Validate PROVE Silence'
    <2>1. CASE End("connector")
      <3>1. at["connector"] \in {"hello", "finish", "recv", "reply", "sleep"}
        BY <1>4 DEF Validate
      <3> HIDE DEF Silence, SocketTyped, Placed, Timed, Tasks, States, Waits, MaxSilence
      <3> QED BY <2>1, <3>1, SilenceEnd
    <2>2. CASE /\ query["connector"] = "resolved"
               /\ Ask("connector", "finish") /\ UNCHANGED age
      <3>1. SocketTyped'
        BY <1>4, <2>2 DEF Validate, Ask
      <3>2. Placed'
        BY <1>4, <2>2 DEF Validate, Ask
      <3>3. Timed'
        BY <1>4, <2>2 DEF Validate, Ask
      <3> QED BY <3>1, <3>2, <3>3 DEF Silence
    <2> QED BY <1>4, <2>1, <2>2 DEF Validate
  <1>4a. ASSUME SendFinish PROVE Silence'
    <2>1. CASE End("connector")
      <3>1. at["connector"] \in {"hello", "finish", "recv", "reply", "sleep"}
        BY <1>4a DEF SendFinish
      <3> HIDE DEF Silence, SocketTyped, Placed, Timed, Tasks, States, Waits, MaxSilence
      <3> QED BY <2>1, <3>1, SilenceEnd
    <2>2. CASE ~End("connector")
      <3>1. SocketTyped'
        BY <1>4a, <2>2 DEF SendFinish
      <3>2. Placed'
        BY <1>4a, <2>2 DEF SendFinish
      <3>3. Timed'
        BY <1>4a, <2>2 DEF SendFinish
      <3> QED BY <3>1, <3>2, <3>3 DEF Silence
    <2> QED BY <2>1, <2>2
  <1>5. ASSUME Receive PROVE Silence'
    <2>1. CASE End("loop")
      BY <1>5, <2>1, SilenceEnd DEF Receive
    <2>2. CASE ~End("loop")
      <3>1. age' = 0 /\ at["loop"] = "recv" /\ at' \in {at, [at EXCEPT !["loop"] = "reply"],
                                                          [at EXCEPT !["loop"] = "count"]}
        BY <1>5, <2>2 DEF Receive, Ask
      <3>2. SocketTyped'
        BY <1>5, <2>2 DEF Receive, Ask
      <3>3. Placed'
        BY <1>5, <2>2 DEF Receive, Ask
      <3>4. Timed'
        BY <1>5, <2>2 DEF Receive, Ask
      <3> QED BY <3>2, <3>3, <3>4 DEF Silence
    <2> QED BY <2>1, <2>2
  <1>6. ASSUME ReceiveFails PROVE Silence'
    BY <1>6, SilenceEnd DEF ReceiveFails
  <1>7. ASSUME NEW from, NEW to \in {"passive", "digest"}, NextQuery(from, to) PROVE Silence'
    BY <1>7 DEF NextQuery, Ask
  <1>8. ASSUME ReportOpen PROVE Silence'
    BY <1>8 DEF ReportOpen, Continue
  <1>8a. ASSUME Replied PROVE Silence'
    BY <1>8a, SilenceEnd DEF Replied, Continue
  <1>9. ASSUME KeepAlive PROVE Silence'
    BY <1>9, SilenceEnd DEF KeepAlive, Ask
  <1>10. ASSUME Pinged PROVE Silence'
    <2>1. SocketTyped'
      BY <1>10 DEF Pinged
    <2>2. Placed'
      BY <1>10 DEF Pinged
    <2>3. age + Interval <= MaxSilence
      BY <1>10 DEF Pinged, Over
    <2>4. Timed'
      BY <1>10, <2>3 DEF Pinged
    <2> QED BY <2>1, <2>2, <2>4 DEF Silence
  <1>11. ASSUME UserReturns PROVE Silence'
    BY <1>11 DEF UserReturns, Continue
  <1>12. ASSUME NEW t \in Tasks, CloseTransport(t) \/ ReportClose(t) PROVE Silence'
    BY <1>12 DEF CloseTransport, ReportClose
  <1>13. ASSUME NEW t \in Tasks, Sent(t) \/ Answer(t) PROVE Silence'
    BY <1>13 DEF Sent, Limit, Answer
  <1>14. CASE Greet \/ Notify \/ Drop
    BY <1>14 DEF Greet, Notify, Drop
  <1>15. ASSUME Tick PROVE Silence'
    <2>1. /\ UNCHANGED <<query, at>> /\ \A t \in Tasks : ~Ready(t)
          /\ age' \in {age, age + 1}
          /\ wait' = [t \in Tasks |-> IF at[t] \in Waits /\ wait[t] > 0 THEN wait[t] - 1 ELSE wait[t]]
      BY <1>15 DEF Tick
    <2>2. \A t \in Tasks : at[t] \in Waits => wait[t] # 0 /\ query[t] # "resolved"
      <3> HIDE DEF Tasks, Waits
      <3> QED BY <2>1 DEF Ready, Over
    <2>3. /\ query["connector"] # "resolved" /\ query["keepalive"] # "resolved"
      BY <2>2
    <2>4. \A t \in Tasks : at[t] \in Waits /\ wait[t] # Endless =>
                            wait'[t] \in Nat /\ age' + wait'[t] <= age + wait[t]
      BY <2>1, <2>2
    <2>5. \A t \in Tasks : wait'[t] = Endless <=> wait[t] = Endless
      BY <2>1
    <2>6. SocketTyped'
      BY <2>1
    <2>7. Placed'
      BY <2>1, <2>4, <2>5
    <2>8. Timed'
      BY <2>1, <2>3, <2>4, <2>5
    <2> QED BY <2>6, <2>7, <2>8 DEF Silence
  <1>16. CASE UNCHANGED socketVars
    BY <1>16 DEF socketVars
  <1> QED
    BY <1>1, <1>2, <1>3, <1>4, <1>4a, <1>5, <1>6, <1>7, <1>8, <1>8a, <1>9, <1>10, <1>11,
       <1>12, <1>13, <1>14, <1>15, <1>16 DEF SocketNext, Run

(* No silence outlasts MaxSilence while the keep-alive loop runs and does  *)
(* not wait for a ping that has no time limit (socket.py 767-797).         *)
THEOREM SilenceIsBounded == SocketSpec => []SilenceBounded
  <1>1. Silence => SilenceBounded
    BY TimesAssumption DEF Silence, SocketTyped, Timed, SilenceBounded, MaxSilence, Tasks, Endless
  <1> QED BY SilenceInit, SilenceStep, <1>1, PTL DEF SocketSpec

-----------------------------------------------------------------------------
(* Whoever is closing the connection has cancelled the receive loop, or is *)
(* the receive loop; after the report nothing is left of it.               *)
Closing ==
    /\ at \in [Tasks -> States]
    /\ at["loop"] \in {"idle", "recv", "count", "passive", "digest", "reply", "ending", "closing", "dead"}
    /\ \A t \in Tasks \ {"loop"} :
         at[t] \in {"ending", "quiet", "closing"} => at["loop"] = "dead"
    /\ at["loop"] = "dead" => at["connector"] # "idle"
    /\ at["connector"] = "idle" => at["keepalive"] = "idle" /\ at["loop"] = "idle"
    /\ update = "close" => at["loop"] = "dead"

LEMMA ClosingInit == SocketInit => Closing
  BY DEF SocketInit, Closing, Tasks, States, Waits

LEMMA ClosingEnd ==
    ASSUME Closing, NEW t \in {"connector", "loop", "keepalive"}, End(t),
           at[t] \in {"hello", "finish", "recv", "reply", "sleep"}
    PROVE  Closing'
  BY DEF Closing, End, Continue, Tasks, States, Waits

LEMMA ClosingStep ==
    Closing /\ [SocketNext]_socketVars => Closing' /\ (update = "close" => update' = "close")
  <1> SUFFICES ASSUME Closing, [SocketNext]_socketVars
               PROVE  Closing' /\ (update = "close" => update' = "close")
    OBVIOUS
  <1> DEFINE Goal == Closing' /\ (update = "close" => update' = "close")
  <1>1. ASSUME NEW t \in {"connector", "loop", "keepalive"}, End(t),
               at[t] \in {"hello", "finish", "recv", "reply", "sleep"}
        PROVE  Goal
    <2>1. UNCHANGED update
      BY <1>1 DEF End
    <2> QED BY <1>1, <2>1, ClosingEnd
  <1> USE DEF Closing, Tasks, States, Waits
  <1>2. ASSUME Connect PROVE Goal
    BY <1>2 DEF Connect
  <1>3. ASSUME UserQuery \/ UserReturns \/ Pinged PROVE Goal
    BY <1>3 DEF UserQuery, UserReturns, Pinged, Ask, Continue
  <1>4. ASSUME Disconnect PROVE Goal
    BY <1>4 DEF Disconnect
  <1>5. ASSUME Validate \/ SendFinish PROVE Goal
    BY <1>5, <1>1 DEF Validate, SendFinish, Ask
  <1>6. ASSUME Receive \/ ReceiveFails PROVE Goal
    BY <1>6, <1>1 DEF Receive, ReceiveFails, Ask
  <1>7. ASSUME NextQuery("count", "passive") \/ NextQuery("passive", "digest") PROVE Goal
    BY <1>7 DEF NextQuery, Ask
  <1>8. ASSUME ReportOpen PROVE Goal
    BY <1>8 DEF ReportOpen, Continue
  <1>8a. ASSUME Replied PROVE Goal
    BY <1>8a, <1>1 DEF Replied, Continue
  <1>9. ASSUME KeepAlive PROVE Goal
    BY <1>9, <1>1 DEF KeepAlive, Ask
  <1>10. ASSUME NEW t \in Tasks, CloseTransport(t) \/ ReportClose(t) PROVE Goal
    BY <1>10 DEF CloseTransport, ReportClose
  <1>11. ASSUME (\E t \in Tasks : Sent(t) \/ Answer(t)) \/ Greet \/ Notify \/ Drop \/ Tick
         PROVE  Goal
    BY <1>11 DEF Sent, Answer, Greet, Notify, Drop, Tick
  <1>12. ASSUME UNCHANGED socketVars PROVE Goal
    BY <1>12 DEF socketVars
  <1> HIDE DEF Goal, Closing, Tasks, States, Waits
  <1>13. ASSUME Run PROVE Goal
    BY <1>3, <1>5, <1>6, <1>7, <1>8, <1>8a, <1>9, <1>10, <1>13 DEF Run
  <1>14. ASSUME SocketNext PROVE Goal
    BY <1>2, <1>3, <1>4, <1>11, <1>13, <1>14 DEF SocketNext
  <1> QED BY <1>12, <1>14 DEF Goal

(* After the report of a close there is no report of an open connection. *)
THEOREM CloseIsFinal == SocketSpec => NoOpenAfterClose
  <1>1. Closing /\ [SocketNext]_socketVars => Closing'
    BY ClosingStep
  <1>2. Closing /\ [SocketNext]_socketVars => [update = "close" => update' = "close"]_socketVars
    BY ClosingStep
  <1>3. SocketSpec => []Closing
    BY ClosingInit, <1>1, PTL DEF SocketSpec
  <1>4. SocketSpec => [][SocketNext]_socketVars
    BY PTL DEF SocketSpec
  <1>5. SocketSpec => [][update = "close" => update' = "close"]_socketVars
    BY <1>2, <1>3, <1>4, PTL
  <1> QED BY <1>5 DEF NoOpenAfterClose

-----------------------------------------------------------------------------
(* Messages to a group: what the variables are. *)
StateT == [id : Nat, chain : Nat, keys : Seq(Nat)]
OwnRecords == {r \in Seq(StateT) : Len(r) = 1}
Contents(f) == IF f = Record THEN OwnRecords \cup {<<>>} ELSE SUBSET Devices
Writes(f) == [task : Sends, value : Contents(f), open : BOOLEAN, mixed : BOOLEAN]
Keys == [id : Nat, i : Nat]
Places ==
    {"idle", "memory", "blank", "create", "encrypt", "address", "remember", "send", "commit",
     "committing", "raise", "sent", "failed"}

TypedData ==
    /\ files = [f \in Files |-> files[f]]
    /\ \A f \in Files : files[f] \in Contents(f) \cup {Absent, Torn}
TypedLines ==
    /\ lines = [f \in Files |-> lines[f]]
    /\ \A f \in Files : lines[f] \in Seq(Writes(f))
TypedStrays ==
    /\ strays = [f \in Files |-> strays[f]]
    /\ \A f \in Files : strays[f] \subseteq Contents(f)
TypedContext == \A f \in DOMAIN ctx : f \in Files /\ ctx[f] \in Contents(f)
TypedSends ==
    /\ transactional \in BOOLEAN
    /\ pc \in [Sends -> Places]
    /\ memo \in [Sends -> SUBSET Devices]
    /\ key \in [Sends -> Keys \cup {None}]
    /\ loaded \in [Sends -> Contents(Record) \cup {Absent, None}]
    /\ ids \in Nat /\ left \subseteq Sends /\ unsaved \subseteq Sends
Typed == TypedData /\ TypedLines /\ TypedStrays /\ TypedContext /\ TypedSends

(* A send that has the record of the own key in its transaction. *)
Holding(s) ==
    pc[s] \in {"encrypt", "address", "remember", "send", "commit", "committing", "raise"}

(* One send at a time, and nothing is in the transaction of none. *)
Alone ==
    /\ \A s, t \in Sends : Ended(s) \/ Ended(t) \/ s = t
    /\ Record \in DOMAIN ctx <=> \E s \in Sends : Holding(s)

(* What has left is about to commit, has, or is said not to be saved; who  *)
(* has writes in a line has committed.                                     *)
Late ==
    /\ \A s \in left :
         /\ pc[s] \in {"commit", "committing", "raise", "sent", "failed"}
         /\ pc[s] = "failed" => s \in unsaved
    /\ \A f \in Files : \A n \in 1 .. Len(lines[f]) :
         pc[lines[f][n].task] \in {"commit", "committing", "raise", "failed"}

(* While a send holds the record, only it writes the file, and once it has *)
(* committed the file has what it wrote.                                   *)
OwnLine ==
    \A s \in Sends : Holding(s) =>
        /\ strays[Record] = {}
        /\ \A n \in 1 .. Len(lines[Record]) :
             /\ lines[Record][n].task = s
             /\ lines[Record][n].value = ctx[Record] /\ ~lines[Record][n].mixed
        /\ pc[s] = "committing" => lines[Record] # <<>> \/ files[Record] = ctx[Record]

(* While a write is running the file is empty, and so it stays until the   *)
(* thread of a cancelled send ends: nobody reads a record before.          *)
TornMeanwhile ==
    /\ \A n \in 1 .. Len(lines[Record]) :
         lines[Record][n].open => n = 1 /\ files[Record] = Torn
    /\ strays[Record] # {} =>
         /\ lines[Record] = <<>> /\ files[Record] = Torn
         /\ \E x \in strays[Record] : strays[Record] = {x}

(* Wherever the record may still be read from, it is not an empty one, and *)
(* its key is used up to the iterations that saved messages have taken.    *)
Saved == {t \in left \ unsaved : pc[t] = "sent"}
Beyond(v) ==
    /\ v # <<>>
    /\ v \in OwnRecords =>
         /\ v[1].id <= ids
         /\ \A t \in Saved : v[1].id = key[t].id => key[t].i < v[1].chain
Versions ==
    {files[Record]} \cup strays[Record]
    \cup {lines[Record][n].value : n \in 1 .. Len(lines[Record])}
    \cup {ctx[f] : f \in DOMAIN ctx \cap {Record}}
Used ==
    /\ \A v \in Versions : Beyond(v)
    /\ \A t \in Saved : key[t] \in Keys /\ key[t].id <= ids

(* The key in hand is below the record in the transaction, and that of no  *)
(* message that was saved; no two of these have the same.                  *)
InHand ==
    \A s \in Sends : Holding(s) /\ pc[s] # "encrypt" =>
        /\ key[s] \in Keys
        /\ ctx[Record][1].id = key[s].id /\ key[s].i < ctx[Record][1].chain
        /\ \A t \in Saved : key[t] # key[s]
Apart == \A s, t \in Saved : s = t \/ key[s] # key[t]

(* An empty record is stored without transactions only. *)
NoBlank == transactional => \A s \in Sends : pc[s] # "blank"

Inv == Alone /\ Late /\ OwnLine /\ TornMeanwhile /\ Used /\ InHand /\ Apart

(* Whatever tears a file is named, and nothing that is written is torn. *)
TornForReason ==
    \A f \in Files : files[f] = Torn =>
        f \in damaged \/ strays[f] # {} \/ (lines[f] # <<>> /\ lines[f][1].open)

-----------------------------------------------------------------------------
(* Induction over the natural numbers, from the well-founded order of      *)
(* finite sets.                                                            *)
LEMMA LeastNumber ==
    ASSUME NEW T, T \subseteq Nat, T # {}
    PROVE  \E m \in T : \A k \in T : m <= k
  <1>1. PICK R : R = StrictSubsetOrdering(Nat)
    OBVIOUS
  <1>2. IsWellFoundedOn(R, FiniteSubsetsOf(Nat))
    BY <1>1, FS_StrictSubsetOrderingWellFounded
  <1>3. PICK F : F = {1 .. k : k \in T}
    OBVIOUS
  <1>4. F \subseteq FiniteSubsetsOf(Nat) /\ F # {}
    <2>1. \A k \in T : 1 .. k \subseteq Nat /\ IsFiniteSet(1 .. k)
      BY FS_Interval
    <2> QED BY <1>3, <2>1 DEF FiniteSubsetsOf
  <1>5. PICK X \in F : \A Y \in F : ~ (<<Y, X>> \in R)
    BY <1>2, <1>4, WFMin
  <1>6. PICK m \in T : X = 1 .. m
    BY <1>3
  <1>7. ASSUME NEW k \in T, k < m PROVE FALSE
    <2>1. 1 .. k \in F /\ 1 .. k \in SUBSET Nat /\ X \in SUBSET Nat
      BY <1>3, <1>6
    <2>2. 1 .. k \subseteq X /\ 1 .. k # X
      <3>1. m \in X /\ m \notin 1 .. k
        BY <1>6, <1>7
      <3> QED BY <1>6, <1>7, <3>1
    <2>3. <<1 .. k, X>> \in R
      BY <1>1, <2>1, <2>2 DEF StrictSubsetOrdering
    <2> QED BY <1>5, <2>1, <2>3
  <1> QED BY <1>7

LEMMA Induct ==
    ASSUME NEW S, 0 \in S, \A n \in Nat : n \in S => n + 1 \in S
    PROVE  Nat \subseteq S
  <1> SUFFICES ASSUME Nat \ S # {} PROVE FALSE
    OBVIOUS
  <1>1. PICK m \in Nat \ S : \A k \in Nat \ S : m <= k
    BY LeastNumber
  <1>2. m - 1 \in Nat /\ m - 1 \in S
    BY <1>1
  <1> QED BY <1>1, <1>2

(* The recursion of Without, up to the first k writes of a line. *)
StepOf(line, task, g, n) ==
    IF n = 0 THEN <<>>
    ELSE IF line[n].task = task THEN g[n - 1] ELSE Append(g[n - 1], line[n])
IsRest(line, task, g, k) == g = [n \in 0 .. k |-> StepOf(line, task, g, n)]

LEMMA RestExists ==
    ASSUME NEW line, NEW task
    PROVE  \A k \in Nat : \E g : IsRest(line, task, g, k)
  <1> DEFINE S == {k \in Nat : \E g : IsRest(line, task, g, k)}
  <1>1. 0 \in S
    <2>1. PICK g : g = [n \in 0 .. 0 |-> <<>>]
      OBVIOUS
    <2>2. [n \in 0 .. 0 |-> StepOf(line, task, g, n)] = g
      BY <2>1 DEF StepOf
    <2> QED BY <2>2 DEF IsRest
  <1>2. ASSUME NEW k \in Nat, k \in S PROVE k + 1 \in S
    <2>1. PICK g : IsRest(line, task, g, k)
      BY <1>2
    <2>2. PICK h : h = [n \in 0 .. k + 1 |->
                          IF n \in 0 .. k THEN g[n] ELSE StepOf(line, task, g, n)]
      OBVIOUS
    <2>3. ASSUME NEW n \in 0 .. k + 1 PROVE h[n] = StepOf(line, task, h, n)
      <3>1. n # 0 => n - 1 \in 0 .. k /\ h[n - 1] = g[n - 1]
        BY <2>2, <2>3
      <3>2. StepOf(line, task, h, n) = StepOf(line, task, g, n)
        BY <3>1 DEF StepOf
      <3>3. n \in 0 .. k => g[n] = StepOf(line, task, g, n)
        BY <2>1 DEF IsRest
      <3> QED BY <2>2, <3>2, <3>3
    <2>4. h = [n \in 0 .. k + 1 |-> StepOf(line, task, h, n)]
      BY <2>2, <2>3
    <2> QED BY <2>4 DEF IsRest
  <1>3. Nat \subseteq S
    <2> HIDE DEF S
    <2> QED BY <1>1, <1>2, Induct
  <1> QED BY <1>3

LEMMA WithoutSteps ==
    ASSUME NEW T, NEW line \in Seq(T), NEW task
    PROVE  \E g : IsRest(line, task, g, Len(line)) /\ Without(line, task) = g[Len(line)]
  <1>1. Len(line) \in Nat
    OBVIOUS
  <1>2. PICK k \in Nat : k = Len(line)
    BY <1>1
  <1>3. \E g : IsRest(line, task, g, k)
    BY RestExists
  <1>4. \E g : g = [n \in 0 .. Len(line) |->
                      IF n = 0 THEN <<>>
                      ELSE IF line[n].task = task THEN g[n - 1] ELSE Append(g[n - 1], line[n])]
    BY <1>2, <1>3 DEF IsRest, StepOf
  <1>5. PICK g : g = CHOOSE h : h = [n \in 0 .. Len(line) |->
                      IF n = 0 THEN <<>>
                      ELSE IF line[n].task = task THEN h[n - 1] ELSE Append(h[n - 1], line[n])]
    OBVIOUS
  <1>6. Without(line, task) = g[Len(line)]
    BY <1>5 DEF Without
  <1>7. g = [n \in 0 .. Len(line) |->
               IF n = 0 THEN <<>>
               ELSE IF line[n].task = task THEN g[n - 1] ELSE Append(g[n - 1], line[n])]
    BY <1>4, <1>5
  <1> QED BY <1>6, <1>7 DEF IsRest, StepOf

(* Of the first n writes, those of others come in the order of the line:   *)
(* its head stays the head, and a line of others stays as it is.           *)
Comes(line, task, s, n) ==
    /\ \A i \in 1 .. Len(s) : \E m \in i .. n : s[i] = line[m] /\ line[m].task # task
    /\ 1 <= n /\ line[1].task # task => s # <<>> /\ s[1] = line[1]
    /\ (\A m \in 1 .. n : line[m].task # task) =>
         Len(s) = n /\ \A m \in 1 .. n : s[m] = line[m]
    /\ (\A i, j \in 1 .. n : line[i].task = line[j].task => i = j) =>
         \A i, j \in 1 .. Len(s) : s[i].task = s[j].task => i = j

LEMMA WithoutFacts ==
    ASSUME NEW T, NEW line \in Seq(T), NEW task
    PROVE  /\ Without(line, task) \in Seq(T)
           /\ Comes(line, task, Without(line, task), Len(line))
  <1>1. PICK g : IsRest(line, task, g, Len(line)) /\ Without(line, task) = g[Len(line)]
    BY WithoutSteps
  <1>2. PICK L \in Nat : L = Len(line)
    OBVIOUS
  <1> DEFINE S == {n \in Nat : n <= L => g[n] \in Seq(T) /\ Comes(line, task, g[n], n)}
  <1>3. \A n \in 0 .. L : g[n] = StepOf(line, task, g, n)
    BY <1>1, <1>2 DEF IsRest
  <1>4. 0 \in S
    <2>1. g[0] = <<>>
      BY <1>3 DEF StepOf
    <2>2. Comes(line, task, <<>>, 0)
      BY DEF Comes
    <2>3. g[0] \in Seq(T)
      BY <2>1
    <2> QED BY <2>1, <2>2, <2>3
  <1>5. ASSUME NEW n \in Nat, n \in S PROVE n + 1 \in S
    <2> SUFFICES ASSUME n + 1 <= L
                 PROVE  g[n + 1] \in Seq(T) /\ Comes(line, task, g[n + 1], n + 1)
      OBVIOUS
    <2>1. PICK s \in Seq(T) : s = g[n] /\ Comes(line, task, s, n)
      BY <1>5
    <2>2. PICK k \in 1 .. Len(line) : k = n + 1
      BY <1>2
    <2>3. line[k] \in T
      BY <2>2
    <2>4. g[k] = IF line[k].task = task THEN s ELSE Append(s, line[k])
      BY <1>2, <1>3, <2>1, <2>2 DEF StepOf
    <2>5. CASE line[k].task = task
      <3>1. g[k] = s
        BY <2>4, <2>5
      <3>2. Comes(line, task, s, k)
        <4>1. \A i \in 1 .. Len(s) : \E m \in i .. k : s[i] = line[m] /\ line[m].task # task
          BY <2>1, <2>2 DEF Comes
        <4>2. 1 <= k /\ line[1].task # task => s # <<>> /\ s[1] = line[1]
          BY <2>1, <2>2, <2>5 DEF Comes
        <4>3. (\A i, j \in 1 .. k : line[i].task = line[j].task => i = j) =>
                 \A i, j \in 1 .. Len(s) : s[i].task = s[j].task => i = j
          BY <2>1, <2>2 DEF Comes
        <4> QED BY <2>2, <2>5, <4>1, <4>2, <4>3 DEF Comes
      <3> QED BY <2>2, <3>1, <3>2
    <2>6. CASE line[k].task # task
      <3>1. PICK r : r = Append(s, line[k])
        OBVIOUS
      <3>2. /\ r \in Seq(T) /\ r # <<>> /\ Len(r) = Len(s) + 1 /\ r[Len(s) + 1] = line[k]
            /\ Len(s) \in Nat /\ \A i \in 1 .. Len(s) : r[i] = s[i]
        BY <2>3, <3>1, AppendProperties
      <3>3. Len(s) <= n
        <4>1. CASE Len(s) = 0
          BY <4>1
        <4>2. CASE Len(s) # 0
          <5>1. Len(s) \in 1 .. Len(s)
            BY <3>2, <4>2
          <5>2. \E m \in Len(s) .. n : TRUE
            BY <2>1, <5>1 DEF Comes
          <5> QED BY <3>2, <5>2
        <4> QED BY <4>1, <4>2
      <3>4. \A i \in 1 .. Len(r) : \E m \in i .. k : r[i] = line[m] /\ line[m].task # task
        <4> TAKE i \in 1 .. Len(r)
        <4>1. CASE i \in 1 .. Len(s)
          <5>1. PICK m \in i .. n : s[i] = line[m] /\ line[m].task # task
            BY <2>1, <4>1 DEF Comes
          <5> QED BY <2>2, <3>2, <4>1, <5>1
        <4>2. CASE i = Len(s) + 1
          <5>1. k \in i .. k
            BY <2>2, <3>2, <3>3, <4>2
          <5> QED BY <2>6, <3>2, <4>2, <5>1
        <4> QED BY <3>2, <4>1, <4>2
      <3>5. 1 <= k /\ line[1].task # task => r # <<>> /\ r[1] = line[1]
        <4>1. CASE n = 0
          <5>1. Len(s) = 0 /\ k = 1
            BY <2>2, <3>2, <3>3, <4>1
          <5>2. r[1] = line[1]
            BY <3>2, <5>1
          <5> QED BY <3>2, <5>2
        <4>2. CASE n # 0
          <5> SUFFICES ASSUME line[1].task # task PROVE r # <<>> /\ r[1] = line[1]
            OBVIOUS
          <5>1. s # <<>> /\ s[1] = line[1]
            BY <2>1, <4>2 DEF Comes
          <5>2. 1 \in 1 .. Len(s)
            BY <5>1, <3>2
          <5> QED BY <3>2, <5>1, <5>2
        <4> QED BY <4>1, <4>2
      <3>6. (\A m \in 1 .. k : line[m].task # task) =>
               Len(r) = k /\ \A m \in 1 .. k : r[m] = line[m]
        <4> SUFFICES ASSUME \A m \in 1 .. k : line[m].task # task
                     PROVE  Len(r) = k /\ \A m \in 1 .. k : r[m] = line[m]
          OBVIOUS
        <4>1. Len(s) = n /\ \A m \in 1 .. n : s[m] = line[m]
          BY <2>1, <2>2 DEF Comes
        <4> QED BY <2>2, <3>2, <4>1
      <3>8. (\A i, j \in 1 .. k : line[i].task = line[j].task => i = j) =>
               \A i, j \in 1 .. Len(r) : r[i].task = r[j].task => i = j
        <4> SUFFICES ASSUME \A i, j \in 1 .. k : line[i].task = line[j].task => i = j,
                            NEW i \in 1 .. Len(r), NEW j \in 1 .. Len(r),
                            r[i].task = r[j].task
                     PROVE  i = j
          OBVIOUS
        <4>1. \A x \in 1 .. Len(s) : r[x].task # line[k].task
          <5> TAKE x \in 1 .. Len(s)
          <5>1. PICK m \in x .. n : s[x] = line[m]
            BY <2>1 DEF Comes
          <5>2. m \in 1 .. k /\ m # k
            BY <2>2, <3>2, <5>1
          <5> QED BY <2>2, <3>2, <5>1, <5>2
        <4>2. \A x, y \in 1 .. Len(s) : s[x].task = s[y].task => x = y
          BY <2>1, <2>2 DEF Comes
        <4> QED BY <3>2, <4>1, <4>2
      <3>7. Comes(line, task, r, k)
        BY <3>4, <3>5, <3>6, <3>8 DEF Comes
      <3> QED BY <2>2, <2>4, <2>6, <3>1, <3>2, <3>7
    <2> QED BY <2>5, <2>6
  <1>6. Nat \subseteq S
    <2> HIDE DEF S
    <2> QED BY <1>4, <1>5, Induct
  <1>7. L \in S
    BY <1>6
  <1>8. g[L] \in Seq(T) /\ Comes(line, task, g[L], L)
    BY <1>7
  <1> QED BY <1>1, <1>2, <1>8

-----------------------------------------------------------------------------
(* A write that is opened or spoilt is still the same write. *)
SameWrites(new, old) ==
    /\ Len(new) = Len(old)
    /\ \A n \in 1 .. Len(old) : new[n].task = old[n].task /\ new[n].value = old[n].value

LEMMA OpenedLine ==
    ASSUME NEW f, NEW line \in Seq(Writes(f)), line # <<>>
    PROVE  LET new == [line EXCEPT ![1].open = TRUE] IN
           /\ new \in Seq(Writes(f)) /\ SameWrites(new, line) /\ new[1].open
           /\ \A n \in 1 .. Len(line) : new[n].mixed = line[n].mixed
           /\ \A n \in 1 .. Len(line) : n # 1 => new[n].open = line[n].open
  <1>1. 1 \in 1 .. Len(line) /\ line[1] \in Writes(f)
    BY EmptySeq
  <1>2. PICK w : w = [line[1] EXCEPT !.open = TRUE]
    OBVIOUS
  <1>3. /\ w \in Writes(f) /\ w.task = line[1].task /\ w.value = line[1].value
        /\ w.mixed = line[1].mixed /\ w.open
    BY <1>1, <1>2 DEF Writes
  <1>4. PICK new : new = [line EXCEPT ![1] = w]
    OBVIOUS
  <1>5. /\ new \in Seq(Writes(f)) /\ Len(new) = Len(line) /\ new[1] = w
        /\ \A n \in 1 .. Len(line) : n # 1 => new[n] = line[n]
    BY <1>1, <1>3, <1>4, ExceptSeq
  <1>6. [line EXCEPT ![1].open = TRUE] = new
    BY <1>2, <1>4
  <1>7. SameWrites(new, line) /\ \A n \in 1 .. Len(line) : new[n].mixed = line[n].mixed
    BY <1>3, <1>5 DEF SameWrites
  <1> QED BY <1>3, <1>5, <1>6, <1>7

LEMMA MixedLine ==
    ASSUME NEW f, NEW line \in Seq(Writes(f)), line # <<>>
    PROVE  LET new == [line EXCEPT ![1].mixed = TRUE] IN
           /\ new \in Seq(Writes(f)) /\ SameWrites(new, line)
           /\ \A n \in 1 .. Len(line) : new[n].open = line[n].open
  <1>1. 1 \in 1 .. Len(line) /\ line[1] \in Writes(f)
    BY EmptySeq
  <1>2. PICK w : w = [line[1] EXCEPT !.mixed = TRUE]
    OBVIOUS
  <1>3. /\ w \in Writes(f) /\ w.task = line[1].task /\ w.value = line[1].value
        /\ w.open = line[1].open
    BY <1>1, <1>2 DEF Writes
  <1>4. PICK new : new = [line EXCEPT ![1] = w]
    OBVIOUS
  <1>5. /\ new \in Seq(Writes(f)) /\ Len(new) = Len(line) /\ new[1] = w
        /\ \A n \in 1 .. Len(line) : n # 1 => new[n] = line[n]
    BY <1>1, <1>3, <1>4, ExceptSeq
  <1>6. [line EXCEPT ![1].mixed = TRUE] = new
    BY <1>2, <1>4
  <1>7. SameWrites(new, line) /\ \A n \in 1 .. Len(line) : new[n].open = line[n].open
    BY <1>3, <1>5 DEF SameWrites
  <1> QED BY <1>5, <1>6, <1>7

(* Encrypting takes an iteration that the record is not beyond, and moves  *)
(* the record beyond it.                                                   *)
LEMMA KeptKeys ==
    ASSUME NEW x \in StateT, NEW i \in Nat, x.chain <= i
    PROVE  /\ Derived(x, i) \in StateT
           /\ Derived(x, i).id = x.id /\ Derived(x, i).chain = i + 1
  <1>1. x.chain \in Nat /\ x.keys \in Seq(Nat)
    BY DEF StateT
  <1>2. Passed(x, i) \in Seq(Nat)
    <2>1. i - x.chain \in Nat
      BY <1>1
    <2>2. PICK k \in Nat : k = i - x.chain
      BY <2>1
    <2>3. \A n \in 1 .. k : x.chain + n - 1 \in Nat
      BY <1>1
    <2>4. [n \in 1 .. k |-> x.chain + n - 1] \in [1 .. k -> Nat]
      BY <2>3
    <2>5. [n \in 1 .. k |-> x.chain + n - 1] \in Seq(Nat)
      BY <2>4, IsASeq, SMT
    <2> QED BY <2>2, <2>5 DEF Passed
  <1>3. PICK s \in Seq(Nat) : s = x.keys \o Passed(x, i)
    BY <1>1, <1>2, ConcatProperties
  <1>4. Newest(s, MaxKeys) \in Seq(Nat)
    <2>1. PICK m \in Int : m = IF Len(s) > MaxKeys THEN Len(s) - MaxKeys + 1 ELSE 1
      BY LimitsAssumption, SMTT(60)
    <2>2. m >= 1 /\ Len(s) \in Int
      BY <2>1, LimitsAssumption
    <2>3. \A n \in m .. Len(s) : s[n] \in Nat
      BY <2>2
    <2>4. SubSeq(s, m, Len(s)) \in Seq(Nat)
      BY <2>2, <2>3, SubSeqProperties
    <2> QED BY <2>1, <2>4 DEF Newest
  <1>5. PICK k \in Seq(Nat) : k = Newest(x.keys \o Passed(x, i), MaxKeys)
    BY <1>3, <1>4
  <1>6. Derived(x, i) = [x EXCEPT !.chain = i + 1, !.keys = k]
    BY <1>1, <1>5 DEF Derived
  <1>7. i + 1 \in Nat
    OBVIOUS
  <1> QED BY <1>1, <1>5, <1>6, <1>7 DEF StateT

LEMMA NextRecord ==
    ASSUME NEW record \in OwnRecords
    PROVE  LET i == Iteration(Last(record))
               new == [record EXCEPT ![Len(record)] = Derived(@, i)] IN
           /\ i \in Nat /\ Last(record) = record[1]
           /\ record[1] \in StateT /\ record[1].chain <= i
           /\ new \in OwnRecords /\ new[1].id = record[1].id /\ new[1].chain = i + 1
  <1>0. record \in Seq(StateT) /\ Len(record) = 1
    BY DEF OwnRecords
  <1>1. record[1] \in StateT /\ Last(record) = record[1]
    BY <1>0 DEF Last
  <1>2. PICK i \in Nat : i = Iteration(record[1]) /\ record[1].chain <= i
    BY <1>1 DEF Iteration, StateT
  <1>3. PICK d \in StateT : d = Derived(record[1], i) /\ d.id = record[1].id /\ d.chain = i + 1
    BY <1>1, <1>2, KeptKeys
  <1>4. PICK new : new = [record EXCEPT ![1] = d]
    OBVIOUS
  <1>5. 1 \in 1 .. Len(record)
    BY <1>0
  <1>6. new \in Seq(StateT) /\ Len(new) = 1 /\ new[1] = d
    <2>1. d \in StateT /\ record \in Seq(StateT)
      BY <1>0
    <2>2. new \in Seq(StateT) /\ Len(new) = Len(record)
      BY <1>4, <1>5, <2>1, ExceptSeq
    <2>3. new[1] = d
      BY <1>4, <1>5, <2>1, ExceptSeq
    <2> QED BY <1>0, <2>2, <2>3
  <1>7. [record EXCEPT ![Len(record)] = Derived(@, i)] = new
    BY <1>0, <1>3, <1>4
  <1> QED BY <1>1, <1>2, <1>3, <1>6, <1>7 DEF OwnRecords

LEMMA FirstRecord ==
    ASSUME NEW id \in Nat
    PROVE  SetState(id) \in OwnRecords /\ SetState(id)[1].id = id
  <1>1. State(id, 0) \in StateT /\ State(id, 0).id = id
    BY DEF State, StateT
  <1> QED BY <1>1 DEF SetState, OwnRecords

-----------------------------------------------------------------------------
LEMMA NotEmpty == <<>> \notin OwnRecords /\ <<>> # Absent /\ <<>> # Torn
  <1>1. <<>> \in Seq([id : Nat, chain : Nat, keys : Seq(Nat)])
    BY EmptySeq
  <1>2. <<>> # Absent /\ <<>> # Torn
    BY <1>1, ValuesAssumption
  <1>3. Len(<<>>) # 1
    BY EmptySeq
  <1> QED BY <1>2, <1>3 DEF OwnRecords

LEMMA TwoFiles ==
    Record \in Files /\ Memory \in Files /\ Record # Memory /\ Files = {Record, Memory}
  BY FilesAssumption DEF Record, Memory

LEMMA LineTyped ==
    ASSUME TypedLines, NEW f \in Files, NEW l \in Seq(Writes(f)), lines' = [lines EXCEPT ![f] = l]
    PROVE  TypedLines'
  BY DEF TypedLines

LEMMA ReadTyped ==
    ASSUME TypedData, TypedContext, NEW f \in Files, Get(f), Value(f) # Absent
    PROVE  Value(f) \in Contents(f)
  BY DEF TypedData, TypedContext, Get, Value

LEMMA HeldTyped ==
    ASSUME Typed, NEW s \in Sends, Holds(s)
    PROVE  /\ RecordOf(s) \in Contents(Record) \cup {Absent}
           /\ ~NoState(RecordOf(s)) => RecordOf(s) \in OwnRecords
  <1>1. RecordOf(s) \in Contents(Record) \cup {Absent}
    <2>1. CASE transactional
      BY <2>1, TwoFiles, ReadTyped DEF Typed, Holds, RecordOf
    <2>2. CASE ~transactional
      BY <2>2 DEF Typed, TypedSends, Holds, RecordOf
    <2> QED BY <2>1, <2>2
  <1> QED BY <1>1, TwoFiles DEF Contents, NoState

LEMMA PutTyped ==
    ASSUME Typed, NEW s \in Sends, NEW f \in Files, NEW v \in Contents(f), Put(s, f, v)
    PROVE  TypedData' /\ TypedLines' /\ TypedStrays' /\ TypedContext'
  <1>1. CASE transactional
    <2>1. UNCHANGED fileVars
      BY <1>1 DEF Put
    <2>2. TypedData' /\ TypedLines' /\ TypedStrays'
      BY <2>1 DEF Typed, TypedData, TypedLines, TypedStrays, fileVars
    <2>3. ctx' = [g \in DOMAIN ctx \cup {f} |-> IF g = f THEN v ELSE ctx[g]]
      BY <1>1 DEF Put
    <2>4. TypedContext'
      BY <2>3 DEF Typed, TypedContext
    <2> QED BY <2>2, <2>4
  <1>2. CASE ~transactional
    <2>1. lines' = Queued(f, s, v) /\ UNCHANGED <<files, strays, damaged, ctx>>
      BY <1>2 DEF Put
    <2>2. TypedData' /\ TypedStrays' /\ TypedContext'
      BY <2>1 DEF Typed, TypedData, TypedStrays, TypedContext
    <2>3. Job(s, v) \in Writes(f)
      BY DEF Job, Writes
    <2>4. lines[f] \in Seq(Writes(f))
      BY DEF Typed, TypedLines
    <2>5. PICK l \in Seq(Writes(f)) : l = Append(lines[f], Job(s, v))
      BY <2>3, <2>4, AppendProperties
    <2>6. lines' = [lines EXCEPT ![f] = l]
      BY <2>1, <2>5 DEF Queued
    <2>7. TypedLines'
      BY <2>6, LineTyped DEF Typed
    <2> QED BY <2>2, <2>7
  <1> QED BY <1>1, <1>2

LEMMA OpenTyped ==
    ASSUME Typed, NEW f \in Files, OpenFile(f), ctx' = ctx
    PROVE  TypedData' /\ TypedLines' /\ TypedStrays' /\ TypedContext'
  <1>1. PICK l \in Seq(Writes(f)) : l = [lines[f] EXCEPT ![1].open = TRUE]
    BY OpenedLine DEF Typed, TypedLines, OpenFile
  <1>2. lines' = [lines EXCEPT ![f] = l]
    BY <1>1 DEF OpenFile
  <1>3. TypedLines'
    BY <1>2, LineTyped DEF Typed
  <1>4. TypedData' /\ TypedStrays' /\ TypedContext'
    BY DEF Typed, TypedData, TypedStrays, TypedContext, OpenFile
  <1> QED BY <1>3, <1>4

LEMMA HeadTyped ==
    ASSUME TypedLines, NEW f \in Files, lines[f] # <<>>
    PROVE  /\ Head(lines[f]) \in Writes(f) /\ Head(lines[f]) = lines[f][1]
           /\ Head(lines[f]).value \in Contents(f) /\ Head(lines[f]).task \in Sends
           /\ Tail(lines[f]) \in Seq(Writes(f))
           /\ Len(Tail(lines[f])) = Len(lines[f]) - 1 /\ Len(lines[f]) \in Nat \ {0}
           /\ \A n \in 1 .. Len(Tail(lines[f])) : Tail(lines[f])[n] = lines[f][n + 1]
  <1>1. lines[f] \in Seq(Writes(f))
    BY DEF TypedLines
  <1>2. Len(lines[f]) \in Nat \ {0}
    BY <1>1, EmptySeq
  <1>3. /\ Head(lines[f]) \in Writes(f)
        /\ Tail(lines[f]) \in Seq(Writes(f))
        /\ Len(Tail(lines[f])) = Len(lines[f]) - 1
        /\ \A n \in 1 .. Len(Tail(lines[f])) : Tail(lines[f])[n] = lines[f][n + 1]
    BY <1>1, HeadTailProperties
  <1>4. Head(lines[f]) = lines[f][1]
    BY <1>1, <1>2
  <1> QED BY <1>2, <1>3, <1>4 DEF Writes

LEMMA WriteTyped ==
    ASSUME Typed, NEW f \in Files, WriteFile(f) \/ FailFile(f), ctx' = ctx
    PROVE  TypedData' /\ TypedLines' /\ TypedStrays' /\ TypedContext'
  <1>0. lines[f] # <<>>
    BY DEF WriteFile, FailFile
  <1>1. PICK l \in Seq(Writes(f)) : l = Tail(lines[f])
    BY <1>0, HeadTyped DEF Typed
  <1>2. lines' = [lines EXCEPT ![f] = l]
    BY <1>1 DEF WriteFile, FailFile
  <1>3. TypedLines'
    BY <1>2, LineTyped DEF Typed
  <1>4. Head(lines[f]).value \in Contents(f)
    BY <1>0, HeadTyped DEF Typed
  <1>5. TypedData'
    BY <1>4 DEF Typed, TypedData, WriteFile, FailFile
  <1>6. TypedStrays' /\ TypedContext'
    BY DEF Typed, TypedStrays, TypedContext, WriteFile, FailFile
  <1> QED BY <1>3, <1>5, <1>6

LEMMA StrayTyped ==
    ASSUME Typed, NEW f \in Files, StrayWrites(f), ctx' = ctx
    PROVE  TypedData' /\ TypedLines' /\ TypedStrays' /\ TypedContext'
  <1>1. TypedLines'
    <2>1. CASE lines' = lines
      BY <2>1 DEF Typed, TypedLines
    <2>2. CASE lines[f] # <<>> /\ lines' = [lines EXCEPT ![f][1].mixed = TRUE]
      <3>1. PICK l \in Seq(Writes(f)) : l = [lines[f] EXCEPT ![1].mixed = TRUE]
        BY <2>2, MixedLine DEF Typed, TypedLines
      <3>2. lines' = [lines EXCEPT ![f] = l]
        BY <2>2, <3>1
      <3> QED BY <3>2, LineTyped DEF Typed
    <2> QED BY <2>1, <2>2 DEF StrayWrites
  <1>2. PICK x \in strays[f] :
          /\ strays' = [strays EXCEPT ![f] = @ \ {x}]
          /\ files' = [files EXCEPT ![f] = x] \/ files' = [files EXCEPT ![f] = Torn]
    BY DEF StrayWrites
  <1>3. x \in Contents(f)
    BY <1>2 DEF Typed, TypedStrays
  <1>4. TypedData' /\ TypedStrays'
    BY <1>2, <1>3 DEF Typed, TypedData, TypedStrays
  <1>5. TypedContext'
    BY DEF Typed, TypedContext
  <1> QED BY <1>1, <1>4, <1>5

LEMMA NothingTyped == ctx' = Nothing => TypedContext'
  BY DEF Nothing, TypedContext

LEMMA AbandonTyped ==
    ASSUME Typed, NEW s \in Sends, Abandon(s)
    PROVE  TypedData' /\ TypedLines' /\ TypedStrays'
  <1>1. ASSUME NEW f \in Files PROVE lines'[f] \in Seq(Writes(f))
    <2>1. lines[f] \in Seq(Writes(f))
      BY DEF Typed, TypedLines
    <2>2. Without(lines[f], s) \in Seq(Writes(f))
      BY <2>1, WithoutFacts
    <2> QED BY <2>2 DEF Abandon
  <1>2. lines' = [f \in Files |-> lines'[f]]
    BY DEF Abandon
  <1>3. TypedLines'
    BY <1>1, <1>2 DEF TypedLines
  <1>4. ASSUME NEW f \in Files PROVE strays'[f] \subseteq Contents(f)
    <2>1. CASE lines[f] # <<>>
      <3>1. Head(lines[f]).value \in Contents(f)
        BY <2>1, HeadTyped DEF Typed
      <3> QED BY <3>1 DEF Abandon, Typed, TypedStrays
    <2>2. CASE lines[f] = <<>>
      BY <2>2 DEF Abandon, Typed, TypedStrays
    <2> QED BY <2>1, <2>2
  <1>5. strays' = [f \in Files |-> strays'[f]]
    BY DEF Abandon
  <1>6. TypedData' /\ TypedStrays'
    BY <1>4, <1>5 DEF Abandon, Typed, TypedData, TypedStrays
  <1> QED BY <1>3, <1>6

LEMMA CrashTyped ==
    ASSUME Typed, CrashFiles
    PROVE  TypedData' /\ TypedLines' /\ TypedStrays'
  <1>1. \A f \in Files : <<>> \in Seq(Writes(f))
    BY EmptySeq
  <1>2. TypedLines'
    BY <1>1 DEF CrashFiles, TypedLines
  <1> QED BY <1>2 DEF CrashFiles, Typed, TypedData, TypedStrays

LEMMA TypedInit == Init => Typed
  <1> SUFFICES ASSUME Init PROVE Typed
    OBVIOUS
  <1>1. PICK after : after = <<Derived(State(1, 0), 0)>>
    OBVIOUS
  <1>2. after \in OwnRecords
    <2>1. State(1, 0) \in StateT /\ State(1, 0).chain <= 0
      BY DEF State, StateT
    <2>2. Derived(State(1, 0), 0) \in StateT
      BY <2>1, KeptKeys
    <2> QED BY <1>1, <2>2 DEF OwnRecords
  <1>3. files = [f \in Files |-> IF ids = 0 THEN Absent ELSE IF f = Record THEN after ELSE Devices]
    BY <1>1 DEF Init, InitFiles
  <1>4. TypedData
    BY <1>2, <1>3 DEF TypedData, Contents
  <1>5. lines = [f \in Files |-> <<>>] /\ strays = [f \in Files |-> {}] /\ ctx = Nothing
    BY DEF Init, InitFiles
  <1>6. \A f \in Files : <<>> \in Seq(Writes(f))
    BY EmptySeq
  <1>7. TypedLines /\ TypedStrays
    BY <1>5, <1>6 DEF TypedLines, TypedStrays
  <1>8. TypedContext
    BY <1>5 DEF TypedContext, Nothing
  <1>9. TypedSends
    BY DEF Init, TypedSends, Contents, Places
  <1> QED BY <1>4, <1>7, <1>8, <1>9 DEF Typed

LEMMA SameTyped ==
    ASSUME Typed, UNCHANGED <<files, lines, strays>>, ctx' = ctx \/ ctx' = Nothing
    PROVE  TypedData' /\ TypedLines' /\ TypedStrays' /\ TypedContext'
  <1>1. TypedContext'
    BY NothingTyped DEF Typed, TypedContext
  <1>2. TypedData' /\ TypedLines' /\ TypedStrays'
    BY DEF Typed, TypedData, TypedLines, TypedStrays
  <1> QED BY <1>1, <1>2

LEMMA SendsTyped ==
    ASSUME Typed, UNCHANGED <<transactional, memo, key, loaded, ids>>,
           pc' \in [Sends -> Places], left' \subseteq Sends, unsaved' \subseteq Sends
    PROVE  TypedSends'
  BY DEF Typed, TypedSends, Contents

LEMMA TypedStep == Typed /\ [Next]_vars => Typed'
  <1> SUFFICES ASSUME Typed, [Next]_vars PROVE Typed'
    OBVIOUS
  <1> USE DEF Goto
  <1>0. TypedSends
    BY DEF Typed
  <1>1. ASSUME NEW s \in Sends, Begin(s) PROVE Typed'
    <2>1. TypedSends'
      BY <1>0, <1>1 DEF Begin, TypedSends, Contents, Places, bounds, history
    <2> QED BY <1>1, <2>1, SameTyped DEF Begin, fileVars, Typed
  <1>2. ASSUME NEW s \in Sends, ReadMemory(s) PROVE Typed'
    <2>1. Value(Memory) # Absent => Value(Memory) \in SUBSET Devices
      <3>1. Value(Memory) # Absent => Value(Memory) \in Contents(Memory)
        BY <1>2, TwoFiles, ReadTyped DEF ReadMemory, Typed
      <3> QED BY <3>1, TwoFiles DEF Contents
    <2>2. TypedSends'
      BY <1>0, <1>2, <2>1 DEF ReadMemory, TypedSends, Contents, Places, bounds, history
    <2> QED BY <1>2, <2>2, SameTyped DEF ReadMemory, fileVars, Typed
  <1>20. ASSUME NEW s \in Sends, Load(s) PROVE Typed'
    <2>1. Value(Record) \in Contents(Record) \cup {Absent}
      BY <1>20, TwoFiles, ReadTyped DEF Load, Typed
    <2>2. TypedSends'
      BY <1>0, <1>20, <2>1 DEF Load, TypedSends, Contents, bounds, history
    <2> QED BY <1>20, <2>2, SameTyped DEF Load, fileVars, Typed
  <1>21. ASSUME NEW s \in Sends, StoreBlank(s) PROVE Typed'
    <2>1. TypedSends'
      BY <1>0, <1>21 DEF StoreBlank, Forgets, TypedSends, Contents, Places, bounds
    <2>2. <<>> \in Contents(Record)
      BY DEF Contents
    <2>3. Put(s, Record, <<>>) \/ UNCHANGED <<fileVars, ctx>>
      BY <1>21 DEF StoreBlank
    <2>4. CASE Put(s, Record, <<>>)
      BY <2>1, <2>2, <2>4, TwoFiles, PutTyped DEF Typed
    <2>5. CASE UNCHANGED <<fileVars, ctx>>
      BY <2>1, <2>5, SameTyped DEF fileVars, Typed
    <2> QED BY <2>3, <2>4, <2>5
  <1>3. ASSUME NEW s \in Sends, CreateKey(s) PROVE Typed'
    <2>1. TypedSends'
      BY <1>0, <1>3 DEF CreateKey, Forgets, TypedSends, Contents, Places
    <2>2. CASE NoState(RecordOf(s))
      <3>1. Put(s, Record, SetState(ids + 1))
        BY <1>3, <2>2 DEF CreateKey
      <3>2. SetState(ids + 1) \in Contents(Record)
        BY <1>0, FirstRecord DEF Contents, TypedSends
      <3> QED BY <2>1, <3>1, <3>2, TwoFiles, PutTyped DEF Typed
    <2>3. CASE ~NoState(RecordOf(s))
      <3>1. RecordOf(s) \in Contents(Record)
        BY <1>3, <2>3, HeldTyped DEF CreateKey, Contents
      <3>2. Put(s, Record, RecordOf(s)) \/ UNCHANGED <<fileVars, ctx>>
        BY <1>3, <2>3 DEF CreateKey
      <3>3. CASE Put(s, Record, RecordOf(s))
        BY <2>1, <3>1, <3>3, TwoFiles, PutTyped DEF Typed
      <3>4. CASE UNCHANGED <<fileVars, ctx>>
        BY <2>1, <3>4, SameTyped DEF fileVars, Typed
      <3> QED BY <3>2, <3>3, <3>4
    <2> QED BY <2>2, <2>3
  <1>4. ASSUME NEW s \in Sends, Encrypt(s) PROVE Typed'
    <2>1. RecordOf(s) \in OwnRecords
      BY <1>4, HeldTyped DEF Encrypt
    <2>2. PICK record \in OwnRecords : record = RecordOf(s)
      BY <2>1
    <2>3. PICK i \in Nat : i = Iteration(Last(record))
      BY NextRecord
    <2>4. PICK new \in OwnRecords : new = [record EXCEPT ![Len(record)] = Derived(@, i)]
      BY <2>3, NextRecord
    <2>5. /\ key' = [key EXCEPT ![s] = [id |-> Last(record).id, i |-> i]]
          /\ Put(s, Record, new)
      BY <1>4, <2>2, <2>3, <2>4 DEF Encrypt
    <2>6. Last(record).id \in Nat
      BY NextRecord DEF StateT
    <2>7. TypedSends'
      BY <1>0, <1>4, <2>5, <2>6 DEF Encrypt, Forgets, TypedSends, Contents, Places, Keys, bounds
    <2> QED BY <2>5, <2>7, TwoFiles, PutTyped DEF Typed, Contents
  <1>5. ASSUME NEW s \in Sends, Address(s) PROVE Typed'
    <2>1. TypedSends'
      BY <1>0, <1>5 DEF Address, TypedSends, Contents, Places
    <2> QED BY <1>5, <2>1, SameTyped DEF Address, fileVars, Typed
  <1>6. ASSUME NEW s \in Sends, Remember(s) PROVE Typed'
    <2>1. TypedSends'
      BY <1>0, <1>6 DEF Remember, TypedSends, Contents, Places, bounds, history
    <2>2. memo[s] \in Contents(Memory)
      BY <1>0, TwoFiles DEF Contents, TypedSends
    <2> QED BY <1>6, <2>1, <2>2, TwoFiles, PutTyped DEF Remember, Typed
  <1>7. ASSUME NEW s \in Sends, Send(s) \/ SendRaises(s) PROVE Typed'
    <2>1. left' \subseteq Sends /\ unsaved' \subseteq Sends
      BY <1>0, <1>7 DEF Send, SendRaises, Leave, TypedSends
    <2>2. pc' \in [Sends -> Places]
      BY <1>0, <1>7 DEF Send, SendRaises, TypedSends, Places
    <2>3. TypedSends'
      BY <1>7, <2>1, <2>2, SendsTyped DEF Send, SendRaises, bounds
    <2> QED BY <1>7, <2>3, SameTyped DEF Send, SendRaises, fileVars, Typed
  <1>8. ASSUME NEW s \in Sends, Commit(s) PROVE Typed'
    <2>1. TypedSends'
      BY <1>0, <1>8 DEF Commit, TypedSends, Contents, Places, bounds, history
    <2>2. ASSUME NEW f \in Files PROVE lines'[f] \in Seq(Writes(f))
      <3>1. lines[f] \in Seq(Writes(f))
        BY DEF Typed, TypedLines
      <3>2. f \in DOMAIN ctx => Job(s, ctx[f]) \in Writes(f)
        BY DEF Typed, TypedContext, Job, Writes
      <3>3. lines'[f] = IF f \in DOMAIN ctx THEN Append(lines[f], Job(s, ctx[f])) ELSE lines[f]
        BY <1>8 DEF Commit
      <3> QED BY <3>1, <3>2, <3>3, AppendProperties
    <2>3. lines' = [f \in Files |-> lines'[f]]
      BY <1>8 DEF Commit
    <2>4. TypedLines'
      BY <2>2, <2>3 DEF TypedLines
    <2>5. TypedData' /\ TypedStrays' /\ TypedContext'
      BY <1>8 DEF Commit, Typed, TypedData, TypedStrays, TypedContext
    <2> QED BY <2>1, <2>4, <2>5 DEF Typed
  <1>9. ASSUME NEW s \in Sends, Committed(s) PROVE Typed'
    <2>1. TypedSends'
      BY <1>0, <1>9 DEF Committed, TypedSends, Contents, Places, bounds, history
    <2> QED BY <1>9, <2>1, SameTyped DEF Committed, fileVars, Typed
  <1>10. ASSUME NEW s \in Sends, Raise(s) PROVE Typed'
    <2>1. TypedSends'
      BY <1>0, <1>10 DEF Raise, Lost, Forgets, TypedSends, Contents, Places
    <2> QED BY <1>10, <2>1, SameTyped DEF Raise, fileVars, Typed
  <1>11. ASSUME NEW s \in Sends, Cancel(s) PROVE Typed'
    <2>1. TypedSends'
      BY <1>0, <1>11 DEF Cancel, Lost, Forgets, TypedSends, Contents, Places
    <2> QED BY <1>11, <2>1, AbandonTyped, NothingTyped DEF Cancel, Typed
  <1>12. ASSUME Crash PROVE Typed'
    <2>1. TypedSends'
      BY <1>0, <1>12 DEF Crash, Lost, TypedSends, Contents, Places
    <2> QED BY <1>12, <2>1, CrashTyped, NothingTyped DEF Crash, Typed
  <1>13. ASSUME NEW f \in Files, Write(f) PROVE Typed'
    <2>1. TypedSends'
      BY <1>0, <1>13 DEF Write, TypedSends, Contents, hand, bounds, history
    <2> QED BY <1>13, <2>1, OpenTyped, WriteTyped DEF Write, Typed
  <1>14. ASSUME NEW f \in Files, FailWrite(f) PROVE Typed'
    <2>1. pc' \in [Sends -> Places]
      BY <1>0, <1>14 DEF FailWrite, TypedSends, Places
    <2>2. TypedSends'
      BY <1>0, <1>14, <2>1 DEF FailWrite, TypedSends, Contents, history
    <2> QED BY <1>14, <2>2, WriteTyped DEF FailWrite, Typed
  <1>15. ASSUME NEW f \in Files, Stray(f) PROVE Typed'
    <2>1. TypedSends'
      BY <1>0, <1>15 DEF Stray, TypedSends, Contents, hand, bounds, history
    <2> QED BY <1>15, <2>1, StrayTyped DEF Stray, Typed
  <1>16. ASSUME NEW m \in net, Deliver(m) PROVE Typed'
    <2>1. TypedSends'
      BY <1>0, <1>16 DEF Deliver, TypedSends, Contents, hand, history
    <2> QED BY <1>16, <2>1, SameTyped DEF Deliver, fileVars, Typed
  <1>18. CASE UNCHANGED vars
    <2>1. TypedSends'
      BY <1>0, <1>18 DEF vars, TypedSends, Contents, hand, bounds, history
    <2> QED BY <1>18, <2>1, SameTyped DEF vars, fileVars, Typed
  <1> QED BY <1>1, <1>2, <1>20, <1>21, <1>3, <1>4, <1>5, <1>6, <1>7, <1>8, <1>9, <1>10, <1>11,
             <1>12, <1>13, <1>14, <1>15, <1>16, <1>18 DEF Next

-----------------------------------------------------------------------------
(* The steps that the invariant does not notice leave the saved messages   *)
(* and whatever versions of the record there are.                          *)
SavedKept == Saved' \subseteq Saved /\ ids <= ids' /\ \A t \in Saved' : key'[t] = key[t]
RecordSame ==
    /\ files'[Record] = files[Record] /\ lines'[Record] = lines[Record]
    /\ strays'[Record] = strays[Record]
    /\ (Record \in DOMAIN ctx') <=> (Record \in DOMAIN ctx)
    /\ Record \in DOMAIN ctx => ctx'[Record] = ctx[Record]

LEMMA Writer ==
    ASSUME TypedLines, NEW f \in Files, NEW n \in 1 .. Len(lines[f])
    PROVE  /\ lines[f][n] \in Writes(f)
           /\ lines[f][n].task \in Sends /\ lines[f][n].value \in Contents(f)
  <1>1. lines[f] \in Seq(Writes(f))
    BY DEF TypedLines
  <1>2. lines[f][n] \in Writes(f)
    BY <1>1
  <1> QED BY <1>2 DEF Writes

LEMMA BeyondKept ==
    ASSUME Typed, Typed', SavedKept, NEW v, Beyond(v)
    PROVE  Beyond(v)'
  <1> SUFFICES ASSUME v \in OwnRecords
               PROVE  /\ v[1].id <= ids'
                      /\ \A t \in Saved' : v[1].id = key'[t].id => key'[t].i < v[1].chain
    BY DEF Beyond, OwnRecords, StateT
  <1>1. v \in Seq(StateT) /\ Len(v) = 1
    BY DEF OwnRecords
  <1>2. v[1] \in StateT
    BY <1>1
  <1>3. v[1].id \in Nat
    BY <1>2 DEF StateT
  <1>4. v[1].id <= ids'
    BY <1>3 DEF Beyond, SavedKept, Typed, TypedSends
  <1> QED BY <1>4 DEF Beyond, SavedKept

LEMMA UsedKept ==
    ASSUME Typed, Typed', SavedKept, Used, Apart,
           \A v \in Versions' : v \in Versions \/ Beyond(v)'
    PROVE  Used' /\ Apart'
  <1>1. ASSUME NEW v \in Versions' PROVE Beyond(v)'
    BY BeyondKept DEF Used
  <1>2. PICK W : W = Versions'
    OBVIOUS
  <1>3. \A v \in W : Beyond(v)'
    BY <1>1, <1>2
  <1>4. \A t \in Saved' : key'[t] \in Keys /\ key'[t].id <= ids'
    <2> SUFFICES ASSUME NEW t \in Saved' PROVE key[t] \in Keys /\ key[t].id <= ids'
      BY DEF SavedKept
    <2>1. key[t] \in Keys /\ key[t].id <= ids
      BY DEF SavedKept, Used
    <2>2. key[t].id \in Nat
      BY <2>1 DEF Keys
    <2> QED BY <2>1, <2>2 DEF SavedKept, Typed, TypedSends
  <1>5. Used'
    BY <1>2, <1>3, <1>4 DEF Used, Keys
  <1>6. Apart'
    BY DEF Apart, SavedKept
  <1> QED BY <1>5, <1>6

LEMMA SameVersions ==
    ASSUME Typed, Typed', RecordSame
    PROVE  Versions' = Versions /\ (TornMeanwhile => TornMeanwhile')
  <1>1. {lines'[Record][n].value : n \in 1 .. Len(lines'[Record])}
        = {lines[Record][n].value : n \in 1 .. Len(lines[Record])}
    BY DEF RecordSame
  <1>2. {ctx'[f] : f \in DOMAIN ctx' \cap {Record}} = {ctx[f] : f \in DOMAIN ctx \cap {Record}}
    BY DEF RecordSame
  <1>3. Versions' = Versions
    BY <1>1, <1>2 DEF RecordSame, Versions
  <1>4. TornMeanwhile => TornMeanwhile'
    BY DEF RecordSame, TornMeanwhile
  <1> QED BY <1>3, <1>4

(* While a send is not ended the others are. *)
LEMMA OthersEnded ==
    ASSUME Inv, NEW s \in Sends, ~Ended(s), NEW t \in Sends, t # s
    PROVE  Ended(t) /\ ~Holding(t)
  BY DEF Inv, Alone, Ended, Holding

(* A send goes on before its commit. *)
LEMMA Moves ==
    ASSUME Typed, Typed', Inv, NEW s \in Sends, NEW p \in Places, pc' = [pc EXCEPT ![s] = p],
           lines' = lines, RecordSame, UNCHANGED <<key, ids, unsaved>>,
           left' = left \/ (left' = left \cup {s} /\ p \in {"commit", "raise"}),
           \/ pc[s] \in {"idle", "memory"} /\ p \in {"memory", "create"}
           \/ /\ pc[s] \in {"address", "remember", "send"}
              /\ p \in {"remember", "send", "commit", "raise"},
           Ended(s) => Free
    PROVE  Inv'
  <1> USE DEF Inv
  <1>0. /\ pc \in [Sends -> Places] /\ left \subseteq Sends /\ pc'[s] = p
        /\ \A t \in Sends \ {s} : pc'[t] = pc[t]
    BY DEF Typed, TypedSends
  <1>1. \A t \in Sends : Holding(t)' <=> Holding(t)
    BY <1>0 DEF Holding
  <1>2. s \notin left
    BY DEF Late
  <1>3. Saved' = Saved /\ SavedKept
    <2>1. Saved' = Saved
      BY <1>0, <1>2 DEF Saved
    <2>2. ids \in Nat
      BY DEF Typed, TypedSends
    <2> QED BY <2>1, <2>2 DEF SavedKept
  <1>4. Alone'
    <2>1. \A t, u \in Sends : Ended(t)' \/ Ended(u)' \/ t = u
      <3>1. CASE Ended(s)
        BY <1>0, <3>1 DEF Free, Ended
      <3>2. CASE ~Ended(s)
        BY <1>0, <3>2 DEF Alone, Ended
      <3> QED BY <3>1, <3>2
    <2>2. (Record \in DOMAIN ctx') <=> \E t \in Sends : Holding(t)'
      BY <1>1 DEF Alone, RecordSame
    <2> QED BY <2>1, <2>2 DEF Alone
  <1>5. Late'
    <2>1. \A t \in left' : /\ pc'[t] \in {"commit", "committing", "raise", "sent", "failed"}
                           /\ pc'[t] = "failed" => t \in unsaved'
      BY <1>0, <1>2 DEF Late
    <2>2. ASSUME NEW f \in Files, NEW n \in 1 .. Len(lines[f])
          PROVE  pc'[lines[f][n].task] \in {"commit", "committing", "raise", "failed"}
      <3>1. pc[lines[f][n].task] \in {"commit", "committing", "raise", "failed"}
        BY DEF Late
      <3>2. lines[f][n].task \in Sends \ {s}
        BY <3>1, Writer DEF Typed
      <3> QED BY <1>0, <3>1, <3>2
    <2> QED BY <2>1, <2>2 DEF Late
  <1>6. OwnLine'
    <2> SUFFICES ASSUME NEW t \in Sends, Holding(t)
                 PROVE  /\ strays[Record] = {}
                        /\ \A n \in 1 .. Len(lines[Record]) :
                             /\ lines[Record][n].task = t
                             /\ lines[Record][n].value = ctx'[Record] /\ ~lines[Record][n].mixed
                        /\ pc'[t] = "committing" =>
                             lines[Record] # <<>> \/ files[Record] = ctx'[Record]
      BY <1>1 DEF OwnLine, RecordSame
    <2>1. ctx'[Record] = ctx[Record]
      BY DEF Alone, RecordSame
    <2>2. pc'[t] = "committing" => pc[t] = "committing"
      BY <1>0
    <2> QED BY <2>1, <2>2 DEF OwnLine
  <1>7. TornMeanwhile' /\ Used' /\ Apart'
    BY <1>3, SameVersions, UsedKept
  <1>8. InHand'
    <2> SUFFICES ASSUME NEW t \in Sends, Holding(t), pc'[t] # "encrypt"
                 PROVE  /\ key[t] \in Keys
                        /\ ctx'[Record][1].id = key[t].id /\ key[t].i < ctx'[Record][1].chain
                        /\ \A u \in Saved : key[u] # key[t]
      BY <1>1, <1>3 DEF InHand, Keys
    <2>1. ctx'[Record] = ctx[Record]
      BY DEF Alone, RecordSame
    <2>2. pc[t] # "encrypt"
      BY <1>0
    <2> QED BY <2>1, <2>2 DEF InHand
  <1> QED BY <1>4, <1>5, <1>6, <1>7, <1>8

LEMMA Creates ==
    ASSUME Typed, Typed', transactional, Inv, NEW s \in Sends, CreateKey(s)
    PROVE  Inv'
  <1>0. /\ pc \in [Sends -> Places] /\ pc[s] = "create" /\ pc'[s] = "encrypt"
        /\ \A t \in Sends \ {s} : pc'[t] = pc[t]
        /\ ids \in Nat
    BY DEF Typed, TypedSends, CreateKey, At, Goto
  <1>1. \A t \in Sends \ {s} : Ended(t) /\ ~Holding(t) /\ Ended(t)' /\ ~Holding(t)'
    <2>1. ~Ended(s)
      BY <1>0 DEF Ended
    <2>2. \A t \in Sends \ {s} : Ended(t) /\ ~Holding(t)
      BY <2>1, OthersEnded
    <2> QED BY <1>0, <2>2 DEF Ended, Holding
  <1>2. ~Holding(s) /\ Holding(s)'
    BY <1>0 DEF Holding
  <1>3. Record \notin DOMAIN ctx
    BY <1>1, <1>2 DEF Inv, Alone
  <1>4. lines[Record] = <<>> /\ files[Record] # Torn /\ strays[Record] = {}
    BY <1>3 DEF CreateKey, Holds, Get, CanGet, Value, Readable, Inv, TornMeanwhile
  <1>5. PICK v : /\ \/ v = files[Record] /\ ids' = ids
                    \/ v = SetState(ids + 1) /\ ids' = ids + 1
                 /\ ctx' = [g \in DOMAIN ctx \cup {Record} |-> IF g = Record THEN v ELSE ctx[g]]
                 /\ UNCHANGED fileVars
    BY <1>3 DEF CreateKey, RecordOf, Put, Value
  <1>6. UNCHANGED <<files, lines, strays, key, left, unsaved>>
    BY <1>5 DEF CreateKey, fileVars
  <1>7. Record \in DOMAIN ctx' /\ ctx'[Record] = v
    BY <1>5
  <1>8. Saved' = Saved /\ SavedKept
    <2>1. Saved' = Saved
      BY <1>0, <1>6 DEF Saved, Typed, TypedSends
    <2> QED BY <1>0, <1>5, <1>6, <2>1 DEF SavedKept
  <1>9. Beyond(v)'
    <2>1. CASE v = files[Record]
      <3>1. Beyond(v)
        BY <2>1 DEF Inv, Used, Versions
      <3> QED BY <1>8, <3>1, BeyondKept
    <2>2. CASE v = SetState(ids + 1) /\ ids' = ids + 1
      <3>1. v \in OwnRecords /\ v[1].id = ids + 1
        BY <1>0, <2>2, FirstRecord
      <3>2. \A t \in Saved : key[t].id # ids + 1
        BY <1>0 DEF Inv, Used, Keys
      <3>3. v[1].id <= ids' /\ \A t \in Saved' : v[1].id # key'[t].id
        BY <1>0, <1>6, <1>8, <2>2, <3>1, <3>2
      <3> QED BY <3>1, <3>3, NotEmpty DEF Beyond
    <2> QED BY <1>5, <2>1, <2>2
  <1>10. Used' /\ Apart'
    <2>1. \A w \in Versions' : w \in Versions \/ w = v
      BY <1>6, <1>7 DEF Versions
    <2>2. \A w \in Versions' : w \in Versions \/ Beyond(w)'
      BY <1>9, <2>1
    <2> QED BY <1>8, <2>2, UsedKept DEF Inv
  <1>11. Alone'
    <2>1. \A t, u \in Sends : Ended(t)' \/ Ended(u)' \/ t = u
      BY <1>1
    <2> QED BY <1>2, <1>7, <2>1 DEF Alone
  <1>12. Late'
    <2>1. \A t \in left' : /\ pc'[t] \in {"commit", "committing", "raise", "sent", "failed"}
                           /\ pc'[t] = "failed" => t \in unsaved'
      BY <1>0, <1>6 DEF Inv, Late, Typed, TypedSends
    <2>2. ASSUME NEW f \in Files, NEW n \in 1 .. Len(lines[f])
          PROVE  pc'[lines[f][n].task] \in {"commit", "committing", "raise", "failed"}
      <3>1. pc[lines[f][n].task] \in {"commit", "committing", "raise", "failed"}
        BY DEF Inv, Late
      <3>2. lines[f][n].task \in Sends \ {s}
        BY <1>0, <3>1, Writer DEF Typed
      <3> QED BY <1>0, <3>1, <3>2
    <2> QED BY <1>6, <2>1, <2>2 DEF Late
  <1>13. OwnLine'
    BY <1>0, <1>1, <1>4, <1>6, EmptySeq DEF OwnLine
  <1>14. TornMeanwhile'
    BY <1>6 DEF Inv, TornMeanwhile
  <1>15. InHand'
    BY <1>0, <1>1 DEF InHand
  <1> QED BY <1>10, <1>11, <1>12, <1>13, <1>14, <1>15 DEF Inv

LEMMA Encrypts ==
    ASSUME Typed, Typed', transactional, Inv, NEW s \in Sends, Encrypt(s)
    PROVE  Inv'
  <1>0. /\ pc \in [Sends -> Places] /\ pc[s] = "encrypt" /\ pc'[s] = "address"
        /\ \A t \in Sends \ {s} : pc'[t] = pc[t]
        /\ ids \in Nat
    BY DEF Typed, TypedSends, Encrypt, At, Goto
  <1>1. \A t \in Sends \ {s} : Ended(t) /\ ~Holding(t) /\ Ended(t)' /\ ~Holding(t)'
    <2>1. ~Ended(s)
      BY <1>0 DEF Ended
    <2>2. \A t \in Sends \ {s} : Ended(t) /\ ~Holding(t)
      BY <2>1, OthersEnded
    <2> QED BY <1>0, <2>2 DEF Ended, Holding
  <1>2. Holding(s) /\ Holding(s)'
    BY <1>0 DEF Holding
  <1>3. Record \in DOMAIN ctx /\ strays[Record] = {}
    BY <1>2 DEF Inv, Alone, OwnLine
  <1>4. PICK record \in OwnRecords : record = ctx[Record]
    <2>1. ctx[Record] \in Versions
      BY <1>3 DEF Versions
    <2> QED BY <1>3, <2>1 DEF Typed, TypedContext, Contents, Inv, Used, Beyond
  <1>5. PICK i \in Nat : i = Iteration(Last(record)) /\ record[1].chain <= i
    BY NextRecord
  <1>6. PICK new \in OwnRecords : /\ new = [record EXCEPT ![Len(record)] = Derived(@, i)]
                                  /\ new[1].id = record[1].id /\ new[1].chain = i + 1
    BY <1>5, NextRecord
  <1>7. /\ key' = [key EXCEPT ![s] = [id |-> record[1].id, i |-> i]]
        /\ Put(s, Record, new)
    BY <1>3, <1>4, <1>5, <1>6, NextRecord DEF Encrypt, RecordOf, Value
  <1>8. /\ UNCHANGED <<files, lines, strays, left, unsaved, ids>>
        /\ Record \in DOMAIN ctx' /\ ctx'[Record] = new
    BY <1>7 DEF Encrypt, Put, fileVars, bounds
  <1>9. lines[Record] = <<>>
    <2>1. lines[Record] \in Seq(Writes(Record))
      BY TwoFiles DEF Typed, TypedLines
    <2>2. ASSUME NEW n \in 1 .. Len(lines[Record]) PROVE FALSE
      <3>1. lines[Record][n].task = s
        BY <1>2 DEF Inv, OwnLine
      <3>2. pc[lines[Record][n].task] \in {"commit", "committing", "raise", "failed"}
        BY TwoFiles DEF Inv, Late
      <3> QED BY <1>0, <3>1, <3>2
    <2>3. lines[Record] # <<>> => 1 \in 1 .. Len(lines[Record])
      BY <2>1, EmptySeq
    <2> QED BY <2>2, <2>3
  <1>10. key \in [Sends -> Keys \cup {None}]
    BY DEF Typed, TypedSends
  <1>11. key'[s] = [id |-> record[1].id, i |-> i] /\ \A t \in Sends \ {s} : key'[t] = key[t]
    BY <1>7, <1>10
  <1>12. record[1].id \in Nat /\ record[1].chain \in Nat
    BY NextRecord DEF StateT
  <1>13. Saved' = Saved /\ SavedKept
    <2>1. Saved' = Saved
      BY <1>0, <1>8 DEF Saved, Typed, TypedSends
    <2>2. \A t \in Saved : t \in Sends \ {s}
      BY <1>0 DEF Saved, Typed, TypedSends
    <2> QED BY <1>0, <1>8, <1>11, <2>1, <2>2 DEF SavedKept
  <1>14. Beyond(record)
    BY <1>3, <1>4 DEF Inv, Used, Versions
  <1>15. \A t \in Saved : /\ key[t] \in Keys
                          /\ key[t].id = record[1].id => key[t].i < record[1].chain
    BY <1>14 DEF Beyond, Inv, Used
  <1>16. Beyond(new)
    <2>1. record[1].id <= ids
      BY <1>14 DEF Beyond
    <2>2. \A t \in Saved : key[t].id = record[1].id => key[t].i < i + 1
      BY <1>5, <1>12, <1>15 DEF Keys
    <2> QED BY <1>6, <2>1, <2>2, NotEmpty DEF Beyond
  <1>17. Used' /\ Apart'
    <2>1. \A w \in Versions' : w \in Versions \/ w = new
      BY <1>8 DEF Versions
    <2>2. Beyond(new)'
      BY <1>13, <1>16, BeyondKept
    <2>3. \A w \in Versions' : w \in Versions \/ Beyond(w)'
      BY <2>1, <2>2
    <2> QED BY <1>13, <2>3, UsedKept DEF Inv
  <1>18. Alone'
    <2>1. \A t, u \in Sends : Ended(t)' \/ Ended(u)' \/ t = u
      BY <1>1
    <2> QED BY <1>2, <1>8, <2>1 DEF Alone
  <1>19. Late'
    <2>1. \A t \in left' : /\ pc'[t] \in {"commit", "committing", "raise", "sent", "failed"}
                           /\ pc'[t] = "failed" => t \in unsaved'
      BY <1>0, <1>8 DEF Inv, Late, Typed, TypedSends
    <2>2. ASSUME NEW f \in Files, NEW n \in 1 .. Len(lines[f])
          PROVE  pc'[lines[f][n].task] \in {"commit", "committing", "raise", "failed"}
      <3>1. pc[lines[f][n].task] \in {"commit", "committing", "raise", "failed"}
        BY DEF Inv, Late
      <3>2. lines[f][n].task \in Sends \ {s}
        BY <1>0, <3>1, Writer DEF Typed
      <3> QED BY <1>0, <3>1, <3>2
    <2> QED BY <1>8, <2>1, <2>2 DEF Late
  <1>20. OwnLine'
    BY <1>0, <1>1, <1>3, <1>8, <1>9, EmptySeq DEF OwnLine
  <1>21. TornMeanwhile'
    BY <1>8 DEF Inv, TornMeanwhile
  <1>22. InHand'
    <2>1. ASSUME NEW t \in Saved PROVE key'[t] # key'[s]
      <3>1. key'[t] = key[t]
        BY <1>13 DEF SavedKept
      <3>2. key[t].id = record[1].id => key[t].i < i
        BY <1>5, <1>12, <1>15 DEF Keys
      <3>3. key'[s].id = record[1].id /\ key'[s].i = i
        BY <1>11
      <3> QED BY <1>5, <1>15, <3>1, <3>2, <3>3 DEF Keys
    <2>2. key'[s] \in Keys
      BY <1>11, <1>12 DEF Keys
    <2>3. new[1].id = key'[s].id /\ key'[s].i < new[1].chain
      BY <1>6, <1>11
    <2>4. \A t \in Sends : Holding(t)' => t = s
      BY <1>1
    <2> QED BY <1>8, <1>13, <2>1, <2>2, <2>3, <2>4 DEF InHand, Keys
  <1> QED BY <1>17, <1>18, <1>19, <1>20, <1>21, <1>22 DEF Inv

LEMMA Commits ==
    ASSUME Typed, Typed', transactional, Inv, NEW s \in Sends, Commit(s)
    PROVE  Inv'
  <1>0. /\ pc \in [Sends -> Places] /\ pc[s] = "commit" /\ pc'[s] = "committing"
        /\ \A t \in Sends \ {s} : pc'[t] = pc[t]
        /\ ids \in Nat
    BY DEF Typed, TypedSends, Commit, Goto
  <1>1. \A t \in Sends \ {s} : Ended(t) /\ ~Holding(t) /\ Ended(t)' /\ ~Holding(t)'
    <2>1. ~Ended(s)
      BY <1>0 DEF Ended
    <2>2. \A t \in Sends \ {s} : Ended(t) /\ ~Holding(t)
      BY <2>1, OthersEnded
    <2> QED BY <1>0, <2>2 DEF Ended, Holding
  <1>2. Holding(s) /\ Holding(s)'
    BY <1>0 DEF Holding
  <1>3. Record \in DOMAIN ctx /\ strays[Record] = {}
    BY <1>2 DEF Inv, Alone, OwnLine
  <1>4. UNCHANGED <<files, strays, key, ctx, ids, left, unsaved>>
    BY DEF Commit, bounds, history
  <1>5. ASSUME NEW f \in Files
        PROVE  /\ Len(lines[f]) \in Nat /\ Len(lines'[f]) \in Nat
               /\ Len(lines'[f]) \in {Len(lines[f]), Len(lines[f]) + 1}
               /\ \A n \in 1 .. Len(lines[f]) : lines'[f][n] = lines[f][n]
               /\ \A n \in 1 .. Len(lines'[f]) : n \notin 1 .. Len(lines[f]) =>
                    f \in DOMAIN ctx /\ lines'[f][n] = Job(s, ctx[f])
               /\ f \in DOMAIN ctx => lines'[f] # <<>>
    <2>1. lines[f] \in Seq(Writes(f))
      BY DEF Typed, TypedLines
    <2>2. f \in DOMAIN ctx => Job(s, ctx[f]) \in Writes(f)
      BY DEF Typed, TypedContext, Job, Writes
    <2>3. lines'[f] = IF f \in DOMAIN ctx THEN Append(lines[f], Job(s, ctx[f])) ELSE lines[f]
      BY DEF Commit
    <2>4. CASE f \in DOMAIN ctx
      <3>1. lines'[f] = Append(lines[f], Job(s, ctx[f]))
        BY <2>3, <2>4
      <3>2. /\ lines'[f] # <<>> /\ Len(lines'[f]) = Len(lines[f]) + 1
            /\ \A n \in 1 .. Len(lines[f]) : lines'[f][n] = lines[f][n]
            /\ lines'[f][Len(lines[f]) + 1] = Job(s, ctx[f])
        BY <2>1, <2>2, <2>4, <3>1, AppendProperties
      <3> QED BY <2>1, <2>4, <3>2
    <2>5. CASE f \notin DOMAIN ctx
      BY <2>1, <2>3, <2>5
    <2> QED BY <2>4, <2>5
  <1>6. Saved' = Saved /\ SavedKept
    <2>1. Saved' = Saved
      BY <1>0, <1>4 DEF Saved, Typed, TypedSends
    <2> QED BY <1>0, <1>4, <2>1 DEF SavedKept
  <1>7. Used' /\ Apart'
    <2>1. \A w \in Versions' : w \in Versions
      <3>1. ASSUME NEW n \in 1 .. Len(lines'[Record]) PROVE lines'[Record][n].value \in Versions
        <4>1. CASE n \in 1 .. Len(lines[Record])
          BY <1>5, <4>1, TwoFiles DEF Versions
        <4>2. CASE n \notin 1 .. Len(lines[Record])
          <5>1. lines'[Record][n].value = ctx[Record]
            BY <1>5, <4>2, TwoFiles DEF Job
          <5> QED BY <1>3, <5>1 DEF Versions
        <4> QED BY <4>1, <4>2
      <3> QED BY <1>4, <3>1 DEF Versions
    <2> QED BY <1>6, <2>1, UsedKept DEF Inv
  <1>8. Alone'
    <2>1. \A t, u \in Sends : Ended(t)' \/ Ended(u)' \/ t = u
      BY <1>1
    <2> QED BY <1>2, <1>3, <1>4, <2>1 DEF Alone
  <1>9. Late'
    <2>1. \A t \in left' : /\ pc'[t] \in {"commit", "committing", "raise", "sent", "failed"}
                           /\ pc'[t] = "failed" => t \in unsaved'
      BY <1>0, <1>4 DEF Inv, Late, Typed, TypedSends
    <2>2. ASSUME NEW f \in Files, NEW n \in 1 .. Len(lines'[f])
          PROVE  pc'[lines'[f][n].task] \in {"commit", "committing", "raise", "failed"}
      <3>1. CASE n \in 1 .. Len(lines[f])
        <4>1. lines'[f][n] = lines[f][n]
          BY <1>5, <3>1
        <4>2. pc[lines[f][n].task] \in {"commit", "committing", "raise", "failed"}
          BY <3>1 DEF Inv, Late
        <4>3. lines[f][n].task \in Sends
          BY <3>1, Writer DEF Typed
        <4> QED BY <1>0, <4>1, <4>2, <4>3
      <3>2. CASE n \notin 1 .. Len(lines[f])
        <4>1. lines'[f][n] = Job(s, ctx[f])
          BY <1>5, <3>2
        <4>2. lines'[f][n].task = s
          BY <4>1 DEF Job
        <4> QED BY <1>0, <4>2
      <3> QED BY <3>1, <3>2
    <2> QED BY <2>1, <2>2 DEF Late
  <1>10. OwnLine'
    <2>1. ASSUME NEW n \in 1 .. Len(lines'[Record])
          PROVE  /\ lines'[Record][n].task = s
                 /\ lines'[Record][n].value = ctx[Record] /\ ~lines'[Record][n].mixed
      <3>1. CASE n \in 1 .. Len(lines[Record])
        <4>1. lines'[Record][n] = lines[Record][n]
          BY <1>5, <3>1, TwoFiles
        <4> QED BY <1>2, <3>1, <4>1 DEF Inv, OwnLine
      <3>2. CASE n \notin 1 .. Len(lines[Record])
        BY <1>5, <3>2, TwoFiles DEF Job
      <3> QED BY <3>1, <3>2
    <2>2. lines'[Record] # <<>>
      BY <1>3, <1>5, TwoFiles
    <2>3. \A t \in Sends : Holding(t)' => t = s
      BY <1>1
    <2> QED BY <1>3, <1>4, <2>1, <2>2, <2>3 DEF OwnLine
  <1>11. TornMeanwhile'
    <2>1. ASSUME NEW n \in 1 .. Len(lines'[Record]), lines'[Record][n].open
          PROVE  n = 1 /\ files[Record] = Torn
      <3>1. CASE n \in 1 .. Len(lines[Record])
        <4>1. lines'[Record][n] = lines[Record][n]
          BY <1>5, <3>1, TwoFiles
        <4> QED BY <2>1, <3>1, <4>1 DEF Inv, TornMeanwhile
      <3>2. CASE n \notin 1 .. Len(lines[Record])
        BY <1>5, <2>1, <3>2, TwoFiles DEF Job
      <3> QED BY <3>1, <3>2
    <2> QED BY <1>3, <1>4, <2>1 DEF TornMeanwhile
  <1>12. InHand'
    <2>1. pc[s] # "encrypt"
      BY <1>0
    <2>2. \A t \in Sends : Holding(t)' => t = s
      BY <1>1
    <2> QED BY <1>2, <1>4, <1>6, <2>1, <2>2 DEF Inv, InHand, Keys
  <1> QED BY <1>7, <1>8, <1>9, <1>10, <1>11, <1>12 DEF Inv

LEMMA Commitments ==
    ASSUME Typed, Typed', transactional, Inv, NEW s \in Sends, Committed(s)
    PROVE  Inv'
  <1>0. /\ pc \in [Sends -> Places] /\ pc[s] = "committing" /\ pc'[s] = "sent"
        /\ \A t \in Sends \ {s} : pc'[t] = pc[t]
        /\ ids \in Nat
    BY DEF Typed, TypedSends, Committed, At, Goto
  <1>1. \A t \in Sends \ {s} : Ended(t) /\ ~Holding(t) /\ Ended(t)' /\ ~Holding(t)'
    <2>1. ~Ended(s)
      BY <1>0 DEF Ended
    <2>2. \A t \in Sends \ {s} : Ended(t) /\ ~Holding(t)
      BY <2>1, OthersEnded
    <2> QED BY <1>0, <2>2 DEF Ended, Holding
  <1>2. Holding(s) /\ ~Holding(s)' /\ Ended(s)'
    BY <1>0 DEF Holding, Ended
  <1>3. Record \in DOMAIN ctx /\ strays[Record] = {}
    BY <1>2 DEF Inv, Alone, OwnLine
  <1>4. UNCHANGED <<files, lines, strays, key, ids, left, unsaved>> /\ DOMAIN ctx' = {}
    BY DEF Committed, fileVars, bounds, history, Nothing
  <1>5. lines[Record] = <<>> /\ files[Record] = ctx[Record]
    <2>1. lines[Record] \in Seq(Writes(Record))
      BY TwoFiles DEF Typed, TypedLines
    <2>2. ASSUME NEW n \in 1 .. Len(lines[Record]) PROVE FALSE
      <3>1. lines[Record][n].task = s
        BY <1>2 DEF Inv, OwnLine
      <3>2. n \in DOMAIN lines[Record]
        BY <2>1
      <3> QED BY <3>1, <3>2, TwoFiles DEF Committed, At, Settled
    <2>3. lines[Record] # <<>> => 1 \in 1 .. Len(lines[Record])
      BY <2>1, EmptySeq
    <2>4. lines[Record] = <<>>
      BY <2>2, <2>3
    <2> QED BY <1>0, <1>2, <2>4 DEF Inv, OwnLine
  <1>5a. ctx[Record] \in Versions
    BY <1>3 DEF Versions
  <1>6. PICK v \in OwnRecords : v = ctx[Record]
    BY <1>3, <1>5a DEF Typed, TypedContext, Contents, Inv, Used, Beyond
  <1>7. Beyond(v) /\ v \in Versions
    BY <1>5a, <1>6 DEF Inv, Used
  <1>8. /\ key[s] \in Keys /\ v[1].id = key[s].id /\ key[s].i < v[1].chain
        /\ \A t \in Saved : key[t] # key[s]
    BY <1>0, <1>2, <1>6 DEF Inv, InHand
  <1>9. /\ \A t \in Saved' : t = s \/ t \in Saved
        /\ \A t \in Sends : key'[t] = key[t]
    BY <1>0, <1>4 DEF Saved, Typed, TypedSends
  <1>10. \A w \in Versions' : w = v
    <2>1. Len(lines[Record]) = 0
      BY <1>5, EmptySeq
    <2> QED BY <1>3, <1>4, <1>5, <1>6, <2>1 DEF Versions
  <1>11. v[1].id <= ids
    BY <1>7 DEF Beyond
  <1>12. Used'
    <2>1. \A t \in Saved' : v[1].id = key[t].id => key[t].i < v[1].chain
      BY <1>7, <1>8, <1>9 DEF Beyond
    <2>2. v[1].id <= ids' /\ \A t \in Saved' : v[1].id = key'[t].id => key'[t].i < v[1].chain
      BY <1>4, <1>11, <2>1
    <2>3. Beyond(v)'
      BY <1>6, <2>2, NotEmpty DEF Beyond
    <2>4. \A w \in Versions' : Beyond(w)'
      BY <1>10, <2>3
    <2>5. \A t \in Saved' : key'[t] \in Keys /\ key'[t].id <= ids'
      BY <1>4, <1>8, <1>9, <1>11 DEF Inv, Used
    <2>6. PICK W : W = Versions'
      OBVIOUS
    <2> QED BY <2>4, <2>5, <2>6 DEF Used, Keys
  <1>13. Apart'
    BY <1>4, <1>8, <1>9 DEF Inv, Apart
  <1>14. Alone'
    <2>1. \A t, u \in Sends : Ended(t)' \/ Ended(u)' \/ t = u
      BY <1>1, <1>2
    <2> QED BY <1>1, <1>2, <1>4, <2>1 DEF Alone
  <1>15. Late'
    <2>1. \A t \in left' : /\ pc'[t] \in {"commit", "committing", "raise", "sent", "failed"}
                           /\ pc'[t] = "failed" => t \in unsaved'
      BY <1>0, <1>4 DEF Inv, Late, Typed, TypedSends
    <2>2. ASSUME NEW f \in Files, NEW n \in 1 .. Len(lines[f])
          PROVE  pc'[lines[f][n].task] \in {"commit", "committing", "raise", "failed"}
      <3>1. pc[lines[f][n].task] \in {"commit", "committing", "raise", "failed"}
        BY DEF Inv, Late
      <3>2. lines[f][n].task \in Sends /\ n \in DOMAIN lines[f]
        BY Writer DEF Typed, TypedLines
      <3>3. lines[f][n].task # s
        BY <3>2 DEF Committed, At, Settled
      <3> QED BY <1>0, <3>1, <3>2, <3>3
    <2> QED BY <1>4, <2>1, <2>2 DEF Late
  <1>16. OwnLine' /\ InHand'
    <2>1. \A t \in Sends : ~Holding(t)'
      BY <1>1, <1>2
    <2> QED BY <2>1 DEF OwnLine, InHand
  <1>17. TornMeanwhile'
    BY <1>4 DEF Inv, TornMeanwhile
  <1> QED BY <1>12, <1>13, <1>14, <1>15, <1>16, <1>17 DEF Inv

-----------------------------------------------------------------------------
(* The sends that are not ended end without a commit: all of them, since   *)
(* there is at most one.  What they leave of their writes stays in order.  *)
LEMMA Ends ==
    ASSUME Typed, Typed', Inv, NEW G, G \subseteq Sends,
           \A t \in Sends : Ended(t) <=> t \notin G,
           pc' = [t \in Sends |-> IF t \in G THEN "failed" ELSE pc[t]],
           UNCHANGED <<files, key, ids, left>>,
           unsaved' = unsaved \cup (G \cap left), ctx' = Nothing,
           \A f \in Files : \A n \in 1 .. Len(lines'[f]) :
             \E m \in 1 .. Len(lines[f]) : m >= n /\ lines'[f][n] = lines[f][m],
           strays'[Record] \subseteq Versions,
           strays'[Record] # {} =>
             /\ lines'[Record] = <<>> /\ files[Record] = Torn
             /\ \E x \in strays'[Record] : strays'[Record] = {x}
    PROVE  Inv'
  <1> USE DEF Inv
  <1>0. /\ pc \in [Sends -> Places] /\ left \subseteq Sends /\ ids \in Nat
        /\ \A t \in Sends : pc'[t] = IF t \in G THEN "failed" ELSE pc[t]
    BY DEF Typed, TypedSends
  <1>1. \A t \in Sends : Ended(t)' /\ ~Holding(t)'
    BY <1>0 DEF Ended, Holding
  <1>2. Record \notin DOMAIN ctx'
    BY DEF Nothing
  <1>3. Alone' /\ OwnLine' /\ InHand'
    BY <1>1, <1>2 DEF Alone, OwnLine, InHand
  <1>4. Late'
    <2>1. \A t \in left' : /\ pc'[t] \in {"commit", "committing", "raise", "sent", "failed"}
                           /\ pc'[t] = "failed" => t \in unsaved'
      BY <1>0 DEF Late
    <2>2. ASSUME NEW f \in Files, NEW n \in 1 .. Len(lines'[f])
          PROVE  pc'[lines'[f][n].task] \in {"commit", "committing", "raise", "failed"}
      <3>1. PICK m \in 1 .. Len(lines[f]) : lines'[f][n] = lines[f][m]
        OBVIOUS
      <3>2. /\ pc[lines[f][m].task] \in {"commit", "committing", "raise", "failed"}
            /\ lines[f][m].task \in Sends
        BY Writer DEF Late, Typed
      <3> QED BY <1>0, <3>1, <3>2
    <2> QED BY <2>1, <2>2 DEF Late
  <1>5. TornMeanwhile'
    <2>1. ASSUME NEW n \in 1 .. Len(lines'[Record]), lines'[Record][n].open
          PROVE  n = 1 /\ files'[Record] = Torn
      <3>1. PICK m \in 1 .. Len(lines[Record]) : m >= n /\ lines'[Record][n] = lines[Record][m]
        BY TwoFiles
      <3>2. m = 1 /\ files[Record] = Torn
        BY <2>1, <3>1 DEF TornMeanwhile
      <3>3. n \in Nat /\ n >= 1
        OBVIOUS
      <3> QED BY <3>1, <3>2, <3>3
    <2> QED BY <2>1 DEF TornMeanwhile
  <1>6. SavedKept
    <2>1. Saved' \subseteq Saved
      BY <1>0 DEF Saved
    <2> QED BY <1>0, <2>1 DEF SavedKept
  <1>7. ASSUME NEW n \in 1 .. Len(lines'[Record]) PROVE lines'[Record][n].value \in Versions
    <2>1. PICK m \in 1 .. Len(lines[Record]) : lines'[Record][n] = lines[Record][m]
      BY TwoFiles
    <2> QED BY <2>1 DEF Versions
  <1>8. files'[Record] \in Versions
    BY DEF Versions
  <1>9. \A v \in Versions' : v \in Versions
    <2>1. PICK W : W = Versions
      OBVIOUS
    <2>2. /\ files'[Record] \in W /\ strays'[Record] \subseteq W
          /\ \A n \in 1 .. Len(lines'[Record]) : lines'[Record][n].value \in W
          /\ DOMAIN ctx' \cap {Record} = {}
      BY <1>2, <1>7, <1>8, <2>1
    <2>3. \A v \in Versions' : v \in W
      BY <2>2 DEF Versions
    <2> QED BY <2>1, <2>3
  <1>10. Used' /\ Apart'
    BY <1>6, <1>9, UsedKept
  <1> QED BY <1>3, <1>4, <1>5, <1>10

LEMMA Raises ==
    ASSUME Typed, Typed', Inv, NEW s \in Sends, Raise(s)
    PROVE  Inv'
  <1>1. ~Ended(s)
    BY DEF Raise, At, Ended
  <1>2. pc' = [pc EXCEPT ![s] = "failed"] /\ ctx' = Nothing
        /\ UNCHANGED <<files, lines, strays, key, ids, left>>
        /\ unsaved' = unsaved \cup ({s} \cap left)
    BY DEF Raise, Goto, Lost, fileVars
  <1>3. pc' = [t \in Sends |-> IF t \in {s} THEN "failed" ELSE pc[t]]
    BY <1>2 DEF Typed, TypedSends
  <1>4. \A t \in Sends : Ended(t) <=> t \notin {s}
    BY <1>1, OthersEnded
  <1>5. ASSUME NEW f \in Files, NEW n \in 1 .. Len(lines'[f])
        PROVE  \E m \in 1 .. Len(lines[f]) : m >= n /\ lines'[f][n] = lines[f][m]
    <2>1. n \in 1 .. Len(lines[f]) /\ n >= n /\ lines'[f][n] = lines[f][n]
      BY <1>2
    <2> QED BY <2>1
  <1>6. /\ strays'[Record] \subseteq Versions
        /\ strays'[Record] # {} =>
             /\ lines'[Record] = <<>> /\ files[Record] = Torn
             /\ \E x \in strays'[Record] : strays'[Record] = {x}
    BY <1>2 DEF Versions, Inv, TornMeanwhile
  <1>7. {s} \subseteq Sends
    OBVIOUS
  <1> HIDE DEF Raise, Inv
  <1> QED BY <1>2, <1>3, <1>4, <1>5, <1>6, <1>7, Ends

(* The thread of a write of the record that is running goes on alone.      *)
LEMMA Cancels ==
    ASSUME Typed, Typed', Inv, NEW s \in Sends, Cancel(s)
    PROVE  Inv'
  <1>1. ~Ended(s)
    BY DEF Cancel
  <1>2. pc' = [pc EXCEPT ![s] = "failed"] /\ ctx' = Nothing
        /\ UNCHANGED <<files, key, ids, left>> /\ Abandon(s)
        /\ unsaved' = unsaved \cup ({s} \cap left)
    BY DEF Cancel, Goto, Lost, Abandon
  <1>3. pc' = [t \in Sends |-> IF t \in {s} THEN "failed" ELSE pc[t]]
    BY <1>2 DEF Typed, TypedSends
  <1>4. \A t \in Sends : Ended(t) <=> t \notin {s}
    BY <1>1, OthersEnded
  <1>a. ASSUME NEW f \in Files
        PROVE  /\ lines[f] \in Seq(Writes(f)) /\ lines'[f] \in Seq(Writes(f))
               /\ Comes(lines[f], s, lines'[f], Len(lines[f]))
    <2>1. lines[f] \in Seq(Writes(f))
      BY DEF Typed, TypedLines
    <2>2. lines'[f] = Without(lines[f], s)
      BY <1>2 DEF Abandon
    <2> QED BY <2>1, <2>2, WithoutFacts
  <1>5. ASSUME NEW f \in Files, NEW n \in 1 .. Len(lines'[f])
        PROVE  \E m \in 1 .. Len(lines[f]) : m >= n /\ lines'[f][n] = lines[f][m]
    <2>1. PICK m \in n .. Len(lines[f]) : lines'[f][n] = lines[f][m]
      BY <1>a DEF Comes
    <2>2. m \in 1 .. Len(lines[f]) /\ m >= n
      BY <1>a
    <2> QED BY <2>1, <2>2
  <1>6. /\ strays'[Record] \subseteq Versions
        /\ strays'[Record] # {} =>
             /\ lines'[Record] = <<>> /\ files[Record] = Torn
             /\ \E x \in strays'[Record] : strays'[Record] = {x}
    <2>0. strays'[Record] =
            IF lines[Record] # <<>> /\ Head(lines[Record]).open /\ Head(lines[Record]).task = s
            THEN strays[Record] \cup {Head(lines[Record]).value} ELSE strays[Record]
      BY <1>2, TwoFiles DEF Abandon
    <2>1. lines[Record] # <<>> => /\ 1 \in 1 .. Len(lines[Record])
                                  /\ Head(lines[Record]) = lines[Record][1]
      BY TwoFiles, HeadTyped DEF Typed
    <2>2. CASE Holding(s)
      <3>1. strays[Record] = {} /\ \A n \in 1 .. Len(lines[Record]) : lines[Record][n].task = s
        BY <2>2 DEF Inv, OwnLine
      <3>2. lines'[Record] = <<>>
        <4>1. ASSUME NEW n \in 1 .. Len(lines'[Record]) PROVE FALSE
          <5>1. PICK m \in n .. Len(lines[Record]) :
                  lines'[Record][n] = lines[Record][m] /\ lines[Record][m].task # s
            BY <1>a, TwoFiles DEF Comes
          <5>2. m \in 1 .. Len(lines[Record])
            BY <1>a, TwoFiles
          <5> QED BY <3>1, <5>1, <5>2
        <4>2. lines'[Record] # <<>> => 1 \in 1 .. Len(lines'[Record])
          BY <1>a, TwoFiles, EmptySeq
        <4> QED BY <4>1, <4>2
      <3>3. CASE lines[Record] # <<>> /\ Head(lines[Record]).open
        <4>1. strays'[Record] = {lines[Record][1].value}
          BY <2>0, <2>1, <3>1, <3>3
        <4>2. lines[Record][1].value \in Versions
          BY <2>1, <3>3 DEF Versions
        <4>3. files[Record] = Torn
          BY <2>1, <3>3 DEF Inv, TornMeanwhile
        <4> QED BY <3>2, <4>1, <4>2, <4>3
      <3>4. CASE ~(lines[Record] # <<>> /\ Head(lines[Record]).open)
        BY <2>0, <3>1, <3>4
      <3> QED BY <3>3, <3>4
    <2>3. CASE ~Holding(s)
      <3>1. \A n \in 1 .. Len(lines[Record]) : lines[Record][n].task # s
        BY <1>1, <2>3, TwoFiles DEF Inv, Late, Holding, Ended
      <3>2. strays'[Record] = strays[Record]
        BY <2>0, <2>1, <3>1
      <3>3. lines[Record] = <<>> => lines'[Record] = <<>>
        <4>1. lines[Record] = <<>> => Len(lines'[Record]) = 0
          BY <1>a, TwoFiles, EmptySeq DEF Comes
        <4> QED BY <1>a, <4>1, TwoFiles, EmptySeq
      <3>4. strays[Record] \subseteq Versions
        BY DEF Versions
      <3> QED BY <3>2, <3>3, <3>4 DEF Inv, TornMeanwhile
    <2> QED BY <2>2, <2>3
  <1>7. {s} \subseteq Sends
    OBVIOUS
  <1> HIDE DEF Cancel, Inv, Versions
  <1> QED BY <1>2, <1>3, <1>4, <1>5, <1>6, <1>7, Ends

LEMMA Crashes ==
    ASSUME Typed, Typed', Inv, Crash
    PROVE  Inv'
  <1>1. PICK G : G = {t \in Sends : ~Ended(t)}
    OBVIOUS
  <1>2. /\ pc' = [t \in Sends |-> IF t \in G THEN "failed" ELSE pc[t]]
        /\ ctx' = Nothing /\ UNCHANGED <<files, key, ids, left>>
        /\ unsaved' = unsaved \cup (G \cap left)
        /\ lines' = [f \in Files |-> <<>>] /\ strays' = [f \in Files |-> {}]
    BY <1>1 DEF Crash, Lost, CrashFiles
  <1>3. G \subseteq Sends /\ \A t \in Sends : Ended(t) <=> t \notin G
    BY <1>1
  <1>4. \A f \in Files : \A n \in 1 .. Len(lines'[f]) :
             \E m \in 1 .. Len(lines[f]) : m >= n /\ lines'[f][n] = lines[f][m]
    BY <1>2
  <1>5. strays'[Record] = {}
    BY <1>2, TwoFiles
  <1> HIDE DEF Crash, Inv, Versions
  <1> QED BY <1>2, <1>3, <1>4, <1>5, Ends
-----------------------------------------------------------------------------
(* Threads. *)
LEMMA TornIsNoRecord == \A f \in Files : Torn \notin Contents(f)
  BY NotEmpty, ValuesAssumption DEF Contents, OwnRecords, StateT

(* What a thread does to a line: a write is opened, spoilt or gone.        *)
LEMMA LineSteps ==
    ASSUME Typed, NEW f \in Files,
           OpenFile(f) \/ WriteFile(f) \/ FailFile(f) \/ StrayWrites(f)
    PROVE  /\ \A g \in Files \ {f} :
                lines'[g] = lines[g] /\ files'[g] = files[g] /\ strays'[g] = strays[g]
           /\ \A n \in 1 .. Len(lines'[f]) : \E m \in 1 .. Len(lines[f]) :
                /\ lines'[f][n].task = lines[f][m].task
                /\ lines'[f][n].value = lines[f][m].value
  <1>1. lines[f] \in Seq(Writes(f)) /\ lines = [g \in Files |-> lines[g]]
        /\ files = [g \in Files |-> files[g]] /\ strays = [g \in Files |-> strays[g]]
    BY DEF Typed, TypedLines, TypedData, TypedStrays
  <1>2. CASE OpenFile(f)
    <2>1. PICK l : l = [lines[f] EXCEPT ![1].open = TRUE]
      OBVIOUS
    <2>2. SameWrites(l, lines[f])
      BY <1>1, <1>2, <2>1, OpenedLine DEF OpenFile
    <2>3. lines'[f] = l /\ \A g \in Files \ {f} : lines'[g] = lines[g]
      BY <1>1, <1>2, <2>1 DEF OpenFile
    <2>4. \A g \in Files \ {f} : files'[g] = files[g] /\ strays'[g] = strays[g]
      BY <1>1, <1>2 DEF OpenFile
    <2> QED BY <2>2, <2>3, <2>4 DEF SameWrites
  <1>3. CASE WriteFile(f) \/ FailFile(f)
    <2>1. /\ lines[f] # <<>> /\ lines'[f] = Tail(lines[f])
          /\ \A g \in Files \ {f} :
               lines'[g] = lines[g] /\ files'[g] = files[g] /\ strays'[g] = strays[g]
      BY <1>1, <1>3 DEF WriteFile, FailFile
    <2>2. /\ Len(lines'[f]) = Len(lines[f]) - 1 /\ Len(lines[f]) \in Nat \ {0}
          /\ \A n \in 1 .. Len(lines'[f]) : lines'[f][n] = lines[f][n + 1]
      BY <2>1, HeadTyped DEF Typed
    <2>3. ASSUME NEW n \in 1 .. Len(lines'[f])
          PROVE  \E m \in 1 .. Len(lines[f]) : lines'[f][n] = lines[f][m]
      <3>1. n + 1 \in 1 .. Len(lines[f])
        BY <2>2
      <3> QED BY <2>2, <3>1
    <2> QED BY <2>1, <2>3
  <1>4. CASE StrayWrites(f)
    <2>1. \A g \in Files \ {f} :
             lines'[g] = lines[g] /\ files'[g] = files[g] /\ strays'[g] = strays[g]
      BY <1>1, <1>4 DEF StrayWrites
    <2>2. CASE lines' = lines
      BY <2>1, <2>2
    <2>3. CASE lines[f] # <<>> /\ lines' = [lines EXCEPT ![f][1].mixed = TRUE]
      <3>1. PICK l : l = [lines[f] EXCEPT ![1].mixed = TRUE]
        OBVIOUS
      <3>2. SameWrites(l, lines[f])
        BY <1>1, <2>3, <3>1, MixedLine
      <3>3. lines'[f] = l
        BY <1>1, <2>3, <3>1
      <3> QED BY <2>1, <3>2, <3>3 DEF SameWrites
    <2> QED BY <1>4, <2>2, <2>3 DEF StrayWrites
  <1> QED BY <1>2, <1>3, <1>4

(* A write of the record that goes on, or raises, is that of the send that *)
(* holds it or of none; a stray thread is alone.                           *)
LEMMA RecordSteps ==
    ASSUME Typed, Inv, ctx' = ctx,
           \A s \in Sends : pc'[s] = "committing" => pc[s] = "committing",
           \/ OpenFile(Record) \/ WriteFile(Record) \/ StrayWrites(Record)
           \/ /\ FailFile(Record)
              /\ \A s \in Sends : pc'[s] = "committing" => Tail(lines[Record]) # <<>>
    PROVE  /\ TornMeanwhile'
           /\ \A v \in Versions' : v \in Versions \/ v = Torn
           /\ \A s \in Sends : Holding(s) =>
                /\ strays'[Record] = {}
                /\ \A n \in 1 .. Len(lines'[Record]) : ~lines'[Record][n].mixed
                /\ pc'[s] = "committing" =>
                     lines'[Record] # <<>> \/ files'[Record] = ctx[Record]
  <1> DEFINE f == Record
  <1>0. f \in Files
    BY TwoFiles
  <1>1. lines[f] \in Seq(Writes(f)) /\ lines = [g \in Files |-> lines[g]]
        /\ files = [g \in Files |-> files[g]] /\ strays = [g \in Files |-> strays[g]]
    BY <1>0 DEF Typed, TypedLines, TypedData, TypedStrays
  <1>2. \A n \in 1 .. Len(lines'[f]) : lines'[f][n].value \in Versions
    BY <1>0, LineSteps DEF Versions
  <1>3. files'[f] \in Versions \cup {Torn} /\ strays'[f] \subseteq strays[f]
    <2>1. lines[f] # <<>> => Head(lines[f]).value \in Versions
      <3>1. lines[f] # <<>> => Head(lines[f]) = lines[f][1] /\ 1 \in 1 .. Len(lines[f])
        BY <1>0, HeadTyped DEF Typed
      <3> QED BY <3>1 DEF Versions
    <2>2. files[f] \in Versions /\ strays[f] \subseteq Versions
      BY DEF Versions
    <2> HIDE DEF Versions
    <2> QED BY <1>0, <1>1, <2>1, <2>2 DEF OpenFile, WriteFile, FailFile, StrayWrites
  <1>4. \A v \in Versions' : v \in Versions \/ v = Torn
    <2>1. PICK W : W = Versions \cup {Torn}
      OBVIOUS
    <2>2. /\ files'[Record] \in W /\ strays'[Record] \subseteq W
          /\ \A n \in 1 .. Len(lines'[Record]) : lines'[Record][n].value \in W
          /\ {ctx'[g] : g \in DOMAIN ctx' \cap {Record}} \subseteq W
      <3>1. strays[Record] \subseteq Versions
        BY DEF Versions
      <3>2. {ctx'[g] : g \in DOMAIN ctx' \cap {Record}} \subseteq Versions
        BY DEF Versions
      <3> HIDE DEF Versions
      <3> QED BY <1>2, <1>3, <2>1, <3>1, <3>2
    <2>3. \A v \in Versions' : v \in W
      BY <2>2 DEF Versions
    <2> QED BY <2>1, <2>3
  <1>5. lines[f] # <<>> => 1 \in 1 .. Len(lines[f]) /\ Head(lines[f]) = lines[f][1]
    BY <1>0, HeadTyped DEF Typed
  <1>6. CASE OpenFile(f)
    <2>1. PICK l : l = [lines[f] EXCEPT ![1].open = TRUE]
      OBVIOUS
    <2>2. /\ SameWrites(l, lines[f])
          /\ \A n \in 1 .. Len(lines[f]) : l[n].mixed = lines[f][n].mixed
          /\ \A n \in 1 .. Len(lines[f]) : n # 1 => l[n].open = lines[f][n].open
          /\ l \in Seq(Writes(f))
      BY <1>1, <1>6, <2>1, OpenedLine DEF OpenFile
    <2>3. lines'[f] = l /\ files'[f] = Torn /\ strays'[f] = strays[f] /\ lines[f] # <<>>
      BY <1>0, <1>1, <1>6, <2>1 DEF OpenFile
    <2>4. strays[f] = {}
      BY <2>3 DEF Inv, TornMeanwhile
    <2>5. l # <<>>
      BY <1>1, <2>2, <2>3, EmptySeq DEF SameWrites
    <2>6. \A n \in 1 .. Len(l) : l[n].open => n = 1
      BY <2>2 DEF Inv, TornMeanwhile, SameWrites
    <2>7. TornMeanwhile'
      BY <2>3, <2>4, <2>6 DEF TornMeanwhile
    <2>8. \A s \in Sends : Holding(s) => \A n \in 1 .. Len(l) : ~l[n].mixed
      BY <2>2 DEF Inv, OwnLine, SameWrites
    <2> QED BY <1>4, <2>3, <2>4, <2>5, <2>7, <2>8
  <1>7. CASE \/ WriteFile(f)
             \/ /\ FailFile(f)
                /\ \A s \in Sends : pc'[s] = "committing" => Tail(lines[f]) # <<>>
    <2>1. /\ lines[f] # <<>> /\ lines'[f] = Tail(lines[f]) /\ strays'[f] = strays[f]
      BY <1>0, <1>1, <1>7 DEF WriteFile, FailFile
    <2>2. /\ Len(lines'[f]) = Len(lines[f]) - 1 /\ Len(lines[f]) \in Nat \ {0}
          /\ \A n \in 1 .. Len(lines'[f]) : lines'[f][n] = lines[f][n + 1]
          /\ lines'[f] \in Seq(Writes(f))
      BY <1>0, <2>1, HeadTyped DEF Typed
    <2>3. strays[f] = {}
      BY <2>1 DEF Inv, TornMeanwhile
    <2>4. \A n \in 1 .. Len(lines'[f]) : n + 1 \in 1 .. Len(lines[f]) /\ n + 1 # 1
      BY <2>2
    <2>5. \A n \in 1 .. Len(lines'[f]) : ~lines'[f][n].open
      BY <2>2, <2>4 DEF Inv, TornMeanwhile
    <2>6. TornMeanwhile'
      BY <2>1, <2>3, <2>5 DEF TornMeanwhile
    <2>7. ASSUME NEW s \in Sends, Holding(s)
          PROVE  /\ \A n \in 1 .. Len(lines'[f]) : ~lines'[f][n].mixed
                 /\ pc'[s] = "committing" => lines'[f] # <<>> \/ files'[f] = ctx[f]
      <3>1. \A n \in 1 .. Len(lines[f]) :
              ~lines[f][n].mixed /\ lines[f][n].value = ctx[f]
        BY <2>7 DEF Inv, OwnLine
      <3>2. WriteFile(f) => files'[f] = ctx[f]
        BY <1>0, <1>1, <1>5, <2>1, <2>3, <3>1 DEF WriteFile, Straying
      <3> QED BY <1>7, <2>1, <2>2, <2>4, <3>1, <3>2
    <2> QED BY <1>4, <2>1, <2>3, <2>6, <2>7
  <1>8. CASE StrayWrites(f)
    <2>1. PICK x \in strays[f] :
            /\ strays'[f] = strays[f] \ {x}
            /\ lines' = IF lines[f] # <<>> /\ Head(lines[f]).open
                        THEN [lines EXCEPT ![f][1].mixed = TRUE] ELSE lines
      BY <1>0, <1>1, <1>8 DEF StrayWrites
    <2>2. lines[f] = <<>> /\ strays[f] = {x} /\ lines' = lines
      BY <2>1 DEF Inv, TornMeanwhile
    <2>3. strays'[f] = {} /\ lines'[f] = <<>>
      BY <2>1, <2>2
    <2>4. Len(lines'[f]) = 0
      BY <2>3, EmptySeq
    <2>5. \A s \in Sends : ~Holding(s)
      BY <2>2 DEF Inv, OwnLine
    <2> QED BY <1>4, <2>3, <2>4, <2>5 DEF TornMeanwhile
  <1> QED BY <1>6, <1>7, <1>8
(* A thread goes on, or raises: the send that waits for it may hear it.    *)
LEMMA FileSteps ==
    ASSUME Typed, Typed', Inv, NEW f \in Files,
           \/ OpenFile(f) \/ WriteFile(f) \/ StrayWrites(f)
           \/ /\ FailFile(f)
              /\ \A s \in Sends : pc'[s] = "committing" /\ f = Record => Tail(lines[f]) # <<>>,
           UNCHANGED <<ctx, key, ids, left, unsaved>>,
           \/ pc' = pc
           \/ \E s \in Sends : \E p \in {"commit", "raise"} :
                pc[s] = "committing" /\ pc' = [pc EXCEPT ![s] = p]
    PROVE  Inv'
  <1>0. /\ left \subseteq Sends /\ ids \in Nat
        /\ \A t \in Sends :
             pc'[t] = pc[t] \/ (pc[t] = "committing" /\ pc'[t] \in {"commit", "raise"})
    BY DEF Typed, TypedSends
  <1>1. \A t \in Sends : /\ Ended(t)' <=> Ended(t)
                         /\ Holding(t)' <=> Holding(t)
                         /\ pc'[t] = "committing" => pc[t] = "committing"
                         /\ pc'[t] = "encrypt" <=> pc[t] = "encrypt"
    BY <1>0 DEF Ended, Holding
  <1>2. Saved' = Saved /\ SavedKept
    <2>1. Saved' = Saved
      BY <1>0 DEF Saved
    <2> QED BY <1>0, <2>1 DEF SavedKept
  <1>3. Alone'
    BY <1>1 DEF Inv, Alone
  <1>4. ASSUME NEW g \in Files, NEW n \in 1 .. Len(lines'[g])
        PROVE  \E m \in 1 .. Len(lines[g]) :
                 /\ lines'[g][n].task = lines[g][m].task
                 /\ lines'[g][n].value = lines[g][m].value
    <2>1. CASE g = f
      BY <2>1, LineSteps
    <2>2. CASE g # f
      BY <2>2, LineSteps
    <2> QED BY <2>1, <2>2
  <1>5. Late'
    <2>1. \A t \in left' : /\ pc'[t] \in {"commit", "committing", "raise", "sent", "failed"}
                           /\ pc'[t] = "failed" => t \in unsaved'
      BY <1>0 DEF Inv, Late
    <2>2. ASSUME NEW g \in Files, NEW n \in 1 .. Len(lines'[g])
          PROVE  pc'[lines'[g][n].task] \in {"commit", "committing", "raise", "failed"}
      <3>1. PICK m \in 1 .. Len(lines[g]) : lines'[g][n].task = lines[g][m].task
        BY <1>4
      <3>2. /\ pc[lines[g][m].task] \in {"commit", "committing", "raise", "failed"}
            /\ lines[g][m].task \in Sends
        BY Writer DEF Inv, Late, Typed
      <3> QED BY <1>0, <3>1, <3>2
    <2> QED BY <2>1, <2>2 DEF Late
  <1>6. InHand'
    BY <1>1, <1>2 DEF Inv, InHand, Keys
  <1>7. OwnLine' /\ TornMeanwhile' /\ \A v \in Versions' : v \in Versions \/ Beyond(v)'
    <2>1. \A t \in Sends : Holding(t) => \A n \in 1 .. Len(lines'[Record]) :
            lines'[Record][n].task = t /\ lines'[Record][n].value = ctx[Record]
      <3>1. ASSUME NEW t \in Sends, Holding(t), NEW n \in 1 .. Len(lines'[Record])
            PROVE  lines'[Record][n].task = t /\ lines'[Record][n].value = ctx[Record]
        <4>1. PICK m \in 1 .. Len(lines[Record]) :
                /\ lines'[Record][n].task = lines[Record][m].task
                /\ lines'[Record][n].value = lines[Record][m].value
          BY <1>4, TwoFiles
        <4> QED BY <3>1, <4>1 DEF Inv, OwnLine
      <3> QED BY <3>1
    <2>2. CASE f # Record
      <3>1. RecordSame
        BY <2>2, TwoFiles, LineSteps DEF RecordSame
      <3>2. Versions' = Versions /\ TornMeanwhile'
        BY <3>1, SameVersions DEF Inv
      <3>3. OwnLine'
        BY <1>1, <3>1 DEF Inv, OwnLine, RecordSame
      <3> QED BY <3>2, <3>3
    <2>3. CASE f = Record
      <3>1. /\ \A t \in Sends : pc'[t] = "committing" => pc[t] = "committing"
            /\ \/ OpenFile(Record) \/ WriteFile(Record) \/ StrayWrites(Record)
               \/ /\ FailFile(Record)
                  /\ \A t \in Sends : pc'[t] = "committing" => Tail(lines[Record]) # <<>>
        BY <1>1, <2>3
      <3>2. /\ TornMeanwhile'
            /\ \A v \in Versions' : v \in Versions \/ v = Torn
            /\ \A t \in Sends : Holding(t) =>
                 /\ strays'[Record] = {}
                 /\ \A n \in 1 .. Len(lines'[Record]) : ~lines'[Record][n].mixed
                 /\ pc'[t] = "committing" =>
                      lines'[Record] # <<>> \/ files'[Record] = ctx[Record]
        BY <2>3, <3>1, RecordSteps
      <3>3. Torn \notin OwnRecords
        BY TornIsNoRecord, TwoFiles DEF Contents
      <3>4. Beyond(Torn)'
        BY <3>3, NotEmpty DEF Beyond, OwnRecords, StateT
      <3>5. OwnLine'
        BY <1>1, <2>1, <3>2 DEF OwnLine
      <3> QED BY <3>2, <3>4, <3>5
    <2> QED BY <2>2, <2>3
  <1>8. Used' /\ Apart'
    BY <1>2, <1>7, UsedKept DEF Inv
  <1> QED BY <1>3, <1>5, <1>6, <1>7, <1>8 DEF Inv
-----------------------------------------------------------------------------
LEMMA InvInit == Init => Inv
  <1> SUFFICES ASSUME Init PROVE Inv
    OBVIOUS
  <1>1. PICK after : after = <<Derived(State(1, 0), 0)>>
    OBVIOUS
  <1>2. after[1].id = 1
    <2>1. State(1, 0) \in StateT /\ State(1, 0).chain <= 0 /\ State(1, 0).id = 1
      BY DEF State, StateT
    <2> QED BY <1>1, <2>1, KeptKeys
  <1>3. files[Record] = IF ids = 0 THEN Absent ELSE after
    BY <1>1, TwoFiles DEF Init, InitFiles
  <1>4. /\ lines[Record] = <<>> /\ strays[Record] = {} /\ DOMAIN ctx = {} /\ ids \in {0, 1}
        /\ left = {} /\ \A f \in Files : lines[f] = <<>>
        /\ \A s \in Sends : pc[s] = "idle"
    BY TwoFiles DEF Init, InitFiles, Nothing
  <1>5. \A s \in Sends : Ended(s) /\ ~Holding(s)
    BY <1>4 DEF Ended, Holding
  <1>6. Len(<<>>) = 0
    BY EmptySeq
  <1>7. Saved = {}
    BY <1>4 DEF Saved
  <1>8. Used
    <2>1. Absent \notin OwnRecords
      BY ValuesAssumption DEF OwnRecords, StateT
    <2>1a. files[Record] # <<>>
      BY <1>1, <1>3, NotEmpty
    <2>2. \A v \in Versions : v = files[Record]
      BY <1>4, <1>6 DEF Versions
    <2>3. files[Record] \in OwnRecords => files[Record][1].id <= ids
      BY <1>2, <1>3, <1>4, <2>1
    <2> QED BY <1>7, <2>1a, <2>2, <2>3 DEF Used, Beyond
  <1>9. Alone /\ Late /\ OwnLine /\ InHand /\ Apart
    BY <1>4, <1>5, <1>6, <1>7 DEF Alone, Late, OwnLine, InHand, Apart
  <1>10. TornMeanwhile
    BY <1>4, <1>6 DEF TornMeanwhile
  <1> QED BY <1>8, <1>9, <1>10 DEF Inv

LEMMA SameInv ==
    ASSUME Inv, UNCHANGED <<files, lines, strays, pc, key, ctx, ids, left, unsaved>>
    PROVE  Inv'
  <1>1. Versions' = Versions /\ Saved' = Saved
    BY DEF Versions, Saved
  <1>2. \A s \in Sends : (Ended(s)' <=> Ended(s)) /\ (Holding(s)' <=> Holding(s))
    BY DEF Ended, Holding
  <1>3. \A v : Beyond(v)' <=> Beyond(v)
    BY <1>1 DEF Beyond, OwnRecords, StateT
  <1>4. Alone' /\ Late' /\ OwnLine' /\ TornMeanwhile'
    BY <1>2 DEF Inv, Alone, Late, OwnLine, TornMeanwhile
  <1>5. Used' /\ InHand' /\ Apart'
    BY <1>1, <1>2, <1>3 DEF Inv, Used, InHand, Apart, Keys
  <1> QED BY <1>4, <1>5 DEF Inv

LEMMA FailWrites ==
    ASSUME Typed, Typed', transactional, Inv, NEW f \in Files, FailWrite(f)
    PROVE  Inv'
  <1>1. PICK s : s = Head(lines[f]).task
    OBVIOUS
  <1>2. /\ FailFile(f) /\ UNCHANGED <<ctx, key, ids, left, unsaved>>
        /\ IF Heard(f, s)
           THEN Goto(s, IF attempt[s] < Attempts THEN "commit" ELSE "raise")
           ELSE pc' = pc
    BY <1>1 DEF FailWrite, history
  <1>3. /\ lines[f] # <<>> /\ s \in Sends /\ s = lines[f][1].task
        /\ 1 \in 1 .. Len(lines[f]) /\ Len(Tail(lines[f])) = Len(lines[f]) - 1
        /\ Len(lines[f]) \in Nat
    BY <1>1, <1>2, HeadTyped DEF FailFile, Typed
  <1>4. pc[s] \in {"commit", "committing", "raise", "failed"}
    BY <1>3 DEF Inv, Late
  <1>5. Heard(f, s) => pc[s] = "committing"
    BY <1>4 DEF Heard, Ended
  <1>6. \/ pc' = pc
        \/ \E t \in Sends : \E p \in {"commit", "raise"} :
             pc[t] = "committing" /\ pc' = [pc EXCEPT ![t] = p]
    BY <1>2, <1>3, <1>5 DEF Goto
  <1>7. ASSUME f = Record, NEW t \in Sends, pc'[t] = "committing", Tail(lines[Record]) = <<>>
        PROVE  FALSE
    <2>1. pc \in [Sends -> Places]
      BY DEF Typed, TypedSends
    <2>2. pc[t] = "committing"
      BY <1>6, <1>7, <2>1
    <2>3. s = t
      BY <1>3, <1>7, <2>2 DEF Inv, OwnLine, Holding
    <2>4. Len(lines[f]) = 1
      <3>1. Len(Tail(lines[f])) = 0
        BY <1>7, EmptySeq
      <3> QED BY <1>3, <3>1
    <2>5. Heard(f, s)
      BY <2>2, <2>3, <2>4 DEF Heard, Ended
    <2>6. pc'[s] # "committing"
      BY <1>2, <1>3, <2>1, <2>5 DEF Goto
    <2> QED BY <1>7, <2>3, <2>6
  <1> QED BY <1>2, <1>6, <1>7, FileSteps

LEMMA InvStep ==
    ASSUME Typed, Typed', transactional, NoBlank, Inv, [Next]_vars
    PROVE  Inv'
  <1> USE DEF Goto, At
  <1>0. ids \in Nat /\ pc \in [Sends -> Places]
    BY DEF Typed, TypedSends
  <1>1. ASSUME NEW s \in Sends, Begin(s) PROVE Inv'
    <2>1. /\ pc[s] = "idle" /\ pc' = [pc EXCEPT ![s] = "memory"] /\ Free
          /\ UNCHANGED <<files, lines, strays, ctx, key, ids, left, unsaved>>
      BY <1>1 DEF Begin, fileVars, bounds, history
    <2> QED BY <2>1, Moves DEF RecordSame, Places
  <1>2. ASSUME NEW s \in Sends, ReadMemory(s) PROVE Inv'
    <2>1. /\ pc[s] = "memory" /\ pc' = [pc EXCEPT ![s] = "create"] /\ ~Ended(s)
          /\ UNCHANGED <<files, lines, strays, ctx, key, ids, left, unsaved>>
      BY <1>2 DEF ReadMemory, fileVars, bounds, history, Ended
    <2> QED BY <2>1, Moves DEF RecordSame, Places
  <1>20. ASSUME NEW s \in Sends, Load(s) \/ StoreBlank(s) PROVE Inv'
    BY <1>20 DEF Load, StoreBlank, NoBlank
  <1>3. ASSUME NEW s \in Sends, Address(s) PROVE Inv'
    <2>1. PICK p \in {"raise", "remember"} : pc' = [pc EXCEPT ![s] = p]
      BY <1>3 DEF Address
    <2>2. /\ pc[s] = "address" /\ ~Ended(s)
          /\ UNCHANGED <<files, lines, strays, ctx, key, ids, left, unsaved>>
      BY <1>3 DEF Address, fileVars, Ended
    <2> QED BY <2>1, <2>2, Moves DEF RecordSame, Places
  <1>4. ASSUME NEW s \in Sends, Remember(s) PROVE Inv'
    <2>1. /\ pc[s] = "remember" /\ pc' = [pc EXCEPT ![s] = "send"] /\ ~Ended(s)
          /\ UNCHANGED <<files, lines, strays, key, ids, left, unsaved>>
          /\ ctx' = [g \in DOMAIN ctx \cup {Memory} |-> IF g = Memory THEN memo[s] ELSE ctx[g]]
      BY <1>4 DEF Remember, Put, fileVars, bounds, history, Ended
    <2>2. RecordSame
      BY <2>1, TwoFiles DEF RecordSame
    <2> QED BY <2>1, <2>2, Moves DEF Places
  <1>5. ASSUME NEW s \in Sends, Send(s) PROVE Inv'
    <2>1. /\ pc[s] = "send" /\ pc' = [pc EXCEPT ![s] = "commit"] /\ ~Ended(s)
          /\ UNCHANGED <<files, lines, strays, ctx, key, ids, unsaved>>
          /\ left' = left \cup {s}
      BY <1>5 DEF Send, Leave, fileVars, bounds, Ended
    <2> QED BY <2>1, Moves DEF RecordSame, Places
  <1>6. ASSUME NEW s \in Sends, SendRaises(s) PROVE Inv'
    <2>1. /\ pc[s] = "send" /\ pc' = [pc EXCEPT ![s] = "raise"] /\ ~Ended(s)
          /\ UNCHANGED <<files, lines, strays, ctx, key, ids, unsaved>>
          /\ left' = left \/ left' = left \cup {s}
      BY <1>6 DEF SendRaises, Leave, fileVars, Ended
    <2> QED BY <2>1, Moves DEF RecordSame, Places
  <1>7. ASSUME NEW f \in Files, Write(f) \/ Stray(f) PROVE Inv'
    <2>1. /\ UNCHANGED <<pc, ctx, key, ids, left, unsaved>>
          /\ OpenFile(f) \/ WriteFile(f) \/ StrayWrites(f)
      BY <1>7 DEF Write, Stray, hand, bounds, history
    <2> QED BY <2>1, FileSteps
  <1>8. ASSUME NEW m \in net, Deliver(m) PROVE Inv'
    <2>1. UNCHANGED <<files, lines, strays, pc, key, ctx, ids, left, unsaved>>
      BY <1>8 DEF Deliver, fileVars, hand, history
    <2> QED BY <2>1, SameInv
  <1>10. CASE UNCHANGED vars
    <2>1. UNCHANGED <<files, lines, strays, pc, key, ctx, ids, left, unsaved>>
      BY <1>10 DEF vars, fileVars, hand, bounds, history
    <2> QED BY <2>1, SameInv
  <1> HIDE DEF Goto, At
  <1>11. ASSUME Next PROVE Inv'
    BY <1>1, <1>2, <1>20, <1>3, <1>4, <1>5, <1>6, <1>7, <1>8, <1>11, Creates, Encrypts,
       Commits, Commitments, Raises, Cancels, Crashes, FailWrites DEF Next
  <1> QED BY <1>10, <1>11

LEMMA InvTells ==
    ASSUME Typed, Inv, NEW s \in left, NEW t \in left, s # t, key[s] = key[t]
    PROVE  s \in unsaved \/ t \in unsaved
  <1> SUFFICES ASSUME s \notin unsaved, t \notin unsaved PROVE FALSE
    OBVIOUS
  <1>1. s \in Sends /\ t \in Sends
    BY DEF Typed, TypedSends
  <1>2. \A u \in {s, t} : u \in Saved \/ (Holding(u) /\ pc[u] # "encrypt" /\ ~Ended(u))
    BY <1>1 DEF Inv, Late, Saved, Holding, Ended
  <1>3. CASE s \in Saved /\ t \in Saved
    BY <1>3 DEF Inv, Apart
  <1>4. CASE s \notin Saved /\ t \notin Saved
    BY <1>1, <1>2, <1>4 DEF Inv, Alone
  <1>5. CASE s \in Saved /\ t \notin Saved
    BY <1>1, <1>2, <1>5 DEF Inv, InHand
  <1>6. CASE s \notin Saved /\ t \in Saved
    BY <1>1, <1>2, <1>6 DEF Inv, InHand
  <1> QED BY <1>3, <1>4, <1>5, <1>6

LEMMA SameStore == [Next]_vars => transactional' = transactional
  <1> SUFFICES ASSUME [Next]_vars PROVE transactional' = transactional
    OBVIOUS
  <1>1. CASE UNCHANGED vars
    BY <1>1 DEF vars
  <1>2. ASSUME NEW s \in Sends,
               \/ Begin(s) \/ ReadMemory(s) \/ Load(s) \/ StoreBlank(s) \/ CreateKey(s)
               \/ Encrypt(s) \/ Address(s) \/ Remember(s) \/ Send(s) \/ Commit(s)
               \/ Committed(s) \/ Raise(s) \/ SendRaises(s) \/ Cancel(s)
        PROVE  transactional' = transactional
    BY <1>2 DEF Begin, ReadMemory, Load, StoreBlank, CreateKey, Encrypt, Address, Remember,
                Send, Commit, Committed, Raise, SendRaises, Cancel
  <1>3. ASSUME NEW f \in Files, Write(f) \/ FailWrite(f) \/ Stray(f)
        PROVE  transactional' = transactional
    BY <1>3 DEF Write, FailWrite, Stray
  <1>4. CASE Crash \/ \E m \in net : Deliver(m)
    BY <1>4 DEF Deliver, Crash
  <1> QED BY <1>1, <1>2, <1>3, <1>4 DEF Next

LEMMA BlankStep ==
    ASSUME Typed, NoBlank, [Next]_vars
    PROVE  NoBlank'
  <1> SUFFICES ASSUME transactional, NEW t \in Sends PROVE pc'[t] # "blank"
    BY SameStore DEF NoBlank
  <1>0. pc \in [Sends -> Places] /\ pc[t] # "blank"
    BY DEF Typed, TypedSends, NoBlank
  <1>1. CASE UNCHANGED vars
    BY <1>0, <1>1 DEF vars, hand
  <1>2. ASSUME NEW s \in Sends,
               \/ Begin(s) \/ ReadMemory(s) \/ Load(s) \/ StoreBlank(s) \/ CreateKey(s)
               \/ Encrypt(s) \/ Address(s) \/ Remember(s) \/ Send(s) \/ Commit(s)
               \/ Committed(s) \/ Raise(s) \/ SendRaises(s) \/ Cancel(s)
        PROVE  pc'[t] # "blank"
    <2>1. pc' = pc \/ \E p \in Places \ {"blank"} : pc' = [pc EXCEPT ![s] = p]
      BY <1>2 DEF Begin, ReadMemory, Load, StoreBlank, CreateKey, Encrypt, Address, Remember,
                  Send, Commit, Committed, Raise, SendRaises, Cancel, Goto, Places
    <2> QED BY <1>0, <2>1
  <1>3. ASSUME NEW f \in Files, Write(f) \/ FailWrite(f) \/ Stray(f) PROVE pc'[t] # "blank"
    BY <1>0, <1>3 DEF Write, FailWrite, Stray, hand, Goto
  <1>4. CASE Crash \/ \E m \in net : Deliver(m)
    BY <1>0, <1>4 DEF Deliver, Crash, hand
  <1> QED BY <1>1, <1>2, <1>3, <1>4 DEF Next

All == Typed /\ NoBlank /\ (transactional => Inv)

LEMMA AllStep == All /\ [Next]_vars => All'
  <1> SUFFICES ASSUME All, [Next]_vars PROVE All'
    OBVIOUS
  <1>1. Typed /\ Typed'
    BY TypedStep DEF All
  <1>2. ASSUME transactional PROVE Inv'
    BY <1>1, <1>2, InvStep DEF All
  <1> QED BY <1>1, <1>2, SameStore, BlankStep DEF All

(* Of two messages of a group that have the same key of a chain the record *)
(* of one was never saved: it left in a transaction that was then rolled   *)
(* back (messages_send.py 987-992).                                        *)
THEOREM KeysNotReused == Spec => []NoKeyReuse
  <1>1. Init => All
    BY TypedInit, InvInit DEF All, NoBlank, Init
  <1>2. All /\ [Next]_vars => All'
    BY AllStep
  <1>3. All => NoKeyReuse
    BY InvTells DEF All, NoKeyReuse
  <1> QED BY <1>1, <1>2, <1>3, PTL DEF Spec
-----------------------------------------------------------------------------
(* Torn files. *)
Reason(f) == f \in damaged \/ strays[f] # {} \/ (lines[f] # <<>> /\ lines[f][1].open)

LEMMA TornInit == Init => TornForReason
  <1> SUFFICES ASSUME Init PROVE TornForReason
    OBVIOUS
  <1>1. PICK after : after = <<Derived(State(1, 0), 0)>>
    OBVIOUS
  <1>2. after \in Contents(Record)
    <2>1. State(1, 0) \in StateT /\ State(1, 0).chain <= 0
      BY DEF State, StateT
    <2>2. Derived(State(1, 0), 0) \in StateT
      BY <2>1, KeptKeys
    <2> QED BY <1>1, <2>2 DEF Contents, OwnRecords
  <1>3. Devices \in Contents(Memory)
    BY TwoFiles DEF Contents
  <1>4. \A f \in Files : files[f] \in {Absent, after, Devices}
    BY <1>1 DEF Init, InitFiles
  <1>5. Torn \notin {Absent, after, Devices}
    BY <1>2, <1>3, TornIsNoRecord, TwoFiles, ContentsAssumption
  <1> QED BY <1>4, <1>5 DEF TornForReason

(* A file that is left alone, or that is waited for, keeps its reason.     *)
LEMMA ReasonKept ==
    ASSUME TornForReason, NEW f \in Files, files'[f] = files[f],
           f \in damaged => f \in damaged', strays[f] \subseteq strays'[f],
           lines[f] # <<>> /\ lines[f][1].open => lines'[f] # <<>> /\ lines'[f][1].open
    PROVE  files'[f] = Torn => Reason(f)'
  BY DEF TornForReason, Reason

LEMMA AllReasons ==
    ASSUME \A f \in Files : files'[f] = Torn => Reason(f)'
    PROVE  TornForReason'
  BY DEF TornForReason, Reason

LEMMA SameTorn ==
    ASSUME TornForReason, UNCHANGED fileVars
    PROVE  TornForReason'
  BY DEF TornForReason, fileVars

LEMMA LongerTorn ==
    ASSUME Typed, TornForReason, UNCHANGED <<files, strays, damaged>>,
           \A f \in Files : \/ lines'[f] = lines[f]
                            \/ \E w \in Writes(f) : lines'[f] = Append(lines[f], w)
    PROVE  TornForReason'
  <1> SUFFICES ASSUME NEW f \in Files PROVE files'[f] = Torn => Reason(f)'
    BY AllReasons
  <1>1. lines[f] \in Seq(Writes(f))
    BY DEF Typed, TypedLines
  <1>2. lines[f] # <<>> => lines'[f] # <<>> /\ lines'[f][1] = lines[f][1]
    <2>1. CASE lines'[f] = lines[f]
      BY <2>1
    <2>2. ASSUME NEW w \in Writes(f), lines'[f] = Append(lines[f], w), lines[f] # <<>>
          PROVE  lines'[f] # <<>> /\ lines'[f][1] = lines[f][1]
      <3>1. 1 \in 1 .. Len(lines[f])
        BY <1>1, <2>2, EmptySeq
      <3> QED BY <1>1, <2>2, <3>1, AppendProperties
    <2> QED BY <2>1, <2>2
  <1> QED BY <1>2, ReasonKept

LEMMA PutTorn ==
    ASSUME Typed, TornForReason, NEW s \in Sends, NEW f \in Files, NEW v \in Contents(f),
           Put(s, f, v)
    PROVE  TornForReason'
  <1>1. CASE UNCHANGED fileVars
    BY <1>1, SameTorn
  <1>2. CASE lines' = Queued(f, s, v) /\ UNCHANGED <<files, strays, damaged>>
    <2>1. Job(s, v) \in Writes(f)
      BY DEF Job, Writes
    <2>2. lines' = [lines EXCEPT ![f] = Append(lines[f], Job(s, v))]
      BY <1>2 DEF Queued
    <2>3. \A g \in Files : \/ lines'[g] = lines[g]
                           \/ \E w \in Writes(g) : lines'[g] = Append(lines[g], w)
      BY <2>1, <2>2 DEF Typed, TypedLines
    <2> QED BY <1>2, <2>3, LongerTorn
  <1> QED BY <1>1, <1>2 DEF Put

LEMMA ThreadTorn ==
    ASSUME Typed, TornForReason, NEW f \in Files,
           OpenFile(f) \/ WriteFile(f) \/ FailFile(f) \/ StrayWrites(f)
    PROVE  TornForReason'
  <1> SUFFICES ASSUME NEW g \in Files PROVE files'[g] = Torn => Reason(g)'
    BY AllReasons
  <1>1. lines[f] \in Seq(Writes(f)) /\ lines = [h \in Files |-> lines[h]]
        /\ files = [h \in Files |-> files[h]] /\ strays = [h \in Files |-> strays[h]]
        /\ strays[f] \subseteq Contents(f)
    BY DEF Typed, TypedLines, TypedData, TypedStrays
  <1>2. CASE g # f
    <2>1. lines'[g] = lines[g] /\ files'[g] = files[g] /\ strays'[g] = strays[g]
      BY <1>2, LineSteps
    <2>2. g \in damaged => g \in damaged'
      BY <1>2 DEF OpenFile, WriteFile, FailFile, StrayWrites
    <2> QED BY <2>1, <2>2, ReasonKept
  <1>3. CASE g = f /\ OpenFile(f)
    <2>1. PICK l : l = [lines[f] EXCEPT ![1].open = TRUE]
      OBVIOUS
    <2>2. lines'[f] = l /\ lines[f] # <<>>
      BY <1>1, <1>3, <2>1 DEF OpenFile
    <2>3. l[1].open /\ l \in Seq(Writes(f)) /\ SameWrites(l, lines[f])
      BY <1>1, <2>1, <2>2, OpenedLine, ZenonT(60)
    <2>4. l # <<>>
      BY <1>1, <2>2, <2>3, EmptySeq DEF SameWrites
    <2> QED BY <1>3, <2>2, <2>3, <2>4 DEF Reason
  <1>4. CASE g = f /\ WriteFile(f)
    <2>1. Head(lines[f]).value # Torn
      BY <1>4, HeadTyped, TornIsNoRecord DEF WriteFile, Typed
    <2> QED BY <1>1, <1>4, <2>1 DEF WriteFile, Reason
  <1>5. CASE g = f /\ FailFile(f)
    BY <1>5 DEF FailFile, Reason
  <1>6. CASE g = f /\ StrayWrites(f)
    <2>1. PICK x \in strays[f] :
            \/ files' = [files EXCEPT ![f] = x]
            \/ damaged' = damaged \cup {f}
      BY <1>6 DEF StrayWrites
    <2>2. x # Torn
      BY <1>1, TornIsNoRecord
    <2> QED BY <1>1, <1>6, <2>1, <2>2 DEF Reason
  <1> QED BY <1>2, <1>3, <1>4, <1>5, <1>6

(* A cancelled task leaves a running thread, or a line that starts as      *)
(* before.                                                                 *)
LEMMA AbandonTorn ==
    ASSUME Typed, TornForReason, NEW s \in Sends, Abandon(s)
    PROVE  TornForReason'
  <1> SUFFICES ASSUME NEW f \in Files PROVE files'[f] = Torn => Reason(f)'
    BY AllReasons
  <1>1. /\ lines'[f] = Without(lines[f], s)
        /\ strays'[f] = IF lines[f] # <<>> /\ Head(lines[f]).open /\ Head(lines[f]).task = s
                        THEN strays[f] \cup {Head(lines[f]).value} ELSE strays[f]
        /\ UNCHANGED <<files, damaged>>
    BY DEF Abandon
  <1>2. lines[f] \in Seq(Writes(f))
    BY DEF Typed, TypedLines
  <1>3. CASE lines[f] # <<>> /\ lines[f][1].open
    <2>1. Head(lines[f]) = lines[f][1] /\ Len(lines[f]) >= 1
      BY <1>3, HeadTyped DEF Typed
    <2>2. CASE lines[f][1].task = s
      BY <1>1, <1>3, <2>1, <2>2 DEF Reason
    <2>3. CASE lines[f][1].task # s
      <3>1. lines'[f] # <<>> /\ lines'[f][1] = lines[f][1]
        BY <1>1, <1>2, <2>1, <2>3, WithoutFacts DEF Comes
      <3> QED BY <1>3, <3>1 DEF Reason
    <2> QED BY <2>2, <2>3
  <1>4. CASE ~(lines[f] # <<>> /\ lines[f][1].open)
    <2>1. strays[f] \subseteq strays'[f]
      BY <1>1
    <2> QED BY <1>1, <1>4, <2>1, ReasonKept
  <1> QED BY <1>3, <1>4

LEMMA TornStep ==
    ASSUME Typed, TornForReason, [Next]_vars
    PROVE  TornForReason'
  <1>1. ASSUME NEW s \in Sends, CreateKey(s) PROVE TornForReason'
    <2>1. ids \in Nat
      BY DEF Typed, TypedSends
    <2>2. SetState(ids + 1) \in Contents(Record)
      BY <2>1, FirstRecord DEF Contents
    <2>3. ~NoState(RecordOf(s)) => RecordOf(s) \in Contents(Record)
      BY <1>1, HeldTyped DEF CreateKey, Contents
    <2>4. \/ UNCHANGED fileVars
          \/ \E v \in Contents(Record) : Put(s, Record, v)
      BY <1>1, <2>2, <2>3 DEF CreateKey
    <2> QED BY <2>4, TwoFiles, SameTorn, PutTorn
  <1>2. ASSUME NEW s \in Sends, Encrypt(s) PROVE TornForReason'
    <2>1. PICK record : record = RecordOf(s)
      OBVIOUS
    <2>2. record \in OwnRecords
      BY <1>2, <2>1, HeldTyped DEF Encrypt
    <2>3. PICK new : new = [record EXCEPT ![Len(record)] = Derived(@, Iteration(Last(record)))]
      OBVIOUS
    <2>4. new \in Contents(Record)
      BY <2>2, <2>3, NextRecord DEF Contents
    <2>5. Put(s, Record, new)
      BY <1>2, <2>1, <2>3 DEF Encrypt
    <2> QED BY <2>4, <2>5, TwoFiles, PutTorn
  <1>3. ASSUME NEW s \in Sends, Remember(s) PROVE TornForReason'
    <2>1. memo[s] \in Contents(Memory)
      BY TwoFiles DEF Typed, TypedSends, Contents
    <2>2. Put(s, Memory, memo[s])
      BY <1>3 DEF Remember
    <2> QED BY <2>1, <2>2, TwoFiles, PutTorn
  <1>4. ASSUME NEW s \in Sends, Commit(s) PROVE TornForReason'
    <2>1. \A f \in Files : f \in DOMAIN ctx => Job(s, ctx[f]) \in Writes(f)
      BY DEF Typed, TypedContext, Job, Writes
    <2>2. \A f \in Files : lines'[f] = IF f \in DOMAIN ctx
                                       THEN Append(lines[f], Job(s, ctx[f])) ELSE lines[f]
      BY <1>4 DEF Commit
    <2>3. UNCHANGED <<files, strays, damaged>>
      BY <1>4 DEF Commit
    <2> QED BY <2>1, <2>2, <2>3, LongerTorn
  <1>5. ASSUME NEW f \in Files, Write(f) \/ FailWrite(f) \/ Stray(f) PROVE TornForReason'
    BY <1>5, ThreadTorn DEF Write, FailWrite, Stray
  <1>6. ASSUME NEW s \in Sends, Cancel(s) PROVE TornForReason'
    BY <1>6, AbandonTorn DEF Cancel
  <1>7. CASE Crash
    BY <1>7 DEF Crash, CrashFiles, TornForReason
  <1>8. ASSUME NEW s \in Sends,
               \/ Begin(s) \/ ReadMemory(s) \/ Load(s) \/ Address(s) \/ Send(s)
               \/ Committed(s) \/ Raise(s) \/ SendRaises(s)
        PROVE  TornForReason'
    BY <1>8, SameTorn DEF Begin, ReadMemory, Load, Address, Send, Committed, Raise, SendRaises
  <1>9. CASE UNCHANGED vars \/ \E m \in net : Deliver(m)
    BY <1>9, SameTorn DEF Deliver, vars
  <1>10. ASSUME NEW s \in Sends, StoreBlank(s) PROVE TornForReason'
    <2>1. <<>> \in Contents(Record)
      BY DEF Contents
    <2>2. Put(s, Record, <<>>) \/ UNCHANGED fileVars
      BY <1>10 DEF StoreBlank
    <2> QED BY <2>1, <2>2, TwoFiles, SameTorn, PutTorn
  <1> QED BY <1>1, <1>2, <1>3, <1>4, <1>5, <1>6, <1>7, <1>8, <1>9, <1>10 DEF Next

(* Who has the lock of a file of the group, and finds it torn, reads what  *)
(* a crash, a failed write or the thread of a cancelled send has spoilt    *)
(* (use_multi_file_auth_state.py 63-76), whatever the sends do.            *)
THEOREM FilesAreRead == Spec => []ReadersFindData
  <1>1. Init => Typed /\ TornForReason
    BY TypedInit, TornInit
  <1>2. Typed /\ TornForReason /\ [Next]_vars => (Typed /\ TornForReason)'
    BY TypedStep, TornStep
  <1>3. TornForReason => ReadersFindData
    BY DEF TornForReason, ReadersFindData, Readable, Straying
  <1> QED BY <1>1, <1>2, <1>3, PTL DEF Spec
-----------------------------------------------------------------------------
(* Who has the key of the group.                                           *)
Distributions == [id : Nat, chain : Nat]
TypedDevices ==
    /\ due \in [Sends -> SUBSET Devices]
    /\ skdm \in [Sends -> Distributions \cup {None}]
    /\ attempt \in [Sends -> Nat]
    /\ keyed \in [Devices -> Seq(Distributions)]
    /\ \A m \in net : m.to \in Devices /\ m.skdm \in Distributions \cup {None}

(* The ids of the record, wherever it may be read from: there is one.      *)
Ids == {v[1].id : v \in Versions \cap OwnRecords}
OneId == \A i, j \in Ids : i = j

(* A device knows a key: it was given it or has failed to be, or it is in  *)
(* the stanza of a send that has left.                                     *)
Told(s, d, id) == d \in due[s] /\ skdm[s].id = id
Known(d, id) ==
    \/ <<d, id>> \in spared
    \/ \E n \in DOMAIN keyed[d] : keyed[d][n].id = id
    \/ \E s \in Sends : s \in left /\ Told(s, d, id)
KnownSoon(s, d, id) == Known(d, id) \/ (pc[s] = "send" /\ Told(s, d, id))

(* Whose writes are in a line: those of a commit.                          *)
Committing == {"commit", "committing", "raise"}
Waiting ==
    /\ \A s \in left : pc[s] \in Committing \cup {"sent", "failed"}
    /\ \A f \in Files : \A n \in 1 .. Len(lines[f]) :
         attempt[lines[f][n].task] > 0 /\ pc[lines[f][n].task] \in Committing
    /\ Memory \in DOMAIN ctx => \E s \in Sends : pc[s] \in Committing \cup {"send"}

(* The record comes first, then what is remembered of it.                  *)
NoRecord ==
    files[Record] = Absent =>
        strays[Record] = {} /\ \A n \in 1 .. Len(lines[Record]) : ~lines[Record][n].open
Recalling(s) == pc[s] \in {"create", "encrypt", "address"}
Remembering ==
    \/ files[Memory] # Absent \/ lines[Memory] # <<>> \/ strays[Memory] # {}
    \/ \E s \in Sends : Recalling(s) /\ memo[s] # {}
RecordFirst == Remembering => files[Record] # Absent \/ lines[Record] # <<>>

(* A send distributes the key of the record that it found or made.         *)
Distributes(s) == pc[s] \in {"encrypt", "address", "remember", "send"}
SameKey ==
    \A s \in Sends : Distributes(s) =>
        skdm[s] \in Distributions /\ \A id \in Ids : skdm[s].id = id

(* Whoever is, or may yet be, remembered knows the key.  All of this is    *)
(* so with transactions only.                                              *)
KnownFiles(id) ==
    /\ files[Memory] \in SUBSET Devices => \A d \in files[Memory] : Known(d, id)
    /\ \A x \in strays[Memory] : \A d \in x : Known(d, id)
    /\ \A n \in 1 .. Len(lines[Memory]) : \A d \in lines[Memory][n].value :
         KnownSoon(lines[Memory][n].task, d, id)
KnownHands(id) ==
    \A s \in Sends :
        /\ Recalling(s) => \A d \in memo[s] : Known(d, id)
        /\ pc[s] = "remember" => \A d \in memo[s] : Known(d, id) \/ Told(s, d, id)
KnownContext(id) ==
    Memory \in DOMAIN ctx => \A d \in ctx[Memory] : \E s \in Sends : KnownSoon(s, d, id)

Sharing ==
    /\ transactional
    /\ Waiting /\ NoRecord /\ RecordFirst /\ OneId /\ SameKey
    /\ \A id \in Ids : KnownFiles(id) /\ KnownHands(id) /\ KnownContext(id)

LEMMA DevicesInit == Init => TypedDevices
  <1> SUFFICES ASSUME Init PROVE TypedDevices
    OBVIOUS
  <1>1. [id |-> 1, chain |-> 0] \in Distributions
    BY DEF Distributions
  <1>2. PICK k \in Distributions : k = [id |-> 1, chain |-> 0]
    BY <1>1
  <1>3. <<>> \in Seq(Distributions) /\ <<k>> \in Seq(Distributions)
    OBVIOUS
  <1>4. keyed \in [Devices -> Seq(Distributions)]
    BY <1>2, <1>3 DEF Init
  <1>5. due \in [Sends -> SUBSET Devices] /\ attempt \in [Sends -> Nat] /\ net = {}
    BY DEF Init
  <1>6. skdm \in [Sends -> Distributions \cup {None}]
    BY DEF Init
  <1> QED BY <1>4, <1>5, <1>6 DEF TypedDevices

LEMMA DevicesStep == Typed /\ TypedDevices /\ [Next]_vars => TypedDevices'
  <1> SUFFICES ASSUME Typed, TypedDevices, [Next]_vars PROVE TypedDevices'
    OBVIOUS
  <1>1. ASSUME NEW s \in Sends,
               \/ Begin(s) \/ ReadMemory(s) \/ Load(s) \/ StoreBlank(s) \/ Encrypt(s)
               \/ Remember(s) \/ Committed(s) \/ Raise(s) \/ Cancel(s)
        PROVE  TypedDevices'
    BY <1>1 DEF Begin, ReadMemory, Load, StoreBlank, Encrypt, Remember, Committed, Raise,
                Cancel, TypedDevices, hand, peers
  <1>2. ASSUME NEW s \in Sends, CreateKey(s) PROVE TypedDevices'
    <2>1. \E k \in Distributions : skdm' = [skdm EXCEPT ![s] = k]
      <3>1. CASE NoState(RecordOf(s))
        <4>1. [id |-> ids + 1, chain |-> 0] \in Distributions
          BY DEF Typed, TypedSends, Distributions
        <4> QED BY <1>2, <3>1, <4>1 DEF CreateKey
      <3>2. CASE ~NoState(RecordOf(s))
        <4>1. RecordOf(s) \in OwnRecords
          BY <1>2, <3>2, HeldTyped DEF CreateKey
        <4>2. Last(RecordOf(s)) \in StateT
          BY <4>1, NextRecord
        <4>3. [id |-> Last(RecordOf(s)).id, chain |-> Last(RecordOf(s)).chain] \in Distributions
          BY <4>2 DEF StateT, Distributions
        <4> QED BY <1>2, <3>2, <4>3 DEF CreateKey
      <3> QED BY <3>1, <3>2
    <2>2. UNCHANGED <<due, attempt, keyed, net>>
      BY <1>2 DEF CreateKey, peers
    <2> QED BY <2>1, <2>2 DEF TypedDevices
  <1>3. ASSUME NEW s \in Sends, Address(s) PROVE TypedDevices'
    BY <1>3, ZenonT(60) DEF Address, TypedDevices, peers
  <1>4. ASSUME NEW s \in Sends, Commit(s) PROVE TypedDevices'
    <2>1. attempt' = [attempt EXCEPT ![s] = @ + 1] /\ UNCHANGED <<due, skdm, keyed, net>>
      BY <1>4 DEF Commit, peers
    <2> QED BY <2>1 DEF TypedDevices
  <1>5. ASSUME NEW s \in Sends, Send(s) \/ SendRaises(s) PROVE TypedDevices'
    <2>1. /\ UNCHANGED <<due, skdm, attempt, keyed>>
          /\ net' = net \/ net' = net \cup {Stanza(s, d) : d \in Devices}
      BY <1>5 DEF Send, SendRaises, Leave
    <2>2. \A d \in Devices : /\ Stanza(s, d).to \in Devices
                             /\ Stanza(s, d).skdm \in Distributions \cup {None}
      BY DEF Stanza, TypedDevices
    <2> QED BY <2>1, <2>2 DEF TypedDevices
  <1>6. ASSUME NEW f \in Files, Write(f) \/ FailWrite(f) \/ Stray(f) PROVE TypedDevices'
    BY <1>6 DEF Write, FailWrite, Stray, hand, peers, TypedDevices
  <1>7. ASSUME NEW m \in net, Deliver(m) PROVE TypedDevices'
    <2>1. UNCHANGED <<due, skdm, attempt>> /\ net' \subseteq net
      BY <1>7 DEF Deliver, hand
    <2>2. keyed' \in [Devices -> Seq(Distributions)]
      <3>1. CASE m.skdm = None
        BY <1>7, <3>1 DEF Deliver, TypedDevices
      <3>2. CASE m.skdm # None
        <4>1. m.skdm \in Distributions /\ m.to \in Devices
          BY <1>7, <3>2 DEF TypedDevices
        <4>2. keyed[m.to] \in Seq(Distributions)
          BY <4>1 DEF TypedDevices
        <4>3. Append(keyed[m.to], m.skdm) \in Seq(Distributions)
          BY <4>1, <4>2
        <4>4. keyed' = [keyed EXCEPT ![m.to] = Append(@, m.skdm)]
          BY <1>7, <3>2 DEF Deliver
        <4> QED BY <4>3, <4>4 DEF TypedDevices
      <3> QED BY <3>1, <3>2
    <2> QED BY <2>1, <2>2 DEF TypedDevices
  <1>8. CASE Crash \/ UNCHANGED vars
    BY <1>8 DEF Crash, vars, hand, peers, TypedDevices
  <1> QED BY <1>1, <1>2, <1>3, <1>4, <1>5, <1>6, <1>7, <1>8 DEF Next

(* The steps, as far as they leave commits uncut.  Who knows the key still *)
(* does; the ids of the record are those it had.                           *)
LEMMA KnownKept ==
    ASSUME spared \subseteq spared', keyed' = keyed,
           \A t \in left : \A d, id : Told(t, d, id) => Known(d, id)'
    PROVE  \A d, id : Known(d, id) => Known(d, id)'
  <1> SUFFICES ASSUME NEW d, NEW id, Known(d, id) PROVE Known(d, id)'
    OBVIOUS
  <1>1. CASE \E t \in Sends : t \in left /\ Told(t, d, id)
    BY <1>1
  <1>2. CASE <<d, id>> \in spared
    BY <1>2 DEF Known
  <1>3. CASE \E n \in DOMAIN keyed[d] : keyed[d][n].id = id
    BY <1>3 DEF Known
  <1> QED BY <1>1, <1>2, <1>3 DEF Known

LEMMA IdsKept ==
    ASSUME \A v \in Versions' \cap OwnRecords :
             \E w \in Versions \cap OwnRecords : w[1].id = v[1].id
    PROVE  Ids' \subseteq Ids /\ (OneId => OneId')
  <1>1. \A r : r \in OwnRecords' <=> r \in OwnRecords
    BY DEF OwnRecords, StateT
  <1>2. PICK V, W : V = Versions' /\ W = Versions
    OBVIOUS
  <1>3. Ids' = {v[1].id : v \in V \cap OwnRecords} /\ Ids = {v[1].id : v \in W \cap OwnRecords}
    BY <1>1, <1>2 DEF Ids
  <1>4. Ids' \subseteq Ids
    BY <1>2, <1>3
  <1> QED BY <1>4 DEF OneId

LEMMA SameVersionIds ==
    ASSUME Versions' \subseteq Versions \cup {Torn}
    PROVE  Ids' \subseteq Ids /\ (OneId => OneId')
  <1>1. Torn \notin OwnRecords
    BY TwoFiles, TornIsNoRecord DEF Contents
  <1>2. PICK V : V = Versions'
    OBVIOUS
  <1>3. V \cap OwnRecords \subseteq Versions \cap OwnRecords
    BY <1>1, <1>2
  <1> QED BY <1>2, <1>3, IdsKept

(* A send that waits for no line goes on: what it knows and distributes    *)
(* then must be the key of the record, and the files stay as they are.     *)
GoesOn(s) ==
    /\ UNCHANGED <<files, lines, strays, transactional>>
    /\ \A f \in Files : \A n \in 1 .. Len(lines[f]) : lines[f][n].task # s
    /\ \A t \in Sends \ {s} :
         /\ pc'[t] = pc[t] /\ memo'[t] = memo[t]
         /\ skdm'[t] = skdm[t] /\ due'[t] = due[t] /\ attempt'[t] = attempt[t]
    /\ left' = left \/ left' = left \cup {s}
    /\ s \in left' => pc'[s] \in Committing \cup {"sent", "failed"}
Remembers(s) ==
    Recalling(s)' /\ memo'[s] # {} => files[Memory] # Absent \/ (Recalling(s) /\ memo[s] # {})
DistributesOne(s) ==
    Distributes(s)' =>
        skdm'[s] \in Distributions /\ \A id \in Ids : skdm'[s].id = id
ContextGoes ==
    /\ Memory \in DOMAIN ctx' =>
         \E t \in Sends : pc'[t] \in Committing \cup {"send"}
    /\ Ids' \subseteq Ids
KnownGoes(s, id) ==
    /\ \A d : Known(d, id) => Known(d, id)'
    /\ Recalling(s)' => \A d \in memo'[s] : Known(d, id)'
    /\ pc'[s] = "remember" => \A d \in memo'[s] : Known(d, id)' \/ Told(s, d, id)'

LEMMA Goes ==
    ASSUME Typed, Sharing, NEW s \in Sends, GoesOn(s), Remembers(s), DistributesOne(s),
           ContextGoes, \A id \in Ids : KnownGoes(s, id) /\ KnownContext(id)'
    PROVE  Sharing'
  <1>1. Ids' \subseteq Ids /\ OneId'
    BY DEF ContextGoes, Sharing, OneId
  <1>2. NoRecord'
    BY DEF NoRecord, Sharing, GoesOn
  <1>3. RecordFirst'
    <2> SUFFICES ASSUME Remembering' PROVE Remembering
      BY DEF Sharing, RecordFirst, GoesOn
    <2>1. CASE files[Memory] # Absent \/ lines[Memory] # <<>> \/ strays[Memory] # {}
      BY <2>1 DEF Remembering
    <2>2. CASE \E t \in Sends : Recalling(t)' /\ memo'[t] # {}
      <3>1. PICK t \in Sends : Recalling(t)' /\ memo'[t] # {}
        BY <2>2
      <3>2. CASE t = s
        BY <3>1, <3>2 DEF Remembers, Remembering
      <3>3. CASE t # s
        BY <3>1, <3>3 DEF GoesOn, Remembering, Recalling
      <3> QED BY <3>2, <3>3
    <2> QED BY <2>1, <2>2 DEF Remembering, GoesOn
  <1>4. SameKey'
    <2> SUFFICES ASSUME NEW t \in Sends, Distributes(t)'
                 PROVE  skdm'[t] \in Distributions /\ \A id \in Ids : skdm'[t].id = id
      BY <1>1 DEF SameKey, Distributions
    <2>1. CASE t = s
      BY <2>1 DEF DistributesOne
    <2>2. CASE t # s
      BY <2>2 DEF GoesOn, Sharing, SameKey, Distributes
    <2> QED BY <2>1, <2>2
  <1>5. Waiting'
    <2>1. \A f \in Files : \A n \in 1 .. Len(lines[f]) :
            /\ pc'[lines[f][n].task] = pc[lines[f][n].task]
            /\ attempt'[lines[f][n].task] = attempt[lines[f][n].task]
      BY Writer DEF GoesOn, Typed
    <2>2. \A t \in left' : pc'[t] \in Committing \cup {"sent", "failed"}
      BY DEF GoesOn, Sharing, Waiting, Typed, TypedSends
    <2>3. /\ \A f \in Files : \A n \in 1 .. Len(lines[f]) :
               attempt'[lines[f][n].task] > 0 /\ pc'[lines[f][n].task] \in Committing
          /\ Memory \in DOMAIN ctx' => \E t \in Sends : pc'[t] \in Committing \cup {"send"}
      BY <2>1 DEF ContextGoes, Sharing, Waiting
    <2> QED BY <2>2, <2>3 DEF Waiting, GoesOn, Committing
  <1>6. ASSUME NEW id \in Ids PROVE KnownFiles(id)' /\ KnownHands(id)'
    <2>1. \A d : Known(d, id) => Known(d, id)'
      BY <1>6 DEF KnownGoes
    <2>2. ASSUME NEW t \in Sends \ {s}, NEW d, KnownSoon(t, d, id) PROVE KnownSoon(t, d, id)'
      BY <2>1, <2>2 DEF KnownSoon, GoesOn, Told
    <2>3. KnownFiles(id) /\ KnownHands(id)
      BY <1>6 DEF Sharing
    <2>4. \A n \in 1 .. Len(lines[Memory]) : \A d \in lines[Memory][n].value :
            KnownSoon(lines[Memory][n].task, d, id)'
      <3> SUFFICES ASSUME NEW n \in 1 .. Len(lines[Memory]), NEW d \in lines[Memory][n].value
                   PROVE  KnownSoon(lines[Memory][n].task, d, id)'
        OBVIOUS
      <3>1. PICK t \in Sends \ {s} : t = lines[Memory][n].task
        BY TwoFiles, Writer DEF GoesOn, Typed
      <3>2. KnownSoon(t, d, id)
        BY <2>3, <3>1 DEF KnownFiles
      <3>3. lines'[Memory][n].task = t
        BY <3>1 DEF GoesOn
      <3> QED BY <2>2, <3>1, <3>2, <3>3 DEF GoesOn
    <2>5. KnownFiles(id)'
      BY <2>1, <2>3, <2>4 DEF KnownFiles, GoesOn
    <2>6. ASSUME NEW t \in Sends
          PROVE  /\ Recalling(t)' => \A d \in memo'[t] : Known(d, id)'
                 /\ pc'[t] = "remember" => \A d \in memo'[t] : Known(d, id)' \/ Told(t, d, id)'
      <3>1. CASE t = s
        BY <1>6, <3>1 DEF KnownGoes
      <3>2. CASE t # s
        BY <2>1, <2>3, <3>2 DEF KnownHands, Recalling, Told, GoesOn
      <3> QED BY <3>1, <3>2
    <2>7. KnownHands(id)'
      BY <2>6 DEF KnownHands
    <2> QED BY <2>5, <2>7
  <1>7. \A id \in Ids' : KnownFiles(id)' /\ KnownHands(id)' /\ KnownContext(id)'
    BY <1>1, <1>6
  <1>8. transactional'
    BY DEF Sharing, GoesOn
  <1> QED BY <1>1, <1>2, <1>3, <1>4, <1>5, <1>7, <1>8 DEF Sharing

LEMMA Quiet ==
    ASSUME Typed, Sharing, NEW s \in Sends,
           Settled(s) \/ pc[s] \notin Committing \/ ~(attempt[s] > 0)
    PROVE  \A f \in Files : \A n \in 1 .. Len(lines[f]) : lines[f][n].task # s
  <1> SUFFICES ASSUME NEW f \in Files, NEW n \in 1 .. Len(lines[f]), lines[f][n].task = s
               PROVE  FALSE
    OBVIOUS
  <1>1. lines[f] \in Seq(Writes(f))
    BY DEF Typed, TypedLines
  <1>2. CASE Settled(s)
    <2>1. n \in DOMAIN lines[f]
      BY <1>1
    <2> QED BY <1>2, <2>1 DEF Settled
  <1>3. CASE pc[s] \notin Committing \/ ~(attempt[s] > 0)
    BY <1>3 DEF Sharing, Waiting
  <1> QED BY <1>2, <1>3

(* As Goes, for a step that keeps what is in the transaction, drops it, or *)
(* puts something there.                                                   *)
PutsOne(s) ==
    /\ Ids' \subseteq Ids
    /\ Memory \in DOMAIN ctx' =>
         /\ pc'[s] = "send"
         /\ \A d \in ctx'[Memory] : \A id \in Ids : Known(d, id) \/ Told(s, d, id)'

LEMMA GoesOnly ==
    ASSUME Typed, Sharing, NEW s \in Sends, GoesOn(s), Remembers(s), DistributesOne(s),
           spared \subseteq spared', keyed' = keyed,
           \/ ctx' = Nothing
           \/ PutsOne(s)
           \/ /\ ctx' = ctx
              /\ pc[s] \in Committing \cup {"send"} => pc'[s] \in Committing \cup {"send"},
           s \in left => due'[s] = due[s] /\ skdm'[s] = skdm[s],
           pc[s] = "send" => \A d, id : Told(s, d, id) => Known(d, id)',
           Recalling(s)' => \A d \in memo'[s] : \A id \in Ids : Known(d, id),
           pc'[s] = "remember" => \A d \in memo'[s] : \A id \in Ids :
             Known(d, id) \/ Told(s, d, id)' \/ <<d, id>> \in spared'
    PROVE  Sharing'
  <1>1. left \subseteq left'
    BY DEF GoesOn
  <1>2. ASSUME NEW t \in left, NEW d, NEW id, Told(t, d, id) PROVE Known(d, id)'
    <2>1. t \in Sends /\ t \in left'
      BY <1>1, <1>2 DEF Typed, TypedSends
    <2>2. Told(t, d, id)'
      BY <1>2, <2>1 DEF Told, GoesOn
    <2> QED BY <2>1, <2>2 DEF Known
  <1>3. \A d, id : Known(d, id) => Known(d, id)'
    BY <1>2, KnownKept
  <1>4. \A d, id : <<d, id>> \in spared' => Known(d, id)'
    BY DEF Known
  <1>5. \A id \in Ids : KnownGoes(s, id)
    BY <1>3, <1>4 DEF KnownGoes
  <1>6. ContextGoes /\ \A id \in Ids : KnownContext(id)'
    <2>1. CASE ctx' = Nothing
      <3>1. DOMAIN ctx' = {}
        BY <2>1 DEF Nothing
      <3>2. Ids' \subseteq Ids
        <4>1. Versions' \subseteq Versions
          BY <3>1 DEF Versions, GoesOn
        <4> QED BY <4>1, SameVersionIds
      <3> QED BY <3>1, <3>2 DEF ContextGoes, KnownContext
    <2>2. CASE ctx' = ctx /\ (pc[s] \in Committing \cup {"send"} =>
                                pc'[s] \in Committing \cup {"send"})
      <3>1. Ids' \subseteq Ids
        <4>1. Versions' \subseteq Versions
          BY <2>2 DEF Versions, GoesOn
        <4> QED BY <4>1, SameVersionIds
      <3>2. Memory \in DOMAIN ctx => \E t \in Sends : pc'[t] \in Committing \cup {"send"}
        <4> SUFFICES ASSUME Memory \in DOMAIN ctx
                     PROVE  \E t \in Sends : pc'[t] \in Committing \cup {"send"}
          OBVIOUS
        <4>1. PICK t \in Sends : pc[t] \in Committing \cup {"send"}
          BY DEF Sharing, Waiting
        <4>2. pc'[t] \in Committing \cup {"send"}
          BY <2>2, <4>1 DEF GoesOn
        <4> QED BY <4>2
      <3>3. ContextGoes
        BY <2>2, <3>1, <3>2 DEF ContextGoes, Sharing, Waiting
      <3>4. ASSUME NEW id \in Ids, Memory \in DOMAIN ctx, NEW d \in ctx[Memory]
            PROVE  \E t \in Sends : KnownSoon(t, d, id)'
        <4>1. PICK t \in Sends : KnownSoon(t, d, id)
          BY <3>4 DEF Sharing, KnownContext
        <4>2. CASE Known(d, id)
          BY <1>3, <4>2 DEF KnownSoon
        <4>3. CASE t = s /\ pc[s] = "send" /\ Told(s, d, id)
          BY <4>3 DEF KnownSoon
        <4>4. CASE t # s /\ pc[t] = "send" /\ Told(t, d, id)
          BY <4>4 DEF KnownSoon, GoesOn, Told
        <4> QED BY <4>1, <4>2, <4>3, <4>4 DEF KnownSoon
      <3> QED BY <2>2, <3>3, <3>4 DEF KnownContext
    <2>3. CASE PutsOne(s)
      <3>1. ContextGoes
        BY <2>3 DEF PutsOne, ContextGoes
      <3>2. \A id \in Ids : KnownContext(id)'
        BY <1>3, <2>3 DEF PutsOne, KnownContext, KnownSoon
      <3> QED BY <3>1, <3>2
    <2> QED BY <2>1, <2>2, <2>3
  <1> QED BY <1>5, <1>6, Goes

(* What is in the transaction is one send's, and before it remembers it    *)
(* the memory is read from the file.                                       *)
LEMMA MemoryInFile ==
    ASSUME Sharing, transactional => Inv, NEW s \in Sends,
           pc[s] \in {"memory", "create", "encrypt", "address", "remember"}
    PROVE  Memory \notin DOMAIN ctx
  <1> SUFFICES ASSUME Memory \in DOMAIN ctx PROVE FALSE
    OBVIOUS
  <1>1. PICK t \in Sends : pc[t] \in Committing \cup {"send"}
    BY DEF Sharing, Waiting
  <1> QED BY <1>1 DEF Sharing, Inv, Alone, Ended, Committing

LEMMA GoesEasily ==
    ASSUME Typed, TypedDevices, transactional => Inv, Sharing, NEW s \in Sends,
           Begin(s) \/ ReadMemory(s) \/ Address(s)
    PROVE  Sharing'
  <1>0. /\ pc \in [Sends -> Places] /\ memo \in [Sends -> SUBSET Devices]
        /\ s \notin left /\ left \subseteq Sends
    BY DEF Typed, TypedSends, Sharing, Waiting, Committing, Begin, ReadMemory, Address, At
  <1>1. CASE Begin(s)
    <2>1. /\ pc[s] = "idle" /\ pc' = [pc EXCEPT ![s] = "memory"]
          /\ UNCHANGED <<files, lines, strays, transactional, memo, skdm, due, attempt, ctx,
                         left, spared, keyed>>
      BY <1>1 DEF Begin, Goto, fileVars, history, peers
    <2>2. GoesOn(s)
      BY <1>0, <2>1, Quiet DEF GoesOn, Committing
    <2>3. ~Recalling(s)' /\ ~Distributes(s)' /\ pc'[s] # "remember"
      BY <1>0, <2>1 DEF Recalling, Distributes
    <2> QED BY <1>0, <2>1, <2>2, <2>3, GoesOnly DEF Remembers, DistributesOne, Committing
  <1>2. CASE ReadMemory(s)
    <2>1. /\ pc[s] = "memory" /\ Settled(s) /\ pc' = [pc EXCEPT ![s] = "create"]
          /\ UNCHANGED <<files, lines, strays, transactional, skdm, due, attempt, ctx,
                         left, spared, keyed>>
          /\ memo' = [memo EXCEPT ![s] = IF Value(Memory) = Absent THEN {} ELSE Value(Memory)]
      BY <1>2 DEF ReadMemory, At, Goto, fileVars, history, peers, Sharing
    <2>2. GoesOn(s)
      <3>1. \A f \in Files : \A n \in 1 .. Len(lines[f]) : lines[f][n].task # s
        BY <2>1, Quiet
      <3> QED BY <1>0, <2>1, <3>1 DEF GoesOn
    <2>3. ~Distributes(s)' /\ pc'[s] = "create"
      BY <1>0, <2>1 DEF Distributes
    <2>4. Value(Memory) = files[Memory]
      BY <2>1, MemoryInFile DEF Value
    <2>5. memo'[s] = IF files[Memory] = Absent THEN {} ELSE files[Memory]
      BY <1>0, <2>1, <2>4
    <2>6. files[Memory] # Absent => files[Memory] \in SUBSET Devices
      BY <1>2, <2>4, TwoFiles DEF ReadMemory, Get, Typed, TypedData, Contents
    <2>7. \A d \in memo'[s] : \A id \in Ids : Known(d, id)
      BY <2>5, <2>6 DEF Sharing, KnownFiles
    <2>8. Remembers(s) /\ DistributesOne(s)
      BY <2>3, <2>5 DEF Remembers, DistributesOne
    <2> QED BY <1>0, <2>1, <2>2, <2>3, <2>7, <2>8, GoesOnly DEF Committing
  <1>3. CASE Address(s)
    <2>1. /\ pc[s] = "address" /\ Settled(s)
          /\ UNCHANGED <<files, lines, strays, transactional, skdm, attempt, ctx, left, keyed>>
      BY <1>3 DEF Address, At, fileVars, peers
    <2>2. PICK failing \in SUBSET (Devices \ memo[s]) :
             \/ pc' = [pc EXCEPT ![s] = "raise"] /\ UNCHANGED <<memo, due, spared>>
             \/ /\ pc' = [pc EXCEPT ![s] = "remember"]
                /\ due' = [due EXCEPT ![s] = (Devices \ memo[s]) \ failing]
                /\ memo' = [memo EXCEPT ![s] = Devices]
                /\ spared' = spared \cup {<<d, skdm[s].id>> : d \in failing}
      BY <1>3 DEF Address, Goto
    <2>3. GoesOn(s)
      <3>1. \A f \in Files : \A n \in 1 .. Len(lines[f]) : lines[f][n].task # s
        BY <2>1, Quiet
      <3>2. \A t \in Sends \ {s} : pc'[t] = pc[t] /\ memo'[t] = memo[t] /\ due'[t] = due[t]
        BY <1>0, <2>2 DEF TypedDevices
      <3> QED BY <1>0, <2>1, <3>1, <3>2 DEF GoesOn
    <2>4. pc'[s] \in {"raise", "remember"}
      BY <1>0, <2>2
    <2>5. Remembers(s)
      BY <2>4 DEF Remembers, Recalling
    <2>6. DistributesOne(s)
      <3>1. skdm[s] \in Distributions /\ \A id \in Ids : skdm[s].id = id
        BY <2>1 DEF Sharing, SameKey, Distributes
      <3> QED BY <2>1, <3>1 DEF DistributesOne
    <2>7. ASSUME pc'[s] = "remember", NEW d \in memo'[s], NEW id \in Ids
          PROVE  Known(d, id) \/ Told(s, d, id)' \/ <<d, id>> \in spared'
      <3>1. /\ due'[s] = (Devices \ memo[s]) \ failing /\ memo'[s] = Devices
            /\ \A e \in failing : <<e, skdm[s].id>> \in spared'
        <4>1. pc'[s] # "raise"
          BY <2>7
        <4>2. due' = [due EXCEPT ![s] = (Devices \ memo[s]) \ failing]
          BY <1>0, <2>2, <4>1
        <4>3. due'[s] = (Devices \ memo[s]) \ failing
          BY <4>2 DEF TypedDevices
        <4> QED BY <1>0, <2>2, <4>1, <4>3
      <3>2. skdm[s].id = id /\ skdm'[s] = skdm[s]
        BY <2>1 DEF Sharing, SameKey, Distributes
      <3>3. d \in memo[s] => Known(d, id)
        BY <2>1 DEF Sharing, KnownHands, Recalling
      <3> QED BY <3>1, <3>2, <3>3 DEF Told
    <2>8. spared \subseteq spared'
      BY <2>2
    <2> QED BY <1>0, <2>1, <2>3, <2>4, <2>5, <2>6, <2>7, <2>8, GoesOnly DEF Recalling, Committing
  <1> QED BY <1>1, <1>2, <1>3

LEMMA GoesOut ==
    ASSUME Typed, TypedDevices, Sharing, NEW s \in Sends, Send(s) \/ SendRaises(s)
    PROVE  Sharing'
  <1>1. /\ pc \in [Sends -> Places] /\ pc[s] = "send" /\ s \notin left /\ Settled(s)
        /\ UNCHANGED <<files, lines, strays, transactional, memo, skdm, due, attempt, ctx, keyed>>
    BY DEF Typed, TypedSends, Sharing, Waiting, Committing, Send, SendRaises, At, fileVars
  <1>2. PICK p \in {"commit", "raise"} : pc' = [pc EXCEPT ![s] = p]
    BY DEF Send, SendRaises, Goto, Sharing
  <1>3. \/ left' = left \cup {s} /\ spared' = spared
        \/ left' = left /\ spared' = spared \cup Unsent(s) /\ pc'[s] = "raise"
    BY <1>1 DEF Send, SendRaises, Leave, Goto
  <1>4. pc'[s] = p /\ \A t \in Sends \ {s} : pc'[t] = pc[t]
    BY <1>1, <1>2
  <1>5. GoesOn(s)
    <2>1. \A f \in Files : \A n \in 1 .. Len(lines[f]) : lines[f][n].task # s
      BY <1>1, Quiet
    <2> QED BY <1>1, <1>3, <1>4, <2>1 DEF GoesOn, Committing
  <1>6. ASSUME NEW d, NEW id, Told(s, d, id) PROVE Known(d, id)'
    <2>1. Told(s, d, id)'
      BY <1>1, <1>6 DEF Told
    <2>2. CASE s \in left'
      BY <2>1, <2>2 DEF Known
    <2>3. CASE spared' = spared \cup Unsent(s)
      BY <1>6, <2>3 DEF Known, Told, Unsent
    <2> QED BY <1>3, <2>2, <2>3
  <1>7. ~Recalling(s)' /\ ~Distributes(s)' /\ pc'[s] # "remember"
    BY <1>4 DEF Recalling, Distributes
  <1>8. Remembers(s) /\ DistributesOne(s) /\ spared \subseteq spared'
    BY <1>3, <1>7 DEF Remembers, DistributesOne
  <1>9. pc'[s] \in Committing \cup {"send"}
    BY <1>4 DEF Committing
  <1> QED BY <1>1, <1>5, <1>6, <1>7, <1>8, <1>9, GoesOnly

(* The end of a send whose commit is not cut short.                        *)
LEMMA GoesHome ==
    ASSUME Typed, TypedDevices, Sharing, NEW s \in Sends, Committed(s) \/ (Raise(s) /\ ~cut')
    PROVE  Sharing'
  <1>1. /\ UNCHANGED <<files, lines, strays, transactional, memo, skdm, due, attempt, keyed,
                        left, spared>>
        /\ pc \in [Sends -> Places] /\ ctx' = Nothing
    BY DEF Committed, Raise, fileVars, peers, history, Typed, TypedSends
  <1>2. PICK p \in {"sent", "failed"} : pc' = [pc EXCEPT ![s] = p]
    BY DEF Committed, Raise, Goto
  <1>3. \A f \in Files : \A n \in 1 .. Len(lines[f]) : lines[f][n].task # s
    <2>1. CASE Committed(s)
      BY <2>1, Quiet DEF Committed, At
    <2>2. CASE Raise(s) /\ ~cut'
      <3>1. ~(attempt[s] > 0)
        BY <2>2 DEF Raise, Lost
      <3> QED BY <3>1, Quiet
    <2> QED BY <2>1, <2>2
  <1>4. pc'[s] = p /\ \A t \in Sends \ {s} : pc'[t] = pc[t]
    BY <1>1, <1>2
  <1>5. GoesOn(s)
    BY <1>1, <1>3, <1>4 DEF GoesOn
  <1>6. /\ ~Recalling(s)' /\ ~Distributes(s)' /\ pc'[s] # "remember"
        /\ Remembers(s) /\ DistributesOne(s)
    BY <1>4 DEF Recalling, Distributes, Remembers, DistributesOne
  <1>7. ASSUME pc[s] = "send" PROVE FALSE
    BY <1>7 DEF Committed, Raise, At
  <1> QED BY <1>1, <1>5, <1>6, <1>7, GoesOnly

(* What a send puts under a file leaves the ids of the record what they    *)
(* were, if it is the record with its id.                                  *)
LEMMA PutIds ==
    ASSUME Typed, NEW s \in Sends, NEW f \in Files, NEW v \in Contents(f), Put(s, f, v),
           f = Record => \E w \in Versions \cap OwnRecords : w[1].id = v[1].id
    PROVE  Ids' \subseteq Ids
  <1>1. \A x \in Versions' : x \in Versions \/ (f = Record /\ x = v)
    <2> SUFFICES ASSUME NEW x \in Versions', x \notin Versions PROVE f = Record /\ x = v
      OBVIOUS
    <2>1. CASE transactional
      <3>1. ctx' = [g \in DOMAIN ctx \cup {f} |-> IF g = f THEN v ELSE ctx[g]]
            /\ UNCHANGED <<files, lines, strays>>
        BY <2>1 DEF Put, fileVars
      <3>2. x \in {ctx'[g] : g \in DOMAIN ctx' \cap {Record}}
        BY <3>1 DEF Versions
      <3>3. Record \in DOMAIN ctx' /\ x = ctx'[Record]
        BY <3>2
      <3>4. ~(Record \in DOMAIN ctx /\ x = ctx[Record])
        BY DEF Versions
      <3> QED BY <3>1, <3>3, <3>4
    <2>2. CASE ~transactional
      <3>1. lines' = Queued(f, s, v) /\ UNCHANGED <<files, strays, ctx>>
        BY <2>2 DEF Put
      <3>2. x \in {lines'[Record][n].value : n \in 1 .. Len(lines'[Record])}
        BY <3>1 DEF Versions
      <3>3. PICK n \in 1 .. Len(lines'[Record]) : x = lines'[Record][n].value
        BY <3>2
      <3>4. CASE f = Record
        <4>1. lines[f] \in Seq(Writes(f)) /\ Job(s, v) \in Writes(f)
          BY DEF Typed, TypedLines, Job, Writes
        <4>2. lines'[f] = Append(lines[f], Job(s, v))
          BY <3>1 DEF Queued, Typed, TypedLines
        <4>3. n \in 1 .. Len(lines[f]) => lines'[f][n] = lines[f][n]
          BY <4>1, <4>2
        <4>4. n \notin 1 .. Len(lines[f])
          <5>1. n \in 1 .. Len(lines[f]) => x = lines[Record][n].value
            BY <3>3, <3>4, <4>3
          <5> QED BY <3>4, <5>1 DEF Versions
        <4>5. lines'[f][n] = Job(s, v)
          BY <3>3, <3>4, <4>1, <4>2, <4>4
        <4> QED BY <3>3, <3>4, <4>5 DEF Job
      <3>5. CASE f # Record
        <4>1. lines'[Record] = lines[Record]
          BY <3>1, <3>5, TwoFiles DEF Queued, Typed, TypedLines
        <4> QED BY <3>3, <4>1 DEF Versions
      <3> QED BY <3>4, <3>5
    <2> QED BY <2>1, <2>2
  <1>2. \A x \in Versions' \cap OwnRecords :
           \E w \in Versions \cap OwnRecords : w[1].id = x[1].id
    BY <1>1
  <1> QED BY <1>2, IdsKept

LEMMA NoFileNoVersion == Absent \notin OwnRecords /\ Absent \notin SUBSET Devices
  BY ValuesAssumption DEF OwnRecords, StateT

LEMMA TornNotKnown == Torn \notin OwnRecords /\ Torn \notin SUBSET Devices
  BY ValuesAssumption DEF OwnRecords, StateT

(* In a transaction there is no empty record. *)
LEMMA HeldRecord ==
    ASSUME Sharing, transactional => Inv, NEW s \in Sends, Holds(s)
    PROVE  /\ Get(Record) /\ RecordOf(s) = Value(Record)
           /\ Value(Record) \in Versions /\ Value(Record) # <<>>
           /\ NoState(RecordOf(s)) <=> Value(Record) = Absent
  <1>1. Get(Record) /\ RecordOf(s) = Value(Record)
    BY DEF Sharing, Holds, RecordOf
  <1>2. Value(Record) \in Versions
    <2>1. CASE Record \in DOMAIN ctx
      <3>1. ctx[Record] \in {ctx[f] : f \in DOMAIN ctx \cap {Record}}
        BY <2>1
      <3> QED BY <2>1, <3>1 DEF Value, Versions
    <2>2. CASE Record \notin DOMAIN ctx
      BY <2>2 DEF Value, Versions
    <2> QED BY <2>1, <2>2
  <1>3. Value(Record) # <<>>
    BY <1>2 DEF Sharing, Inv, Used, Beyond
  <1> QED BY <1>1, <1>2, <1>3 DEF NoState

(* The first key of the group: nobody is remembered yet, and no other send *)
(* distributes one.                                                        *)
LEMMA CreatesFirst ==
    ASSUME Typed, TypedDevices', transactional => Inv, Sharing, NEW s \in Sends,
           CreateKey(s), NoState(RecordOf(s))
    PROVE  Sharing'
  <1>0. pc \in [Sends -> Places] /\ skdm'[s] \in Distributions \cup {None} /\ ids \in Nat
    BY DEF Typed, TypedSends, TypedDevices
  <1>1. /\ pc[s] = "create" /\ pc' = [pc EXCEPT ![s] = "encrypt"] /\ CanGet(Record)
        /\ Value(Record) = Absent /\ Put(s, Record, SetState(ids + 1))
        /\ skdm' = [skdm EXCEPT ![s] = [id |-> ids + 1, chain |-> 0]]
        /\ UNCHANGED <<transactional, memo, attempt, left>>
    <2>1. pc[s] = "create" /\ pc' = [pc EXCEPT ![s] = "encrypt"] /\ Holds(s)
      BY DEF CreateKey, At, Goto
    <2>2. /\ Put(s, Record, SetState(ids + 1))
          /\ skdm' = [skdm EXCEPT ![s] = [id |-> ids + 1, chain |-> 0]]
      BY DEF CreateKey
    <2>3. UNCHANGED <<transactional, memo, attempt, left>>
      BY DEF CreateKey, history
    <2>4. CanGet(Record) /\ Value(Record) = Absent
      BY <2>1, HeldRecord DEF Get
    <2> QED BY <2>1, <2>2, <2>3, <2>4
  <1>2. pc'[s] = "encrypt" /\ \A t \in Sends \ {s} : pc'[t] = pc[t]
    BY <1>0, <1>1
  <1>3. /\ Record \notin DOMAIN ctx /\ files[Record] = Absent /\ lines[Record] = <<>>
        /\ Record \in Files /\ Memory \in Files /\ Record # Memory /\ Files = {Record, Memory}
    <2>1. Record \notin DOMAIN ctx
      BY <1>1, TwoFiles, NoFileNoVersion, NotEmpty DEF Typed, TypedContext, Contents, Value
    <2> QED BY <1>1, <2>1, TwoFiles DEF Value, CanGet, Readable
  <1>4. strays[Record] = {} /\ ~Remembering
    BY <1>3 DEF Sharing, NoRecord, RecordFirst
  <1>5. /\ files[Memory] = Absent /\ lines[Memory] = <<>> /\ strays[Memory] = {}
        /\ \A t \in Sends : Recalling(t) => memo[t] = {}
    BY <1>4 DEF Remembering
  <1>6. \A t \in Sends : Distributes(t)' => t = s
    <2> SUFFICES ASSUME NEW t \in Sends, t # s, Distributes(t) PROVE FALSE
      BY <1>2 DEF Distributes
    <2> QED BY <1>1 DEF Sharing, Inv, Alone, Ended, Distributes
  <1>7. Memory \notin DOMAIN ctx
    BY <1>1, MemoryInFile
  <1>16. PICK v : v = SetState(ids + 1)
    OBVIOUS
  <1>8. /\ UNCHANGED <<files, strays>> /\ lines'[Memory] = <<>> /\ lines'[Record] = <<>>
        /\ DOMAIN ctx' = DOMAIN ctx \cup {Record} /\ ctx'[Record] = v
    <2>1. /\ ctx' = [g \in DOMAIN ctx \cup {Record} |-> IF g = Record THEN v ELSE ctx[g]]
          /\ UNCHANGED <<files, lines, strays>>
      BY <1>1, <1>16 DEF Put, fileVars, Sharing
    <2> QED BY <1>3, <1>5, <2>1
  <1>9. \A id \in Ids' : id = ids + 1
    <2>1. v \in OwnRecords /\ v[1].id = ids + 1
      <3>1. ids + 1 \in Nat
        BY <1>0
      <3> QED BY <1>16, <3>1, FirstRecord
    <2>2. Versions' \subseteq {Absent, v}
      <3>1. {ctx'[f] : f \in DOMAIN ctx' \cap {Record}} = {v}
        BY <1>8
      <3>2. {lines'[Record][n].value : n \in 1 .. Len(lines'[Record])} = {}
        BY <1>8
      <3> QED BY <1>3, <1>4, <1>8, <3>1, <3>2 DEF Versions
    <2>3. PICK V : V = Versions'
      OBVIOUS
    <2>4. \A x \in V : x \in OwnRecords => x[1].id = ids + 1
      BY <2>1, <2>2, <2>3, NoFileNoVersion
    <2>5. Ids' = {x[1].id : x \in V \cap OwnRecords}
      BY <2>3 DEF Ids, OwnRecords, StateT
    <2> QED BY <2>4, <2>5
  <1>10. Waiting'
    <2>1. \A t \in left' : pc'[t] \in Committing \cup {"sent", "failed"}
      BY <1>1, <1>2 DEF Sharing, Waiting, Committing, Typed, TypedSends
    <2>2. \A f \in Files : lines'[f] = <<>>
      BY <1>3, <1>8
    <2>3. Memory \notin DOMAIN ctx'
      BY <1>3, <1>7, <1>8
    <2> QED BY <2>1, <2>2, <2>3 DEF Waiting, Committing
  <1>11. NoRecord'
    BY <1>4, <1>8 DEF NoRecord
  <1>12. RecordFirst'
    <2>1. \A t \in Sends : Recalling(t)' => memo'[t] = {}
      BY <1>1, <1>2, <1>5 DEF Recalling
    <2> QED BY <1>5, <1>8, <2>1 DEF RecordFirst, Remembering
  <1>13. OneId'
    BY <1>9 DEF OneId
  <1>14. SameKey'
    <2>1. skdm'[s] = [id |-> ids + 1, chain |-> 0] /\ skdm'[s] \in Distributions
      <3>1. skdm'[s] \in Distributions \/ skdm'[s] = [id |-> ids + 1, chain |-> 0]
        BY <1>0, <1>1 DEF TypedDevices
      <3>2. [id |-> ids + 1, chain |-> 0] \in Distributions
        BY <1>0 DEF Distributions
      <3> QED BY <1>1, <3>1, <3>2 DEF TypedDevices
    <2> QED BY <1>6, <1>9, <2>1 DEF SameKey, Distributions
  <1>15. ASSUME NEW id \in Ids' PROVE KnownFiles(id)' /\ KnownHands(id)' /\ KnownContext(id)'
    <2>1. KnownFiles(id)'
      BY <1>5, <1>8, NoFileNoVersion DEF KnownFiles
    <2>2. KnownHands(id)'
      BY <1>1, <1>2, <1>5, <1>6 DEF KnownHands, Recalling, Distributes
    <2>3. KnownContext(id)'
      BY <1>3, <1>7, <1>8 DEF KnownContext
    <2> QED BY <2>1, <2>2, <2>3
  <1>17. transactional'
    BY <1>1 DEF Sharing
  <1> QED BY <1>10, <1>11, <1>12, <1>13, <1>14, <1>15, <1>17 DEF Sharing

LEMMA RecordFound ==
    ASSUME Typed, Sharing, transactional => Inv, NEW s \in Sends, Holds(s),
           ~NoState(RecordOf(s))
    PROVE  /\ RecordOf(s) \in OwnRecords /\ RecordOf(s) \in Versions
           /\ Last(RecordOf(s)).id \in Ids /\ Last(RecordOf(s)) = RecordOf(s)[1]
  <1>1. RecordOf(s) \in OwnRecords /\ RecordOf(s) \in Versions
    BY HeldTyped, HeldRecord
  <1>2. Last(RecordOf(s)) = RecordOf(s)[1]
    BY <1>1, NextRecord
  <1> QED BY <1>1, <1>2 DEF Ids

(* A send that finds a key, or puts a record or the memory in its          *)
(* transaction.                                                            *)
LEMMA GoesPutting ==
    ASSUME Typed, TypedDevices, transactional => Inv, Sharing, NEW s \in Sends,
           (CreateKey(s) /\ ~NoState(RecordOf(s))) \/ Encrypt(s) \/ Remember(s)
    PROVE  Sharing'
  <1>0. pc \in [Sends -> Places] /\ s \notin left
    BY DEF Typed, TypedSends, Sharing, Waiting, Committing, CreateKey, Encrypt, Remember, At
  <1>1. /\ UNCHANGED <<transactional, memo, due, attempt, left, spared, keyed>>
        /\ pc[s] \in {"create", "encrypt", "remember"} /\ Settled(s)
    BY DEF CreateKey, Encrypt, Remember, At, peers, history
  <1>2. PICK p \in {"encrypt", "address", "send"} : pc' = [pc EXCEPT ![s] = p]
    BY DEF CreateKey, Encrypt, Remember, Goto
  <1>3. pc'[s] = p /\ \A t \in Sends \ {s} : pc'[t] = pc[t]
    BY <1>0, <1>2
  <1>4. Memory \notin DOMAIN ctx
    BY <1>1, MemoryInFile
  <1>5. \A f \in Files : \A n \in 1 .. Len(lines[f]) : lines[f][n].task # s
    BY <1>1, Quiet
  <1>6. \A d \in memo[s] : \A id \in Ids :
          IF Recalling(s) THEN Known(d, id) ELSE Known(d, id) \/ Told(s, d, id)
    BY <1>1 DEF Sharing, KnownHands, Recalling
  <1>7. CASE CreateKey(s) /\ ~NoState(RecordOf(s))
    <2>0. PICK rec : rec = RecordOf(s)
      OBVIOUS
    <2>1. /\ pc[s] = "create" /\ p = "encrypt" /\ Holds(s)
          /\ skdm' = [skdm EXCEPT ![s] = [id |-> Last(rec).id, chain |-> Last(rec).chain]]
          /\ Put(s, Record, rec)
      BY <1>2, <1>7, <2>0 DEF CreateKey, At, Goto, Typed, TypedSends, Sharing
    <2>2. rec \in OwnRecords /\ rec \in Versions /\ Last(rec).id \in Ids /\ Last(rec) = rec[1]
      BY <1>7, <2>0, <2>1, RecordFound
    <2>3. /\ skdm'[s] \in Distributions /\ skdm'[s].id = Last(rec).id
          /\ \A t \in Sends \ {s} : skdm'[t] = skdm[t]
      <3>1. Last(rec) \in StateT
        BY <2>2, NextRecord
      <3>2. PICK x \in StateT : x = Last(rec)
        BY <3>1
      <3>3. PICK k : k = [id |-> x.id, chain |-> x.chain]
        OBVIOUS
      <3>4. k \in Distributions /\ k.id = x.id
        BY <3>3 DEF StateT, Distributions
      <3>5. skdm' = [skdm EXCEPT ![s] = k]
        BY <2>1, <3>2, <3>3
      <3> QED BY <3>2, <3>4, <3>5 DEF TypedDevices
    <2>4. GoesOn(s)
      BY <1>0, <1>1, <1>3, <1>5, <2>1, <2>3 DEF GoesOn, Put, fileVars, Sharing
    <2>5. DistributesOne(s)
      BY <2>2, <2>3 DEF Sharing, OneId, DistributesOne
    <2>6. Recalling(s) /\ Recalling(s)' /\ Remembers(s) /\ pc'[s] # "remember"
      BY <1>1, <1>3, <2>1 DEF Recalling, Remembers
    <2>7. PutsOne(s)
      <3>1. Ids' \subseteq Ids
        BY <2>1, <2>2, TwoFiles, PutIds DEF Contents
      <3>2. DOMAIN ctx' = DOMAIN ctx \cup {Record}
        BY <2>1 DEF Put, Sharing
      <3> QED BY <1>4, <3>1, <3>2, TwoFiles DEF PutsOne
    <2> QED BY <1>0, <1>1, <1>6, <2>1, <2>4, <2>5, <2>6, <2>7, GoesOnly DEF Committing
  <1>8. CASE Encrypt(s)
    <2>1. /\ pc[s] = "encrypt" /\ p = "address" /\ Holds(s) /\ ~NoState(RecordOf(s))
          /\ skdm' = skdm
      BY <1>2, <1>8 DEF Encrypt, At, Goto, Typed, TypedSends
    <2>2. PICK rec : rec = RecordOf(s)
      OBVIOUS
    <2>3. rec \in OwnRecords /\ rec \in Versions
      BY <2>1, <2>2, RecordFound
    <2>4. PICK new : new = [rec EXCEPT ![Len(rec)] = Derived(@, Iteration(Last(rec)))]
      OBVIOUS
    <2>5. Put(s, Record, new) /\ new \in OwnRecords /\ new[1].id = rec[1].id
      BY <1>8, <2>2, <2>3, <2>4, NextRecord DEF Encrypt
    <2>6. Ids' \subseteq Ids
      BY <2>3, <2>5, TwoFiles, PutIds DEF Contents
    <2>7. DOMAIN ctx' = DOMAIN ctx \cup {Record} /\ UNCHANGED <<files, lines, strays>>
      BY <2>5 DEF Put, fileVars, Sharing
    <2>8. PutsOne(s) /\ GoesOn(s)
      BY <1>0, <1>1, <1>3, <1>4, <1>5, <2>1, <2>6, <2>7, TwoFiles DEF PutsOne, GoesOn
    <2>9. Recalling(s) /\ Recalling(s)' /\ Remembers(s) /\ pc'[s] # "remember"
      BY <1>1, <1>3, <2>1 DEF Recalling, Remembers
    <2>10. DistributesOne(s)
      BY <2>1 DEF DistributesOne, Sharing, SameKey, Distributes
    <2> QED BY <1>0, <1>1, <1>6, <2>1, <2>8, <2>9, <2>10, GoesOnly
  <1>9. CASE Remember(s)
    <2>1. /\ pc[s] = "remember" /\ p = "send" /\ skdm' = skdm /\ Put(s, Memory, memo[s])
      BY <1>2, <1>9 DEF Remember, At, Goto, Typed, TypedSends
    <2>2. Ids' \subseteq Ids
      BY <2>1, TwoFiles, PutIds DEF Contents, Typed, TypedSends
    <2>3. /\ ctx' = [g \in DOMAIN ctx \cup {Memory} |-> IF g = Memory THEN memo[s] ELSE ctx[g]]
          /\ UNCHANGED <<files, lines, strays>>
      BY <2>1 DEF Put, fileVars, Sharing
    <2>4. GoesOn(s)
      BY <1>0, <1>1, <1>3, <1>5, <2>1, <2>3 DEF GoesOn
    <2>5. \A d, id : Told(s, d, id)' <=> Told(s, d, id)
      BY <1>1, <2>1 DEF Told
    <2>6. ~Recalling(s) /\ ~Recalling(s)' /\ Remembers(s) /\ pc'[s] = "send"
      BY <1>3, <2>1 DEF Recalling, Remembers
    <2>7. PutsOne(s)
      <3>1. ctx'[Memory] = memo[s]
        BY <2>3
      <3> QED BY <1>6, <2>2, <2>5, <2>6, <3>1 DEF PutsOne
    <2>8. DistributesOne(s)
      BY <2>1 DEF DistributesOne, Sharing, SameKey, Distributes
    <2> QED BY <1>0, <1>1, <2>1, <2>4, <2>6, <2>7, <2>8, GoesOnly
  <1> QED BY <1>7, <1>8, <1>9

(* What a thread does to a line, one way or another: every write that is   *)
(* left was there, in the same order, and at most the first is gone.       *)
Shifted(f, k) ==
    /\ Len(lines'[f]) = Len(lines[f]) - k
    /\ \A n \in 1 .. Len(lines'[f]) :
         /\ n + k \in 1 .. Len(lines[f])
         /\ lines'[f][n].task = lines[f][n + k].task
         /\ lines'[f][n].value = lines[f][n + k].value
         /\ lines'[f][n].open => lines[f][n + k].open \/ files'[f] = Torn
    /\ k = 1 => 1 \in 1 .. Len(lines[f]) /\ lines[f][1].open
    /\ strays'[f] \subseteq strays[f]
    /\ \/ files'[f] = files[f]
       \/ /\ lines[f] # <<>> \/ strays[f] # {}
          /\ \/ files'[f] = Torn \/ files'[f] \in strays[f]
             \/ k = 1 /\ files'[f] = lines[f][1].value

LEMMA LineShifts ==
    ASSUME Typed, NEW f \in Files,
           OpenFile(f) \/ WriteFile(f) \/ FailFile(f) \/ StrayWrites(f)
    PROVE  /\ \A g \in Files \ {f} :
                lines'[g] = lines[g] /\ files'[g] = files[g] /\ strays'[g] = strays[g]
           /\ \E k \in {0, 1} : Shifted(f, k)
  <1>1. /\ lines[f] \in Seq(Writes(f)) /\ lines = [g \in Files |-> lines[g]]
        /\ files = [g \in Files |-> files[g]] /\ strays = [g \in Files |-> strays[g]]
        /\ Len(lines[f]) \in Nat
    BY DEF Typed, TypedLines, TypedData, TypedStrays
  <1>2. \A g \in Files \ {f} :
             lines'[g] = lines[g] /\ files'[g] = files[g] /\ strays'[g] = strays[g]
    BY LineSteps
  <1>3. CASE OpenFile(f)
    <2>1. PICK l : l = [lines[f] EXCEPT ![1].open = TRUE]
      OBVIOUS
    <2>2. /\ SameWrites(l, lines[f])
          /\ \A n \in 1 .. Len(lines[f]) : n # 1 => l[n].open = lines[f][n].open
      BY <1>1, <1>3, <2>1, OpenedLine DEF OpenFile
    <2>3. lines'[f] = l /\ files'[f] = Torn /\ strays' = strays /\ lines[f] # <<>>
      BY <1>1, <1>3, <2>1 DEF OpenFile
    <2>4. Shifted(f, 0)
      BY <1>1, <2>2, <2>3 DEF Shifted, SameWrites
    <2> QED BY <1>2, <2>4
  <1>4. CASE WriteFile(f) \/ FailFile(f)
    <2>1. /\ lines[f] # <<>> /\ lines'[f] = Tail(lines[f]) /\ strays' = strays
          /\ Head(lines[f]).open
          /\ \/ files'[f] = files[f]
             \/ files'[f] = Torn
             \/ WriteFile(f) /\ files'[f] = Head(lines[f]).value
      BY <1>1, <1>4 DEF WriteFile, FailFile
    <2>2. /\ Len(lines'[f]) = Len(lines[f]) - 1 /\ Len(lines[f]) \in Nat \ {0}
          /\ \A n \in 1 .. Len(lines'[f]) : lines'[f][n] = lines[f][n + 1]
          /\ Head(lines[f]) = lines[f][1]
      BY <2>1, HeadTyped DEF Typed
    <2>3. Shifted(f, 1)
      BY <1>1, <2>1, <2>2 DEF Shifted
    <2> QED BY <1>2, <2>3
  <1>5. CASE StrayWrites(f)
    <2>1. /\ strays'[f] \subseteq strays[f] /\ strays[f] # {}
          /\ files'[f] = Torn \/ files'[f] \in strays[f]
      BY <1>1, <1>5 DEF StrayWrites
    <2>2. \/ lines'[f] = lines[f]
          \/ /\ SameWrites(lines'[f], lines[f])
             /\ \A n \in 1 .. Len(lines[f]) : lines'[f][n].open = lines[f][n].open
      <3>1. CASE lines' = lines
        BY <3>1
      <3>2. CASE lines[f] # <<>> /\ lines' = [lines EXCEPT ![f][1].mixed = TRUE]
        <4>1. PICK l : l = [lines[f] EXCEPT ![1].mixed = TRUE]
          OBVIOUS
        <4>2. SameWrites(l, lines[f]) /\ \A n \in 1 .. Len(lines[f]) : l[n].open = lines[f][n].open
          BY <1>1, <3>2, <4>1, MixedLine
        <4>3. lines'[f] = l
          BY <1>1, <3>2, <4>1
        <4> QED BY <4>2, <4>3
      <3> QED BY <1>5, <3>1, <3>2 DEF StrayWrites
    <2>3. Shifted(f, 0)
      BY <1>1, <2>1, <2>2 DEF Shifted, SameWrites
    <2> QED BY <1>2, <2>3
  <1> QED BY <1>3, <1>4, <1>5

(* A thread goes on; where a write raises, its send goes back to the       *)
(* commit, or raises.                                                      *)
WriteRaises(f, t) ==
    /\ 1 \in 1 .. Len(lines[f]) /\ t = lines[f][1].task /\ files' = files
    /\ pc'[t] \in {"commit", "raise"}
    /\ \A n \in 1 .. Len(lines'[f]) : lines'[f][n].task # t

LEMMA ThreadsGo ==
    ASSUME Typed, Sharing, NEW f \in Files,
           OpenFile(f) \/ WriteFile(f) \/ FailFile(f) \/ StrayWrites(f),
           UNCHANGED <<transactional, memo, skdm, due, attempt, ctx, left, spared, keyed>>,
           \A t \in Sends : pc'[t] = pc[t] \/ WriteRaises(f, t)
    PROVE  Sharing'
  <1>0. /\ Record \in Files /\ Memory \in Files /\ Record # Memory /\ Files = {Record, Memory}
        /\ left \subseteq Sends
    BY TwoFiles DEF Typed, TypedSends
  <1>1. PICK k \in {0, 1} :
          /\ Shifted(f, k)
          /\ \A g \in Files \ {f} :
               lines'[g] = lines[g] /\ files'[g] = files[g] /\ strays'[g] = strays[g]
    BY LineShifts
  <1>2. \A g \in Files : \A n \in 1 .. Len(lines'[g]) : \E m \in 1 .. Len(lines[g]) :
          lines'[g][n].task = lines[g][m].task /\ lines'[g][n].value = lines[g][m].value
    <2> TAKE g \in Files
    <2> TAKE n \in 1 .. Len(lines'[g])
    <2>1. CASE g = f
      <3>1. n + k \in 1 .. Len(lines[f])
        BY <1>1, <2>1 DEF Shifted
      <3> QED BY <1>1, <2>1, <3>1 DEF Shifted
    <2>2. CASE g # f
      BY <1>1, <2>2
    <2> QED BY <2>1, <2>2
  <1>3. \A t \in Sends : WriteRaises(f, t) => pc[t] \in Committing
    BY <1>0 DEF WriteRaises, Sharing, Waiting
  <1>4. \A t \in Sends : pc'[t] = pc[t] \/ pc'[t] \in {"commit", "raise"}
    BY DEF WriteRaises
  <1>5. files[Record] # Absent => files'[Record] # Absent
    <2>1. CASE f = Record
      <3>1. files'[f] = files[f] \/ files'[f] = Torn \/ files'[f] \in OwnRecords \cup {<<>>}
        <4>1. strays[f] \subseteq OwnRecords \cup {<<>>}
          BY <2>1 DEF Typed, TypedStrays, Contents
        <4>2. 1 \in 1 .. Len(lines[f]) => lines[f][1].value \in OwnRecords \cup {<<>>}
          BY <2>1, Writer DEF Typed, Contents
        <4> QED BY <1>1, <4>1, <4>2 DEF Shifted
      <3> QED BY <2>1, <3>1, NoFileNoVersion, NotEmpty, ContentsAssumption
    <2>2. CASE f # Record
      BY <1>0, <1>1, <2>2
    <2> QED BY <2>1, <2>2
  <1>6. f = Record /\ k = 1 => files[Record] # Absent
    BY <1>1 DEF Shifted, Sharing, NoRecord
  <1>7. Ids' \subseteq Ids /\ OneId'
    <2>1. files'[Record] \in Versions \cup {Torn}
      <3>1. CASE f = Record
        <4>1. 1 \in 1 .. Len(lines[Record]) => lines[Record][1].value \in Versions
          BY DEF Versions
        <4>2. strays[Record] \subseteq Versions /\ files[Record] \in Versions
          BY DEF Versions
        <4> QED BY <1>1, <3>1, <4>1, <4>2 DEF Shifted
      <3>2. CASE f # Record
        BY <1>0, <1>1, <3>2 DEF Versions
      <3> QED BY <3>1, <3>2
    <2>2. strays'[Record] \subseteq Versions
      BY <1>0, <1>1 DEF Versions, Shifted
    <2>3. \A n \in 1 .. Len(lines'[Record]) : lines'[Record][n].value \in Versions
      <3> TAKE n \in 1 .. Len(lines'[Record])
      <3>1. PICK m \in 1 .. Len(lines[Record]) : lines'[Record][n].value = lines[Record][m].value
        BY <1>0, <1>2
      <3> QED BY <3>1 DEF Versions
    <2>4. {ctx'[g] : g \in DOMAIN ctx' \cap {Record}} \subseteq Versions
      BY DEF Versions
    <2>5. Versions' \subseteq Versions \cup {Torn}
      <3>1. PICK W : W = Versions
        OBVIOUS
      <3>2. {lines'[Record][n].value : n \in 1 .. Len(lines'[Record])} \subseteq W
        BY <2>3, <3>1
      <3>3. Versions' = {files'[Record]} \cup strays'[Record]
              \cup {lines'[Record][n].value : n \in 1 .. Len(lines'[Record])}
              \cup {ctx'[g] : g \in DOMAIN ctx' \cap {Record}}
        BY DEF Versions
      <3> QED BY <2>1, <2>2, <2>4, <3>1, <3>2, <3>3
    <2> QED BY <2>5, SameVersionIds DEF Sharing
  <1>8. NoRecord'
    <2> SUFFICES ASSUME files'[Record] = Absent
                 PROVE  /\ strays'[Record] = {}
                        /\ \A n \in 1 .. Len(lines'[Record]) : ~lines'[Record][n].open
      BY DEF NoRecord
    <2>1. /\ strays[Record] = {}
          /\ \A n \in 1 .. Len(lines[Record]) : ~lines[Record][n].open
      BY <1>5 DEF Sharing, NoRecord
    <2> QED BY <1>0, <1>1, <2>1, ContentsAssumption DEF Shifted
  <1>9. Remembering' => Remembering
    <2>1. lines'[Memory] # <<>> \/ strays'[Memory] # {} \/ files'[Memory] # Absent
          => lines[Memory] # <<>> \/ strays[Memory] # {} \/ files[Memory] # Absent
      <3>1. CASE f = Memory
        <4> SUFFICES ASSUME lines[f] = <<>>, strays[f] = {}
                     PROVE  lines'[f] = <<>> /\ strays'[f] = {} /\ files'[f] = files[f]
          BY <3>1
        <4>1. Len(lines[f]) = 0
          OBVIOUS
        <4>2. k = 0 /\ Len(lines'[f]) = 0
          BY <1>1, <4>1 DEF Shifted
        <4>3. lines'[f] = <<>>
          <5>1. lines'[f] \in Seq(Writes(f))
            <6>1. lines[f] \in Seq(Writes(f))
              BY DEF Typed, TypedLines
            <6>2. lines' = lines
              BY DEF OpenFile, WriteFile, FailFile, StrayWrites
            <6> QED BY <6>1, <6>2
          <5> QED BY <4>2, <5>1, EmptySeq
        <4> QED BY <1>1, <4>3 DEF Shifted
      <3>2. CASE f # Memory
        BY <1>0, <1>1, <3>2
      <3> QED BY <3>1, <3>2
    <2>2. \A t \in Sends : Recalling(t)' => Recalling(t)
      BY <1>4 DEF Recalling
    <2> QED BY <2>1, <2>2 DEF Remembering
  <1>10. f = Record /\ k = 0 /\ lines[Record] # <<>> =>
           lines'[Record] # <<>> /\ lines'[Record][1].task = lines[Record][1].task
    <2> SUFFICES ASSUME f = Record, k = 0, lines[Record] # <<>>
                 PROVE  lines'[Record] # <<>> /\ lines'[Record][1].task = lines[Record][1].task
      OBVIOUS
    <2>1. Len(lines[Record]) \in Nat \ {0}
      BY <1>0, EmptySeq DEF Typed, TypedLines
    <2>2. Len(lines'[Record]) = Len(lines[Record]) /\ 1 \in 1 .. Len(lines'[Record])
      BY <1>1, <2>1 DEF Shifted
    <2>3. lines'[Record][1].task = lines[Record][1 + 0].task
      BY <1>1, <2>2 DEF Shifted
    <2>4. lines'[Record] # <<>>
      BY <2>1, <2>2
    <2> QED BY <2>3, <2>4
  <1>11. RecordFirst'
    <2> SUFFICES ASSUME Remembering'
                 PROVE  files'[Record] # Absent \/ lines'[Record] # <<>>
      BY DEF RecordFirst
    <2>1. files[Record] # Absent \/ lines[Record] # <<>>
      BY <1>9 DEF Sharing, RecordFirst
    <2> QED BY <1>0, <1>1, <1>5, <1>6, <1>10, <2>1
  <1>12. SameKey'
    <2>1. \A t \in Sends : Distributes(t)' => Distributes(t)
      BY <1>4 DEF Distributes
    <2> QED BY <1>7, <2>1 DEF SameKey, Sharing, Distributions
  <1>13. \A g \in Files : \A n \in 1 .. Len(lines[g]) : lines[g][n].task \in Sends
    BY Writer DEF Typed
  <1>17. Waiting'
    <2>1. \A t \in left' : pc'[t] \in Committing \cup {"sent", "failed"}
      BY <1>0, <1>4 DEF Sharing, Waiting, Committing
    <2>2. \A g \in Files : \A n \in 1 .. Len(lines'[g]) :
             attempt[lines'[g][n].task] > 0 /\ pc'[lines'[g][n].task] \in Committing
      <3> TAKE g \in Files
      <3> TAKE n \in 1 .. Len(lines'[g])
      <3>1. PICK t \in Sends : t = lines'[g][n].task /\ attempt[t] > 0 /\ pc[t] \in Committing
        BY <1>2, <1>13, SMTT(60) DEF Sharing, Waiting
      <3>2. pc'[t] \in Committing
        BY <1>4, <3>1 DEF Committing
      <3> QED BY <3>1, <3>2
    <2>3. Memory \in DOMAIN ctx => \E t \in Sends : pc'[t] \in Committing \cup {"send"}
      BY <1>4 DEF Sharing, Waiting, Committing
    <2> QED BY <2>1, <2>2, <2>3 DEF Waiting, Committing
  <1>19. \A t \in Sends : \A d, id : Told(t, d, id)' <=> Told(t, d, id)
    BY DEF Told
  <1>20. \A d, id : Known(d, id) => Known(d, id)'
    <2>1. ASSUME NEW t \in left, NEW d, NEW id, Told(t, d, id) PROVE Known(d, id)'
      BY <1>0, <1>19, <2>1 DEF Known
    <2> QED BY <2>1, KnownKept
  <1>21. \A t \in Sends : \A d, id : KnownSoon(t, d, id) /\ ~WriteRaises(f, t) =>
           KnownSoon(t, d, id)'
    BY <1>19, <1>20 DEF KnownSoon
  <1>22. ASSUME NEW id \in Ids PROVE KnownFiles(id)' /\ KnownHands(id)' /\ KnownContext(id)'
    <2>0. KnownFiles(id) /\ KnownHands(id) /\ KnownContext(id)
      BY DEF Sharing
    <2>1. ASSUME NEW n \in 1 .. Len(lines'[Memory]), NEW d \in lines'[Memory][n].value
          PROVE  KnownSoon(lines[Memory][n].task, d, id)'
      <3>1. PICK m \in 1 .. Len(lines[Memory]) :
              /\ lines'[Memory][n].task = lines[Memory][m].task
              /\ lines'[Memory][n].value = lines[Memory][m].value
        BY <1>0, <1>2
      <3>2. PICK t \in Sends : t = lines[Memory][m].task
        BY <1>0, <1>13
      <3>3. KnownSoon(t, d, id)
        BY <2>0, <2>1, <3>1, <3>2 DEF KnownFiles
      <3>4. KnownSoon(t, d, id)'
        <4>1. CASE Known(d, id)
          BY <1>20, <4>1 DEF KnownSoon
        <4>2. CASE ~Known(d, id)
          <5>1. pc[t] = "send"
            BY <3>3, <4>2 DEF KnownSoon
          <5>2. ~WriteRaises(f, t)
            BY <1>0, <1>3, <3>1, <3>2, <5>1 DEF WriteRaises, Committing
          <5> QED BY <1>21, <3>3, <5>2
        <4> QED BY <4>1, <4>2
      <3>5. lines'[Memory][n].task = t
        BY <3>1, <3>2
      <3> QED BY <3>4, <3>5
    <2>2. \A x \in strays'[Memory] : \A d \in x : Known(d, id)'
      BY <1>0, <1>1, <1>20, <2>0 DEF KnownFiles, Shifted
    <2>3. ASSUME files'[Memory] \in SUBSET Devices, NEW d \in files'[Memory]
          PROVE  Known(d, id)'
      <3>1. CASE files'[Memory] = files[Memory]
        BY <1>20, <2>0, <2>3, <3>1 DEF KnownFiles
      <3>2. CASE files'[Memory] # files[Memory]
        <4>1. f = Memory
          BY <1>0, <1>1, <3>2
        <4>2. \/ files'[Memory] \in strays[Memory]
              \/ k = 1 /\ files'[Memory] = lines[Memory][1].value
          BY <1>1, <2>3, <3>2, <4>1, TornNotKnown DEF Shifted
        <4>3. CASE files'[Memory] \in strays[Memory]
          BY <1>20, <2>0, <2>3, <4>3 DEF KnownFiles
        <4>4. CASE k = 1 /\ files'[Memory] = lines[Memory][1].value
          <5>1. 1 \in 1 .. Len(lines[Memory])
            BY <1>1, <4>1, <4>4 DEF Shifted
          <5>2. PICK t \in Sends : t = lines[Memory][1].task
            BY <1>0, <1>13, <5>1
          <5>3. KnownSoon(t, d, id) /\ pc[t] # "send"
            BY <1>0, <2>0, <2>3, <4>4, <5>1, <5>2
               DEF KnownFiles, Sharing, Waiting, Committing
          <5> QED BY <1>20, <5>3 DEF KnownSoon
        <4> QED BY <4>2, <4>3, <4>4
      <3> QED BY <3>1, <3>2
    <2>4. KnownFiles(id)'
      BY <2>1, <2>2, <2>3 DEF KnownFiles
    <2>5. ASSUME NEW t \in Sends
          PROVE  /\ Recalling(t)' => \A d \in memo[t] : Known(d, id)'
                 /\ pc'[t] = "remember" => \A d \in memo[t] : Known(d, id)' \/ Told(t, d, id)'
      <3>1. Recalling(t)' => Recalling(t)
        BY <1>4 DEF Recalling
      <3>2. pc'[t] = "remember" => pc[t] = "remember"
        BY <1>4
      <3> QED BY <1>19, <1>20, <2>0, <3>1, <3>2 DEF KnownHands
    <2>6. KnownHands(id)'
      BY <2>5 DEF KnownHands
    <2>7. ASSUME Memory \in DOMAIN ctx, NEW d \in ctx[Memory]
          PROVE  \E t \in Sends : KnownSoon(t, d, id)'
      <3>1. PICK t \in Sends : KnownSoon(t, d, id)
        BY <2>0, <2>7 DEF KnownContext
      <3>2. WriteRaises(f, t) => pc[t] # "send"
        BY <1>3 DEF Committing
      <3> QED BY <1>19, <1>20, <1>21, <3>1, <3>2 DEF KnownSoon
    <2>8. KnownContext(id)'
      BY <2>7 DEF KnownContext
    <2> QED BY <2>4, <2>6, <2>8
  <1> QED BY <1>7, <1>8, <1>11, <1>12, <1>17, <1>22 DEF Sharing

LEMMA FailGoes ==
    ASSUME Typed, Sharing, NEW f \in Files, FailWrite(f)
    PROVE  Sharing'
  <1>1. PICK s : s = Head(lines[f]).task
    OBVIOUS
  <1>2. /\ FailFile(f)
        /\ UNCHANGED <<transactional, memo, skdm, due, attempt, ctx, left, spared, keyed>>
        /\ IF Heard(f, s)
           THEN Goto(s, IF transactional /\ attempt[s] < Attempts THEN "commit" ELSE "raise")
           ELSE pc' = pc
    BY <1>1 DEF FailWrite, history, peers
  <1>3. /\ lines[f] # <<>> /\ lines'[f] = Tail(lines[f]) /\ files' = files
        /\ s = lines[f][1].task /\ s \in Sends /\ 1 \in 1 .. Len(lines[f])
        /\ Len(lines[f]) \in Nat /\ Len(Tail(lines[f])) = Len(lines[f]) - 1
        /\ \A n \in 1 .. Len(Tail(lines[f])) : Tail(lines[f])[n] = lines[f][n + 1]
    BY <1>1, <1>2, HeadTyped DEF FailFile, Typed, TypedLines
  <1>4. pc \in [Sends -> Places]
    BY DEF Typed, TypedSends
  <1>5. ASSUME NEW t \in Sends PROVE pc'[t] = pc[t] \/ WriteRaises(f, t)
    <2> SUFFICES ASSUME pc'[t] # pc[t] PROVE WriteRaises(f, t)
      OBVIOUS
    <2>1. /\ Heard(f, s) /\ t = s
          /\ pc'[t] = IF transactional /\ attempt[s] < Attempts THEN "commit" ELSE "raise"
      BY <1>2, <1>3, <1>4 DEF Goto
    <2>2. \A n \in 1 .. Len(lines'[f]) : lines'[f][n].task # t
      BY <1>3, <2>1 DEF Heard
    <2> QED BY <1>3, <2>1, <2>2 DEF WriteRaises
  <1> QED BY <1>2, <1>5, ThreadsGo

(* A transaction commits: its send has the record in it, so that the       *)
(* memory is never written without.                                        *)
LEMMA CommitGoes ==
    ASSUME Typed, TypedDevices, transactional => Inv, Sharing, NEW s \in Sends, Commit(s)
    PROVE  Sharing'
  <1>0. /\ pc \in [Sends -> Places] /\ left \subseteq Sends /\ attempt \in [Sends -> Nat]
        /\ Record \in Files /\ Memory \in Files /\ Record # Memory /\ Files = {Record, Memory}
    BY TwoFiles DEF Typed, TypedSends, TypedDevices
  <1>1. /\ pc[s] = "commit" /\ pc' = [pc EXCEPT ![s] = "committing"]
        /\ attempt' = [attempt EXCEPT ![s] = @ + 1]
        /\ UNCHANGED <<files, strays, transactional, memo, skdm, due, ctx, left, spared, keyed>>
        /\ \A f \in Files : lines'[f] = IF f \in DOMAIN ctx
                                        THEN Append(lines[f], Job(s, ctx[f])) ELSE lines[f]
    BY DEF Commit, Goto, history, peers
  <1>2. pc'[s] = "committing" /\ \A t \in Sends \ {s} : pc'[t] = pc[t]
    BY <1>0, <1>1
  <1>3. attempt'[s] > 0 /\ \A t \in Sends \ {s} : attempt'[t] = attempt[t]
    BY <1>0, <1>1
  <1>4. ASSUME NEW f \in Files
        PROVE  /\ f \in DOMAIN ctx => lines'[f] # <<>>
               /\ \A n \in 1 .. Len(lines'[f]) :
                    \/ n \in 1 .. Len(lines[f]) /\ lines'[f][n] = lines[f][n]
                    \/ /\ f \in DOMAIN ctx /\ lines'[f][n].task = s
                       /\ lines'[f][n].value = ctx[f] /\ ~lines'[f][n].open
    <2>1. CASE f \notin DOMAIN ctx
      BY <1>1, <2>1
    <2>2. CASE f \in DOMAIN ctx
      <3>1. lines[f] \in Seq(Writes(f)) /\ ctx[f] \in Contents(f)
        BY <2>2 DEF Typed, TypedLines, TypedContext
      <3>2. PICK job \in Writes(f) : job = Job(s, ctx[f])
        BY <3>1 DEF Job, Writes
      <3>3. job.task = s /\ job.value = ctx[f] /\ ~job.open
        BY <3>2 DEF Job
      <3>4. PICK line \in Seq(Writes(f)) : line = lines[f]
        BY <3>1
      <3>6. /\ Append(line, job) # <<>>
            /\ Len(Append(line, job)) = Len(line) + 1 /\ Append(line, job)[Len(line) + 1] = job
            /\ \A n \in 1 .. Len(line) : Append(line, job)[n] = line[n]
            /\ Len(line) \in Nat
        BY AppendProperties
      <3>5. lines'[f] = Append(line, job)
        BY <1>1, <2>2, <3>2, <3>4
      <3> QED BY <2>2, <3>3, <3>4, <3>5, <3>6
    <2> QED BY <2>1, <2>2
  <1>5. Record \in DOMAIN ctx
    BY <1>1 DEF Sharing, Inv, Alone, Holding
  <1>6. Ids' \subseteq Ids /\ OneId'
    <2>1. \A n \in 1 .. Len(lines'[Record]) : lines'[Record][n].value \in Versions
      <3> TAKE n \in 1 .. Len(lines'[Record])
      <3>1. CASE n \in 1 .. Len(lines[Record]) /\ lines'[Record][n] = lines[Record][n]
        BY <3>1 DEF Versions
      <3>2. CASE lines'[Record][n].value = ctx[Record]
        <4>1. ctx[Record] \in {ctx[g] : g \in DOMAIN ctx \cap {Record}}
          BY <1>5
        <4> QED BY <3>2, <4>1 DEF Versions
      <3> QED BY <1>0, <1>4, <3>1, <3>2
    <2>2. PICK W : W = Versions
      OBVIOUS
    <2>3. {lines'[Record][n].value : n \in 1 .. Len(lines'[Record])} \subseteq W
      BY <2>1, <2>2
    <2>4. /\ files[Record] \in W /\ strays[Record] \subseteq W
          /\ {ctx[g] : g \in DOMAIN ctx \cap {Record}} \subseteq W
      BY <2>2 DEF Versions
    <2>5. Versions' = {files[Record]} \cup strays[Record]
            \cup {lines'[Record][n].value : n \in 1 .. Len(lines'[Record])}
            \cup {ctx[g] : g \in DOMAIN ctx \cap {Record}}
      BY <1>1 DEF Versions
    <2>6. Versions' \subseteq Versions
      BY <2>2, <2>3, <2>4, <2>5
    <2> QED BY <2>6, SameVersionIds DEF Sharing
  <1>7. NoRecord'
    BY <1>0, <1>1, <1>4 DEF Sharing, NoRecord
  <1>8. RecordFirst'
    BY <1>0, <1>1, <1>4, <1>5 DEF RecordFirst
  <1>9. SameKey'
    <2>1. \A t \in Sends : Distributes(t)' => Distributes(t)
      BY <1>2 DEF Distributes
    <2> QED BY <1>1, <1>6, <2>1 DEF SameKey, Sharing, Distributions
  <1>10. Waiting'
    <2>1. \A t \in left' : pc'[t] \in Committing \cup {"sent", "failed"}
      BY <1>0, <1>1, <1>2 DEF Sharing, Waiting, Committing
    <2>2. \A f \in Files : \A n \in 1 .. Len(lines'[f]) :
            attempt'[lines'[f][n].task] > 0 /\ pc'[lines'[f][n].task] \in Committing
      <3> TAKE f \in Files
      <3> TAKE n \in 1 .. Len(lines'[f])
      <3>1. CASE lines'[f][n].task = s
        BY <1>2, <1>3, <3>1 DEF Committing
      <3>2. CASE lines'[f][n].task # s
        <4>1. n \in 1 .. Len(lines[f]) /\ lines'[f][n] = lines[f][n]
          BY <1>4, <3>2
        <4>2. PICK t \in Sends \ {s} : t = lines[f][n].task
          BY <3>2, <4>1, Writer DEF Typed
        <4>3. attempt[t] > 0 /\ pc[t] \in Committing
          BY <4>1, <4>2 DEF Sharing, Waiting
        <4> QED BY <1>2, <1>3, <4>1, <4>2, <4>3
      <3> QED BY <3>1, <3>2
    <2>3. \E t \in Sends : pc'[t] \in Committing \cup {"send"}
      BY <1>2 DEF Committing
    <2> QED BY <1>1, <2>1, <2>2, <2>3 DEF Waiting, Committing
  <1>11. \A t \in Sends : \A d, id : Told(t, d, id)' <=> Told(t, d, id)
    BY <1>1 DEF Told
  <1>12. \A d, id : Known(d, id) => Known(d, id)'
    <2>1. ASSUME NEW t \in left, NEW d, NEW id, Told(t, d, id) PROVE Known(d, id)'
      BY <1>0, <1>1, <1>11, <2>1 DEF Known
    <2> QED BY <1>1, <2>1, KnownKept
  <1>13. \A t \in Sends : pc[t] # "send"
    BY <1>1 DEF Sharing, Inv, Alone, Ended
  <1>14. ASSUME NEW id \in Ids PROVE KnownFiles(id)' /\ KnownHands(id)' /\ KnownContext(id)'
    <2>0. KnownFiles(id) /\ KnownHands(id) /\ KnownContext(id)
      BY DEF Sharing
    <2>1. Memory \in DOMAIN ctx => \A d \in ctx[Memory] : Known(d, id)
      BY <1>13, <2>0 DEF KnownContext, KnownSoon
    <2>2. \A n \in 1 .. Len(lines[Memory]) : \A d \in lines[Memory][n].value : Known(d, id)
      <3> TAKE n \in 1 .. Len(lines[Memory])
      <3>1. lines[Memory][n].task \in Sends
        BY <1>0, Writer DEF Typed
      <3> QED BY <1>13, <2>0, <3>1 DEF KnownFiles, KnownSoon
    <2>3. \A n \in 1 .. Len(lines'[Memory]) : \A d \in lines'[Memory][n].value : Known(d, id)
      BY <1>0, <1>4, <2>1, <2>2
    <2>4. KnownFiles(id)'
      BY <1>1, <1>12, <2>0, <2>3 DEF KnownFiles, KnownSoon
    <2>5. KnownHands(id)'
      BY <1>1, <1>2, <1>11, <1>12, <2>0 DEF KnownHands, Recalling
    <2>6. KnownContext(id)'
      BY <1>1, <1>12, <2>1 DEF KnownContext, KnownSoon
    <2> QED BY <2>4, <2>5, <2>6
  <1> QED BY <1>1, <1>6, <1>7, <1>8, <1>9, <1>10, <1>14 DEF Sharing

(* What a task that is cancelled leaves behind. *)
LEMMA AbandonLines ==
    ASSUME Typed, NEW s \in Sends, Abandon(s), NEW f \in Files
    PROVE  /\ \A n \in 1 .. Len(lines'[f]) : \E m \in n .. Len(lines[f]) :
                /\ m \in 1 .. Len(lines[f])
                /\ lines'[f][n] = lines[f][m] /\ lines[f][m].task \in Sends \ {s}
           /\ lines[f] # <<>> /\ lines[f][1].task # s =>
                lines'[f] # <<>> /\ lines'[f][1] = lines[f][1]
           /\ \A x \in strays'[f] :
                \/ x \in strays[f]
                \/ /\ 1 \in 1 .. Len(lines[f]) /\ lines[f][1].open
                   /\ lines[f][1].task = s /\ lines[f][1].value = x
           /\ lines[f] = <<>> => lines'[f] = <<>>
  <1>1. PICK line \in Seq(Writes(f)) : line = lines[f]
    BY DEF Typed, TypedLines
  <1>2. PICK new \in Seq(Writes(f)) : new = lines'[f] /\ Comes(line, s, new, Len(line))
    <2>1. lines'[f] = Without(line, s)
      BY <1>1 DEF Abandon
    <2> QED BY <2>1, WithoutFacts
  <1>3. ASSUME NEW n \in 1 .. Len(new)
        PROVE  \E m \in n .. Len(line) :
                 m \in 1 .. Len(line) /\ new[n] = line[m] /\ line[m].task \in Sends \ {s}
    <2>1. PICK m \in n .. Len(line) : new[n] = line[m] /\ line[m].task # s
      BY <1>2 DEF Comes
    <2>2. m \in 1 .. Len(line)
      OBVIOUS
    <2>3. line[m].task \in Sends
      BY <1>1, <2>2, Writer DEF Typed
    <2> QED BY <2>1, <2>2, <2>3
  <1>4. line # <<>> /\ line[1].task # s => new # <<>> /\ new[1] = line[1]
    <2>1. line # <<>> => 1 <= Len(line)
      BY EmptySeq
    <2> QED BY <1>2, <2>1 DEF Comes
  <1>6. \A x \in strays'[f] :
          \/ x \in strays[f]
          \/ /\ 1 \in 1 .. Len(line) /\ line[1].open
             /\ line[1].task = s /\ line[1].value = x
    <2>1. strays'[f] = IF line # <<>> /\ Head(line).open /\ Head(line).task = s
                       THEN strays[f] \cup {Head(line).value} ELSE strays[f]
      BY <1>1 DEF Abandon
    <2>2. line # <<>> => 1 \in 1 .. Len(line) /\ Head(line) = line[1]
      BY EmptySeq
    <2> QED BY <2>1, <2>2
  <1>7. line = <<>> => new = <<>>
    <2>1. line = <<>> => Len(new) = 0
      <3> SUFFICES ASSUME line = <<>>, Len(new) # 0 PROVE FALSE
        OBVIOUS
      <3>1. 1 \in 1 .. Len(new) /\ Len(line) = 0
        BY EmptySeq
      <3> QED BY <1>3, <3>1
    <2> QED BY <2>1, EmptySeq
  <1> QED BY <1>1, <1>2, <1>3, <1>4, <1>6, <1>7

LEMMA CancelGoes ==
    ASSUME Typed, Sharing, NEW s \in Sends, Cancel(s), ~cut'
    PROVE  Sharing'
  <1>0. /\ pc \in [Sends -> Places] /\ left \subseteq Sends
        /\ Record \in Files /\ Memory \in Files /\ Record # Memory /\ Files = {Record, Memory}
    BY TwoFiles DEF Typed, TypedSends
  <1>1. /\ Abandon(s) /\ ~(attempt[s] > 0) /\ pc' = [pc EXCEPT ![s] = "failed"]
        /\ DOMAIN ctx' = {} /\ files' = files
        /\ UNCHANGED <<transactional, memo, skdm, due, attempt, left, keyed>>
        /\ spared \subseteq spared'
        /\ pc[s] = "send" /\ s \notin left => Unsent(s) \subseteq spared'
    BY DEF Cancel, Goto, Lost, Nothing, Abandon, peers
  <1>2. pc'[s] = "failed" /\ \A t \in Sends \ {s} : pc'[t] = pc[t]
    BY <1>0, <1>1
  <1>3. \A f \in Files : \A n \in 1 .. Len(lines[f]) : lines[f][n].task # s
    BY <1>1 DEF Sharing, Waiting
  <1>4. Ids' \subseteq Ids /\ OneId'
    <2>1. PICK W : W = Versions
      OBVIOUS
    <2>2. /\ files[Record] \in W /\ strays[Record] \subseteq W
          /\ \A n \in 1 .. Len(lines[Record]) : lines[Record][n].value \in W
      BY <2>1 DEF Versions
    <2>3. strays'[Record] \subseteq W
      BY <1>0, <1>1, <2>2, AbandonLines
    <2>4. {lines'[Record][n].value : n \in 1 .. Len(lines'[Record])} \subseteq W
      <3>1. \A n \in 1 .. Len(lines'[Record]) : lines'[Record][n].value \in W
        BY <1>0, <1>1, <2>2, AbandonLines
      <3> QED BY <3>1
    <2>5. Versions' = {files[Record]} \cup strays'[Record]
            \cup {lines'[Record][n].value : n \in 1 .. Len(lines'[Record])}
      BY <1>1 DEF Versions
    <2>6. Versions' \subseteq Versions
      BY <2>1, <2>2, <2>3, <2>4, <2>5
    <2> QED BY <2>6, SameVersionIds DEF Sharing
  <1>5. NoRecord'
    <2> SUFFICES ASSUME files[Record] = Absent
                 PROVE  /\ strays'[Record] = {}
                        /\ \A n \in 1 .. Len(lines'[Record]) : ~lines'[Record][n].open
      BY <1>1 DEF NoRecord
    <2>1. strays[Record] = {} /\ \A n \in 1 .. Len(lines[Record]) : ~lines[Record][n].open
      BY DEF Sharing, NoRecord
    <2>2. \A x \in strays'[Record] : FALSE
      BY <1>0, <1>1, <2>1, AbandonLines
    <2>3. ASSUME NEW n \in 1 .. Len(lines'[Record]) PROVE ~lines'[Record][n].open
      <3>1. PICK m \in 1 .. Len(lines[Record]) : lines'[Record][n] = lines[Record][m]
        BY <1>0, <1>1, AbandonLines
      <3> QED BY <2>1, <3>1
    <2> QED BY <2>2, <2>3
  <1>6. Remembering' => Remembering
    <2>1. /\ lines'[Memory] # <<>> => lines[Memory] # <<>>
          /\ strays'[Memory] # {} => strays[Memory] # {} \/ lines[Memory] # <<>>
      BY <1>0, <1>1, AbandonLines
    <2>2. \A t \in Sends : Recalling(t)' => Recalling(t)
      BY <1>2 DEF Recalling
    <2> QED BY <1>1, <2>1, <2>2 DEF Remembering
  <1>8. RecordFirst'
    <2> SUFFICES ASSUME Remembering' PROVE files[Record] # Absent \/ lines'[Record] # <<>>
      BY <1>1 DEF RecordFirst
    <2>1. files[Record] # Absent \/ lines[Record] # <<>>
      BY <1>6 DEF Sharing, RecordFirst
    <2>2. lines[Record] # <<>> => lines[Record][1].task # s
      <3>1. lines[Record] # <<>> => 1 \in 1 .. Len(lines[Record])
        BY <1>0, EmptySeq DEF Typed, TypedLines
      <3> QED BY <1>0, <1>3, <3>1
    <2> QED BY <1>0, <1>1, <2>1, <2>2, AbandonLines
  <1>9. SameKey'
    <2>1. \A t \in Sends : Distributes(t)' => Distributes(t)
      BY <1>2 DEF Distributes
    <2> QED BY <1>1, <1>4, <2>1 DEF SameKey, Sharing, Distributions
  <1>10. Waiting'
    <2>1. \A t \in left' : pc'[t] \in Committing \cup {"sent", "failed"}
      BY <1>0, <1>1, <1>2 DEF Sharing, Waiting, Committing
    <2>2. \A f \in Files : \A n \in 1 .. Len(lines'[f]) :
            attempt'[lines'[f][n].task] > 0 /\ pc'[lines'[f][n].task] \in Committing
      <3> TAKE f \in Files
      <3> TAKE n \in 1 .. Len(lines'[f])
      <3>1. PICK m \in 1 .. Len(lines[f]) :
              lines'[f][n] = lines[f][m] /\ lines[f][m].task \in Sends \ {s}
        BY <1>1, AbandonLines
      <3>2. attempt[lines[f][m].task] > 0 /\ pc[lines[f][m].task] \in Committing
        BY DEF Sharing, Waiting
      <3> QED BY <1>1, <1>2, <3>1, <3>2
    <2> QED BY <1>1, <2>1, <2>2 DEF Waiting, Committing
  <1>11. \A t \in Sends : \A d, id : Told(t, d, id)' <=> Told(t, d, id)
    BY <1>1 DEF Told
  <1>13. \A d, id : Known(d, id) => Known(d, id)'
    <2>1. ASSUME NEW t \in left, NEW d, NEW id, Told(t, d, id) PROVE Known(d, id)'
      BY <1>0, <1>1, <1>11, <2>1 DEF Known
    <2> QED BY <1>1, <2>1, KnownKept
  <1>14. ASSUME NEW id \in Ids PROVE KnownFiles(id)' /\ KnownHands(id)' /\ KnownContext(id)'
    <2>0. KnownFiles(id) /\ KnownHands(id)
      BY DEF Sharing
    <2>1. ASSUME NEW n \in 1 .. Len(lines'[Memory]), NEW d \in lines'[Memory][n].value
          PROVE  KnownSoon(lines[Memory][n].task, d, id)'
      <3>1. PICK m \in 1 .. Len(lines[Memory]) :
              lines'[Memory][n] = lines[Memory][m] /\ lines[Memory][m].task \in Sends \ {s}
        BY <1>0, <1>1, AbandonLines
      <3>2. PICK t \in Sends \ {s} : t = lines[Memory][m].task /\ t = lines'[Memory][n].task
        BY <3>1
      <3>3. KnownSoon(t, d, id)
        BY <2>0, <2>1, <3>1, <3>2 DEF KnownFiles
      <3>4. KnownSoon(t, d, id)'
        BY <1>2, <1>11, <1>13, <3>3 DEF KnownSoon
      <3> QED BY <3>2, <3>4
    <2>2. ASSUME NEW x \in strays'[Memory], NEW d \in x PROVE Known(d, id)'
      <3>1. x \in strays[Memory]
        BY <1>0, <1>1, <1>3, <2>2, AbandonLines
      <3> QED BY <1>13, <2>0, <2>2, <3>1 DEF KnownFiles
    <2>3. KnownFiles(id)'
      BY <1>1, <1>13, <2>0, <2>1, <2>2 DEF KnownFiles
    <2>4. KnownHands(id)'
      BY <1>1, <1>2, <1>11, <1>13, <2>0 DEF KnownHands, Recalling
    <2>5. KnownContext(id)'
      BY <1>1 DEF KnownContext
    <2> QED BY <2>3, <2>4, <2>5
  <1> QED BY <1>1, <1>4, <1>5, <1>8, <1>9, <1>10, <1>14 DEF Sharing

(* The process ends where no commit is under way. *)
LEMMA CrashGoes ==
    ASSUME Typed, Sharing, Crash, ~cut'
    PROVE  Sharing'
  <1>0. /\ pc \in [Sends -> Places] /\ left \subseteq Sends
        /\ Record \in Files /\ Memory \in Files /\ Record # Memory /\ Files = {Record, Memory}
    BY TwoFiles DEF Typed, TypedSends
  <1>1. /\ \A f \in Files : lines'[f] = <<>> /\ strays'[f] = {}
        /\ DOMAIN ctx' = {} /\ files' = files
        /\ UNCHANGED <<transactional, memo, skdm, due, left, keyed>>
        /\ spared \subseteq spared'
        /\ \A t \in Sends : ~Ended(t) => ~(attempt[t] > 0)
    BY DEF Crash, CrashFiles, Lost, Nothing, peers
  <1>2. \A t \in Sends : pc'[t] = IF Ended(t) THEN pc[t] ELSE "failed"
    BY DEF Crash
  <1>3. \A t \in Sends : pc'[t] \in {"idle", "sent", "failed"}
    BY <1>2 DEF Ended
  <1>4. Len(lines'[Record]) = 0 /\ Len(lines'[Memory]) = 0
    BY <1>0, <1>1
  <1>5. Ids' \subseteq Ids /\ OneId'
    <2>1. Versions' \subseteq Versions
      BY <1>0, <1>1, <1>4 DEF Versions
    <2> QED BY <2>1, SameVersionIds DEF Sharing
  <1>6. Waiting'
    <2>1. \A t \in left' : pc'[t] \in Committing \cup {"sent", "failed"}
      BY <1>0, <1>1, <1>2 DEF Sharing, Waiting
    <2>2. \A f \in Files : Len(lines'[f]) = 0
      BY <1>0, <1>4
    <2> QED BY <1>0, <1>1, <2>1, <2>2 DEF Waiting, Committing
  <1>7. NoRecord'
    BY <1>0, <1>1, <1>4 DEF NoRecord
  <1>8. RecordFirst'
    <2> SUFFICES ASSUME Remembering' PROVE files[Record] # Absent
      BY <1>1 DEF RecordFirst
    <2>1. \A t \in Sends : ~Recalling(t)'
      BY <1>3 DEF Recalling
    <2>2. Remembering
      BY <1>0, <1>1, <2>1 DEF Remembering
    <2>3. ASSUME lines[Record] # <<>> PROVE FALSE
      <3>1. 1 \in 1 .. Len(lines[Record])
        BY <1>0, <2>3, EmptySeq DEF Typed, TypedLines
      <3>2. PICK t \in Sends : t = lines[Record][1].task
        BY <1>0, <3>1, Writer DEF Typed
      <3>3. attempt[t] > 0 /\ pc[t] \in Committing
        BY <1>0, <3>1, <3>2 DEF Sharing, Waiting
      <3> QED BY <1>1, <3>3 DEF Ended, Committing
    <2> QED BY <2>2, <2>3 DEF Sharing, RecordFirst
  <1>9. SameKey'
    <2>1. \A t \in Sends : ~Distributes(t)'
      BY <1>3 DEF Distributes
    <2> QED BY <2>1 DEF SameKey
  <1>10. \A d, id : Known(d, id) => Known(d, id)'
    <2>1. ASSUME NEW t \in left, NEW d, NEW id, Told(t, d, id) PROVE Known(d, id)'
      BY <1>0, <1>1, <2>1 DEF Known, Told
    <2> QED BY <1>1, <2>1, KnownKept
  <1>11. ASSUME NEW id \in Ids PROVE KnownFiles(id)' /\ KnownHands(id)' /\ KnownContext(id)'
    <2>1. KnownFiles(id)
      BY DEF Sharing
    <2>2. KnownFiles(id)'
      BY <1>0, <1>1, <1>4, <1>10, <2>1 DEF KnownFiles
    <2>3. KnownHands(id)'
      BY <1>3 DEF KnownHands, Recalling
    <2>4. KnownContext(id)'
      BY <1>1 DEF KnownContext
    <2> QED BY <2>2, <2>3, <2>4
  <1> QED BY <1>1, <1>5, <1>6, <1>7, <1>8, <1>9, <1>11 DEF Sharing

(* What happens at the devices. *)
LEMMA DevicesGo ==
    ASSUME Typed, TypedDevices, Sharing,
           UNCHANGED vars \/ \E m \in net : Deliver(m)
    PROVE  Sharing'
  <1>1. UNCHANGED <<files, lines, strays, transactional, pc, memo, skdm, due, attempt, ctx,
                    left, spared>>
    BY DEF Deliver, vars, fileVars, hand, history
  <1>2. \/ keyed' = keyed
        \/ \E e \in Devices : \E k \in Distributions : keyed' = [keyed EXCEPT ![e] = Append(@, k)]
    BY DEF Deliver, vars, peers, TypedDevices
  <1>3. \A d \in Devices : \A n \in DOMAIN keyed[d] :
          n \in DOMAIN keyed'[d] /\ keyed'[d][n] = keyed[d][n]
    <2>1. CASE keyed' = keyed
      BY <2>1
    <2>2. ASSUME NEW e \in Devices, NEW k \in Distributions,
                 keyed' = [keyed EXCEPT ![e] = Append(@, k)]
          PROVE  \A d \in Devices : \A n \in DOMAIN keyed[d] :
                   n \in DOMAIN keyed'[d] /\ keyed'[d][n] = keyed[d][n]
      <3>1. PICK dists \in Seq(Distributions) : dists = keyed[e]
        BY DEF TypedDevices
      <3>2. \A n \in DOMAIN dists :
               n \in DOMAIN Append(dists, k) /\ Append(dists, k)[n] = dists[n]
        BY AppendProperties, LenProperties
      <3>3. /\ keyed'[e] = Append(dists, k)
            /\ \A d \in Devices \ {e} : keyed'[d] = keyed[d]
        BY <2>2, <3>1 DEF TypedDevices
      <3> QED BY <3>1, <3>2, <3>3
    <2> QED BY <1>2, <2>1, <2>2
  <1>4. \A s \in Sends : \A d, id : Told(s, d, id)' <=> Told(s, d, id)
    BY <1>1 DEF Told
  <1>5. \A d \in Devices : \A id : Known(d, id) => Known(d, id)'
    BY <1>1, <1>3, <1>4 DEF Known
  <1>6. \A s \in Sends : \A d \in Devices : \A id : KnownSoon(s, d, id) => KnownSoon(s, d, id)'
    BY <1>1, <1>4, <1>5 DEF KnownSoon
  <1>7. Versions' = Versions
    BY <1>1 DEF Versions
  <1>8. Ids' \subseteq Ids /\ OneId'
    BY <1>7, SameVersionIds DEF Sharing
  <1>9. Waiting' /\ NoRecord' /\ RecordFirst'
    BY <1>1 DEF Sharing, Waiting, Committing, NoRecord, RecordFirst, Remembering, Recalling
  <1>10. SameKey'
    BY <1>1, <1>8 DEF Sharing, SameKey, Distributes, Distributions
  <1>11. ASSUME NEW id \in Ids PROVE KnownFiles(id)' /\ KnownHands(id)' /\ KnownContext(id)'
    <2>0. KnownFiles(id) /\ KnownHands(id) /\ KnownContext(id)
      BY DEF Sharing
    <2>1. /\ strays[Memory] \subseteq SUBSET Devices
          /\ Memory \in DOMAIN ctx => ctx[Memory] \in SUBSET Devices
          /\ \A s \in Sends : memo[s] \in SUBSET Devices
      BY TwoFiles DEF Typed, TypedStrays, TypedContext, TypedSends, Contents
    <2>2. \A n \in 1 .. Len(lines[Memory]) :
             /\ lines[Memory][n].task \in Sends
             /\ lines[Memory][n].value \in SUBSET Devices
      BY TwoFiles, Writer DEF Typed, Contents
    <2>3. KnownFiles(id)'
      <3>1. ASSUME NEW n \in 1 .. Len(lines[Memory]), NEW d \in lines[Memory][n].value
            PROVE  KnownSoon(lines[Memory][n].task, d, id)'
        <4>1. PICK t \in Sends : t = lines[Memory][n].task /\ t = lines'[Memory][n].task
          BY <1>1, <2>2
        <4>2. KnownSoon(t, d, id)
          BY <2>0, <4>1 DEF KnownFiles
        <4>3. KnownSoon(t, d, id)'
          BY <1>6, <2>2, <4>2
        <4> QED BY <4>1, <4>3
      <3> QED BY <1>1, <1>5, <2>0, <2>1, <3>1 DEF KnownFiles
    <2>4. KnownHands(id)'
      BY <1>1, <1>4, <1>5, <2>0, <2>1 DEF KnownHands, Recalling
    <2>5. KnownContext(id)'
      BY <1>1, <1>6, <2>0, <2>1 DEF KnownContext
    <2> QED BY <2>3, <2>4, <2>5
  <1> QED BY <1>1, <1>8, <1>9, <1>10, <1>11 DEF Sharing

LEMMA SharingInit == Init /\ transactional => Sharing
  <1> SUFFICES ASSUME Init, transactional PROVE Sharing
    OBVIOUS
  <1>1. PICK after : after = <<Derived(State(1, 0), 0)>>
    OBVIOUS
  <1>2. after[1].id = 1 /\ after # Absent
    <2>1. State(1, 0) \in StateT /\ State(1, 0).chain <= 0 /\ State(1, 0).id = 1
      BY DEF State, StateT
    <2>2. Derived(State(1, 0), 0) \in StateT /\ Derived(State(1, 0), 0).id = 1
      BY <2>1, KeptKeys
    <2>3. after \in OwnRecords
      BY <1>1, <2>2 DEF OwnRecords
    <2> QED BY <1>1, <2>2, <2>3, NoFileNoVersion
  <1>3. /\ files[Record] = IF ids = 0 THEN Absent ELSE after
        /\ files[Memory] = IF ids = 0 THEN Absent ELSE Devices
    BY <1>1, TwoFiles DEF Init, InitFiles
  <1>4. /\ \A f \in Files : lines[f] = <<>> /\ strays[f] = {}
        /\ DOMAIN ctx = {} /\ left = {} /\ ids \in {0, 1}
        /\ \A s \in Sends : pc[s] = "idle" /\ memo[s] = {}
    BY DEF Init, InitFiles, Nothing
  <1>5. /\ lines[Record] = <<>> /\ lines[Memory] = <<>>
        /\ strays[Record] = {} /\ strays[Memory] = {}
        /\ Len(<<>>) = 0
    BY <1>4, TwoFiles, EmptySeq
  <1>6. \A v \in Versions : v = files[Record]
    BY <1>4, <1>5 DEF Versions
  <1>7. \A id \in Ids : id = 1 /\ ids = 1
    BY <1>2, <1>3, <1>4, <1>6, NoFileNoVersion DEF Ids
  <1>8. ids = 1 => \A d \in Devices : Known(d, 1)
    <2> SUFFICES ASSUME ids = 1, NEW d \in Devices PROVE Known(d, 1)
      OBVIOUS
    <2>1. PICK k : k = [id |-> 1, chain |-> 0]
      OBVIOUS
    <2>2. keyed[d] = <<k>>
      BY <2>1 DEF Init
    <2>3. 1 \in DOMAIN keyed[d] /\ keyed[d][1] = k
      BY <2>2
    <2> QED BY <2>1, <2>3 DEF Known
  <1>9. \A s \in Sends : ~Recalling(s) /\ ~Distributes(s) /\ pc[s] # "remember"
    BY <1>4 DEF Recalling, Distributes
  <1>10. Waiting /\ NoRecord /\ OneId /\ SameKey
    BY <1>4, <1>5, <1>7, <1>9 DEF Waiting, NoRecord, OneId, SameKey
  <1>11. RecordFirst
    BY <1>2, <1>3, <1>4, <1>5, <1>9 DEF RecordFirst, Remembering
  <1>12. \A id \in Ids : KnownFiles(id) /\ KnownHands(id) /\ KnownContext(id)
    BY <1>3, <1>4, <1>5, <1>7, <1>8, <1>9 DEF KnownFiles, KnownHands, KnownContext
  <1> QED BY <1>10, <1>11, <1>12 DEF Sharing

LEMMA SharingStep ==
    ASSUME Typed, NoBlank, TypedDevices, TypedDevices', transactional => Inv, Sharing,
           [Next]_vars, ~cut'
    PROVE  Sharing'
  <1>1. ASSUME NEW s \in Sends, Begin(s) \/ ReadMemory(s) \/ Address(s) PROVE Sharing'
    BY <1>1, GoesEasily
  <1>2. ASSUME NEW s \in Sends, CreateKey(s) PROVE Sharing'
    <2>1. CASE NoState(RecordOf(s))
      BY <1>2, <2>1, CreatesFirst
    <2>2. CASE ~NoState(RecordOf(s))
      BY <1>2, <2>2, GoesPutting
    <2> QED BY <2>1, <2>2
  <1>3. ASSUME NEW s \in Sends, Encrypt(s) \/ Remember(s) PROVE Sharing'
    BY <1>3, GoesPutting
  <1>4. ASSUME NEW s \in Sends, Send(s) \/ SendRaises(s) PROVE Sharing'
    BY <1>4, GoesOut
  <1>5. ASSUME NEW s \in Sends, Commit(s) PROVE Sharing'
    BY <1>5, CommitGoes
  <1>6. ASSUME NEW s \in Sends, Committed(s) \/ Raise(s) PROVE Sharing'
    BY <1>6, GoesHome
  <1>7. ASSUME NEW s \in Sends, Cancel(s) PROVE Sharing'
    BY <1>7, CancelGoes
  <1>8. ASSUME NEW f \in Files, Write(f) \/ Stray(f) PROVE Sharing'
    <2>1. /\ OpenFile(f) \/ WriteFile(f) \/ StrayWrites(f)
          /\ UNCHANGED <<transactional, pc, memo, skdm, due, attempt, ctx, left, spared, keyed>>
      BY <1>8 DEF Write, Stray, hand, peers, history
    <2>2. \A t \in Sends : pc'[t] = pc[t] \/ WriteRaises(f, t)
      BY <2>1
    <2> QED BY <2>1, <2>2, ThreadsGo
  <1>9. ASSUME NEW f \in Files, FailWrite(f) PROVE Sharing'
    BY <1>9, FailGoes
  <1>10. CASE Crash
    BY <1>10, CrashGoes
  <1>11. CASE UNCHANGED vars \/ \E m \in net : Deliver(m)
    BY <1>11, DevicesGo
  <1>12. ASSUME NEW s \in Sends PROVE ~Load(s) /\ ~StoreBlank(s)
    BY DEF Sharing, NoBlank, Load, StoreBlank, At
  <1> QED BY <1>1, <1>2, <1>3, <1>4, <1>5, <1>6, <1>7, <1>8, <1>9, <1>10, <1>11, <1>12 DEF Next

(* A commit that was cut short stays so. *)
LEMMA CutForGood == [Next]_vars /\ cut => cut'
  <1> SUFFICES ASSUME [Next]_vars, cut PROVE cut'
    OBVIOUS
  <1>1. CASE UNCHANGED vars
    BY <1>1 DEF vars, history
  <1>2. ASSUME NEW s \in Sends,
               \/ Begin(s) \/ ReadMemory(s) \/ Load(s) \/ StoreBlank(s) \/ CreateKey(s)
               \/ Encrypt(s) \/ Address(s) \/ Remember(s) \/ Send(s) \/ SendRaises(s)
               \/ Commit(s) \/ Committed(s)
        PROVE  cut'
    BY <1>2 DEF Begin, ReadMemory, Load, StoreBlank, CreateKey, Encrypt, Address, Remember,
                Send, SendRaises, Commit, Committed, history
  <1>3. CASE Crash \/ \E s \in Sends : Raise(s) \/ Cancel(s)
    BY <1>3 DEF Crash, Raise, Cancel, Lost
  <1>4. ASSUME NEW f \in Files, Write(f) \/ FailWrite(f) \/ Stray(f) PROVE cut'
    BY <1>4 DEF Write, FailWrite, Stray, history
  <1>5. CASE \E m \in net : Deliver(m)
    BY <1>5 DEF Deliver, history
  <1> QED BY <1>1, <1>2, <1>3, <1>4, <1>5 DEF Next

LEMMA SharingTells ==
    ASSUME Typed, TornForReason, transactional, Inv, ~cut => Sharing
    PROVE  RememberedHaveKey
  <1> SUFFICES ASSUME Readable(Record), Readable(Memory), damaged = {}, ~cut,
                      \A f \in Files : ~Straying(f),
                      files[Record] # Absent, files[Memory] # Absent,
                      NEW d \in files[Memory],
                      ~(\/ <<d, Last(files[Record]).id>> \in spared
                        \/ \E n \in DOMAIN keyed[d] : keyed[d][n].id = Last(files[Record]).id)
               PROVE  WasSent(d, Last(files[Record]).id)
    BY DEF RememberedHaveKey
  <1>1. \A f \in Files : lines[f] = <<>> /\ strays[f] = {}
    BY TwoFiles DEF Readable, Straying
  <1>2. \A f \in Files : files[f] \in Contents(f)
    BY <1>1, TwoFiles DEF TornForReason, Typed, TypedData
  <1>3. files[Record] \in OwnRecords /\ files[Memory] \in SUBSET Devices
    BY <1>2, TwoFiles DEF Contents, Inv, Used, Beyond, Versions
  <1>4. PICK id : id = files[Record][1].id
    OBVIOUS
  <1>5. Last(files[Record]).id = id
    BY <1>3, <1>4 DEF Last, OwnRecords
  <1>6. id \in Ids
    BY <1>3, <1>4 DEF Ids, Versions
  <1>7. Known(d, id)
    BY <1>3, <1>6 DEF Sharing, KnownFiles
  <1>8. PICK s \in Sends : s \in left /\ Told(s, d, id)
    BY <1>5, <1>7 DEF Known
  <1> QED BY <1>5, <1>8 DEF Told, WasSent

Remembered ==
    All /\ TornForReason /\ TypedDevices /\ (transactional /\ ~cut => Sharing)

(* With transactions, a device that the memory of the group says has the   *)
(* key of the record was sent it, is being sent it, or is one that the     *)
(* encryption or the send failed for, unless a commit was cut short        *)
(* (messages_send.py 796-821, auth_utils.py 218-228), however many sends   *)
(* there are.                                                              *)
THEOREM RememberedHave == Spec => [](transactional => RememberedHaveKey)
  <1>1. Init => Remembered
    BY TypedInit, InvInit, TornInit, DevicesInit, SharingInit DEF Remembered, All, NoBlank, Init
  <1>2. Remembered /\ [Next]_vars => Remembered'
    <2> SUFFICES ASSUME Remembered, [Next]_vars PROVE Remembered'
      OBVIOUS
    <2>1. All' /\ TornForReason' /\ TypedDevices' /\ transactional' = transactional
      BY AllStep, TornStep, DevicesStep, SameStore DEF Remembered, All
    <2>2. ASSUME transactional, ~cut' PROVE Sharing'
      <3>1. ~cut
        BY <2>2, CutForGood
      <3> QED BY <2>1, <2>2, <3>1, SharingStep DEF Remembered, All
    <2> QED BY <2>1, <2>2 DEF Remembered
  <1>3. Remembered => (transactional => RememberedHaveKey)
    BY SharingTells DEF Remembered, All
  <1> QED BY <1>1, <1>2, <1>3, PTL DEF Spec
-----------------------------------------------------------------------------
(* What the devices open.  Of a device: the keys it was given (ks), its    *)
(* record (rs) and the ciphertexts it has decrypted (os).                  *)
Of(ks, id) == {n \in 1 .. Len(ks) : ks[n].id = id}
Took(os, c) == {n \in 1 .. Len(os) : os[n] = c}

(* A state that has the key of an iteration, or can reach it.              *)
HasKey(x, i) == x.chain <= i \/ \E n \in 1 .. Len(x.keys) : x.keys[n] = i
Rising(s, chain) ==
    \A n \in 1 .. Len(s) : s[n] < chain /\ \A m \in 1 .. n - 1 : s[m] < s[n]

(* The record has the newest of the keys that were given.                  *)
Behind(ks, rs) == Len(ks) - Len(rs)
Able(ks, rs, c) ==
    {n \in Of(ks, c.id) : n > Behind(ks, rs) /\ HasKey(rs[n - Behind(ks, rs)], c.i)}
Newer(ks, rs) ==
    /\ Len(rs) = IF Len(ks) <= MaxStates THEN Len(ks) ELSE MaxStates
    /\ \A n \in 1 .. Len(rs) :
         rs[n].id = ks[n + Behind(ks, rs)].id /\ Rising(rs[n].keys, rs[n].chain)

(* What the first state of an id has not decrypted it still can, or it was *)
(* too long ago.                                                           *)
Follows(os, x, h) ==
    /\ h <= x.chain
    /\ x.chain > h => Took(os, [id |-> x.id, i |-> x.chain - 1]) # {}
    /\ \A i \in h .. x.chain - 1 :
         Took(os, [id |-> x.id, i |-> i]) # {} \/ HasKey(x, i) \/ x.chain - 1 - i > MaxKeys
FirstOf(ks, n) == \A m \in 1 .. n - 1 : ks[m].id # ks[n].id

TypedDevice(ks, rs, os) ==
    ks \in Seq(Distributions) /\ rs \in Seq(StateT) /\ os \in Seq(Keys)
CanOpen(ks, rs, os) ==
    \A c \in Keys :
        Cardinality(Took(os, c)) + Cardinality(Able(ks, rs, c)) <= Cardinality(Of(ks, c.id))
MustOpen(ks, rs, os) ==
    Len(ks) <= MaxStates =>
        \A n \in 1 .. Len(ks) : FirstOf(ks, n) => Follows(os, rs[n], ks[n].chain)
Device(ks, rs, os) ==
    /\ TypedDevice(ks, rs, os) /\ Newer(ks, rs)
    /\ CanOpen(ks, rs, os) /\ MustOpen(ks, rs, os)

(* A rising sequence of numbers rises by one at least. *)
LEMMA Rises ==
    ASSUME NEW s \in Seq(Nat), NEW chain \in Nat, Rising(s, chain), NEW p \in 1 .. Len(s)
    PROVE  \A k \in Nat : p + k <= Len(s) => s[p] + k <= s[p + k]
  <1>1. PICK S : S = {k \in Nat : p + k <= Len(s) => s[p] + k <= s[p + k]}
    OBVIOUS
  <1>2. 0 \in S
    <2>1. s[p] \in Nat
      OBVIOUS
    <2> QED BY <1>1, <2>1
  <1>3. ASSUME NEW k \in Nat, k \in S PROVE k + 1 \in S
    <2> SUFFICES ASSUME p + (k + 1) <= Len(s) PROVE s[p] + (k + 1) <= s[p + (k + 1)]
      BY <1>1
    <2>1. p + k \in 1 .. (p + (k + 1)) - 1 /\ p + (k + 1) \in 1 .. Len(s) /\ p + k \in 1 .. Len(s)
      OBVIOUS
    <2>2. s[p + k] < s[p + (k + 1)]
      BY <2>1 DEF Rising
    <2>3. s[p] + k <= s[p + k]
      BY <1>1, <1>3, <2>1
    <2>4. PICK a \in Nat, b \in Nat, c \in Nat : a = s[p] /\ b = s[p + k] /\ c = s[p + (k + 1)]
      BY <2>1
    <2>5. b < c
      BY <2>2, <2>4
    <2>6. a + k <= b
      BY <2>3, <2>4
    <2>7. a + (k + 1) <= c
      BY <2>5, <2>6
    <2> QED BY <2>4, <2>7
  <1>4. Nat \subseteq S
    BY <1>2, <1>3, Induct
  <1> QED BY <1>1, <1>4

(* A key that is removed is the only one of its iteration. *)
LEMMA RemovedKey ==
    ASSUME NEW s \in Seq(Nat), NEW chain \in Nat, Rising(s, chain), NEW i,
           \E n \in 1 .. Len(s) : s[n] = i
    PROVE  /\ Removed(s, i) \in Seq(Nat) /\ Rising(Removed(s, i), chain)
           /\ \A n \in 1 .. Len(Removed(s, i)) : Removed(s, i)[n] # i
           /\ \A n \in 1 .. Len(Removed(s, i)) : \E m \in 1 .. Len(s) : s[m] = Removed(s, i)[n]
           /\ \A m \in 1 .. Len(s) : s[m] # i =>
                \E n \in 1 .. Len(Removed(s, i)) : s[m] = Removed(s, i)[n]
  <1> DEFINE First(n) == s[n] = i /\ \A m \in 1 .. n - 1 : s[m] # i
  <1>1. PICK place : place = CHOOSE n \in DOMAIN s : First(n)
    OBVIOUS
  <1>2. DOMAIN s = 1 .. Len(s) /\ Len(s) \in Nat
    OBVIOUS
  <1>3. place \in 1 .. Len(s) /\ s[place] = i
    <2>1. PICK n \in 1 .. Len(s) : s[n] = i
      OBVIOUS
    <2>2. \A m \in 1 .. n - 1 : s[m] # i
      <3> SUFFICES ASSUME NEW m \in 1 .. n - 1 PROVE s[m] # i
        OBVIOUS
      <3>1. s[m] < s[n] /\ s[m] \in Nat /\ s[n] \in Nat
        BY DEF Rising
      <3> QED BY <2>1, <3>1
    <2>3. \E k \in DOMAIN s : First(k)
      BY <1>2, <2>1, <2>2
    <2>4. place \in DOMAIN s /\ First(place)
      BY <1>1, <2>3
    <2> QED BY <1>2, <2>4
  <1>4. PICK L \in Nat : L = Len(s) - 1
    <2>1. Len(s) - 1 \in Nat
      BY <1>2, <1>3
    <2> QED BY <2>1
  <1>5. PICK r : r = [n \in 1 .. L |-> s[IF n < place THEN n ELSE n + 1]]
    OBVIOUS
  <1>6. Removed(s, i) = r
    BY <1>1, <1>4, <1>5 DEF Removed
  <1>7. \A n \in 1 .. L : (IF n < place THEN n ELSE n + 1) \in 1 .. Len(s)
    BY <1>2, <1>3, <1>4
  <1>8. r \in Seq(Nat) /\ Len(r) = L
    <2>1. \A n \in 1 .. L : s[IF n < place THEN n ELSE n + 1] \in Nat
      BY <1>7
    <2>2. r \in Seq(Nat)
      BY <1>5, <2>1, IsASeq
    <2> QED BY <1>5, <2>2
  <1>9. \A n \in 1 .. L : r[n] = s[IF n < place THEN n ELSE n + 1]
    BY <1>5
  <1>10. \A m, n \in 1 .. Len(s) : s[m] \in Nat /\ s[m] < chain /\ (m < n => s[m] < s[n])
    BY DEF Rising
  <1>11. Rising(r, chain)
    <2> SUFFICES ASSUME NEW n \in 1 .. L PROVE r[n] < chain /\ \A m \in 1 .. n - 1 : r[m] < r[n]
      BY <1>8 DEF Rising
    <2>1. r[n] < chain
      BY <1>7, <1>9, <1>10
    <2>2. ASSUME NEW m \in 1 .. n - 1 PROVE r[m] < r[n]
      <3>1. m \in 1 .. L
        OBVIOUS
      <3>2. PICK a \in 1 .. Len(s) : a = (IF m < place THEN m ELSE m + 1) /\ r[m] = s[a]
        BY <1>7, <1>9, <3>1
      <3>3. PICK b \in 1 .. Len(s) : b = (IF n < place THEN n ELSE n + 1) /\ r[n] = s[b]
        BY <1>7, <1>9
      <3>4. CASE m < place /\ n < place
        BY <1>10, <3>2, <3>3, <3>4
      <3>5. CASE ~(n < place)
        <4>1. b = n + 1 /\ (a = m \/ a = m + 1)
          BY <3>2, <3>3, <3>5
        <4>2. a < b
          BY <4>1
        <4> QED BY <1>10, <3>2, <3>3, <4>2
      <3>6. CASE ~(m < place) /\ n < place
        BY <1>3, <3>6
      <3> QED BY <3>4, <3>5, <3>6
    <2> QED BY <2>1, <2>2
  <1>12. ASSUME NEW n \in 1 .. L PROVE r[n] # i
    <2>1. PICK a \in 1 .. Len(s) : a = (IF n < place THEN n ELSE n + 1) /\ r[n] = s[a]
      BY <1>7, <1>9
    <2>2. a < place \/ place < a
      BY <1>3, <2>1
    <2>3. s[a] \in Nat /\ s[place] \in Nat /\ (s[a] < s[place] \/ s[place] < s[a])
      BY <1>3, <1>10, <2>2
    <2> QED BY <1>3, <2>1, <2>3
  <1>13. ASSUME NEW m \in 1 .. Len(s), s[m] # i PROVE \E n \in 1 .. L : s[m] = r[n]
    <2>1. CASE m < place
      <3>1. m \in 1 .. L
        BY <1>3, <1>4, <2>1
      <3> QED BY <1>9, <2>1, <3>1
    <2>2. CASE ~(m < place)
      <3>1. m - 1 \in 1 .. L /\ ~(m - 1 < place) /\ (m - 1) + 1 = m
        BY <1>3, <1>4, <1>13, <2>2
      <3>2. r[m - 1] = s[m]
        BY <1>9, <3>1
      <3> QED BY <3>1, <3>2
    <2> QED BY <2>1, <2>2
  <1> QED BY <1>6, <1>7, <1>8, <1>9, <1>11, <1>12, <1>13

LEMMA NewestOf ==
    ASSUME NEW S, NEW s \in Seq(S), NEW n \in Nat, NEW off \in Nat,
           Len(s) > n => off = Len(s) - n, Len(s) <= n => off = 0
    PROVE  /\ Newest(s, n) \in Seq(S) /\ Len(Newest(s, n)) = Len(s) - off
           /\ \A k \in 1 .. Len(s) - off : Newest(s, n)[k] = s[k + off]
  <1>1. PICK l \in Nat : l = Len(s)
    OBVIOUS
  <1>2. off <= l
    BY <1>1
  <1>3. (IF l > n THEN l - n + 1 ELSE 1) = off + 1
    BY <1>1
  <1>4. Newest(s, n) = SubSeq(s, off + 1, l)
    BY <1>1, <1>3 DEF Newest
  <1>5. \A k \in off + 1 .. l : s[k] \in S
    BY <1>1
  <1>6. PICK r : r = SubSeq(s, off + 1, l)
    OBVIOUS
  <1>7. off + 1 \in Int /\ l \in Int
    OBVIOUS
  <1>8. /\ r \in Seq(S) /\ Len(r) = (IF off + 1 <= l THEN l - (off + 1) + 1 ELSE 0)
        /\ \A k \in 1 .. l - (off + 1) + 1 : r[k] = s[(off + 1) + k - 1]
    BY <1>5, <1>6, <1>7, SubSeqProperties
  <1>9. Len(r) = l - off /\ l - (off + 1) + 1 = l - off
    BY <1>2, <1>8
  <1>10. \A k \in 1 .. l - off : r[k] = s[k + off]
    <2> TAKE k \in 1 .. l - off
    <2>1. (off + 1) + k - 1 = k + off /\ k \in 1 .. l - (off + 1) + 1
      OBVIOUS
    <2> QED BY <1>8, <2>1
  <1> QED BY <1>1, <1>4, <1>6, <1>8, <1>9, <1>10

LEMMA OffsetOf ==
    ASSUME NEW l \in Nat, NEW n \in Nat
    PROVE  \E off \in Nat : (l > n => off = l - n) /\ (l <= n => off = 0)
  <1>1. CASE l > n
    <2>1. l - n \in Nat
      BY <1>1
    <2> QED BY <1>1, <2>1
  <1>2. CASE l <= n
    BY <1>2
  <1> QED BY <1>1, <1>2

(* The keys on the way to an iteration, of which the newest are kept.      *)
LEMMA PassedKeys ==
    ASSUME NEW x \in StateT, NEW i \in Nat, x.chain <= i, Rising(x.keys, x.chain)
    PROVE  LET s == x.keys \o Passed(x, i) IN
           /\ s \in Seq(Nat) /\ Rising(s, i)
           /\ \A n \in 1 .. Len(s) : HasKey(x, s[n])
           /\ \A k \in Nat : HasKey(x, k) /\ k < i => \E n \in 1 .. Len(s) : s[n] = k
  <1>1. PICK keys \in Seq(Nat), chain \in Nat : keys = x.keys /\ chain = x.chain
    BY DEF StateT
  <1>2. PICK l \in Nat : l = Len(keys)
    OBVIOUS
  <1>3. PICK j \in Nat : j = i - chain
    <2>1. i - chain \in Nat
      BY <1>1
    <2> QED BY <2>1
  <1>4. PICK p : p = [n \in 1 .. j |-> chain + n - 1]
    OBVIOUS
  <1>5. Passed(x, i) = p
    BY <1>1, <1>3, <1>4 DEF Passed
  <1>6. p \in Seq(Nat) /\ Len(p) = j /\ \A n \in 1 .. j : p[n] = chain + n - 1
    <2>1. \A n \in 1 .. j : chain + n - 1 \in Nat
      OBVIOUS
    <2>2. p \in Seq(Nat)
      BY <1>4, <2>1, IsASeq
    <2> QED BY <1>4, <2>2
  <1>7. PICK s : s = keys \o p
    OBVIOUS
  <1>8. /\ s \in Seq(Nat) /\ Len(s) = l + j
        /\ \A n \in 1 .. l + j : s[n] = IF n <= l THEN keys[n] ELSE p[n - l]
    BY <1>2, <1>6, <1>7, ConcatProperties
  <1>9. \A n \in 1 .. l : s[n] = keys[n] /\ s[n] \in Nat
    BY <1>2, <1>8
  <1>10. \A n \in 1 .. l + j : n > l => s[n] = chain + (n - l) - 1
    <2> SUFFICES ASSUME NEW n \in 1 .. l + j, n > l PROVE s[n] = chain + (n - l) - 1
      OBVIOUS
    <2>1. n - l \in 1 .. j /\ ~(n <= l)
      OBVIOUS
    <2> QED BY <1>6, <1>8, <2>1
  <1>11. \A n \in 1 .. l : keys[n] < chain /\ \A m \in 1 .. n - 1 : keys[m] < keys[n]
    BY <1>1, <1>2 DEF Rising
  <1>12. Rising(s, i)
    <2> SUFFICES ASSUME NEW n \in 1 .. l + j PROVE s[n] < i /\ \A m \in 1 .. n - 1 : s[m] < s[n]
      BY <1>8 DEF Rising
    <2>1. CASE n <= l
      <3>1. s[n] = keys[n] /\ \A m \in 1 .. n - 1 : s[m] = keys[m]
        BY <1>9, <2>1
      <3>2. s[n] < chain /\ chain <= i /\ s[n] \in Nat
        BY <1>1, <1>9, <1>11, <2>1, <3>1
      <3> QED BY <1>11, <2>1, <3>1, <3>2
    <2>2. CASE n > l
      <3>1. s[n] = chain + (n - l) - 1
        BY <1>10, <2>2
      <3>2. s[n] < i
        BY <1>1, <1>3, <2>2, <3>1
      <3>3. ASSUME NEW m \in 1 .. n - 1 PROVE s[m] < s[n]
        <4>1. CASE m <= l
          BY <1>9, <1>11, <2>2, <3>1, <4>1
        <4>2. CASE m > l
          BY <1>10, <2>2, <3>1, <4>2
        <4> QED BY <4>1, <4>2
      <3> QED BY <3>2, <3>3
    <2> QED BY <2>1, <2>2
  <1>13. ASSUME NEW n \in 1 .. l + j PROVE HasKey(x, s[n])
    <2>1. CASE n <= l
      BY <1>1, <1>2, <1>9, <2>1 DEF HasKey
    <2>2. CASE n > l
      BY <1>1, <1>10, <2>2 DEF HasKey
    <2> QED BY <2>1, <2>2
  <1>14. ASSUME NEW k \in Nat, HasKey(x, k), k < i PROVE \E n \in 1 .. l + j : s[n] = k
    <2>1. CASE k < chain
      <3>1. PICK n \in 1 .. l : keys[n] = k
        BY <1>1, <1>2, <1>14, <2>1 DEF HasKey
      <3> QED BY <1>9, <3>1
    <2>2. CASE k >= chain
      <3>1. PICK n : n = l + (k - chain) + 1
        OBVIOUS
      <3>2. n \in 1 .. l + j /\ n > l /\ chain + (n - l) - 1 = k
        BY <1>3, <1>14, <2>2, <3>1
      <3> QED BY <1>10, <3>2
    <2> QED BY <2>1, <2>2
  <1> QED BY <1>1, <1>5, <1>7, <1>8, <1>12, <1>13, <1>14

(* What a state can open once it has opened something. *)
LEMMA DerivedState ==
    ASSUME NEW x \in StateT, NEW i \in Nat, HasKey(x, i), Rising(x.keys, x.chain),
           NEW y, y = Derived(x, i)
    PROVE  /\ y \in StateT /\ y.id = x.id /\ Rising(y.keys, y.chain)
           /\ y.chain = IF x.chain > i THEN x.chain ELSE i + 1
           /\ ~HasKey(y, i)
           /\ \A k \in Nat : HasKey(y, k) => HasKey(x, k)
           /\ \A k \in Nat : HasKey(x, k) /\ k # i /\ k < y.chain =>
                HasKey(y, k) \/ y.chain - 1 - k > MaxKeys
  <1>1. PICK keys \in Seq(Nat), chain \in Nat : keys = x.keys /\ chain = x.chain
    BY DEF StateT
  <1>2. CASE chain > i
    <2>1. PICK r : r = Removed(keys, i)
      OBVIOUS
    <2>2. \E n \in 1 .. Len(keys) : keys[n] = i
      BY <1>1, <1>2 DEF HasKey
    <2>3. Rising(keys, chain)
      BY <1>1
    <2>4. /\ r \in Seq(Nat) /\ Rising(r, chain)
          /\ \A n \in 1 .. Len(r) : r[n] # i
          /\ \A n \in 1 .. Len(r) : \E m \in 1 .. Len(keys) : keys[m] = r[n]
          /\ \A m \in 1 .. Len(keys) : keys[m] # i => \E n \in 1 .. Len(r) : keys[m] = r[n]
      <3>1. /\ Removed(keys, i) \in Seq(Nat) /\ Rising(Removed(keys, i), chain)
            /\ \A n \in 1 .. Len(Removed(keys, i)) : Removed(keys, i)[n] # i
            /\ \A n \in 1 .. Len(Removed(keys, i)) :
                 \E m \in 1 .. Len(keys) : keys[m] = Removed(keys, i)[n]
            /\ \A m \in 1 .. Len(keys) : keys[m] # i =>
                 \E n \in 1 .. Len(Removed(keys, i)) : keys[m] = Removed(keys, i)[n]
        BY <2>2, <2>3, RemovedKey, ZenonT(60)
      <3> QED BY <2>1, <3>1
    <2>5. y = [x EXCEPT !.keys = r]
      BY <1>1, <1>2, <2>1 DEF Derived
    <2>6. y \in StateT /\ y.id = x.id /\ y.chain = chain /\ y.keys = r
      BY <1>1, <2>4, <2>5 DEF StateT
    <2>7. ~HasKey(y, i)
      BY <1>2, <2>4, <2>6 DEF HasKey
    <2>8. ASSUME NEW k \in Nat, HasKey(y, k) PROVE HasKey(x, k)
      <3>1. chain <= k \/ \E n \in 1 .. Len(r) : r[n] = k
        BY <2>6, <2>8 DEF HasKey
      <3>2. chain <= k \/ \E m \in 1 .. Len(keys) : keys[m] = k
        BY <2>4, <3>1
      <3> QED BY <1>1, <3>2 DEF HasKey
    <2>9. ASSUME NEW k \in Nat, HasKey(x, k), k # i PROVE HasKey(y, k)
      <3>1. CASE chain <= k
        BY <2>6, <3>1 DEF HasKey
      <3>2. ASSUME NEW m \in 1 .. Len(keys), keys[m] = k PROVE HasKey(y, k)
        BY <2>4, <2>6, <2>9, <3>2 DEF HasKey
      <3> QED BY <1>1, <2>9, <3>1, <3>2 DEF HasKey
    <2> QED BY <1>1, <1>2, <2>4, <2>6, <2>7, <2>8, <2>9
  <1>3. CASE ~(chain > i)
    <2>1. PICK s : s = x.keys \o Passed(x, i)
      OBVIOUS
    <2>2. /\ s \in Seq(Nat) /\ Rising(s, i)
          /\ \A n \in 1 .. Len(s) : HasKey(x, s[n])
          /\ \A k \in Nat : HasKey(x, k) /\ k < i => \E n \in 1 .. Len(s) : s[n] = k
      <3>1. x.chain <= i
        BY <1>1, <1>3
      <3> QED BY <2>1, <3>1, PassedKeys
    <2>3. MaxKeys \in Nat
      BY LimitsAssumption
    <2>4. PICK r : r = Newest(s, MaxKeys)
      OBVIOUS
    <2>5. PICK l \in Nat : l = Len(s)
      BY <2>2
    <2>6. PICK off \in Nat : (l > MaxKeys => off = l - MaxKeys) /\ (l <= MaxKeys => off = 0)
      BY <2>3, OffsetOf
    <2>15. r \in Seq(Nat) /\ Len(r) = l - off /\ \A k \in 1 .. l - off : r[k] = s[k + off]
      <3>1. s \in Seq(Nat)
        BY <2>2
      <3>2. (Len(s) > MaxKeys => off = Len(s) - MaxKeys) /\ (Len(s) <= MaxKeys => off = 0)
        BY <2>5, <2>6
      <3>3. /\ Newest(s, MaxKeys) \in Seq(Nat) /\ Len(Newest(s, MaxKeys)) = Len(s) - off
            /\ \A k \in 1 .. Len(s) - off : Newest(s, MaxKeys)[k] = s[k + off]
        BY <2>3, <3>1, <3>2, NewestOf, ZenonT(60)
      <3> QED BY <2>4, <2>5, <3>1, <3>3
    <2>7. y = [x EXCEPT !.chain = i + 1, !.keys = r]
      BY <1>1, <1>3, <2>1, <2>4 DEF Derived
    <2>8. y \in StateT /\ y.id = x.id /\ y.chain = i + 1 /\ y.keys = r
      <3>1. i + 1 \in Nat /\ r \in Seq(Nat)
        BY <2>15
      <3> QED BY <2>7, <3>1 DEF StateT
    <2>9. \A n \in 1 .. l : s[n] \in Nat /\ s[n] < i /\ \A m \in 1 .. n - 1 : s[m] < s[n]
      BY <2>2, <2>5, <2>6 DEF Rising
    <2>10. \A n \in 1 .. l - off : r[n] = s[n + off] /\ n + off \in 1 .. l
      BY <2>5, <2>6, <2>15
    <2>11. Rising(r, i + 1)
      <3> SUFFICES ASSUME NEW n \in 1 .. l - off
                   PROVE  r[n] < i + 1 /\ \A m \in 1 .. n - 1 : r[m] < r[n]
        BY <2>5, <2>6, <2>15 DEF Rising
      <3>1. r[n] < i + 1
        BY <2>9, <2>10
      <3>2. ASSUME NEW m \in 1 .. n - 1 PROVE r[m] < r[n]
        <4>1. m \in 1 .. l - off /\ m + off \in 1 .. (n + off) - 1
          OBVIOUS
        <4> QED BY <2>9, <2>10, <4>1
      <3> QED BY <3>1, <3>2
    <2>12. ~HasKey(y, i)
      <3>1. \A n \in 1 .. l - off : r[n] # i
        BY <2>9, <2>10
      <3> QED BY <2>5, <2>6, <2>15, <2>8, <3>1 DEF HasKey
    <2>13. ASSUME NEW k \in Nat, HasKey(y, k) PROVE HasKey(x, k)
      <3>1. CASE k >= i + 1
        BY <1>1, <1>3, <3>1 DEF HasKey
      <3>2. CASE k < i + 1
        <4>1. PICK n \in 1 .. l - off : r[n] = k
          BY <2>5, <2>6, <2>15, <2>8, <2>13, <3>2 DEF HasKey
        <4> QED BY <2>2, <2>5, <2>6, <2>10, <4>1
      <3> QED BY <3>1, <3>2
    <2>14. ASSUME NEW k \in Nat, HasKey(x, k), k # i, k < i + 1
           PROVE  HasKey(y, k) \/ (i + 1) - 1 - k > MaxKeys
      <3>1. PICK n \in 1 .. l : s[n] = k
        BY <2>2, <2>5, <2>6, <2>14
      <3>2. CASE n > off
        <4>1. n - off \in 1 .. l - off /\ (n - off) + off = n
          BY <3>2
        <4>2. r[n - off] = k
          BY <2>10, <3>1, <4>1
        <4> QED BY <2>5, <2>6, <2>15, <2>8, <4>1, <4>2 DEF HasKey
      <3>3. CASE ~(n > off)
        <4>1. off = l - MaxKeys
          BY <2>3, <2>5, <2>6, <2>15, <3>3
        <4>2. PICK j \in Nat : j = l - n /\ n + j = l
          <5>1. l - n \in Nat /\ n + (l - n) = l
            OBVIOUS
          <5> QED BY <5>1
        <4>3. s[n] + j <= s[n + j]
          <5>1. s \in Seq(Nat) /\ Rising(s, i) /\ n \in 1 .. Len(s) /\ n + j <= Len(s)
            BY <2>2, <2>5, <4>2
          <5> QED BY <5>1, Rises
        <4>4. s[l] < i /\ s[l] \in Nat
          BY <2>9
        <4>5. k + j < i
          BY <3>1, <4>2, <4>3, <4>4
        <4> QED BY <2>3, <3>3, <4>1, <4>2, <4>5
      <3> QED BY <3>2, <3>3
    <2> QED BY <1>1, <1>3, <2>8, <2>11, <2>12, <2>13, <2>14
  <1> QED BY <1>2, <1>3

(* Finite sets of places. *)
LEMMA SomePlaces ==
    ASSUME NEW l \in Nat, NEW T, T \subseteq 1 .. l
    PROVE  IsFiniteSet(T) /\ Cardinality(T) \in Nat
  <1>1. IsFiniteSet(1 .. l)
    BY FS_Interval
  <1>2. T \in SUBSET (1 .. l)
    OBVIOUS
  <1>3. IsFiniteSet(T)
    BY <1>1, <1>2, FS_Subset
  <1> QED BY <1>3, FS_CardinalityType

LEMMA FewerPlaces ==
    ASSUME NEW S, NEW T, IsFiniteSet(S), T \subseteq S
    PROVE  Cardinality(T) <= Cardinality(S)
  <1>1. T \in SUBSET S
    OBVIOUS
  <1> QED BY <1>1, FS_Subset

LEMMA FirstPlace ==
    ASSUME NEW S, NEW s \in Seq(S), NEW id, \E n \in 1 .. Len(s) : s[n].id = id
    PROVE  \E n \in 1 .. Len(s) : s[n].id = id /\ \A m \in 1 .. n - 1 : s[m].id # id
  <1>1. PICK T : T = {n \in 1 .. Len(s) : s[n].id = id}
    OBVIOUS
  <1>2. T \subseteq Nat /\ T # {}
    BY <1>1
  <1>3. PICK n \in T : \A k \in T : n <= k
    BY <1>2, LeastNumber
  <1>4. \A m \in 1 .. n - 1 : m \notin T /\ m \in 1 .. Len(s)
    BY <1>1, <1>3
  <1> QED BY <1>1, <1>3, <1>4

LEMMA PlaceOf ==
    ASSUME NEW rs \in Seq(StateT), NEW id, HasState(rs, id)
    PROVE  /\ Place(rs, id) \in 1 .. Len(rs) /\ rs[Place(rs, id)].id = id
           /\ \A m \in 1 .. Place(rs, id) - 1 : rs[m].id # id
  <1>1. DOMAIN rs = 1 .. Len(rs)
    OBVIOUS
  <1>2. \E n \in 1 .. Len(rs) : rs[n].id = id
    BY <1>1 DEF HasState
  <1>3. \E n \in DOMAIN rs : rs[n].id = id /\ \A m \in 1 .. n - 1 : rs[m].id # id
    BY <1>1, <1>2, FirstPlace
  <1> QED BY <1>1, <1>3 DEF Place

(* A key that is given is one that the device can open with. *)
LEMMA KeyGiven ==
    ASSUME NEW ks, NEW rs, NEW os, Device(ks, rs, os), NEW k \in Distributions,
           NEW kt, kt = Append(ks, k), NEW rt, rt = AddState(rs, k.id, k.chain)
    PROVE  Device(kt, rt, os)
  <1>1. ks \in Seq(Distributions) /\ rs \in Seq(StateT) /\ os \in Seq(Keys)
    BY DEF Device, TypedDevice
  <1>2. PICK l \in Nat, r \in Nat : l = Len(ks) /\ r = Len(rs)
    BY <1>1
  <1>3. /\ kt \in Seq(Distributions) /\ Len(kt) = l + 1 /\ kt[l + 1] = k
        /\ \A n \in 1 .. l : kt[n] = ks[n]
    BY <1>1, <1>2, AppendProperties
  <1>4. PICK x \in StateT : x = State(k.id, k.chain) /\ x.id = k.id /\ x.chain = k.chain
                            /\ Len(x.keys) = 0
    <2>1. <<>> \in Seq(Nat) /\ Len(<<>>) = 0
      BY EmptySeq
    <2>2. k.id \in Nat /\ k.chain \in Nat
      BY DEF Distributions
    <2>3. PICK x : x = State(k.id, k.chain)
      OBVIOUS
    <2>4. x = [id |-> k.id, chain |-> k.chain, keys |-> <<>>]
      BY <2>3 DEF State
    <2>5. x \in StateT /\ x.id = k.id /\ x.chain = k.chain /\ x.keys = <<>>
      BY <2>1, <2>2, <2>4 DEF StateT
    <2> QED BY <2>1, <2>3, <2>5
  <1>5. PICK mid : mid = Append(rs, x)
    OBVIOUS
  <1>6. /\ mid \in Seq(StateT) /\ Len(mid) = r + 1 /\ mid[r + 1] = x
        /\ \A n \in 1 .. r : mid[n] = rs[n]
    BY <1>1, <1>2, <1>5, AppendProperties
  <1>7. PICK max \in Nat \ {0} : max = MaxStates
    BY LimitsAssumption
  <1>8. r = IF l <= max THEN l ELSE max
    BY <1>2, <1>7 DEF Device, Newer
  <1>9. PICK off \in Nat : (r + 1 > max => off = r + 1 - max) /\ (r + 1 <= max => off = 0)
    <2>1. PICK r1 \in Nat : r1 = r + 1
      OBVIOUS
    <2>2. PICK e \in Nat : (r1 > max => e = r1 - max) /\ (r1 <= max => e = 0)
      BY OffsetOf
    <2>3. (r + 1 > max => e = r + 1 - max) /\ (r + 1 <= max => e = 0)
      BY <2>1, <2>2
    <2> QED BY <2>3
  <1>10. /\ rt \in Seq(StateT) /\ Len(rt) = r + 1 - off
         /\ \A n \in 1 .. r + 1 - off : rt[n] = mid[n + off]
    <2>1. rt = Newest(mid, max)
      BY <1>4, <1>5, <1>7 DEF AddState
    <2>2. (Len(mid) > max => off = Len(mid) - max) /\ (Len(mid) <= max => off = 0)
      BY <1>6, <1>9
    <2>3. /\ Newest(mid, max) \in Seq(StateT) /\ Len(Newest(mid, max)) = Len(mid) - off
          /\ \A n \in 1 .. Len(mid) - off : Newest(mid, max)[n] = mid[n + off]
      BY <1>6, <2>2, NewestOf, ZenonT(60)
    <2> QED BY <1>6, <2>1, <2>3
  <1>11. PICK b \in Nat : b = l - r /\ b = Behind(ks, rs)
    <2>1. l - r \in Nat
      BY <1>7, <1>8
    <2> QED BY <1>2, <2>1 DEF Behind
  <1>12. Behind(kt, rt) = b + off /\ off <= 1 /\ r + b = l
    BY <1>3, <1>7, <1>8, <1>9, <1>10, <1>11 DEF Behind
  <1>13. Newer(kt, rt)
    <2>1. Len(rt) = IF Len(kt) <= max THEN Len(kt) ELSE max
      BY <1>3, <1>7, <1>8, <1>9, <1>10
    <2>2. ASSUME NEW n \in 1 .. r + 1 - off
          PROVE  rt[n].id = kt[n + (b + off)].id /\ Rising(rt[n].keys, rt[n].chain)
      <3>1. CASE n + off \in 1 .. r
        <4>1. rt[n] = rs[n + off]
          BY <1>6, <1>10, <3>1
        <4>2. rs[n + off].id = ks[(n + off) + b].id /\ Rising(rs[n + off].keys, rs[n + off].chain)
          BY <1>2, <1>11, <3>1 DEF Device, Newer
        <4>3. (n + off) + b \in 1 .. l /\ (n + off) + b = n + (b + off)
          BY <1>12, <3>1
        <4>4. kt[n + (b + off)] = ks[(n + off) + b]
          BY <1>3, <4>3
        <4>5. rs[n + off].id = kt[n + (b + off)].id
          BY <4>2, <4>4
        <4>6. PICK z : z = rs[n + off]
          OBVIOUS
        <4>7. rt[n] = z /\ z.id = kt[n + (b + off)].id /\ Rising(z.keys, z.chain)
          BY <4>1, <4>2, <4>5, <4>6
        <4> QED BY <4>7
      <3>2. CASE n + off = r + 1
        <4>1. rt[n] = x /\ n + (b + off) = l + 1
          BY <1>6, <1>10, <1>12, <3>2
        <4>2. Rising(x.keys, x.chain)
          BY <1>4 DEF Rising
        <4> QED BY <1>3, <1>4, <4>1, <4>2
      <3>3. n + off \in 1 .. r \/ n + off = r + 1
        BY <1>12
      <3> QED BY <3>1, <3>2, <3>3
    <2> QED BY <1>7, <1>10, <1>12, <2>1, <2>2 DEF Newer
  <1>14. ASSUME NEW c \in Keys
         PROVE  Cardinality(Took(os, c)) + Cardinality(Able(kt, rt, c)) <= Cardinality(Of(kt, c.id))
    <2>1. PICK o \in Nat, a \in Nat, g \in Nat :
            /\ o = Cardinality(Took(os, c)) /\ a = Cardinality(Able(ks, rs, c))
            /\ g = Cardinality(Of(ks, c.id)) /\ o + a <= g
            /\ IsFiniteSet(Able(ks, rs, c)) /\ IsFiniteSet(Of(ks, c.id))
      <3>1. Took(os, c) \subseteq 1 .. Len(os) /\ Len(os) \in Nat
        BY <1>1 DEF Took
      <3>2. Able(ks, rs, c) \subseteq 1 .. l /\ Of(ks, c.id) \subseteq 1 .. l
        BY <1>2 DEF Able, Of
      <3> QED BY <3>1, <3>2, SomePlaces DEF Device, CanOpen
    <2>2. PICK a2 \in Nat, g2 \in Nat :
            a2 = Cardinality(Able(kt, rt, c)) /\ g2 = Cardinality(Of(kt, c.id))
      <3>1. Able(kt, rt, c) \subseteq 1 .. l + 1 /\ Of(kt, c.id) \subseteq 1 .. l + 1
        BY <1>3 DEF Able, Of
      <3>2. l + 1 \in Nat
        OBVIOUS
      <3> QED BY <3>1, <3>2, SomePlaces
    <2>3. \A n \in Able(kt, rt, c) : (n = l + 1 /\ k.id = c.id) \/ n \in Able(ks, rs, c)
      <3> SUFFICES ASSUME NEW n \in 1 .. l + 1, kt[n].id = c.id, n > b + off,
                          HasKey(rt[n - (b + off)], c.i)
                   PROVE  (n = l + 1 /\ k.id = c.id) \/ n \in Able(ks, rs, c)
        BY <1>3, <1>12 DEF Able, Of
      <3>1. CASE n = l + 1
        BY <1>3, <3>1
      <3>2. CASE n # l + 1
        <4>1. n \in 1 .. l /\ n > b
          BY <3>2
        <4>3. n - b \in 1 .. r
          BY <1>12, <4>1
        <4>4. n - (b + off) \in 1 .. r + 1 - off /\ (n - (b + off)) + off = n - b
          BY <1>12, <4>3
        <4>2. rt[n - (b + off)] = rs[n - b] /\ kt[n] = ks[n]
          BY <1>3, <1>6, <1>10, <4>1, <4>3, <4>4
        <4> QED BY <1>2, <1>11, <4>1, <4>2 DEF Able, Of
      <3> QED BY <3>1, <3>2
    <2>4. CASE k.id = c.id
      <3>1. Of(kt, c.id) = Of(ks, c.id) \cup {l + 1} /\ l + 1 \notin Of(ks, c.id)
        BY <1>2, <1>3, <2>4 DEF Of
      <3>2. g2 = g + 1
        BY <2>1, <2>2, <3>1, FS_AddElement
      <3>3. Able(kt, rt, c) \subseteq Able(ks, rs, c) \cup {l + 1}
        BY <2>3
      <3>4. /\ IsFiniteSet(Able(ks, rs, c) \cup {l + 1})
            /\ Cardinality(Able(ks, rs, c) \cup {l + 1}) \in {a, a + 1}
        BY <2>1, FS_AddElement
      <3>5. a2 <= Cardinality(Able(ks, rs, c) \cup {l + 1})
        BY <2>2, <3>3, <3>4, FewerPlaces
      <3>6. a2 <= a + 1
        BY <3>4, <3>5
      <3> QED BY <2>1, <2>2, <3>2, <3>6
    <2>5. CASE k.id # c.id
      <3>1. Of(kt, c.id) = Of(ks, c.id)
        BY <1>2, <1>3, <2>5 DEF Of
      <3>2. Able(kt, rt, c) \subseteq Able(ks, rs, c)
        BY <2>3, <2>5
      <3>3. a2 <= a
        BY <2>1, <2>2, <3>2, FewerPlaces
      <3> QED BY <2>1, <2>2, <3>1, <3>3
    <2> QED BY <2>4, <2>5
  <1>15. MustOpen(kt, rt, os)
    <2> SUFFICES ASSUME l + 1 <= max, NEW n \in 1 .. l + 1, FirstOf(kt, n)
                 PROVE  Follows(os, rt[n], kt[n].chain)
      BY <1>3, <1>7 DEF MustOpen
    <2>1. off = 0 /\ r = l
      BY <1>8, <1>9
    <2>2. CASE n \in 1 .. l
      <3>1. rt[n] = rs[n] /\ kt[n] = ks[n]
        BY <1>3, <1>6, <1>10, <2>1, <2>2
      <3>2. FirstOf(ks, n)
        BY <1>3, <2>2 DEF FirstOf
      <3>3. Follows(os, rs[n], ks[n].chain)
        BY <1>2, <1>7, <2>2, <3>2 DEF Device, MustOpen
      <3> QED BY <3>1, <3>3
    <2>3. CASE n = l + 1
      <3>1. rt[n] = x /\ kt[n].chain = x.chain
        BY <1>3, <1>4, <1>6, <1>10, <2>1, <2>3
      <3>2. x.chain \in Nat
        BY DEF StateT
      <3>3. Follows(os, x, x.chain)
        BY <3>2 DEF Follows
      <3> QED BY <3>1, <3>3
    <2>4. n \in 1 .. l \/ n = l + 1
      OBVIOUS
    <2> QED BY <2>2, <2>3, <2>4
  <1> QED BY <1>1, <1>3, <1>10, <1>13, <1>14, <1>15 DEF Device, TypedDevice, CanOpen

(* A ciphertext is opened with the first state of its id, which can open   *)
(* it no more.                                                             *)
LEMMA KeyOpened ==
    ASSUME NEW ks, NEW rs, NEW os, Device(ks, rs, os), NEW c \in Keys, Decrypts(rs, c.id, c.i),
           NEW ot, ot = Append(os, c), NEW rt, rt = Decrypted(rs, c.id, c.i)
    PROVE  Device(ks, rt, ot)
  <1>1. ks \in Seq(Distributions) /\ rs \in Seq(StateT) /\ os \in Seq(Keys)
    BY DEF Device, TypedDevice
  <1>2. PICK l \in Nat, r \in Nat, o \in Nat : l = Len(ks) /\ r = Len(rs) /\ o = Len(os)
    BY <1>1
  <1>3. PICK p : p = Place(rs, c.id)
    OBVIOUS
  <1>4. p \in 1 .. r /\ rs[p].id = c.id /\ \A m \in 1 .. p - 1 : rs[m].id # c.id
    BY <1>1, <1>2, <1>3, PlaceOf DEF Decrypts
  <1>5. PICK x \in StateT : x = rs[p]
    BY <1>1, <1>2, <1>4
  <1>6. x.chain \in Nat /\ x.keys \in Seq(Nat) /\ x.id = c.id /\ c.i \in Nat /\ c.id \in Nat
    BY <1>4, <1>5 DEF StateT, Keys
  <1>7. HasKey(x, c.i)
    <2>1. Derives(x, c.i)
      BY <1>3, <1>5 DEF Decrypts
    <2>2. DOMAIN x.keys = 1 .. Len(x.keys)
      BY <1>6
    <2> QED BY <1>6, <2>1, <2>2 DEF Derives, HasKey
  <1>8. PICK y : y = Derived(x, c.i)
    OBVIOUS
  <1>9. Rising(x.keys, x.chain)
    BY <1>2, <1>4, <1>5 DEF Device, Newer
  <1>10. /\ y \in StateT /\ y.id = x.id /\ Rising(y.keys, y.chain)
         /\ y.chain = IF x.chain > c.i THEN x.chain ELSE c.i + 1
         /\ ~HasKey(y, c.i)
    BY <1>6, <1>7, <1>8, <1>9, DerivedState
  <1>11. \A k \in Nat : HasKey(y, k) => HasKey(x, k)
    BY <1>6, <1>7, <1>8, <1>9, DerivedState
  <1>12. \A k \in Nat : HasKey(x, k) /\ k # c.i /\ k < y.chain =>
           HasKey(y, k) \/ y.chain - 1 - k > MaxKeys
    BY <1>6, <1>7, <1>8, <1>9, DerivedState
  <1>13. rt = [rs EXCEPT ![p] = y]
    BY <1>3, <1>5, <1>8 DEF Decrypted
  <1>14. /\ rt \in Seq(StateT) /\ Len(rt) = r
         /\ \A n \in 1 .. r : rt[n] = IF n = p THEN y ELSE rs[n]
    BY <1>1, <1>2, <1>4, <1>10, <1>13, ExceptSeq
  <1>15. rt[p] = y /\ \A n \in 1 .. r : n # p => rt[n] = rs[n]
    BY <1>4, <1>14
  <1>16. /\ ot \in Seq(Keys) /\ Len(ot) = o + 1 /\ ot[o + 1] = c
         /\ \A n \in 1 .. o : ot[n] = os[n]
    BY <1>1, <1>2, AppendProperties
  <1>17. PICK b : b = Behind(ks, rs)
    OBVIOUS
  <1>18. Behind(ks, rt) = b /\ b = l - r /\ b \in Nat
    BY <1>2, <1>14, <1>17, LimitsAssumption DEF Behind, Device, Newer
  <1>19. ASSUME NEW n \in 1 .. r
         PROVE  rt[n].id = ks[n + b].id /\ Rising(rt[n].keys, rt[n].chain) /\ rt[n].id = rs[n].id
    <2>1. rs[n].id = ks[n + b].id /\ Rising(rs[n].keys, rs[n].chain)
      BY <1>2, <1>17 DEF Device, Newer
    <2>2. CASE n = p
      BY <1>5, <1>10, <1>15, <2>1, <2>2
    <2>3. CASE n # p
      <3>1. rt[n] = rs[n]
        BY <1>15, <2>3
      <3> QED BY <2>1, <3>1
    <2> QED BY <2>2, <2>3
  <1>20. Newer(ks, rt)
    BY <1>2, <1>14, <1>18, <1>19 DEF Device, Newer
  <1>21. p + b \in Able(ks, rs, c) /\ p + b \in 1 .. l
    <2>1. p + b \in 1 .. l /\ p + b > b /\ (p + b) - b = p
      BY <1>4, <1>18
    <2>2. ks[p + b].id = c.id
      BY <1>4, <1>19
    <2> QED BY <1>2, <1>5, <1>7, <1>17, <2>1, <2>2 DEF Able, Of
  <1>22. ASSUME NEW e \in Keys, NEW n \in Able(ks, rt, e)
         PROVE  n \in Able(ks, rs, e) /\ (e = c => n # p + b)
    <2>1. n \in 1 .. l /\ ks[n].id = e.id /\ n > b /\ HasKey(rt[n - b], e.i) /\ e.i \in Nat
      BY <1>2, <1>18 DEF Able, Of, Keys
    <2>2. n - b \in 1 .. r
      BY <1>18, <2>1
    <2>3. CASE n - b = p
      <3>1. HasKey(y, e.i)
        BY <1>15, <2>1, <2>3
      <3>2. e # c /\ HasKey(rs[n - b], e.i)
        BY <1>5, <1>10, <1>11, <2>1, <2>3, <3>1
      <3> QED BY <1>2, <1>17, <2>1, <3>2 DEF Able, Of
    <2>4. CASE n - b # p
      <3>1. rt[n - b] = rs[n - b]
        BY <1>15, <2>2, <2>4
      <3>2. n # p + b
        BY <1>4, <1>18, <2>1, <2>4
      <3>3. HasKey(rs[n - b], e.i)
        BY <2>1, <3>1
      <3> QED BY <1>2, <1>17, <2>1, <3>2, <3>3 DEF Able, Of
    <2> QED BY <2>3, <2>4
  <1>23. ASSUME NEW e \in Keys
         PROVE  Cardinality(Took(ot, e)) + Cardinality(Able(ks, rt, e)) <= Cardinality(Of(ks, e.id))
    <2>1. PICK t \in Nat, a \in Nat, g \in Nat :
            /\ t = Cardinality(Took(os, e)) /\ a = Cardinality(Able(ks, rs, e))
            /\ g = Cardinality(Of(ks, e.id)) /\ t + a <= g
            /\ IsFiniteSet(Able(ks, rs, e)) /\ IsFiniteSet(Took(os, e))
      <3>1. Took(os, e) \subseteq 1 .. o
        BY <1>2 DEF Took
      <3>2. Able(ks, rs, e) \subseteq 1 .. l /\ Of(ks, e.id) \subseteq 1 .. l
        BY <1>2 DEF Able, Of
      <3> QED BY <3>1, <3>2, SomePlaces DEF Device, CanOpen
    <2>2. PICK a2 \in Nat : a2 = Cardinality(Able(ks, rt, e))
      <3>1. Able(ks, rt, e) \subseteq 1 .. l
        BY <1>2 DEF Able, Of
      <3> QED BY <3>1, SomePlaces
    <2>3. CASE e = c
      <3>1. Took(ot, e) = Took(os, e) \cup {o + 1} /\ o + 1 \notin Took(os, e)
        BY <1>2, <1>16, <2>3 DEF Took
      <3>2. Cardinality(Took(ot, e)) = t + 1
        BY <2>1, <3>1, FS_AddElement
      <3>3. /\ IsFiniteSet(Able(ks, rs, e) \ {p + b})
            /\ Cardinality(Able(ks, rs, e) \ {p + b}) = a - 1
        BY <1>21, <2>1, <2>3, FS_RemoveElement
      <3>4. Able(ks, rt, e) \subseteq Able(ks, rs, e) \ {p + b}
        BY <1>22, <2>3
      <3>5. a2 <= a - 1
        BY <2>2, <3>3, <3>4, FewerPlaces
      <3> QED BY <2>1, <2>2, <3>2, <3>5
    <2>4. CASE e # c
      <3>1. Took(ot, e) = Took(os, e)
        BY <1>2, <1>16, <2>4 DEF Took
      <3>2. Able(ks, rt, e) \subseteq Able(ks, rs, e)
        BY <1>22
      <3>3. a2 <= a
        BY <2>1, <2>2, <3>2, FewerPlaces
      <3> QED BY <2>1, <2>2, <3>1, <3>3
    <2> QED BY <2>3, <2>4
  <1>24. \A e : Took(os, e) # {} => Took(ot, e) # {}
    <2> SUFFICES ASSUME NEW e, NEW n \in Took(os, e) PROVE Took(ot, e) # {}
      OBVIOUS
    <2>1. n \in 1 .. o /\ os[n] = e
      BY <1>2 DEF Took
    <2>2. n \in 1 .. o + 1 /\ ot[n] = e
      BY <1>16, <2>1
    <2> QED BY <1>16, <2>2 DEF Took
  <1>25. Took(ot, c) # {} /\ c = [id |-> c.id, i |-> c.i]
    <2>1. o + 1 \in 1 .. o + 1
      OBVIOUS
    <2> QED BY <1>16, <2>1 DEF Took, Keys
  <1>26. MustOpen(ks, rt, ot)
    <2> SUFFICES ASSUME l <= MaxStates, NEW n \in 1 .. l, FirstOf(ks, n)
                 PROVE  Follows(ot, rt[n], ks[n].chain)
      BY <1>2 DEF MustOpen
    <2>1. r = l /\ Follows(os, rs[n], ks[n].chain)
      BY <1>2 DEF Device, Newer, MustOpen
    <2>2. PICK h \in Nat : h = ks[n].chain
      <3>1. ks[n] \in Distributions
        BY <1>1, <1>2
      <3> QED BY <3>1 DEF Distributions
    <2>3. CASE n # p
      <3>1. rt[n] = rs[n]
        BY <1>15, <2>1, <2>3
      <3>2. Follows(ot, rs[n], h)
        BY <1>24, <2>1, <2>2 DEF Follows
      <3> QED BY <2>2, <3>1, <3>2
    <2>4. CASE n = p
      <3>1. Follows(os, x, h)
        BY <1>5, <2>1, <2>2, <2>4
      <3>2. PICK chain \in Nat, i \in Nat, last \in Nat :
              chain = x.chain /\ i = c.i /\ last = y.chain
        BY <1>6, <1>10 DEF StateT
      <3>3. last = (IF chain > i THEN chain ELSE i + 1) /\ h <= chain
        BY <1>10, <3>1, <3>2 DEF Follows
      <3>4. h <= last /\ chain <= last
        BY <3>3
      <3>5. last > h => Took(ot, [id |-> y.id, i |-> last - 1]) # {}
        <4>1. CASE chain > i
          BY <1>10, <1>24, <3>1, <3>2, <3>3, <4>1 DEF Follows
        <4>2. CASE ~(chain > i)
          <5>1. last - 1 = i
            BY <3>3, <4>2
          <5> QED BY <1>6, <1>10, <1>25, <3>2, <5>1
        <4> QED BY <4>1, <4>2
      <3>6. ASSUME NEW k \in h .. last - 1
            PROVE  \/ Took(ot, [id |-> y.id, i |-> k]) # {}
                   \/ HasKey(y, k) \/ last - 1 - k > MaxKeys
        <4>0. k \in Nat /\ k < last
          OBVIOUS
        <4>1. CASE k = i
          BY <1>6, <1>10, <1>25, <3>2, <4>1
        <4>2. CASE k # i /\ HasKey(x, k)
          BY <1>12, <3>2, <4>0, <4>2
        <4>3. CASE ~HasKey(x, k)
          <5>1. ~(chain <= k)
            BY <3>2, <4>3 DEF HasKey
          <5>2. k \in h .. chain - 1
            BY <5>1
          <5>3. Took(os, [id |-> x.id, i |-> k]) # {} \/ chain - 1 - k > MaxKeys
            BY <3>1, <3>2, <4>3, <5>2 DEF Follows
          <5>4. chain - 1 - k > MaxKeys => last - 1 - k > MaxKeys
            BY <3>4, LimitsAssumption
          <5> QED BY <1>10, <1>24, <5>3, <5>4
        <4> QED BY <4>1, <4>2, <4>3
      <3>7. Follows(ot, y, h)
        BY <3>2, <3>4, <3>5, <3>6 DEF Follows
      <3> QED BY <1>15, <2>2, <2>4, <3>7
    <2> QED BY <2>3, <2>4
  <1> QED BY <1>1, <1>14, <1>16, <1>20, <1>23, <1>26 DEF Device, TypedDevice, CanOpen

(* What was never opened, is not older than the key of its id and not too  *)
(* far from it, is opened.                                                 *)
LEMMA NothingRefused ==
    ASSUME NEW ks, NEW rs, NEW os, Device(ks, rs, os), NEW c \in Keys,
           NEW f \in 1 .. Len(ks), ks[f].id = c.id, FirstOf(ks, f), ks[f].chain <= c.i,
           Took(os, c) = {}, Len(ks) <= MaxStates, c.i - ks[f].chain <= MaxFuture,
           \A n \in 1 .. Len(os) : os[n].id = c.id => os[n].i - c.i <= MaxKeys
    PROVE  Decrypts(rs, c.id, c.i)
  <1>1. ks \in Seq(Distributions) /\ rs \in Seq(StateT) /\ os \in Seq(Keys)
    BY DEF Device, TypedDevice
  <1>2. PICK l \in Nat : l = Len(ks) /\ l = Len(rs) /\ f \in 1 .. l
    BY <1>1 DEF Device, Newer
  <1>3. \A n \in 1 .. l : rs[n].id = ks[n].id
    <2> SUFFICES ASSUME NEW n \in 1 .. l PROVE rs[n].id = ks[n].id
      OBVIOUS
    <2>1. n + Behind(ks, rs) = n
      BY <1>2 DEF Behind
    <2> QED BY <1>2, <2>1 DEF Device, Newer
  <1>4. HasState(rs, c.id)
    BY <1>1, <1>2, <1>3 DEF HasState
  <1>5. Place(rs, c.id) = f
    <2>1. PICK p : p = Place(rs, c.id)
      OBVIOUS
    <2>2. p \in 1 .. l /\ rs[p].id = c.id /\ \A m \in 1 .. p - 1 : rs[m].id # c.id
      BY <1>1, <1>2, <1>4, <2>1, PlaceOf
    <2>3. rs[f].id = c.id /\ \A m \in 1 .. f - 1 : rs[m].id # c.id
      BY <1>2, <1>3 DEF FirstOf
    <2>4. ~(p < f) /\ ~(f < p)
      BY <1>2, <2>2, <2>3
    <2> QED BY <1>2, <2>1, <2>2, <2>4
  <1>6. PICK x \in StateT, h \in Nat, i \in Nat : x = rs[f] /\ h = ks[f].chain /\ i = c.i
    <2>1. ks[f] \in Distributions
      BY <1>1
    <2>2. rs[f] \in StateT
      <3>1. f \in 1 .. Len(rs)
        BY <1>2
      <3> QED BY <1>1, <3>1
    <2>3. ks[f].chain \in Nat /\ c.i \in Nat
      BY <2>1 DEF Distributions, Keys
    <2> QED BY <2>2, <2>3
  <1>7. x.chain \in Nat /\ x.keys \in Seq(Nat) /\ x.id = c.id /\ c = [id |-> x.id, i |-> i]
    BY <1>2, <1>3, <1>6 DEF StateT, Keys
  <1>8. Follows(os, x, h)
    BY <1>2, <1>6 DEF Device, MustOpen
  <1>9. Derives(x, i)
    <2>1. CASE ~(x.chain > i)
      <3>1. i - x.chain <= MaxFuture
        BY <1>6, <1>7, <1>8, <2>1, LimitsAssumption DEF Follows
      <3> QED BY <2>1, <3>1 DEF Derives
    <2>2. CASE x.chain > i
      <3>1. i \in h .. x.chain - 1 /\ x.chain > h
        BY <1>6, <1>7, <2>2
      <3>2. HasKey(x, i) \/ x.chain - 1 - i > MaxKeys
        BY <1>7, <1>8, <3>1 DEF Follows
      <3>3. ~(x.chain - 1 - i > MaxKeys)
        <4>1. PICK n \in 1 .. Len(os) : os[n] = [id |-> x.id, i |-> x.chain - 1]
          BY <1>8, <3>1 DEF Follows, Took
        <4>2. os[n].id = c.id /\ os[n].i = x.chain - 1
          BY <1>7, <4>1
        <4>3. os[n].i - c.i <= MaxKeys
          BY <4>2
        <4>4. x.chain - 1 - i <= MaxKeys
          <5>1. os[n].i = x.chain - 1 /\ c.i = i
            BY <1>6, <4>2
          <5> QED BY <4>3, <5>1
        <4>5. MaxKeys \in Nat
          BY LimitsAssumption
        <4> QED BY <1>7, <4>4, <4>5
      <3>4. PICK n \in 1 .. Len(x.keys) : x.keys[n] = i
        BY <1>7, <2>2, <3>2, <3>3 DEF HasKey
      <3>5. n \in DOMAIN x.keys
        BY <1>7, <3>4
      <3> QED BY <2>2, <3>4, <3>5 DEF Derives
    <2> QED BY <2>1, <2>2
  <1> QED BY <1>4, <1>5, <1>6, <1>9 DEF Decrypts

Stanzas ==
    /\ \A s \in Sends : pc[s] \in {"address", "remember", "send"} => key[s] \in Keys
    /\ \A m \in net : m.id \in Nat /\ m.i \in Nat
    /\ records \in [Devices -> Seq(StateT)] /\ opened \in [Devices -> Seq(Keys)]
    /\ refused \in [Devices -> SUBSET Keys]
    /\ \A d \in Devices : Device(keyed[d], records[d], opened[d])

Readers == Typed /\ TypedDevices /\ Stanzas

LEMMA ReadersInit == Init => Stanzas
  <1> SUFFICES ASSUME Init PROVE Stanzas
    OBVIOUS
  <1>1. PICK x \in StateT : x = Derived(State(1, 0), 0) /\ x.id = 1 /\ x.chain = 1
    <2>1. State(1, 0) \in StateT /\ State(1, 0).chain <= 0 /\ State(1, 0).id = 1
      BY DEF State, StateT
    <2> QED BY <2>1, KeptKeys
  <1>2. Rising(x.keys, x.chain) /\ ~HasKey(x, 0)
    <2>1. PICK z \in StateT : z = State(1, 0) /\ z.chain = 0 /\ z.keys = <<>>
      <3>1. State(1, 0).keys = <<>>
        BY DEF State
      <3>2. State(1, 0) \in StateT /\ State(1, 0).chain = 0
        BY DEF State, StateT
      <3> QED BY <3>1, <3>2
    <2>2. Rising(z.keys, z.chain) /\ HasKey(z, 0)
      BY <2>1, EmptySeq DEF Rising, HasKey
    <2> QED BY <1>1, <2>1, <2>2, DerivedState
  <1>3. PICK k \in Distributions : k = [id |-> 1, chain |-> 0]
    BY DEF Distributions
  <1>4. PICK c \in Keys : c = [id |-> 1, i |-> 0]
    BY DEF Keys
  <1>5. Device(<<>>, <<>>, <<>>)
    <2>1. /\ <<>> \in Seq(Distributions) /\ <<>> \in Seq(StateT) /\ <<>> \in Seq(Keys)
          /\ Len(<<>>) = 0
      BY EmptySeq
    <2>2. Newer(<<>>, <<>>)
      BY <2>1, LimitsAssumption DEF Newer
    <2>3. ASSUME NEW e \in Keys
          PROVE  Cardinality(Took(<<>>, e)) + Cardinality(Able(<<>>, <<>>, e))
                   <= Cardinality(Of(<<>>, e.id))
      <3>1. Took(<<>>, e) = {} /\ Able(<<>>, <<>>, e) = {} /\ Of(<<>>, e.id) = {}
        BY <2>1 DEF Took, Able, Of
      <3>2. Cardinality({}) = 0
        BY FS_EmptySet
      <3>3. /\ Cardinality(Took(<<>>, e)) = 0 /\ Cardinality(Able(<<>>, <<>>, e)) = 0
            /\ Cardinality(Of(<<>>, e.id)) = 0
        BY <3>1, <3>2
      <3> QED BY <3>3
    <2>4. MustOpen(<<>>, <<>>, <<>>)
      BY <2>1 DEF MustOpen
    <2> QED BY <2>1, <2>2, <2>3, <2>4 DEF Device, TypedDevice, CanOpen
  <1>6. Device(<<k>>, <<x>>, <<c>>)
    <2>1. /\ <<k>> \in Seq(Distributions) /\ <<x>> \in Seq(StateT) /\ <<c>> \in Seq(Keys)
          /\ Len(<<k>>) = 1 /\ Len(<<x>>) = 1 /\ Len(<<c>>) = 1
          /\ <<k>>[1] = k /\ <<x>>[1] = x /\ <<c>>[1] = c
      OBVIOUS
    <2>2. MaxStates \in Nat /\ 1 <= MaxStates
      BY LimitsAssumption
    <2>3. Newer(<<k>>, <<x>>)
      <3>1. Behind(<<k>>, <<x>>) = 0
        BY <2>1 DEF Behind
      <3>2. \A n \in 1 .. 1 : <<x>>[n].id = <<k>>[n + 0].id /\ Rising(<<x>>[n].keys, <<x>>[n].chain)
        <4> SUFFICES ASSUME NEW n \in 1 .. 1
                     PROVE  <<x>>[n].id = <<k>>[n + 0].id /\ Rising(<<x>>[n].keys, <<x>>[n].chain)
          OBVIOUS
        <4>1. n = 1 /\ n + 0 = 1
          OBVIOUS
        <4> QED BY <1>1, <1>2, <1>3, <2>1, <4>1
      <3> QED BY <2>1, <2>2, <3>1, <3>2 DEF Newer
    <2>4. ASSUME NEW e \in Keys
          PROVE  Cardinality(Took(<<c>>, e)) + Cardinality(Able(<<k>>, <<x>>, e))
                   <= Cardinality(Of(<<k>>, e.id))
      <3>1. PICK t \in Nat, a \in Nat, g \in Nat :
              /\ t = Cardinality(Took(<<c>>, e)) /\ a = Cardinality(Able(<<k>>, <<x>>, e))
              /\ g = Cardinality(Of(<<k>>, e.id))
        <4>1. /\ Took(<<c>>, e) \subseteq 1 .. 1 /\ Able(<<k>>, <<x>>, e) \subseteq 1 .. 1
              /\ Of(<<k>>, e.id) \subseteq 1 .. 1
          BY <2>1 DEF Took, Able, Of
        <4> QED BY <4>1, SomePlaces
      <3>2. CASE e.id # 1
        <4>1. Took(<<c>>, e) = {} /\ Able(<<k>>, <<x>>, e) = {}
          BY <1>3, <1>4, <2>1, <3>2 DEF Took, Able, Of
        <4> QED BY <3>1, <4>1, FS_EmptySet
      <3>3. CASE e = c
        <4>1. Took(<<c>>, e) = {1} /\ Of(<<k>>, e.id) = {1}
          BY <1>3, <1>4, <2>1, <3>3 DEF Took, Of
        <4>3. Able(<<k>>, <<x>>, e) = {}
          BY <1>2, <1>4, <2>1, <3>3 DEF Able, Of, Behind
        <4> QED BY <4>1, <4>3, FS_EmptySet, FS_Singleton
      <3>4. CASE e.id = 1 /\ e # c
        <4>1. Took(<<c>>, e) = {} /\ Of(<<k>>, e.id) = {1} /\ Able(<<k>>, <<x>>, e) \subseteq {1}
          BY <1>3, <2>1, <3>4 DEF Took, Of, Able
        <4>2. IsFiniteSet({1})
          BY FS_Singleton
        <4>3. a <= g
          BY <3>1, <4>1, <4>2, FewerPlaces
        <4> QED BY <3>1, <4>1, <4>3, FS_EmptySet
      <3> QED BY <3>2, <3>3, <3>4
    <2>5. Follows(<<c>>, x, 0)
      <3>1. 1 \in Took(<<c>>, [id |-> x.id, i |-> 0])
        BY <1>1, <1>4, <2>1 DEF Took
      <3>2. x.chain - 1 = 0 /\ \A i \in 0 .. x.chain - 1 : i = 0
        BY <1>1
      <3> QED BY <1>1, <3>1, <3>2 DEF Follows
    <2>6. MustOpen(<<k>>, <<x>>, <<c>>)
      <3> SUFFICES ASSUME NEW n \in 1 .. 1 PROVE Follows(<<c>>, <<x>>[n], <<k>>[n].chain)
        BY <2>1 DEF MustOpen
      <3>1. n = 1
        OBVIOUS
      <3> QED BY <1>3, <2>1, <2>5, <3>1
    <2> QED BY <2>1, <2>3, <2>4, <2>6 DEF Device, TypedDevice, CanOpen
  <1>7. /\ \A s \in Sends : pc[s] = "idle"
        /\ net = {} /\ refused = [d \in Devices |-> {}]
        /\ keyed = [d \in Devices |-> IF ids = 0 THEN <<>> ELSE <<k>>]
        /\ records = [d \in Devices |-> IF ids = 0 THEN <<>> ELSE <<x>>]
        /\ opened = [d \in Devices |-> IF ids = 0 THEN <<>> ELSE <<c>>]
    BY <1>1, <1>3, <1>4 DEF Init
  <1>8. \A d \in Devices : Device(keyed[d], records[d], opened[d])
    <2>1. CASE ids = 0
      BY <1>5, <1>7, <2>1
    <2>2. CASE ids # 0
      BY <1>6, <1>7, <2>2
    <2> QED BY <2>1, <2>2
  <1>9. records \in [Devices -> Seq(StateT)] /\ opened \in [Devices -> Seq(Keys)]
    BY <1>5, <1>6, <1>7 DEF Device, TypedDevice
  <1> QED BY <1>7, <1>8, <1>9 DEF Stanzas

(* What a device has once it has processed the key of a stanza. *)
LEMMA Delivered ==
    ASSUME Typed, TypedDevices, Stanzas, NEW m \in net, Deliver(m)
    PROVE  \E c \in Keys, rs \in Seq(StateT) :
             /\ c.id = m.id /\ c.i = m.i
             /\ Device(keyed'[m.to], rs, opened[m.to])
             /\ \A d \in Devices \ {m.to} :
                  /\ keyed'[d] = keyed[d] /\ records'[d] = records[d]
                  /\ opened'[d] = opened[d] /\ refused'[d] = refused[d]
             /\ records' \in [Devices -> Seq(StateT)] /\ opened' \in [Devices -> Seq(Keys)]
             /\ refused' \in [Devices -> SUBSET Keys]
             /\ \/ /\ Decrypts(rs, c.id, c.i) /\ refused' = refused
                   /\ records'[m.to] = Decrypted(rs, c.id, c.i)
                   /\ opened'[m.to] = Append(opened[m.to], c)
                \/ /\ ~Decrypts(rs, c.id, c.i)
                   /\ opened' = opened /\ records'[m.to] = rs
                   /\ refused'[m.to] = refused[m.to] \cup {c}
  <1>1. PICK d \in Devices : d = m.to
    BY DEF TypedDevices
  <1>2. PICK c \in Keys : c = [id |-> m.id, i |-> m.i]
    BY DEF Stanzas, Keys
  <1>3. c.id = m.id /\ c.i = m.i
    BY <1>2
  <1>4. Device(keyed[d], records[d], opened[d])
    BY DEF Stanzas
  <1>5. PICK rs : rs = IF m.skdm = None THEN records[d]
                       ELSE AddState(records[d], m.skdm.id, m.skdm.chain)
    OBVIOUS
  <1>6. keyed' = IF m.skdm = None THEN keyed ELSE [keyed EXCEPT ![d] = Append(@, m.skdm)]
    BY <1>1 DEF Deliver
  <1>7. Device(keyed'[d], rs, opened[d]) /\ \A e \in Devices \ {d} : keyed'[e] = keyed[e]
    <2>1. CASE m.skdm = None
      BY <1>4, <1>5, <1>6, <2>1
    <2>2. CASE m.skdm # None
      <3>1. PICK k \in Distributions : k = m.skdm
        BY <2>2 DEF TypedDevices
      <3>2. keyed' = [keyed EXCEPT ![d] = Append(@, k)] /\ rs = AddState(records[d], k.id, k.chain)
        BY <1>5, <1>6, <2>2, <3>1
      <3>3. keyed'[d] = Append(keyed[d], k) /\ \A e \in Devices \ {d} : keyed'[e] = keyed[e]
        BY <3>2 DEF TypedDevices
      <3> QED BY <1>4, <3>2, <3>3, KeyGiven
    <2> QED BY <2>1, <2>2
  <1>8. rs \in Seq(StateT)
    BY <1>7 DEF Device, TypedDevice
  <1>9. CASE Decrypts(rs, c.id, c.i)
    <2>1. /\ records' = [records EXCEPT ![d] = Decrypted(rs, c.id, c.i)]
          /\ opened' = [opened EXCEPT ![d] = Append(@, c)]
          /\ refused' = refused
      BY <1>1, <1>2, <1>3, <1>5, <1>9 DEF Deliver
    <2>2. PICK rt : rt = Decrypted(rs, c.id, c.i)
      OBVIOUS
    <2>3. PICK ot : ot = Append(opened[d], c)
      OBVIOUS
    <2>4. Device(keyed'[d], rt, ot)
      BY <1>7, <1>9, <2>2, <2>3, KeyOpened
    <2>5. rt \in Seq(StateT) /\ ot \in Seq(Keys)
      BY <2>4 DEF Device, TypedDevice
    <2>6. /\ records' = [records EXCEPT ![d] = rt] /\ opened' = [opened EXCEPT ![d] = ot]
      BY <2>1, <2>2, <2>3
    <2>7. /\ records' \in [Devices -> Seq(StateT)] /\ opened' \in [Devices -> Seq(Keys)]
          /\ refused' \in [Devices -> SUBSET Keys]
          /\ records'[d] = rt /\ opened'[d] = ot
          /\ \A e \in Devices \ {d} : records'[e] = records[e] /\ opened'[e] = opened[e]
      BY <2>1, <2>5, <2>6 DEF Stanzas
    <2> QED BY <1>1, <1>3, <1>7, <1>8, <1>9, <2>1, <2>2, <2>3, <2>7
  <1>10. CASE ~Decrypts(rs, c.id, c.i)
    <2>1. /\ records' = [records EXCEPT ![d] = rs] /\ opened' = opened
          /\ refused' = [refused EXCEPT ![d] = @ \cup {c}]
      BY <1>1, <1>2, <1>3, <1>5, <1>10 DEF Deliver
    <2>2. /\ records' \in [Devices -> Seq(StateT)] /\ opened' \in [Devices -> Seq(Keys)]
          /\ refused' \in [Devices -> SUBSET Keys]
          /\ records'[d] = rs /\ refused'[d] = refused[d] \cup {c}
          /\ \A e \in Devices \ {d} : records'[e] = records[e] /\ refused'[e] = refused[e]
      BY <1>8, <2>1 DEF Stanzas
    <2> QED BY <1>1, <1>3, <1>7, <1>8, <1>10, <2>1, <2>2
  <1> QED BY <1>9, <1>10

LEMMA ReadersStep ==
    ASSUME Typed, TypedDevices, Stanzas, [Next]_vars
    PROVE  Stanzas'
  <1>0. pc \in [Sends -> Places] /\ key \in [Sends -> Keys \cup {None}]
    BY DEF Typed, TypedSends
  <1>1. ASSUME UNCHANGED <<records, opened, refused, keyed>>,
               \A s \in Sends : pc'[s] \in {"address", "remember", "send"} => key'[s] \in Keys,
               \A m \in net' : m.id \in Nat /\ m.i \in Nat
        PROVE  Stanzas'
    BY <1>1 DEF Stanzas
  <1>2. ASSUME NEW s \in Sends, Encrypt(s) PROVE Stanzas'
    <2>1. PICK record : record = RecordOf(s)
      OBVIOUS
    <2>2. record \in OwnRecords
      BY <1>2, <2>1, HeldTyped DEF Encrypt
    <2>3. PICK k : k = [id |-> Last(record).id, i |-> Iteration(Last(record))]
      OBVIOUS
    <2>4. k \in Keys
      <3>1. /\ Iteration(Last(record)) \in Nat /\ Last(record) \in StateT
        BY <2>2, NextRecord
      <3> QED BY <2>3, <3>1 DEF StateT, Keys
    <2>5. /\ key' = [key EXCEPT ![s] = k] /\ pc' = [pc EXCEPT ![s] = "address"]
          /\ UNCHANGED <<net, records, opened, refused, keyed>>
      BY <1>2, <2>1, <2>3 DEF Encrypt, Goto, peers
    <2>6. \A t \in Sends : pc'[t] \in {"address", "remember", "send"} => key'[t] \in Keys
      BY <1>0, <2>4, <2>5 DEF Stanzas
    <2> QED BY <1>1, <2>5, <2>6 DEF Stanzas
  <1>3. ASSUME NEW s \in Sends, Send(s) \/ SendRaises(s) PROVE Stanzas'
    <2>1. /\ UNCHANGED <<key, records, opened, refused, keyed>> /\ pc[s] = "send"
          /\ \E p \in {"commit", "sent", "raise"} : pc' = [pc EXCEPT ![s] = p]
          /\ net' = net \/ net' = net \cup {Stanza(s, d) : d \in Devices}
      BY <1>3 DEF Send, SendRaises, Leave, Goto, At
    <2>2. \A d \in Devices : Stanza(s, d).id \in Nat /\ Stanza(s, d).i \in Nat
      <3>1. key[s] \in Keys
        BY <2>1 DEF Stanzas
      <3> QED BY <3>1 DEF Stanza, Keys
    <2>3. \A m \in net' : m.id \in Nat /\ m.i \in Nat
      BY <2>1, <2>2 DEF Stanzas
    <2>4. \A t \in Sends : pc'[t] \in {"address", "remember", "send"} => key'[t] \in Keys
      BY <1>0, <2>1 DEF Stanzas
    <2> QED BY <1>1, <2>1, <2>3, <2>4
  <1>4. ASSUME NEW s \in Sends,
               \/ Begin(s) \/ ReadMemory(s) \/ Load(s) \/ StoreBlank(s) \/ CreateKey(s)
               \/ Address(s) \/ Remember(s) \/ Commit(s) \/ Committed(s) \/ Raise(s)
               \/ Cancel(s)
        PROVE  Stanzas'
    <2>1. /\ UNCHANGED <<key, net, records, opened, refused, keyed>>
          /\ \A t \in Sends \ {s} : pc'[t] = pc[t]
          /\ pc'[s] \in {"address", "remember", "send"} => pc[s] \in {"address", "remember"}
      BY <1>0, <1>4 DEF Begin, ReadMemory, Load, StoreBlank, CreateKey, Address, Remember,
         Commit, Committed, Raise, Cancel, Goto, At, peers
    <2>2. \A t \in Sends : pc'[t] \in {"address", "remember", "send"} => key'[t] \in Keys
      BY <2>1 DEF Stanzas
    <2> QED BY <1>1, <2>1, <2>2 DEF Stanzas
  <1>5. ASSUME NEW f \in Files, Write(f) \/ FailWrite(f) \/ Stray(f) PROVE Stanzas'
    <2>1. /\ UNCHANGED <<key, net, records, opened, refused, keyed>>
          /\ pc' = pc \/ \E s, p : pc' = [pc EXCEPT ![s] = p] /\ p \in {"commit", "raise"}
      BY <1>5 DEF Write, FailWrite, Stray, Goto, hand, peers
    <2>2. \A t \in Sends : pc'[t] = pc[t] \/ pc'[t] \in {"commit", "raise"}
      BY <1>0, <2>1
    <2>3. \A t \in Sends : pc'[t] \in {"address", "remember", "send"} => key'[t] \in Keys
      BY <2>1, <2>2 DEF Stanzas
    <2> QED BY <1>1, <2>1, <2>3 DEF Stanzas
  <1>6. CASE Crash
    <2>1. /\ UNCHANGED <<key, net, records, opened, refused, keyed>>
          /\ \A t \in Sends : pc'[t] = pc[t] \/ pc'[t] = "failed"
      BY <1>6 DEF Crash, peers
    <2>2. \A t \in Sends : pc'[t] \in {"address", "remember", "send"} => key'[t] \in Keys
      BY <2>1 DEF Stanzas
    <2> QED BY <1>1, <2>1, <2>2 DEF Stanzas
  <1>7. CASE UNCHANGED vars
    <2>1. UNCHANGED <<pc, key, net, records, opened, refused, keyed>>
      BY <1>7 DEF vars, hand, peers
    <2> QED BY <1>1, <2>1 DEF Stanzas
  <1>8. ASSUME NEW m \in net, Deliver(m) PROVE Stanzas'
    <2>1. net' \subseteq net /\ pc' = pc /\ key' = key
      BY <1>8 DEF Deliver, hand
    <2>2. PICK c \in Keys, rs \in Seq(StateT) :
             /\ Device(keyed'[m.to], rs, opened[m.to])
             /\ \A d \in Devices \ {m.to} :
                  keyed'[d] = keyed[d] /\ records'[d] = records[d] /\ opened'[d] = opened[d]
             /\ records' \in [Devices -> Seq(StateT)] /\ opened' \in [Devices -> Seq(Keys)]
             /\ refused' \in [Devices -> SUBSET Keys]
             /\ \/ /\ Decrypts(rs, c.id, c.i)
                   /\ records'[m.to] = Decrypted(rs, c.id, c.i)
                   /\ opened'[m.to] = Append(opened[m.to], c)
                \/ opened' = opened /\ records'[m.to] = rs
      BY <1>8, Delivered
    <2>3. Device(keyed'[m.to], records'[m.to], opened'[m.to])
      <3>1. CASE /\ Decrypts(rs, c.id, c.i)
                 /\ records'[m.to] = Decrypted(rs, c.id, c.i)
                 /\ opened'[m.to] = Append(opened[m.to], c)
        <4>1. PICK ks, os, rt, ot :
                /\ ks = keyed'[m.to] /\ os = opened[m.to]
                /\ rt = Decrypted(rs, c.id, c.i) /\ ot = Append(os, c)
          OBVIOUS
        <4>2. Device(ks, rs, os) /\ Decrypts(rs, c.id, c.i)
          BY <2>2, <3>1, <4>1
        <4>3. Device(ks, rt, ot)
          BY <4>1, <4>2, KeyOpened
        <4> QED BY <3>1, <4>1, <4>3
      <3>2. CASE opened' = opened /\ records'[m.to] = rs
        BY <2>2, <3>2
      <3> QED BY <2>2, <3>1, <3>2
    <2>4. ASSUME NEW d \in Devices PROVE Device(keyed'[d], records'[d], opened'[d])
      <3>1. CASE d = m.to
        BY <2>3, <3>1
      <3>2. CASE d # m.to
        <4>1. keyed'[d] = keyed[d] /\ records'[d] = records[d] /\ opened'[d] = opened[d]
          BY <2>2, <3>2
        <4>2. Device(keyed[d], records[d], opened[d])
          BY DEF Stanzas
        <4> QED BY <4>1, <4>2
      <3> QED BY <3>1, <3>2
    <2> QED BY <2>1, <2>2, <2>4 DEF Stanzas
  <1> QED BY <1>2, <1>3, <1>4, <1>5, <1>6, <1>7, <1>8 DEF Next

LEMMA AsGivenTells ==
    ASSUME Stanzas
    PROVE  AsGiven
  <1> SUFFICES ASSUME NEW d \in Devices, NEW n \in DOMAIN opened[d]
               PROVE  Cardinality(Opens(d, opened[d][n])) <= Cardinality(Given(d, opened[d][n].id))
    BY DEF AsGiven
  <1>1. PICK ks, rs, os : ks = keyed[d] /\ rs = records[d] /\ os = opened[d]
    OBVIOUS
  <1>2. Device(ks, rs, os)
    BY <1>1 DEF Stanzas
  <1>3. ks \in Seq(Distributions) /\ os \in Seq(Keys)
    BY <1>2 DEF Device, TypedDevice
  <1>4. PICK l \in Nat, o \in Nat : l = Len(ks) /\ o = Len(os)
    BY <1>3
  <1>5. DOMAIN ks = 1 .. l /\ DOMAIN os = 1 .. o
    BY <1>3, <1>4
  <1>6. PICK c \in Keys : c = os[n]
    BY <1>1, <1>3
  <1>7. Opens(d, c) = Took(os, c) /\ Given(d, c.id) = Of(ks, c.id)
    BY <1>1, <1>4, <1>5 DEF Opens, Given, Took, Of
  <1>8. PICK t \in Nat, a \in Nat, g \in Nat :
          /\ t = Cardinality(Took(os, c)) /\ a = Cardinality(Able(ks, rs, c))
          /\ g = Cardinality(Of(ks, c.id))
    <2>1. Took(os, c) \subseteq 1 .. o /\ Able(ks, rs, c) \subseteq 1 .. l /\ Of(ks, c.id) \subseteq 1 .. l
      BY <1>4 DEF Took, Able, Of
    <2> QED BY <2>1, SomePlaces
  <1>9. t + a <= g
    BY <1>2, <1>8 DEF Device, CanOpen
  <1>10. t <= g
    BY <1>9
  <1> QED BY <1>1, <1>6, <1>7, <1>8, <1>10

LEMMA FirstChosen ==
    ASSUME NEW ks \in Seq(Distributions), NEW id,
           NEW T, T # {}, \A n : n \in T <=> n \in DOMAIN ks /\ ks[n].id = id,
           NEW f, f \in T, \A m \in T : f <= m
    PROVE  f \in 1 .. Len(ks) /\ ks[f].id = id /\ FirstOf(ks, f)
  <1>1. DOMAIN ks = 1 .. Len(ks) /\ Len(ks) \in Nat
    OBVIOUS
  <1>2. f \in 1 .. Len(ks) /\ ks[f].id = id
    BY <1>1
  <1>3. FirstOf(ks, f)
    <2> SUFFICES ASSUME NEW m \in 1 .. f - 1, ks[m].id = id PROVE FALSE
      BY <1>2 DEF FirstOf
    <2>1. m \in 1 .. Len(ks) /\ ~(f <= m)
      BY <1>1, <1>2
    <2>2. m \in T
      BY <1>1, <2>1
    <2> QED BY <2>1, <2>2
  <1> QED BY <1>2, <1>3

LEMMA RefusedTells ==
    ASSUME Readers, [Next]_vars
    PROVE  RefusedForReason \/ UNCHANGED refused
  <1>1. CASE \E m \in net : Deliver(m)
    <2>1. PICK m \in net : Deliver(m)
      BY <1>1
    <2>2. PICK c \in Keys, rs \in Seq(StateT) :
            /\ Device(keyed'[m.to], rs, opened[m.to])
            /\ \A d \in Devices \ {m.to} : refused'[d] = refused[d]
            /\ \/ Decrypts(rs, c.id, c.i) /\ refused' = refused
               \/ /\ ~Decrypts(rs, c.id, c.i) /\ opened' = opened
                  /\ refused'[m.to] = refused[m.to] \cup {c}
      BY <2>1, Delivered DEF Readers
    <2>3. PICK b : b = m.to
      OBVIOUS
    <2>4. PICK ks, os : ks = keyed'[b] /\ os = opened[b]
      OBVIOUS
    <2>5. Device(ks, rs, os)
      BY <2>2, <2>3, <2>4
    <2>6. ks \in Seq(Distributions) /\ os \in Seq(Keys)
      BY <2>5 DEF Device, TypedDevice
    <2>7. CASE ~(refused' = refused)
      <3> SUFFICES ASSUME NEW d \in Devices, NEW e \in refused'[d] \ refused[d],
                          ~(Given(d, e.id)' = {}), ~(FirstGiven(d, e.id)'.chain > e.i),
                          Opens(d, e) = {}, RoomFor(d, e)'
                   PROVE  FALSE
        BY DEF RefusedForReason
      <3>1. d = b /\ e = c /\ opened' = opened /\ ~Decrypts(rs, c.id, c.i)
        BY <2>2, <2>3, <2>7
      <3>2. keyed'[d] = ks /\ opened'[d] = os /\ opened[d] = os
        BY <2>4, <3>1
      <3>3. PICK T : T = {n \in DOMAIN ks : ks[n].id = c.id}
        OBVIOUS
      <3>4. T # {} /\ T = Given(d, e.id)'
        BY <3>1, <3>2, <3>3 DEF Given
      <3>5. PICK f : f = CHOOSE n \in T : \A j \in T : n <= j
        OBVIOUS
      <3>6. f \in 1 .. Len(ks) /\ ks[f].id = c.id /\ FirstOf(ks, f)
        <4>1. T \subseteq Nat
          BY <2>6, <3>3
        <4>2. f \in T /\ \A j \in T : f <= j
          <5>1. \E n \in T : \A j \in T : n <= j
            BY <3>4, <4>1, LeastNumber
          <5> QED BY <3>5, <5>1
        <4> QED BY <2>6, <3>3, <3>4, <4>2, FirstChosen
      <3>7. FirstGiven(d, e.id)' = ks[f]
        BY <3>2, <3>4, <3>5 DEF FirstGiven
      <3>8. ks[f].chain <= c.i
        <4>1. ks[f] \in Distributions
          BY <2>6, <3>6
        <4>2. PICK h \in Nat, i \in Nat : h = ks[f].chain /\ i = c.i
          BY <4>1 DEF Distributions, Keys
        <4>3. ~(h > i)
          BY <3>1, <3>7, <4>2
        <4> QED BY <4>2, <4>3
      <3>9. DOMAIN os = 1 .. Len(os)
        BY <2>6
      <3>10. Took(os, c) = {}
        BY <3>1, <3>2, <3>9 DEF Opens, Took
      <3>11. /\ Len(ks) <= MaxStates /\ c.i - ks[f].chain <= MaxFuture
             /\ \A n \in 1 .. Len(os) : os[n].id = c.id => os[n].i - c.i <= MaxKeys
        BY <3>1, <3>2, <3>7, <3>9 DEF RoomFor
      <3> QED BY <2>5, <3>1, <3>6, <3>8, <3>10, <3>11, NothingRefused
    <2> QED BY <2>7
  <1>2. CASE ~\E m \in net : Deliver(m)
    BY <1>2 DEF Next, vars, peers, Begin, ReadMemory, Load, StoreBlank, CreateKey, Encrypt,
       Address, Remember, Send, SendRaises, Commit, Committed, Raise, Cancel, Write, FailWrite,
       Stray, Crash
  <1> QED BY <1>1, <1>2

(* Whatever order the stanzas come in and however often, no device         *)
(* decrypts one ciphertext more often than it was given its key, and it    *)
(* refuses one only if it has not got the key, got it from a later         *)
(* iteration on, has decrypted the ciphertext before, or had no room       *)
(* (group_cipher.py 86-110), for every bound on states, keys and distance. *)
THEOREM EachOpenedOnce == Spec => OpenedOnce
  <1>1. Init => Readers
    BY TypedInit, DevicesInit, ReadersInit DEF Readers
  <1>2. Readers /\ [Next]_vars => Readers'
    BY TypedStep, DevicesStep, ReadersStep DEF Readers
  <1>3. Readers => AsGiven
    BY AsGivenTells DEF Readers
  <1>4. Readers /\ [Next]_vars => [RefusedForReason]_vars
    <2> SUFFICES ASSUME Readers, [Next]_vars, ~UNCHANGED vars PROVE RefusedForReason
      OBVIOUS
    <2>1. CASE UNCHANGED refused
      BY <2>1 DEF RefusedForReason
    <2> QED BY <2>1, RefusedTells
  <1> QED BY <1>1, <1>2, <1>3, <1>4, PTL DEF Spec, OpenedOnce

-----------------------------------------------------------------------------
(* The channel.  The first two frames of the client and the first of the   *)
(* server are the handshake's; the phase says how many there are.          *)
Frames == [intro : BOOLEAN, counter : Int, node : Nodes \cup {Handshake}]
Shaken ==
    /\ phase \in {"hello", "finish", "done"} /\ intro = TRUE
    /\ out \in Seq(Frames) /\ queue \in Seq(Frames)
    /\ phase = "hello" => Len(out) + Len(queue) = 1
    /\ phase = "finish" => Len(out) + Len(queue) = 2
    /\ phase = "done" => Len(out) >= 2
    /\ phase # "done" => writeCounter = 0 /\ readCounter = 0
    /\ phase # "hello" => taken >= 1

(* Every other frame of the client has the counter that its node had when  *)
(* it was sent ...                                                         *)
Counted(f) ==
    /\ f.intro = FALSE /\ f.counter \in 0 .. writeCounter - 1
    /\ f.node = sent[f.counter + 1]
Outbound ==
    /\ sent \in Seq(OwnNodes) /\ writeCounter = Len(sent) /\ failures \in Nat
    /\ \A k \in 1 .. Len(out) : k > 2 => Counted(out[k])
    /\ \A k \in 1 .. Len(queue) : phase = "done" => Counted(queue[k])

(* ... and as long as nothing was cancelled, that of its place.            *)
Unbroken ==
    failures = 0 =>
        /\ \A k \in 1 .. Len(out) : k > 2 => out[k].counter = k - 3
        /\ phase = "done" =>
             /\ writeCounter = Len(out) + Len(queue) - 2
             /\ \A k \in 1 .. Len(queue) : queue[k].counter = Len(out) + k - 3

ReadSoFar ==
    /\ got \in Seq(OwnNodes) /\ deaf \in BOOLEAN
    /\ SendsInStep

(* Of the frames of the server the one after those taken has the counter   *)
(* taken - 1, so that the client is in step until a frame is taken for one *)
(* of the handshake, and nothing is given after that.                      *)
Inward ==
    /\ served \in Seq(ServerNodes) /\ in \in Seq(Frames) /\ taken \in Nat /\ readCounter \in Nat
    /\ in = <<>> => served = <<>> /\ taken = 0
    /\ in # <<>> => Len(in) = Len(served) + 1
    /\ \A k \in 1 .. Len(in) : k > 1 => in[k].counter = k - 2 /\ in[k].node = served[k - 1]
    /\ taken <= Len(in) /\ (taken > 0 => readCounter <= taken - 1)
    /\ given \in Seq(ServerNodes) /\ Len(given) <= readCounter
    /\ taken > 0 /\ readCounter = taken - 1 => Len(given) = readCounter
    /\ Len(given) <= Len(served)
    /\ \A k \in 1 .. Len(given) : given[k] = served[k]

InStep == Shaken /\ Outbound /\ Unbroken /\ ReadSoFar /\ Inward

LEMMA FramesMade ==
    /\ \A intros \in BOOLEAN : [intro |-> intros, counter |-> Handshake, node |-> Handshake] \in Frames
    /\ \A c \in Int : \A n \in Nodes \cup {Handshake} :
         [intro |-> FALSE, counter |-> c, node |-> n] \in Frames
  <1>1. Handshake \in Int
    BY DEF Handshake
  <1> QED BY <1>1 DEF Frames

LEMMA InStepInit == ChannelInit => InStep
  <1> SUFFICES ASSUME ChannelInit PROVE InStep
    OBVIOUS
  <1>1. PICK f \in Frames : f = [intro |-> TRUE, counter |-> Handshake, node |-> Handshake]
    BY FramesMade
  <1>2. queue = <<f>> /\ out = <<>> /\ Len(<<f>>) = 1 /\ Len(<<>>) = 0
    BY <1>1, EmptySeq DEF ChannelInit
  <1>3. \A S : <<>> \in Seq(S)
    BY EmptySeq
  <1>4. Shaken
    <2>1. <<f>> \in Seq(Frames)
      OBVIOUS
    <2>2. /\ phase = "hello" /\ intro = TRUE /\ writeCounter = 0 /\ readCounter = 0
          /\ Len(out) = 0 /\ Len(queue) = 1
      BY <1>2 DEF ChannelInit
    <2>3. out \in Seq(Frames) /\ queue \in Seq(Frames)
      BY <1>2, <1>3, <2>1
    <2> QED BY <2>2, <2>3 DEF Shaken
  <1>5. Outbound
    BY <1>2, <1>3 DEF ChannelInit, Outbound
  <1>6. Unbroken
    BY <1>2, <1>3 DEF ChannelInit, Unbroken
  <1>7. ReadSoFar
    <2>1. got = <<>> /\ sent = <<>> /\ deaf = FALSE /\ DOMAIN <<>> = {}
      BY DEF ChannelInit
    <2>2. got \in Seq(OwnNodes) /\ Len(got) <= Len(sent)
      BY <1>2, <1>3, <2>1
    <2> QED BY <2>1, <2>2 DEF ReadSoFar, SendsInStep
  <1>8. Inward
    BY <1>2, <1>3 DEF ChannelInit, Inward
  <1> QED BY <1>4, <1>5, <1>6, <1>7, <1>8 DEF InStep

(* The frames of the client: they are written in the order of sending,     *)
(* those that are left.                                                    *)
LEMMA TransmitKeeps ==
    ASSUME InStep, Transmit
    PROVE  Shaken' /\ Outbound' /\ Unbroken'
  <1>1. PICK o \in Nat, q \in Nat : o = Len(out) /\ q = Len(queue)
    BY DEF InStep, Shaken
  <1>2. q >= 1 /\ queue[1] = Head(queue) /\ queue[1] \in Frames
    BY <1>1, EmptySeq DEF InStep, Shaken, Transmit
  <1>3. PICK f \in Frames : f = queue[1]
    BY <1>2
  <1>4. /\ out' \in Seq(Frames) /\ Len(out') = o + 1 /\ out'[o + 1] = f
        /\ \A k \in 1 .. o : out'[k] = out[k]
    BY <1>1, <1>2, <1>3, AppendProperties DEF InStep, Shaken, Transmit
  <1>5. /\ queue' \in Seq(Frames) /\ Len(queue') = q - 1
        /\ \A k \in 1 .. q - 1 : queue'[k] = queue[k + 1]
    BY <1>1, HeadTailProperties DEF InStep, Shaken, Transmit
  <1>6. UNCHANGED <<phase, intro, writeCounter, readCounter, sent, taken, failures>>
    BY DEF Transmit, reader
  <1>7. Shaken'
    BY <1>1, <1>2, <1>4, <1>5, <1>6 DEF InStep, Shaken
  <1>8. ASSUME NEW k \in 1 .. o + 1, k > 2
        PROVE  Counted(out'[k]) /\ (failures = 0 => out'[k].counter = k - 3)
    <2>1. CASE k \in 1 .. o
      BY <1>1, <1>4, <1>8, <2>1 DEF InStep, Outbound, Unbroken
    <2>2. CASE k = o + 1
      <3>1. phase = "done" /\ 1 \in 1 .. q /\ k - 3 = o + 1 - 3
        BY <1>1, <1>2, <1>8, <2>2 DEF InStep, Shaken
      <3>2. Counted(f) /\ (failures = 0 => f.counter = o + 1 - 3)
        BY <1>1, <1>3, <3>1 DEF InStep, Outbound, Unbroken
      <3> QED BY <1>4, <2>2, <3>1, <3>2
    <2> QED BY <2>1, <2>2
  <1>9. ASSUME NEW k \in 1 .. q - 1, phase = "done"
        PROVE  Counted(queue'[k]) /\ (failures = 0 => queue'[k].counter = (o + 1) + k - 3)
    <2>1. k + 1 \in 1 .. q /\ o + (k + 1) - 3 = (o + 1) + k - 3
      BY <1>1
    <2>2. Counted(queue[k + 1]) /\ (failures = 0 => queue[k + 1].counter = o + (k + 1) - 3)
      BY <1>1, <1>9, <2>1 DEF InStep, Outbound, Unbroken
    <2> QED BY <1>5, <2>1, <2>2
  <1>10. Outbound'
    <2>1. \A k \in 1 .. Len(out') : k > 2 => Counted(out'[k])
      BY <1>4, <1>8
    <2>2. \A k \in 1 .. Len(queue') : phase = "done" => Counted(queue'[k])
      BY <1>5, <1>9
    <2> QED BY <1>6, <2>1, <2>2 DEF InStep, Outbound, Counted
  <1>11. Unbroken'
    <2> SUFFICES ASSUME failures = 0
                 PROVE  /\ \A k \in 1 .. Len(out') : k > 2 => out'[k].counter = k - 3
                        /\ phase = "done" =>
                             /\ writeCounter = Len(out') + Len(queue') - 2
                             /\ \A k \in 1 .. Len(queue') :
                                  queue'[k].counter = Len(out') + k - 3
      BY <1>6 DEF Unbroken
    <2>1. \A k \in 1 .. Len(out') : k > 2 => out'[k].counter = k - 3
      BY <1>4, <1>8
    <2>2. phase = "done" => \A k \in 1 .. Len(queue') : queue'[k].counter = Len(out') + k - 3
      BY <1>4, <1>5, <1>9
    <2>3. phase = "done" => writeCounter = Len(out') + Len(queue') - 2
      BY <1>1, <1>4, <1>5 DEF InStep, Unbroken
    <2> QED BY <2>1, <2>2, <2>3
  <1> QED BY <1>7, <1>10, <1>11

LEMMA SendKeeps ==
    ASSUME InStep, NEW n \in OwnNodes, SendNode(n)
    PROVE  Shaken' /\ Outbound' /\ Unbroken'
  <1>1. PICK o \in Nat, q \in Nat, w \in Nat : o = Len(out) /\ q = Len(queue) /\ w = writeCounter
    BY DEF InStep, Shaken, Outbound
  <1>2. PICK f \in Frames : f = [intro |-> FALSE, counter |-> w, node |-> n]
    <2>1. w \in Int /\ n \in Nodes \cup {Handshake}
      BY DEF Nodes
    <2> QED BY <2>1, FramesMade
  <1>3. /\ queue' = Append(queue, f) /\ intro' = TRUE /\ writeCounter' = w + 1
        /\ sent' = Append(sent, n) /\ phase = "done"
        /\ UNCHANGED <<phase, out, readCounter, taken, failures>>
    BY <1>1, <1>2 DEF SendNode, EncodeFrame, Frame, reader, InStep, Shaken
  <1>4. /\ queue' \in Seq(Frames) /\ Len(queue') = q + 1 /\ queue'[q + 1] = f
        /\ \A k \in 1 .. q : queue'[k] = queue[k]
    BY <1>1, <1>3, AppendProperties DEF InStep, Shaken
  <1>5. /\ sent' \in Seq(OwnNodes) /\ Len(sent') = w + 1 /\ sent'[w + 1] = n
        /\ \A k \in 1 .. w : sent'[k] = sent[k]
    BY <1>1, <1>3, AppendProperties DEF InStep, Outbound
  <1>6. Shaken'
    BY <1>1, <1>3, <1>4 DEF InStep, Shaken
  <1>7. ASSUME NEW g, Counted(g) PROVE Counted(g)'
    <2>1. g.counter \in 0 .. w - 1 /\ g.counter + 1 \in 1 .. w
      BY <1>1, <1>7 DEF Counted
    <2>2. g.counter \in 0 .. (w + 1) - 1 /\ sent'[g.counter + 1] = sent[g.counter + 1]
      BY <1>5, <2>1
    <2> QED BY <1>3, <1>7, <2>2 DEF Counted
  <1>8. Counted(f)'
    <2>1. f.intro = FALSE /\ f.counter = w /\ f.node = n /\ w \in 0 .. (w + 1) - 1
      BY <1>2
    <2> QED BY <1>3, <1>5, <2>1 DEF Counted
  <1>9. Outbound'
    <2>1. ASSUME NEW k \in 1 .. o, k > 2 PROVE Counted(out[k])'
      <3>1. PICK g : g = out[k]
        OBVIOUS
      <3>2. Counted(g)'
        BY <1>1, <1>7, <2>1, <3>1 DEF InStep, Outbound
      <3> QED BY <1>3, <3>1, <3>2
    <2>2. ASSUME NEW k \in 1 .. q + 1 PROVE Counted(queue[k])'
      <3>1. PICK g : g = queue'[k]
        OBVIOUS
      <3>2. Counted(g)'
        <4>1. CASE k \in 1 .. q
          <5>1. g = queue[k] /\ Counted(queue[k])
            BY <1>1, <1>3, <1>4, <3>1, <4>1 DEF InStep, Outbound
          <5> QED BY <1>7, <5>1
        <4>2. CASE k = q + 1
          BY <1>4, <1>8, <3>1, <4>2
        <4> QED BY <4>1, <4>2
      <3> QED BY <3>1, <3>2
    <2>3. sent' \in Seq(OwnNodes) /\ writeCounter' = Len(sent') /\ failures' \in Nat
      BY <1>3, <1>5 DEF InStep, Outbound
    <2> QED BY <1>1, <1>3, <1>4, <2>1, <2>2, <2>3 DEF Outbound
  <1>10. Unbroken'
    <2>1. ASSUME failures = 0, NEW k \in 1 .. q + 1 PROVE queue'[k].counter = o + k - 3
      <3>1. w = o + q - 2
        BY <1>1, <1>3, <2>1 DEF InStep, Unbroken
      <3>2. CASE k \in 1 .. q
        BY <1>1, <1>3, <1>4, <2>1, <3>2 DEF InStep, Unbroken
      <3>3. CASE k = q + 1
        BY <1>2, <1>4, <3>1, <3>3
      <3> QED BY <3>2, <3>3
    <2>2. failures = 0 => w + 1 = o + (q + 1) - 2
      BY <1>1, <1>3 DEF InStep, Unbroken
    <2> QED BY <1>1, <1>3, <1>4, <2>1, <2>2 DEF InStep, Unbroken
  <1> QED BY <1>6, <1>9, <1>10

LEMMA FinishKeeps ==
    ASSUME InStep, Finish \/ FinishInit
    PROVE  Shaken' /\ Outbound' /\ Unbroken'
  <1>1. PICK o \in Nat, q \in Nat : o = Len(out) /\ q = Len(queue)
    BY DEF InStep, Shaken
  <1>2. UNCHANGED <<out, sent, writeCounter, readCounter, taken, failures>>
    BY DEF Finish, FinishInit, reader
  <1>3. CASE Finish
    <2>1. PICK f \in Frames : f = [intro |-> FALSE, counter |-> Handshake, node |-> Handshake]
      BY FramesMade
    <2>2. queue' = Append(queue, f) /\ phase = "hello" /\ phase' = "finish" /\ intro' = TRUE /\ taken = 1
      BY <1>3, <2>1 DEF Finish, EncodeFrame, Frame, InStep, Shaken
    <2>3. queue' \in Seq(Frames) /\ Len(queue') = q + 1
      BY <1>1, <2>2, AppendProperties DEF InStep, Shaken
    <2>4. Shaken'
      BY <1>1, <1>2, <2>2, <2>3 DEF InStep, Shaken
    <2>5. Outbound' /\ Unbroken'
      BY <1>2, <2>2 DEF InStep, Outbound, Unbroken, Counted
    <2> QED BY <2>4, <2>5
  <1>4. CASE FinishInit
    <2>1. phase = "finish" /\ phase' = "done" /\ queue = <<>> /\ queue' = <<>> /\ intro' = intro
      BY <1>4 DEF FinishInit
    <2>2. q = 0 /\ o = 2 /\ writeCounter = 0
      BY <1>1, <2>1, EmptySeq DEF InStep, Shaken
    <2>3. Shaken'
      BY <1>1, <1>2, <2>1, <2>2 DEF InStep, Shaken
    <2>4. Outbound' /\ Unbroken'
      BY <1>1, <1>2, <2>1, <2>2 DEF InStep, Outbound, Unbroken, Counted
    <2> QED BY <2>3, <2>4
  <1> QED BY <1>3, <1>4

LEMMA CancelKeeps ==
    ASSUME InStep, CancelSend
    PROVE  Shaken' /\ Outbound' /\ Unbroken'
  <1>1. PICK q \in Nat : q = Len(queue) /\ DOMAIN queue = 1 .. q
    BY DEF InStep, Shaken
  <1>2. PICK i \in 1 .. q : queue' = SubSeq(queue, 1, i - 1) \o SubSeq(queue, i + 1, q)
    BY <1>1 DEF CancelSend
  <1>3. /\ UNCHANGED <<phase, intro, writeCounter, readCounter, sent, taken, out>>
        /\ failures' = failures + 1 /\ phase = "done"
    BY DEF CancelSend, reader
  <1>4. PICK a, b : a = SubSeq(queue, 1, i - 1) /\ b = SubSeq(queue, i + 1, q)
    OBVIOUS
  <1>5. a \in Seq(Frames) /\ \A k \in 1 .. Len(a) : \E j \in 1 .. q : a[k] = queue[j]
    <2>1. \A k \in 1 .. i - 1 : queue[k] \in Frames /\ k \in 1 .. q
      BY <1>1 DEF InStep, Shaken
    <2>2. a \in Seq(Frames) /\ Len(a) = i - 1 /\ \A k \in 1 .. i - 1 : a[k] = queue[k]
      BY <1>1, <1>4, <2>1, SubSeqProperties DEF InStep, Shaken
    <2> QED BY <2>1, <2>2
  <1>6. b \in Seq(Frames) /\ \A k \in 1 .. Len(b) : \E j \in 1 .. q : b[k] = queue[j]
    <2>1. \A k \in i + 1 .. q : queue[k] \in Frames /\ k \in 1 .. q
      BY <1>1 DEF InStep, Shaken
    <2>2. /\ b \in Seq(Frames) /\ Len(b) = q - i
          /\ \A k \in 1 .. q - i : b[k] = queue[i + k] /\ i + k \in 1 .. q
      BY <1>1, <1>4, <2>1, SubSeqProperties DEF InStep, Shaken
    <2> QED BY <2>2
  <1>7. /\ queue' \in Seq(Frames)
        /\ \A k \in 1 .. Len(queue') : \E j \in 1 .. q : queue'[k] = queue[j]
    <2>1. PICK c : c = a \o b
      OBVIOUS
    <2>2. /\ c \in Seq(Frames) /\ Len(c) = Len(a) + Len(b)
          /\ \A k \in 1 .. Len(c) : c[k] = IF k <= Len(a) THEN a[k] ELSE b[k - Len(a)]
      BY <1>5, <1>6, <2>1, ConcatProperties
    <2>3. Len(a) \in Nat /\ Len(b) \in Nat
      BY <1>5, <1>6
    <2>4. ASSUME NEW k \in 1 .. Len(c) PROVE \E j \in 1 .. q : c[k] = queue[j]
      <3>1. CASE k <= Len(a)
        BY <1>5, <2>2, <2>3, <3>1
      <3>2. CASE ~(k <= Len(a))
        <4>1. k - Len(a) \in 1 .. Len(b)
          BY <2>2, <2>3, <3>2
        <4> QED BY <1>6, <2>2, <3>2, <4>1
      <3> QED BY <3>1, <3>2
    <2> QED BY <1>2, <1>4, <2>1, <2>2, <2>4
  <1>8. Shaken'
    BY <1>3, <1>7 DEF InStep, Shaken
  <1>9. Outbound'
    <2>1. \A k \in 1 .. Len(queue') : Counted(queue'[k])
      BY <1>1, <1>3, <1>7 DEF InStep, Outbound
    <2> QED BY <1>3, <2>1 DEF InStep, Outbound, Counted
  <1>10. Unbroken'
    BY <1>3 DEF InStep, Outbound, Unbroken
  <1> QED BY <1>8, <1>9, <1>10

(* The server reads a frame that has its counter, which no frame lacks     *)
(* before one is cancelled.                                                *)
LEMMA ServerReadKeeps ==
    ASSUME InStep, ServerRead
    PROVE  ReadSoFar'
  <1>1. PICK g \in Nat, o \in Nat, w \in Nat : g = Len(got) /\ o = Len(out) /\ w = Len(sent)
    BY DEF InStep, ReadSoFar, Shaken, Outbound
  <1>2. g + 3 \in 1 .. o /\ g + 3 > 2 /\ (g + 3) - 3 = g /\ UNCHANGED <<sent, failures>>
    BY <1>1 DEF ServerRead, client
  <1>3. PICK f : f = out[g + 3]
    OBVIOUS
  <1>4. Counted(f) /\ (failures = 0 => f.counter = g)
    BY <1>1, <1>2, <1>3 DEF InStep, Outbound, Unbroken
  <1>5. CASE f.counter = g
    <2>1. got' = Append(got, f.node) /\ deaf' = deaf
      BY <1>1, <1>3, <1>4, <1>5 DEF ServerRead, Counted
    <2>2. g \in 0 .. w - 1 /\ f.node = sent[g + 1]
      BY <1>1, <1>4, <1>5 DEF Counted, InStep, Outbound
    <2>3. sent[g + 1] \in OwnNodes
      BY <1>1, <2>2 DEF InStep, Outbound
    <2>4. PICK x \in OwnNodes : x = sent[g + 1]
      BY <2>3
    <2>5. /\ got' \in Seq(OwnNodes) /\ Len(got') = g + 1
          /\ got'[g + 1] = x /\ \A k \in 1 .. g : got'[k] = got[k]
      BY <1>1, <2>1, <2>2, <2>4, AppendProperties DEF InStep, ReadSoFar
    <2>6. DOMAIN got = 1 .. g /\ DOMAIN got' = 1 .. g + 1
      BY <1>1, <2>5 DEF InStep, ReadSoFar
    <2>7. \A k \in 1 .. g + 1 : got'[k] = sent[k]
      BY <2>4, <2>5, <2>6 DEF InStep, ReadSoFar, SendsInStep
    <2> QED BY <1>1, <1>2, <2>1, <2>2, <2>5, <2>6, <2>7 DEF InStep, ReadSoFar, SendsInStep
  <1>6. CASE f.counter # g
    <2>1. got' = got /\ deaf' = TRUE /\ failures # 0
      BY <1>1, <1>3, <1>4, <1>6 DEF ServerRead
    <2> QED BY <1>2, <2>1 DEF InStep, ReadSoFar, SendsInStep, Outbound
  <1> QED BY <1>5, <1>6

(* The server sends when it has the client's finish, hence after its own   *)
(* hello was taken.                                                        *)
LEMMA ServerKeeps ==
    ASSUME InStep, ServerHello \/ \E n \in ServerNodes : ServerSend(n)
    PROVE  Inward'
  <1>1. UNCHANGED <<taken, readCounter, given>>
    BY DEF ServerHello, ServerSend, reader
  <1>2. CASE ServerHello
    <2>1. PICK f \in Frames : f = Hello
      BY FramesMade DEF Hello
    <2>2. in = <<>> /\ in' = <<f>> /\ served' = served /\ Len(<<f>>) = 1
      BY <1>2, <2>1 DEF ServerHello, server
    <2>3. <<f>> \in Seq(Frames) /\ <<f>> # <<>> /\ served = <<>> /\ taken = 0 /\ Len(served) = 0
      BY <2>2, EmptySeq DEF InStep, Inward
    <2> QED BY <1>1, <2>2, <2>3 DEF InStep, Inward
  <1>3. ASSUME NEW n \in ServerNodes, ServerSend(n) PROVE Inward'
    <2>1. in # <<>>
      <3>1. PICK i \in DOMAIN out : i > 1 /\ out[i].counter = Handshake
        BY <1>3 DEF ServerSend, Finished
      <3>2. Len(out) > 1 /\ DOMAIN out = 1 .. Len(out) /\ Len(queue) \in Nat
        BY <3>1 DEF InStep, Shaken
      <3>3. taken >= 1
        BY <3>2 DEF InStep, Shaken
      <3> QED BY <3>3 DEF InStep, Inward
    <2>2. PICK s \in Nat, l \in Nat : s = Len(served) /\ l = Len(in) /\ l = s + 1
      BY <2>1 DEF InStep, Inward
    <2>3. PICK f \in Frames : f = [intro |-> FALSE, counter |-> s, node |-> n]
      <3>1. s \in Int /\ n \in Nodes \cup {Handshake}
        BY DEF Nodes
      <3> QED BY <3>1, FramesMade
    <2>4. in' = Append(in, f) /\ served' = Append(served, n)
      BY <1>3, <2>2, <2>3 DEF ServerSend
    <2>5. /\ in' \in Seq(Frames) /\ Len(in') = l + 1 /\ in'[l + 1] = f
          /\ \A k \in 1 .. l : in'[k] = in[k]
      <3>1. PICK b \in Seq(Frames) : b = in
        BY DEF InStep, Inward
      <3>2. PICK c : c = Append(b, f)
        OBVIOUS
      <3>3. /\ c \in Seq(Frames) /\ Len(c) = Len(b) + 1 /\ c[Len(b) + 1] = f
            /\ \A k \in 1 .. Len(b) : c[k] = b[k]
        BY <3>2, AppendProperties
      <3> QED BY <2>2, <2>4, <3>1, <3>2, <3>3
    <2>6. /\ served' \in Seq(ServerNodes) /\ Len(served') = s + 1 /\ served'[s + 1] = n
          /\ \A k \in 1 .. s : served'[k] = served[k]
      BY <2>2, <2>4, AppendProperties DEF InStep, Inward
    <2>7. in' # <<>>
      BY <2>2, <2>5, EmptySeq
    <2>8. ASSUME NEW k \in 1 .. l + 1, k > 1
          PROVE  in'[k].counter = k - 2 /\ in'[k].node = served'[k - 1]
      <3>1. CASE k \in 1 .. l
        <4>1. k - 1 \in 1 .. s
          BY <2>2, <2>8, <3>1
        <4>2. in[k].counter = k - 2 /\ in[k].node = served[k - 1]
          BY <2>2, <2>8, <3>1 DEF InStep, Inward
        <4> QED BY <2>5, <2>6, <3>1, <4>1, <4>2
      <3>2. CASE k = l + 1
        <4>1. k - 2 = s /\ k - 1 = s + 1
          BY <2>2, <3>2
        <4>2. f.counter = s /\ f.node = n
          BY <2>3
        <4> QED BY <2>5, <2>6, <3>2, <4>1, <4>2
      <3> QED BY <3>1, <3>2
    <2>9. /\ taken <= l /\ Len(given) <= s /\ Len(given) \in Nat
          /\ \A k \in 1 .. Len(given) : given[k] = served[k] /\ k \in 1 .. s
      BY <2>2 DEF InStep, Inward
    <2>10. \A k \in 1 .. Len(given) : given[k] = served'[k]
      BY <2>6, <2>9
    <2> QED BY <1>1, <2>2, <2>5, <2>6, <2>7, <2>8, <2>9, <2>10 DEF InStep, Inward
  <1> QED BY <1>2, <1>3

LEMMA TakePlainKeeps ==
    ASSUME InStep, TakePlain
    PROVE  Inward'
  <1>1. /\ taken' = taken + 1 /\ taken + 1 <= Len(in) /\ readCounter = 0
        /\ UNCHANGED <<readCounter, given, in, served>>
    BY DEF TakePlain, CanTake, Whole, server, InStep, Shaken
  <1>2. Len(given) = 0 /\ in # <<>>
    BY <1>1, EmptySeq DEF InStep, Inward
  <1> QED BY <1>1, <1>2 DEF InStep, Inward

(* A frame that is decrypted is that of the next node. *)
LEMMA TakeKeeps ==
    ASSUME InStep, Take
    PROVE  /\ Inward'
           /\ \/ given' = given
              \/ /\ Len(given) < Len(served)
                 /\ given' = Append(given, served[Len(given) + 1])
  <1>1. PICK g \in Nat, s \in Nat, t \in Nat, r \in Nat :
          g = Len(given) /\ s = Len(served) /\ t = taken /\ r = readCounter
    BY DEF InStep, Inward
  <1>2. /\ t >= 1 /\ t + 1 <= Len(in) /\ Len(in) = s + 1 /\ r <= t - 1 /\ g <= r /\ in # <<>>
        /\ taken' = t + 1 /\ readCounter' = r + 1 /\ UNCHANGED <<in, served>>
    BY <1>1, EmptySeq DEF Take, CanTake, Whole, server, InStep, Shaken, Inward
  <1>3. Next1.counter = t - 1 /\ Next1.node = served[t]
    <2>1. t + 1 \in 1 .. Len(in) /\ t + 1 > 1 /\ (t + 1) - 2 = t - 1 /\ (t + 1) - 1 = t
      BY <1>2
    <2> QED BY <1>1, <2>1 DEF Next1, InStep, Inward
  <1>4. CASE t - 1 = r
    <2>1. g = r /\ g + 1 = t
      BY <1>1, <1>2, <1>4 DEF InStep, Inward
    <2>2. served[g + 1] \in ServerNodes
      BY <1>1, <1>2, <2>1 DEF InStep, Inward
    <2>3. PICK x \in ServerNodes : x = served[g + 1]
      BY <2>2
    <2>4. given' = Append(given, x)
      BY <1>1, <1>3, <1>4, <2>1, <2>3 DEF Take
    <2>5. /\ given' \in Seq(ServerNodes) /\ Len(given') = g + 1
          /\ given'[g + 1] = x /\ \A k \in 1 .. g : given'[k] = given[k]
      BY <1>1, <2>4, AppendProperties DEF InStep, Inward
    <2>6. \A k \in 1 .. g + 1 : given'[k] = served[k]
      <3>1. \A k \in 1 .. g : given'[k] = served[k]
        BY <1>1, <2>5 DEF InStep, Inward
      <3> QED BY <2>3, <2>5, <3>1
    <2>7. Inward'
      BY <1>1, <1>2, <2>1, <2>5, <2>6 DEF InStep, Inward
    <2> QED BY <1>1, <1>2, <2>1, <2>3, <2>4, <2>7
  <1>5. CASE t - 1 # r
    <2>1. given' = given
      BY <1>1, <1>3, <1>5 DEF Take
    <2>2. (t + 1) - 1 # r + 1 /\ r + 1 <= (t + 1) - 1
      BY <1>2, <1>5
    <2>3. Inward'
      BY <1>1, <1>2, <2>1, <2>2 DEF InStep, Inward
    <2> QED BY <2>1, <2>3
  <1> QED BY <1>4, <1>5

LEMMA InStepNext ==
    ASSUME InStep, [ChannelNext]_channelVars
    PROVE  /\ InStep'
           /\ \/ UNCHANGED <<served, given>>
              \/ \E n \in ServerNodes : served' = Append(served, n) /\ given' = given
              \/ /\ Len(given) < Len(served) /\ served' = served
                 /\ given' = Append(given, served[Len(given) + 1])
  <1>1. CASE Transmit \/ Finish \/ FinishInit \/ CancelSend \/ \E n \in OwnNodes : SendNode(n)
    <2>1. Shaken' /\ Outbound' /\ Unbroken'
      BY <1>1, TransmitKeeps, FinishKeeps, CancelKeeps, SendKeeps
    <2>2. /\ UNCHANGED <<served, given, in, taken, readCounter, got, deaf>>
          /\ (sent' = sent \/ \E n \in OwnNodes : sent' = Append(sent, n))
          /\ (failures' = failures \/ failures' = failures + 1)
      BY <1>1 DEF Transmit, Finish, FinishInit, CancelSend, SendNode, reader, server
    <2>3. Inward'
      BY <2>2 DEF InStep, Inward
    <2>4. ReadSoFar'
      <3>1. PICK l \in Nat : l = Len(sent) /\ \A k \in 1 .. l : sent'[k] = sent[k] /\ l <= Len(sent')
        BY <2>2, AppendProperties DEF InStep, Outbound
      <3>2. Len(got) \in Nat /\ DOMAIN got = 1 .. Len(got) /\ Len(got) <= l
        BY <3>1 DEF InStep, ReadSoFar, SendsInStep
      <3>3. deaf => failures' > 0
        BY <2>2 DEF InStep, Outbound, ReadSoFar, SendsInStep
      <3>4. Len(sent') \in Nat /\ l <= Len(sent')
        BY <2>1, <2>2, <3>1, AppendProperties DEF InStep, Outbound
      <3> QED BY <2>2, <3>1, <3>2, <3>3, <3>4 DEF InStep, ReadSoFar, SendsInStep
    <2> QED BY <2>1, <2>2, <2>3, <2>4 DEF InStep
  <1>2. CASE ServerRead
    <2>1. ReadSoFar'
      BY <1>2, ServerReadKeeps
    <2>2. UNCHANGED <<client, reader, out, in, served, failures>>
      BY <1>2 DEF ServerRead
    <2> QED BY <2>1, <2>2
         DEF client, reader, InStep, Shaken, Outbound, Counted, Unbroken, Inward
  <1>3. ASSUME UNCHANGED <<client, got, deaf, out, failures>>, Inward',
               taken' >= taken, taken' \in Nat, phase # "done" => readCounter' = readCounter
        PROVE  InStep'
    <2>1. UNCHANGED <<phase, intro, writeCounter, queue, sent, got, deaf, out, failures>>
      BY <1>3 DEF client
    <2>2. taken \in Nat
      BY DEF InStep, Inward
    <2>3. Shaken'
      BY <1>3, <2>1, <2>2 DEF InStep, Shaken
    <2>4. Outbound' /\ Unbroken'
      BY <2>1 DEF InStep, Outbound, Counted, Unbroken
    <2>5. ReadSoFar'
      BY <2>1 DEF InStep, ReadSoFar, SendsInStep
    <2> QED BY <1>3, <2>3, <2>4, <2>5 DEF InStep
  <1>4. CASE ServerHello \/ \E n \in ServerNodes : ServerSend(n)
    <2>1. Inward'
      BY <1>4, ServerKeeps
    <2>2. UNCHANGED <<client, got, deaf, out, failures, taken, readCounter, given>>
      BY <1>4 DEF ServerHello, ServerSend, server, reader
    <2>3. served' = served \/ \E n \in ServerNodes : served' = Append(served, n)
      BY <1>4 DEF ServerHello, ServerSend, server
    <2>4. taken \in Nat /\ taken' = taken
      BY <2>2 DEF InStep, Inward
    <2>5. InStep'
      BY <1>3, <2>1, <2>2, <2>4
    <2> QED BY <2>2, <2>3, <2>5
  <1>5. CASE TakePlain
    <2>1. Inward'
      BY <1>5, TakePlainKeeps
    <2>2. /\ UNCHANGED <<client, served, got, deaf, out, failures, readCounter, given>>
          /\ taken' = taken + 1
      BY <1>5 DEF TakePlain, server
    <2>3. taken \in Nat
      BY DEF InStep, Inward
    <2>4. InStep'
      BY <1>3, <2>1, <2>2, <2>3
    <2> QED BY <2>2, <2>4
  <1>6. CASE Take
    <2>1. /\ Inward'
          /\ \/ given' = given
             \/ /\ Len(given) < Len(served)
                /\ given' = Append(given, served[Len(given) + 1])
      BY <1>6, TakeKeeps
    <2>2. /\ UNCHANGED <<client, served, got, deaf, out, failures>>
          /\ taken' = taken + 1 /\ phase = "done"
      BY <1>6 DEF Take, server
    <2>3. taken \in Nat
      BY DEF InStep, Inward
    <2>4. InStep'
      BY <1>3, <2>1, <2>2, <2>3
    <2> QED BY <2>1, <2>2, <2>4
  <1>7. CASE ReceiveBytes \/ Wait \/ Handled \/ HandlerRaises \/ UNCHANGED channelVars
    <2>1. /\ UNCHANGED <<client, server, readCounter, taken, given, out, in>>
          /\ failures' = failures \/ failures' = failures + 1
      BY <1>7 DEF ReceiveBytes, Wait, Handled, HandlerRaises, channelVars, reader
    <2>2. UNCHANGED <<phase, intro, writeCounter, queue, sent, got, deaf, served>>
      BY <2>1 DEF client, server
    <2>3. Shaken'
      BY <2>1, <2>2 DEF InStep, Shaken
    <2>4. failures \in Nat /\ failures' \in Nat /\ (failures' = 0 => failures = 0)
      BY <2>1 DEF InStep, Outbound
    <2>5. Outbound' /\ Unbroken'
      BY <2>1, <2>2, <2>4 DEF InStep, Outbound, Counted, Unbroken
    <2>6. ReadSoFar'
      BY <2>2, <2>1, <2>4 DEF InStep, ReadSoFar, SendsInStep
    <2>7. Inward'
      BY <2>1, <2>2 DEF InStep, Inward
    <2> QED BY <2>1, <2>2, <2>3, <2>5, <2>6, <2>7 DEF InStep
  <1> QED BY <1>1, <1>2, <1>4, <1>5, <1>6, <1>7 DEF ChannelNext

(* The server reads what was sent, in order and once, up to the first      *)
(* frame that was cancelled (noise_handler.py 33-36, socket.py 590-604),   *)
(* however many nodes there are and wherever a send is cancelled.          *)
THEOREM ServerInStep == ChannelSpec => []SendsInStep
  <1>1. InStep => SendsInStep
    BY DEF InStep, ReadSoFar
  <1>2. InStep /\ [ChannelNext]_channelVars => InStep'
    BY InStepNext
  <1> QED BY <1>1, <1>2, InStepInit, PTL DEF ChannelSpec

(* What the handlers are given are the nodes the server sent, in order and *)
(* once (noise_handler.py 249-278), whatever comes before finish_init()    *)
(* and whatever raises: the channel implements Fifo.                       *)
THEOREM ChannelIsFifo == ChannelSpec => ImplementsFifo
  <1>1. ChannelInit => Inbound!Init
    BY DEF ChannelInit, Inbound!Init
  <1>2. InStep /\ [ChannelNext]_channelVars
          => [Inbound!Send \/ Inbound!Receive]_<<served, given>>
    BY InStepNext DEF Inbound!Send, Inbound!Receive
  <1>3. InStep /\ [ChannelNext]_channelVars => InStep'
    BY InStepNext
  <1> QED BY <1>1, <1>2, <1>3, InStepInit, PTL DEF ChannelSpec, ImplementsFifo, Inbound!Spec
=============================================================================
