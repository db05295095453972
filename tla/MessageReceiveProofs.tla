------------------------- MODULE MessageReceiveProofs -------------------------
(***************************************************************************)
(* For any messages and any number of nodes: the phone has one request for *)
(* a message at a time, and a node one answer.  The note in the cache is   *)
(* what excludes a second request: whoever is on the way has made it, and  *)
(* only the last to leave takes it back.                                   *)
(***************************************************************************)
EXTENDS MessageReceive, SequenceTheorems, TLAPS

Total(m) == sleeping[m] + Asking("loop", m) + Asking("offline", m) + cleaning[m]

Typed ==
    /\ nodes \in Seq([kind : Kinds, id : Messages \cup {Nobody}] \cup {Over})
    /\ queue \in Seq(1..Len(nodes))
    /\ pc \in [Tasks -> Places] /\ current \in [Tasks -> Nat]
    /\ sleeping \in [Messages -> Nat] /\ cleaning \in [Messages -> Nat]
    /\ cache \subseteq Messages

(* A task that has, or waits for, a message to decrypt has a node. *)
Placed == \A t \in Tasks : pc[t] \in {"line", "asking"} => current[t] \in 1..Len(nodes)

Noted == \A m \in Messages : Total(m) <= 1 /\ (Total(m) = 1 => m \in cache)

Single == Typed /\ Placed /\ Noted

LEMMA SingleInit == Init => Single
  BY DEF Init, Single, Typed, Placed, Noted, Total, Asking, Tasks, Places

(* What leaves the requests alone keeps the invariant, whatever a task that *)
(* does not ask does meanwhile.                                            *)
LEMMA RequestsKept ==
    ASSUME Single, Typed', Placed', UNCHANGED <<sleeping, cleaning, cache>>,
           \A t \in Tasks, m \in Messages : Asking(t, m)' <= Asking(t, m)
    PROVE  Single'
  <1>1. ASSUME NEW m \in Messages PROVE Total(m)' <= 1 /\ (Total(m)' = 1 => m \in cache')
    <2>1. Asking("loop", m)' <= Asking("loop", m) /\ Asking("offline", m)' <= Asking("offline", m)
      BY DEF Tasks
    <2>2. \A t \in Tasks : Asking(t, m) \in {0, 1} /\ Asking(t, m)' \in {0, 1}
      BY DEF Asking
    <2> QED BY <2>1, <2>2 DEF Single, Typed, Noted, Total, Tasks
  <1> QED BY <1>1 DEF Single, Noted

(* The handler of a task that does not ask is over. *)
LEMMA LeaveKeeps ==
    ASSUME Single, NEW t \in Tasks, Leave(t), pc[t] # "asking",
           UNCHANGED <<offline, sleeping, cleaning, cache>>
    PROVE  Single'
  <1> USE DEF Single, Leave
  <1>1. Len(nodes') = Len(nodes) /\ Typed'
    <2> DEFINE Node == [kind : Kinds, id : Messages \cup {Nobody}] \cup {Over}
    <2>1. nodes \in Seq(Node) /\ Over \in Node
      BY DEF Typed
    <2> HIDE DEF Node
    <2>2. nodes' \in Seq(Node) /\ Len(nodes') = Len(nodes)
      <3>1. nodes' = [nodes EXCEPT ![current[t]] = Over]
        OBVIOUS
      <3>2. CASE current[t] \in 1..Len(nodes)
        BY <2>1, <3>1, <3>2, ExceptSeq
      <3>3. CASE current[t] \notin 1..Len(nodes)
        <4>1. nodes' = nodes
          BY <2>1, <3>1, <3>3
        <4> QED BY <2>1, <4>1
      <3> QED BY <3>2, <3>3
    <2>3. pc' \in [Tasks -> Places] /\ current' \in [Tasks -> Nat]
      BY DEF Typed, Places
    <2> QED BY <2>2, <2>3 DEF Typed, offline, Node
  <1>2. Placed'
    BY <1>1 DEF Placed, Typed, Tasks
  <1>3. ASSUME NEW u \in Tasks, NEW m \in Messages PROVE Asking(u, m)' <= Asking(u, m)
    <2>1. CASE u = t
      BY <2>1 DEF Asking, Typed, Tasks
    <2>2. CASE u # t
      <3>1. pc'[u] = pc[u] /\ current'[u] = current[u]
        BY <2>2 DEF Typed
      <3>2. pc[u] = "asking" => nodes'[current[u]] \in {nodes[current[u]], Over}
        BY DEF Typed, Placed
      <3>3. Over.id # m
        BY ReceiveAssumption DEF Over
      <3> QED BY <3>1, <3>2, <3>3 DEF Asking
    <2> QED BY <2>1, <2>2
  <1> QED BY <1>1, <1>2, <1>3, RequestsKept

(* A task goes from one place to another, neither of them in a request. *)
LEMMA GoesKeeps ==
    ASSUME Single, NEW t \in Tasks, NEW place \in Places \ {"line", "asking"}, Goes(t, place),
           UNCHANGED <<nodeVars, sleeping, cleaning, cache>>
    PROVE  Single'
  <1> USE DEF Single, Goes, nodeVars, offline
  <1>1. Typed'
    BY DEF Typed
  <1>2. Placed'
    BY DEF Placed, Typed
  <1>3. \A u \in Tasks, m \in Messages : Asking(u, m)' <= Asking(u, m)
    BY DEF Asking, Typed
  <1> QED BY <1>1, <1>2, <1>3, RequestsKept

(* The places of the tasks and the nodes stay as they are. *)
LEMMA HandlersKept ==
    ASSUME Single, UNCHANGED <<nodeVars, handling, sleeping, cleaning, cache>>
    PROVE  Single'
  BY DEF Single, Typed, Placed, Noted, Total, Asking, nodeVars, offline, handling

LEMMA ReceiveKeeps ==
    ASSUME Single, NEW k \in Kinds, NEW m \in Messages \cup {Nobody}, NEW isOffline \in BOOLEAN,
           Receive(k, m, isOffline)
    PROVE  Single'
  <1> USE DEF Single, Receive
  <1> DEFINE node == [kind |-> k, id |-> m]
  <1>1. /\ nodes' \in Seq([kind : Kinds, id : Messages \cup {Nobody}] \cup {Over})
        /\ Len(nodes') = Len(nodes) + 1 /\ Len(nodes) \in Nat
        /\ \A i \in 1..Len(nodes) : nodes'[i] = nodes[i]
    BY DEF Typed
  <1>2. UNCHANGED <<sleeping, cleaning, cache>>
    BY DEF resends
  <1>3. queue' \in Seq(1..Len(nodes'))
    <2>1. queue \in Seq(1..Len(nodes'))
      BY <1>1 DEF Typed
    <2>2. queue' = queue \/ queue' = Append(queue, Len(nodes'))
      BY DEF Enqueue
    <2>3. Len(nodes') \in 1..Len(nodes')
      BY <1>1
    <2>4. Append(queue, Len(nodes')) \in Seq(1..Len(nodes'))
      BY <2>1, <2>3
    <2> QED BY <2>1, <2>2, <2>4
  <1>4. CASE isOffline
    <2>1. UNCHANGED <<pc, current>>
      BY <1>4 DEF Enqueue, handling
    <2>2. Typed' /\ Placed'
      BY <1>1, <1>2, <1>3, <2>1 DEF Typed, Placed
    <2>3. \A u \in Tasks, n \in Messages : Asking(u, n)' <= Asking(u, n)
      BY <1>1, <2>1 DEF Asking, Placed
    <2> QED BY <1>2, <2>2, <2>3, RequestsKept
  <1>5. CASE ~ isOffline
    <2>1. /\ current' = [current EXCEPT !["loop"] = Len(nodes')]
          /\ pc' \in {[pc EXCEPT !["loop"] = "answering"], [pc EXCEPT !["loop"] = "line"]}
      BY <1>5 DEF Handle
    <2>2. Typed'
      BY <1>1, <1>2, <1>3, <2>1 DEF Typed, Tasks, Places
    <2>3. Placed'
      BY <1>1, <2>1 DEF Placed, Typed, Tasks
    <2>4. ASSUME NEW u \in Tasks, NEW n \in Messages PROVE Asking(u, n)' <= Asking(u, n)
      BY <1>1, <2>1 DEF Asking, Placed, Typed, Tasks
    <2> QED BY <1>2, <2>2, <2>3, <2>4, RequestsKept
  <1> QED BY <1>4, <1>5

LEMMA NextOfflineKeeps ==
    ASSUME Single, NextOffline
    PROVE  Single'
  <1> USE DEF Single, NextOffline
  <1>0. UNCHANGED <<nodes, sleeping, cleaning, cache>>
    BY DEF resends
  <1>1. CASE queue = <<>> \/ ~open
    <2>1. Typed' /\ Placed'
      BY <1>0, <1>1 DEF Typed, Placed, Tasks, Places
    <2>2. \A u \in Tasks, n \in Messages : Asking(u, n)' <= Asking(u, n)
      BY <1>0, <1>1 DEF Asking, Typed, Tasks
    <2> QED BY <1>0, <2>1, <2>2, RequestsKept
  <1>2. CASE ~(queue = <<>> \/ ~open)
    <2>1. Head(queue) \in 1..Len(nodes) /\ Tail(queue) \in Seq(1..Len(nodes))
      BY <1>2 DEF Typed
    <2>2. /\ queue' = Tail(queue)
          /\ current' = [current EXCEPT !["offline"] = Head(queue)]
          /\ pc' \in {[pc EXCEPT !["offline"] = "answering"], [pc EXCEPT !["offline"] = "line"]}
      BY <1>2 DEF Handle
    <2>3. Typed'
      BY <1>0, <2>1, <2>2 DEF Typed, Tasks, Places
    <2>4. Placed'
      BY <1>0, <2>1, <2>2 DEF Placed, Typed, Tasks
    <2>5. ASSUME NEW u \in Tasks, NEW n \in Messages PROVE Asking(u, n)' <= Asking(u, n)
      BY <1>0, <2>2 DEF Asking, Typed, Tasks
    <2> QED BY <1>0, <2>3, <2>4, <2>5, RequestsKept
  <1> QED BY <1>1, <1>2

(* The request of a task goes out, or not: the number of requests for its  *)
(* message stays, or falls.                                                *)
LEMMA SendKeeps ==
    ASSUME Single, NEW m \in Messages, SendRequest(m), UNCHANGED <<nodes, queue>>,
           Typed', Placed',
           \A n \in Messages \ {m} : /\ sleeping'[n] = sleeping[n]
                                    /\ \A t \in Tasks : Asking(t, n)' = Asking(t, n),
           sleeping'[m] + Asking("loop", m)' + Asking("offline", m)' + 1
             = sleeping[m] + Asking("loop", m) + Asking("offline", m)
    PROVE  Single'
  <1> USE DEF Single, SendRequest
  <1>1. \A t \in Tasks, n \in Messages : Asking(t, n) \in {0, 1} /\ Asking(t, n)' \in {0, 1}
    BY DEF Asking
  <1>2. ASSUME NEW n \in Messages PROVE Total(n)' <= 1 /\ (Total(n)' = 1 => n \in cache')
    <2>1. CASE n = m
      <3>1. cleaning'[m] \in {cleaning[m], cleaning[m] + 1}
        BY DEF Typed
      <3>2. Total(m)' <= Total(m) /\ Total(m) \in Nat /\ Total(m)' \in Nat
        <4>1. /\ Asking("loop", m) \in {0, 1} /\ Asking("offline", m) \in {0, 1}
              /\ Asking("loop", m)' \in {0, 1} /\ Asking("offline", m)' \in {0, 1}
          BY <1>1 DEF Tasks
        <4>2. sleeping[m] \in Nat /\ sleeping'[m] \in Nat /\ cleaning[m] \in Nat
          BY DEF Typed
        <4> QED BY <3>1, <4>1, <4>2 DEF Total
      <3> QED BY <2>1, <3>2 DEF Noted
    <2>2. CASE n # m
      <3>1. cleaning'[n] = cleaning[n]
        BY <2>2 DEF Typed
      <3> QED BY <1>1, <2>2, <3>1 DEF Typed, Noted, Total, Tasks
    <2> QED BY <2>1, <2>2
  <1> QED BY <1>2 DEF Noted

LEMMA AbsentSentKeeps ==
    ASSUME Single, NEW t \in Tasks, AbsentSent(t)
    PROVE  Single'
  <1> USE DEF Single, AbsentSent
  <1>0. UNCHANGED <<nodes, queue, sleeping, cache>> /\ pc[t] = "asking"
        /\ pc' = [pc EXCEPT ![t] = "answering"] /\ UNCHANGED current
    BY DEF nodeVars, offline, SendRequest, Goes
  <1>1. cleaning' \in [Messages -> Nat]
    BY DEF SendRequest, Typed
  <1>2. Typed' /\ Placed'
    BY <1>0, <1>1 DEF Typed, Placed, Tasks, Places
  <1>3. \A u \in Tasks, n \in Messages :
          Asking(u, n)' = IF u = t THEN 0 ELSE Asking(u, n)
    BY <1>0 DEF Asking, Typed
  <1>4. ASSUME NEW m \in Messages, m = nodes[current[t]].id PROVE Single'
    <2>1. \A n \in Messages \ {m} : Asking(t, n) = 0
      BY <1>4 DEF Asking
    <2>2. Asking(t, m) = 1
      BY <1>0, <1>4 DEF Asking
    <2>3. \A u \in Tasks, n \in Messages : Asking(u, n) \in {0, 1}
      BY DEF Asking
    <2>4. sleeping[m] + Asking("loop", m)' + Asking("offline", m)' + 1
            = sleeping[m] + Asking("loop", m) + Asking("offline", m)
      <3>1. \A u \in Tasks : Asking(u, m)' = IF u = t THEN 0 ELSE Asking(u, m)
        BY <1>3, <1>4
      <3>2. Asking("loop", m) \in {0, 1} /\ Asking("offline", m) \in {0, 1} /\ sleeping[m] \in Nat
        BY <1>4, <2>3 DEF Tasks, Typed
      <3>3. CASE t = "loop"
        BY <3>1, <3>2, <3>3, <2>2 DEF Tasks
      <3>4. CASE t = "offline"
        BY <3>1, <3>2, <3>4, <2>2 DEF Tasks
      <3> QED BY <3>3, <3>4 DEF Tasks
    <2>5. \A n \in Messages \ {m} : \A u \in Tasks : Asking(u, n)' = Asking(u, n)
      BY <1>3, <2>1
    <2>6. SendRequest(m)
      BY <1>4
    <2> QED BY <1>0, <1>2, <1>4, <2>4, <2>5, <2>6, SendKeeps
  <1>5. CASE nodes[current[t]].id \notin Messages
    <2>1. cleaning' = cleaning
      BY <1>5 DEF SendRequest, Typed
    <2>2. \A u \in Tasks, n \in Messages : Asking(u, n)' <= Asking(u, n)
      BY <1>3 DEF Asking
    <2> QED BY <1>0, <1>2, <2>1, <2>2, RequestsKept
  <1> QED BY <1>4, <1>5

LEMMA AbsentKeeps ==
    ASSUME Single, NEW t \in Tasks, NEW m \in Messages, Absent(t, m)
    PROVE  Single'
  <1> USE DEF Single, Absent
  <1>0. /\ UNCHANGED <<nodes, queue, current, sleeping, cleaning>>
        /\ pc[t] = "line" /\ nodes[current[t]].id = m
    BY DEF nodeVars, offline, Goes, Decrypts
  <1>1. CASE Goes(t, "answering") /\ UNCHANGED cache
    <2> QED BY <1>1, GoesKeeps DEF Places
  <1>2. CASE m \in cache /\ Note(m) /\ Goes(t, "answering")
    <2>1. cache' = cache
      BY <1>2 DEF Note
    <2> QED BY <1>2, <2>1, GoesKeeps DEF Places
  <1>3. CASE m \notin cache /\ Note(m) /\ Goes(t, "asking")
    <2>1. pc' = [pc EXCEPT ![t] = "asking"] /\ cache' = cache \cup {m}
      BY <1>3 DEF Goes, Note
    <2>2. Typed' /\ Placed'
      BY <1>0, <2>1 DEF Typed, Placed, Places
    <2>3. \A u \in Tasks, n \in Messages :
            Asking(u, n) \in {0, 1}
            /\ Asking(u, n)' = IF u = t THEN (IF n = m THEN 1 ELSE 0) ELSE Asking(u, n)
      BY <1>0, <2>1 DEF Asking, Typed
    <2>4. \A n \in Messages : Asking(t, n) = 0
      BY <1>0 DEF Asking
    <2>5. Total(m) = 0
      <3>1. sleeping[m] \in Nat /\ cleaning[m] \in Nat
        BY DEF Typed
      <3>2. Asking("loop", m) \in {0, 1} /\ Asking("offline", m) \in {0, 1}
        BY <2>3 DEF Tasks
      <3>3. Total(m) \in Nat
        BY <3>1, <3>2 DEF Total
      <3>4. Total(m) <= 1 /\ Total(m) # 1
        BY <1>3 DEF Noted
      <3> QED BY <3>3, <3>4
    <2>6. ASSUME NEW n \in Messages PROVE Total(n)' <= 1 /\ (Total(n)' = 1 => n \in cache')
      <3>1. CASE n = m
        <4>1. Asking("loop", m)' + Asking("offline", m)' <= 1 + Asking("loop", m) + Asking("offline", m)
          BY <2>3 DEF Tasks
        <4>2. /\ Asking("loop", m) \in {0, 1} /\ Asking("offline", m) \in {0, 1}
              /\ Asking("loop", m)' \in {0, 1} /\ Asking("offline", m)' \in {0, 1}
          BY <2>3, <2>4 DEF Tasks
        <4>3. sleeping[m] \in Nat /\ cleaning[m] \in Nat
          BY DEF Typed
        <4>4. Total(m)' <= Total(m) + 1
          BY <1>0, <4>1, <4>2, <4>3 DEF Total
        <4>5. m \in cache'
          BY <2>1
        <4> QED BY <2>5, <3>1, <4>4, <4>5
      <3>2. CASE n # m
        <4>1. \A u \in Tasks : Asking(u, n)' = Asking(u, n)
          BY <2>3, <2>4, <3>2
        <4>2. Total(n)' = Total(n)
          BY <1>0, <4>1 DEF Total, Tasks
        <4> QED BY <2>1, <4>2 DEF Noted
      <3> QED BY <3>1, <3>2
    <2> QED BY <2>2, <2>6 DEF Noted
  <1> QED BY <1>1, <1>2, <1>3

LEMMA PhoneKeeps ==
    ASSUME Single, NEW m \in Messages, CallPhone(m) \/ PhoneSent(m) \/ CleanUp(m)
    PROVE  Single'
  <1> USE DEF Single
  <1>0. UNCHANGED <<nodes, queue, pc, current>>
    BY DEF CallPhone, PhoneSent, CleanUp, nodeVars, offline, handling
  <1>1. \A t \in Tasks, n \in Messages : Asking(t, n) \in {0, 1} /\ Asking(t, n)' = Asking(t, n)
    BY <1>0 DEF Asking
  <1>9. \A n \in Messages :
          /\ Asking("loop", n) \in {0, 1} /\ Asking("loop", n)' = Asking("loop", n)
          /\ Asking("offline", n) \in {0, 1} /\ Asking("offline", n)' = Asking("offline", n)
          /\ sleeping[n] \in Nat /\ cleaning[n] \in Nat
    BY <1>1 DEF Tasks, Typed
  <1>2. CASE PhoneSent(m)
    <2>1. /\ sleeping[m] > 0 /\ sleeping' = [sleeping EXCEPT ![m] = @ - 1]
          /\ cache' = cache /\ cleaning' \in [Messages -> Nat]
      <3>1. cleaning' = cleaning \/ cleaning' = [cleaning EXCEPT ![m] = @ + 1]
        BY <1>2 DEF PhoneSent, SendRequest
      <3>2. cleaning' \in [Messages -> Nat]
        BY <3>1, SMTT(60) DEF Typed
      <3> QED BY <1>2, <3>2 DEF PhoneSent, SendRequest
    <2>2. Typed' /\ Placed'
      BY <1>0, <2>1 DEF Typed, Placed
    <2>3. sleeping'[m] + Asking("loop", m)' + Asking("offline", m)' + 1
            = sleeping[m] + Asking("loop", m) + Asking("offline", m)
      <3>1. sleeping'[m] = sleeping[m] - 1
        BY <2>1 DEF Typed
      <3> QED BY <1>9, <3>1
    <2>4. SendRequest(m) /\ \A n \in Messages \ {m} : sleeping'[n] = sleeping[n]
      BY <1>2, <2>1 DEF PhoneSent, Typed
    <2> QED BY <1>0, <1>1, <2>2, <2>3, <2>4, SendKeeps
  <1>3. CASE CallPhone(m)
    <2>1. /\ sleeping' = [sleeping EXCEPT ![m] = IF m \in cache THEN @ ELSE @ + 1]
          /\ cache' = cache \cup {m} /\ cleaning' = cleaning
      BY <1>3 DEF CallPhone, Note
    <2>2. Typed' /\ Placed'
      BY <1>0, <2>1 DEF Typed, Placed
    <2>3. ASSUME NEW n \in Messages PROVE Total(n)' <= 1 /\ (Total(n)' = 1 => n \in cache')
      <3>1. CASE n # m \/ m \in cache
        <4>1. Total(n)' = Total(n)
          <5>1. sleeping'[n] = sleeping[n]
            BY <2>1, <3>1 DEF Typed
          <5> QED BY <1>9, <2>1, <5>1 DEF Total
        <4> QED BY <2>1, <4>1 DEF Noted
      <3>2. CASE n = m /\ m \notin cache
        <4>1. Total(m) = 0
          BY <1>9, <3>2 DEF Total, Noted
        <4>2. Total(m)' = Total(m) + 1
          <5>1. sleeping'[m] = sleeping[m] + 1
            BY <2>1, <3>2 DEF Typed
          <5> QED BY <1>9, <2>1, <5>1 DEF Total
        <4> QED BY <2>1, <3>2, <4>1, <4>2
      <3> QED BY <3>1, <3>2
    <2> QED BY <2>2, <2>3 DEF Noted
  <1>4. CASE CleanUp(m)
    <2>1. /\ cleaning[m] > 0 /\ cleaning' = [cleaning EXCEPT ![m] = @ - 1]
          /\ cache' = cache \ {m} /\ sleeping' = sleeping
      BY <1>4 DEF CleanUp
    <2>2. Typed' /\ Placed'
      BY <1>0, <2>1 DEF Typed, Placed
    <2>3. ASSUME NEW n \in Messages PROVE Total(n)' <= 1 /\ (Total(n)' = 1 => n \in cache')
      <3>1. CASE n # m
        <4>1. Total(n)' = Total(n)
          <5>1. cleaning'[n] = cleaning[n]
            BY <2>1, <3>1 DEF Typed
          <5> QED BY <1>9, <2>1, <5>1 DEF Total
        <4> QED BY <2>1, <3>1, <4>1 DEF Noted
      <3>2. CASE n = m
        <4>1. Total(m)' = Total(m) - 1 /\ Total(m) \in Nat
          <5>1. cleaning'[m] = cleaning[m] - 1
            BY <2>1 DEF Typed
          <5> QED BY <1>9, <2>1, <5>1 DEF Total
        <4> QED BY <3>2, <4>1 DEF Noted
      <3> QED BY <3>1, <3>2
    <2> QED BY <2>2, <2>3 DEF Noted
  <1> QED BY <1>2, <1>3, <1>4

LEMMA CloseKeeps ==
    ASSUME Single, Close
    PROVE  Single'
  <1> USE DEF Single, Close
  <1>1. UNCHANGED <<nodes, queue, sleeping, cleaning, cache>>
    BY DEF nodeVars, offline, resends
  <1>2. Typed' /\ Placed'
    BY <1>1 DEF Typed, Placed, Tasks, Places
  <1>3. \A t \in Tasks, m \in Messages : Asking(t, m)' <= Asking(t, m)
    BY <1>1 DEF Asking, Typed, Tasks
  <1> QED BY <1>1, <1>2, <1>3, RequestsKept

LEMMA StartOfflineKeeps ==
    ASSUME Single, StartOffline
    PROVE  Single'
  <1> USE DEF Single, StartOffline
  <1>1. UNCHANGED <<nodes, queue, current, sleeping, cleaning, cache>>
    BY DEF resends
  <1>2. Typed' /\ Placed'
    BY <1>1 DEF Typed, Placed, Tasks, Places
  <1>3. \A t \in Tasks, m \in Messages : Asking(t, m)' <= Asking(t, m)
    BY <1>1 DEF Asking, Typed, Tasks
  <1> QED BY <1>1, <1>2, <1>3, RequestsKept

LEMMA HandlerKeeps ==
    ASSUME Single, NEW t \in Tasks, Step(t)
    PROVE  Single'
  <1>1. ASSUME NEW m \in Messages, Good(t, m) PROVE Single'
    <2>1. Goes(t, "answering") /\ UNCHANGED <<nodeVars, sleeping, cleaning, cache>>
      BY <1>1 DEF Good, resends
    <2> QED BY <2>1, GoesKeeps DEF Places
  <1>2. ASSUME NEW m \in Messages, Refused(t, m) PROVE Single'
    <2>1. Goes(t, "answering") /\ UNCHANGED <<nodeVars, sleeping, cleaning, cache>>
      BY <1>2 DEF Refused, resends
    <2> QED BY <2>1, GoesKeeps DEF Places
  <1>3. ASSUME NEW m \in Messages, Bad(t, m) PROVE Single'
    <2>1. /\ Goes(t, "answering") \/ Goes(t, "upsert")
          /\ UNCHANGED <<nodeVars, sleeping, cleaning, cache>>
      BY <1>3 DEF Bad, resends
    <2> QED BY <2>1, GoesKeeps DEF Places
  <1>4. ASSUME NEW m \in Messages, Absent(t, m) PROVE Single'
    BY <1>4, AbsentKeeps
  <1>5. CASE AbsentSent(t)
    BY <1>5, AbsentSentKeeps
  <1>6. CASE Raise(t)
    <2>1. Leave(t) /\ pc[t] # "asking" /\ UNCHANGED <<offline, sleeping, cleaning, cache>>
      BY <1>6 DEF Raise, resends
    <2> QED BY <2>1, LeaveKeeps
  <1>7. CASE Answer(t)
    <2>1. pc[t] # "asking" /\ UNCHANGED <<offline, sleeping, cleaning, cache>>
      BY <1>7 DEF Answer, resends
    <2>2. Leave(t) \/ (Goes(t, "upsert") /\ UNCHANGED nodes)
      BY <1>7 DEF Answer
    <2>3. CASE Leave(t)
      BY <2>1, <2>3, LeaveKeeps
    <2>4. CASE Goes(t, "upsert") /\ UNCHANGED nodes
      BY <2>1, <2>4, GoesKeeps DEF Places, nodeVars
    <2> QED BY <2>2, <2>3, <2>4
  <1>8. CASE Upsert(t)
    <2>1. Leave(t) /\ pc[t] # "asking" /\ UNCHANGED <<offline, sleeping, cleaning, cache>>
      BY <1>8 DEF Upsert, resends
    <2> QED BY <2>1, LeaveKeeps
  <1> QED BY <1>1, <1>2, <1>3, <1>4, <1>5, <1>6, <1>7, <1>8 DEF Step

LEMMA SingleStep == Single /\ [Next]_vars => Single'
  <1> SUFFICES ASSUME Single, [Next]_vars PROVE Single'
    OBVIOUS
  <1>1. ASSUME NEW k \in Kinds, NEW m \in Messages \cup {Nobody}, NEW isOffline \in BOOLEAN,
               Receive(k, m, isOffline)
        PROVE  Single'
    BY <1>1, ReceiveKeeps
  <1>2. CASE Close
    BY <1>2, CloseKeeps
  <1>3. CASE StartOffline
    BY <1>3, StartOfflineKeeps
  <1>4. CASE NextOffline
    BY <1>4, NextOfflineKeeps
  <1>5. ASSUME NEW t \in Tasks, Step(t) PROVE Single'
    BY <1>5, HandlerKeeps
  <1>6. ASSUME NEW m \in Messages, NEW n \in Numbers, Fire(m, n) \/ Run(m, n) PROVE Single'
    <2>1. UNCHANGED <<nodeVars, handling, sleeping, cleaning, cache>>
      BY <1>6 DEF Fire, Run, resends
    <2> QED BY <2>1, HandlersKept
  <1>7. ASSUME NEW m \in Messages, CallPhone(m) \/ PhoneSent(m) \/ CleanUp(m) PROVE Single'
    BY <1>7, PhoneKeeps
  <1>8. CASE UNCHANGED vars
    BY <1>8, HandlersKept DEF vars, nodeVars, offline, handling
  <1> QED BY <1>1, <1>2, <1>3, <1>4, <1>5, <1>6, <1>7, <1>8 DEF Next

(* Timers, the receive loop and the offline task, whatever they do in      *)
(* which order, never have two requests for one message on their way       *)
(* (messages_recv.py 361-397).                                             *)
THEOREM PhoneAskedOnce == Spec => []OneRequest
  <1>1. Single => OneRequest
    BY DEF Single, Noted, Total, OneRequest
  <1> QED BY SingleInit, SingleStep, <1>1, PTL DEF Spec

-----------------------------------------------------------------------------
(***************************************************************************)
(* One answer for each node.  A node is in one place: in the queue, with   *)
(* one of the tasks, handled, or lost with the connection.                 *)
(***************************************************************************)
Unanswered == {"line", "asking", "answering"}
Busy == Unanswered \cup {"upsert"}

Counted ==
    /\ answers \in Seq(Nat) /\ Len(answers) = Len(nodes)
    /\ done \subseteq 1..Len(nodes)
    /\ processing \in BOOLEAN

Fresh(n) == answers[n] = 0 /\ n \notin done

(* The nodes of the queue are in the order of their coming, and with no    *)
(* task.                                                                   *)
Queued ==
    /\ \A i, j \in 1..Len(queue) : i < j => queue[i] < queue[j]
    /\ \A i \in 1..Len(queue) : Fresh(queue[i]) /\ \A t \in Tasks : current[t] # queue[i]

(* A node is with one task, and unanswered until it is answered.           *)
With(t) ==
    /\ pc[t] \notin Busy => current[t] = 0
    /\ pc[t] \in Busy =>
         /\ current[t] \in 1..Len(nodes) /\ current[t] \notin done
         /\ answers[current[t]] <= 1
         /\ pc[t] \in Unanswered => answers[current[t]] = 0
         /\ pc[t] = "upsert" => answers[current[t]] = 1 \/ current[t] \in excused
Apart == current["loop"] # current["offline"] \/ current["loop"] = 0

(* The offline task is at work, or idle with nothing in hand.              *)
AtWork ==
    /\ ~processing => pc["offline"] = "idle"
    /\ pc["offline"] # "dead"

Answered == Counted /\ Queued /\ Apart /\ AtWork /\ AnsweredOnce /\ \A t \in Tasks : With(t)

LEMMA AnsweredInit == ASSUME Init PROVE Answered
  <1> USE DEF Init
  <1>1. Counted /\ AnsweredOnce
    <2>1. Len(nodes) = 0 /\ Len(answers) = 0 /\ answers \in Seq(Nat)
      OBVIOUS
    <2>2. 1..Len(nodes) = {}
      BY <2>1
    <2> QED BY <2>1, <2>2 DEF Counted, AnsweredOnce
  <1>2. Queued /\ Apart /\ AtWork
    BY DEF Queued, Apart, AtWork, Tasks
  <1>3. \A t \in Tasks : With(t)
    BY DEF With, Busy, Unanswered
  <1> QED BY <1>1, <1>2, <1>3 DEF Answered

(* Task t goes on with its node, or ends with it. *)
LEMMA StepsOn ==
    ASSUME Single, Answered, NEW t \in Tasks, pc[t] \in Busy,
           UNCHANGED <<queue, processing>>, Len(nodes') = Len(nodes),
           excused \subseteq excused',
           NEW d \in BOOLEAN,
           answers' = IF d THEN [answers EXCEPT ![current[t]] = @ + 1] ELSE answers,
           NEW place \in Places, pc' = [pc EXCEPT ![t] = place],
           place = "dead" => t # "offline",
           place = "idle" => t = "loop",
           d => pc[t] \in Unanswered,
           \/ /\ place \in Busy /\ UNCHANGED <<current, done>>
              /\ place \in Unanswered => pc[t] \in Unanswered /\ ~d
              /\ place = "upsert" => answers'[current[t]] = 1 \/ current[t] \in excused'
           \/ /\ place \notin Busy /\ current' = [current EXCEPT ![t] = 0]
              /\ done' = done \cup {current[t]}
              /\ answers'[current[t]] = 1 \/ current[t] \in excused'
    PROVE  Answered'
  <1> DEFINE n == current[t]
  <1> USE DEF Answered
  <1>1. /\ n \in 1..Len(nodes) /\ n \notin done /\ answers[n] \in {0, 1}
        /\ pc[t] \in Unanswered => answers[n] = 0
    BY DEF With, Counted
  <1>2. pc \in [Tasks -> Places] /\ current \in [Tasks -> Nat] /\ queue \in Seq(1..Len(nodes))
    BY DEF Single, Typed
  <1>3. /\ answers' \in Seq(Nat) /\ Len(answers') = Len(nodes) /\ answers'[n] = IF d THEN answers[n] + 1 ELSE answers[n]
        /\ \A m \in 1..Len(nodes) : m # n => answers'[m] = answers[m]
    <2>1. answers \in Seq(Nat) /\ n \in 1..Len(answers) /\ answers[n] + 1 \in Nat
      BY <1>1 DEF Counted
    <2> QED BY <2>1, <1>1, ExceptSeq DEF Counted
  <1>4. answers'[n] \in {0, 1}
    BY <1>1, <1>3
  <1>5. Counted'
    BY <1>1, <1>3 DEF Counted
  <1>6. \A u \in Tasks \ {t} : pc'[u] = pc[u] /\ current'[u] = current[u]
        /\ (current[u] # n \/ n = 0)
    BY <1>1, <1>2 DEF Apart, Tasks
  <1>7. \A i \in 1..Len(queue) : queue[i] # n /\ queue[i] \in 1..Len(nodes) /\ queue[i] # 0
    BY <1>2 DEF Queued
  <1>8. Queued'
    BY <1>2, <1>3, <1>6, <1>7 DEF Queued, Fresh
  <1>9. Apart'
    BY <1>2, <1>6 DEF Apart, Tasks
  <1>10. AtWork'
    BY <1>2, <1>6 DEF AtWork, Tasks, Busy, Unanswered
  <1>11. AnsweredOnce'
    BY <1>3, <1>4, <1>1 DEF AnsweredOnce
  <1>12. \A u \in Tasks \ {t} : With(u)'
    BY <1>1, <1>2, <1>3, <1>6 DEF With
  <1>13. With(t)'
    <2>1. pc'[t] = place
      BY <1>2
    <2>2. CASE place \in Busy /\ UNCHANGED <<current, done>>
      <3>1. place \in Unanswered => answers'[n] = 0
        BY <1>1, <1>3, <2>2 DEF Busy, Unanswered
      <3>2. place = "upsert" => answers'[n] = 1 \/ n \in excused'
        BY <2>2 DEF Busy, Unanswered
      <3> QED BY <1>1, <1>4, <2>1, <2>2, <3>1, <3>2 DEF With
    <2>3. CASE place \notin Busy /\ current' = [current EXCEPT ![t] = 0]
      BY <1>2, <2>1, <2>3 DEF With
    <2> QED BY <2>2, <2>3
  <1> QED BY <1>5, <1>8, <1>9, <1>10, <1>11, <1>12, <1>13

(* What concerns no node and no task. *)
LEMMA Elsewhere ==
    ASSUME Answered,
           UNCHANGED <<nodes, queue, processing, pc, current, answers, done, excused>>
    PROVE  Answered'
  BY DEF Answered, Counted, Queued, Fresh, Apart, AtWork, AnsweredOnce, With

LEMMA ReceiveAnswers ==
    ASSUME Single, Answered, NEW k \in Kinds, NEW m \in Messages \cup {Nobody},
           NEW isOffline \in BOOLEAN, Receive(k, m, isOffline)
    PROVE  Answered'
  <1> DEFINE n == Len(nodes) + 1
             node == [kind |-> k, id |-> m]
             Node == [kind : Kinds, id : Messages \cup {Nobody}] \cup {Over}
  <1> USE DEF Answered
  <1>1. /\ nodes' = Append(nodes, node) /\ answers' = Append(answers, 0)
        /\ UNCHANGED <<processing, done, excused>> /\ pc["loop"] = "idle"
    BY DEF Receive
  <1>2. /\ pc \in [Tasks -> Places] /\ current \in [Tasks -> Nat] /\ queue \in Seq(1..Len(nodes))
        /\ nodes \in Seq(Node)
    BY DEF Single, Typed
  <1>3. Len(nodes) \in Nat /\ Len(nodes') = n /\ Len(nodes') = Len(answers')
        /\ answers' \in Seq(Nat) /\ answers'[n] = 0
        /\ \A i \in 1..Len(nodes) : answers'[i] = answers[i]
    <2>1. node \in Node
      OBVIOUS
    <2> HIDE DEF Node, node
    <2> QED BY <1>1, <1>2, <2>1 DEF Counted
  <1> HIDE DEF n
  <1>4. n \in Nat /\ n > Len(nodes) /\ \A i \in 1..n : i \in 1..Len(nodes) \/ i = n
    BY <1>3 DEF n
  <1>5. Counted'
    BY <1>1, <1>3, <1>4 DEF Counted
  <1>6. AnsweredOnce'
    BY <1>1, <1>3, <1>4 DEF AnsweredOnce, Counted
  <1>7. \A t \in Tasks : (current[t] \in 1..Len(nodes) \/ current[t] = 0) /\ current[t] # n
    BY <1>2, <1>4 DEF With
  <1>8. n \notin done /\ \A i \in 1..Len(queue) : queue[i] \in 1..Len(nodes)
    BY <1>2, <1>4 DEF Counted
  <1>9. CASE isOffline
    <2>1. queue' = Append(queue, n) /\ UNCHANGED <<pc, current>>
      BY <1>1, <1>3, <1>9 DEF Receive, Enqueue, handling
    <2>2. /\ Len(queue') = Len(queue) + 1 /\ queue'[Len(queue) + 1] = n
          /\ Len(queue) \in Nat
          /\ \A i \in 1..Len(queue) : queue'[i] = queue[i]
      BY <1>2, <1>4, <2>1
    <2>3. \A i \in 1..Len(queue') : i \in 1..Len(queue) \/ i = Len(queue) + 1
      BY <2>2
    <2>4. Queued'
      <3>1. \A i, j \in 1..Len(queue') : i < j => queue'[i] < queue'[j]
        <4> SUFFICES ASSUME NEW i \in 1..Len(queue'), NEW j \in 1..Len(queue'), i < j
                     PROVE  queue'[i] < queue'[j]
          OBVIOUS
        <4>1. i \in 1..Len(queue)
          BY <2>2
        <4>2. CASE j \in 1..Len(queue)
          BY <2>2, <4>1, <4>2 DEF Queued
        <4>3. CASE j = Len(queue) + 1
          BY <1>3, <1>4, <1>8, <2>2, <4>1, <4>3
        <4> QED BY <2>3, <4>2, <4>3
      <3>2. \A i \in 1..Len(queue') : Fresh(queue[i])' /\ \A t \in Tasks : current'[t] # queue'[i]
        BY <1>1, <1>3, <1>7, <1>8, <2>1, <2>2, <2>3 DEF Queued, Fresh
      <3> QED BY <3>1, <3>2 DEF Queued
    <2>5. \A t \in Tasks : With(t)'
      BY <1>1, <1>3, <1>4, <1>7, <2>1 DEF With
    <2>6. Apart' /\ AtWork'
      BY <1>1, <2>1 DEF Apart, AtWork
    <2> QED BY <1>5, <1>6, <2>4, <2>5, <2>6
  <1>10. CASE ~isOffline
    <2>1. UNCHANGED queue /\ current' = [current EXCEPT !["loop"] = n]
          /\ \E place \in {"answering", "line"} : pc' = [pc EXCEPT !["loop"] = place]
      BY <1>1, <1>3, <1>10 DEF Receive, Handle
    <2>2. /\ pc'["loop"] \in Unanswered /\ current'["loop"] = n
          /\ pc'["offline"] = pc["offline"] /\ current'["offline"] = current["offline"]
      BY <1>2, <2>1 DEF Tasks, Unanswered
    <2>3. Queued'
      BY <1>1, <1>3, <1>4, <1>8, <2>1, <2>2 DEF Queued, Fresh, Tasks
    <2>4. With("loop")'
      <3>1. n \in 1..Len(nodes') /\ n \notin done' /\ answers'[n] = 0
        BY <1>1, <1>3, <1>4, <1>8
      <3>2. pc'["loop"] # "upsert" /\ pc'["loop"] \in Busy
        BY <2>2 DEF Busy, Unanswered
      <3> QED BY <2>2, <3>1, <3>2 DEF With
    <2>5. With("offline")'
      BY <1>1, <1>3, <1>4, <1>7, <2>2 DEF With, Tasks
    <2>6. Apart' /\ AtWork'
      BY <1>1, <1>7, <2>2 DEF Apart, AtWork, Tasks
    <2> QED BY <1>5, <1>6, <2>3, <2>4, <2>5, <2>6 DEF Tasks
  <1> QED BY <1>9, <1>10

LEMMA NextOfflineAnswers ==
    ASSUME Single, Answered, NextOffline
    PROVE  Answered'
  <1> USE DEF Answered
  <1>1. /\ pc \in [Tasks -> Places] /\ current \in [Tasks -> Nat] /\ queue \in Seq(1..Len(nodes))
        /\ pc["offline"] = "next" /\ UNCHANGED <<nodes, answers, done, excused>>
    BY DEF Single, Typed, NextOffline, results
  <1>2. Counted' /\ AnsweredOnce'
    BY <1>1 DEF Counted, AnsweredOnce, NextOffline
  <1>3. CASE queue = <<>> \/ ~open
    <2>1. /\ processing' = FALSE /\ pc' = [pc EXCEPT !["offline"] = "idle"]
          /\ UNCHANGED <<queue, current>>
      BY <1>3 DEF NextOffline
    <2>2. Queued' /\ Apart' /\ AtWork'
      BY <1>1, <2>1 DEF Queued, Fresh, Apart, AtWork, Tasks
    <2>3. \A t \in Tasks : With(t)'
      BY <1>1, <2>1 DEF With, Tasks, Busy, Unanswered
    <2> QED BY <1>2, <2>2, <2>3
  <1>4. CASE ~(queue = <<>> \/ ~open)
    <2> DEFINE n == Head(queue)
    <2>1. /\ queue' = Tail(queue) /\ UNCHANGED processing
          /\ current' = [current EXCEPT !["offline"] = n]
          /\ \E place \in {"answering", "line"} : pc' = [pc EXCEPT !["offline"] = place]
      BY <1>4 DEF NextOffline, Handle
    <2>2. /\ n = queue[1] /\ Len(queue) \in Nat \ {0} /\ n \in 1..Len(nodes)
          /\ Len(queue') = Len(queue) - 1
          /\ \A i \in 1..Len(queue') : queue'[i] = queue[i + 1]
          /\ \A i \in 1..Len(queue) : queue[i] \in 1..Len(nodes)
      BY <1>1, <1>4, <2>1
    <2> HIDE DEF n
    <2>3. \A i \in 1..Len(queue') : i + 1 \in 1..Len(queue) /\ 1 < i + 1 /\ 1 \in 1..Len(queue)
      BY <2>2
    <2>4. /\ pc'["offline"] \in Unanswered /\ current'["offline"] = n
          /\ pc'["loop"] = pc["loop"] /\ current'["loop"] = current["loop"]
      BY <1>1, <2>1 DEF Tasks, Unanswered
    <2>5. Fresh(n) /\ current["loop"] # n
      BY <2>2 DEF Queued, Tasks
    <2>6. \A i \in 1..Len(queue') : n < queue'[i]
      BY <2>2, <2>3 DEF Queued
    <2>7. \A i, j \in 1..Len(queue') : i < j => queue'[i] < queue'[j]
      <3> SUFFICES ASSUME NEW i \in 1..Len(queue'), NEW j \in 1..Len(queue'), i < j
                   PROVE  queue'[i] < queue'[j]
        OBVIOUS
      <3>1. i + 1 \in 1..Len(queue) /\ j + 1 \in 1..Len(queue) /\ i + 1 < j + 1
        BY <2>2, <2>3
      <3>2. queue[i + 1] < queue[j + 1]
        BY <3>1 DEF Queued
      <3> QED BY <2>2, <3>2
    <2>8. \A i \in 1..Len(queue') : Fresh(queue[i])' /\ \A t \in Tasks : current'[t] # queue'[i]
      <3> SUFFICES ASSUME NEW i \in 1..Len(queue')
                   PROVE  Fresh(queue[i])' /\ \A t \in Tasks : current'[t] # queue'[i]
        OBVIOUS
      <3>1. queue'[i] = queue[i + 1] /\ i + 1 \in 1..Len(queue)
        BY <2>2, <2>3
      <3>2. Fresh(queue[i + 1]) /\ current["loop"] # queue[i + 1]
        BY <3>1 DEF Queued, Tasks
      <3>3. n # queue'[i]
        BY <2>2, <2>3, <2>6, <3>1
      <3> QED BY <1>1, <2>4, <3>1, <3>2, <3>3 DEF Fresh, Tasks
    <2>9. Queued'
      BY <2>7, <2>8 DEF Queued
    <2>10. With("offline")'
      BY <1>1, <2>2, <2>4, <2>5 DEF With, Fresh, Busy, Unanswered
    <2>11. With("loop")'
      BY <1>1, <2>4 DEF With, Tasks
    <2>12. Apart' /\ AtWork'
      BY <2>1, <2>4, <2>5, <1>1 DEF Apart, AtWork, Unanswered
    <2> QED BY <1>2, <2>9, <2>10, <2>11, <2>12 DEF Tasks
  <1> QED BY <1>3, <1>4

LEMMA StartAnswers ==
    ASSUME Single, Answered, StartOffline
    PROVE  Answered'
  <1> USE DEF Answered
  <1>1. /\ pc \in [Tasks -> Places] /\ UNCHANGED <<nodes, queue, current, answers, done, excused>>
        /\ processing' = TRUE
        /\ pc' = IF processing THEN pc ELSE [pc EXCEPT !["offline"] = "next"]
    BY DEF Single, Typed, StartOffline, results
  <1>2. Counted' /\ Queued' /\ Apart' /\ AtWork' /\ AnsweredOnce'
    BY <1>1 DEF Counted, Queued, Fresh, Apart, AtWork, AnsweredOnce, Tasks
  <1>3. \A t \in Tasks : With(t)'
    BY <1>1 DEF With, Tasks, AtWork, Busy, Unanswered
  <1> QED BY <1>2, <1>3

LEMMA CloseAnswers ==
    ASSUME Single, Answered, Close
    PROVE  Answered'
  <1> USE DEF Answered
  <1>1. /\ pc \in [Tasks -> Places] /\ current \in [Tasks -> Nat] /\ queue \in Seq(1..Len(nodes))
        /\ UNCHANGED <<nodes, queue, processing, answers, done, excused>>
        /\ pc' = [pc EXCEPT !["loop"] = "dead"] /\ current' = [current EXCEPT !["loop"] = 0]
    BY DEF Single, Typed, Close, results, nodeVars, offline
  <1>2. Counted' /\ AnsweredOnce' /\ Apart' /\ AtWork'
    BY <1>1 DEF Counted, AnsweredOnce, Apart, AtWork, Tasks
  <1>3. \A i \in 1..Len(queue) : queue[i] # 0
    BY <1>1
  <1>4. Queued'
    BY <1>1, <1>3 DEF Queued, Fresh, Tasks
  <1>5. \A t \in Tasks : With(t)'
    BY <1>1 DEF With, Tasks, Busy, Unanswered
  <1> QED BY <1>2, <1>4, <1>5

LEMMA StepAnswers ==
    ASSUME Single, Answered, NEW t \in Tasks, Step(t)
    PROVE  Answered'
  <1> DEFINE n == current[t]
             next == IF t = "loop" THEN "idle" ELSE "next"
  <1> USE DEF Answered
  <1>1. /\ nodes \in Seq([kind : Kinds, id : Messages \cup {Nobody}] \cup {Over})
        /\ pc \in [Tasks -> Places] /\ answers \in Seq(Nat)
        /\ pc[t] \in Busy => n \in 1..Len(answers) /\ answers[n] \in {0, 1}
    BY DEF Single, Typed, Counted, With
  <1>2. ASSUME NEW place \in {"asking", "answering"}, Goes(t, place), pc[t] \in Unanswered,
               UNCHANGED <<nodeVars, results>>
        PROVE  Answered'
    <2>1. place \in Places /\ place \in Busy /\ place \notin {"upsert", "dead", "idle"}
      BY DEF Places, Busy, Unanswered
    <2>2. /\ pc' = [pc EXCEPT ![t] = place] /\ excused' = excused
          /\ UNCHANGED <<nodes, queue, processing, answers, done, current>>
      BY <1>2 DEF Goes, nodeVars, offline, results
    <2>3. pc[t] \in Busy
      BY <1>2 DEF Busy
    <2>4. /\ UNCHANGED answers
          /\ Len(nodes') = Len(nodes) /\ excused \subseteq excused'
      BY <2>2, <2>3
    <2> QED BY <1>2, <2>1, <2>2, <2>3, <2>4, StepsOn
  <1>3. ASSUME Leave(t), pc[t] \in Busy, UNCHANGED <<offline, answers>>,
               answers[n] = 1 \/ n \in excused', excused \subseteq excused'
        PROVE  Answered'
    <2>1. next \in Places /\ next \notin Busy /\ (next = "idle" => t = "loop") /\ next # "dead"
      BY DEF Places, Busy, Unanswered
    <2>2. Len(nodes') = Len(nodes)
      BY <1>1, <1>3 DEF Leave
    <2>3. /\ pc' = [pc EXCEPT ![t] = next] /\ current' = [current EXCEPT ![t] = 0]
          /\ done' = done \cup {n} /\ UNCHANGED <<queue, processing>>
          /\ UNCHANGED answers
      BY <1>3 DEF Leave, offline
    <2> HIDE DEF Answered, next
    <2> QED BY <1>3, <2>1, <2>2, <2>3, StepsOn
  <1>4. ASSUME NEW m \in Messages, Good(t, m) \/ Refused(t, m) \/ Absent(t, m) PROVE Answered'
    <2>1. pc[t] \in Unanswered /\ UNCHANGED <<nodeVars, results>>
      BY <1>4 DEF Good, Refused, Absent, Decrypts, Unanswered
    <2>2. Goes(t, "answering") \/ Goes(t, "asking")
      BY <1>4 DEF Good, Refused, Absent
    <2> QED BY <1>2, <2>1, <2>2
  <1>5. ASSUME NEW m \in Messages, Bad(t, m) PROVE Answered'
    <2>1. pc[t] \in Unanswered /\ UNCHANGED nodeVars
      BY <1>5 DEF Bad, Decrypts, Unanswered
    <2>2. CASE open
      BY <1>2, <1>5, <2>1, <2>2 DEF Bad
    <2>3. CASE ~open
      <3>1. /\ Goes(t, "upsert") /\ UNCHANGED <<answers, done>> /\ n \in excused'
            /\ excused \subseteq excused'
        BY <1>5, <2>3 DEF Bad
      <3>2. "upsert" \in Places /\ "upsert" \in Busy /\ "upsert" \notin Unanswered
        BY DEF Places, Busy, Unanswered
      <3> QED
        BY <2>1, <3>1, <3>2, StepsOn DEF Goes, nodeVars, offline, Busy
    <2> QED BY <2>2, <2>3
  <1>6. CASE AbsentSent(t)
    BY <1>2, <1>6 DEF AbsentSent, Unanswered
  <1>7. CASE Raise(t)
    BY <1>3, <1>7 DEF Raise, Busy, Unanswered
  <1>8. CASE Answer(t)
    <2>1. pc[t] \in Unanswered /\ pc[t] \in Busy /\ UNCHANGED offline /\ answers[n] = 0
      BY <1>8 DEF Answer, Unanswered, Busy, With
    <2>2. CASE Leave(t) /\ excused' = excused \cup {n} /\ UNCHANGED answers
      BY <1>3, <2>1, <2>2
    <2>3. CASE answers' = [answers EXCEPT ![n] = @ + 1] /\ UNCHANGED excused
               /\ (Leave(t) \/ (Goes(t, "upsert") /\ UNCHANGED <<done, nodes>>))
      <3>1. answers'[n] = 1
        BY <1>1, <2>1, <2>3
      <3>2. CASE Leave(t)
        <4>1. next \in Places /\ next \notin Busy /\ (next = "idle" => t = "loop") /\ next # "dead"
          BY DEF Places, Busy, Unanswered
        <4>2. Len(nodes') = Len(nodes)
          BY <1>1, <3>2 DEF Leave
        <4> QED BY <2>1, <2>3, <3>1, <3>2, <4>1, <4>2, StepsOn DEF Leave, offline
      <3>3. CASE Goes(t, "upsert") /\ UNCHANGED <<done, nodes>>
        <4>1. "upsert" \in Places /\ "upsert" \in Busy /\ "upsert" \notin Unanswered
          BY DEF Places, Busy, Unanswered
        <4> QED BY <2>1, <2>3, <3>1, <3>3, <4>1, StepsOn DEF Goes, offline
      <3> QED BY <2>3, <3>2, <3>3
    <2> QED BY <1>8, <2>2, <2>3 DEF Answer
  <1>9. CASE Upsert(t)
    <2>1. pc[t] = "upsert" /\ pc[t] \in Busy /\ Leave(t) /\ UNCHANGED <<offline, answers, excused>>
      BY <1>9 DEF Upsert, Busy
    <2>2. answers[n] = 1 \/ n \in excused
      BY <2>1 DEF With
    <2> QED BY <1>3, <2>1, <2>2
  <1> QED BY <1>4, <1>5, <1>6, <1>7, <1>8, <1>9 DEF Step

LEMMA AnsweredStep == ASSUME Single, Answered, [Next]_vars PROVE Answered'
  <1>1. CASE UNCHANGED vars
    BY <1>1, Elsewhere DEF vars
  <1>2. ASSUME NEW m \in Messages, NEW n \in Numbers, Fire(m, n) \/ Run(m, n) PROVE Answered'
    BY <1>2, Elsewhere DEF Fire, Run, nodeVars, offline, handling, results
  <1>3. ASSUME NEW m \in Messages, CallPhone(m) \/ PhoneSent(m) \/ CleanUp(m) PROVE Answered'
    BY <1>3, Elsewhere DEF CallPhone, PhoneSent, CleanUp, nodeVars, offline, handling, results
  <1> QED
    BY <1>1, <1>2, <1>3, ReceiveAnswers, CloseAnswers, StartAnswers, NextOfflineAnswers,
       StepAnswers DEF Next

(* Whatever task handles a node, and whatever fails meanwhile, it has one  *)
(* answer at most, and one at least if nothing failed                      *)
(* (messages_recv.py 1218-1330).                                           *)
THEOREM NodesAnsweredOnce == Spec => []AnsweredOnce
  <1>1. Answered => AnsweredOnce
    BY DEF Answered
  <1> QED
    BY SingleInit, SingleStep, AnsweredInit, AnsweredStep, <1>1, PTL DEF Spec
=============================================================================
