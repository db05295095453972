---------------------------- MODULE MessageReceive ----------------------------
(***************************************************************************)
(* socket/messages_recv.py with utils/message_retry_manager.py: what       *)
(* becomes of a node from the server.  The receive loop handles the nodes  *)
(* that are marked offline in a task of their own, all others itself;      *)
(* messages are handled one at a time, under message_mutex.  A message     *)
(* that cannot be decrypted is asked for again from its sender at once,    *)
(* and after 3 s, on a timer of the retry manager, from the phone; one     *)
(* that is announced as unavailable is asked for from the phone.           *)
(*                                                                         *)
(* retry_mutex is left out: it is taken under message_mutex only.  So is   *)
(* the time: timers and sleeps end some time, 3 s, 2 s or 8 s, and counts  *)
(* of retries do not expire (after 15 minutes).                            *)
(***************************************************************************)
EXTENDS Integers, Sequences, FiniteSets, SequencesExt

CONSTANTS
    Messages,       \* message ids
    Nobody,         \* not a message
    MaxRetries,     \* max_msg_retry_count
    PhoneRetries,   \* retries that also ask the phone: the 2 of line 1029
    MaxNodes        \* bound: nodes the server sends

ASSUME ReceiveAssumption ==
    /\ Nobody \notin Messages
    /\ MaxRetries \in Nat \ {0} /\ PhoneRetries \in Nat /\ MaxNodes \in Nat

(* What a node turns out to be: a message that is decrypted, or not, or    *)
(* whose key is spent (or its status expired), or that is not there; the   *)
(* phone's answer to a placeholder request for it; or a receipt, a         *)
(* notification or a message that is refused before it is decrypted.       *)
Kinds == {"good", "bad", "refused", "absent", "answer", "other"}
(* What is kept of a node that was handled. *)
Over == [kind |-> "over", id |-> Nobody]

Tasks == {"loop", "offline"}
Places == {"idle", "next", "line", "asking", "answering", "upsert", "dead"}
Numbers == 1..MaxNodes

VARIABLES
    nodes,      \* the nodes the receive loop has received
    queue,      \* _offline_nodes
    processing, \* _offline_processing
    spawned,    \* tasks made by _enqueue_offline_node that have not started
    pc, current,\* where each task is, and with which node
    line,       \* message_mutex: the holder, then those that wait for it
    open,       \* _is_transport_open()
    answers,    \* receipts and acks sent, by node
    done,       \* nodes whose handler has returned
    excused,    \* those whose handler raised or met a closed transport
    count,      \* retry_counters
    pending,    \* pending_phone_requests: the number of the timer, or 0
    waiting,    \* Timer threads that wait,
    firing,     \* and those that are past their wait
    calls,      \* _request_phone_resend tasks that have not started
    sleeping,   \* those in the 2 s before they send
    cache,      \* placeholder resend cache: ids asked for
    requested,  \* ids for which the phone has a request
    cleaning    \* _cleanup tasks

offline == <<queue, processing, spawned>>
nodeVars == <<nodes, offline>>
handling == <<pc, current, line>>
results == <<answers, done, excused>>
retries == <<count, pending, waiting, firing, calls>>
resends == <<sleeping, cache, requested, cleaning>>
vars == <<nodes, queue, processing, spawned, pc, current, line, open,
          answers, done, excused, count, pending, waiting, firing, calls,
          sleeping, cache, requested, cleaning>>

Init ==
    /\ nodes = <<>> /\ queue = <<>>
    /\ processing = FALSE /\ spawned = 0
    /\ pc = [t \in Tasks |-> "idle"] /\ current = [t \in Tasks |-> 0] /\ line = <<>>
    /\ open = TRUE
    /\ answers = <<>> /\ done = {} /\ excused = {}
    /\ count = [m \in Messages |-> 0] /\ pending = [m \in Messages |-> 0]
    /\ waiting = {} /\ firing = {} /\ calls = [m \in Messages |-> 0]
    /\ sleeping = [m \in Messages |-> 0]
    /\ cache = {} /\ requested = {} /\ cleaning = [m \in Messages |-> 0]

-----------------------------------------------------------------------------
(* The connection ends, and with it the receive loop, which leaves the     *)
(* mutex or its place in the line.                                         *)
Close ==
    /\ open
    /\ open' = FALSE
    /\ pc' = [pc EXCEPT !["loop"] = "dead"]
    /\ current' = [current EXCEPT !["loop"] = 0]
    /\ line' = SelectSeq(line, LAMBDA t: t # "loop")
    /\ UNCHANGED <<nodeVars, results, retries, resends>>

-----------------------------------------------------------------------------
(* The way to the handlers. *)

(* Task t starts to handle node n, of kind k: only messages take the mutex. *)
Handle(t, n, k) ==
    /\ current' = [current EXCEPT ![t] = n]
    /\ IF k = "other"
       THEN pc' = [pc EXCEPT ![t] = "answering"] /\ line' = line
       ELSE pc' = [pc EXCEPT ![t] = "line"] /\ line' = Append(line, t)

(* _enqueue_offline_node *)
Enqueue(n) ==
    /\ queue' = Append(queue, n)
    /\ spawned' = IF processing THEN spawned ELSE spawned + 1
    /\ UNCHANGED handling

(* _dispatch_incoming_node: the loop receives a node when it is done with  *)
(* the last; the phone answers what it was asked for.                      *)
Receive(k, m, isOffline) ==
    /\ open /\ pc["loop"] = "idle" /\ Len(nodes) < MaxNodes
    /\ k = "other" <=> m = Nobody
    /\ k = "answer" => m \in requested
    /\ nodes' = Append(nodes, [kind |-> k, id |-> m])
    /\ answers' = Append(answers, 0)
    /\ IF isOffline
       THEN Enqueue(Len(nodes'))
       ELSE Handle("loop", Len(nodes'), k) /\ UNCHANGED <<queue, spawned>>
    /\ UNCHANGED <<processing, open, done, excused, retries, resends>>

(* A task of _enqueue_offline_node starts: while another one works there   *)
(* is nothing for it to do.                                                *)
StartOffline ==
    /\ spawned > 0
    /\ spawned' = spawned - 1
    /\ processing' = TRUE
    /\ pc' = IF processing THEN pc ELSE [pc EXCEPT !["offline"] = "next"]
    /\ UNCHANGED <<nodes, queue, current, line, open, results, retries, resends>>

(* Mutant: the flag stays up. *)
NextOfflineKeeping ==
    /\ pc["offline"] = "next"
    /\ IF queue = <<>> \/ ~open
       THEN /\ pc' = [pc EXCEPT !["offline"] = "idle"]
            /\ UNCHANGED <<queue, current, line, processing>>
       ELSE /\ queue' = Tail(queue) /\ Handle("offline", Head(queue), nodes[Head(queue)].kind)
            /\ UNCHANGED processing
    /\ UNCHANGED <<nodes, spawned, open, results, retries, resends>>

(* One round of _process_offline_nodes *)
NextOffline ==
    /\ pc["offline"] = "next"
    /\ IF queue = <<>> \/ ~open
       THEN /\ processing' = FALSE
            /\ pc' = [pc EXCEPT !["offline"] = "idle"]
            /\ UNCHANGED <<queue, current, line>>
       ELSE /\ queue' = Tail(queue)
            /\ Handle("offline", Head(queue), nodes[Head(queue)].kind)
            /\ UNCHANGED processing
    /\ UNCHANGED <<nodes, spawned, open, results, retries, resends>>

-----------------------------------------------------------------------------
(* The retry manager. *)

(* cancel_pending_phone_request: a Timer past its wait is not stopped. *)
Cancel(m) ==
    /\ pending' = [pending EXCEPT ![m] = 0]
    /\ waiting' = waiting \ {<<m, pending[m]>>}

(* schedule_phone_request: it cancels first. *)
Schedule(m) ==
    LET n == Min({i \in Numbers : <<m, i>> \notin waiting \cup firing})
    IN  /\ pending' = [pending EXCEPT ![m] = n]
        /\ waiting' = (waiting \ {<<m, pending[m]>>}) \cup {<<m, n>>}

(* The wait of a Timer thread ends; *)
Fire(m, n) ==
    /\ <<m, n>> \in waiting
    /\ waiting' = waiting \ {<<m, n>>} /\ firing' = firing \cup {<<m, n>>}
    /\ UNCHANGED <<nodeVars, handling, open, results, count, pending, calls, resends>>

(* its _run takes out whatever timer the message has, and has the loop     *)
(* make a task.                                                            *)
Run(m, n) ==
    /\ <<m, n>> \in firing
    /\ firing' = firing \ {<<m, n>>}
    /\ pending' = [pending EXCEPT ![m] = 0]
    /\ calls' = [calls EXCEPT ![m] = @ + 1]
    /\ UNCHANGED <<nodeVars, handling, open, results, count, waiting, resends>>

(* send_retry_request: a message that has had its retries is forgotten,    *)
(* any other is asked for again, the first times also from the phone.      *)
AskAgain(m) ==
    /\ IF count[m] >= MaxRetries
       THEN count' = [count EXCEPT ![m] = 0] /\ Cancel(m)
       ELSE /\ count' = [count EXCEPT ![m] = @ + 1]
            /\ IF count[m] < PhoneRetries THEN Schedule(m) ELSE UNCHANGED <<pending, waiting>>
    /\ UNCHANGED <<firing, calls>>

-----------------------------------------------------------------------------
(* Placeholder resends. *)

(* Mutant: a request is not noted until it is sent. *)
NoteLate(m) == cache' = cache

(* request_placeholder_resend, up to its sleep: it goes on if there was no *)
(* note yet.  None is taken back in the sleep: its second look finds it.   *)
Note(m) == cache' = cache \cup {m}

(* After the sleep: the message to the phone goes out, and a task is left  *)
(* to clean up; or it does not, and the note stays.                        *)
SendRequest(m) ==
    /\ \/ /\ open
          /\ requested' = requested \cup {m}
          /\ cleaning' = [cleaning EXCEPT ![m] = @ + 1]
       \/ UNCHANGED <<requested, cleaning>>
    /\ UNCHANGED cache

(* _request_phone_resend, made by a timer, *)
CallPhone(m) ==
    /\ calls[m] > 0
    /\ calls' = [calls EXCEPT ![m] = @ - 1]
    /\ sleeping' = [sleeping EXCEPT ![m] = IF m \in cache THEN @ ELSE @ + 1]
    /\ Note(m)
    /\ UNCHANGED <<nodeVars, handling, open, results, count, pending, waiting, firing,
                   requested, cleaning>>

(* and after its sleep. *)
PhoneSent(m) ==
    /\ sleeping[m] > 0
    /\ sleeping' = [sleeping EXCEPT ![m] = @ - 1]
    /\ SendRequest(m)
    /\ UNCHANGED <<nodeVars, handling, open, results, retries>>

(* _cleanup, after 8 s *)
CleanUp(m) ==
    /\ cleaning[m] > 0
    /\ cleaning' = [cleaning EXCEPT ![m] = @ - 1]
    /\ cache' = cache \ {m}
    /\ UNCHANGED <<nodeVars, handling, open, results, retries, sleeping, requested>>

-----------------------------------------------------------------------------
(* _handle_message_node, _handle_receipt_node, _handle_notification_node *)

(* Task t has the mutex and a node of kind k for message m to decrypt. *)
Decrypts(t, k, m) ==
    /\ pc[t] = "line" /\ Head(line) = t
    /\ nodes[current[t]].kind = k /\ nodes[current[t]].id = m

Goes(t, place) ==
    /\ pc' = [pc EXCEPT ![t] = place]
    /\ UNCHANGED <<current, line>>

(* The handler of t's node is over, and the mutex free for the next. *)
Leave(t) ==
    /\ pc' = [pc EXCEPT ![t] = IF t = "loop" THEN "idle" ELSE "next"]
    /\ current' = [current EXCEPT ![t] = 0]
    /\ line' = SelectSeq(line, LAMBDA u: u # t)
    /\ done' = done \cup {current[t]}
    /\ nodes' = [nodes EXCEPT ![current[t]] = Over]

Good(t, m) ==
    /\ Decrypts(t, "good", m) \/ Decrypts(t, "answer", m)
    /\ Cancel(m)
    /\ Goes(t, "answering")
    /\ UNCHANGED <<nodeVars, open, results, count, firing, calls, resends>>

Refused(t, m) ==
    /\ Decrypts(t, "refused", m)
    /\ Goes(t, "answering")
    /\ UNCHANGED <<nodeVars, open, results, retries, resends>>

(* Mutant: a message that has had its retries is not acknowledged. *)
BadSilent(t, m) ==
    /\ Decrypts(t, "bad", m)
    /\ IF ~open THEN UNCHANGED retries ELSE AskAgain(m)
    /\ IF count[m] < MaxRetries THEN Goes(t, "answering") ELSE Goes(t, "upsert")
    /\ UNCHANGED <<nodeVars, open, results, resends>>

(* A stub stands for the message; the retry receipt may fail to leave. *)
Bad(t, m) ==
    /\ Decrypts(t, "bad", m)
    /\ IF open
       THEN AskAgain(m) /\ Goes(t, "answering") /\ UNCHANGED results
       ELSE /\ excused' = excused \cup {current[t]}
            /\ Goes(t, "upsert")
            /\ UNCHANGED <<answers, done, retries>>
    /\ UNCHANGED <<nodeVars, open, resends>>

(* The phone is asked unless it was already, or the message is too old or  *)
(* of a kind it cannot resend; all the time with the mutex.                *)
Absent(t, m) ==
    /\ Decrypts(t, "absent", m)
    /\ \/ /\ Note(m)
          /\ Goes(t, IF m \in cache THEN "answering" ELSE "asking")
       \/ Goes(t, "answering") /\ UNCHANGED cache
    /\ UNCHANGED <<nodeVars, open, results, retries,
                   sleeping, requested, cleaning>>

AbsentSent(t) ==
    /\ pc[t] = "asking"
    /\ SendRequest(nodes[current[t]].id)
    /\ Goes(t, "answering")
    /\ UNCHANGED <<nodeVars, open, results, retries, sleeping>>

(* The key store fails when the sender is looked up. *)
Raise(t) ==
    /\ pc[t] = "line" /\ Head(line) = t
    /\ Leave(t)
    /\ excused' = excused \cup {current[t]}
    /\ UNCHANGED <<offline, open, answers, retries, resends>>

(* The receipt or the ack goes out, or its send raises and nothing more is *)
(* done.                                                                   *)
Answer(t) ==
    /\ pc[t] = "answering"
    /\ \/ /\ open
          /\ answers' = [answers EXCEPT ![current[t]] = @ + 1]
          /\ IF nodes[current[t]].kind \in {"other", "refused"}
             THEN Leave(t)
             ELSE Goes(t, "upsert") /\ UNCHANGED <<done, nodes>>
          /\ UNCHANGED excused
       \/ Leave(t) /\ excused' = excused \cup {current[t]} /\ UNCHANGED answers
    /\ UNCHANGED <<offline, open, retries, resends>>

(* upsert_message.  Of an answer of the phone process_message would take   *)
(* webMessageInfo, which the schema does not have (it is                   *)
(* webMessageInfoBytes), and passes over the rest, with the deletion from  *)
(* the cache, which is not this cache unless one is configured.            *)
Upsert(t) ==
    /\ pc[t] = "upsert"
    /\ Leave(t)
    /\ UNCHANGED <<offline, open, answers, excused, retries, resends>>

-----------------------------------------------------------------------------
Step(t) ==
    \/ \E m \in Messages : Good(t, m) \/ Refused(t, m) \/ Bad(t, m) \/ Absent(t, m)
    \/ AbsentSent(t) \/ Raise(t) \/ Answer(t) \/ Upsert(t)

Next ==
    \/ \E k \in Kinds, m \in Messages \cup {Nobody}, isOffline \in BOOLEAN : Receive(k, m, isOffline)
    \/ Close \/ StartOffline \/ NextOffline
    \/ \E t \in Tasks : Step(t)
    \/ \E m \in Messages, n \in Numbers : Fire(m, n) \/ Run(m, n)
    \/ \E m \in Messages : CallPhone(m) \/ PhoneSent(m) \/ CleanUp(m)

Spec == Init /\ [][Next]_vars

(* What is ready to run does; the server, timers and transport are free. *)
Fairness ==
    /\ WF_vars(StartOffline) /\ WF_vars(NextOffline)
    /\ \A t \in Tasks : WF_vars(Step(t))
FairSpec == Spec /\ Fairness

-----------------------------------------------------------------------------
(* Whatever becomes of a message and wherever it was handled, the server   *)
(* gets one answer to its node, a receipt or an ack (besides a receipt     *)
(* that asks to retry, and one that a history was synced): with none it    *)
(* would send the node again after the next connection.                    *)
AnsweredOnce ==
    \A n \in 1..Len(nodes) :
        /\ answers[n] <= 1
        /\ n \in done \ excused => answers[n] = 1

Asking(t, m) == IF pc[t] = "asking" /\ nodes[current[t]].id = m THEN 1 ELSE 0

(* Between the timers of the retry manager and the handlers of unavailable *)
(* messages one request for a message is on its way at a time: made, sent, *)
(* or sent less than 8 s ago.                                              *)
OneRequest ==
    \A m \in Messages :
        sleeping[m] + Asking("loop", m) + Asking("offline", m) + cleaning[m] <= 1

(* Every node is handled while the connection lasts: none stays in the     *)
(* offline queue with no task to take it, or behind the mutex.             *)
NodeHandled ==
    \A n \in 1..MaxNodes : n \in DOMAIN nodes ~> n \in done \/ ~open
=============================================================================
