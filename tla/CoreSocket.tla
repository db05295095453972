------------------------------ MODULE CoreSocket ------------------------------
(***************************************************************************)
(* socket/socket.py and socket/client.py: one connection of the client.    *)
(* Its tasks are the caller of connect, the receive loop, the keep-alive   *)
(* loop, a caller of query and a caller of disconnect.  The receive loop   *)
(* awaits the handlers of what it receives, and it alone delivers the      *)
(* answers that queries wait for.                                          *)
(*                                                                         *)
(* Time passes in ticks, when no task can run: what the tasks do between   *)
(* two waits takes no time.  The hello of the handshake is treated as the  *)
(* query it is: one message, and one to wait for (socket.py 613-619).      *)
(* What is sent waits for the transport before it waits for an answer.     *)
(***************************************************************************)
EXTENDS Integers, Sequences

CONSTANTS
    Interval,       \* keep_alive_interval_ms, in ticks
    Grace,          \* the 5000 ms of socket.py 771
    QueryTimeout,   \* default_query_timeout_ms, 0 for none
    ConnectTimeout, \* connect_timeout_ms, the limit of each send too
    MaxInbox,       \* bound: messages on their way
    Prompt,         \* the server answers within the tick
    Faults,         \* the server may be silent, end the stream or drop it
    CanDisconnect   \* disconnect() may be called

(* Without a ConnectTimeout the transport cannot connect (index.py 25).    *)
ASSUME TimesAssumption ==
    /\ Interval \in Nat \ {0} /\ Grace \in Nat
    /\ QueryTimeout \in Nat /\ ConnectTimeout \in Nat \ {0}
ASSUME SwitchesAssumption ==
    MaxInbox \in Nat /\ Prompt \in BOOLEAN /\ Faults \in BOOLEAN /\ CanDisconnect \in BOOLEAN

Tasks == {"connector", "loop", "keepalive", "user", "closer"}
Waits == {"hello", "finish", "count", "passive", "digest", "reply", "sleep", "ping", "query"}
Endless == -1
Limit(time) == IF time = 0 THEN Endless ELSE time

(* The longest the server can be silent before the keep-alive loop ends    *)
(* the connection: a silence it lets pass, a ping it sends and waits for,  *)
(* a sleep.                                                                *)
MaxSilence == Interval + Grace + ConnectTimeout + QueryTimeout + Interval

VARIABLES
    open,       \* the transport is open
    inbox,      \* messages from the server: "success", "notice", "error",
                \* or the task whose query is answered
    greeted,    \* the server has sent its success
    at,         \* where each task is
    query,      \* _pending_queries, by the task that waits (the entry that a
                \* query leaves behind when it cannot be sent is nobody's)
    wait,       \* the time each task's wait has left
    age,        \* the time since _last_date_recv_ms
    closed,     \* _closed
    update      \* the connection of the last connection.update

socketVars == <<open, inbox, greeted, at, query, wait, age, closed, update>>

SocketInit ==
    /\ open = FALSE /\ inbox = <<>> /\ greeted = FALSE
    /\ at = [t \in Tasks |-> "idle"]
    /\ query = [t \in Tasks |-> "none"]
    /\ wait = [t \in Tasks |-> 0]
    /\ age = 0
    /\ closed = FALSE /\ update = "none"

-----------------------------------------------------------------------------
(* The wait of a task is over: its answer, the end of its time, or a send  *)
(* that raises.                                                            *)
Over(t) == query[t] = "resolved" \/ wait[t] = 0 \/ (query[t] = "sending" /\ ~open)

(* The queries of ts are no longer pending: a late answer to one is a      *)
(* message like any other.                                                 *)
Forget(ts) == [i \in DOMAIN inbox |-> IF inbox[i] \in ts THEN "notice" ELSE inbox[i]]

(* Task t sends a message and waits in state s. *)
Ask(t, s) ==
    /\ at' = [at EXCEPT ![t] = s]
    /\ query' = [query EXCEPT ![t] = "sending"]
    /\ wait' = [wait EXCEPT ![t] = ConnectTimeout]

(* The transport takes it, and the wait for the answer begins.  A user may *)
(* give a query a time of its own, or none.                                *)
Sent(t) ==
    /\ query[t] = "sending" /\ open /\ at[t] \notin {"finish", "reply"}
    /\ query' = [query EXCEPT ![t] = "sent"]
    /\ \E time \in IF t = "connector" THEN {ConnectTimeout}
                   ELSE IF t = "user" THEN {QueryTimeout, 0} ELSE {QueryTimeout} :
         wait' = [wait EXCEPT ![t] = Limit(time)]
    /\ UNCHANGED <<open, inbox, greeted, at, age, closed, update>>

(* Mutant: the query stays pending. *)
ContinuePending(t, s) ==
    /\ at' = [at EXCEPT ![t] = s]
    /\ wait' = [wait EXCEPT ![t] = 0]
    /\ UNCHANGED <<query, inbox>>

(* Task t waits no longer, and goes to state s. *)
Continue(t, s) ==
    /\ at' = [at EXCEPT ![t] = s]
    /\ query' = [query EXCEPT ![t] = "none"]
    /\ inbox' = Forget({t})
    /\ wait' = [wait EXCEPT ![t] = 0]

-----------------------------------------------------------------------------
(* Mutants: end() leaves the receive loop, or cancels the task it runs in. *)
EndKeepingLoop(t) ==
    \/ closed /\ Continue(t, "dead") /\ UNCHANGED <<open, greeted, age, closed, update>>
    \/ /\ ~closed /\ closed' = TRUE
       /\ at' = [at EXCEPT !["keepalive"] = "dead", ![t] = "ending"]
       /\ query' = [query EXCEPT !["keepalive"] = "none", ![t] = "none"]
       /\ inbox' = Forget({t, "keepalive"})
       /\ UNCHANGED <<open, greeted, wait, age, update>>
EndCancelled(t) ==
    \/ closed /\ Continue(t, "dead") /\ UNCHANGED <<open, greeted, age, closed, update>>
    \/ /\ ~closed /\ closed' = TRUE
       /\ at' = [at EXCEPT ![t] = "ending", !["loop"] = "dead", !["keepalive"] = "dead"]
       /\ query' = [u \in Tasks |-> IF u \in {t, "loop", "keepalive"} THEN "none" ELSE query[u]]
       /\ inbox' = Forget({t, "loop", "keepalive"})
       /\ UNCHANGED <<open, greeted, wait, age, update>>

(* end(), run by t: the keep-alive loop and the receive loop are cancelled *)
(* (not the one that runs it), after which the transport is closed and the *)
(* close reported.  Whoever calls it again has nothing to do.              *)
End(t) ==
    \/ closed /\ Continue(t, "dead") /\ UNCHANGED <<open, greeted, age, closed, update>>
    \/ /\ ~closed /\ closed' = TRUE
       /\ at' = [u \in Tasks |-> IF u = t THEN "ending"
                                 ELSE IF u \in {"loop", "keepalive"} THEN "dead" ELSE at[u]]
       /\ query' = [u \in Tasks |-> IF u \in {t, "loop", "keepalive"} THEN "none" ELSE query[u]]
       /\ inbox' = Forget({t, "loop", "keepalive"})
       /\ UNCHANGED <<open, greeted, wait, age, update>>

(* transport.disconnect(): what was on its way is lost. *)
CloseTransport(t) ==
    /\ at[t] \in {"ending", "quiet"}
    /\ open' = FALSE /\ inbox' = <<>>
    /\ query' = [u \in Tasks |-> IF query[u] = "arrived" THEN "sent" ELSE query[u]]
    /\ at' = [at EXCEPT ![t] = IF at[t] = "ending" THEN "closing" ELSE "dead"]
    /\ UNCHANGED <<greeted, wait, age, closed, update>>

ReportClose(t) ==
    /\ at[t] = "closing"
    /\ update' = "close"
    /\ at' = [at EXCEPT ![t] = "dead"]
    /\ UNCHANGED <<open, inbox, greeted, query, wait, age, closed>>

(* disconnect() of a user: it cancels the receive loop wherever it stands, *)
(* and reports the close unless an end() has begun.                        *)
Disconnect ==
    /\ CanDisconnect /\ at["closer"] = "idle" /\ at["connector"] # "idle"
    /\ LET ended == IF at["keepalive"] \in {"ending", "closing"}
                    THEN {"loop"} ELSE {"loop", "keepalive"}
       IN  /\ at' = [u \in Tasks |-> IF u = "closer" THEN IF closed THEN "quiet" ELSE "ending"
                                     ELSE IF u \in ended THEN "dead" ELSE at[u]]
           /\ query' = [u \in Tasks |-> IF u \in ended THEN "none" ELSE query[u]]
           /\ inbox' = Forget(ended)
    /\ UNCHANGED <<open, greeted, wait, age, closed, update>>

-----------------------------------------------------------------------------
(* connect(), up to the hello it sends. *)
Connect ==
    /\ at["connector"] = "idle"
    /\ open' = TRUE /\ age' = 0 /\ update' = "connecting"
    /\ at' = [at EXCEPT !["connector"] = "hello", !["loop"] = "recv"]
    /\ query' = [query EXCEPT !["connector"] = "sending"]
    /\ wait' = [wait EXCEPT !["connector"] = ConnectTimeout]
    /\ UNCHANGED <<inbox, greeted, closed>>

(* validate_connection() sends its finish on the server's hello; without   *)
(* one connect() ends what it began.                                       *)
Validate ==
    /\ at["connector"] = "hello" /\ Over("connector")
    /\ IF query["connector"] = "resolved" /\ open
       THEN Ask("connector", "finish") /\ UNCHANGED <<open, inbox, greeted, age, closed, update>>
       ELSE End("connector")

(* The finish is sent and the keep-alive loop started, or it is not and    *)
(* connect() ends what it began.                                           *)
SendFinish ==
    /\ at["connector"] = "finish"
    /\ \/ /\ open
          /\ at' = [at EXCEPT !["connector"] = "connected", !["keepalive"] = "sleep"]
          /\ query' = [query EXCEPT !["connector"] = "none"]
          /\ wait' = [wait EXCEPT !["connector"] = 0, !["keepalive"] = Interval]
          /\ UNCHANGED <<open, inbox, greeted, age, closed, update>>
       \/ Over("connector") /\ End("connector")

-----------------------------------------------------------------------------
(* The receive loop: an answer resolves the query that waits for it, and   *)
(* the handler of any other message runs in the loop; it may send a reply. *)
Receive ==
    /\ at["loop"] = "recv" /\ inbox # <<>>
    /\ \/ /\ Head(inbox) \in Tasks
          /\ age' = 0
          /\ inbox' = Tail(inbox)
          /\ query' = [query EXCEPT ![Head(inbox)] = IF @ = "none" THEN "none" ELSE "resolved"]
          /\ UNCHANGED <<open, greeted, at, wait, closed, update>>
       \/ /\ Head(inbox) = "notice"
          /\ age' = 0
          /\ inbox' = Tail(inbox)
          /\ \/ UNCHANGED <<at, query, wait>>
             \/ open /\ Ask("loop", "reply")
          /\ UNCHANGED <<open, greeted, closed, update>>
       \/ /\ Head(inbox) = "success"
          /\ age' = 0
          /\ inbox' = Tail(inbox)
          /\ \/ /\ open
                /\ Ask("loop", "count")
                /\ UNCHANGED update
             \/ /\ ~open
                /\ update' = "open"
                /\ UNCHANGED <<at, query, wait>>
          /\ UNCHANGED <<open, greeted, closed>>
       \/ Head(inbox) = "error" /\ End("loop")

(* The transport is closed and recv() raises. *)
ReceiveFails ==
    /\ at["loop"] = "recv" /\ inbox = <<>> /\ ~open
    /\ End("loop")

(* The reply is sent, or is not: the loop logs that and goes on, unless    *)
(* the transport is closed and the handler lets the error through.         *)
Replied ==
    /\ at["loop"] = "reply"
    /\ \/ /\ open \/ Over("loop")
          /\ Continue("loop", "recv") /\ UNCHANGED <<open, greeted, age, closed, update>>
       \/ ~open /\ End("loop")

(* The handler of success: whatever becomes of the query for the number of *)
(* pre-keys, the loop sends the passive query, and only when that one is   *)
(* answered the digest query.  A closed transport makes a query raise.     *)
NextQuery(from, to) ==
    /\ at["loop"] = from /\ Over("loop") /\ open
    /\ from = "passive" => query["loop"] = "resolved"
    /\ Ask("loop", to)
    /\ inbox' = Forget({"loop"})
    /\ UNCHANGED <<open, greeted, age, closed, update>>

(* It ends with the report that the connection is open. *)
ReportOpen ==
    /\ at["loop"] \in {"count", "passive", "digest"} /\ Over("loop")
    /\ \/ ~open
       \/ at["loop"] = "passive" /\ query["loop"] # "resolved"
       \/ at["loop"] = "digest"
    /\ update' = "open"
    /\ Continue("loop", "recv")
    /\ UNCHANGED <<open, greeted, age, closed>>

-----------------------------------------------------------------------------
(* Mutant: a silence is never taken for a loss. *)
KeepAliveTrusting ==
    /\ at["keepalive"] = "sleep" /\ wait["keepalive"] = 0
    /\ \/ /\ ~open
          /\ wait' = [wait EXCEPT !["keepalive"] = Interval]
          /\ UNCHANGED <<open, inbox, greeted, at, query, age, closed, update>>
       \/ /\ open
          /\ Ask("keepalive", "ping")
          /\ UNCHANGED <<open, inbox, greeted, age, closed, update>>

(* The keep-alive loop wakes up: a silence that is too long ends the       *)
(* connection, else it pings and waits.                                    *)
KeepAlive ==
    /\ at["keepalive"] = "sleep" /\ wait["keepalive"] = 0
    /\ \/ age > Interval + Grace /\ End("keepalive")
       \/ /\ age <= Interval + Grace /\ ~open
          /\ wait' = [wait EXCEPT !["keepalive"] = Interval]
          /\ UNCHANGED <<open, inbox, greeted, at, query, age, closed, update>>
       \/ /\ age <= Interval + Grace /\ open
          /\ Ask("keepalive", "ping")
          /\ UNCHANGED <<open, inbox, greeted, age, closed, update>>

(* The ping is answered or not, and it sleeps again. *)
Pinged ==
    /\ at["keepalive"] = "ping" /\ Over("keepalive")
    /\ at' = [at EXCEPT !["keepalive"] = "sleep"]
    /\ query' = [query EXCEPT !["keepalive"] = "none"]
    /\ inbox' = Forget({"keepalive"})
    /\ wait' = [wait EXCEPT !["keepalive"] = Interval]
    /\ UNCHANGED <<open, greeted, age, closed, update>>

(* query() of a user.  Bound: not in the tick of the last message, so that *)
(* a tick has finitely many.                                               *)
UserQuery ==
    /\ at["user"] = "idle" /\ at["connector"] = "connected" /\ open /\ age > 0
    /\ Ask("user", "query")
    /\ UNCHANGED <<open, inbox, greeted, age, closed, update>>

UserReturns ==
    /\ at["user"] = "query" /\ Over("user")
    /\ Continue("user", "idle")
    /\ UNCHANGED <<open, greeted, age, closed, update>>

-----------------------------------------------------------------------------
(* The server, while the transport is open. *)
Push(m) == open /\ inbox' = Append(inbox, m)

Answer(t) ==
    /\ query[t] = "sent" /\ Push(t)
    /\ query' = [query EXCEPT ![t] = "arrived"]
    /\ UNCHANGED <<open, greeted, at, wait, age, closed, update>>
Greet ==
    /\ at["connector"] = "connected" /\ ~greeted /\ Push("success")
    /\ greeted' = TRUE
    /\ UNCHANGED <<open, at, query, wait, age, closed, update>>
Notify ==
    /\ Faults /\ at["connector"] = "connected" /\ Len(inbox) < MaxInbox
    /\ \E m \in {"notice", "error"} : Push(m)
    /\ UNCHANGED <<open, greeted, at, query, wait, age, closed, update>>
Drop ==
    /\ Faults /\ open /\ open' = FALSE
    /\ UNCHANGED <<inbox, greeted, at, query, wait, age, closed, update>>

(* A task that can run without more time or messages. *)
Ready(t) ==
    \/ at[t] \in {"ending", "quiet", "closing"}
    \/ at[t] \in Waits /\ Over(t)
    \/ t = "loop" /\ at[t] = "recv" /\ (inbox # <<>> \/ ~open)

Tick ==
    /\ \A t \in Tasks : ~Ready(t)
    /\ Prompt /\ open => /\ \A t \in Tasks : query[t] \notin {"sending", "sent"}
                         /\ at["connector"] = "connected" => greeted
    /\ wait' = [t \in Tasks |-> IF at[t] \in Waits /\ wait[t] > 0 THEN wait[t] - 1 ELSE wait[t]]
    /\ age' = IF age > MaxSilence THEN age ELSE age + 1
    /\ UNCHANGED <<open, inbox, greeted, at, query, closed, update>>

Run ==
    \/ Validate \/ SendFinish \/ Receive \/ ReceiveFails \/ Replied
    \/ NextQuery("count", "passive") \/ NextQuery("passive", "digest") \/ ReportOpen
    \/ KeepAlive \/ Pinged \/ UserReturns
    \/ \E t \in Tasks : CloseTransport(t) \/ ReportClose(t)

SocketNext ==
    \/ Connect \/ UserQuery \/ Disconnect \/ Run
    \/ (\E t \in Tasks : Sent(t) \/ Answer(t)) \/ Greet \/ Notify \/ Drop
    \/ Tick

(* Tasks that can run do, and time passes, also for a task that others    *)
(* keep from waiting.  A prompt server answers.                            *)
SocketFairness ==
    /\ WF_socketVars(Validate) /\ WF_socketVars(SendFinish)
    /\ WF_socketVars(Receive \/ ReceiveFails) /\ WF_socketVars(Replied)
    /\ WF_socketVars(NextQuery("count", "passive") \/ NextQuery("passive", "digest") \/ ReportOpen)
    /\ WF_socketVars(KeepAlive) /\ WF_socketVars(Pinged) /\ WF_socketVars(UserReturns)
    /\ \A t \in Tasks : WF_socketVars(CloseTransport(t)) /\ WF_socketVars(ReportClose(t))
    /\ SF_socketVars(Tick)
    /\ Prompt => WF_socketVars(Connect) /\ WF_socketVars(Greet)
                 /\ \A t \in Tasks : WF_socketVars(Sent(t)) /\ WF_socketVars(Answer(t))

SocketSpec == SocketInit /\ [][SocketNext]_socketVars
SocketFairSpec == SocketSpec /\ SocketFairness

-----------------------------------------------------------------------------
(* While the keep-alive loop runs, the server has not been silent for      *)
(* longer than MaxSilence, though the loop waits for its pings and the     *)
(* receive loop may be held up by a handler (socket.py 767-797).  A ping   *)
(* that has no time limit, QueryTimeout being 0, is the exception.         *)
SilenceBounded ==
    at["keepalive"] \in {"sleep", "ping"} /\ wait["keepalive"] # Endless => age <= MaxSilence

(* Once the close is reported the connection is not reported open: no      *)
(* handler is left that could (socket.py 270-278, 533).                    *)
NoOpenAfterClose == [][update = "close" => update' = "close"]_socketVars

(* A connection that ends is reported closed, whichever task finds out,    *)
(* also when it is the keep-alive loop that end() cancels.  disconnect()   *)
(* may come in between: it cancels the receive loop, also one that is      *)
(* ending the connection, and then nobody reports (socket.py 270-278).     *)
CloseReported == closed ~> (update = "close" \/ at["closer"] # "idle")

(* Every query ends, with or without an answer, also one that the          *)
(* transport never takes (socket.py 599-602), but for those without a time *)
(* limit, which nothing ends when the connection does (client.py 100-104). *)
QueryEnds ==
    \A t \in Tasks : query[t] # "none" ~> (query[t] = "none" \/ wait[t] = Endless)

(* What the test of the success handler asserts (tests/utils/              *)
(* test_core_socket.py, test_handle_success_node_updates_lid_and_emits_    *)
(* open): the connection is reported open after it.                        *)
SuccessOpens == greeted ~> update = "open"
=============================================================================
