---------------------------- MODULE NoiseChannel ----------------------------
(***************************************************************************)
(* The channel to the server (utils/noise_handler.py, and the parts of     *)
(* socket/socket.py that drive it): connect() shakes hands, the tasks of   *)
(* the client send nodes, the receive loop takes frames out of the bytes   *)
(* it is given and awaits their handlers.  A frame is encrypted with the   *)
(* counter of its direction, and can be decrypted with that counter alone. *)
(* The transport keeps the order of bytes and cuts them anywhere.  The     *)
(* server, external, sends nodes when it has the client's finish, and      *)
(* reads as the client does.  How many bytes a node is encoded as is left  *)
(* to the codec, and so is what its bytes are read as (NodeChannel).       *)
(***************************************************************************)
EXTENDS Integers, Sequences

CONSTANTS
    OwnNodes,       \* the nodes the client may send
    ServerNodes,    \* the nodes the server may send
    Length(_),      \* the bytes of a node
    MaxSent,        \* bound: nodes each side sends
    MaxFailures     \* bound: handlers that raise and sends that are cancelled

Nodes == OwnNodes \cup ServerNodes
ASSUME ChannelAssumption ==
    /\ \A n \in Nodes : Length(n) \in Nat
    /\ MaxSent \in Nat /\ MaxFailures \in Nat

HeaderSize == 3

VARIABLES
    phase,          \* of validate_connection: "hello", "finish", "done"
    intro,          \* _sent_intro
    writeCounter, readCounter,      \* the counters of the transport state
    queue,          \* frames whose transport.send has not written them
    out,            \* frames written, with those the server has read
    sent,           \* history: nodes the client has encoded
    got,            \* history: nodes the server has decrypted
    deaf,           \* the server could not decrypt a frame: it listens no more
    in,             \* frames the server has written
    arrived,        \* how many bytes of them were received
    taken,          \* how many frames were taken out of the buffer
    loop,           \* the receive loop: "recv", "buffer" or "handler"
    served,         \* history: nodes the server has sent
    given,          \* history: nodes that were decrypted for the handlers
    early,          \* history: a frame was taken before the transport was there
    stalled,        \* history: the loop left the buffer by an exception
    failures

client == <<phase, intro, writeCounter, queue, sent>>
server == <<got, deaf, served>>
reader == <<readCounter, arrived, taken, loop, given, early, stalled>>
channelVars == <<client, server, reader, out, in, failures>>

(* A frame: its counter and the node it is of, or Handshake. *)
Handshake == -1
Frame(counter, n) == [intro |-> ~intro, counter |-> counter, node |-> n]
Hello == [intro |-> FALSE, counter |-> Handshake, node |-> Handshake]

ChannelInit ==
    /\ phase = "hello" /\ intro = TRUE /\ writeCounter = 0 /\ readCounter = 0
    /\ queue = <<[intro |-> TRUE, counter |-> Handshake, node |-> Handshake]>>
    /\ out = <<>> /\ sent = <<>> /\ got = <<>> /\ deaf = FALSE
    /\ in = <<>> /\ arrived = 0 /\ taken = 0 /\ loop = "recv"
    /\ served = <<>> /\ given = <<>>
    /\ early = FALSE /\ stalled = FALSE /\ failures = 0

-----------------------------------------------------------------------------
(* encode_frame, up to the transport that has the frame. *)
EncodeFrame(counter, n) ==
    /\ queue' = Append(queue, Frame(counter, n))
    /\ intro' = TRUE

(* transport.send writes it. *)
Transmit ==
    /\ queue # <<>>
    /\ out' = Append(out, Head(queue))
    /\ queue' = Tail(queue)
    /\ UNCHANGED <<phase, intro, writeCounter, sent, server, reader, in, failures>>

(* validate_connection, with the server's hello: the counters are those of *)
(* the keys that the hello gives, and the finish leaves.                   *)
Finish ==
    /\ phase = "hello" /\ taken = 1 /\ loop # "buffer"
    /\ EncodeFrame(Handshake, Handshake)
    /\ phase' = "finish"
    /\ UNCHANGED <<writeCounter, sent, server, reader, out, in, failures>>

(* finish_init, when send() has returned. *)
FinishInit ==
    /\ phase = "finish" /\ queue = <<>>
    /\ phase' = "done"
    /\ UNCHANGED <<intro, writeCounter, queue, sent, server, reader, out, in, failures>>

(* Mutant: the counter is that of the frames that were written. *)
SendNodeLate(n) ==
    /\ phase = "done" /\ Len(sent) < MaxSent
    /\ EncodeFrame(writeCounter - Len(queue), n)
    /\ writeCounter' = writeCounter + 1
    /\ sent' = Append(sent, n)
    /\ UNCHANGED <<phase, server, reader, out, in, failures>>

(* send_node of any task.  Bound: MaxSent. *)
SendNode(n) ==
    /\ phase = "done" /\ Len(sent) < MaxSent
    /\ EncodeFrame(writeCounter, n)
    /\ writeCounter' = writeCounter + 1
    /\ sent' = Append(sent, n)
    /\ UNCHANGED <<phase, server, reader, out, in, failures>>

(* A send is cancelled, or times out, before its frame is written. *)
CancelSend ==
    /\ phase = "done" /\ failures < MaxFailures /\ failures' = failures + 1
    /\ \E i \in DOMAIN queue :
         queue' = SubSeq(queue, 1, i - 1) \o SubSeq(queue, i + 1, Len(queue))
    /\ UNCHANGED <<phase, intro, writeCounter, sent, server, reader, out, in>>

-----------------------------------------------------------------------------
(* The server: its hello, its nodes, and what it reads. *)
Finished == \E i \in DOMAIN out : i > 1 /\ out[i].counter = Handshake
ServerHello ==
    /\ out # <<>> /\ in = <<>>
    /\ in' = <<Hello>>
    /\ UNCHANGED <<client, server, reader, out, failures>>

ServerSend(n) ==
    /\ Finished /\ Len(served) < MaxSent
    /\ in' = Append(in, [intro |-> FALSE, counter |-> Len(served), node |-> n])
    /\ served' = Append(served, n)
    /\ UNCHANGED <<client, got, deaf, reader, out, failures>>

ServerRead ==
    /\ ~deaf /\ Len(out) > Len(got) + 2
    /\ LET f == out[Len(got) + 3] IN
         IF f.counter = Len(got) /\ ~f.intro
         THEN got' = Append(got, f.node) /\ UNCHANGED deaf
         ELSE deaf' = TRUE /\ UNCHANGED got
    /\ UNCHANGED <<client, reader, out, in, served, failures>>

-----------------------------------------------------------------------------
(* The receive loop.  The size in a frame's header is right as long as the *)
(* frame is no larger than three bytes can say.                            *)
FrameSize(f) == HeaderSize + IF f.counter = Handshake THEN 1 ELSE Length(f.node)
Bytes(n) ==
    LET sum[k \in 0 .. n] == IF k = 0 THEN 0 ELSE sum[k - 1] + FrameSize(in[k]) IN sum[n]
Whole(n) == n <= Len(in) /\ Bytes(n) <= arrived

(* Bound: the bytes are cut in and around the headers, and before the last *)
(* byte of a frame.                                                        *)
Cuts ==
    UNION {{Bytes(n) + d : d \in {-1, 0, 1, HeaderSize, HeaderSize + 1}} : n \in 0 .. Len(in)}

(* recv() returns some of the bytes, which decode_frame puts in the buffer.*)
ReceiveBytes ==
    /\ loop = "recv"
    /\ arrived' \in Cuts \cap (arrived + 1 .. Bytes(Len(in)))
    /\ loop' = "buffer" /\ stalled' = FALSE
    /\ UNCHANGED <<client, server, readCounter, taken, given, early, out, in, failures>>

(* _process_data: no more whole frames ... *)
Wait ==
    /\ loop = "buffer" /\ ~Whole(taken + 1)
    /\ loop' = "recv"
    /\ UNCHANGED <<client, server, readCounter, arrived, taken, given, early, stalled,
                   out, in, failures>>

Next1 == in[taken + 1]
CanTake == loop = "buffer" /\ Whole(taken + 1)

(* ... a frame of the handshake, which connect() awaits; a frame that comes*)
(* before finish_init() is taken for one ...                               *)
TakePlain ==
    /\ CanTake /\ phase # "done"
    /\ taken' = taken + 1
    /\ early' = (early \/ Next1.counter # Handshake)
    /\ loop' = "handler"
    /\ UNCHANGED <<client, server, readCounter, arrived, given, stalled, out, in, failures>>

(* Mutant: the counter stays when a frame cannot be decrypted, so that the *)
(* frame after a lost one is taken for it.                                 *)
TakeUncounted ==
    /\ CanTake /\ phase = "done"
    /\ taken' = taken + 1
    /\ readCounter' = Next1.counter + 1
    /\ given' = Append(given, Next1.node)
    /\ loop' = "handler"
    /\ UNCHANGED <<client, server, arrived, early, stalled, out, in, failures>>

(* ... or a node, unless it cannot be decrypted.                           *)
Take ==
    /\ CanTake /\ phase = "done"
    /\ taken' = taken + 1
    /\ readCounter' = readCounter + 1
    /\ IF Next1.counter = readCounter
       THEN /\ given' = Append(given, Next1.node)
            /\ loop' = "handler" /\ UNCHANGED stalled
       ELSE loop' = "recv" /\ stalled' = TRUE /\ UNCHANGED given
    /\ UNCHANGED <<client, server, arrived, early, out, in, failures>>

(* Mutant: the loop does not look at the buffer again. *)
HandledOnce ==
    /\ loop = "handler" /\ loop' = "recv"
    /\ UNCHANGED <<client, server, readCounter, arrived, taken, given, early, stalled,
                   out, in, failures>>

(* The handler returns, or raises, which ends the work on the buffer: the  *)
(* loop goes on with the next bytes.                                       *)
Handled ==
    /\ loop = "handler" /\ loop' = "buffer"
    /\ UNCHANGED <<client, server, readCounter, arrived, taken, given, early, stalled,
                   out, in, failures>>
HandlerRaises ==
    /\ loop = "handler" /\ phase = "done" /\ failures < MaxFailures
    /\ loop' = "recv" /\ stalled' = TRUE
    /\ failures' = failures + 1
    /\ UNCHANGED <<client, server, readCounter, arrived, taken, given, early, out, in>>

ChannelNext ==
    \/ Transmit \/ Finish \/ FinishInit \/ CancelSend
    \/ \E n \in OwnNodes : SendNode(n)
    \/ ServerHello \/ ServerRead
    \/ \E n \in ServerNodes : ServerSend(n)
    \/ ReceiveBytes \/ Wait \/ TakePlain \/ Take \/ Handled \/ HandlerRaises

ChannelFairness ==
    /\ WF_channelVars(Transmit) /\ WF_channelVars(Finish) /\ WF_channelVars(FinishInit)
    /\ WF_channelVars(ServerHello) /\ WF_channelVars(ServerRead)
    /\ WF_channelVars(ReceiveBytes) /\ WF_channelVars(Wait \/ TakePlain \/ Take \/ Handled)

ChannelSpec == ChannelInit /\ [][ChannelNext]_channelVars /\ ChannelFairness
-----------------------------------------------------------------------------
(* What the handlers are given are the nodes the server sent, in order and *)
(* once, and nothing after one that was lost, however the bytes are cut    *)
(* and whatever raises (noise_handler.py 249-278).                         *)
Inbound == INSTANCE Fifo
    WITH Messages <- ServerNodes, sent <- served, received <- given
ImplementsFifo == Inbound!Spec

(* The server reads what was sent, in order and once, up to the first node *)
(* that was cancelled (noise_handler.py 33-36, socket.py 590-604).         *)
SendsInStep ==
    /\ deaf => failures > 0
    /\ Len(got) <= Len(sent) /\ \A i \in DOMAIN got : got[i] = sent[i]

(* The handlers are given every node, unless one of them came before       *)
(* finish_init() or a handler has raised.                                  *)
NodesGiven ==
    \A n \in 1 .. MaxSent : Len(served) >= n ~> Len(given) >= n \/ early \/ stalled
=============================================================================
