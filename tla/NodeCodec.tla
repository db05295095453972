----------------------------- MODULE NodeCodec -----------------------------
(***************************************************************************)
(* The encoding of nodes as bytes (wabinary/encode.py, wabinary/decode.py, *)
(* wabinary/jid_utils.py).  A text is what its encoding depends on: the    *)
(* class of its characters, its length, and a number for the rest; the     *)
(* text of a JID is its parts.  A byte is a tag, a number, a token, or     *)
(* the part of a text or of a content that it holds.  Numbers of several   *)
(* bytes have the base Base and not 256, so that short texts reach every   *)
(* limit.                                                                  *)
(***************************************************************************)
EXTENDS Integers, Sequences

CONSTANTS
    Base,           \* 256
    Half,           \* the values of the highest four bits of an int20, 16
    PackedMax       \* 127

ASSUME BaseAssumption == Base \in Nat /\ Half \in 1 .. Base /\ PackedMax \in Nat

-----------------------------------------------------------------------------
(* Texts. *)
Text(class, id, len) == [class |-> class, id |-> id, len |-> len]
Empty == Text("other", "", 0)
Garbage == Text("garbage", "", 0)    \* what is not a text of any node
IsJid(t) == t.class = "jid"

NoDevice == -1
Jid(user, server, device, agent) ==
    [class |-> "jid", user |-> user, server |-> server, device |-> device, agent |-> agent]

(* Servers are tokens; these have a domain of their own. *)
Server(name) == Text("token", name, 1)
Domains == [lid |-> 1, hosted |-> 128, hosted_lid |-> 129]
HasDomain(server) == server.id \in DOMAIN Domains

(* jid_decode: the domain is that of the server, or the agent. *)
Domain(j) == IF HasDomain(j.server) THEN Domains[j.server.id] ELSE j.agent

(* jid_encode: an agent or device 0 is left out. *)
JidEncode(user, server, device) ==
    Jid(user, server, IF device = 0 THEN NoDevice ELSE device, 0)

-----------------------------------------------------------------------------
(* Bytes. *)
Byte(kind, value) == [kind |-> kind, value |-> value]
Tag(name) == <<Byte("tag", name)>>
Power(n) == Base ^ n
Number(value, width) ==
    [i \in 1 .. width |-> Byte("number", (value \div Power(width - i)) % Base)]

(* push_int20 keeps four bits of the highest byte. *)
Int20(value) ==
    <<Byte("number", (value \div Power(2)) % Half)>> \o Number(value % Power(2), 2)

ByteLength(n) ==
    IF n >= Half * Power(2) THEN Tag("BINARY_32") \o Number(n, 4)
    ELSE IF n >= Base THEN Tag("BINARY_20") \o Int20(n)
    ELSE Tag("BINARY_8") \o Number(n, 1)

(* What a text holds after its length, in so many bytes. *)
Body(t, n) == [i \in 1 .. n |-> Byte("part", Text(t.class, t.id, 0))]

WriteRaw(t) == ByteLength(t.len) \o Body(t, t.len)

(* Two characters in a byte; the length has a flag for an odd one. *)
WritePacked(t, tag) ==
    Tag(tag) \o <<Byte("number", (t.len + 1) \div 2), Byte("odd", t.len % 2)>>
             \o Body(t, (t.len + 1) \div 2)

WriteText(t) ==
    IF t = Empty THEN WriteRaw(t)
    ELSE IF t.class = "token" THEN <<Byte("token", t.id)>>
    ELSE IF t.class = "dictionary" THEN Tag("DICTIONARY") \o <<Byte("token", t.id)>>
    ELSE IF t.class = "nibble" /\ t.len <= PackedMax THEN WritePacked(t, "NIBBLE_8")
    ELSE IF t.class = "hex" /\ t.len <= PackedMax THEN WritePacked(t, "HEX_8")
    ELSE WriteRaw(t)

(* A JID with a device leaves its server out; the agent is left out of one *)
(* without.                                                                *)
WriteJid(j) ==
    IF j.device # NoDevice
    THEN Tag("AD_JID") \o <<Byte("number", Domain(j)), Byte("number", j.device % Base)>>
                       \o WriteText(j.user)
    ELSE Tag("JID_PAIR") \o (IF j.user = Empty THEN Tag("LIST_EMPTY") ELSE WriteText(j.user))
                         \o WriteText(j.server)

WriteString(t) == IF IsJid(t) THEN WriteJid(t) ELSE WriteText(t)

ListStart(n) ==
    IF n = 0 THEN Tag("LIST_EMPTY")
    ELSE IF n < Base THEN Tag("LIST_8") \o Number(n, 1)
    ELSE Tag("LIST_16") \o Number(n, 2)

-----------------------------------------------------------------------------
(* Nodes: a tag, attributes, and a content, of which the kind is "none",   *)
(* "text", "bytes" or "list".                                              *)
Node(tag, attrs, kind, content) ==
    [tag |-> tag, attrs |-> attrs, kind |-> kind, content |-> content]
NoNode == Node(Empty, <<>>, "none", Empty)

RECURSIVE Concat(_)
Concat(ss) == IF ss = <<>> THEN <<>> ELSE Head(ss) \o Concat(Tail(ss))

(* encode_binary_node, without the first byte.  An attribute that is None  *)
(* (here Garbage) and a child without a tag are left out.                  *)
Given(attrs) == SelectSeq(attrs, LAMBDA a : a.value # Garbage)
Tagged(nodes) == SelectSeq(nodes, LAMBDA n : n.tag # Empty)

RECURSIVE WriteNode(_)
WriteNode(n) ==
    LET attrs == Given(n.attrs) IN
    ListStart(2 * Len(attrs) + 1 + IF n.kind = "none" THEN 0 ELSE 1)
    \o WriteString(n.tag)
    \o Concat([i \in DOMAIN attrs |-> WriteString(attrs[i].key) \o WriteString(attrs[i].value)])
    \o CASE n.kind = "none" -> <<>>
         [] n.kind = "text" -> WriteString(n.content)
         [] n.kind = "bytes" -> WriteRaw(n.content)
         [] n.kind = "list" ->
              LET nodes == Tagged(n.content) IN
              ListStart(Len(nodes)) \o Concat([i \in DOMAIN nodes |-> WriteNode(nodes[i])])

-----------------------------------------------------------------------------
(* Reading: a result and the bytes that are left.  What cannot be read is  *)
(* Garbage and leaves nothing.                                             *)
Read(result, rest) == [result |-> result, rest |-> rest]
Drop(s, n) == SubSeq(s, n + 1, Len(s))
Unreadable == Read(Garbage, <<>>)
Starts(s, tag) == s # <<>> /\ s[1].kind = "tag" /\ s[1].value = tag
Numbers(s, n) == n <= Len(s) /\ \A i \in 1 .. n : s[i].kind = "number"

RECURSIVE Value(_, _)
Value(s, n) == IF n = 0 THEN 0 ELSE Value(s, n - 1) * Base + s[n].value

(* The length before a text or a content: its width by its tag. *)
Width == [BINARY_8 |-> 1, BINARY_20 |-> 3, BINARY_32 |-> 4]
IsLength(b) == b.kind = "tag" /\ b.value \in DOMAIN Width

ReadBody(s, n, len) ==
    IF n > Len(s) \/ \E i \in 1 .. n : s[i].kind # "part" \/ s[i] # s[1] THEN Unreadable
    ELSE IF n = 0 THEN Read(Empty, s)
    ELSE Read(Text(s[1].value.class, s[1].value.id, len), Drop(s, n))

ReadRaw(s) ==
    LET w == Width[s[1].value]
        rest == Tail(s)
    IN  IF ~Numbers(rest, w) THEN Unreadable
        ELSE LET n == Value(rest, w) IN ReadBody(Drop(rest, w), n, n)

(* Mutant: the half of the last byte is not dropped. *)
ReadPackedWhole(s) ==
    IF ~(Numbers(Tail(s), 1) /\ Len(s) > 2) THEN Unreadable
    ELSE ReadBody(Drop(s, 3), s[2].value, 2 * s[2].value)

ReadPacked(s) ==
    IF ~(Numbers(Tail(s), 1) /\ Len(s) > 2) THEN Unreadable
    ELSE ReadBody(Drop(s, 3), s[2].value, 2 * s[2].value - s[3].value)

ReadText(s) ==
    IF s = <<>> THEN Unreadable
    ELSE IF s[1].kind = "token" THEN Read(Text("token", s[1].value, 1), Tail(s))
    ELSE IF s[1].kind # "tag" THEN Unreadable
    ELSE IF s[1].value = "DICTIONARY"
         THEN IF Len(s) < 2 THEN Unreadable
              ELSE Read(Text("dictionary", s[2].value, 1), Drop(s, 2))
    ELSE IF s[1].value = "LIST_EMPTY" THEN Read(Empty, Tail(s))
    ELSE IF IsLength(s[1]) THEN ReadRaw(s)
    ELSE IF s[1].value \in {"NIBBLE_8", "HEX_8"} THEN ReadPacked(s)
    ELSE Unreadable

(* read_ad_jid: the server is that of the domain, or s.whatsapp.net. *)
DomainServer(d) ==
    IF \E s \in DOMAIN Domains : Domains[s] = d
    THEN Server(CHOOSE s \in DOMAIN Domains : Domains[s] = d)
    ELSE Server("s_whatsapp_net")

ReadString(s) ==
    IF Starts(s, "AD_JID")
    THEN IF ~Numbers(Tail(s), 2) THEN Unreadable
         ELSE LET user == ReadText(Drop(s, 3)) IN
              Read(JidEncode(user.result, DomainServer(s[2].value), s[3].value), user.rest)
    ELSE IF Starts(s, "JID_PAIR")
    THEN LET user == ReadText(Tail(s))
             server == ReadText(user.rest)
         IN  Read(Jid(user.result, server.result, NoDevice, 0), server.rest)
    ELSE ReadText(s)

ListWidth == [LIST_EMPTY |-> 0, LIST_8 |-> 1, LIST_16 |-> 2]
IsList(s) ==
    /\ s # <<>> /\ s[1].kind = "tag" /\ s[1].value \in DOMAIN ListWidth
    /\ Numbers(Tail(s), ListWidth[s[1].value])
ListSize(s) == Value(Tail(s), ListWidth[s[1].value])
AfterSize(s) == Drop(s, 1 + ListWidth[s[1].value])

RECURSIVE ReadAttrs(_, _)
ReadAttrs(s, n) ==
    IF n = 0 THEN Read(<<>>, s)
    ELSE LET key == ReadString(s)
             value == ReadString(key.rest)
             others == ReadAttrs(value.rest, n - 1)
         IN  Read(<<[key |-> key.result, value |-> value.result]>> \o others.result, others.rest)

(* decode_decompressed_binary_node. *)
RECURSIVE ReadNode(_), ReadNodes(_, _)
ReadNodes(s, n) ==
    IF n = 0 THEN Read(<<>>, s)
    ELSE LET first == ReadNode(s)
             others == ReadNodes(first.rest, n - 1)
         IN  Read(<<first.result>> \o others.result, others.rest)
ReadNode(s) ==
    IF ~IsList(s) \/ ListSize(s) = 0 THEN Read(NoNode, <<>>)
    ELSE
    LET tag == ReadString(AfterSize(s))
        attrs == ReadAttrs(tag.rest, (ListSize(s) - 1) \div 2)
        rest == attrs.rest
        With(kind, content) ==
            Read(Node(tag.result, attrs.result, kind, content.result), content.rest)
    IN  IF ListSize(s) % 2 = 1 THEN With("none", Read(Empty, rest))
        ELSE IF IsList(rest) THEN With("list", ReadNodes(AfterSize(rest), ListSize(rest)))
        ELSE IF rest # <<>> /\ IsLength(rest[1]) THEN With("bytes", ReadRaw(rest))
        ELSE With("text", ReadString(rest))

-----------------------------------------------------------------------------
(* The first byte says whether the rest is compressed: encode never does.  *)
Encode(n, compressed) ==
    IF compressed THEN <<Byte("flags", 2), Byte("zlib", WriteNode(n))>>
                  ELSE <<Byte("flags", 0)>> \o WriteNode(n)
Decode(s) ==
    ReadNode(IF s[1].value = 2 THEN s[2].value ELSE Tail(s)).result

(* What a text, and a node, is after the way there. *)
Plain(t) ==
    IF IsJid(t) THEN IF t.device # NoDevice
                     THEN JidEncode(t.user, DomainServer(Domain(t)), t.device % Base)
                     ELSE Jid(t.user, t.server, NoDevice, 0)
    ELSE t

RECURSIVE Normal(_)
Normal(n) ==
    LET attrs == Given(n.attrs)
        bytes == n.kind = "text" /\ ~IsJid(n.content) /\ IsLength(WriteText(n.content)[1])
    IN  Node(Plain(n.tag),
             [i \in DOMAIN attrs |-> [key |-> Plain(attrs[i].key), value |-> Plain(attrs[i].value)]],
             IF bytes THEN "bytes" ELSE n.kind,
             IF n.kind = "list"
             THEN LET nodes == Tagged(n.content) IN [i \in DOMAIN nodes |-> Normal(nodes[i])]
             ELSE IF n.kind = "text" THEN Plain(n.content) ELSE n.content)
=============================================================================
