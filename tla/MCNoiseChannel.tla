-------------------------- MODULE MCNoiseChannel --------------------------
(* Nodes whose lengths are at the limits of the small Base, Half and       *)
(* PackedMax, with every kind of text, JID and content.                    *)
EXTENDS NodeChannel

Word(w) == Text("token", w, 1)
Attr(key, value) == [key |-> Word(key), value |-> value]
User == Text("nibble", "user", 3)
Name(len) == Text("other", "name", len)
Phone(device) == Jid(User, Server("s_whatsapp_net"), device, 0)
Lid(device) == Jid(User, Server("lid"), device, 0)
Group == Jid(Name(2), Server("g_us"), NoDevice, 0)
Bare(s) == Jid(Empty, Server(s), NoDevice, 0)
Leaf(w) == Node(Word(w), <<>>, "none", Empty)

MCServerNodes == {
    Node(Word("iq"), <<Attr("from", Bare("s_whatsapp_net")), Attr("id", Text("hex", "id", 3))>>,
         "bytes", Text("data", "data", 4)),
    Node(Word("message"), <<Attr("from", Lid(1)), Attr("phash", Garbage)>>, "list",
         <<Leaf("enc"), Node(Empty, <<>>, "none", Empty), Node(Word("note"), <<>>, "text", Name(4))>>),
    Node(Word("receipt"), <<Attr("from", Phone(5)), Attr("id", Text("hex", "id", 4))>>, "none", Empty)}

MCCompressed == {n \in MCServerNodes : n.kind = "list"}

MCOwnNodes == {
    Node(Word("iq"), <<Attr("to", Group), Attr("t", Text("dictionary", "t", 1))>>,
         "bytes", Text("data", "data", 32)),
    Node(Word("list"), <<>>, "list", <<Leaf("a"), Leaf("b"), Leaf("c"), Leaf("d")>>),
    Node(Word("presence"), <<Attr("to", Phone(NoDevice))>>, "text", Name(3))}
=============================================================================
