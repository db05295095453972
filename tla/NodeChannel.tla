----------------------------- MODULE NodeChannel -----------------------------
(***************************************************************************)
(* The channel with the nodes' own bytes: what the code encodes a node as  *)
(* is what travels, and what it decodes that as is what is given.          *)
(***************************************************************************)
EXTENDS NoiseChannel, NodeCodec

CONSTANT Compressed     \* the nodes that the server sends compressed

(* The bytes of every node, the value of Length, and what they are read as.*)
Wire == [n \in Nodes |-> Encode(n, n \in Compressed)]
WireLength(n) == Len(Wire[n])
Decoded == [n \in Nodes |-> Decode(Wire[n])]
Normals == [n \in Nodes |-> Normal(n)]

-----------------------------------------------------------------------------
Regular(t) ==
    IsJid(t) => /\ t.agent = 0 /\ t.device # 0 /\ t.device < Base
                /\ t.device # NoDevice =>
                      HasDomain(t.server) \/ t.server = Server("s_whatsapp_net")

AsSent(read, normal, kept) ==
    /\ read = normal
    /\ \A a \in DOMAIN kept : Regular(kept[a].value) => read.attrs[a].value = kept[a].value

(* Either side reads a node as what it is expected to become, whatever the *)
(* lengths of its texts, lists and contents; and a node with JIDs that its *)
(* encoding has room for comes through as it is, but for a text content,   *)
(* which may become bytes (encode.py 53-63, decode.py 90-136).             *)
SameNodes ==
    \A n \in {got[i] : i \in DOMAIN got} \cup {given[i] : i \in DOMAIN given} :
        AsSent(Decoded[n], Normals[n], Given(n.attrs))
=============================================================================
