----------------------------- MODULE MCConnect -----------------------------
(***************************************************************************)
(* A peer that plays its part, and peers that each differ from it in one   *)
(* way.  Frames hold up to two units of plaintext, so that each proposal   *)
(* takes more than one; fewer units than a frame has are under way to the  *)
(* peer.                                                                   *)
(***************************************************************************)
EXTENDS Connect, TLC

CONSTANTS k1, k2

MCOwnerOf == "s1" :> k1 @@ "s2" :> k2

Data == <<[k |-> "app", n |-> 1], [k |-> "app", n |-> 2]>>

MCApp == <<Data[1]>>

Header == "/multistream/1.0.0"

Hello == [k |-> "hs", n |-> 2, static |-> "s1", key |-> k1, signed |-> [by |-> k1, static |-> "s1"],
          decodes |-> TRUE]

Accepts == Message(Header) \o Message("/yamux/1.0.0")

Good == [raw |-> <<Header, "/noise">>, hs |-> Hello, plain |-> Accepts, reads |-> TRUE,
         closes |-> FALSE, garbles |-> FALSE, prompt |-> TRUE, expected |-> AnyPeer]

Raws ==
    {<<>>, <<Header>>, <<"/other">>, <<Header, "na">>, <<Header, "/other">>, <<"oversized">>,
     <<Header, "empty">>, <<Header, "no newline">>, <<Header, "/noise", "/noise">>}

Hellos ==
    {[Hello EXCEPT !.decodes = FALSE], [Hello EXCEPT !.key = k2],
     [Hello EXCEPT !.signed.static = "s2"], [Hello EXCEPT !.signed.by = k2],
     [Hello EXCEPT !.static = "s2"]}

Plains == {Message(Header), Message(Header) \o Message("/other"), Accepts \o Data}

MCPeers ==
    {Good}
    \cup {[Good EXCEPT !.raw = raw] : raw \in Raws}
    \cup {[Good EXCEPT !.hs = hs] : hs \in Hellos}
    \cup {[Good EXCEPT !.plain = plain] : plain \in Plains}
    \cup {[Good EXCEPT !.expected = k2]}
    \cup {[Good EXCEPT !.closes = TRUE], [Good EXCEPT !.garbles = TRUE], [Good EXCEPT !.reads = FALSE],
          [Good EXCEPT !.prompt = FALSE]}

=============================================================================
