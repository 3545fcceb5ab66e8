---------------------------- MODULE MCWarpClient ----------------------------
(***************************************************************************)
(* A small network for WarpClient: a chain of five blocks with two changes *)
(* of the authorities, a fork of two blocks whose second one names a set   *)
(* of its own, and four authorities, one of them faulty.                   *)
(***************************************************************************)
EXTENDS WarpClient, TLC

Main == <<"b1", "b2", "b3", "b4", "b5">>
Fork == <<"f3", "f4">>

MCHeader == {Main[i] : i \in 1 .. 5} \cup {Fork[i] : i \in 1 .. 2}

MCnumber == [h \in MCHeader |-> CASE h = "b1" -> 1 [] h = "b2" -> 2 [] h = "b3" -> 3 [] h = "b4" -> 4
                                  [] h = "b5" -> 5 [] h = "f3" -> 3 [] h = "f4" -> 4]

MCparent_hash == [h \in MCHeader |-> CASE h = "b1" -> "genesis" [] h = "b2" -> "b1" [] h = "b3" -> "b2"
                                       [] h = "b4" -> "b3" [] h = "b5" -> "b4"
                                       [] h = "f3" -> "b2" [] h = "f4" -> "f3"]

Entry(key, weight) == [key |-> key, weight |-> weight]

\* The third set has a key twice.
Set0 == <<Entry("a", 1), Entry("b", 1), Entry("c", 1), Entry("d", 1)>>
Set1 == <<Entry("a", 1), Entry("b", 2), Entry("c", 2)>>
Set2 == <<Entry("b", 1), Entry("c", 1), Entry("b", 2), Entry("d", 1)>>
BogusSet == <<Entry("a", 1)>>

Log(item, engine, message, list) ==
    [item |-> item, engine |-> engine, message |-> message, authorities |-> list]

Babe == Log("Consensus", "BABE", "ScheduledChange", BogusSet)
Odd  == Log("Consensus", "FRNK", "OnDisabled", BogusSet)

MClogs == [h \in MCHeader |->
    CASE h = "b2" -> <<Babe, Odd, Log("Consensus", "FRNK", "ScheduledChange", Set1),
                       Log("Consensus", "FRNK", "ForcedChange", BogusSet)>>
      [] h = "b3" -> <<Log("Consensus", "FRNK", "ForcedChange", Set2)>>
      [] h = "f4" -> <<Log("Consensus", "FRNK", "ScheduledChange", BogusSet)>>
      [] OTHER    -> <<Babe>>]

MCstate_root == [h \in MCHeader |-> <<"root", h>>]

MCChain == {Main[i] : i \in 1 .. 5}
MCSetOf == [h \in MCHeader |-> CASE h \in {"b1", "b2"} -> 0 [] h \in {"b3", "f3", "f4"} -> 1
                                 [] OTHER -> 2]
MCAuthoritiesOf == (0 :> Set0) @@ (1 :> Set1) @@ (2 :> Set2)
MCFaulty == {"a"}

Vote(a, h, round, id) == [authority_id |-> a, target_hash |-> h, target_number |-> MCnumber[h],
                          round |-> round, set_id |-> id]

\* One round that finalizes a block through votes for it and for a child, one in
\* which the others are split, and a faulty authority that signs for the fork as well.
MCVotes ==
    {Vote("a", h, r, id) : h \in {"b2", "f3", "f4"}, r \in {1, 2}, id \in 0 .. 2}
    \cup {Vote(k, "b2", 1, 0) : k \in {"b", "c", "z"}} \cup {Vote("d", "b1", 1, 0)}
    \cup {Vote(k, "b3", 1, 1) : k \in {"b", "c"}} \cup {Vote("b", "f4", 2, 1)}
    \cup {Vote(k, "b5", 1, 2) : k \in {"b", "d"}} \cup {Vote("c", "b4", 1, 2)}
    \cup {Vote(k, "b5", 2, 2) : k \in {"b", "c", "d"}}

\* A vote with its signature, one under another name, and one of a stranger.
Signed(v, a) == [target_hash |-> v.target_hash, target_number |-> v.target_number,
                 authority_id |-> a, signature |-> v]

MCPrecommit ==
    {Signed(v, v.authority_id) : v \in MCVotes}
    \cup {Signed(Vote("a", "f3", 1, 1), "b")}
    \cup {Signed(Vote("z", "b2", 1, 0), "c")}

MCAncestries == {{}, {"b5"}, {"f4"}, {"f4", "f3"}, {"b4", "b5", "f4"}}

MCParaHead == [r \in {<<"root", h>> : h \in MCHeader} |-> <<"para", r[2]>>]
MCParaStateRoot == [p \in {<<"para", h>> : h \in MCHeader} |-> <<"pararoot", p[2]>>]
MCAccount == [r \in {<<"pararoot", h>> : h \in MCHeader} |-> <<"account", r[2]>>]

=============================================================================
