------------------------------ MODULE MCYamux ------------------------------
(***************************************************************************)
(* Small instances of Yamux for TLC.                                       *)
(***************************************************************************)
EXTENDS YamuxService, YamuxQueues

Fr(type, id, flags, length) ==
    [frame_type |-> type, stream_id |-> id, flags |-> flags, length |-> length]

\* One stream of ours: the remote grants window, answers, pings and closes.
OwnStreamFrames ==
    {Fr("WindowUpdate", 1, {}, n) : n \in {1, 2}}
    \cup {Fr("Data", 1, fl, n) : fl \in {{}, {"Fin"}}, n \in {1}}
    \cup {Fr("WindowUpdate", 1, {"Fin"}, 0), Fr("WindowUpdate", 1, {"Rst"}, 0)}
    \cup {Fr("Ping", 0, {}, 7)}

\* Two streams of the remote, and every way a frame can be wrong: an id it may
\* not open, a length above MAX_FRAME_SIZE, a stream named by a session frame.
RemoteStreamFrames ==
    {Fr("Data", 2, fl, n) : fl \in {{}, {"Syn"}, {"Fin"}, {"Rst"}}, n \in {0, 2}}
    \cup {Fr("Data", 2, {"Syn", "Fin"}, 2), Fr("Data", 2, {}, 5), Fr("Data", 1, {"Syn"}, 0)}
    \cup {Fr("WindowUpdate", id, {"Syn"}, 0) : id \in {1, 2, 4}}
    \cup {Fr("Data", 4, {"Syn"}, 1), Fr("WindowUpdate", 4, {"Fin"}, 0)}
    \cup {Fr("WindowUpdate", 2, fl, 1) : fl \in {{}, {"Fin"}, {"Rst"}}}
    \cup {Fr("Ping", id, {}, 7) : id \in {0, 2}}
    \cup {Fr("GoAway", id, {}, 0) : id \in {0, 2}}

\* The remote uses a stream of ours only after it has seen it opened.
RemoteHasSeenOpen ==
    \A id \in DOMAIN streams :
        \/ log[id].wire # <<>>
        \/ id % 2 = 0
        \/ /\ log'[id].received = log[id].received
           /\ log'[id].credit = log[id].credit
           /\ log'[id].fin = log[id].fin

=============================================================================
