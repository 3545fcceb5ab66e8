---------------------------- MODULE MCConnection ----------------------------
(***************************************************************************)
(* Small instances of Connection for TLC.                                  *)
(***************************************************************************)
EXTENDS Connection

\* Answers, refusals and payloads on the streams of requests, a header that is
\* not one, a payload above MaxSize; proposals of a request, of a subscription
\* and of a protocol that nobody knows.
RequestChunks ==
    {<<LEN, HEADER, LEN, p>> : p \in {"r", "t", NA}}
    \cup {<<LEN, HEADER>>, <<LEN, "r">>, <<LEN, NA>>, <<LEN, "x">>, <<LEN, "x", LEN, "x", LEN>>}

\* The same for subscriptions, with a handshake that is not valid.
SubscriptionChunks ==
    {<<LEN, HEADER, LEN, "s">>, <<LEN, NA>>, <<LEN, "x">>, <<LEN, "bad">>,
     <<LEN, "x", LEN, "x", LEN>>}

\* A remote that is slow to answer.
AnswerChunks == {<<LEN, HEADER, LEN, "r">>, <<LEN, "x">>}

OneRequestProtocol == <<"r">>

NoRequestProtocol == <<>>

=============================================================================
