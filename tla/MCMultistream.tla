--------------------------- MODULE MCMultistream ---------------------------
(***************************************************************************)
(* Small instances of YamuxMultistream for TLC.                            *)
(***************************************************************************)
EXTENDS YamuxMultistream

\* Whole messages, two at once, one cut in two, more than a buffer holds, and a
\* bad prefix.
MixedChunks ==
    {<<LEN, m>> : m \in {HEADER, "p", "q", NA, GARBAGE}}
    \cup {<<LEN, HEADER, LEN, "p">>, <<LEN>>, <<HEADER>>, <<"p">>, <<"q", LEN>>, <<BADLEN>>,
          <<LEN, HEADER, LEN, "p", LEN>>}

=============================================================================
