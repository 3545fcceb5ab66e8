----------------------------- MODULE WarpClient -----------------------------
(***************************************************************************)
(* The programs that follow finality with GrandpaState over one peer       *)
(* connection after another: src/warp-sync/src/main.rs, and                *)
(* src/examples/assethub-balance/src/main.rs, which goes on to read the    *)
(* parachain's head from the relay chain's state, and an account from the  *)
(* parachain's state; assethub-timestamp does the same for another entry.  *)
(*                                                                         *)
(* A connection gives the events that module Connection allows: Opened     *)
(* before it is over, and one response for each request.  A state root     *)
(* stands for the state under it, and a proof for the root it is built on. *)
(***************************************************************************)
EXTENDS Grandpa

CONSTANTS
    Program,       \* the programs: "warp-sync", "assethub"
    Bootnodes,     \* number of bootnodes
    Reliable,      \* the bootnodes that accept us and answer as they should
    ParaHead,      \* relay state root -> parachain header in Paras::Heads
    ParaStateRoot, \* parachain header -> its state root
    Account,       \* parachain state root -> the account's entry
    BadProof,      \* bytes that are no proof
    None

ASSUME ClientAssumption == Bootnodes \in Nat \ {0} /\ Reliable \subseteq 0 .. Bootnodes - 1

VARIABLES
    program,
    phase,       \* "Relay", "AssetHub", or how the program ended: "Done", "Exited"
    bootnode,    \* (bootnode_n - 1) % len: the bootnode in use
    conn,        \* "None", "Subscribed", "Opened"
    asked,       \* requests on conn that have no response yet
    head,        \* learn_assethub_head: the parachain header
    info         \* fetch_assethub_account_info: the account

cvars == <<program, phase, bootnode, conn, asked, head, info>>

vars == <<gvars, cvars>>

ClientInit ==
    /\ Init
    /\ program \in Program
    /\ phase = "Relay"
    /\ bootnode = Bootnodes - 1
    /\ conn = "None"
    /\ asked = {}
    /\ head = None
    /\ info = None

\* Mutant: the first bootnode is tried every time.
NextBootnode_Same == 0

NextBootnode == (bootnode + 1) % Bootnodes

MayFail == bootnode \notin Reliable

Waits == conn # "None" /\ at = "Idle" /\ result = "None"

-----------------------------------------------------------------------------

\* The connection is dropped; after a pause the next bootnode is tried.
Retry ==
    /\ conn' = "None"
    /\ asked' = {}
    /\ UNCHANGED <<program, phase, bootnode, head, info>>

Exit ==
    /\ phase' = "Exited"
    /\ conn' = "None"
    /\ asked' = {}
    /\ UNCHANGED <<program, bootnode, head, info>>

\* `?` and bail! leave the program, or only the attempt.
Bail == IF program = "warp-sync" THEN Exit ELSE Retry

WarpRequest == [protocol |-> "warp", block |-> finalized_hash]

StateRequest(block) == [protocol |-> "state", block |-> block]

Ask(request) ==
    /\ asked' = asked \cup {request}
    /\ conn' = "Opened"
    /\ UNCHANGED <<program, phase, bootnode, head, info>>

\* connect_tcp and subscribe.
connected ==
    /\ phase \in {"Relay", "AssetHub"} /\ conn = "None"
    /\ bootnode' = NextBootnode
    /\ conn' = "Subscribed"
    /\ UNCHANGED <<gvars, program, phase, asked, head, info>>

connect_fails ==
    /\ phase \in {"Relay", "AssetHub"} /\ conn = "None"
    /\ NextBootnode \notin Reliable
    /\ bootnode' = NextBootnode
    /\ phase' = IF program = "warp-sync" THEN "Exited" ELSE phase
    /\ UNCHANGED <<gvars, program, conn, asked, head, info>>

on_opened ==
    /\ Waits /\ conn = "Subscribed"
    /\ Ask(IF phase = "Relay" THEN WarpRequest ELSE StateRequest(head))
    /\ UNCHANGED gvars

\* Closed or Error on the subscription, or an error from next().
on_connection_error == Waits /\ MayFail /\ Bail /\ UNCHANGED gvars

\* next() gives None.
on_connection_end == Waits /\ MayFail /\ Retry /\ UNCHANGED gvars

\* RequestResponse::Error, of either protocol.
on_response_error == Waits /\ MayFail /\ asked # {} /\ Retry /\ UNCHANGED gvars

-----------------------------------------------------------------------------

\* What a peer that answers as it should sends: the blocks that change the set,
\* and last the block on top, each with the votes of a supermajority.
Ahead ==
    {h \in Chain : /\ number[h] > finalized_number
                   /\ \/ find_warp_sync_grandpa_authority_change(h) # NoChange
                      \/ \A g \in Chain : number[g] <= number[h]}

GoodResponse(finished, num_fragments) ==
    LET n == Cardinality(Ahead)
    IN  /\ num_fragments = IF n <= MaxFragments THEN n ELSE MaxFragments
        /\ finished = (num_fragments = n)

GoodFragment(h, round, votes_ancestries) ==
    LET targets == build_ancestry_set(h, votes_ancestries)
        voters  == {p.authority_id : p \in {q \in Precommit :
                        /\ q.target_hash \in targets
                        /\ verify_precommit_signature(q, round, set_id)}}
        weights == AuthoritySet(authorities)
    IN  /\ h \in Ahead /\ \A g \in Ahead : number[h] <= number[g]
        /\ 3 * Weight(weights, voters \cap DOMAIN weights) > 2 * TotalWeight(authorities)

on_warp_response ==
    /\ Waits
    /\ \E r \in asked : r.protocol = "warp" /\ asked' = asked \ {r}
    /\ UNCHANGED <<program, phase, bootnode, conn, head, info>>
    /\ \/ MayFail /\ update_undecodable
       \/ \E finished \in BOOLEAN, num_fragments \in 0 .. MaxFragments :
            /\ MayFail \/ GoodResponse(finished, num_fragments)
            /\ update_with_warp_sync_response(finished, num_fragments)

\* The loops of module Grandpa, over what this bootnode sent.
update_fragment ==
    /\ at = "Fragments"
    /\ \E h \in Header, round \in Rounds, votes_ancestries \in Ancestries :
            /\ MayFail \/ GoodFragment(h, round, votes_ancestries)
            /\ process_warp_sync_fragment(h, round, votes_ancestries)
    /\ UNCHANGED cvars

update_rejects ==
    /\ MayFail
    /\ \/ /\ at = "Fragments"
          /\ \E h, target_hash \in Header : \E target_number \in {number[h], number[target_hash]} :
                fragment_rejected(h, target_hash, target_number)
       \/ precommits_end
    /\ UNCHANGED cvars

update_ignores ==
    /\ MayFail
    /\ at = "Precommits"
    /\ \E p \in Precommit : precommit_ignored(p) \/ precommit_invalid(p)
    /\ UNCHANGED cvars

update_counts ==
    /\ at = "Precommits"
    /\ \E p \in Precommit : precommit_counted(p)
    /\ UNCHANGED cvars

update_applies == fragment_verified /\ UNCHANGED cvars

update_returns == update_ends /\ UNCHANGED cvars

-----------------------------------------------------------------------------

Returned(res) ==
    /\ at = "Idle" /\ result = res
    /\ result' = "None"
    /\ UNCHANGED <<state, at, is_finished, left, loop>>

update_failed == Returned("Err") /\ Bail

update_wants_more == Returned("More") /\ Ask(WarpRequest)

warp_sync_done ==
    /\ Returned("Finished")
    /\ IF program = "warp-sync"
       THEN /\ phase' = "Done"
            /\ conn' = "None"
            /\ UNCHANGED <<program, bootnode, asked, head, info>>
       ELSE Ask(StateRequest(finalized_hash))

\* Mutant: any proof that is well formed is taken.
verify_state_proof_Unrooted(proof, root) == proof # BadProof

verify_state_proof(proof, root) == proof = root

Roots == {state_root[h] : h \in Header} \cup {ParaStateRoot[p] : p \in DOMAIN ParaStateRoot}

RootOf(block) == IF phase = "Relay" THEN state_root[block] ELSE ParaStateRoot[block]

StateAnswer(proof) ==
    /\ Waits
    /\ \E r \in asked : r.protocol = "state" /\ (MayFail \/ proof = RootOf(r.block))
    /\ UNCHANGED gvars

\* The function returns and its connection is dropped.
Leave == conn' = "None" /\ asked' = {} /\ bootnode' = Bootnodes - 1 /\ UNCHANGED program

\* learn_assethub_head: Paras::Heads under the root of the finalized block.  What
\* the proof yields must decode.
on_para_head(proof) ==
    /\ phase = "Relay"
    /\ StateAnswer(proof)
    /\ IF verify_state_proof(proof, finalized_state_root) /\ proof \in DOMAIN ParaHead
       THEN Leave /\ phase' = "AssetHub" /\ head' = ParaHead[proof] /\ UNCHANGED info
       ELSE Retry

\* fetch_assethub_account_info: System::Account under the root of that head.
on_account(proof) ==
    /\ phase = "AssetHub"
    /\ StateAnswer(proof)
    /\ IF verify_state_proof(proof, ParaStateRoot[head]) /\ proof \in DOMAIN Account
       THEN Leave /\ phase' = "Done" /\ info' = Account[proof] /\ UNCHANGED head
       ELSE Retry

\* What the program does by itself: connect, which ends by its timeouts, and deal
\* with a response.
OwnSteps ==
    \/ connected \/ connect_fails
    \/ update_fragment \/ update_rejects \/ update_ignores \/ update_counts
    \/ update_applies \/ update_returns
    \/ update_failed \/ update_wants_more \/ warp_sync_done

\* What the bootnode in use makes happen.
Events ==
    \/ on_opened \/ on_connection_error \/ on_connection_end \/ on_response_error
    \/ on_warp_response
    \/ asked # {} /\ \E proof \in Roots \cup {BadProof} : on_para_head(proof) \/ on_account(proof)

ClientNext == OwnSteps \/ Events

\* The program runs, and a reliable bootnode answers.  Nothing is assumed of the
\* others, which may fall silent or send responses without end: the programs have
\* no timeout that would end such a connection.
Fairness == WF_vars(OwnSteps) /\ WF_vars(~MayFail /\ Events)

ClientSpec == ClientInit /\ [][ClientNext]_vars /\ Fairness

-----------------------------------------------------------------------------

\* The account that is printed is the one under the head that a final block of
\* the relay chain names, whoever answered and however often it was retried.
AccountIsFinal ==
    info # None =>
        /\ finalized_hash \in Chain
        /\ head = ParaHead[state_root[finalized_hash]]
        /\ info = Account[ParaStateRoot[head]]

\* With one reliable bootnode the account is found in the end, also after
\* attempts that broke off half way, and the warp-sync program at least ends.
\* One thing alone prevents it: a bootnode that is not reliable and keeps its
\* connection for ever (warp-sync, 193: an empty response that is not the last is
\* answered with the same request).  Whatever else goes wrong, the next bootnode is
\* tried, and what was verified so far is kept.
EventuallyAnswered ==
    \/ <>(phase = "Done" \/ (program = "warp-sync" /\ phase = "Exited"))
    \/ <>[](conn # "None" /\ MayFail)

=============================================================================
