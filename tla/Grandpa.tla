------------------------------ MODULE Grandpa ------------------------------
(***************************************************************************)
(* Following finality: src/warp-sync/src/grandpa.rs, from the checkpoint   *)
(* that src/warp-sync/src/checkpoint.rs loads.                             *)
(*                                                                         *)
(* A response is a list of fragments, each a header and a justification    *)
(* with a list of precommits.  The loops over the two lists are steps      *)
(* here, one element each, and the element is chosen when the loop gets to *)
(* it: the peer decides the lists, and the code reads them once, in order. *)
(* Nothing else runs while update_with_warp_sync_response does.            *)
(*                                                                         *)
(* A header stands for its hash (blake2b is taken to be injective), and a  *)
(* signature for what was signed: nobody signs for an authority that does  *)
(* not take part.                                                          *)
(***************************************************************************)
EXTENDS Integers, FiniteSets, Sequences

CONSTANTS
    Header,         \* block headers, of the chain, of forks, or made up
    number,         \* Header -> u32
    parent_hash,    \* Header -> Header, or another hash
    logs,           \* Header -> sequence of digest items
    state_root,     \* Header -> state root
    NoChange,       \* None, for find_warp_sync_grandpa_authority_change
    U64,            \* 2^64
    MaxFragments,   \* bound: fragments in a response
    Rounds,         \* rounds a justification may name
    Ancestries,     \* the sets of headers a justification may bring along
    Precommit       \* the signed precommits a justification may hold

\* What the network is: none of these is known to the code.
CONSTANTS
    Chain,          \* the headers that are final
    SetOf,          \* Header -> id of the authority set that votes on it
    AuthoritiesOf,  \* set id -> its authorities
    Faulty,         \* authorities that sign anything
    Votes           \* what has been signed

\* The first log of GRANDPA that decodes to a change.
IsAuthorityChange(log) ==
    log.item = "Consensus" /\ log.engine = "FRNK" /\ log.message \in {"ScheduledChange", "ForcedChange"}

find_warp_sync_grandpa_authority_change(h) ==
    LET changes == {i \in DOMAIN logs[h] : IsAuthorityChange(logs[h][i])}
    IN  IF changes = {} THEN NoChange
        ELSE logs[h][CHOOSE i \in changes : \A j \in changes : i <= j].authorities

\* The set that votes on what follows a block: "ignoring the delay".
EnactedSet(h) ==
    SetOf[h] + (IF find_warp_sync_grandpa_authority_change(h) = NoChange THEN 0 ELSE 1)

\* The least set that holds the block and every header of the ancestries whose
\* parent is in it.
ClosedUnder(S, votes_ancestries) == \A a \in votes_ancestries : parent_hash[a] \in S => a \in S

build_ancestry_set(target_hash, votes_ancestries) ==
    LET known == {target_hash} \cup votes_ancestries
    IN  {x \in known : \A S \in SUBSET known :
                            target_hash \in S /\ ClosedUnder(S, votes_ancestries) => x \in S}

Descendants == [h \in Header |-> build_ancestry_set(h, Header)]

\* The HashMap of the authorities: of two entries for a key the last one stays.
Keys(list) == {list[i].key : i \in DOMAIN list}

AuthoritySet(list) ==
    [k \in Keys(list) |->
        list[CHOOSE i \in DOMAIN list :
                list[i].key = k /\ \A j \in DOMAIN list : list[j].key = k => j <= i].weight]

\* Sums of weights, as numbers of units: a weight w is w units.
Units(weights, S) == {u \in S \X (1 .. U64) : u[2] <= weights[u[1]]}

Weight(weights, S) == Cardinality(Units(weights, S))

TotalWeight(list) == Weight([i \in DOMAIN list |-> list[i].weight], DOMAIN list)

Threshold(list) == (((TotalWeight(list) % U64) * 2) % U64) \div 3

SignerPayload(p, round, id) ==
    [authority_id |-> p.authority_id, target_hash |-> p.target_hash,
     target_number |-> p.target_number, round |-> round, set_id |-> id]

verify_precommit_signature(p, round, id) == p.signature = SignerPayload(p, round, id)

-----------------------------------------------------------------------------

\* Who signed for a block or a descendant of it, in one round of one set.
Signers(h, round, id) ==
    {v.authority_id : v \in {w \in Votes : /\ w.round = round
                                           /\ w.set_id = id
                                           /\ w.target_hash \in Descendants[h]}}

Supermajority(h, round, id) ==
    LET weights == AuthoritySet(AuthoritiesOf[id])
    IN  3 * Weight(weights, Signers(h, round, id) \cap DOMAIN weights)
            > 2 * TotalWeight(AuthoritiesOf[id])

ASSUME HeadersAssumption ==
    /\ number \in [Header -> Nat]
    /\ SetOf \in [Header -> Nat]
    /\ DOMAIN AuthoritiesOf \subseteq Nat
    /\ DOMAIN parent_hash = Header
    /\ U64 \in Nat \ {0}
    /\ MaxFragments \in Nat
    /\ Ancestries \subseteq SUBSET Header
    /\ \A h \in Header : parent_hash[h] \in Header => SetOf[h] = EnactedSet(parent_hash[h])

ASSUME ListsAssumption ==
    \A id \in DOMAIN AuthoritiesOf :
        LET list == AuthoritiesOf[id]
        IN  /\ IsFiniteSet(DOMAIN list) /\ IsFiniteSet(Keys(list))
            /\ \A i \in DOMAIN list : list[i].weight \in 0 .. U64
            /\ \A k \in Keys(list) : AuthoritySet(list)[k] \in 0 .. U64

\* The chain of final blocks: no two of a height, each voted on by the set that
\* the blocks below it enact, with the authorities that the block before named.
ASSUME ChainAssumption ==
    /\ Chain \subseteq Header
    /\ \A g, h \in Chain : number[g] < number[h] => EnactedSet(g) <= SetOf[h]
    /\ \A h \in Chain :
        /\ EnactedSet(h) \in DOMAIN AuthoritiesOf
        /\ find_warp_sync_grandpa_authority_change(h) # NoChange
            => AuthoritiesOf[EnactedSet(h)] = find_warp_sync_grandpa_authority_change(h)

\* Signatures cannot be made up, and an authority that is not faulty votes in
\* the set that is in force at the block it votes for.
ASSUME VotesAssumption ==
    /\ \A p \in Precommit : p.signature.authority_id = p.authority_id => p.signature \in Votes
    /\ \A v \in Votes : v.authority_id \notin Faulty /\ v.target_hash \in Header
        => v.set_id = SetOf[v.target_hash]

\* What GRANDPA promises: the faulty alone are no supermajority of a set, and a
\* block that a supermajority stands for in one round is final.
ASSUME GrandpaAssumption ==
    \A id \in DOMAIN AuthoritiesOf :
        /\ LET weights == AuthoritySet(AuthoritiesOf[id])
           IN  3 * Weight(weights, Faulty \cap DOMAIN weights) <= 2 * TotalWeight(AuthoritiesOf[id])
        /\ \A h \in Header : \A round \in Rounds : Supermajority(h, round, id) => h \in Chain

\* The weights of a set, doubled, are in the range of u64.
ASSUME WeightsFit ==
    \A id \in DOMAIN AuthoritiesOf :
        LET weights == AuthoritySet(AuthoritiesOf[id])
        IN  /\ 2 * TotalWeight(AuthoritiesOf[id]) < U64
            /\ Weight(weights, DOMAIN weights) < U64

-----------------------------------------------------------------------------

VARIABLES
    authorities, set_id, finalized_number, finalized_hash, finalized_state_root,
    at,                \* where update_with_warp_sync_response is
    is_finished,       \* response.is_finished
    left,              \* fragments left of the response
    fragment,          \* the header and the round of the fragment in work
    valid_targets,
    signed_weight,
    seen_authorities,
    result,            \* what update_with_warp_sync_response returned last
    counted            \* history: authorities whose weight is in signed_weight

state == <<authorities, set_id, finalized_number, finalized_hash, finalized_state_root>>

loop == <<fragment, valid_targets, signed_weight, seen_authorities, counted>>

gvars == <<state, at, is_finished, left, loop, result>>

\* checkpoint::load: a final block, and the set that votes on what follows.
Init ==
    /\ finalized_hash \in Chain
    /\ finalized_number = number[finalized_hash]
    /\ finalized_state_root = state_root[finalized_hash]
    /\ set_id = EnactedSet(finalized_hash)
    /\ authorities = AuthoritiesOf[set_id]
    /\ at = "Idle"
    /\ is_finished = FALSE
    /\ left = 0
    /\ fragment = [header |-> finalized_hash, round |-> 0]
    /\ valid_targets = {}
    /\ signed_weight = 0
    /\ seen_authorities = {}
    /\ counted = {}
    /\ result = "None"

Return(res) == at' = "Idle" /\ result' = res /\ UNCHANGED <<state, is_finished, left, loop>>

\* The call: bytes that do not decode end it at once.
update_undecodable == at = "Idle" /\ Return("Err")

update_with_warp_sync_response(finished, num_fragments) ==
    /\ at = "Idle"
    /\ at' = "Fragments"
    /\ is_finished' = finished
    /\ left' = num_fragments
    /\ result' = "None"
    /\ UNCHANGED <<state, loop>>

update_ends == at = "Fragments" /\ left = 0 /\ Return(IF is_finished THEN "Finished" ELSE "More")

\* Mutant: the last fragment, which changes no set, need not advance.
Advances_OrLast(h) == number[h] > finalized_number \/ find_warp_sync_grandpa_authority_change(h) = NoChange

Advances(h) == number[h] > finalized_number

\* A fragment that does not advance, or whose justification is for another
\* block, ends the call.
fragment_rejected(h, target_hash, target_number) ==
    /\ at = "Fragments" /\ left > 0
    /\ ~(Advances(h) /\ target_hash = h /\ target_number = number[h])
    /\ Return("Err")

process_warp_sync_fragment(h, round, votes_ancestries) ==
    /\ at = "Fragments" /\ left > 0
    /\ Advances(h)
    /\ at' = "Precommits"
    /\ left' = left - 1
    /\ fragment' = [header |-> h, round |-> round]
    /\ valid_targets' = build_ancestry_set(h, votes_ancestries)
    /\ signed_weight' = 0
    /\ seen_authorities' = {}
    /\ counted' = {}
    /\ UNCHANGED <<state, is_finished, result>>

\* Mutant: an authority may be seen twice.
NewlySeen_Again(p) == p.authority_id \in Keys(authorities)

\* One precommit of the justification.  Its authority counts as seen before the
\* vote is checked.
NewlySeen(p) == p.authority_id \in Keys(authorities) \ seen_authorities

precommit_ignored(p) ==
    /\ at = "Precommits"
    /\ ~NewlySeen(p)
    /\ UNCHANGED gvars

IsValid(p) ==
    /\ p.target_hash \in valid_targets
    /\ verify_precommit_signature(p, fragment.round, set_id)

precommit_invalid(p) ==
    /\ at = "Precommits"
    /\ NewlySeen(p)
    /\ ~IsValid(p)
    /\ seen_authorities' = seen_authorities \cup {p.authority_id}
    /\ UNCHANGED <<state, at, is_finished, left, fragment, valid_targets, signed_weight, counted, result>>

precommit_counted(p) ==
    /\ at = "Precommits"
    /\ NewlySeen(p)
    /\ IsValid(p)
    /\ seen_authorities' = seen_authorities \cup {p.authority_id}
    /\ counted' = counted \cup {p.authority_id}
    /\ signed_weight' = (signed_weight + AuthoritySet(authorities)[p.authority_id]) % U64
    /\ at' = IF signed_weight' > Threshold(authorities) THEN "Verified" ELSE "Precommits"
    /\ UNCHANGED <<state, is_finished, left, fragment, valid_targets, result>>

precommits_end == at = "Precommits" /\ Return("Err")

\* Mutant: the set id stays when the authorities change.
NextSetId_Same(change) == set_id

NextSetId(change) == IF change = NoChange THEN set_id ELSE set_id + 1

\* Mutant: the state root of the block before is kept.
FinalizedRoot_Stale(h) == finalized_state_root

FinalizedRoot(h) == state_root[h]

\* The justification holds: all but the last fragment must change the set.
fragment_verified ==
    /\ at = "Verified"
    /\ LET h == fragment.header
           new_authorities == find_warp_sync_grandpa_authority_change(h)
           is_last_fragment == is_finished /\ left = 0
       IN  IF new_authorities = NoChange /\ ~is_last_fragment
           THEN Return("Err")
           ELSE /\ finalized_hash' = h
                /\ finalized_state_root' = FinalizedRoot(h)
                /\ finalized_number' = number[h]
                /\ set_id' = NextSetId(new_authorities)
                /\ authorities' = IF new_authorities = NoChange THEN authorities ELSE new_authorities
                /\ at' = "Fragments"
                /\ UNCHANGED <<is_finished, left, loop, result>>

\* What the loops do with what the peer put into the response.
ResponseSteps ==
    \/ update_ends
    \/ \E h, target_hash \in Header : \E target_number \in {number[h], number[target_hash]} :
            fragment_rejected(h, target_hash, target_number)
    \/ \E h \in Header, round \in Rounds, votes_ancestries \in Ancestries :
            process_warp_sync_fragment(h, round, votes_ancestries)
    \/ \E p \in Precommit : precommit_ignored(p) \/ precommit_invalid(p) \/ precommit_counted(p)
    \/ precommits_end
    \/ fragment_verified

Next ==
    \/ update_undecodable
    \/ \E finished \in BOOLEAN, num_fragments \in 0 .. MaxFragments :
            update_with_warp_sync_response(finished, num_fragments)
    \/ ResponseSteps

Spec == Init /\ [][Next]_gvars

-----------------------------------------------------------------------------

TypeOK ==
    /\ finalized_hash \in Header
    /\ finalized_number \in Nat
    /\ set_id \in Nat
    /\ at \in {"Idle", "Fragments", "Precommits", "Verified"}
    /\ is_finished \in BOOLEAN
    /\ left \in 0 .. MaxFragments
    /\ fragment \in [header : Header, round : Rounds \cup {0}]
    /\ valid_targets \in SUBSET Header
    /\ signed_weight \in 0 .. U64 - 1
    /\ counted \subseteq seen_authorities
    /\ result \in {"None", "Err", "More", "Finished"}

\* Whatever peers send, and wherever a response breaks off, the block that the
\* state calls finalized is final, with its own number and state root.
FinalizedOnChain ==
    /\ finalized_hash \in Chain
    /\ finalized_number = number[finalized_hash]
    /\ finalized_state_root = state_root[finalized_hash]

\* The authorities and the set id are those that the chain has after the
\* finalized block, although the code learns of them only from headers and
\* counts the changes itself.
AuthoritiesInForce ==
    /\ set_id = EnactedSet(finalized_hash)
    /\ authorities = AuthoritiesOf[set_id]

\* The weight the loop has added up is that of as many different authorities of
\* the set, and each of them has signed, in this round and this set, for the
\* fragment's block or a descendant; when the loop accepts, more than two thirds.
SignedWeightEarned ==
    at \in {"Precommits", "Verified"} =>
        LET weights == AuthoritySet(authorities)
        IN  /\ counted \subseteq DOMAIN weights
            /\ counted \subseteq Signers(fragment.header, fragment.round, set_id)
            /\ signed_weight = Weight(weights, counted)
            /\ at = "Verified" => 3 * signed_weight > 2 * TotalWeight(authorities)

\* Finality moves up the chain only, although no step compares a block with its
\* predecessor other than by height.
FinalityExtends ==
    [][finalized_hash' # finalized_hash =>
        /\ finalized_hash' \in Chain
        /\ number[finalized_hash] < number[finalized_hash']
        /\ set_id <= set_id']_gvars

=============================================================================
