--------------------------- MODULE GrandpaProofs ---------------------------
(***************************************************************************)
(* Whatever peers send, GrandpaState stays on the chain, and the programs  *)
(* that use it print what is under a final block.                          *)
(***************************************************************************)
EXTENDS WarpClient, FiniteSetTheorems, FunctionTheorems, TLAPS

\* The provers, in the order in which a step that names none is given to them. SMT has more
\* than one turn because tlapm drops an obligation that it was too slow to translate.
USE Zenon, SMTT(10), SMTT(20), SMTT(30)

\* The units of an authority are as many as its weight.
LEMMA UnitsOfOne ==
    ASSUME NEW weights, NEW a, weights[a] \in 0 .. U64
    PROVE  /\ IsFiniteSet(Units(weights, {a}))
           /\ Cardinality(Units(weights, {a})) = weights[a]
<1> DEFINE w == weights[a]
           f == [i \in 1 .. w |-> <<a, i>>]
<1>1. w \in Nat /\ U64 \in Nat /\ w <= U64
    BY HeadersAssumption
<1>2. Units(weights, {a}) = {<<a, i>> : i \in 1 .. w}
    BY <1>1 DEF Units
<1>3. f \in Bijection(1 .. w, Units(weights, {a}))
    <2>1. f \in [1 .. w -> Units(weights, {a})]
        BY <1>2
    <2>2. \A i, j \in 1 .. w : f[i] = f[j] => i = j
        OBVIOUS
    <2>3. \A u \in Units(weights, {a}) : \E i \in 1 .. w : f[i] = u
        BY <1>2
    <2> QED
        BY <2>1, <2>2, <2>3, Fun_IsBij
<1>4. IsFiniteSet(1 .. w) /\ Cardinality(1 .. w) = w
    <2> HIDE DEF w
    <2>1. 1 \in Int /\ w \in Int
        BY <1>1
    <2>2. IsFiniteSet(1 .. w) /\ Cardinality(1 .. w) = IF 1 > w THEN 0 ELSE w - 1 + 1
        BY <2>1, FS_Interval
    <2> QED
        BY <1>1, <2>2
<1> QED
    BY <1>3, <1>4, FS_Bijection, Fun_ExistsBij

\* The units of a finite set are finite.
LEMMA UnitsFinite ==
    ASSUME NEW weights, NEW S, IsFiniteSet(S)
    PROVE  /\ IsFiniteSet(Units(weights, S))
           /\ Weight(weights, S) \in Nat
<1>1. IsFiniteSet(1 .. U64)
    BY HeadersAssumption, FS_Interval
<1>2. IsFiniteSet(S \X (1 .. U64))
    BY <1>1, FS_Product
<1>3. Units(weights, S) \in SUBSET (S \X (1 .. U64))
    BY DEF Units
<1>4. IsFiniteSet(Units(weights, S))
    BY <1>2, <1>3, FS_Subset
<1> QED
    BY <1>4, FS_CardinalityType DEF Weight

\* A new authority adds its weight.
LEMMA WeightAdd ==
    ASSUME NEW weights, NEW S, IsFiniteSet(S), NEW a, a \notin S, weights[a] \in 0 .. U64
    PROVE  Weight(weights, S \cup {a}) = Weight(weights, S) + weights[a]
<1>1. Units(weights, S \cup {a}) = Units(weights, S) \cup Units(weights, {a})
    BY DEF Units
<1>2. Units(weights, S) \cap Units(weights, {a}) = {}
    BY DEF Units
<1>3. IsFiniteSet(Units(weights, S)) /\ IsFiniteSet(Units(weights, {a}))
    BY UnitsFinite, UnitsOfOne
<1>4. Cardinality(Units(weights, S \cup {a}))
        = Cardinality(Units(weights, S)) + Cardinality(Units(weights, {a})) - Cardinality({})
    BY <1>1, <1>2, <1>3, FS_Union
<1>5. Cardinality({}) = 0
    BY FS_EmptySet
<1>6. Cardinality(Units(weights, S)) \in Nat /\ weights[a] \in Nat
    BY <1>3, FS_CardinalityType
<1> QED
    BY <1>4, <1>5, <1>6, UnitsOfOne DEF Weight

\* More authorities have no less weight.
LEMMA WeightMonotone ==
    ASSUME NEW weights, NEW T, IsFiniteSet(T), NEW S \in SUBSET T
    PROVE  Weight(weights, S) <= Weight(weights, T)
<1>1. Units(weights, S) \in SUBSET Units(weights, T)
    BY DEF Units
<1> QED
    BY <1>1, UnitsFinite, FS_Subset DEF Weight

\* A set that holds the block and is closed under the ancestries holds all that
\* build_ancestry_set finds.
LEMMA AncestrySetLeast ==
    ASSUME NEW t \in Header, NEW A \in SUBSET Header, NEW S,
           t \in S, ClosedUnder(S, A)
    PROVE  build_ancestry_set(t, A) \subseteq S
<1> DEFINE known == {t} \cup A
<1>1. t \in S \cap known /\ ClosedUnder(S \cap known, A)
    BY DEF ClosedUnder
<1>2. \A x \in build_ancestry_set(t, A) : x \in S \cap known
    BY <1>1 DEF build_ancestry_set
<1> QED
    BY <1>2

\* What a justification brings along proves descent.
LEMMA AncestrySetDescends ==
    ASSUME NEW t \in Header, NEW A \in SUBSET Header
    PROVE  build_ancestry_set(t, A) \subseteq Descendants[t]
<1>1. Descendants[t] = build_ancestry_set(t, Header)
    BY DEF Descendants
<1>2. SUFFICES ASSUME NEW x \in build_ancestry_set(t, A)
               PROVE  x \in build_ancestry_set(t, Header)
    BY <1>1
<1>3. {t} \cup Header = Header
    OBVIOUS
<1>4. ASSUME NEW S \in SUBSET Header, t \in S, ClosedUnder(S, Header)
      PROVE  x \in S
    <2>1. ClosedUnder(S, A)
        BY <1>4 DEF ClosedUnder
    <2> QED
        BY <1>4, <2>1, <1>2, AncestrySetLeast
<1>5. x \in Header
    BY <1>2 DEF build_ancestry_set
<1> QED
    BY <1>3, <1>4, <1>5 DEF build_ancestry_set

\* A descendant is voted on by the same set or a later one.
LEMMA DescendantSets ==
    ASSUME NEW h \in Header, NEW x \in Descendants[h]
    PROVE  x \in Header /\ SetOf[h] <= SetOf[x]
<1> DEFINE S == {y \in Header : SetOf[h] <= SetOf[y]}
<1>1. h \in S
    BY HeadersAssumption
<1>2. ClosedUnder(S, Header)
    <2>1. SUFFICES ASSUME NEW a \in Header, parent_hash[a] \in S
                   PROVE  a \in S
        BY DEF ClosedUnder
    <2>2. SetOf[a] = EnactedSet(parent_hash[a])
        BY <2>1, HeadersAssumption
    <2>3. SetOf[parent_hash[a]] <= EnactedSet(parent_hash[a])
        BY <2>1, HeadersAssumption DEF EnactedSet
    <2> QED
        BY <2>1, <2>2, <2>3, HeadersAssumption
<1>3. build_ancestry_set(h, Header) \subseteq S
    BY <1>1, <1>2, AncestrySetLeast
<1> QED
    BY <1>3 DEF Descendants

-----------------------------------------------------------------------------

\* What the loop over the precommits has of the fragment it is about.
FragmentInWork ==
    at \in {"Precommits", "Verified"} =>
        /\ fragment.round \in Rounds
        /\ number[fragment.header] > finalized_number
        /\ valid_targets \subseteq Descendants[fragment.header]

\* Inductive: the fragment in work is newer than the finalized block and its
\* targets descend from it; what is counted has signed; and the finalized block
\* and the authorities in force fit.
IInv == TypeOK /\ FinalizedOnChain /\ AuthoritiesInForce /\ SignedWeightEarned /\ FragmentInWork

\* The set in force is one of the chain, and its weights are in range.
LEMMA SetInForce ==
    ASSUME FinalizedOnChain, AuthoritiesInForce
    PROVE  LET weights == AuthoritySet(authorities)
           IN  /\ set_id \in DOMAIN AuthoritiesOf
               /\ DOMAIN weights = Keys(authorities)
               /\ IsFiniteSet(DOMAIN weights)
               /\ \A k \in DOMAIN weights : weights[k] \in 0 .. U64
               /\ TotalWeight(authorities) \in Nat
               /\ 2 * TotalWeight(authorities) < U64
               /\ Weight(weights, DOMAIN weights) < U64
<1>1. set_id \in DOMAIN AuthoritiesOf /\ authorities = AuthoritiesOf[set_id]
    BY ChainAssumption DEF FinalizedOnChain, AuthoritiesInForce
<1>2. DOMAIN AuthoritySet(authorities) = Keys(authorities)
    BY DEF AuthoritySet
<1>3. /\ IsFiniteSet(DOMAIN authorities) /\ IsFiniteSet(Keys(authorities))
      /\ \A k \in Keys(authorities) : AuthoritySet(authorities)[k] \in 0 .. U64
    BY <1>1, ListsAssumption
<1>4. TotalWeight(authorities) \in Nat
    BY <1>3, UnitsFinite DEF TotalWeight
<1>5. /\ 2 * TotalWeight(authorities) < U64
      /\ Weight(AuthoritySet(authorities), DOMAIN AuthoritySet(authorities)) < U64
    BY <1>1, WeightsFit
<1> QED
    BY <1>1, <1>2, <1>3, <1>4, <1>5

\* More than the threshold is more than two thirds.
LEMMA AboveThreshold ==
    ASSUME FinalizedOnChain, AuthoritiesInForce, NEW n \in Nat, n > Threshold(authorities)
    PROVE  3 * n > 2 * TotalWeight(authorities)
<1> DEFINE T == TotalWeight(authorities)
<1>1. T \in Nat /\ 2 * T < U64 /\ U64 \in Nat
    BY SetInForce, HeadersAssumption
<1>2. Threshold(authorities) = (((T % U64) * 2) % U64) \div 3
    BY DEF Threshold
<1> HIDE DEF T
<1>3. T % U64 = T /\ (T * 2) % U64 = T * 2
    BY <1>1
<1>4. n > (T * 2) \div 3
    BY <1>2, <1>3
<1> QED
    BY <1>1, <1>4 DEF T

\* A fragment that was verified is a block of the chain, on which the set in
\* force votes.
LEMMA VerifiedOnChain ==
    ASSUME IInv, at = "Verified"
    PROVE  /\ fragment.header \in Chain
           /\ SetOf[fragment.header] = set_id
<1> DEFINE h == fragment.header
           weights == AuthoritySet(authorities)
           signers == Signers(h, fragment.round, set_id) \cap DOMAIN weights
           T == TotalWeight(authorities)
<1>1. /\ h \in Header
      /\ counted \subseteq signers
      /\ 3 * Weight(weights, counted) > 2 * T
      /\ fragment.round \in Rounds
      /\ number[h] > finalized_number
    BY DEF IInv, TypeOK, SignedWeightEarned, FragmentInWork
<1>2. /\ set_id \in DOMAIN AuthoritiesOf /\ IsFiniteSet(DOMAIN weights) /\ T \in Nat
      /\ authorities = AuthoritiesOf[set_id]
    BY SetInForce DEF IInv, AuthoritiesInForce
<1>3. \A S \in SUBSET DOMAIN weights : IsFiniteSet(S) /\ Weight(weights, S) \in Nat
    BY <1>2, FS_Subset, UnitsFinite
<1>4. h \in Chain
    <2>1. Weight(weights, counted) <= Weight(weights, signers)
        BY <1>1, <1>3, WeightMonotone
    <2>2. Weight(weights, counted) \in Nat /\ Weight(weights, signers) \in Nat
        BY <1>1, <1>3
    <2>3. 3 * Weight(weights, signers) > 2 * T
        <3> HIDE DEF weights, signers, T
        <3> QED
            BY <1>1, <1>2, <2>1, <2>2
    <2>4. Supermajority(h, fragment.round, set_id)
        BY <2>3, <1>2 DEF Supermajority
    <2> QED
        BY <2>4, <1>1, <1>2, GrandpaAssumption
<1>5. PICK k \in counted : k \notin Faulty
    <2>1. SUFFICES ASSUME counted \subseteq Faulty
                   PROVE  FALSE
        OBVIOUS
    <2> DEFINE F == Faulty \cap DOMAIN weights
    <2>2. Weight(weights, counted) <= Weight(weights, F)
        BY <2>1, <1>1, <1>3, WeightMonotone
    <2>3. Weight(weights, counted) \in Nat /\ Weight(weights, F) \in Nat
        BY <1>1, <1>3
    <2>4. 3 * Weight(weights, F) <= 2 * T
        BY <1>2, GrandpaAssumption
    <2> HIDE DEF weights, T, F
    <2> QED
        BY <1>1, <1>2, <2>2, <2>3, <2>4
<1>6. PICK v \in Votes : /\ v.authority_id = k
                         /\ v.target_hash \in Descendants[h]
                         /\ v.set_id = set_id
    BY <1>1, <1>5 DEF Signers
<1>7. v.target_hash \in Header /\ SetOf[h] <= SetOf[v.target_hash]
    BY <1>1, <1>6, DescendantSets
<1>8. SetOf[h] <= set_id
    BY <1>5, <1>6, <1>7, VotesAssumption
<1>9. set_id <= SetOf[h]
    BY <1>1, <1>4, ChainAssumption DEF IInv, FinalizedOnChain, AuthoritiesInForce
<1>10. SetOf[h] \in Nat /\ set_id \in Nat
    BY <1>1, HeadersAssumption DEF IInv, TypeOK
<1> QED
    BY <1>4, <1>8, <1>9, <1>10

\* A precommit that counts adds the weight of one more signer.
LEMMA CountedEarned ==
    ASSUME IInv, NEW p \in Precommit, precommit_counted(p)
    PROVE  LET weights == AuthoritySet(authorities)
           IN  /\ counted' \subseteq DOMAIN weights
               /\ counted' \subseteq Signers(fragment.header, fragment.round, set_id)
               /\ signed_weight' = Weight(weights, counted')
               /\ signed_weight' \in 0 .. U64 - 1
<1> DEFINE weights == AuthoritySet(authorities)
           a == p.authority_id
<1>1. /\ a \in DOMAIN weights /\ a \notin seen_authorities
      /\ p.target_hash \in valid_targets
      /\ p.signature = SignerPayload(p, fragment.round, set_id)
      /\ counted' = counted \cup {a}
      /\ signed_weight' = (signed_weight + weights[a]) % U64
      /\ at = "Precommits"
    BY DEF precommit_counted, NewlySeen, IsValid, verify_precommit_signature, AuthoritySet
<1>2. /\ counted \subseteq seen_authorities
      /\ counted \subseteq DOMAIN weights
      /\ counted \subseteq Signers(fragment.header, fragment.round, set_id)
      /\ signed_weight = Weight(weights, counted)
      /\ valid_targets \subseteq Descendants[fragment.header]
    BY <1>1 DEF IInv, TypeOK, SignedWeightEarned, FragmentInWork
<1>3. /\ IsFiniteSet(DOMAIN weights)
      /\ weights[a] \in 0 .. U64
      /\ Weight(weights, DOMAIN weights) < U64
      /\ U64 \in Nat
    BY <1>1, SetInForce, HeadersAssumption DEF IInv
<1>4. a \in Signers(fragment.header, fragment.round, set_id)
    <2>1. p.signature \in Votes
        BY <1>1, VotesAssumption DEF SignerPayload
    <2>2. /\ p.signature.authority_id = a
          /\ p.signature.target_hash = p.target_hash
          /\ p.signature.round = fragment.round
          /\ p.signature.set_id = set_id
        BY <1>1 DEF SignerPayload
    <2> QED
        BY <1>1, <1>2, <2>1, <2>2 DEF Signers
<1>5. IsFiniteSet(counted) /\ IsFiniteSet(counted')
    BY <1>1, <1>2, <1>3, FS_Subset
<1>6. Weight(weights, counted') = signed_weight + weights[a]
    BY <1>1, <1>2, <1>3, <1>5, WeightAdd
<1>7. Weight(weights, counted') \in Nat /\ Weight(weights, counted') <= Weight(weights, DOMAIN weights)
    BY <1>1, <1>2, <1>3, <1>5, UnitsFinite, WeightMonotone
<1>8. Weight(weights, DOMAIN weights) \in Nat
    BY <1>3, UnitsFinite
<1>9. signed_weight' = Weight(weights, counted') /\ signed_weight' \in 0 .. U64 - 1
    <2> DEFINE W == Weight(weights, counted')
               D == Weight(weights, DOMAIN weights)
    <2>1. W \in Nat /\ D \in Nat /\ W <= D /\ D < U64 /\ signed_weight' = W % U64
        BY <1>1, <1>3, <1>6, <1>7, <1>8
    <2> HIDE DEF W, D, weights
    <2>2. W % U64 = W /\ W \in 0 .. U64 - 1
        BY <2>1, <1>3
    <2> QED
        BY <2>1, <2>2 DEF W
<1> QED
    BY <1>1, <1>2, <1>4, <1>9

\* A step that leaves the loop or ends the call disturbs nothing.
LEMMA LoopLeft ==
    ASSUME IInv, UNCHANGED <<state, loop>>, at' \in {"Idle", "Fragments"},
           is_finished' \in BOOLEAN, left' \in 0 .. MaxFragments,
           result' \in {"None", "Err", "More", "Finished"}
    PROVE  IInv'
BY DEF IInv, TypeOK, FinalizedOnChain, AuthoritiesInForce, SignedWeightEarned, FragmentInWork,
       state, loop

\* Leaving the loop, with an error or at the end, touches no fact about fragments.
LEMMA ReturnKeeps ==
    ASSUME IInv, NEW res \in {"Err", "More", "Finished"}, Return(res)
    PROVE  IInv'
BY LoopLeft DEF Return, IInv, TypeOK

\* Taking up a fragment that passes the checks on its headers.
LEMMA FragmentKeeps ==
    ASSUME IInv, NEW h \in Header, NEW round \in Rounds, NEW A \in Ancestries,
           process_warp_sync_fragment(h, round, A)
    PROVE  IInv'
<1> USE DEF process_warp_sync_fragment
<1>1. /\ UNCHANGED state
      /\ at' = "Precommits" /\ fragment' = [header |-> h, round |-> round]
      /\ valid_targets' = build_ancestry_set(h, A)
      /\ signed_weight' = 0 /\ seen_authorities' = {} /\ counted' = {}
      /\ number[h] > finalized_number
    BY DEF Advances
<1>2. A \in SUBSET Header
    BY HeadersAssumption
<1>3. valid_targets' \subseteq Descendants[h] /\ valid_targets' \subseteq Header
    BY <1>1, <1>2, AncestrySetDescends DEF build_ancestry_set
<1>4. TypeOK'
    <2>1. fragment' \in [header : Header, round : Rounds \cup {0}]
        BY <1>1
    <2>2. left' \in 0 .. MaxFragments /\ is_finished' \in BOOLEAN
        BY HeadersAssumption DEF IInv, TypeOK
    <2>3. signed_weight' \in 0 .. U64 - 1
        BY <1>1, HeadersAssumption
    <2> QED
        BY <1>1, <1>3, <2>1, <2>2, <2>3 DEF IInv, TypeOK, state
<1>5. FinalizedOnChain' /\ AuthoritiesInForce'
    BY <1>1 DEF IInv, FinalizedOnChain, AuthoritiesInForce, state
<1>6. Weight(AuthoritySet(authorities), {}) = 0
    <2>1. Units(AuthoritySet(authorities), {}) = {}
        BY DEF Units
    <2> QED
        BY <2>1, FS_EmptySet DEF Weight
<1>7. SignedWeightEarned'
    BY <1>1, <1>6 DEF SignedWeightEarned, state
<1>8. FragmentInWork'
    BY <1>1, <1>3 DEF FragmentInWork, state
<1> QED
    BY <1>4, <1>5, <1>7, <1>8 DEF IInv

\* A precommit that fails its checks is not counted.
LEMMA InvalidKeeps ==
    ASSUME IInv, NEW p \in Precommit, precommit_invalid(p)
    PROVE  IInv'
BY DEF IInv, TypeOK, FinalizedOnChain, AuthoritiesInForce, SignedWeightEarned, FragmentInWork,
       precommit_invalid, state

\* A precommit that is counted adds the weight of one more signer.
LEMMA CountedKeeps ==
    ASSUME IInv, NEW p \in Precommit, precommit_counted(p)
    PROVE  IInv'
<1>1. /\ UNCHANGED <<state, is_finished, left, fragment, valid_targets, result>>
      /\ at = "Precommits"
      /\ seen_authorities' = seen_authorities \cup {p.authority_id}
      /\ counted' = counted \cup {p.authority_id}
      /\ at' \in {"Precommits", "Verified"}
      /\ at' = "Verified" => signed_weight' > Threshold(authorities)
    BY DEF precommit_counted
<1>2. /\ counted' \subseteq DOMAIN AuthoritySet(authorities)
      /\ counted' \subseteq Signers(fragment.header, fragment.round, set_id)
      /\ signed_weight' = Weight(AuthoritySet(authorities), counted')
      /\ signed_weight' \in 0 .. U64 - 1
    BY CountedEarned
<1>3. at' = "Verified" => 3 * signed_weight' > 2 * TotalWeight(authorities)
    BY <1>1, <1>2, AboveThreshold, HeadersAssumption DEF IInv
<1>4. TypeOK'
    BY <1>1, <1>2 DEF IInv, TypeOK, state
<1>5. FinalizedOnChain' /\ AuthoritiesInForce'
    BY <1>1 DEF IInv, FinalizedOnChain, AuthoritiesInForce, state
<1>6. SignedWeightEarned'
    BY <1>1, <1>2, <1>3 DEF SignedWeightEarned, state
<1>7. FragmentInWork'
    BY <1>1 DEF IInv, FragmentInWork, state
<1> QED
    BY <1>4, <1>5, <1>6, <1>7 DEF IInv

\* What a verified fragment moves, it moves along the chain.
LEMMA AppliedOnChain ==
    ASSUME IInv, fragment_verified, UNCHANGED loop
    PROVE  \/ UNCHANGED state
           \/ /\ finalized_hash' \in Chain
              /\ number[finalized_hash] < number[finalized_hash']
              /\ finalized_number' = number[finalized_hash']
              /\ finalized_state_root' = state_root[finalized_hash']
              /\ set_id' = EnactedSet(finalized_hash')
              /\ authorities' = AuthoritiesOf[set_id']
              /\ set_id <= set_id'
<1> DEFINE h == fragment.header
           change == find_warp_sync_grandpa_authority_change(h)
<1>1. h \in Chain /\ SetOf[h] = set_id /\ set_id \in Nat
    BY VerifiedOnChain DEF fragment_verified, IInv, TypeOK
<1>2. number[finalized_hash] < number[h]
    BY DEF IInv, FragmentInWork, FinalizedOnChain, fragment_verified
<1>3. CASE UNCHANGED state
    BY <1>3
<1>4. CASE /\ finalized_hash' = h
           /\ finalized_state_root' = FinalizedRoot(h)
           /\ finalized_number' = number[h]
           /\ set_id' = NextSetId(change)
           /\ authorities' = IF change = NoChange THEN authorities ELSE change
    <2>1. set_id' = EnactedSet(h) /\ set_id <= set_id'
        BY <1>1, <1>4 DEF NextSetId, EnactedSet
    <2>2. authorities' = AuthoritiesOf[set_id']
        <3>1. CASE change = NoChange
            BY <1>4, <3>1 DEF NextSetId, IInv, AuthoritiesInForce
        <3>2. CASE change # NoChange
            BY <1>1, <1>4, <2>1, <3>2, ChainAssumption
        <3> QED
            BY <3>1, <3>2
    <2> QED
        BY <1>1, <1>2, <1>4, <2>1, <2>2 DEF FinalizedRoot
<1> QED
    BY <1>3, <1>4 DEF fragment_verified, Return

\* A verified fragment moves the state to the block and the set that it proves.
LEMMA VerifiedKeeps ==
    ASSUME IInv, fragment_verified
    PROVE  IInv'
<1>1. /\ UNCHANGED <<loop, is_finished, left>>
      /\ at' \in {"Idle", "Fragments"}
      /\ result' \in {"None", "Err", "More", "Finished"}
    BY DEF fragment_verified, Return, IInv, TypeOK
<1>2. CASE UNCHANGED state
    BY <1>1, <1>2, LoopLeft DEF IInv, TypeOK
<1>3. CASE /\ finalized_hash' \in Chain
           /\ finalized_number' = number[finalized_hash']
           /\ finalized_state_root' = state_root[finalized_hash']
           /\ set_id' = EnactedSet(finalized_hash')
           /\ authorities' = AuthoritiesOf[set_id']
    <2>1. finalized_hash' \in Header /\ finalized_number' \in Nat /\ set_id' \in Nat
        BY <1>3, ChainAssumption, HeadersAssumption DEF EnactedSet
    <2>2. TypeOK'
        BY <1>1, <2>1 DEF IInv, TypeOK, loop
    <2> QED
        BY <1>1, <1>3, <2>2
        DEF IInv, FinalizedOnChain, AuthoritiesInForce, SignedWeightEarned, FragmentInWork
<1> QED
    BY <1>1, <1>2, <1>3, AppliedOnChain

\* The checkpoint satisfies the invariant.
LEMMA Initially ==
    ASSUME Init
    PROVE  IInv
<1>1. finalized_hash \in Header /\ set_id \in Nat /\ finalized_number \in Nat
    BY ChainAssumption, HeadersAssumption DEF Init, EnactedSet
<1>2. 0 \in 0 .. MaxFragments /\ 0 \in 0 .. U64 - 1
    BY HeadersAssumption
<1>3. TypeOK
    BY <1>1, <1>2 DEF Init, TypeOK
<1> QED
    BY <1>3 DEF Init, IInv, FinalizedOnChain, AuthoritiesInForce, SignedWeightEarned, FragmentInWork

\* Every step preserves the invariant.
LEMMA Inductive ==
    ASSUME IInv, [Next]_gvars
    PROVE  IInv'
<1>1. CASE update_undecodable
    BY <1>1, ReturnKeeps DEF update_undecodable
<1>2. CASE \E finished \in BOOLEAN, num_fragments \in 0 .. MaxFragments :
                update_with_warp_sync_response(finished, num_fragments)
    BY <1>2, LoopLeft DEF update_with_warp_sync_response
<1>3. CASE update_ends
    BY <1>3, ReturnKeeps DEF update_ends
<1>4. ASSUME NEW h \in Header, NEW target_hash \in Header, NEW target_number,
             fragment_rejected(h, target_hash, target_number)
      PROVE  IInv'
    BY <1>4, ReturnKeeps DEF fragment_rejected
<1>5. CASE \E h \in Header, round \in Rounds, A \in Ancestries : process_warp_sync_fragment(h, round, A)
    BY <1>5, FragmentKeeps
<1>6. ASSUME NEW p \in Precommit, precommit_ignored(p)
      PROVE  IInv'
    BY <1>6, LoopLeft
    DEF precommit_ignored, gvars, state, loop, IInv, TypeOK, FinalizedOnChain, AuthoritiesInForce,
        SignedWeightEarned, FragmentInWork
<1>7. CASE \E p \in Precommit : precommit_invalid(p) \/ precommit_counted(p)
    BY <1>7, InvalidKeeps, CountedKeeps
<1>8. CASE precommits_end
    BY <1>8, ReturnKeeps DEF precommits_end
<1>9. CASE fragment_verified
    BY <1>9, VerifiedKeeps
<1>10. CASE UNCHANGED gvars
    BY <1>10
    DEF gvars, state, loop, IInv, TypeOK, FinalizedOnChain, AuthoritiesInForce, SignedWeightEarned,
        FragmentInWork
<1> QED
    BY <1>1, <1>2, <1>3, <1>4, <1>5, <1>6, <1>7, <1>8, <1>9, <1>10 DEF Next, ResponseSteps

\* The inductive invariant always holds.
THEOREM Invariance == Spec => []IInv
BY Initially, Inductive, PTL DEF Spec

\* Whatever peers send, the block that GrandpaState calls finalized is final.
THEOREM FinalizedTheorem == Spec => []FinalizedOnChain
<1>1. IInv => FinalizedOnChain
    BY DEF IInv
<1> QED
    BY <1>1, Invariance, PTL

\* The set id and the authorities follow the changes of the chain.
THEOREM AuthoritiesTheorem == Spec => []AuthoritiesInForce
<1>1. IInv => AuthoritiesInForce
    BY DEF IInv
<1> QED
    BY <1>1, Invariance, PTL

\* A justification passes only with the signatures of more than two thirds.
THEOREM SignedWeightTheorem == Spec => []SignedWeightEarned
<1>1. IInv => SignedWeightEarned
    BY DEF IInv
<1> QED
    BY <1>1, Invariance, PTL

\* A step either leaves the finalized block or goes up the chain.
LEMMA FinalityStep ==
    ASSUME IInv, [Next]_gvars
    PROVE  [finalized_hash' # finalized_hash =>
              /\ finalized_hash' \in Chain
              /\ number[finalized_hash] < number[finalized_hash']
              /\ set_id <= set_id']_gvars
<1>1. CASE fragment_verified
    <2>1. UNCHANGED loop
        BY <1>1 DEF fragment_verified, Return
    <2> QED
        BY <1>1, <2>1, AppliedOnChain DEF state
<1>2. CASE ~fragment_verified
    <2>1. UNCHANGED state
        BY <1>2
        DEF Next, ResponseSteps, gvars, Return, update_undecodable, update_with_warp_sync_response,
            update_ends, fragment_rejected, process_warp_sync_fragment, precommit_ignored,
            precommit_invalid, precommit_counted, precommits_end
    <2> QED
        BY <2>1 DEF state
<1> QED
    BY <1>1, <1>2

\* Finality moves up the chain only.
THEOREM FinalityTheorem == Spec => FinalityExtends
BY FinalityStep, Invariance, PTL DEF Spec, FinalityExtends

-----------------------------------------------------------------------------

(* The programs.  Between two calls of update_with_warp_sync_response they   *)
(* only take its result.                                                     *)

LEMMA ReturnedKeeps ==
    ASSUME IInv, NEW res, Returned(res)
    PROVE  IInv'
<1>1. /\ UNCHANGED <<state, loop>> /\ at' = "Idle" /\ result' = "None"
      /\ is_finished' \in BOOLEAN /\ left' \in 0 .. MaxFragments
    BY DEF Returned, IInv, TypeOK
<1> QED
    BY <1>1, LoopLeft

\* A step of a program is one of GrandpaState, or takes its result.
LEMMA ClientSteps ==
    ASSUME [ClientNext]_vars
    PROVE  [Next]_gvars \/ \E res : Returned(res)
<1>1. CASE \/ connected \/ connect_fails \/ on_opened \/ on_connection_error
           \/ on_connection_end \/ on_response_error \/ UNCHANGED vars
    BY <1>1
    DEF connected, connect_fails, on_opened, on_connection_error, on_connection_end,
        on_response_error, vars
<1>2. CASE on_warp_response
    BY <1>2 DEF on_warp_response, Next
<1>3. CASE update_fragment \/ update_rejects \/ update_ignores
    BY <1>3 DEF update_fragment, update_rejects, update_ignores, Next, ResponseSteps
<1>4. CASE update_counts \/ update_applies \/ update_returns
    BY <1>4 DEF update_counts, update_applies, update_returns, Next, ResponseSteps
<1>5. CASE update_failed \/ update_wants_more \/ warp_sync_done
    BY <1>5 DEF update_failed, update_wants_more, warp_sync_done
<1>6. CASE \E proof : on_para_head(proof) \/ on_account(proof)
    BY <1>6 DEF on_para_head, on_account, StateAnswer
<1> QED
    BY <1>1, <1>2, <1>3, <1>4, <1>5, <1>6 DEF ClientNext, OwnSteps, Events

LEMMA ClientInductive ==
    ASSUME IInv, [ClientNext]_vars
    PROVE  IInv'
BY ClientSteps, Inductive, ReturnedKeeps

LEMMA ClientInvariance == ClientSpec => []IInv
<1>1. ClientInit => IInv
    BY Initially DEF ClientInit
<1> QED
    BY <1>1, ClientInductive, PTL DEF ClientSpec

\* In the programs too, over one connection after another, what GrandpaState
\* holds is final, and so is every signature it counts on.
THEOREM ClientFollowsTheorem ==
    ClientSpec => [](FinalizedOnChain /\ AuthoritiesInForce /\ SignedWeightEarned)
<1>1. IInv => FinalizedOnChain /\ AuthoritiesInForce /\ SignedWeightEarned
    BY DEF IInv
<1> QED
    BY <1>1, ClientInvariance, PTL

\* Nor does finality move back from one connection to the next.
THEOREM ClientFinalityTheorem == ClientSpec => FinalityExtends
<1>1. ASSUME IInv, [ClientNext]_vars
      PROVE  [finalized_hash' # finalized_hash =>
                /\ finalized_hash' \in Chain
                /\ number[finalized_hash] < number[finalized_hash']
                /\ set_id <= set_id']_gvars
    <2>1. ASSUME NEW res, Returned(res)
          PROVE  UNCHANGED finalized_hash
        BY <2>1 DEF Returned, state
    <2> QED
        BY <1>1, <2>1, ClientSteps, FinalityStep
<1> QED
    BY <1>1, ClientInvariance, PTL DEF ClientSpec, FinalityExtends

\* No warp sync is going on, and no answer to a warp sync request is awaited.
Settled == at = "Idle" /\ result = "None" /\ \A r \in asked : r.protocol = "state"

HeadFinal == head = ParaHead[state_root[finalized_hash]]

\* Inductive with IInv: once the head is known the finalized block stays, and
\* once the account is known the program is over.
ClientInv ==
    /\ phase = "AssetHub" => Settled /\ HeadFinal
    /\ info # None =>
          /\ phase = "Done" /\ conn = "None" /\ asked = {}
          /\ Settled /\ HeadFinal
          /\ info = Account[ParaStateRoot[head]]

\* A step that leaves GrandpaState, the head and the account alone.
LEMMA ClientInvKept ==
    ASSUME ClientInv, UNCHANGED <<gvars, head, info>>, info = None,
           phase' = "AssetHub" => phase = "AssetHub" /\ \A r \in asked' : r.protocol = "state"
    PROVE  ClientInv'
BY DEF ClientInv, Settled, HeadFinal, gvars, state

\* Nothing happens any more when the account is known.
LEMMA OverWhenKnown ==
    ASSUME ClientInv, info # None, [ClientNext]_vars
    PROVE  UNCHANGED vars
<1>1. phase = "Done" /\ conn = "None" /\ asked = {} /\ at = "Idle" /\ result = "None"
    BY DEF ClientInv, Settled
<1>2. ~connected /\ ~connect_fails
    BY <1>1 DEF connected, connect_fails
<1>3. /\ ~on_opened /\ ~on_connection_error /\ ~on_connection_end /\ ~on_response_error
      /\ ~on_warp_response
    BY <1>1
    DEF on_opened, on_connection_error, on_connection_end, on_response_error, on_warp_response, Waits
<1>4. ~update_fragment /\ ~update_rejects /\ ~update_ignores /\ ~update_counts
    BY <1>1 DEF update_fragment, update_rejects, update_ignores, update_counts, precommits_end
<1>5. ~update_applies /\ ~update_returns
    BY <1>1 DEF update_applies, update_returns, fragment_verified, update_ends
<1>6. ~update_failed /\ ~update_wants_more /\ ~warp_sync_done
    BY <1>1 DEF update_failed, update_wants_more, warp_sync_done, Returned
<1> QED
    BY <1>1, <1>2, <1>3, <1>4, <1>5, <1>6 DEF ClientNext, OwnSteps, Events

\* While warp sync goes on the programs are in their first phase.
LEMMA WarpSyncKeeps ==
    ASSUME ClientInv, info = None,
           \/ on_warp_response
           \/ update_fragment \/ update_rejects \/ update_ignores \/ update_counts
           \/ update_applies \/ update_returns
           \/ update_failed \/ update_wants_more \/ warp_sync_done
    PROVE  ClientInv'
<1>1. phase # "AssetHub"
    <2>1. SUFFICES ASSUME Settled
                   PROVE  FALSE
        BY DEF ClientInv
    <2>2. ~on_warp_response
        BY <2>1 DEF on_warp_response, Settled
    <2>3. ~update_fragment /\ ~update_rejects /\ ~update_ignores /\ ~update_counts
        BY <2>1 DEF update_fragment, update_rejects, update_ignores, update_counts, precommits_end, Settled
    <2>4. ~update_applies /\ ~update_returns
        BY <2>1 DEF update_applies, update_returns, fragment_verified, update_ends, Settled
    <2>5. ~update_failed /\ ~update_wants_more /\ ~warp_sync_done
        BY <2>1 DEF update_failed, update_wants_more, warp_sync_done, Returned, Settled
    <2> QED
        BY <2>2, <2>3, <2>4, <2>5
<1>2. info' = None /\ phase' # "AssetHub"
    <2>1. CASE \/ on_warp_response \/ update_fragment \/ update_rejects \/ update_ignores
               \/ update_counts \/ update_applies \/ update_returns
        BY <1>1, <2>1
        DEF on_warp_response, update_fragment, update_rejects, update_ignores, update_counts,
            update_applies, update_returns, cvars
    <2>2. CASE update_failed \/ update_wants_more \/ warp_sync_done
        BY <1>1, <2>2 DEF update_failed, update_wants_more, warp_sync_done, Bail, Exit, Retry, Ask
    <2> QED
        BY <2>1, <2>2
<1> QED
    BY <1>2 DEF ClientInv

LEMMA ClientInvInductive ==
    ASSUME IInv, ClientInv, [ClientNext]_vars
    PROVE  ClientInv'
<1>1. CASE info # None \/ UNCHANGED vars
    <2>1. UNCHANGED vars
        BY <1>1, OverWhenKnown
    <2> QED
        BY <2>1 DEF vars, cvars, gvars, state, ClientInv, Settled, HeadFinal
<1>2. ASSUME info = None, connected \/ connect_fails
      PROVE  ClientInv'
    <2>1. /\ UNCHANGED <<gvars, head, info, asked>>
          /\ phase' = "AssetHub" => phase = "AssetHub"
        BY <1>2 DEF connected, connect_fails
    <2> QED
        BY <1>2, <2>1, ClientInvKept DEF ClientInv, Settled
<1>3. ASSUME info = None, on_opened
      PROVE  ClientInv'
    <2>1. UNCHANGED <<gvars, head, info, phase>>
        BY <1>3 DEF on_opened, Ask
    <2>2. phase = "AssetHub" => asked' = asked \cup {StateRequest(head)}
        BY <1>3 DEF on_opened, Ask
    <2> QED
        BY <1>3, <2>1, <2>2, ClientInvKept DEF ClientInv, Settled, StateRequest
<1>4. ASSUME info = None, on_connection_error \/ on_connection_end \/ on_response_error
      PROVE  ClientInv'
    <2>1. /\ UNCHANGED <<gvars, head, info>> /\ asked' = {}
          /\ phase' = "AssetHub" => phase = "AssetHub"
        BY <1>4 DEF on_connection_error, on_connection_end, on_response_error, Bail, Exit, Retry
    <2> QED
        BY <1>4, <2>1, ClientInvKept
<1>5. ASSUME info = None, NEW proof, on_para_head(proof)
      PROVE  ClientInv'
    <2>1. UNCHANGED <<gvars, info>> /\ asked' = {} /\ at = "Idle" /\ result = "None"
        BY <1>5 DEF on_para_head, StateAnswer, Waits, Leave, Retry
    <2>2. CASE phase' = "AssetHub"
        <3>1. head' = ParaHead[finalized_state_root]
            BY <1>5, <2>2 DEF on_para_head, Retry, verify_state_proof
        <3>2. finalized_state_root = state_root[finalized_hash]
            BY DEF IInv, FinalizedOnChain
        <3> QED
            BY <1>5, <2>1, <3>1, <3>2 DEF ClientInv, Settled, HeadFinal, gvars, state
    <2> QED
        BY <1>5, <2>1, <2>2 DEF ClientInv
<1>6. ASSUME info = None, NEW proof, on_account(proof)
      PROVE  ClientInv'
    <2>1. /\ UNCHANGED <<gvars, head>> /\ asked' = {} /\ conn' = "None" /\ at = "Idle"
          /\ result = "None" /\ phase = "AssetHub"
        BY <1>6 DEF on_account, StateAnswer, Waits, Leave, Retry
    <2>2. Settled' /\ HeadFinal'
        BY <2>1 DEF ClientInv, Settled, HeadFinal, gvars, state
    <2>3. info' # None => phase' = "Done" /\ info' = Account[ParaStateRoot[head]]
        BY <1>6 DEF on_account, Retry, verify_state_proof
    <2> QED
        BY <2>1, <2>2, <2>3 DEF ClientInv
<1> QED
    BY <1>1, <1>2, <1>3, <1>4, <1>5, <1>6, WarpSyncKeeps DEF ClientNext, OwnSteps, Events

\* The account that assethub-balance prints is the one under the head that a
\* final block of the relay chain names, whoever answered, however often it was
\* retried, and for every number of bootnodes, fragments and authorities.
THEOREM AccountTheorem == ClientSpec => []AccountIsFinal
<1>1. ClientInit => ClientInv
    BY DEF ClientInit, ClientInv
<1>2. IInv /\ ClientInv => AccountIsFinal
    BY DEF IInv, FinalizedOnChain, ClientInv, HeadFinal, AccountIsFinal
<1> QED
    BY <1>1, <1>2, ClientInvariance, ClientInvInductive, PTL DEF ClientSpec

=============================================================================
