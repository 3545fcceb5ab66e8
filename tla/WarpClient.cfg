SPECIFICATION ClientSpec
CONSTANTS
    Header <- MCHeader
    number <- MCnumber
    parent_hash <- MCparent_hash
    logs <- MClogs
    state_root <- MCstate_root
    NoChange = NoChange
    U64 = 16
    MaxFragments = 2
    Rounds = {1, 2}
    Ancestries <- MCAncestries
    Precommit <- MCPrecommit
    Chain <- MCChain
    SetOf <- MCSetOf
    AuthoritiesOf <- MCAuthoritiesOf
    Faulty <- MCFaulty
    Votes <- MCVotes
    Program = {"warp-sync", "assethub"}
    Bootnodes = 2
    Reliable = {1}
    ParaHead <- MCParaHead
    ParaStateRoot <- MCParaStateRoot
    Account <- MCAccount
    BadProof = BadProof
    None = None
INVARIANTS FinalizedOnChain AuthoritiesInForce SignedWeightEarned AccountIsFinal
PROPERTIES FinalityExtends EventuallyAnswered
CHECK_DEADLOCK FALSE
