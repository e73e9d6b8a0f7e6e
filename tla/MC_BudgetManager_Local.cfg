\* The ledger with RPC votes cast by this node and one restart through
\* budget.dat, a spork proposal p2 whose window ends before it starts, next to a few network votes, blocks, clock and sync stages.
CONSTANTS
    p1 = p1
    p2 = p2
    m1 = m1
    m2 = m2
    Proposals <- MC_Proposals
    Masternodes <- MC_Masternodes
    BlockStart <- MC_BlockStart
    BlockEnd <- MC_BlockEndMalformed
    SporkSigned <- MC_SporkSigned
    CollateralOK <- MC_CollateralOK
    TxHeight <- MC_TxHeight
    VoteMsgs <- MC_FewVoteMsgs
    RawVoteMsgs <- MC_FewVoteMsgs
    FeeConfirmations = 1
    Cadence = 2
    VoteUpdateMin = 2
    FutureSlack = 0
    AskExpiry = 1
    VoteTimes = {0, 1}
    LocalVoteValues = {"YES", "DELETE"}
    LocalMasternodes = {m1}
    LocalProposals = {p2}
    Churning = {m2}
    MaxHeight = 3
    MaxTime = 1
    MaxImmature = 2
    MaxRestarts = 1

SPECIFICATION Spec
INVARIANT StoredVotesAuthentic
INVARIANT VotesRelayedBeforeSynced
PROPERTY LedgerRefined
