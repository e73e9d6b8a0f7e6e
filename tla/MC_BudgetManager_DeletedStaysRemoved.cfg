\* Spec, proposal lifecycle: a proposal erased by a DELETE vote never
\* returns under the same hash.  Network messages only.
CONSTANTS
    p1 = p1
    p2 = p2
    m1 = m1
    m2 = m2
    Proposals <- MC_Proposals
    Masternodes <- MC_Masternodes
    BlockStart <- MC_BlockStart
    BlockEnd <- MC_BlockEnd
    SporkSigned <- MC_SporkSigned
    CollateralOK <- MC_CollateralOK
    TxHeight <- MC_TxHeight
    VoteMsgs <- MC_VoteMsgs
    RawVoteMsgs = {}
    FeeConfirmations = 2
    Cadence = 2
    VoteUpdateMin = 2
    FutureSlack = 1
    AskExpiry = 2
    VoteTimes = {0, 1, 2}
    LocalVoteValues = {}
    LocalMasternodes = {}
    LocalProposals = {}
    Churning = {m2}
    MaxHeight = 4
    MaxTime = 2
    MaxImmature = 2
    MaxRestarts = 0

SPECIFICATION Spec
INVARIANT DeletedStaysRemoved
