CONSTANTS
    Proposals = {1, 2, 3}
    Masternodes = {m1, m2}
    Name <- MCName
    BlockStart <- MCBlockStart
    BlockEnd <- MCBlockEnd
    FeeHash <- MCFeeHash
    Created <- MCCreated
    EstablishmentTime = 0
    EnabledCounts = {5, 10}
    MaxHeight = 3
    MaxTime = 2
SPECIFICATION Spec
INVARIANTS
    BudgetRanked
    FundedShownPositive
