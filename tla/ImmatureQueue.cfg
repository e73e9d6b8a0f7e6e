\* Two proposals, one malformed, fee tx depth 2, four mprop deliveries.
\* A crashed node takes no further step, so deadlock is not checked.
CONSTANTS
    Proposals = {p1, p2}
    Malformed = {p2}
    FeeConfirmations = 2
    MaxSends = 4

SPECIFICATION FairSpec
INVARIANT TypeOK
PROPERTY SweepLeavesOnlyImmature
PROPERTY MatureBroadcastLeavesQueue
CHECK_DEADLOCK FALSE
