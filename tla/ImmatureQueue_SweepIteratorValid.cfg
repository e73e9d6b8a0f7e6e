\* The instance of ImmatureQueue.cfg, checking that no push_back
\* reallocates the vector under a running sweep.
CONSTANTS
    Proposals = {p1, p2}
    Malformed = {p2}
    FeeConfirmations = 2
    MaxSends = 4

SPECIFICATION Spec
INVARIANT SweepIteratorValid
CHECK_DEADLOCK FALSE
