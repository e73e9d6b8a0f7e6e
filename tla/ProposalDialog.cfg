\* The proposal dialog with every -sporkkey setting, one fee confirmation,
\* a chain of four blocks and two dialog sessions.  Starts and ends include
\* a start at the tip, one above it, and an end before a start.
CONSTANTS
    FeeConfirmations = 1
    MaxHeight = 4
    MaxDialogs = 2
    Starts = {1, 3}
    Ends = {2, 3}
    SporkModes = {"none", "valid", "wrong"}
SPECIFICATION Spec
INVARIANTS
    TypeOK
