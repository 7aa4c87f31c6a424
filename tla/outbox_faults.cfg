SPECIFICATION Spec
CONSTANTS
    Rows = {r1, r2}
    People = {e1}
    Batches = {b1}
    NoBatch = none
    Passes = {p1, p2}
    MaxTrouble = 1
INVARIANTS
    OneMessagePerPass
    TellFirst
    MonthIsCurrent
PROPERTIES
    EveryRowSettles
    KeepsLedger
CHECK_DEADLOCK FALSE
