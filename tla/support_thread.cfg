SPECIFICATION FairSpec
CONSTANTS
    Questions = {"q1", "q2", "a1"}
    Thanks = {"t1"}
    Albums = {"a1"}
    Reports = {"r1"}
    Scenes <- mcScenes
    MaxTurns = 2
    MaxFailures = 2
    MaxTrouble = 1
INVARIANTS
    
    NothingTwice
PROPERTIES
    EscalationIsKept
    LegacyIsSettled
CHECK_DEADLOCK FALSE
