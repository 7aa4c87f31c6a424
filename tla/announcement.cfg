SPECIFICATION FairSpec
CONSTANTS
    c1 = c1
    c2 = c2
    People = {c1, c2}
    Nobody = Nobody
    Scenes <- mcScenes
    MaxTries = 2
    MaxTrouble = 1
INVARIANTS
    EveryoneOnce
    AskedOnce
    EndIsKept
    AskedCanAnswer
PROPERTIES
    CommandsAreCarriedOut
CHECK_DEADLOCK FALSE
