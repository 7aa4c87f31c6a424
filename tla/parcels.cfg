CONSTANTS
    ann = ann
    bea = bea
    c1 = c1
    c2 = c2
    Staff = {ann, bea}
    Cycles = {c1, c2}
    None = None
    Scenes <- mcScenes
    MaxMishaps = 1
    MaxRejections = 3
SPECIFICATION FairSpec
INVARIANTS
    ToldOnce
PROPERTIES
    NothingIsTakenBack
    HoldersAreRespected
    ParcelsAreSettled
CHECK_DEADLOCK FALSE
