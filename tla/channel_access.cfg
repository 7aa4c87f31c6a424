SPECIFICATION FairSpec
CONSTANTS
    Channel = "channel"
    Groups = {"group"}
    Scenes <- mcScenes
    MaxTurns = 3
    MaxTrouble = 1
INVARIANTS
    RevokedIsOut
    RegistryIsTrue
    LinksAreGood
PROPERTIES
    AccessFollowsEmployment
CHECK_DEADLOCK FALSE
