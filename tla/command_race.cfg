CONSTANTS
    Null = Null
    s1 = s1
    s2 = s2
    Slots = {s1}
    Scenes <- AllInvitations
    MaxMishaps = 1
    MaxTaps = 2
    MaxChanges = 1
SPECIFICATION FairSpecWaitlist
INVARIANTS
    TicksDoNotRepeat
PROPERTIES
    EverythingSettles
    OldWordsAreDead
CHECK_DEADLOCK FALSE
