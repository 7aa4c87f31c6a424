CONSTANTS
    Null = Null
    s1 = s1
    s2 = s2
    Slots = {s1, s2}
    Scenes <- AllOrders
    MaxMishaps = 1
SPECIFICATION Spec
INVARIANTS
    SheIsToldTheTruth
    TablesAreSound
    BookedEndInterviewed
PROPERTIES
    NoWayBack
    InvitationsAreRight
CHECK_DEADLOCK FALSE
