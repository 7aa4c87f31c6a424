CONSTANTS
    ann = ann
    bea = bea
    cat = cat
    r1 = r1
    r2 = r2
    l1 = l1
    l2 = l2
    early = early
    late = late
    urgent = urgent
    None = None
    Admin = Admin
    Worker = Worker
    ScheduleSync = ScheduleSync
    Requests = {r1, r2}
    Staff = {ann, bea, cat}
    Locations = {l1, l2}
    Waves = {early, late, urgent}
    UrgentWave = urgent
    Requester <- DayRequester
    LocationOf <- DayLocation
    InitialHolder <- DayHolder
    InitialLinked <- AllLinked
    Edits <- NoEdits
    WaveRank <- mcWaveRank
    CandidatesOf <- BeaAsk
    NameRank <- mcNameRank
    StartAt = 3
    UrgentBefore = 1
    DayBefore = 2
    LongInterval = 2
    ShortInterval = 1
    RetryDelay = 1
    MaxAttempts = 2
    MaxTime = 3
    MaxCrashes = 1
    SlowCalls = FALSE
    Faults = {}
SPECIFICATION FairSpec
INVARIANTS
    NoDoubleBooking
PROPERTIES
    SearchEnds
CHECK_DEADLOCK FALSE
