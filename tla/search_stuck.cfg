CONSTANTS
    ann = ann
    bea = bea
    cat = cat
    r1 = r1
    r2 = r2
    l1 = l1
    l2 = l2
    early = early
    late = late
    urgent = urgent
    None = None
    Admin = Admin
    Worker = Worker
    ScheduleSync = ScheduleSync
    Requests = {r1}
    Staff = {ann, bea, cat}
    Locations = {l1}
    Waves = {early, late, urgent}
    UrgentWave = urgent
    Requester <- OneRequester
    LocationOf <- OneLocation
    InitialHolder <- OneHolder
    InitialLinked <- AllLinked
    Edits <- NoEdits
    WaveRank <- mcWaveRank
    CandidatesOf <- EarlyAsk
    NameRank <- mcNameRank
    StartAt = 4
    UrgentBefore = 2
    DayBefore = 9
    LongInterval = 2
    ShortInterval = 2
    RetryDelay = 1
    MaxAttempts = 2
    MaxTime = 6
    MaxCrashes = 1
    SlowCalls = FALSE
    Faults = {"delivery"}
SPECIFICATION FairSpec
PROPERTIES
    SearchEnds
CHECK_DEADLOCK FALSE
