SPECIFICATION FairSpec
CONSTANTS
    EpochMask = 99
    MaxEpoch = 3
    Thread = {t1}
    Rearmer = {t1}
    Evidence = TRUE
    AcceptTimeout = 1
    AckTimeout = 1
    StandstillTimeout = 2
    ReportPhase = {3, 6, 7, 9}
INVARIANT
    LanesAgree
PROPERTIES
    PhaseIsHonest
    KeepsLatchContract
    HaltIsTried
    HaltSettles
