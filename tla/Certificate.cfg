SPECIFICATION CertSpec
CONSTANTS
    Entries = {first, second}
    MaxEntryCycles = 2
    MaxFlattenCycles = 2
    PatienceCycles = 1
    MaxOthers = 1
    RunFaults = {"lost_ack", "throws", "torn_snapshot", "not_fenced", "denied", "append_fails"}
CHECK_DEADLOCK FALSE
PROPERTIES OneBatchAtATime UnhaltIsInformed PassIsTrue RecoveredIsTrue
