CONSTANTS
    agent = agent
    watchdog = watchdog
    NoOne = NoOne
    Instances <- MCInstances
    WriterLines = {"BOOTSTRAP", "RUNNER", "KILL"}
    SafetyReasons = {"AUTH_FAILURE"}
    VirginEvidence = {TRUE, FALSE}
    Witnesses = {}
    Faults = {"crash", "write_fails", "flag_damaged"}
    MaxEpoch = 2
    MaxJournal = 3
    MaxSends = 1
    MaxCrashes = 1
    MaxLosses = 0
SPECIFICATION Spec
SYMMETRY InstanceSymmetry
VIEW WithoutClaims
CHECK_DEADLOCK FALSE
PROPERTIES
    NoEntryUnderHalt
    NoEntryAfterKill
    ImplementsInterlock
