CONSTANTS
    agent = agent
    watchdog = watchdog
    NoOne = NoOne
    Instances <- MCInstances
    WriterLines = {"BOOTSTRAP"}
    SafetyReasons = {}
    VirginEvidence = {TRUE, FALSE}
    Witnesses = {}
    Faults = {"crash", "absent", "unreadable"}
    MaxEpoch = 2
    MaxJournal = 4
    MaxSends = 1
    MaxCrashes = 1
    MaxLosses = 1
SPECIFICATION Spec
SYMMETRY InstanceSymmetry
CHECK_DEADLOCK FALSE
INVARIANTS
    TypeOK
    OneProcessPerEpoch
PROPERTY ResetNeedsHuman
