CONSTANTS
    agent = agent
    watchdog = watchdog
    NoOne = NoOne
    Instances <- MCInstances
    WriterLines = {}
    SafetyReasons = {}
    VirginEvidence = {FALSE}
    Witnesses <- MCInstances
    Faults = {"crash"}
    MaxEpoch = 3
    MaxJournal = 4
    MaxSends = 0
    MaxCrashes = 1
    MaxLosses = 0
SPECIFICATION FairSpec
PROPERTY ResetCompletes
CHECK_DEADLOCK FALSE
