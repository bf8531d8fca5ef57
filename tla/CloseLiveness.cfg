SPECIFICATION LiveSpec
CONSTANTS
    spread = spread
    long = long
    short = short
    Contracts <- MCContracts
    Structures <- MCStructures
    Legs <- MCLegs
    Books <- MCBooks
    Units = 1
    MaxGeneration = 1
    Faults = {"read_fails", "lost", "rejected", "expired", "no_price"}
PROPERTIES TruthReachesJournal EventuallyFlat
