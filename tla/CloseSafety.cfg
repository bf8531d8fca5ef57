SPECIFICATION Spec
CONSTANTS
    spread = spread
    long = long
    short = short
    Contracts <- MCContracts
    Structures <- MCStructures
    Legs <- MCLegs
    Books <- MCBooks
    Units = 1
    MaxGeneration = 1
    Faults = {"crash", "lost", "append_fails", "stale"}
INVARIANTS OneChildPerLifecycle
PROPERTIES NeverReverses
