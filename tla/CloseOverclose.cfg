SPECIFICATION Spec
CONSTANTS
    spread = spread
    long = long
    short = short
    Contracts <- MCContracts
    Structures <- MCStructures
    Legs <- MCLegs
    Books <- MCBooks
    Units = 2
    MaxGeneration = 1
    Faults = {}
PROPERTIES NeverReverses
