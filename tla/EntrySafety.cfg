CONSTANTS
    first = first
    second = second
    NoId = NoId
    Orders <- MCOrders
    Qty = 2
    Faults = {"crash", "append_fails", "read_fails", "unseen", "refused", "lost", "worse_fill"}
SPECIFICATION Spec
SYMMETRY OrderSymmetry
INVARIANTS
    TypeOK
    ExposureCovered
    FoldNeverFails
PROPERTY NoEntryWhileUnclear
