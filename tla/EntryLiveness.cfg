CONSTANTS
    first = first
    second = second
    NoId = NoId
    Orders = {first}
    Qty = 2
    Faults = {"crash", "append_fails", "read_fails", "unseen", "refused", "lost", "worse_fill"}
SPECIFICATION FairSpec
PROPERTY TruthReachesJournal
