SPECIFICATION Spec
CONSTANTS
    c1 = c1
    c2 = c2
    c3 = c3
    Clients = {c1, c2, c3}
    Issues <- TwoWriters
    Faults = {"storage", "audit", "crash", "cancel"}
    Retain = 2
    MaxCommands = 5
SYMMETRY Symmetric
INVARIANTS
    StoreConsistent AckedKept
PROPERTIES HistoryKept ReadsCurrent
