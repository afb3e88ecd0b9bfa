\* With -continue, TLC reports a violation of each of the invariants.
SPECIFICATION Spec
CONSTANTS
    c1 = c1
    c2 = c2
    c3 = c3
    Clients = {c1, c2}
    Issues <- AllWrite
    Faults = {"audit"}
    Retain = 2
    MaxCommands = 4
INVARIANTS OneActive DeletedStaysDeleted ChangesAudited ExcessPruned
