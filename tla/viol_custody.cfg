\* One request at a time, two faults. With -continue, TLC reports a violation of each
\* of the invariants.
SPECIFICATION CustodySpec
CONSTANTS
    p1 = p1
    p2 = p2
    Procs = {p1}
    Backend = "file"
    Passphrase = TRUE
    MaxKeys = 4
    MaxFaults = 2
    MaxBoots = 4
INVARIANTS BackupCarriesItsKey NeverHalfInitialised
CHECK_DEADLOCK FALSE
