\* One request at a time, both keystores, one failing call, four starts.
SPECIFICATION CustodySpec
CONSTANTS
    p1 = p1
    p2 = p2
    Procs = {p1}
    Backend = "auto"
    Passphrase = TRUE
    MaxKeys = 4
    MaxFaults = 1
    MaxBoots = 4
INVARIANTS SoleKeyHeld AckedKeyOpens RollbackSafe
CHECK_DEADLOCK FALSE
