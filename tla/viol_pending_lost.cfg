\* One client and the scheduler, one namespace; a write during a backup run.
SPECIFICATION Spec
CONSTANTS
    s1 = s1
    s2 = s2
    h1 = h1
    h1r = h1r
    h2 = h2
    c1 = c1
    c2 = c2
    p1 = p1
    None = None
    Clients = {c1}
    Writers = {c1}
    Spaces = {s1}
    Default = s1
    Handles = {h1}
    Home <- MCHome
    Writable = {h1}
    Suffixed <- MCSuffixed
    Plans = {}
    Modes = {}
    Threshold = 2
    IdleTicks = 1
    Interval = 1
    PlanTTL = 1
    MaxVer = 2
    MaxFaults = 0
INVARIANT PendingCounted
CHECK_DEADLOCK FALSE
