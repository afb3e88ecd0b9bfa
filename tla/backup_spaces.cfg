\* A writer and the scheduler; two namespaces with a secret each, two writes, one fault.
SPECIFICATION Spec
CONSTANTS
    s1 = s1
    s2 = s2
    h1 = h1
    h1r = h1r
    h2 = h2
    c1 = c1
    c2 = c2
    p1 = p1
    None = None
    Clients = {c1}
    Writers = {c1}
    Spaces = {s1, s2}
    Default = s1
    Handles = {h1, h2}
    Home <- MCHome
    Writable = {h1, h2}
    Suffixed <- MCSuffixed
    Plans = {}
    Modes = {"newest_wins"}
    Threshold = 2
    IdleTicks = 1
    Interval = 1
    PlanTTL = 1
    MaxVer = 2
    MaxFaults = 1
INVARIANT BackupsSound
PROPERTY ChangesGetBackedUp
CHECK_DEADLOCK FALSE
