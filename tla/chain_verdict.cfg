SPECIFICATION Spec
CONSTANTS
    MaxLegacy = 1
    MaxAppends = 3
    MaxDamage = 2
INVARIANTS
    NoFalseAlarm IntactIsAuthored IntactIsAnchored ModesSound TailLossNamed
CHECK_DEADLOCK FALSE
