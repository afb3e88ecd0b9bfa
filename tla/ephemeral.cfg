SPECIFICATION Spec
CONSTANTS
  Clients = {c1, c2}
  Tokens = {t1, t2}
  Files = {f1, f2}
  TokenTTL = 1
  FileTTL = 1
  Interval = 1
  Kinds = {"tmp", "fifo"}
  Faults = {"audit", "crash", "cancel"}
  None = None
INVARIANTS TokensSafe NothingLeftBehind RetentionBound
SYMMETRY Symmetric
