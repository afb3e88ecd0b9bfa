SPECIFICATION AgentSpec
CONSTANTS
  Conns = {c1}
  Others = {"reaper"}
  MaxStarts = 2
  MaxEntries = 2
  MaxFailed = 1
  MaxThreads = 1
INVARIANTS RequestsDrained
CHECK_DEADLOCK FALSE
