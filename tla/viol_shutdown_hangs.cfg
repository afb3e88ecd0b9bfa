SPECIFICATION AgentSpec
CONSTANTS
  Conns = {c1}
  Others = {"reaper"}
  MaxStarts = 1
  MaxEntries = 2
  MaxFailed = 1
  MaxThreads = 1
PROPERTY ShutdownIsBounded
CHECK_DEADLOCK FALSE
