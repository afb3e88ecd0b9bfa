SPECIFICATION AgentSpec
CONSTANTS
  Conns = {c1}
  Others = {"reaper"}
  MaxStarts = 1
  MaxEntries = 2
  MaxFailed = 1
  MaxThreads = 1
INVARIANTS NoTornAlarm
PROPERTIES IdleSeals ShutdownEnds
CHECK_DEADLOCK FALSE
