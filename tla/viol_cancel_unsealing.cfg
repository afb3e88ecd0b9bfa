SPECIFICATION FairSpec
CONSTANTS
  c1 = c1  c2 = c2  c3 = c3
  Clients = {c1}
  NoClient = none
  Issues <- IssueAll
  Faults = {}
  Hangups = {c1}
  MaxCommands = 3
PROPERTIES UnsealingResolves
