SPECIFICATION Spec
CONSTANTS
  c1 = c1  c2 = c2  c3 = c3
  Clients = {c1, c2}
  NoClient = none
  Issues <- IssueAll
  Faults = {}
  Hangups = {c1, c2}
  MaxCommands = 4
INVARIANTS NeverOnLostTail
SYMMETRY Symmetric
