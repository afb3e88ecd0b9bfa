SPECIFICATION Spec
CONSTANTS
  c1 = c1  c2 = c2  c3 = c3
  Clients = {c1, c2}
  NoClient = none
  Issues <- IssueAll
  Faults = {"keychain"}
  Hangups = {}
  MaxCommands = 4
INVARIANTS KeyMatchesState
SYMMETRY Symmetric
