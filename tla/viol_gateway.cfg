\* With -continue, TLC reports a violation of each of the invariants.
SPECIFICATION Spec
CONSTANTS
  s1 = s1
  Servers = {s1}
  Cli = Cli
  c1 = c1
  c2 = c2
  Calls = {c1, c2}
  ToolsOf <- MCToolsOf
  Raws <- MCRaws
  MaxCrashes = 0
  None = None
  Bad = Bad
INVARIANTS OwnKey RestoreConfirmed
