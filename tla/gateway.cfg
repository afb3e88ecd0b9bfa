SPECIFICATION Spec
CONSTANTS
  s1 = s1
  Servers = {s1}
  Cli = Cli
  c1 = c1
  c2 = c2
  Calls = {c1, c2}
  ToolsOf <- MCToolsOf
  Raws <- MCRaws
  MaxCrashes = 1
  None = None
  Bad = Bad
INVARIANTS BindingSound ConfirmedOnly AnswerIsTruthful
PROPERTIES CallsReturn
