SPECIFICATION Spec
CONSTANTS
  c1 = c1
  c2 = c2
  Calls = {c1, c2}
  OpsOf <- MCOpsOf
  Literals <- MCLiterals
  Answers <- MCAnswers
  MaxBody = 2
  None = None
INVARIANTS TunnelsSound DialsScreened IdentityWhileNeeded
PROPERTIES IdentityRevoked
