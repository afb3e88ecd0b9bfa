SPECIFICATION Spec
CONSTANTS
  r1 = r1  r2 = r2
  None = none  NoRow = norow
  Requests = {r1, r2}
  Notifiers = {"adapter", "fixture", "localhost", "terminal", "mock"}
  InitPolicies <- MCPolicies
  Programs <- MCPrograms
  Stored = {"low", "high"}
  Enrolled = {"hardware_token"}
  MaxSecrets = 2
  MaxFaults = 1
INVARIANTS ConfirmedByOperator AuditAgrees
PROPERTIES ImplementsAggregate
SYMMETRY SymmetricRequests
