SPECIFICATION FairSpec
CONSTANTS
  c1 = c1  c2 = c2  c3 = c3
  Clients = {c1, c2}
  NoClient = none
  Issues <- IssueTwo
  Faults = {"storage", "keychain", "crash"}
  Hangups = {c1}
  MaxCommands = 4
INVARIANTS TypeOK ChainIntact HeadsDurable AckedDurable UnsealingOwned
PROPERTIES CommandsReturn
