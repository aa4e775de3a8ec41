SPECIFICATION CrashSpec
CONSTANTS
  n1 = n1
  n2 = n2
  n3 = n3
  Nodes = {n1, n2, n3}
  Nobody = Nobody
  MaxTerm <- OneTerm
  MaxLogSize = 1
  MaxMsgs = 1
  MaxRestarts = 1
CHECK_DEADLOCK FALSE
INVARIANT OneLeaderPerTerm
