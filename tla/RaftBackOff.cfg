SPECIFICATION Spec
CONSTANTS
  n1 = n1
  n2 = n2
  n3 = n3
  Nodes = {n1, n2, n3}
  Nobody = Nobody
  MaxTerm <- ThreeTerms
  MaxLogSize = 3
  MaxMsgs = 1
SYMMETRY MCSymmetry
CHECK_DEADLOCK FALSE
INVARIANTS
  LogsMatch
  LeaderHasCommitted
  NextIndexInLog
