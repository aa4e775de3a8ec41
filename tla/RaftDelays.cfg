SPECIFICATION Spec
CONSTANTS
  n1 = n1
  n2 = n2
  n3 = n3
  Nodes = {n1, n2, n3}
  Nobody = Nobody
  MaxTerm <- TwoTerms
  MaxLogSize = 2
  MaxMsgs = 2
SYMMETRY MCSymmetry
CHECK_DEADLOCK FALSE
INVARIANTS
  TypeOK
  OneLeaderPerTerm
  MatchIndexIsTrue
PROPERTIES
  ImplementsCommittedLog
  NothingTakenBack
