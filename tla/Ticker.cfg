SPECIFICATION Spec
CONSTANTS
  HeartBeatTimeOut = 2
  MinElectTimeOut = 4
  MaxElectTimeOut = 5
  MaxThreads = 2
INVARIANTS
  LeaderBeats
PROPERTIES
  ExpiresInSilence
  StandsInTheEnd
  KilledEnds
