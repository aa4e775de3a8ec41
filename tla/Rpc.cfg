SPECIFICATION Spec
CONSTANTS
  Two32 = 4
  Registered = {"Raft", "WitnessService", "NodeService"}
  MaxSets = 3
  ScalarValues <- TwoValues
INVARIANTS
  HandlerSeesRequest
  ReportsOnlyAnswers
  RelayKeepsBytes
