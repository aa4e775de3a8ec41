SPECIFICATION FairSpec
CONSTANTS
  MasterIds = {"0", "master"}
  MasterId = "0"
  ClientMasterId = "master"
  NoMaster = NoMaster
  NoRpc = NoRpc
  r1 = r1
  r2 = r2
  r3 = r3
  k1 = k1
  k2 = k2
  x1 = x1
  x2 = x2
  RpcIds <- MCRpcIds
  Keys <- MCKeys
  KeyOf <- MCKeyOf
  TypeOf <- MCTypeOf
  kMaxRecords = 2
  Witnesses = {x1}
  LocalWitnesses = {x1}
  NoWitness = NoWitness
  WitnessClients <- NoClients
  WitnessAddrs <- OneAddr
  Attempts <- FirstTwice
  ReadKeys = {}
  RpcFails = TRUE
  MaxRecovers = 0
  MaxRestarts = 0
CHECK_DEADLOCK FALSE
INVARIANTS
  TypeOK
  ExecutedAtMostOnce
  UnsyncedCommute
  SuccessIsExecuted
PROPERTIES
  EventuallySynced
  WritesReturn
