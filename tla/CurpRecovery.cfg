SPECIFICATION Spec
CONSTANTS
  MasterIds = {"0", "master"}
  MasterId = "0"
  ClientMasterId = "0"
  NoMaster = NoMaster
  NoRpc = NoRpc
  r1 = r1
  r2 = r2
  r3 = r3
  k1 = k1
  k2 = k2
  x1 = x1
  x2 = x2
  RpcIds <- TwoRpcIds
  Keys <- MCKeys
  KeyOf <- TwoKeyOf
  TypeOf <- TwoTypeOf
  kMaxRecords = 2
  Witnesses = {x1, x2}
  LocalWitnesses = {x1, NoWitness}
  NoWitness = NoWitness
  WitnessClients <- TwoAddrs
  WitnessAddrs <- TwoAddrs
  Attempts <- Once
  ReadKeys = {k1}
  RpcFails = TRUE
  MaxRecovers = 1
  MaxRestarts = 1
CHECK_DEADLOCK FALSE
INVARIANTS
  ExecutedAtMostOnce
  ExecutedIsUnsyncedOrSynced
  RecoveredIsSynced
  RemoteFastWriteIsDurable
PROPERTIES
  ReadsAreDurable
