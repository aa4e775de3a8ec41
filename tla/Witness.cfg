SPECIFICATION Spec
CONSTANTS
  MasterIds = {m1, m2}
  NoMaster = NoMaster
  NoRpc = NoRpc
  Free = Free
  Nothing = Nothing
  r1 = r1
  r2 = r2
  r3 = r3
  r4 = r4
  k1 = k1
  k2 = k2
  k3 = k3
  RpcIds <- MCRpcIds
  Keys <- MCKeys
  Requests <- MCRequests
  kMaxRecords = 2
  Threads = {t1, t2, t3}
SYMMETRY MCSymmetry
INVARIANTS
  TypeOK
  RpcIdsMatchRecords
  AcceptedIsHeld
  RecoveryDataIsComplete
  StopCountIsFinal
  WithinCapacity
  ServedToOwnMaster
PROPERTIES
  NoOverwrite
