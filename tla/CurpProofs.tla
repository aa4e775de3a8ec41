------------------------------ MODULE CurpProofs ------------------------------
(***************************************************************************)
(* What CurpNormal.cfg and CurpRecovery.cfg check on small instances,      *)
(* proved for any operations, keys, witnesses and clients and any number   *)
(* of proposals, crashes and recoveries.                                   *)
(***************************************************************************)
EXTENDS CurpSystem, FiniteSetTheorems, TLAPS

-----------------------------------------------------------------------------
(* Types *)

TypeInv ==
  /\ TypeOK
  /\ \A r \in RpcIds : accepted[r] <= recorded[r]

\* A call is of an operation.
LEMMA CallOp == \A c \in Calls : Op(c) \in RpcIds
  BY DEF Calls, Op

\* The requests of a witness are requests, and what it answers a recovery
\* with and does at that is of its type (witness.cpp:140-183).
LEMMA RecoveryTypes ==
  ASSUME NEW v \in WitnessState, NEW m
  PROVE  /\ RecoveryData(v, m) \subseteq [rpc_id : RpcIds, key : Keys]
         /\ AfterGetRecoveryData(v, m) \in WitnessState
         /\ AfterGetRecoveryData(v, m).rpc_ids = v.rpc_ids
PROOF
  <1>1. HeldRequests(v) \subseteq [rpc_id : RpcIds, key : Keys]
    BY DEF HeldRequests, HeldKeys, WitnessState
  <1>2. AfterGetRecoveryData(v, m) \in {v, AfterStop(v)}
    BY DEF AfterGetRecoveryData, AfterStop
  <1>3. AfterStop(v) \in WitnessState /\ AfterStop(v).rpc_ids = v.rpc_ids
    BY DEF AfterStop, WitnessState
  <1> QED
    BY <1>1, <1>2, <1>3 DEF RecoveryData

\* A record leaves the witness of its type and takes no request away; if it
\* is answered ACCEPTED, the request is there (witness.cpp:14-100).
LEMMA RecordTypes ==
  ASSUME NEW v \in WitnessState, NEW m \in MasterIds, NEW r \in RpcIds, NEW k \in Keys
  PROVE  /\ AfterRecord(v, m, r, k) \in WitnessState
         /\ v.rpc_ids \subseteq AfterRecord(v, m, r, k).rpc_ids
         /\ RecordVerdict(v, m, r, k) = "ACCEPTED"
              => r \in AfterRecord(v, m, r, k).rpc_ids
PROOF
  <1>1. CASE RecordVerdict(v, m, r, k) = "ACCEPTED" /\ r \notin v.rpc_ids
    <2> DEFINE u == AfterRecord(v, m, r, k)
    <2>1. u = [v EXCEPT !.records[k] = r, !.rpc_ids = @ \cup {r},
                        !.master_id = IF @ = NoMaster THEN m ELSE @]
      BY <1>1 DEF AfterRecord
    <2>2. u = [ master_id |-> IF v.master_id = NoMaster THEN m ELSE v.master_id,
                accepting |-> v.accepting,
                records |-> [v.records EXCEPT ![k] = r],
                rpc_ids |-> v.rpc_ids \cup {r} ]
      BY <2>1 DEF WitnessState
    <2>3. [v.records EXCEPT ![k] = r] \in [Keys -> RpcIds \cup {NoRpc}]
      BY DEF WitnessState
    <2> QED
      BY <2>2, <2>3 DEF WitnessState
  <1>2. CASE ~(RecordVerdict(v, m, r, k) = "ACCEPTED" /\ r \notin v.rpc_ids)
    BY <1>2 DEF AfterRecord
  <1> QED
    BY <1>1, <1>2

\* The client reads ACCEPTED only if the witness said so
\* (witness_service_impl.cpp:13-50, 160-190).
LEMMA AnswerSurvives ==
  ASSUME NEW result \in RecordResult,
         NEW seen \in OrFailed(ClientResult(RecordReply(result)), ClientResultOnRpcFailure),
         seen = "ACCEPTED"
  PROVE  result = "ACCEPTED"
  BY DEF OrFailed, ClientResult, RecordReply, RejectReason, ClientResultOnRpcFailure,
         RecordResult

LEMMA InitTypes == Init => TypeInv
PROOF
  <1> SUFFICES ASSUME Init PROVE TypeInv
    OBVIOUS
  <1> USE DEF Init, MasterInit
  <1>1. wit \in [Witnesses -> WitnessState]
    BY DEF NewWitness, AfterReset, WitnessState
  <1>2. /\ recorded \in [RpcIds -> 0..Len(WitnessAddrs)]
        /\ accepted \in [RpcIds -> 0..Len(WitnessAddrs)]
        /\ \A r \in RpcIds : accepted[r] <= recorded[r]
    BY ClientAssumption
  <1>3. recovers \in 0..MaxRecovers /\ restarts \in 0..MaxRestarts
    BY MasterAssumption
  <1> QED
    BY <1>1, <1>2, <1>3 DEF TypeInv, TypeOK, OpRecord

\* What do_sync leaves is of its type.
LEMMA DoSyncTypes ==
  ASSUME TypeInv, DoSync
  PROVE  /\ wit' \in [Witnesses -> WitnessState]
         /\ unsynced_ops' \subseteq OpRecord
         /\ unsynced_keys' \subseteq Keys
         /\ backup' \subseteq OpRecord
PROOF
  <1>1. AfterReset(MasterId) \in WitnessState
    BY MasterAssumption DEF AfterReset, WitnessState
  <1>2. CASE unsynced_ops = {}
    BY <1>2 DEF DoSync, TypeInv, TypeOK
  <1>3. CASE unsynced_ops # {}
    <2>1. wit' \in [Witnesses -> WitnessState]
      BY <1>1, <1>3 DEF DoSync, TypeInv, TypeOK
    <2> QED
      BY <1>3, <2>1 DEF DoSync, TypeInv, TypeOK
  <1> QED
    BY <1>2, <1>3

\* What Execute leaves is of its type.
LEMMA ExecuteTypes ==
  ASSUME TypeInv, NEW ops \in SUBSET OpRecord, Execute(ops)
  PROVE  /\ executed_ops' \subseteq RpcIds
         /\ unsynced_ops' \subseteq OpRecord
         /\ unsynced_keys' \subseteq Keys
         /\ applied' \in [RpcIds -> Nat]
PROOF
  <1>1. Ids(ops) \subseteq RpcIds /\ KeysOf(ops) \subseteq Keys
    BY MasterAssumption DEF Ids, KeysOf, OpRecord
  <1>2. \A r \in RpcIds : applied[r] + (IF r \in Ids(ops) THEN 1 ELSE 0) \in Nat
    <2>1. applied \in [RpcIds -> Nat]
      BY DEF TypeInv, TypeOK
    <2> QED BY <2>1
  <1> QED
    BY <1>1, <1>2 DEF Execute, TypeInv, TypeOK

\* The step of each action of the master, then of the clients.
LEMMA ProposeTypes ==
  ASSUME TypeInv, NEW c \in Calls, Propose(c)
  PROVE  TypeInv'
PROOF
  <1>1. CASE ProposeCheck(c)
    BY <1>1 DEF TypeInv, TypeOK, Propose, ProposeCheck, tables, control, clientVars
  <1>2. CASE ProposeDuplicate(c)
    BY <1>2 DEF TypeInv, TypeOK, Propose, ProposeDuplicate, tables, control, clientVars
  <1>3. CASE ProposeConflict(c)
    BY <1>3 DEF TypeInv, TypeOK, Propose, ProposeConflict, tables, control, clientVars
  <1>4. CASE ProposeFastPath(c)
    <2> DEFINE op == [rpc_id |-> Op(c), type |-> TypeOf[Op(c)]]
    <2>1. {op} \in SUBSET OpRecord
      BY CallOp, MasterAssumption DEF OpRecord
    <2>2. Execute({op})
      BY <1>4 DEF ProposeFastPath
    <2>3. /\ executed_ops' \subseteq RpcIds
          /\ unsynced_ops' \subseteq OpRecord
          /\ unsynced_keys' \subseteq Keys
          /\ applied' \in [RpcIds -> Nat]
      <3> HIDE DEF op
      <3> QED BY <2>1, <2>2, ExecuteTypes
    <2> QED
      BY <1>4, <2>3 DEF TypeInv, TypeOK, Propose, ProposeFastPath, control, clientVars
  <1> QED
    BY <1>1, <1>2, <1>3, <1>4 DEF Propose, ProposeRun

LEMMA ReadTypes ==
  ASSUME TypeInv, Read
  PROVE  TypeInv'
PROOF
  <1>1. /\ reader' \in {NoRead} \cup [at : {"success"}] \cup [at : {"checked"}, key : ReadKeys]
        /\ UNCHANGED <<wit, tables, control, worker, call, clientVars>>
    <2>1. ASSUME NEW k \in ReadKeys, ReadCheck(k)
          PROVE  /\ reader' \in {NoRead} \cup [at : {"checked"}, key : ReadKeys]
                 /\ UNCHANGED <<wit, tables, control, worker, call>>
      BY <2>1 DEF ReadCheck
    <2>2. CASE ReadRun
      <3>1. /\ reader' \in {NoRead, [at |-> "success"]}
            /\ UNCHANGED <<wit, tables, control, worker, call>>
        BY <2>2 DEF ReadRun
      <3> QED
        BY <3>1 DEF Read
    <2> QED
      BY <2>1, <2>2 DEF Read
  <1> QED
    BY <1>1 DEF TypeInv, TypeOK, tables, control, clientVars

LEMMA WorkerTypes ==
  ASSUME TypeInv, WorkerWake \/ WorkerSync, UNCHANGED clientVars
  PROVE  TypeInv'
PROOF
  <1>1. CASE WorkerWake
    BY <1>1 DEF WorkerWake, TypeInv, TypeOK, tables, control, clientVars
  <1>2. CASE WorkerSync
    <2>1. DoSync
      BY <1>2 DEF WorkerSync
    <2> QED
      BY <1>2, <2>1, DoSyncTypes DEF WorkerSync, TypeInv, TypeOK, control, clientVars
  <1> QED
    BY <1>1, <1>2

LEMMA RecoverTypes ==
  ASSUME TypeInv, Recover, UNCHANGED clientVars
  PROVE  TypeInv'
PROOF
  <1>1. CASE RecoverStart
    <2>1. recovers' \in 0..MaxRecovers
      <3>1. recovers \in 0..MaxRecovers
        BY DEF TypeInv, TypeOK
      <3> QED
        BY <1>1, <3>1, MasterAssumption DEF RecoverStart
    <2> QED
      BY <1>1, <2>1 DEF RecoverStart, TypeInv, TypeOK, tables, clientVars
  <1>2. CASE RecoverFetch
    <2>1. RecoverySource # NoWitness => RecoverySource \in Witnesses
      <3>1. local_witness \in LocalWitnesses
        BY DEF TypeInv, TypeOK
      <3>2. WitnessClients # <<>> => Head(WitnessClients) \in Witnesses
        BY MasterAssumption
      <3> QED
        BY <3>1, <3>2, MasterAssumption DEF RecoverySource
    <2>2. /\ wit' \in [Witnesses -> WitnessState]
          /\ fetched' \subseteq [rpc_id : RpcIds, key : Keys]
      <3>1. wit \in [Witnesses -> WitnessState]
        BY DEF TypeInv, TypeOK
      <3> DEFINE x == RecoverySource
      <3>2. \/ wit' = wit
            \/ x # NoWitness /\ wit' = [wit EXCEPT ![x] = AfterGetRecoveryData(@, MasterId)]
        BY <1>2 DEF RecoverFetch
      <3>3. \/ fetched' = {}
            \/ x # NoWitness /\ fetched' = RecoveryData(wit[x], MasterId)
        BY <1>2 DEF RecoverFetch
      <3> HIDE DEF x
      <3> QED
        BY <2>1, <3>1, <3>2, <3>3, RecoveryTypes DEF x
    <2> QED
      BY <1>2, <2>2 DEF RecoverFetch, TypeInv, TypeOK, tables, clientVars
  <1>3. CASE RecoverReplay
    <2> DEFINE ops == {[rpc_id |-> q.rpc_id, type |-> "PUT"] : q \in Replayable}
    <2>1. ops \in SUBSET OpRecord
      <3>1. fetched \subseteq [rpc_id : RpcIds, key : Keys]
        BY DEF TypeInv, TypeOK
      <3> QED
        BY <3>1 DEF Replayable, OpRecord
    <2>2. Execute(ops)
      BY <1>3 DEF RecoverReplay
    <2>3. /\ executed_ops' \subseteq RpcIds
          /\ unsynced_ops' \subseteq OpRecord
          /\ unsynced_keys' \subseteq Keys
          /\ applied' \in [RpcIds -> Nat]
      <3> HIDE DEF ops
      <3> QED BY <2>1, <2>2, ExecuteTypes
    <2> QED
      BY <1>3, <2>3 DEF RecoverReplay, TypeInv, TypeOK, clientVars
  <1>4. CASE RecoverNothingToSync
    BY <1>4 DEF RecoverNothingToSync, TypeInv, TypeOK, tables, clientVars
  <1>5. CASE RecoverEnterSync
    BY <1>5 DEF RecoverEnterSync, TypeInv, TypeOK, tables, clientVars
  <1>6. CASE RecoverFinish
    BY <1>6 DEF RecoverFinish, TypeInv, TypeOK, tables, clientVars
  <1> QED
    BY <1>1, <1>2, <1>3, <1>4, <1>5, <1>6 DEF Recover

LEMMA RestartTypes ==
  ASSUME TypeInv, Restart, UNCHANGED clientVars
  PROVE  TypeInv'
PROOF
  <1>1. restarts' \in 0..MaxRestarts
    <2>1. restarts \in 0..MaxRestarts
      BY DEF TypeInv, TypeOK
    <2> QED
      BY <2>1, MasterAssumption DEF Restart
  <1> QED
    BY <1>1 DEF Restart, TypeInv, TypeOK, clientVars

\* The witness a client turns to next is a witness.
LEMMA NextWitness ==
  ASSUME TypeInv, NEW r \in RpcIds, recorded[r] < Len(WitnessAddrs)
  PROVE  /\ recorded[r] \in Nat /\ Len(WitnessAddrs) \in Nat
         /\ recorded[r] + 1 \in DOMAIN WitnessAddrs
         /\ WitnessAddrs[recorded[r] + 1] \in Witnesses
PROOF
  <1>1. recorded[r] \in 0..Len(WitnessAddrs)
    BY DEF TypeInv, TypeOK
  <1> QED
    BY <1>1, ClientAssumption

(***************************************************************************)
(* What one turn of record_to_witnesses does: the counters stay in their   *)
(* bounds, no witness loses a request, and the count of acceptances goes   *)
(* up only if the witness asked holds the request afterwards.              *)
(***************************************************************************)
LEMMA RecordTurn ==
  ASSUME TypeInv, NEW r \in RpcIds, RecordToWitness(r)
  PROVE  LET x == WitnessAddrs[recorded[r] + 1] IN
         /\ wit' \in [Witnesses -> WitnessState]
         /\ \A y \in Witnesses : wit[y].rpc_ids \subseteq wit'[y].rpc_ids
         /\ \/ accepted' = accepted
            \/ /\ accepted' = [accepted EXCEPT ![r] = @ + 1]
               /\ r \in wit'[x].rpc_ids
         /\ recorded' = [recorded EXCEPT ![r] = @ + 1]
         /\ recorded[r] < Len(WitnessAddrs)
         /\ UNCHANGED <<tables, control, worker, call, reader, write>>
PROOF
  <1> DEFINE x == WitnessAddrs[recorded[r] + 1]
             after == IF wit[x].accepting
                      THEN AfterRecord(wit[x], ClientMasterId, r, KeyOf[r]) ELSE wit[x]
             result == IF wit[x].accepting
                       THEN RecordVerdict(wit[x], ClientMasterId, r, KeyOf[r])
                       ELSE "REJECTED_STOPPED"
  <1>1. /\ recorded[r] < Len(WitnessAddrs)
        /\ recorded' = [recorded EXCEPT ![r] = @ + 1]
        /\ UNCHANGED <<tables, control, worker, call, reader, write>>
    BY DEF RecordToWitness
  <1>2. x \in Witnesses
    BY <1>1, NextWitness
  <1>3. /\ wit \in [Witnesses -> WitnessState]
        /\ accepted \in [RpcIds -> 0..Len(WitnessAddrs)]
    BY DEF TypeInv, TypeOK
  <1>4. KeyOf[r] \in Keys /\ ClientMasterId \in MasterIds
    BY MasterAssumption, ClientAssumption
  <1>5. /\ after \in WitnessState
        /\ wit[x].rpc_ids \subseteq after.rpc_ids
        /\ result = "ACCEPTED" => r \in after.rpc_ids
    BY <1>2, <1>3, <1>4, RecordTypes
  <1>6. result \in RecordResult
    BY DEF RecordResult, RecordVerdict
  <1>7. \/ /\ wit' = [wit EXCEPT ![x] = after]
           /\ \E seen \in OrFailed(ClientResult(RecordReply(result)),
                                   ClientResultOnRpcFailure) :
                accepted' = [accepted EXCEPT ![r] = IF seen = "ACCEPTED" THEN @ + 1 ELSE @]
        \/ UNCHANGED <<wit, accepted>>
    BY DEF RecordToWitness
  <1> HIDE DEF x, after, result
  <1>8. CASE UNCHANGED <<wit, accepted>>
    BY <1>1, <1>3, <1>8 DEF x
  <1>9. ASSUME wit' = [wit EXCEPT ![x] = after],
               NEW seen \in OrFailed(ClientResult(RecordReply(result)),
                                     ClientResultOnRpcFailure),
               accepted' = [accepted EXCEPT ![r] = IF seen = "ACCEPTED" THEN @ + 1 ELSE @]
        PROVE  /\ wit' \in [Witnesses -> WitnessState]
               /\ \A y \in Witnesses : wit[y].rpc_ids \subseteq wit'[y].rpc_ids
               /\ \/ accepted' = accepted
                  \/ /\ accepted' = [accepted EXCEPT ![r] = @ + 1]
                     /\ r \in wit'[x].rpc_ids
    <2>1. seen = "ACCEPTED" => result = "ACCEPTED"
      BY <1>6, AnswerSurvives
    <2>2. wit'[x] = after
      BY <1>2, <1>3, <1>9
    <2>3. seen # "ACCEPTED" => accepted' = accepted
      BY <1>3, <1>9
    <2>4. wit' \in [Witnesses -> WitnessState]
      BY <1>2, <1>3, <1>5, <1>9
    <2>5. \A y \in Witnesses : wit[y].rpc_ids \subseteq wit'[y].rpc_ids
      BY <1>2, <1>3, <1>5, <1>9
    <2> QED
      BY <1>5, <1>9, <2>1, <2>2, <2>3, <2>4, <2>5
  <1> QED
    BY <1>1, <1>7, <1>8, <1>9 DEF x

LEMMA ClientTypes ==
  ASSUME TypeInv, NEW r \in RpcIds,
         WriteStart(r) \/ RecordToWitness(r) \/ WriteDecide(r)
  PROVE  TypeInv'
PROOF
  <1>1. CASE WriteStart(r)
    BY <1>1 DEF WriteStart, masterVars, tables, control, TypeInv, TypeOK
  <1>2. CASE RecordToWitness(r)
    <2>1. /\ wit' \in [Witnesses -> WitnessState]
          /\ accepted' = accepted \/ accepted' = [accepted EXCEPT ![r] = @ + 1]
          /\ recorded' = [recorded EXCEPT ![r] = @ + 1]
          /\ recorded[r] < Len(WitnessAddrs)
          /\ UNCHANGED <<tables, control, worker, call, reader, write>>
      BY <1>2, RecordTurn
    <2>2. /\ recorded \in [RpcIds -> 0..Len(WitnessAddrs)]
          /\ accepted \in [RpcIds -> 0..Len(WitnessAddrs)]
          /\ \A q \in RpcIds : accepted[q] <= recorded[q]
      BY DEF TypeInv, TypeOK
    <2>3. /\ recorded' \in [RpcIds -> 0..Len(WitnessAddrs)]
          /\ accepted' \in [RpcIds -> 0..Len(WitnessAddrs)]
          /\ \A q \in RpcIds : accepted'[q] <= recorded'[q]
      <3> DEFINE n == Len(WitnessAddrs)
      <3>1. n \in Nat
        BY ClientAssumption
      <3> HIDE DEF n
      <3>2. accepted[r] < n /\ recorded[r] + 1 \in 0..n
        BY <2>1, <2>2, <3>1 DEF n
      <3>3. recorded' \in [RpcIds -> 0..n]
        BY <2>1, <2>2, <3>2 DEF n
      <3>4. accepted' \in [RpcIds -> 0..n]
        <4>1. accepted[r] + 1 \in 0..n
          BY <2>2, <3>1, <3>2 DEF n
        <4> QED
          BY <2>1, <2>2, <4>1 DEF n
      <3>5. \A q \in RpcIds : accepted'[q] <= recorded'[q]
        BY <2>1, <2>2, <3>1 DEF n
      <3> QED
        BY <3>3, <3>4, <3>5 DEF n
    <2> QED
      BY <2>1, <2>3 DEF tables, control, TypeInv, TypeOK
  <1>3. CASE WriteDecide(r)
    <2>1. /\ \E w \in {"failed", "fast", "slow"} : write' = [write EXCEPT ![r] = w]
          /\ UNCHANGED <<masterVars, recorded, accepted>>
      BY <1>3 DEF WriteDecide, send_sync_to_master
    <2>2. write' \in [RpcIds -> {"idle", "waiting", "fast", "slow", "failed"}]
      BY <2>1 DEF TypeInv, TypeOK
    <2> QED
      BY <2>1, <2>2 DEF masterVars, tables, control, TypeInv, TypeOK
  <1> QED
    BY <1>1, <1>2, <1>3

LEMMA NextTypes == TypeInv /\ [Next]_vars => TypeInv'
PROOF
  <1> SUFFICES ASSUME TypeInv, [Next]_vars PROVE TypeInv'
    OBVIOUS
  <1>1. ASSUME NEW r \in RpcIds,
               WriteStart(r) \/ RecordToWitness(r) \/ WriteDecide(r)
        PROVE  TypeInv'
    BY <1>1, ClientTypes
  <1>2. ASSUME NEW c \in Calls, Propose(c) PROVE TypeInv'
    BY <1>2, ProposeTypes
  <1>3. CASE Read
    BY <1>3, ReadTypes
  <1>4. CASE MasterStep /\ UNCHANGED clientVars
    BY <1>4, WorkerTypes, RecoverTypes, RestartTypes DEF MasterStep
  <1>5. CASE UNCHANGED vars
    BY <1>5 DEF vars, masterVars, clientVars, tables, control, TypeInv, TypeOK
  <1> QED
    BY <1>1, <1>2, <1>3, <1>4, <1>5 DEF Next

\* Every variable of the master, its witnesses and the clients keeps its type.
THEOREM CurpTypeOK == Spec => []TypeOK
PROOF
  <1>1. TypeInv => TypeOK
    BY DEF TypeInv
  <1> QED
    BY <1>1, InitTypes, NextTypes, PTL DEF Spec
-----------------------------------------------------------------------------
(* The tables of the master *)

\* Operations are executed that were not executed before.
ExecuteStep ==
  \E ops \in SUBSET OpRecord :
    /\ Execute(ops) /\ backup' = backup
    /\ Ids(ops) \cap executed_ops = {}

\* The unsynced operations are synced.
SyncStep ==
  /\ backup' = backup \cup unsynced_ops
  /\ unsynced_ops' = {} /\ unsynced_keys' = {}
  /\ UNCHANGED <<executed_ops, applied>>

\* The process dies, and its tables with it.
LossStep ==
  /\ executed_ops' = {} /\ unsynced_ops' = {} /\ unsynced_keys' = {}
  /\ applied' = [r \in RpcIds |-> 0]
  /\ backup' = backup

\* There is no other way the tables change.
LEMMA TableStep ==
  ASSUME TypeInv, [Next]_vars
  PROVE  UNCHANGED tables \/ ExecuteStep \/ SyncStep \/ (Restart /\ LossStep)
PROOF
  <1>1. ASSUME NEW r \in RpcIds,
               WriteStart(r) \/ RecordToWitness(r) \/ WriteDecide(r)
        PROVE  UNCHANGED tables
    BY <1>1 DEF WriteStart, RecordToWitness, WriteDecide, masterVars
  <1>2. ASSUME NEW c \in Calls, Propose(c)
        PROVE  UNCHANGED tables \/ ExecuteStep
    <2>1. CASE ProposeFastPath(c)
      <3> DEFINE op == [rpc_id |-> Op(c), type |-> TypeOf[Op(c)]]
      <3>1. {op} \in SUBSET OpRecord
        BY CallOp, MasterAssumption DEF OpRecord
      <3>2. Execute({op}) /\ backup' = backup /\ Op(c) \notin executed_ops
        BY <2>1 DEF ProposeFastPath, is_executed
      <3>3. Ids({op}) = {Op(c)}
        BY DEF Ids
      <3> QED
        BY <3>1, <3>2, <3>3 DEF ExecuteStep
    <2> QED
      BY <1>2, <2>1 DEF Propose, ProposeCheck, ProposeRun, ProposeDuplicate, ProposeConflict
  <1>3. CASE Read
    BY <1>3 DEF Read, ReadCheck, ReadRun
  <1>4. CASE WorkerWake
    BY <1>4 DEF WorkerWake
  <1>5. CASE WorkerSync
    BY <1>5 DEF WorkerSync, DoSync, SyncStep, tables
  <1>6. CASE Recover
    <2>1. CASE RecoverReplay
      <3> DEFINE ops == {[rpc_id |-> q.rpc_id, type |-> "PUT"] : q \in Replayable}
      <3>1. fetched \subseteq [rpc_id : RpcIds, key : Keys]
        BY DEF TypeInv, TypeOK
      <3>2. ops \in SUBSET OpRecord
        BY <3>1 DEF Replayable, OpRecord
      <3>3. Ids(ops) \cap executed_ops = {}
        BY DEF Ids, Replayable, is_executed
      <3>4. Execute(ops) /\ backup' = backup
        BY <2>1 DEF RecoverReplay
      <3> HIDE DEF ops
      <3> QED
        BY <3>2, <3>3, <3>4 DEF ExecuteStep
    <2> QED
      BY <1>6, <2>1 DEF Recover, RecoverStart, RecoverFetch, RecoverNothingToSync,
                        RecoverEnterSync, RecoverFinish
  <1>7. CASE Restart
    BY <1>7 DEF Restart, LossStep
  <1>8. CASE UNCHANGED vars
    BY <1>8 DEF vars, masterVars
  <1> QED
    BY <1>1, <1>2, <1>3, <1>4, <1>5, <1>6, <1>7, <1>8 DEF Next, MasterStep

\* Nor is there another way than recover() or a new process for its state,
\* its lock and what recover() knows to change.
LEMMA ControlStep ==
  ASSUME [Next]_vars
  PROVE  UNCHANGED control \/ Recover \/ Restart
PROOF
  <1>1. ASSUME NEW r \in RpcIds,
               WriteStart(r) \/ RecordToWitness(r) \/ WriteDecide(r)
        PROVE  UNCHANGED control
    BY <1>1 DEF WriteStart, RecordToWitness, WriteDecide, masterVars
  <1>2. ASSUME NEW c \in Calls, Propose(c) PROVE UNCHANGED control
    BY <1>2 DEF Propose, ProposeCheck, ProposeRun, ProposeDuplicate, ProposeConflict,
                ProposeFastPath
  <1>3. CASE Read
    BY <1>3 DEF Read, ReadCheck, ReadRun
  <1>4. CASE WorkerWake \/ WorkerSync
    BY <1>4 DEF WorkerWake, WorkerSync
  <1>5. CASE UNCHANGED vars
    BY <1>5 DEF vars, masterVars
  <1> QED
    BY <1>1, <1>2, <1>3, <1>4, <1>5 DEF Next, MasterStep

(***************************************************************************)
(* The tables agree: an operation was executed as often as executed_ops    *)
(* says, at most once, and each executed operation is unsynced or synced.  *)
(***************************************************************************)
TablesInv ==
  /\ \A r \in RpcIds : /\ applied[r] <= 1
                       /\ applied[r] > 0 => r \in executed_ops
  /\ ExecutedIsUnsyncedOrSynced

LEMMA NextTables == TypeInv /\ TablesInv /\ [Next]_vars => TablesInv'
PROOF
  <1> SUFFICES ASSUME TypeInv, TablesInv, [Next]_vars PROVE TablesInv'
    OBVIOUS
  <1>0. /\ applied \in [RpcIds -> Nat]
        /\ \A r \in RpcIds : applied[r] <= 1 /\ (applied[r] > 0 => r \in executed_ops)
        /\ unsynced_ops \subseteq OpRecord
    BY DEF TypeInv, TypeOK, TablesInv
  <1>1. CASE UNCHANGED tables
    BY <1>1 DEF TablesInv, tables, ExecutedIsUnsyncedOrSynced
  <1>2. CASE ExecuteStep
    <2>1. PICK ops \in SUBSET OpRecord :
            /\ Execute(ops) /\ backup' = backup
            /\ Ids(ops) \cap executed_ops = {}
      BY <1>2 DEF ExecuteStep
    <2>2. \A r \in RpcIds : /\ applied'[r] <= 1
                            /\ applied'[r] > 0 => r \in executed_ops'
      BY <1>0, <2>1 DEF Execute
    <2>3. {e \in unsynced_ops : e.rpc_id \notin Ids(ops)} = unsynced_ops
      BY <2>1 DEF TablesInv, ExecutedIsUnsyncedOrSynced, Ids
    <2>4. unsynced_ops' = unsynced_ops \cup ops
      BY <2>1, <2>3 DEF Execute
    <2>5. /\ Ids(unsynced_ops)' = Ids(unsynced_ops) \cup Ids(ops)
          /\ KeysOf(unsynced_ops)' = KeysOf(unsynced_ops) \cup KeysOf(ops)
          /\ Ids(backup)' = Ids(backup)
      BY <2>1, <2>4 DEF Ids, KeysOf
    <2>6. /\ executed_ops' = executed_ops \cup Ids(ops)
          /\ unsynced_keys' = unsynced_keys \cup KeysOf(ops)
      BY <2>1 DEF Execute
    <2> QED
      BY <2>2, <2>5, <2>6 DEF TablesInv, ExecutedIsUnsyncedOrSynced
  <1>3. CASE SyncStep
    <2>1. /\ Ids(unsynced_ops)' = {}
          /\ KeysOf(unsynced_ops)' = {}
          /\ Ids(backup)' = Ids(backup) \cup Ids(unsynced_ops)
      BY <1>3 DEF SyncStep, Ids, KeysOf
    <2> QED
      BY <1>3, <2>1 DEF SyncStep, TablesInv, ExecutedIsUnsyncedOrSynced
  <1>4. CASE LossStep
    <2>1. Ids(unsynced_ops)' = {} /\ KeysOf(unsynced_ops)' = {}
      BY <1>4 DEF LossStep, Ids, KeysOf
    <2>2. \A r \in RpcIds : applied'[r] = 0
      BY <1>4 DEF LossStep
    <2> QED
      BY <1>4, <2>1, <2>2 DEF LossStep, TablesInv, ExecutedIsUnsyncedOrSynced
  <1> QED
    BY <1>1, <1>2, <1>3, <1>4, TableStep

\* The tables of the master agree in every reachable state.
LEMMA TablesAgree == Spec => [](TypeInv /\ TablesInv)
PROOF
  <1>1. Init => TablesInv
    BY DEF Init, MasterInit, TablesInv, ExecutedIsUnsyncedOrSynced, Ids, KeysOf
  <1> QED
    BY <1>1, InitTypes, NextTypes, NextTables, PTL DEF Spec

(***************************************************************************)
(* Within the life of a master process no operation is executed twice: not *)
(* by copies of its propose that race each other past the state test, nor  *)
(* by a replay (curp_master.cpp:65, 261).                                  *)
(***************************************************************************)
THEOREM NoDoubleExecution == Spec => []ExecutedAtMostOnce
PROOF
  <1>1. TablesInv => ExecutedAtMostOnce
    BY DEF TablesInv, ExecutedAtMostOnce
  <1> QED
    BY <1>1, TablesAgree, PTL

(***************************************************************************)
(* An operation leaves the unsynced table only by being synced, and the    *)
(* keys that refuse speculation are exactly the keys of that table         *)
(* (curp_master.cpp:320-323, 389-400).                                     *)
(***************************************************************************)
THEOREM NothingExecutedIsForgotten == Spec => []ExecutedIsUnsyncedOrSynced
PROOF
  <1>1. TablesInv => ExecutedIsUnsyncedOrSynced
    BY DEF TablesInv
  <1> QED
    BY <1>1, TablesAgree, PTL
-----------------------------------------------------------------------------
(* Recovery *)

\* What recover() fetched it executes, and what was executed before it
\* finishes is synced.
RecoveryInv ==
  /\ recovery \in {"sync", "do_sync", "finish"} => Ids(fetched) \subseteq executed_ops
  /\ RecoveredIsSynced

LEMMA NextRecovery ==
  TypeInv /\ TablesInv /\ RecoveryInv /\ [Next]_vars => RecoveryInv'
PROOF
  <1> SUFFICES ASSUME TypeInv, TablesInv, RecoveryInv, [Next]_vars PROVE RecoveryInv'
    OBVIOUS
  <1>1. CASE RecoverStart \/ RecoverFetch \/ RecoverFinish \/ Restart
    BY <1>1 DEF RecoverStart, RecoverFetch, RecoverFinish, Restart, RecoveryInv,
                RecoveredIsSynced
  <1>2. CASE RecoverReplay
    <2> DEFINE ops == {[rpc_id |-> q.rpc_id, type |-> "PUT"] : q \in Replayable}
    <2>1. Ids(fetched) \subseteq executed_ops \cup Ids(ops)
      <3>1. ASSUME NEW q \in fetched, q.rpc_id \notin executed_ops
            PROVE  q.rpc_id \in Ids(ops)
        <4>1. [rpc_id |-> q.rpc_id, type |-> "PUT"] \in ops
          BY <3>1 DEF Replayable, is_executed
        <4> HIDE DEF ops
        <4> QED
          BY <4>1 DEF Ids
      <3> HIDE DEF ops
      <3> QED
        BY <3>1 DEF Ids
    <2>2. /\ executed_ops' = executed_ops \cup Ids(ops)
          /\ recovery' = "sync" /\ fetched' = fetched
      BY <1>2 DEF RecoverReplay, Execute
    <2>3. Ids(fetched)' \subseteq executed_ops'
      BY <2>1, <2>2 DEF Ids
    <2> QED
      BY <2>2, <2>3 DEF RecoveryInv, RecoveredIsSynced
  <1>3. CASE RecoverNothingToSync
    <2>1. Ids(unsynced_ops) = {}
      BY <1>3 DEF RecoverNothingToSync, Ids
    <2>2. Ids(fetched) \subseteq Ids(backup) /\ Ids(fetched) \subseteq executed_ops
      BY <1>3, <2>1 DEF RecoverNothingToSync, RecoveryInv, TablesInv,
                        ExecutedIsUnsyncedOrSynced
    <2>3. Ids(fetched)' = Ids(fetched) /\ Ids(backup)' = Ids(backup)
          /\ executed_ops' = executed_ops
      BY <1>3 DEF RecoverNothingToSync, tables, Ids
    <2> QED
      BY <2>2, <2>3 DEF RecoveryInv, RecoveredIsSynced
  <1>4. CASE \/ UNCHANGED control
             \/ RecoverEnterSync
    <2>1. /\ fetched' = fetched
          /\ \/ recovery' = recovery
             \/ recovery' = "do_sync" /\ recovery = "sync"
      BY <1>4 DEF control, RecoverEnterSync
    <2>2. restarts' = restarts
      BY <1>4 DEF control, RecoverEnterSync
    <2>3. ~Restart
      <3>1. restarts \in 0..MaxRestarts
        BY DEF TypeInv, TypeOK
      <3> QED
        BY <2>2, <3>1, MasterAssumption DEF Restart
    <2>4. executed_ops \subseteq executed_ops' /\ Ids(backup) \subseteq Ids(backup)'
      BY <2>3, TableStep DEF tables, ExecuteStep, Execute, SyncStep, Ids
    <2>5. Ids(fetched)' = Ids(fetched)
      BY <2>1 DEF Ids
    <2> QED
      BY <2>1, <2>4, <2>5 DEF RecoveryInv, RecoveredIsSynced
  <1> QED
    BY <1>1, <1>2, <1>3, <1>4, ControlStep DEF Recover

(***************************************************************************)
(* recover() gives up RECOVERING only when every request it fetched is     *)
(* synced, whatever the worker and late proposals do meanwhile             *)
(* (curp_master.cpp:192-212).                                              *)
(***************************************************************************)
THEOREM RecoverySyncs == Spec => []RecoveredIsSynced
PROOF
  <1>1. Init => RecoveryInv
    BY DEF Init, MasterInit, RecoveryInv, RecoveredIsSynced
  <1>2. RecoveryInv => RecoveredIsSynced
    BY DEF RecoveryInv
  <1> QED
    BY <1>1, <1>2, TablesAgree, NextRecovery, PTL DEF Spec

(***************************************************************************)
(* A read that succeeds sees only durable data, although it tests the      *)
(* state before it locks (curp_master.cpp:130).                            *)
(***************************************************************************)
THEOREM DurableReads == Spec => ReadsAreDurable
PROOF
  <1>1. ASSUME TypeInv, TablesInv, [Next]_vars,
               reader.at = "checked", reader'.at = "success"
        PROVE  \A r \in executed_ops : KeyOf[r] = reader.key => r \in Ids(backup)
    <2>1. reader' # reader
      BY <1>1
    <2>2. \A r \in RpcIds :
            ~(WriteStart(r) \/ RecordToWitness(r) \/ WriteDecide(r))
      BY <2>1 DEF WriteStart, RecordToWitness, WriteDecide, masterVars
    <2>3. \A c \in Calls : ~Propose(c)
      BY <2>1 DEF Propose, ProposeCheck, ProposeRun, ProposeDuplicate, ProposeConflict,
                  ProposeFastPath
    <2>4. ~(WorkerWake \/ WorkerSync) /\ ~Recover
      BY <2>1 DEF WorkerWake, WorkerSync, Recover, RecoverStart, RecoverFetch,
                  RecoverReplay, RecoverNothingToSync, RecoverEnterSync, RecoverFinish
    <2>5. ~Restart
      BY <1>1 DEF Restart, NoRead
    <2>6. ~UNCHANGED vars
      BY <2>1 DEF vars, masterVars
    <2>7. ReadRun
      BY <1>1, <2>2, <2>3, <2>4, <2>5, <2>6 DEF Next, MasterStep, Read, ReadCheck
    <2>8. reader.key \notin unsynced_keys
      BY <1>1, <2>7 DEF ReadRun, NoRead
    <2>9. \A r \in executed_ops : KeyOf[r] = reader.key => r \notin Ids(unsynced_ops)
      BY <1>1, <2>8 DEF TablesInv, ExecutedIsUnsyncedOrSynced, KeysOf, Ids
    <2> QED
      BY <1>1, <2>9 DEF TablesInv, ExecutedIsUnsyncedOrSynced
  <1>2. TypeInv /\ TablesInv /\ [Next]_vars
          => [reader.at = "checked" /\ reader'.at = "success" =>
                \A r \in executed_ops : KeyOf[r] = reader.key => r \in Ids(backup)]_vars
    BY <1>1
  <1> QED
    BY <1>2, TablesAgree, PTL DEF Spec, ReadsAreDurable
-----------------------------------------------------------------------------
(* A master that has not recovered *)

\* recover() runs only after it was called.
IdleInv == recovers = 0 => recovery = "idle"

LEMMA NextIdle == TypeInv /\ IdleInv /\ [Next]_vars
                    => IdleInv' /\ (recovers' = 0 => recovers = 0 /\ ~Recover)
PROOF
  <1> SUFFICES ASSUME TypeInv, IdleInv, [Next]_vars
               PROVE  IdleInv' /\ (recovers' = 0 => recovers = 0 /\ ~Recover)
    OBVIOUS
  <1>1. recovers \in Nat
    <2>1. recovers \in 0..MaxRecovers
      BY DEF TypeInv, TypeOK
    <2> QED BY <2>1, MasterAssumption
  <1>2. CASE RecoverStart
    BY <1>1, <1>2 DEF RecoverStart, IdleInv
  <1>3. CASE \/ RecoverFetch \/ RecoverReplay \/ RecoverNothingToSync
             \/ RecoverEnterSync \/ RecoverFinish
    BY <1>3 DEF RecoverFetch, RecoverReplay, RecoverNothingToSync, RecoverEnterSync,
                RecoverFinish, IdleInv
  <1>4. CASE ~Recover /\ (UNCHANGED control \/ Restart)
    BY <1>4 DEF control, Restart, IdleInv
  <1> QED
    BY <1>2, <1>3, <1>4, ControlStep DEF Recover

\* The unsynced operations of a master that never recovered are on keys of
\* their own: speculation is refused on a key in use.
CommuteInv == recovers = 0 => UnsyncedCommute

LEMMA NextCommute ==
  TypeInv /\ TablesInv /\ IdleInv /\ CommuteInv /\ [Next]_vars => CommuteInv'
PROOF
  <1> SUFFICES ASSUME TypeInv, TablesInv, IdleInv, CommuteInv, [Next]_vars, recovers' = 0
               PROVE  UnsyncedCommute'
    BY DEF CommuteInv
  <1>1. UnsyncedCommute /\ ~Recover
    BY NextIdle DEF CommuteInv
  <1>2. CASE unsynced_ops' \subseteq unsynced_ops
    BY <1>1, <1>2 DEF UnsyncedCommute
  <1>3. ASSUME NEW c \in Calls, ProposeFastPath(c) PROVE UnsyncedCommute'
    <2> DEFINE op == [rpc_id |-> Op(c), type |-> TypeOf[Op(c)]]
    <2>1. unsynced_ops' \subseteq unsynced_ops \cup {op}
      BY <1>3 DEF ProposeFastPath, Execute
    <2>2. \A e \in unsynced_ops : KeyOf[e.rpc_id] # KeyOf[Op(c)]
      BY <1>3 DEF ProposeFastPath, can_speculative_execute, TablesInv,
                  ExecutedIsUnsyncedOrSynced, KeysOf
    <2>3. op.rpc_id = Op(c)
      OBVIOUS
    <2> HIDE DEF op
    <2> QED
      BY <1>1, <2>1, <2>2, <2>3 DEF UnsyncedCommute
  <1>4. ASSUME NEW r \in RpcIds,
               WriteStart(r) \/ RecordToWitness(r) \/ WriteDecide(r)
        PROVE  UNCHANGED tables
    BY <1>4 DEF WriteStart, RecordToWitness, WriteDecide, masterVars
  <1>5. ASSUME NEW c \in Calls, Propose(c)
        PROVE  UNCHANGED tables \/ ProposeFastPath(c)
    BY <1>5 DEF Propose, ProposeCheck, ProposeRun, ProposeDuplicate, ProposeConflict
  <1>6. CASE Read \/ WorkerWake
    <2>1. UNCHANGED tables
      BY <1>6 DEF Read, ReadCheck, ReadRun, WorkerWake
    <2> QED
      BY <1>2, <2>1 DEF tables
  <1>7. CASE WorkerSync
    BY <1>2, <1>7 DEF WorkerSync, DoSync
  <1>8. CASE Restart
    BY <1>2, <1>8 DEF Restart
  <1>9. CASE UNCHANGED tables
    BY <1>2, <1>9 DEF tables
  <1>10. CASE UNCHANGED vars
    BY <1>9, <1>10 DEF vars, masterVars
  <1> QED
    BY <1>1, <1>3, <1>4, <1>5, <1>6, <1>7, <1>8, <1>9, <1>10 DEF Next, MasterStep

(***************************************************************************)
(* The operations waiting to be synced commute, until a recovery replays   *)
(* what it was given without a test for conflicts                          *)
(* (doc/curp-algorithm.md:203, curp_master.cpp:258-283).                   *)
(***************************************************************************)
THEOREM UnsyncedOpsCommute == Spec => [](recovers = 0 => UnsyncedCommute)
PROOF
  <1>1. Init => IdleInv /\ CommuteInv
    BY DEF Init, MasterInit, IdleInv, CommuteInv, UnsyncedCommute
  <1>2. CommuteInv => (recovers = 0 => UnsyncedCommute)
    BY DEF CommuteInv
  <1> QED
    BY <1>1, <1>2, TablesAgree, NextIdle, NextCommute, PTL DEF Spec

(***************************************************************************)
(* What success rests on in a master that neither recovered nor restarted: *)
(* what is executed is in a table or synced as it was proposed, and an     *)
(* answer "success" is given for what is executed.                         *)
(***************************************************************************)
SuccessInv ==
  recovers = 0 /\ restarts = 0 =>
    /\ \A r \in executed_ops :
         [rpc_id |-> r, type |-> TypeOf[r]] \in unsynced_ops \cup backup
    /\ \A c \in Calls : call[c] = "success" => Op(c) \in executed_ops

LEMMA NextSuccess ==
  TypeInv /\ TablesInv /\ IdleInv /\ SuccessInv /\ [Next]_vars => SuccessInv'
PROOF
  <1> SUFFICES ASSUME TypeInv, TablesInv, IdleInv, SuccessInv, [Next]_vars,
                      recovers' = 0, restarts' = 0
               PROVE  /\ (\A r \in executed_ops :
                            [rpc_id |-> r, type |-> TypeOf[r]] \in unsynced_ops \cup backup)'
                      /\ (\A c \in Calls : call[c] = "success" => Op(c) \in executed_ops)'
    BY DEF SuccessInv
  <1>1. recovers = 0 /\ ~Recover
    BY NextIdle
  <1>2. ~Restart
    <2>1. restarts \in 0..MaxRestarts
      BY DEF TypeInv, TypeOK
    <2> QED
      BY <2>1, MasterAssumption DEF Restart
  <1>3. restarts = 0
    BY <1>1, <1>2, ControlStep DEF control
  <1>4. /\ \A r \in executed_ops :
             [rpc_id |-> r, type |-> TypeOf[r]] \in unsynced_ops \cup backup
        /\ \A c \in Calls : call[c] = "success" => Op(c) \in executed_ops
    BY <1>1, <1>3 DEF SuccessInv
  <1>5. call \in [Calls -> {"new", "checked", "success", "key conflict",
                            "recovering", "lost"}]
    BY DEF TypeInv, TypeOK
  <1>6. ASSUME NEW c \in Calls, Propose(c)
        PROVE  /\ (\A r \in executed_ops :
                     [rpc_id |-> r, type |-> TypeOf[r]] \in unsynced_ops \cup backup)'
               /\ \A d \in Calls : call'[d] = "success" => Op(d) \in executed_ops'
    <2>1. CASE ProposeFastPath(c)
      <3> DEFINE op == [rpc_id |-> Op(c), type |-> TypeOf[Op(c)]]
      <3>1. Ids({op}) = {Op(c)}
        BY DEF Ids
      <3>2. /\ executed_ops' = executed_ops \cup {Op(c)}
            /\ unsynced_ops' = {e \in unsynced_ops : e.rpc_id # Op(c)} \cup {op}
            /\ backup' = backup
            /\ call' = [call EXCEPT ![c] = "success"]
            /\ Op(c) \notin executed_ops
        BY <2>1, <3>1 DEF ProposeFastPath, Execute, is_executed
      <3>3. unsynced_ops' = unsynced_ops \cup {op}
        BY <3>2 DEF TablesInv, ExecutedIsUnsyncedOrSynced, Ids
      <3>4. \A d \in Calls : call'[d] = "success" => Op(d) \in executed_ops'
        BY <1>4, <1>5, <3>2
      <3>5. (\A r \in executed_ops :
               [rpc_id |-> r, type |-> TypeOf[r]] \in unsynced_ops \cup backup)'
        BY <1>4, <3>2, <3>3
      <3> QED
        BY <3>4, <3>5
    <2>2. CASE ProposeDuplicate(c)
      BY <1>4, <1>5, <2>2 DEF ProposeDuplicate, is_executed, tables
    <2>3. CASE ProposeCheck(c) \/ ProposeConflict(c)
      BY <1>4, <1>5, <2>3 DEF ProposeCheck, ProposeConflict, tables
    <2> QED
      BY <1>6, <2>1, <2>2, <2>3 DEF Propose, ProposeRun
  <1>7. CASE WorkerSync
    BY <1>4, <1>7 DEF WorkerSync, DoSync
  <1>8. CASE UNCHANGED <<tables, call>>
    BY <1>4, <1>8 DEF tables
  <1>9. ASSUME NEW r \in RpcIds, WriteStart(r) \/ RecordToWitness(r) \/ WriteDecide(r)
        PROVE  UNCHANGED <<tables, call>>
    BY <1>9 DEF WriteStart, RecordToWitness, WriteDecide, masterVars
  <1>10. CASE Read \/ WorkerWake \/ UNCHANGED vars
    BY <1>8, <1>10 DEF Read, ReadCheck, ReadRun, WorkerWake, vars, masterVars
  <1>11. CASE \E c \in Calls : Propose(c)
    BY <1>6, <1>11
  <1> QED
    BY <1>1, <1>2, <1>7, <1>8, <1>9, <1>10, <1>11 DEF Next, MasterStep

(***************************************************************************)
(* What a caller of propose was told to have succeeded the master executed *)
(* and has unsynced or synced as the operation proposed, also when the     *)
(* answer is to a copy of a propose that comes after the sync, as long as  *)
(* the master neither recovered nor restarted (curp_master.cpp:65-108).    *)
(***************************************************************************)
THEOREM SuccessfulProposesAreExecuted ==
  Spec => [](recovers = 0 /\ restarts = 0 => SuccessIsExecuted)
PROOF
  <1>1. Init => IdleInv /\ SuccessInv
    BY DEF Init, MasterInit, IdleInv, SuccessInv
  <1>2. TypeInv /\ SuccessInv => (recovers = 0 /\ restarts = 0 => SuccessIsExecuted)
    BY DEF SuccessInv, SuccessIsExecuted
  <1> QED
    BY <1>1, <1>2, TablesAgree, NextIdle, NextSuccess, PTL DEF Spec
-----------------------------------------------------------------------------
(* The fast path with remote witnesses *)

\* A write that all witnesses accepted so far is in each of those; one that
\* is done on the fast path was accepted by all there are.
FastInv ==
  /\ local_witness = NoWitness =>
       \A r \in RpcIds : accepted[r] = recorded[r] =>
         \A i \in 1..recorded[r] : r \in wit[WitnessAddrs[i]].rpc_ids
  /\ \A r \in RpcIds : write[r] = "fast" =>
       accepted[r] = Len(WitnessAddrs) /\ recorded[r] = Len(WitnessAddrs)

\* Without a local witness no witness ever loses a request: recovery only
\* stops a witness, and do_sync resets the local one only.
LEMMA WitnessesGrow ==
  ASSUME TypeInv, [Next]_vars, local_witness = NoWitness
  PROVE  /\ local_witness' = NoWitness
         /\ \A y \in Witnesses : wit[y].rpc_ids \subseteq wit'[y].rpc_ids
PROOF
  <1>1. wit \in [Witnesses -> WitnessState]
    BY DEF TypeInv, TypeOK
  <1>2. local_witness' = NoWitness
    BY ControlStep DEF control, Recover, RecoverStart, RecoverFetch, RecoverReplay,
         RecoverNothingToSync, RecoverEnterSync, RecoverFinish, Restart
  <1>3. CASE wit' = wit
    BY <1>2, <1>3
  <1>4. ASSUME NEW r \in RpcIds, RecordToWitness(r)
        PROVE  \A y \in Witnesses : wit[y].rpc_ids \subseteq wit'[y].rpc_ids
    BY <1>4, RecordTurn
  <1>5. CASE WorkerSync
    <2>1. \A y \in Witnesses : y # local_witness
      BY MasterAssumption
    <2>2. wit' = wit \/ wit' = [x \in Witnesses |->
                          IF x = local_witness THEN AfterReset(MasterId) ELSE wit[x]]
      BY <1>5 DEF WorkerSync, DoSync
    <2> QED
      BY <1>2, <2>1, <2>2
  <1>6. CASE RecoverFetch
    <2>1. wit' = wit \/ wit' = [wit EXCEPT ![RecoverySource] =
                                  AfterGetRecoveryData(@, MasterId)]
      BY <1>6 DEF RecoverFetch
    <2>2. \A y \in Witnesses : AfterGetRecoveryData(wit[y], MasterId).rpc_ids = wit[y].rpc_ids
      BY <1>1, RecoveryTypes
    <2> QED
      BY <1>1, <1>2, <2>1, <2>2
  <1>7. ASSUME NEW c \in Calls, Propose(c) PROVE wit' = wit
    BY <1>7 DEF Propose, ProposeCheck, ProposeRun, ProposeDuplicate, ProposeConflict,
                ProposeFastPath
  <1>8. CASE Read \/ WorkerWake \/ Restart \/ UNCHANGED vars
    BY <1>3, <1>8 DEF Read, ReadCheck, ReadRun, WorkerWake, Restart, vars, masterVars
  <1>9. ASSUME NEW r \in RpcIds, WriteStart(r) \/ WriteDecide(r)
        PROVE  wit' = wit
    BY <1>9 DEF WriteStart, WriteDecide, masterVars
  <1>10. CASE \/ RecoverStart \/ RecoverReplay \/ RecoverNothingToSync
              \/ RecoverEnterSync \/ RecoverFinish
    BY <1>3, <1>10 DEF RecoverStart, RecoverReplay, RecoverNothingToSync, RecoverEnterSync,
                       RecoverFinish
  <1> QED
    BY <1>2, <1>3, <1>4, <1>5, <1>6, <1>7, <1>8, <1>9, <1>10 DEF Next, MasterStep, Recover

LEMMA NextFast == TypeInv /\ FastInv /\ [Next]_vars => FastInv'
PROOF
  <1> SUFFICES ASSUME TypeInv, FastInv, [Next]_vars PROVE FastInv'
    OBVIOUS
  <1> DEFINE n == Len(WitnessAddrs)
  <1>1. /\ n \in Nat
        /\ \A i \in 1..n : WitnessAddrs[i] \in Witnesses
    BY ClientAssumption
  <1> HIDE DEF n
  <1>2. /\ recorded \in [RpcIds -> 0..n]
        /\ accepted \in [RpcIds -> 0..n]
        /\ \A q \in RpcIds : accepted[q] <= recorded[q]
        /\ write \in [RpcIds -> {"idle", "waiting", "fast", "slow", "failed"}]
    BY DEF TypeInv, TypeOK, n
  <1>3. local_witness' = NoWitness => local_witness = NoWitness
    BY ControlStep DEF control, Recover, RecoverStart, RecoverFetch, RecoverReplay,
         RecoverNothingToSync, RecoverEnterSync, RecoverFinish, Restart
  <1>4. CASE UNCHANGED <<recorded, accepted>>
    <2>1. ASSUME local_witness' = NoWitness, NEW r \in RpcIds,
                 accepted'[r] = recorded'[r], NEW i \in 1..recorded'[r]
          PROVE  r \in wit'[WitnessAddrs[i]].rpc_ids
      <3>1. i \in 1..n /\ i \in 1..recorded[r] /\ accepted[r] = recorded[r]
        BY <1>1, <1>2, <1>4, <2>1
      <3>2. r \in wit[WitnessAddrs[i]].rpc_ids
        BY <1>3, <2>1, <3>1 DEF FastInv
      <3> QED
        BY <1>1, <1>3, <2>1, <3>1, <3>2, WitnessesGrow
    <2>2. ASSUME NEW r \in RpcIds, write'[r] = "fast"
          PROVE  accepted[r] = n /\ recorded[r] = n
      <3>1. CASE write[r] = "fast"
        BY <3>1 DEF FastInv, n
      <3>2. ASSUME NEW q \in RpcIds, WriteStart(q)
            PROVE  write[r] = "fast"
        BY <1>2, <2>2, <3>2 DEF WriteStart
      <3>3. ASSUME NEW q \in RpcIds, WriteDecide(q), write[r] # "fast"
            PROVE  q = r /\ accepted[r] = n /\ recorded[r] = n
        BY <1>2, <2>2, <3>3 DEF WriteDecide, send_sync_to_master, n
      <3>4. CASE UNCHANGED write
        BY <2>2, <3>1, <3>4
      <3>5. ASSUME NEW c \in Calls, Propose(c) PROVE UNCHANGED write
        BY <3>5 DEF Propose, clientVars
      <3>6. ASSUME NEW q \in RpcIds, RecordToWitness(q) PROVE UNCHANGED write
        BY <3>6 DEF RecordToWitness
      <3>7. CASE Read \/ (MasterStep /\ UNCHANGED clientVars) \/ UNCHANGED vars
        BY <3>4, <3>7 DEF Read, clientVars, vars
      <3> QED
        BY <3>1, <3>2, <3>3, <3>4, <3>5, <3>6, <3>7 DEF Next
    <2> QED
      BY <1>4, <2>1, <2>2 DEF FastInv, n
  <1>5. ASSUME NEW r \in RpcIds, RecordToWitness(r) PROVE FastInv'
    <2> DEFINE x == WitnessAddrs[recorded[r] + 1]
    <2>1. /\ wit' \in [Witnesses -> WitnessState]
          /\ \A y \in Witnesses : wit[y].rpc_ids \subseteq wit'[y].rpc_ids
          /\ \/ accepted' = accepted
             \/ /\ accepted' = [accepted EXCEPT ![r] = @ + 1]
                /\ r \in wit'[x].rpc_ids
          /\ recorded' = [recorded EXCEPT ![r] = @ + 1]
          /\ recorded[r] < n
          /\ UNCHANGED <<tables, control, worker, call, reader, write>>
      BY <1>5, RecordTurn DEF n
    <2> HIDE DEF x
    <2>2. recorded[r] \in Nat /\ accepted[r] \in Nat /\ accepted[r] <= recorded[r]
      BY <1>1, <1>2
    <2>3. ASSUME local_witness' = NoWitness, NEW q \in RpcIds,
                 accepted'[q] = recorded'[q], NEW i \in 1..recorded'[q]
          PROVE  q \in wit'[WitnessAddrs[i]].rpc_ids
      <3>1. CASE q # r
        <4>1. accepted[q] = recorded[q] /\ i \in 1..recorded[q] /\ i \in 1..n
          BY <1>1, <1>2, <2>1, <2>3, <3>1
        <4> QED
          BY <1>1, <1>3, <2>1, <2>3, <4>1 DEF FastInv
      <3>2. CASE q = r
        <4>1. recorded'[r] = recorded[r] + 1
          BY <1>2, <2>1
        <4>2. accepted' # accepted
          BY <2>2, <2>3, <3>2, <4>1
        <4>3. accepted[r] = recorded[r] /\ r \in wit'[x].rpc_ids
          BY <1>2, <2>1, <2>2, <2>3, <3>2, <4>1, <4>2
        <4>4. CASE i = recorded[r] + 1
          BY <3>2, <4>3, <4>4 DEF x
        <4>5. CASE i # recorded[r] + 1
          <5>1. i \in 1..recorded[r] /\ i \in 1..n
            BY <1>1, <2>1, <2>2, <2>3, <3>2, <4>1, <4>5
          <5>2. r \in wit[WitnessAddrs[i]].rpc_ids
            BY <1>3, <2>3, <4>3, <5>1 DEF FastInv
          <5> QED
            BY <1>1, <2>1, <3>2, <5>1, <5>2
        <4> QED
          BY <4>4, <4>5
      <3> QED
        BY <3>1, <3>2
    <2>4. ASSUME NEW q \in RpcIds, write'[q] = "fast"
          PROVE  accepted'[q] = n /\ recorded'[q] = n
      <3>1. accepted[q] = n /\ recorded[q] = n
        BY <2>1, <2>4 DEF FastInv, n
      <3>2. q # r
        BY <1>1, <2>1, <3>1
      <3> QED
        BY <1>2, <2>1, <3>1, <3>2
    <2> QED
      BY <2>3, <2>4 DEF FastInv, n
  <1>6. ASSUME NEW r \in RpcIds, WriteStart(r) \/ WriteDecide(r)
        PROVE  UNCHANGED <<recorded, accepted>>
    BY <1>6 DEF WriteStart, WriteDecide
  <1>7. ASSUME NEW c \in Calls, Propose(c) PROVE UNCHANGED <<recorded, accepted>>
    BY <1>7 DEF Propose, clientVars
  <1>8. CASE Read \/ (MasterStep /\ UNCHANGED clientVars) \/ UNCHANGED vars
    BY <1>4, <1>8 DEF Read, clientVars, vars
  <1> QED
    BY <1>4, <1>5, <1>6, <1>7, <1>8 DEF Next

(***************************************************************************)
(* With remote witnesses alone, a write done on the fast path is in every  *)
(* witness, through lost answers, crashes of the master and recoveries     *)
(* (curp_master.cpp:196-205, 397-400, curp_client.cpp:286-299).            *)
(***************************************************************************)
THEOREM RemoteFastWritesAreDurable == Spec => []RemoteFastWriteIsDurable
PROOF
  <1>1. Init => FastInv
    BY DEF Init, MasterInit, FastInv
  <1>2. TypeInv /\ FastInv => RemoteFastWriteIsDurable
    <2>1. DOMAIN WitnessAddrs = 1..Len(WitnessAddrs)
      BY ClientAssumption
    <2> QED
      BY <2>1 DEF FastInv, RemoteFastWriteIsDurable, FastWriteIsDurable
  <1> QED
    BY <1>1, <1>2, InitTypes, NextTypes, NextFast, PTL DEF Spec
=============================================================================
