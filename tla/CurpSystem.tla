------------------------------ MODULE CurpSystem ------------------------------
(***************************************************************************)
(* CurpMaster and its witnesses with those that use them.                  *)
(*                                                                         *)
(* CurpClient::parallel_write (curp_client.cpp) asks its CurpMasterClient  *)
(* to propose an operation and, at the same time, records it at every      *)
(* witness in turn, and decides from the answers whether the write is      *)
(* done.  CurpMasterClient is a stub: it answers that the operation was    *)
(* executed, or synced, and reaches no master.                             *)
(*                                                                         *)
(* The master itself is proposed to and read from by callers that have the *)
(* object: NodeController::master_propose and the tests.  What the two     *)
(* have in common are the witnesses, which the master resets and recovers  *)
(* from.                                                                   *)
(***************************************************************************)
EXTENDS CurpMaster

CONSTANTS
  ClientMasterId,   \* the master id clients record under; "master" in the code
  WitnessAddrs,     \* config_.witness_addrs, in order
  RpcFails          \* whether the RPCs of clients may fail

ASSUME ClientAssumption ==
  /\ ClientMasterId \in MasterIds
  /\ WitnessAddrs \in Seq(Witnesses)
  /\ RpcFails \in BOOLEAN

VARIABLES
  write,            \* where the write of each operation is, then its outcome
  recorded,         \* how many witnesses it has been sent to
  accepted          \* how many of them accepted

clientVars == <<write, recorded, accepted>>
vars == <<masterVars, clientVars>>

Init ==
  /\ MasterInit
  /\ write = [r \in RpcIds |-> "idle"]
  /\ recorded = [r \in RpcIds |-> 0]
  /\ accepted = [r \in RpcIds |-> 0]

\* CurpMasterClient::propose and sync: constant answers.
MasterClientPropose == [success |-> TRUE, fast_path |-> TRUE, need_sync |-> FALSE]
MasterClientSync == TRUE

\* What becomes of a write that has to be synced.
send_sync_to_master == IF MasterClientSync THEN "slow" ELSE "failed"

\* What a caller gets from an RPC: its answer, or what a failure reads as.
OrFailed(answer, failure) == IF RpcFails THEN {answer, failure} ELSE {answer}

\* Mutant: the count of acceptances starts with one for the master.
WriteStartCountsMaster(r) ==
  /\ write[r] = "idle"
  /\ write' = [write EXCEPT ![r] = "waiting"]
  /\ accepted' = [accepted EXCEPT ![r] = 1]
  /\ UNCHANGED <<masterVars, recorded>>

\* write() or deleteOp() up to the two futures of parallel_write.
WriteStart(r) ==
  /\ write[r] = "idle"
  /\ write' = [write EXCEPT ![r] = "waiting"]
  /\ UNCHANGED <<masterVars, recorded, accepted>>

\* A call of the master's propose, and copies of it that arrive later.
Propose(c) ==
  /\ ProposeCheck(c) \/ ProposeRun(c)
  /\ UNCHANGED clientVars

\* Mutant: a witness that refuses is asked again.
RecordToWitnessRetries(r) ==
  LET x == WitnessAddrs[recorded[r] + 1]
      before == wit[x]
      ok == before.accepting /\ RecordVerdict(before, ClientMasterId, r, KeyOf[r]) = "ACCEPTED"
  IN /\ write[r] # "idle" /\ recorded[r] < Len(WitnessAddrs)
     /\ wit' = [wit EXCEPT ![x] = IF ok THEN AfterRecord(@, ClientMasterId, r, KeyOf[r]) ELSE @]
     /\ accepted' = [accepted EXCEPT ![r] = IF ok THEN @ + 1 ELSE @]
     /\ recorded' = [recorded EXCEPT ![r] = IF ok THEN @ + 1 ELSE @]
     /\ UNCHANGED <<tables, control, worker, call, reader, write>>

(***************************************************************************)
(* One turn of the loop of record_to_witnesses.  The RPC may not reach the *)
(* witness, or its answer may not come back: both read REJECTED_STOPPED.   *)
(***************************************************************************)
RecordToWitness(r) ==
  LET x == WitnessAddrs[recorded[r] + 1]
      before == wit[x]
      after == IF before.accepting
               THEN AfterRecord(before, ClientMasterId, r, KeyOf[r]) ELSE before
      result == IF before.accepting
                THEN RecordVerdict(before, ClientMasterId, r, KeyOf[r])
                ELSE "REJECTED_STOPPED"
  IN /\ write[r] # "idle" /\ recorded[r] < Len(WitnessAddrs)
     /\ \/ /\ wit' = [wit EXCEPT ![x] = after]
           /\ \E seen \in OrFailed(ClientResult(RecordReply(result)),
                                   ClientResultOnRpcFailure) :
                accepted' = [accepted EXCEPT ![r] = IF seen = "ACCEPTED" THEN @ + 1 ELSE @]
        \/ RpcFails /\ UNCHANGED <<wit, accepted>>
     /\ recorded' = [recorded EXCEPT ![r] = @ + 1]
     /\ UNCHANGED <<tables, control, worker, call, reader, write>>

(***************************************************************************)
(* parallel_write has both answers: the stub's, which is there at once,    *)
(* and the number of acceptances.  success is tested before need_sync.     *)
(* The future of the witnesses is waited for in every case, at the latest  *)
(* by its destructor.                                                      *)
(***************************************************************************)
WriteDecide(r) ==
  /\ write[r] = "waiting"
  /\ recorded[r] = Len(WitnessAddrs)
  /\ write' = [write EXCEPT ![r] =
       IF ~MasterClientPropose.success THEN "failed"
       ELSE IF ~MasterClientPropose.need_sync /\ accepted[r] = Len(WitnessAddrs) THEN "fast"
       ELSE send_sync_to_master]
  /\ UNCHANGED <<masterVars, recorded, accepted>>

\* A call of the master's read.  CurpClient::read asks the stub and changes
\* nothing.
Read ==
  /\ (\E k \in ReadKeys : ReadCheck(k)) \/ ReadRun
  /\ UNCHANGED clientVars

Next ==
  \/ \E r \in RpcIds :
       WriteStart(r) \/ RecordToWitness(r) \/ WriteDecide(r)
  \/ \E c \in Calls : Propose(c)
  \/ Read
  \/ MasterStep /\ UNCHANGED clientVars

(***************************************************************************)
(* Fairness.  The worker wakes every 100 ms; a client's futures and a      *)
(* recover() that has been called go on running.  That anything is written *)
(* or proposed, a propose ends or recover() is called is not assumed.      *)
(***************************************************************************)
Fairness ==
  /\ WF_vars((WorkerWake \/ WorkerSync) /\ UNCHANGED clientVars)
  /\ \A r \in RpcIds : WF_vars(RecordToWitness(r) \/ WriteDecide(r))
  /\ WF_vars(/\ \/ RecoverFetch \/ RecoverReplay \/ RecoverNothingToSync
                \/ RecoverEnterSync \/ RecoverFinish
             /\ UNCHANGED clientVars)

Spec == Init /\ [][Next]_vars
FairSpec == Spec /\ Fairness
-----------------------------------------------------------------------------
TypeOK ==
  /\ wit \in [Witnesses -> WitnessState]
  /\ local_witness \in LocalWitnesses
  /\ curp_state \in {"NORMAL", "RECOVERING"}
  /\ mtx \in {"free", "recover"}
  /\ executed_ops \subseteq RpcIds
  /\ unsynced_ops \subseteq OpRecord
  /\ unsynced_keys \subseteq Keys
  /\ worker \in {"wait", "sync"}
  /\ recovery \in {"idle", "fetch", "replay", "sync", "do_sync", "finish"}
  /\ fetched \subseteq [rpc_id : RpcIds, key : Keys]
  /\ call \in [Calls -> {"new", "checked", "success", "key conflict",
                         "recovering", "lost"}]
  /\ reader \in {NoRead} \cup [at : {"success"}] \cup [at : {"checked"}, key : ReadKeys]
  /\ recovers \in 0..MaxRecovers /\ restarts \in 0..MaxRestarts
  /\ applied \in [RpcIds -> Nat]
  /\ backup \subseteq OpRecord
  /\ write \in [RpcIds -> {"idle", "waiting", "fast", "slow", "failed"}]
  /\ recorded \in [RpcIds -> 0..Len(WitnessAddrs)]
  /\ accepted \in [RpcIds -> 0..Len(WitnessAddrs)]

(***************************************************************************)
(* Within the life of a master process no operation is executed twice,     *)
(* however its propose is repeated, delayed past a sync or replayed from a *)
(* witness (curp_master.cpp:65, 261).                                      *)
(***************************************************************************)
ExecutedAtMostOnce == \A r \in RpcIds : applied[r] <= 1

(***************************************************************************)
(* The master forgets nothing it executed: an operation leaves the         *)
(* unsynced table only by being synced, and the keys that refuse           *)
(* speculation are exactly the keys of that table                          *)
(* (curp_master.cpp:320-323, 389-400).                                     *)
(***************************************************************************)
ExecutedIsUnsyncedOrSynced ==
  /\ executed_ops \subseteq Ids(unsynced_ops) \cup Ids(backup)
  /\ Ids(unsynced_ops) \subseteq executed_ops
  /\ unsynced_keys = KeysOf(unsynced_ops)

(***************************************************************************)
(* The operations waiting to be synced commute: no two are on one key      *)
(* (doc/curp-algorithm.md:203).                                            *)
(***************************************************************************)
UnsyncedCommute ==
  \A d, e \in unsynced_ops : KeyOf[d.rpc_id] = KeyOf[e.rpc_id] => d = e

(***************************************************************************)
(* A propose that was answered with success was executed and is waiting to *)
(* be synced, or synced, as the operation proposed: neither the answer to  *)
(* a copy that comes after the sync nor the one to a conflict says more    *)
(* than the tables bear out (curp_master.cpp:65-108).  For a master that   *)
(* has not recovered: a replay turns every operation into a PUT            *)
(* (curp_master.cpp:271).                                                  *)
(***************************************************************************)
SuccessIsExecuted ==
  \A c \in Calls : call[c] = "success" =>
    /\ Op(c) \in executed_ops
    /\ [rpc_id |-> Op(c), type |-> TypeOf[Op(c)]] \in unsynced_ops \cup backup

(***************************************************************************)
(* recover() gives up RECOVERING only when every request it fetched is     *)
(* synced, although the worker may run do_sync under its feet and          *)
(* proposals that passed the state test execute meanwhile                  *)
(* (curp_master.cpp:192-212).                                              *)
(***************************************************************************)
RecoveredIsSynced ==
  recovery = "finish" => Ids(fetched) \subseteq Ids(backup)

(***************************************************************************)
(* A read that succeeds sees only durable data: every operation on its key *)
(* that the master has executed is synced (curp_master.cpp:130).           *)
(***************************************************************************)
ReadsAreDurable ==
  [][reader.at = "checked" /\ reader'.at = "success" =>
       \A r \in executed_ops : KeyOf[r] = reader.key => r \in Ids(backup)]_vars

\* Every executed operation is synced in the end (curp_master.cpp:344-364).
EventuallySynced ==
  \A r \in RpcIds : r \in executed_ops ~> r \in Ids(backup)

\* Every write that is started comes to an answer (curp_client.cpp:163-308).
WritesReturn ==
  \A r \in RpcIds : write[r] = "waiting" ~> write[r] \in {"fast", "slow", "failed"}
-----------------------------------------------------------------------------
(* What documents and tests of the repository say and the code does not do. *)

\* dtest_recovery.cpp:184, "after recovery it should be back in NORMAL".
RecoveryReturns == curp_state = "RECOVERING" ~> curp_state = "NORMAL"

\* witness.h:60, "guarantees the durability of a request until it is
\* ordered": a write done on the fast path is synced or in every witness.
FastWriteIsDurable ==
  \A r \in RpcIds : write[r] = "fast" =>
    \/ r \in Ids(backup)
    \/ \A i \in DOMAIN WitnessAddrs : r \in wit[WitnessAddrs[i]].rpc_ids

(***************************************************************************)
(* It is so with remote witnesses alone, which no sync resets, through     *)
(* lost answers, a crash of the master and its recovery                    *)
(* (curp_master.cpp:196-205, 397-400, curp_client.cpp:286-299).            *)
(***************************************************************************)
RemoteFastWriteIsDurable == local_witness = NoWitness => FastWriteIsDurable
=============================================================================
