------------------------------ MODULE CurpMaster ------------------------------
(***************************************************************************)
(* curp::CurpMaster (curp_master.h, curp_master.cpp) with the witnesses it *)
(* is given: RPC handler threads in propose() and read(), the background   *)
(* thread sync_worker(), and recover().                                    *)
(*                                                                         *)
(* propose() and read() test the atomic curp_state_ before they lock       *)
(* curp_mtx_, so each is two steps.  Everything else that a thread does    *)
(* under curp_mtx_ is one step, for all other users of that state lock the *)
(* same mutex.  mtx is explicit because recover() calls do_sync(), which   *)
(* locks curp_mtx_, with curp_mtx_ already held: std::mutex is not         *)
(* recursive, and the thread waits for itself.                             *)
(*                                                                         *)
(* syncing_ is set and cleared inside one critical section of curp_mtx_    *)
(* and read inside another, so it always reads FALSE and is left out.      *)
(* sync() only notifies the worker, which wakes up without that as well.   *)
(***************************************************************************)
EXTENDS WitnessOps, Sequences

CONSTANTS
  KeyOf,            \* the key of each operation, named by its rpc id
  TypeOf,           \* its OpType, "PUT" or "DELETE_OP"
  MasterId,         \* std::to_string(cur_node_id)
  Witnesses,        \* the witness processes
  LocalWitnesses,   \* what set_local_witness may be given; NoWitness if it is not called
  NoWitness,
  WitnessClients,   \* those given to set_witness_clients, in order
  Attempts,         \* bound: how often each operation is proposed
  ReadKeys,         \* bound: the keys that are read
  MaxRecovers,      \* bound: calls of recover()
  MaxRestarts       \* bound: crashes of the master process

ASSUME MasterAssumption ==
  /\ KeyOf \in [RpcIds -> Keys]
  /\ TypeOf \in [RpcIds -> {"PUT", "DELETE_OP"}]
  /\ MasterId \in MasterIds
  /\ NoWitness \notin Witnesses
  /\ LocalWitnesses \subseteq Witnesses \cup {NoWitness}
  /\ WitnessClients \in Seq(Witnesses)
  /\ Attempts \in [RpcIds -> Nat \ {0}]
  /\ ReadKeys \subseteq Keys
  /\ MaxRecovers \in Nat /\ MaxRestarts \in Nat

VARIABLES
  wit,              \* the state of every witness
  local_witness,    \* local_witness_, set before the master serves
  curp_state,       \* curp_state_
  mtx,              \* who holds curp_mtx_ across steps: "recover" or "free"
  executed_ops,     \* the rpc ids that executed_ops_ maps to a result
  unsynced_ops,     \* unsynced_ops_, as [rpc_id, type]
  unsynced_keys,    \* unsynced_keys_
  worker,           \* where sync_worker is
  recovery,         \* where recover() is
  fetched,          \* the records recover() got from a witness
  call,             \* where each propose() call is, then what it returned
  reader,           \* where a read() call is, and of which key
  recovers, restarts, \* how often recover() was called, the master restarted
  \* History, read by the properties only.
  applied,          \* how often execute_op ran each operation in this process
  backup            \* the entries do_sync built, over all processes

tables == <<executed_ops, unsynced_ops, unsynced_keys, applied, backup>>
control == <<curp_state, mtx, recovery, fetched, recovers, restarts, local_witness>>
masterVars == <<wit, tables, control, worker, call, reader>>

Calls == UNION {{r} \X (1..Attempts[r]) : r \in RpcIds}
Op(c) == c[1]

OpRecord == [rpc_id : RpcIds, type : {"PUT", "DELETE_OP"}]

Ids(S) == {e.rpc_id : e \in S}
KeysOf(S) == {KeyOf[e.rpc_id] : e \in S}

NoRead == [at |-> "none"]

MasterInit ==
  /\ wit = [x \in Witnesses |-> NewWitness]
  /\ local_witness \in LocalWitnesses
  /\ curp_state = "NORMAL"
  /\ mtx = "free"
  /\ executed_ops = {}
  /\ unsynced_ops = {}
  /\ unsynced_keys = {}
  /\ worker = "wait"
  /\ recovery = "idle"
  /\ fetched = {}
  /\ call = [c \in Calls |-> "new"]
  /\ reader = NoRead
  /\ recovers = 0
  /\ restarts = 0
  /\ applied = [r \in RpcIds |-> 0]
  /\ backup = {}
-----------------------------------------------------------------------------
(* propose() and read() *)

is_executed(r) == r \in executed_ops

\* Mutant: speculation is never refused.
can_speculative_execute_always(k) == TRUE

\* Writes and reads alike wait for the unsynced operation on their key.
can_speculative_execute(k) == k \notin unsynced_keys

\* execute_op, record_executed and mark_unsynced for the operations of ops,
\* one after the other.  The map entry of an rpc id is overwritten.
Execute(ops) ==
  /\ executed_ops' = executed_ops \cup Ids(ops)
  /\ unsynced_ops' = {e \in unsynced_ops : e.rpc_id \notin Ids(ops)} \cup ops
  /\ unsynced_keys' = unsynced_keys \cup KeysOf(ops)
  /\ applied' = [r \in RpcIds |-> applied[r] + (IF r \in Ids(ops) THEN 1 ELSE 0)]

\* The test of curp_state_ comes before the lock.
ProposeCheck(c) ==
  /\ call[c] = "new"
  /\ call' = [call EXCEPT ![c] =
                IF curp_state = "RECOVERING" THEN "recovering" ELSE "checked"]
  /\ UNCHANGED <<wit, tables, control, worker, reader>>

\* The rest of propose(), under the lock.
ProposeDuplicate(c) ==
  /\ call[c] = "checked" /\ mtx = "free"
  /\ is_executed(Op(c))
  /\ call' = [call EXCEPT ![c] = "success"]
  /\ UNCHANGED <<wit, tables, control, worker, reader>>

\* Mutant: no test for a duplicate.
ProposeFastPathNoDedup(c) ==
  /\ call[c] = "checked" /\ mtx = "free"
  /\ can_speculative_execute(KeyOf[Op(c)])
  /\ Execute({[rpc_id |-> Op(c), type |-> TypeOf[Op(c)]]})
  /\ call' = [call EXCEPT ![c] = "success"]
  /\ UNCHANGED <<wit, backup, control, worker, reader>>

ProposeFastPath(c) ==
  /\ call[c] = "checked" /\ mtx = "free"
  /\ ~is_executed(Op(c))
  /\ can_speculative_execute(KeyOf[Op(c)])
  /\ Execute({[rpc_id |-> Op(c), type |-> TypeOf[Op(c)]]})
  /\ call' = [call EXCEPT ![c] = "success"]
  /\ UNCHANGED <<wit, backup, control, worker, reader>>

\* Mutant: success = true, as the client's test of need_sync expects it.
ProposeConflictSucceeds(c) ==
  /\ call[c] = "checked" /\ mtx = "free"
  /\ ~is_executed(Op(c))
  /\ ~can_speculative_execute(KeyOf[Op(c)])
  /\ call' = [call EXCEPT ![c] = "success"]
  /\ UNCHANGED <<wit, tables, control, worker, reader>>

\* The operation is not executed: {false, false, true, "key conflict"}.
ProposeConflict(c) ==
  /\ call[c] = "checked" /\ mtx = "free"
  /\ ~is_executed(Op(c))
  /\ ~can_speculative_execute(KeyOf[Op(c)])
  /\ call' = [call EXCEPT ![c] = "key conflict"]
  /\ UNCHANGED <<wit, tables, control, worker, reader>>

\* A read that was refused leaves nothing behind.
ReadCheck(k) ==
  /\ reader.at # "checked"
  /\ reader' = IF curp_state = "RECOVERING" THEN NoRead
               ELSE [at |-> "checked", key |-> k]
  /\ UNCHANGED <<wit, tables, control, worker, call>>

\* Mutant: unsynced_keys_ is not looked at.
ReadRunUnsynced ==
  /\ reader.at = "checked" /\ mtx = "free"
  /\ reader' = [at |-> "success"]
  /\ UNCHANGED <<wit, tables, control, worker, call>>

ReadRun ==
  /\ reader.at = "checked" /\ mtx = "free"
  /\ reader' = IF reader.key \in unsynced_keys THEN NoRead
               ELSE [at |-> "success"]
  /\ UNCHANGED <<wit, tables, control, worker, call>>
-----------------------------------------------------------------------------
(* sync_worker() *)

\* Mutant: unsynced_keys_ is not cleared.
DoSyncKeepKeys ==
  IF unsynced_ops = {}
  THEN UNCHANGED <<wit, unsynced_ops, unsynced_keys, backup>>
  ELSE /\ backup' = backup \cup unsynced_ops
       /\ unsynced_ops' = {}
       /\ wit' = [x \in Witnesses |->
                    IF x = local_witness THEN AfterReset(MasterId) ELSE wit[x]]
       /\ UNCHANGED unsynced_keys

\* Mutant: every witness is reset, not only the local one.
DoSyncResetAll ==
  IF unsynced_ops = {}
  THEN UNCHANGED <<wit, unsynced_ops, unsynced_keys, backup>>
  ELSE /\ backup' = backup \cup unsynced_ops
       /\ unsynced_ops' = {}
       /\ unsynced_keys' = {}
       /\ wit' = [x \in Witnesses |-> AfterReset(MasterId)]

(***************************************************************************)
(* do_sync(), its lock aside: nothing to do, or the unsynced operations    *)
(* become log entries, both tables are cleared and the local witness is    *)
(* reset for this master with everything it holds.  The entries are built  *)
(* and dropped ("simulated" sync, curp_master.cpp:388): backup stands for  *)
(* the log they would be appended to.                                      *)
(***************************************************************************)
DoSync ==
  IF unsynced_ops = {}
  THEN UNCHANGED <<wit, unsynced_ops, unsynced_keys, backup>>
  ELSE /\ backup' = backup \cup unsynced_ops
       /\ unsynced_ops' = {}
       /\ unsynced_keys' = {}
       /\ wit' = [x \in Witnesses |->
                    IF x = local_witness THEN AfterReset(MasterId) ELSE wit[x]]

\* Mutant: a single unsynced operation does not start a sync.
WorkerWakeOffByOne ==
  /\ worker = "wait" /\ mtx = "free"
  /\ Cardinality(unsynced_ops) > 1
  /\ curp_state = "NORMAL"
  /\ worker' = "sync"
  /\ UNCHANGED <<wit, tables, control, call, reader>>

\* The worker wakes up, by notification or after 100 ms, and unlocks before
\* it calls do_sync.
WorkerWake ==
  /\ worker = "wait" /\ mtx = "free"
  /\ unsynced_ops # {}
  /\ curp_state = "NORMAL"
  /\ worker' = "sync"
  /\ UNCHANGED <<wit, tables, control, call, reader>>

WorkerSync ==
  /\ worker = "sync" /\ mtx = "free"
  /\ DoSync
  /\ worker' = "wait"
  /\ UNCHANGED <<executed_ops, applied, control, call, reader>>
-----------------------------------------------------------------------------
(* recover() *)

RecoverStart ==
  /\ recovery = "idle" /\ recovers < MaxRecovers
  /\ curp_state' = "RECOVERING"
  /\ recovery' = "fetch"
  /\ recovers' = recovers + 1
  /\ UNCHANGED <<wit, tables, mtx, fetched, restarts, local_witness, worker, call, reader>>

\* The witness that recover() turns to.  The loop over witness_clients_
\* leaves after the first one, whatever became of it: get_recovery_data of
\* WitnessClient answers a failed RPC with no records and throws nothing.
RecoverySource ==
  IF local_witness # NoWitness THEN local_witness
  ELSE IF WitnessClients # <<>> THEN Head(WitnessClients) ELSE NoWitness

RecoverFetch ==
  /\ recovery = "fetch"
  /\ LET x == RecoverySource IN
     \/ /\ x = NoWitness
        /\ fetched' = {} /\ wit' = wit
     \/ /\ x # NoWitness
        /\ fetched' = RecoveryData(wit[x], MasterId)
        /\ wit' = [wit EXCEPT ![x] = AfterGetRecoveryData(@, MasterId)]
     \/ /\ x \notin {NoWitness, local_witness}      \* the answer is lost
        /\ fetched' = {}
        /\ wit' = [wit EXCEPT ![x] = AfterGetRecoveryData(@, MasterId)]
     \/ /\ x \notin {NoWitness, local_witness}      \* the witness is not reached
        /\ fetched' = {} /\ wit' = wit
  /\ recovery' = "replay"
  /\ UNCHANGED <<tables, curp_state, mtx, recovers, restarts, local_witness, worker, call,
                 reader>>

\* Mutant: executed records are replayed again.
ReplayableAll == fetched

\* replay_ops: every record not executed yet is executed as a PUT, whatever
\* the operation was, and without a test for a conflict on its key.
Replayable == {q \in fetched : ~is_executed(q.rpc_id)}

RecoverReplay ==
  /\ recovery = "replay" /\ mtx = "free"
  /\ Execute({[rpc_id |-> q.rpc_id, type |-> "PUT"] : q \in Replayable})
  /\ recovery' = "sync"
  /\ UNCHANGED <<wit, backup, curp_state, mtx, fetched, recovers, restarts, local_witness,
                 worker, call, reader>>

\* Mutant: recover() leaves its sync to the worker.
RecoverSkipsSync ==
  /\ recovery = "sync" /\ mtx = "free"
  /\ recovery' = "finish"
  /\ UNCHANGED <<wit, tables, curp_state, mtx, fetched, recovers, restarts, local_witness,
                 worker, call, reader>>

\* recover() locks curp_mtx_; with nothing unsynced it unlocks again ...
RecoverNothingToSync ==
  /\ recovery = "sync" /\ mtx = "free"
  /\ unsynced_ops = {}
  /\ recovery' = "finish"
  /\ UNCHANGED <<wit, tables, curp_state, mtx, fetched, recovers, restarts, local_witness,
                 worker, call, reader>>

\* ... and otherwise calls do_sync with the lock held.
RecoverEnterSync ==
  /\ recovery = "sync" /\ mtx = "free"
  /\ unsynced_ops # {}
  /\ mtx' = "recover"
  /\ recovery' = "do_sync"
  /\ UNCHANGED <<wit, tables, curp_state, fetched, recovers, restarts, local_witness, worker,
                 call, reader>>

RecoverFinish ==
  /\ recovery = "finish"
  /\ curp_state' = "NORMAL"
  /\ recovery' = "idle"
  /\ fetched' = {}
  /\ UNCHANGED <<wit, tables, mtx, recovers, restarts, local_witness, worker, call, reader>>

(***************************************************************************)
(* The master process dies and a new CurpMaster object is created with the *)
(* same witnesses.  It starts in NORMAL with empty tables, and serves      *)
(* before anyone calls recover(): recover_from_backup() restores nothing.  *)
(***************************************************************************)
Restart ==
  /\ restarts < MaxRestarts
  /\ restarts' = restarts + 1
  /\ curp_state' = "NORMAL"
  /\ mtx' = "free"
  /\ executed_ops' = {} /\ unsynced_ops' = {} /\ unsynced_keys' = {}
  /\ worker' = "wait"
  /\ recovery' = "idle" /\ fetched' = {}
  /\ call' = [c \in Calls |-> IF call[c] = "checked" THEN "lost" ELSE call[c]]
  /\ reader' = NoRead
  /\ applied' = [r \in RpcIds |-> 0]
  /\ UNCHANGED <<wit, recovers, backup, local_witness>>

ProposeRun(c) == ProposeDuplicate(c) \/ ProposeFastPath(c) \/ ProposeConflict(c)

Recover ==
  \/ RecoverStart \/ RecoverFetch \/ RecoverReplay
  \/ RecoverNothingToSync \/ RecoverEnterSync \/ RecoverFinish

MasterStep ==
  \/ WorkerWake \/ WorkerSync
  \/ Recover
  \/ Restart
=============================================================================
