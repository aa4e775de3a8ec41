------------------------------- MODULE Witness -------------------------------
(***************************************************************************)
(* One curp::Witness behind its gRPC service (witness.cpp and              *)
(* witness_service_impl.cpp), called by several handler threads at a time. *)
(*                                                                         *)
(* Every method holds mtx_ for its whole body, so each is one step, with   *)
(* two exceptions.  stop_accepting() stores the atomic accepting_ without  *)
(* the mutex, so it can fall between the test of accepting_ in record()    *)
(* and the insertion: record() is two steps and the mutex is explicit.     *)
(* The Stop handler calls stop_accepting() and then get_status(), which    *)
(* does lock: two steps as well.                                           *)
(***************************************************************************)
EXTENDS WitnessOps

CONSTANTS
  Threads,      \* gRPC handler threads
  Free,         \* mtx_ is not held
  Requests,     \* the requests clients issue, as [rpc_id, key]
  Nothing       \* no value

ASSUME ServiceAssumption ==
  /\ Requests \subseteq [rpc_id : RpcIds, key : Keys]
  /\ Free \notin Threads

VARIABLES
  w,            \* the Witness object
  mtx,          \* the thread inside record(), or Free
  pc,           \* where each handler thread is
  arg,          \* the arguments of its call
  \* History, read by the properties only.
  owner,        \* the master id under which each key's request was stored
  promised,     \* requests whose client was told ACCEPTED, less those that
                \* were collected by their owner; emptied by a reset
  handed,       \* the last recovery answer since the reset, or Nothing
  undone,       \* threads inside Stop whose stop a reset has undone
  finalCount    \* request_count of the last Stop answer since the reset

vars == <<w, mtx, pc, arg, owner, promised, handed, undone, finalCount>>
history == <<owner, promised, handed, undone, finalCount>>

\* What a caller may give as master_id: proto3 reads a field that was not set
\* as the empty string, and no handler refuses that.
CallerIds == MasterIds \cup {NoMaster}

Calls == [master_id : CallerIds, req : Requests]

\* A client's request ids are unique: RIFL gives each request its own.
UniqueIds == \A p, q \in Requests : p.rpc_id = q.rpc_id => p = q

Init ==
  /\ w = NewWitness
  /\ mtx = Free
  /\ pc = [t \in Threads |-> "idle"]
  /\ arg = [t \in Threads |-> Nothing]
  /\ owner = [k \in Keys |-> NoMaster]
  /\ promised = {}
  /\ handed = Nothing
  /\ undone = {}
  /\ finalCount = Nothing

(***************************************************************************)
(* record().  RecordEnter takes mtx_ and reads accepting_; if it is FALSE  *)
(* the call returns REJECTED_STOPPED and leaves nothing behind.            *)
(***************************************************************************)
RecordEnter(t, c) ==
  /\ pc[t] = "idle"
  /\ mtx = Free
  /\ w.accepting
  /\ mtx' = t
  /\ pc' = [pc EXCEPT ![t] = "record"]
  /\ arg' = [arg EXCEPT ![t] = c]
  /\ UNCHANGED <<w, history>>

\* The rest of record(), and the answer on its way to the client.  The RPC
\* may fail after the witness has done its part.
RecordFinish(t) ==
  LET m == arg[t].master_id
      q == arg[t].req
      result == RecordVerdict(w, m, q.rpc_id, q.key)
  IN /\ pc[t] = "record"
     /\ w' = AfterRecord(w, m, q.rpc_id, q.key)
     /\ \E seen \in {ClientResult(RecordReply(result)), ClientResultOnRpcFailure} :
          promised' = IF seen = "ACCEPTED" THEN promised \cup {q} ELSE promised
     /\ owner' = [k \in Keys |->
                    IF w'.records[k] # w.records[k] THEN m ELSE owner[k]]
     /\ mtx' = Free
     /\ pc' = [pc EXCEPT ![t] = "idle"]
     /\ arg' = [arg EXCEPT ![t] = Nothing]
     /\ UNCHANGED <<handed, undone, finalCount>>

\* The master drops what it has synced.  The entries may be old, repeated
\* or about requests the witness never stored.  A request that was recorded
\* under no master id has no owner whose collection to wait for.
GarbageCollect(m, entries) ==
  /\ mtx = Free
  /\ w' = AfterGarbageCollect(w, m, entries)
  /\ promised' = promised \ {q \in entries : owner[q.key] \in {m, NoMaster}}
  /\ UNCHANGED <<mtx, pc, arg, owner, handed, undone, finalCount>>

GetRecoveryData(m) ==
  /\ mtx = Free
  /\ w' = AfterGetRecoveryData(w, m)
  /\ handed' = IF WrongMaster(w, m) THEN handed ELSE RecoveryData(w, m)
  /\ UNCHANGED <<mtx, pc, arg, owner, promised, undone, finalCount>>

\* The Stop handler: stop_accepting() does not wait for mtx_ ...
StopAccepting(t) ==
  /\ pc[t] = "idle"
  /\ w' = AfterStop(w)
  /\ pc' = [pc EXCEPT ![t] = "stop"]
  /\ undone' = undone \ {t}
  /\ UNCHANGED <<mtx, arg, owner, promised, handed, finalCount>>

\* Mutant: get_status() does not wait for mtx_ either.
StopStatusUnlocked(t) ==
  /\ pc[t] = "stop"
  /\ finalCount' = IF t \in undone THEN finalCount ELSE size(w)
  /\ pc' = [pc EXCEPT ![t] = "idle"]
  /\ UNCHANGED <<w, mtx, arg, owner, promised, handed, undone>>

\* ... and get_status() does; its request_count is the answer.
StopStatus(t) ==
  /\ pc[t] = "stop"
  /\ mtx = Free
  /\ finalCount' = IF t \in undone THEN finalCount ELSE size(w)
  /\ pc' = [pc EXCEPT ![t] = "idle"]
  /\ UNCHANGED <<w, mtx, arg, owner, promised, handed, undone>>

Reset(new_master_id) ==
  /\ mtx = Free
  /\ w' = AfterReset(new_master_id)
  /\ owner' = [k \in Keys |-> NoMaster]
  /\ promised' = {}
  /\ handed' = Nothing
  /\ undone' = {t \in Threads : pc[t] = "stop"}
  /\ finalCount' = Nothing
  /\ UNCHANGED <<mtx, pc, arg>>

Next ==
  \/ \E t \in Threads :
       \/ \E c \in Calls : RecordEnter(t, c)
       \/ RecordFinish(t)
       \/ StopAccepting(t)
       \/ StopStatus(t)
  \/ \E m \in CallerIds, entries \in SUBSET Requests : GarbageCollect(m, entries)
  \/ \E m \in CallerIds : GetRecoveryData(m)
  \/ \E m \in CallerIds : Reset(m)

Spec == Init /\ [][Next]_vars
-----------------------------------------------------------------------------
TypeOK ==
  /\ w \in WitnessState
  /\ mtx \in Threads \cup {Free}
  /\ pc \in [Threads -> {"idle", "record", "stop"}]
  /\ arg \in [Threads -> Calls \cup {Nothing}]
  /\ owner \in [Keys -> CallerIds]
  /\ promised \subseteq Requests
  /\ handed = Nothing \/ handed \subseteq Requests
  /\ undone \subseteq Threads
  /\ finalCount = Nothing \/ finalCount \in Nat

(***************************************************************************)
(* records_ and rpc_ids_ agree through every record, collection and reset: *)
(* the fast duplicate test sees exactly the ids stored, and no id is       *)
(* stored under two keys (witness.cpp:58-81, 123-130, 209-210).            *)
(***************************************************************************)
RpcIdsMatchRecords ==
  /\ w.rpc_ids = {w.records[k] : k \in HeldKeys(w)}
  /\ \A k, l \in HeldKeys(w) : w.records[k] = w.records[l] => k = l

(***************************************************************************)
(* A request whose client was told ACCEPTED stays in the witness until its *)
(* own master collects exactly it or a reset comes: no conflicting record, *)
(* stale collection or foreign master displaces it.  One recorded under    *)
(* the empty master id stays until anybody collects exactly it.            *)
(***************************************************************************)
AcceptedIsHeld == promised \subseteq HeldRequests(w)

(***************************************************************************)
(* Once a recovering master has been given the recovery data, the witness  *)
(* makes no promise that the data does not contain, although record() and  *)
(* get_recovery_data() race (witness.cpp:26-35 against 154-172).           *)
(***************************************************************************)
RecoveryDataIsComplete == handed # Nothing => promised \subseteq handed

(***************************************************************************)
(* The request_count that Stop answers is final: no record that passed the *)
(* test of accepting_ before the stop is added after the count was taken   *)
(* (witness_service_impl.cpp:111-115).                                     *)
(***************************************************************************)
StopCountIsFinal == finalCount # Nothing => size(w) <= finalCount

\* The witness never holds more than kMaxRecords requests (witness.cpp:48).
WithinCapacity == size(w) <= kMaxRecords

(***************************************************************************)
(* A request recorded for a master is given to the recovery of no other    *)
(* one, although the test of the master id lets every caller through while *)
(* master_id_ is empty, as it is after records under the empty id: the     *)
(* first request of a master binds the witness to it, past requests that   *)
(* have no owner, and only a reset unbinds it (witness.cpp:84-88, 157,     *)
(* 209-211).                                                               *)
(***************************************************************************)
ServedToOwnMaster ==
  \A m \in CallerIds : \A q \in RecoveryData(w, m) : owner[q.key] \in {m, NoMaster}

(***************************************************************************)
(* While a request is stored under a key, that key's record is not         *)
(* replaced by another request's: between two different requests on a key  *)
(* the witness holds none ("one unsynced request per key", witness.h:64).  *)
(***************************************************************************)
NoOverwrite ==
  [][\A k \in Keys :
       w.records[k] # NoRpc /\ w'.records[k] # NoRpc
         => w'.records[k] = w.records[k]]_vars
=============================================================================
