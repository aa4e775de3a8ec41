----------------------------- MODULE WitnessOps -----------------------------
(***************************************************************************)
(* The state of one curp::Witness object (witness.h, witness.cpp) as a     *)
(* record, and what each of its methods does to it.  The methods run       *)
(* under mtx_; when they run, and what can come between, is the business   *)
(* of the modules that use these operators (Witness, CurpMaster).          *)
(*                                                                         *)
(* A request is an rpc id and a key: the payload, the client id and the    *)
(* time stamp that a WitnessRecord carries besides follow the rpc id and   *)
(* take part in no decision of the witness.                                *)
(***************************************************************************)
EXTENDS Integers, FiniteSets

CONSTANTS
  MasterIds,    \* the non-empty strings used as master ids
  NoMaster,     \* the empty string: master_id_ of a witness that is not bound,
                \* and master_id of a call that does not set it
  RpcIds,       \* RIFL request ids
  NoRpc,        \* stands for "no record under this key"
  Keys,
  kMaxRecords   \* Witness::kMaxRecords

ASSUME WitnessAssumption ==
  /\ NoMaster \notin MasterIds
  /\ NoRpc \notin RpcIds
  /\ IsFiniteSet(Keys)
  /\ kMaxRecords \in Nat

\* The members of a Witness that carry state.  records_ is a map from a key
\* to the request stored under it.
WitnessState ==
  [ master_id : MasterIds \cup {NoMaster},
    accepting : BOOLEAN,
    records   : [Keys -> RpcIds \cup {NoRpc}],
    rpc_ids   : SUBSET RpcIds ]

\* enum class RecordResult.
RecordResult ==
  { "ACCEPTED", "REJECTED_NOT_COMMUTATIVE", "REJECTED_NO_SPACE",
    "REJECTED_STOPPED", "REJECTED_WRONG_MASTER" }

\* reset(); new_master_id may be the empty string.  It also gives the state
\* in which a Witness is constructed.
AfterReset(new_master_id) ==
  [ master_id |-> new_master_id,
    accepting |-> TRUE,
    records   |-> [k \in Keys |-> NoRpc],
    rpc_ids   |-> {} ]

NewWitness == AfterReset(NoMaster)

HeldKeys(w) == {k \in Keys : w.records[k] # NoRpc}

size(w) == Cardinality(HeldKeys(w))

\* The requests stored, as the pairs a GCEntry or a recovery answer names.
HeldRequests(w) == {[rpc_id |-> w.records[k], key |-> k] : k \in HeldKeys(w)}

\* The check that record, garbage_collect and get_recovery_data share: a
\* bound witness serves its own master only.
WrongMaster(w, m) == w.master_id # NoMaster /\ m # w.master_id

\* Mutant: the capacity is tested with > instead of >=.
RecordVerdictOffByOne(w, m, r, k) ==
  IF WrongMaster(w, m)          THEN "REJECTED_WRONG_MASTER"
  ELSE IF size(w) > kMaxRecords THEN "REJECTED_NO_SPACE"
  ELSE IF r \in w.rpc_ids       THEN "ACCEPTED"
  ELSE IF k \in HeldKeys(w)     THEN "REJECTED_NOT_COMMUTATIVE"
  ELSE "ACCEPTED"

\* Mutant: no test for a request on the same key.
RecordVerdictNoConflict(w, m, r, k) ==
  IF WrongMaster(w, m)          THEN "REJECTED_WRONG_MASTER"
  ELSE IF size(w) >= kMaxRecords THEN "REJECTED_NO_SPACE"
  ELSE "ACCEPTED"

(***************************************************************************)
(* record() past its test of accepting_: the early returns in the order of *)
(* the code, then the insertion and the binding of the master id.          *)
(***************************************************************************)
RecordVerdict(w, m, r, k) ==
  IF WrongMaster(w, m)          THEN "REJECTED_WRONG_MASTER"
  ELSE IF size(w) >= kMaxRecords THEN "REJECTED_NO_SPACE"
  ELSE IF r \in w.rpc_ids       THEN "ACCEPTED"
  ELSE IF k \in HeldKeys(w)     THEN "REJECTED_NOT_COMMUTATIVE"
  ELSE "ACCEPTED"

\* Mutant: the witness is not bound to the master of its first request.
AfterRecordUnbound(w, m, r, k) ==
  IF RecordVerdict(w, m, r, k) = "ACCEPTED" /\ r \notin w.rpc_ids
  THEN [w EXCEPT !.records[k] = r, !.rpc_ids = @ \cup {r}]
  ELSE w

\* A record under the empty master id leaves an unbound witness unbound.
AfterRecord(w, m, r, k) ==
  IF RecordVerdict(w, m, r, k) = "ACCEPTED" /\ r \notin w.rpc_ids
  THEN [w EXCEPT !.records[k] = r,
                 !.rpc_ids    = @ \cup {r},
                 !.master_id  = IF @ = NoMaster THEN m ELSE @]
  ELSE w

\* Mutant: an entry is matched by its key alone.
CollectableByKey(w, m, entries) ==
  IF WrongMaster(w, m) THEN {}
  ELSE {q \in HeldRequests(w) : \E e \in entries : e.key = q.key}

\* The requests that garbage_collect(m, entries) drops: the ones an entry
\* names by key and by rpc id.
Collectable(w, m, entries) ==
  IF WrongMaster(w, m) THEN {} ELSE HeldRequests(w) \cap entries

\* Mutant: the rpc id of a dropped request stays in rpc_ids_.
AfterGarbageCollectKeepIds(w, m, entries) ==
  LET gone == Collectable(w, m, entries) IN
  [w EXCEPT !.records = [k \in Keys |->
                           IF [rpc_id |-> w.records[k], key |-> k] \in gone
                           THEN NoRpc ELSE w.records[k]]]

\* Mutant: the loop looks an entry up with records_[entry.key], which leaves
\* a default record, of rpc id 0, under a key that was not there.
AfterGarbageCollectInserts(w, m, entries) ==
  LET gone == Collectable(w, m, entries)
      looked == IF WrongMaster(w, m) THEN {} ELSE {e.key : e \in entries}
  IN [w EXCEPT
        !.records = [k \in Keys |->
                       IF [rpc_id |-> w.records[k], key |-> k] \in gone THEN NoRpc
                       ELSE IF k \in looked \ HeldKeys(w) THEN 0
                       ELSE w.records[k]],
        !.rpc_ids = @ \ {e.rpc_id : e \in gone}]

\* garbage_collect.
AfterGarbageCollect(w, m, entries) ==
  LET gone == Collectable(w, m, entries) IN
  [w EXCEPT
     !.records = [k \in Keys |->
                    IF [rpc_id |-> w.records[k], key |-> k] \in gone
                    THEN NoRpc ELSE w.records[k]],
     !.rpc_ids = @ \ {e.rpc_id : e \in gone}]

\* get_recovery_data: nothing for the wrong master; for the right one every
\* stored request, and the witness stops accepting.
RecoveryData(w, m) == IF WrongMaster(w, m) THEN {} ELSE HeldRequests(w)

\* Mutant: the witness goes on accepting.
AfterGetRecoveryDataOpen(w, m) == w

AfterGetRecoveryData(w, m) ==
  IF WrongMaster(w, m) THEN w ELSE [w EXCEPT !.accepting = FALSE]

\* stop_accepting.
AfterStop(w) == [w EXCEPT !.accepting = FALSE]

(***************************************************************************)
(* The answer of Record on its way through gRPC: WitnessServiceImpl::Record*)
(* writes accepted and reject_reason, WitnessClient::record reads them.    *)
(***************************************************************************)
RejectReason ==
  [ ACCEPTED                 |-> 0,
    REJECTED_NOT_COMMUTATIVE |-> 1,
    REJECTED_NO_SPACE        |-> 2,
    REJECTED_STOPPED         |-> 3,
    REJECTED_WRONG_MASTER    |-> 4 ]

RecordReply(result) ==
  [ accepted      |-> result = "ACCEPTED",
    reject_reason |-> RejectReason[result] ]

ClientResult(reply) ==
  IF reply.accepted THEN "ACCEPTED"
  ELSE CASE reply.reject_reason = 1 -> "REJECTED_NOT_COMMUTATIVE"
         [] reply.reject_reason = 2 -> "REJECTED_NO_SPACE"
         [] reply.reject_reason = 3 -> "REJECTED_STOPPED"
         [] reply.reject_reason = 4 -> "REJECTED_WRONG_MASTER"
         [] OTHER                   -> "REJECTED_STOPPED"

\* What WitnessClient::record returns when the RPC itself fails.
ClientResultOnRpcFailure == "REJECTED_STOPPED"
=============================================================================
