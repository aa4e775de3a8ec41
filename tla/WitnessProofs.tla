---------------------------- MODULE WitnessProofs ----------------------------
(***************************************************************************)
(* What Witness.cfg checks on a small instance, proved for any number of   *)
(* handler threads, masters, requests and keys and for any kMaxRecords.    *)
(***************************************************************************)
EXTENDS Witness, FiniteSetTheorems, TLAPS

-----------------------------------------------------------------------------
(* The methods of a witness *)

\* A witness state is the record of its fields, each of its type.
LEMMA WitnessFields ==
  ASSUME NEW v \in WitnessState
  PROVE  /\ v = [master_id |-> v.master_id, accepting |-> v.accepting,
                 records |-> v.records, rpc_ids |-> v.rpc_ids]
         /\ v.master_id \in MasterIds \cup {NoMaster}
         /\ v.accepting \in BOOLEAN
         /\ v.records \in [Keys -> RpcIds \cup {NoRpc}]
         /\ v.rpc_ids \in SUBSET RpcIds
  BY DEF WitnessState

\* A record the witness stores adds its request and touches no other key.
LEMMA RecordStores ==
  ASSUME NEW v \in WitnessState, NEW m \in CallerIds,
         NEW r \in RpcIds, NEW k \in Keys,
         RecordVerdict(v, m, r, k) = "ACCEPTED", r \notin v.rpc_ids
  PROVE  /\ AfterRecord(v, m, r, k) \in WitnessState
         /\ k \notin HeldKeys(v)
         /\ HeldKeys(AfterRecord(v, m, r, k)) = HeldKeys(v) \cup {k}
         /\ HeldRequests(AfterRecord(v, m, r, k))
              = HeldRequests(v) \cup {[rpc_id |-> r, key |-> k]}
         /\ AfterRecord(v, m, r, k).rpc_ids = v.rpc_ids \cup {r}
         /\ AfterRecord(v, m, r, k).master_id = m
         /\ v.master_id \in {m, NoMaster}
         /\ AfterRecord(v, m, r, k).accepting = v.accepting
         /\ \A l \in Keys : AfterRecord(v, m, r, k).records[l]
                              = IF l = k THEN r ELSE v.records[l]
         /\ ~(size(v) >= kMaxRecords)
PROOF
  <1> DEFINE u == AfterRecord(v, m, r, k)
  <1>1. /\ k \notin HeldKeys(v)
        /\ ~(size(v) >= kMaxRecords)
        /\ v.master_id \in {m, NoMaster}
    BY DEF RecordVerdict, WrongMaster
  <1>2. u = [v EXCEPT !.records[k] = r,
                      !.rpc_ids    = @ \cup {r},
                      !.master_id  = IF @ = NoMaster THEN m ELSE @]
    BY DEF AfterRecord
  <1>3. u \in WitnessState
    <2>1. /\ v = [master_id |-> v.master_id, accepting |-> v.accepting,
                  records |-> v.records, rpc_ids |-> v.rpc_ids]
          /\ v.records \in [Keys -> RpcIds \cup {NoRpc}]
      BY WitnessFields
    <2>2. u = [master_id |-> IF v.master_id = NoMaster THEN m ELSE v.master_id,
               accepting |-> v.accepting,
               records   |-> [v.records EXCEPT ![k] = r],
               rpc_ids   |-> v.rpc_ids \cup {r}]
      BY <1>2, <2>1
    <2>3. [v.records EXCEPT ![k] = r] \in [Keys -> RpcIds \cup {NoRpc}]
      BY <2>1
    <2> QED
      BY <2>2, <2>3, WitnessFields DEF WitnessState, CallerIds
  <1>4. \A l \in Keys : u.records[l] = IF l = k THEN r ELSE v.records[l]
    BY <1>2 DEF WitnessState
  <1>5. /\ u.rpc_ids = v.rpc_ids \cup {r}
        /\ u.master_id = m
        /\ u.accepting = v.accepting
    BY <1>1, <1>2 DEF WitnessState
  <1>6. HeldKeys(u) = HeldKeys(v) \cup {k}
    BY <1>4, WitnessAssumption DEF HeldKeys
  <1>7. HeldRequests(u) = HeldRequests(v) \cup {[rpc_id |-> r, key |-> k]}
    BY <1>1, <1>4, <1>6, WitnessAssumption DEF HeldRequests, HeldKeys
  <1> QED
    BY <1>1, <1>3, <1>4, <1>5, <1>6, <1>7

\* A record that is refused, or that is a duplicate, changes nothing.
LEMMA RecordKeeps ==
  ASSUME NEW v, NEW m, NEW r, NEW k,
         ~(RecordVerdict(v, m, r, k) = "ACCEPTED" /\ r \notin v.rpc_ids)
  PROVE  AfterRecord(v, m, r, k) = v
  BY DEF AfterRecord

\* A collection removes the requests its entries name and no other.
LEMMA CollectRemoves ==
  ASSUME NEW v \in WitnessState, NEW m \in CallerIds, NEW entries
  PROVE  LET u == AfterGarbageCollect(v, m, entries) IN
         /\ u \in WitnessState
         /\ HeldRequests(u) = HeldRequests(v) \ Collectable(v, m, entries)
         /\ HeldKeys(u) \subseteq HeldKeys(v)
         /\ \A l \in HeldKeys(u) : u.records[l] = v.records[l]
         /\ u.master_id = v.master_id
         /\ u.accepting = v.accepting
         /\ u.rpc_ids = v.rpc_ids \ {e.rpc_id : e \in Collectable(v, m, entries)}
PROOF
  <1> DEFINE u == AfterGarbageCollect(v, m, entries)
             gone == Collectable(v, m, entries)
             f == [k \in Keys |->
                     IF [rpc_id |-> v.records[k], key |-> k] \in gone
                     THEN NoRpc ELSE v.records[k]]
             ids == {e.rpc_id : e \in gone}
  <1>0. /\ v = [master_id |-> v.master_id, accepting |-> v.accepting,
                records |-> v.records, rpc_ids |-> v.rpc_ids]
        /\ v.rpc_ids \in SUBSET RpcIds
    BY WitnessFields
  <1>1. u = [v EXCEPT !.records = f, !.rpc_ids = @ \ ids]
    BY DEF AfterGarbageCollect
  <1>2. u \in WitnessState
    <2>1. f \in [Keys -> RpcIds \cup {NoRpc}]
      <3> HIDE DEF gone
      <3> QED BY WitnessFields
    <2> HIDE DEF u, f, gone, ids
    <2>2. u = [master_id |-> v.master_id, accepting |-> v.accepting,
               records |-> f, rpc_ids |-> v.rpc_ids \ ids]
      BY <1>0, <1>1
    <2>3. v.rpc_ids \ ids \in SUBSET RpcIds
      BY <1>0
    <2> QED
      BY <2>1, <2>2, <2>3, WitnessFields DEF WitnessState
  <1>3. \A l \in Keys : u.records[l] =
          IF [rpc_id |-> v.records[l], key |-> l] \in gone
          THEN NoRpc ELSE v.records[l]
    BY <1>1 DEF WitnessState
  <1>4. /\ u.master_id = v.master_id
        /\ u.accepting = v.accepting
        /\ u.rpc_ids = v.rpc_ids \ {e.rpc_id : e \in gone}
    BY <1>1 DEF WitnessState
  <1>5. /\ HeldKeys(u) \subseteq HeldKeys(v)
        /\ \A l \in HeldKeys(u) : u.records[l] = v.records[l]
    BY <1>3 DEF HeldKeys
  <1>6. HeldRequests(u) = HeldRequests(v) \ gone
    <2> HIDE DEF u, gone
    <2> QED BY <1>3, <1>5 DEF HeldRequests, HeldKeys
  <1> QED
    BY <1>2, <1>4, <1>5, <1>6

\* The number of records is a natural number and grows with the keys held.
LEMMA SizeFacts ==
  ASSUME NEW v \in WitnessState, NEW u \in WitnessState
  PROVE  /\ size(v) \in Nat
         /\ HeldKeys(u) \subseteq HeldKeys(v) => size(u) <= size(v)
         /\ \A k \in Keys : k \notin HeldKeys(v) /\ HeldKeys(u) = HeldKeys(v) \cup {k}
                              => size(u) = size(v) + 1
PROOF
  <1>1. IsFiniteSet(HeldKeys(v)) /\ IsFiniteSet(HeldKeys(u))
    BY WitnessAssumption, FS_Subset DEF HeldKeys
  <1>2. size(v) \in Nat
    BY <1>1, FS_CardinalityType DEF size
  <1>3. HeldKeys(u) \subseteq HeldKeys(v) => size(u) <= size(v)
    BY <1>1, FS_Subset DEF size
  <1>4. ASSUME NEW k \in Keys, k \notin HeldKeys(v), HeldKeys(u) = HeldKeys(v) \cup {k}
        PROVE  size(u) = size(v) + 1
    BY <1>1, <1>4, FS_AddElement DEF size
  <1> QED BY <1>2, <1>3, <1>4

\* A witness just reset is empty and accepts.
LEMMA EmptyWitness ==
  ASSUME NEW m \in CallerIds
  PROVE  /\ AfterReset(m) \in WitnessState
         /\ AfterReset(m).accepting
         /\ HeldKeys(AfterReset(m)) = {}
         /\ HeldRequests(AfterReset(m)) = {}
         /\ AfterReset(m).rpc_ids = {}
         /\ size(AfterReset(m)) = 0
PROOF
  <1>1. AfterReset(m) \in WitnessState
    BY DEF AfterReset, WitnessState, CallerIds
  <1>2. AfterReset(m).accepting
    BY DEF AfterReset
  <1>3. HeldKeys(AfterReset(m)) = {} /\ AfterReset(m).rpc_ids = {}
    BY DEF AfterReset, HeldKeys
  <1>4. HeldRequests(AfterReset(m)) = {}
    BY <1>3 DEF HeldRequests
  <1>5. size(AfterReset(m)) = 0
    BY <1>3, FS_EmptySet DEF size
  <1> QED
    BY <1>1, <1>2, <1>3, <1>4, <1>5

\* stop_accepting and get_recovery_data touch accepting_ only.
LEMMA StopKeepsRecords ==
  ASSUME NEW v \in WitnessState
  PROVE  /\ AfterStop(v) \in WitnessState
         /\ ~AfterStop(v).accepting
         /\ HeldKeys(AfterStop(v)) = HeldKeys(v)
         /\ HeldRequests(AfterStop(v)) = HeldRequests(v)
         /\ AfterStop(v).records = v.records
         /\ AfterStop(v).rpc_ids = v.rpc_ids
         /\ AfterStop(v).master_id = v.master_id
         /\ size(AfterStop(v)) = size(v)
PROOF
  <1> DEFINE u == AfterStop(v)
  <1>0. v = [master_id |-> v.master_id, accepting |-> v.accepting,
             records |-> v.records, rpc_ids |-> v.rpc_ids]
    BY WitnessFields
  <1>1. /\ u.records = v.records
        /\ u.rpc_ids = v.rpc_ids
        /\ u.master_id = v.master_id
    BY <1>0 DEF AfterStop
  <1>2. u.accepting = FALSE
    BY <1>0 DEF AfterStop
  <1>3. u \in WitnessState
    BY DEF AfterStop, WitnessState
  <1>4. HeldKeys(u) = HeldKeys(v)
    BY <1>1 DEF HeldKeys
  <1>5. HeldRequests(u) = HeldRequests(v) /\ size(u) = size(v)
    BY <1>1, <1>4 DEF HeldRequests, size
  <1> QED
    BY <1>1, <1>2, <1>3, <1>4, <1>5

-----------------------------------------------------------------------------
(***************************************************************************)
(* The inductive invariant.  mtx names the thread between the two steps of *)
(* record(); from the moment recovery data or a Stop count has been handed *)
(* out until the next reset the witness refuses and no record() is under   *)
(* way.                                                                    *)
(***************************************************************************)
MutexInv ==
  \A t \in Threads : /\ pc[t] = "record" <=> mtx = t
                     /\ pc[t] = "record" => arg[t] \in Calls

HeldWereRequested == HeldRequests(w) \subseteq Requests

\* A request that has an owner keeps the witness bound to it.
BoundToOwner == \A k \in HeldKeys(w) : owner[k] \in {w.master_id, NoMaster}

StoppedInv ==
  /\ handed # Nothing => ~w.accepting /\ mtx = Free
  /\ finalCount # Nothing => ~w.accepting /\ mtx = Free
  /\ \A t \in Threads \ undone : pc[t] = "stop" => ~w.accepting

IInv ==
  /\ TypeOK
  /\ MutexInv
  /\ HeldWereRequested
  /\ StoppedInv
  /\ RpcIdsMatchRecords
  /\ BoundToOwner
  /\ WithinCapacity
  /\ StopCountIsFinal

LEMMA InitIInv == Init => IInv
PROOF
  <1> SUFFICES ASSUME Init PROVE IInv
    OBVIOUS
  <1>1. /\ w \in WitnessState /\ HeldKeys(w) = {} /\ HeldRequests(w) = {}
        /\ w.rpc_ids = {} /\ size(w) = 0
    BY EmptyWitness DEF Init, NewWitness, CallerIds
  <1>2. TypeOK /\ MutexInv /\ StoppedInv
    BY <1>1, ServiceAssumption DEF Init, TypeOK, MutexInv, StoppedInv, CallerIds
  <1>3. HeldWereRequested /\ RpcIdsMatchRecords /\ BoundToOwner
    BY <1>1 DEF HeldWereRequested, RpcIdsMatchRecords, BoundToOwner
  <1>4. WithinCapacity
    BY <1>1, WitnessAssumption DEF WithinCapacity
  <1>5. StopCountIsFinal
    BY DEF Init, StopCountIsFinal
  <1> QED
    BY <1>2, <1>3, <1>4, <1>5 DEF IInv

\* record(), first step: it takes the mutex of a witness that accepts.
LEMMA RecordEnterIInv ==
  ASSUME IInv, NEW t \in Threads, NEW c \in Calls, RecordEnter(t, c)
  PROVE  IInv'
PROOF
  <1> USE DEF RecordEnter, history
  <1>1. TypeOK'
    BY DEF IInv, TypeOK
  <1>2. MutexInv'
    BY ServiceAssumption DEF IInv, TypeOK, MutexInv
  <1>3. StoppedInv'
    BY DEF IInv, TypeOK, StoppedInv
  <1>4. /\ HeldWereRequested' /\ RpcIdsMatchRecords' /\ BoundToOwner'
        /\ WithinCapacity' /\ StopCountIsFinal'
    BY DEF IInv, HeldWereRequested, RpcIdsMatchRecords, BoundToOwner,
           WithinCapacity, StopCountIsFinal
  <1> QED
    BY <1>1, <1>2, <1>3, <1>4 DEF IInv

\* record(), second step: the mutex is held, so nothing has been handed out.
LEMMA RecordFinishIInv ==
  ASSUME IInv, NEW t \in Threads, RecordFinish(t)
  PROVE  IInv'
PROOF
  <1> DEFINE m == arg[t].master_id
             q == arg[t].req
             stored == /\ RecordVerdict(w, m, q.rpc_id, q.key) = "ACCEPTED"
                       /\ q.rpc_id \notin w.rpc_ids
  <1>1. /\ mtx = t /\ m \in CallerIds /\ q \in Requests
        /\ q.rpc_id \in RpcIds /\ q.key \in Keys
        /\ q = [rpc_id |-> q.rpc_id, key |-> q.key]
        /\ w \in WitnessState
    BY ServiceAssumption DEF IInv, MutexInv, RecordFinish, Calls, TypeOK
  <1>2. /\ w' = AfterRecord(w, m, q.rpc_id, q.key)
        /\ mtx' = Free
        /\ pc' = [pc EXCEPT ![t] = "idle"]
        /\ arg' = [arg EXCEPT ![t] = Nothing]
        /\ promised' \subseteq promised \cup {q}
        /\ owner' = [k \in Keys |->
                       IF w'.records[k] # w.records[k] THEN m ELSE owner[k]]
        /\ UNCHANGED <<handed, undone, finalCount>>
    BY DEF RecordFinish
  <1>3. handed = Nothing /\ finalCount = Nothing
    BY <1>1, ServiceAssumption DEF IInv, StoppedInv
  <1> HIDE DEF m, q
  <1>4. MutexInv'
    BY <1>1, <1>2, ServiceAssumption DEF IInv, TypeOK, MutexInv
  <1>5. StopCountIsFinal'
    BY <1>2, <1>3 DEF StopCountIsFinal
  <1>6. ASSUME w' \in WitnessState
        PROVE  TypeOK'
    BY <1>1, <1>2, <1>6 DEF IInv, TypeOK
  <1>7. ASSUME w'.accepting = w.accepting
        PROVE  StoppedInv'
    BY <1>2, <1>3, <1>7 DEF IInv, TypeOK, StoppedInv
  <1>8. CASE stored
    <2>1. /\ w' \in WitnessState
          /\ q.key \notin HeldKeys(w)
          /\ HeldKeys(w') = HeldKeys(w) \cup {q.key}
          /\ HeldRequests(w') = HeldRequests(w) \cup {q}
          /\ w'.rpc_ids = w.rpc_ids \cup {q.rpc_id}
          /\ w'.master_id = m /\ w.master_id \in {m, NoMaster}
          /\ w'.accepting = w.accepting
          /\ \A l \in Keys : w'.records[l] = IF l = q.key THEN q.rpc_id ELSE w.records[l]
          /\ ~(size(w) >= kMaxRecords)
      BY <1>1, <1>2, <1>8, RecordStores
    <2>2. HeldWereRequested'
      BY <1>1, <2>1 DEF IInv, HeldWereRequested
    <2>3. RpcIdsMatchRecords'
      <3>1. \A k \in HeldKeys(w) : k \in Keys /\ w.records[k] \in w.rpc_ids
        BY DEF IInv, RpcIdsMatchRecords, HeldKeys
      <3>2. w'.rpc_ids = {w'.records[k] : k \in HeldKeys(w')}
        BY <1>1, <2>1, <3>1 DEF IInv, RpcIdsMatchRecords
      <3>3. \A k, l \in HeldKeys(w') : w'.records[k] = w'.records[l] => k = l
        BY <1>1, <1>8, <2>1, <3>1 DEF IInv, RpcIdsMatchRecords
      <3> QED
        BY <3>2, <3>3 DEF RpcIdsMatchRecords
    <2>4. WithinCapacity'
      <3>1. size(w') = size(w) + 1 /\ size(w) \in Nat
        BY <1>1, <2>1, SizeFacts
      <3> QED
        BY <2>1, <3>1, WitnessAssumption DEF WithinCapacity
    <2>5. BoundToOwner'
      <3>1. ASSUME NEW l \in HeldKeys(w')
            PROVE  owner'[l] \in {m, NoMaster}
        <4>1. l \in Keys /\ owner'[l] \in {m, owner[l]}
          BY <1>2 DEF HeldKeys
        <4>2. CASE l = q.key
          <5>1. w'.records[l] # w.records[l]
            BY <2>1, <4>1, <4>2 DEF HeldKeys
          <5> QED
            BY <1>2, <4>1, <5>1
        <4>3. CASE l # q.key
          BY <2>1, <4>1, <4>3 DEF IInv, BoundToOwner
        <4> QED
          BY <4>2, <4>3
      <3> QED
        BY <2>1, <3>1 DEF BoundToOwner
    <2> QED
      BY <1>4, <1>5, <1>6, <1>7, <2>1, <2>2, <2>3, <2>4, <2>5 DEF IInv
  <1>9. CASE ~stored
    <2>1. w' = w
      BY <1>2, <1>9, RecordKeeps
    <2>2. /\ HeldWereRequested' /\ RpcIdsMatchRecords' /\ BoundToOwner'
          /\ WithinCapacity'
      BY <1>2, <2>1 DEF HeldKeys, IInv, HeldWereRequested, RpcIdsMatchRecords,
                  BoundToOwner, WithinCapacity
    <2> QED
      BY <1>1, <1>4, <1>5, <1>6, <1>7, <2>1, <2>2 DEF IInv
  <1> QED
    BY <1>8, <1>9

\* garbage_collect: the records and rpc_ids_ shrink together.
LEMMA GarbageCollectIInv ==
  ASSUME IInv, NEW m \in CallerIds, NEW entries \in SUBSET Requests,
         GarbageCollect(m, entries)
  PROVE  IInv'
PROOF
  <1> DEFINE gone == Collectable(w, m, entries)
  <1>1. /\ w \in WitnessState
        /\ w' = AfterGarbageCollect(w, m, entries)
        /\ promised' \subseteq promised
        /\ UNCHANGED <<mtx, pc, arg, owner, handed, undone, finalCount>>
    BY DEF IInv, TypeOK, GarbageCollect
  <1>2. /\ w' \in WitnessState
        /\ HeldRequests(w') = HeldRequests(w) \ gone
        /\ HeldKeys(w') \subseteq HeldKeys(w)
        /\ \A l \in HeldKeys(w') : w'.records[l] = w.records[l]
        /\ w'.master_id = w.master_id
        /\ w'.accepting = w.accepting
        /\ w'.rpc_ids = w.rpc_ids \ {e.rpc_id : e \in gone}
    BY <1>1, CollectRemoves
  <1>3. gone \subseteq HeldRequests(w)
    BY DEF Collectable
  <1> HIDE DEF gone
  <1>4. TypeOK' /\ MutexInv' /\ HeldWereRequested' /\ BoundToOwner'
    BY <1>1, <1>2 DEF IInv, TypeOK, MutexInv, HeldWereRequested, BoundToOwner
  <1>5. StoppedInv'
    BY <1>1, <1>2 DEF IInv, TypeOK, StoppedInv
  <1>6. RpcIdsMatchRecords'
    <2>1. \A k \in HeldKeys(w) : k \in HeldKeys(w') <=>
            [rpc_id |-> w.records[k], key |-> k] \notin gone
      BY <1>2, <1>3 DEF HeldRequests
    <2>2. \A e \in gone : e.key \in HeldKeys(w) /\ e.rpc_id = w.records[e.key]
                          /\ e = [rpc_id |-> e.rpc_id, key |-> e.key]
      BY <1>3 DEF HeldRequests
    <2>3. \A r : r \in w'.rpc_ids <=> \E k \in HeldKeys(w') : r = w'.records[k]
      <3>1. ASSUME NEW r \in w'.rpc_ids
            PROVE  \E k \in HeldKeys(w') : r = w'.records[k]
        <4>1. PICK k \in HeldKeys(w) : r = w.records[k]
          BY <1>2 DEF IInv, RpcIdsMatchRecords
        <4>2. [rpc_id |-> w.records[k], key |-> k] \notin gone
          BY <1>2, <4>1
        <4> QED
          BY <1>2, <2>1, <4>1, <4>2
      <3>2. ASSUME NEW k \in HeldKeys(w')
            PROVE  w'.records[k] \in w'.rpc_ids
        <4>1. /\ k \in HeldKeys(w) /\ w'.records[k] = w.records[k]
              /\ w.records[k] \in w.rpc_ids
          BY <1>2 DEF IInv, RpcIdsMatchRecords
        <4>2. ASSUME NEW e \in gone, e.rpc_id = w.records[k]
              PROVE  FALSE
          <5>1. e.key = k
            BY <2>2, <4>1, <4>2 DEF IInv, RpcIdsMatchRecords
          <5> QED
            BY <2>1, <2>2, <4>1, <4>2, <5>1
        <4> QED
          BY <1>2, <4>1, <4>2
      <3> QED
        BY <3>1, <3>2
    <2>4. \A k, l \in HeldKeys(w') : w'.records[k] = w'.records[l] => k = l
      BY <1>2 DEF IInv, RpcIdsMatchRecords
    <2>5. w'.rpc_ids = {w'.records[k] : k \in HeldKeys(w')}
      BY <2>3
    <2> QED
      BY <2>4, <2>5 DEF RpcIdsMatchRecords
  <1>7. WithinCapacity' /\ StopCountIsFinal'
    <2>1. size(w') <= size(w) /\ size(w) \in Nat /\ size(w') \in Nat
      BY <1>1, <1>2, SizeFacts
    <2> QED
      BY <1>1, <2>1, WitnessAssumption
      DEF IInv, TypeOK, WithinCapacity, StopCountIsFinal
  <1> QED
    BY <1>4, <1>5, <1>6, <1>7 DEF IInv

\* get_recovery_data and stop_accepting leave the records alone.
LEMMA GetRecoveryDataIInv ==
  ASSUME IInv, NEW m \in CallerIds, GetRecoveryData(m)
  PROVE  IInv'
PROOF
  <1>1. /\ w \in WitnessState /\ mtx = Free
        /\ handed = Nothing \/ handed \subseteq Requests
        /\ w' = w \/ w' = AfterStop(w)
        /\ UNCHANGED <<mtx, pc, arg, owner, promised, undone, finalCount>>
    BY DEF IInv, TypeOK, GetRecoveryData, AfterGetRecoveryData, AfterStop
  <1>2. handed' = handed \/ (handed' = HeldRequests(w) /\ ~w'.accepting)
    <2>1. CASE ~WrongMaster(w, m)
      <3>1. handed' = HeldRequests(w) /\ w' = AfterStop(w)
        BY <2>1 DEF GetRecoveryData, RecoveryData, AfterGetRecoveryData,
                    AfterStop
      <3> QED
        BY <1>1, <3>1, StopKeepsRecords
    <2>2. CASE WrongMaster(w, m)
      BY <2>2 DEF GetRecoveryData
    <2> QED BY <2>1, <2>2
  <1>3. /\ w' \in WitnessState
        /\ HeldKeys(w') = HeldKeys(w) /\ HeldRequests(w') = HeldRequests(w)
        /\ w'.records = w.records /\ w'.rpc_ids = w.rpc_ids
        /\ w'.master_id = w.master_id /\ size(w') = size(w)
        /\ ~w.accepting => ~w'.accepting
    BY <1>1, StopKeepsRecords
  <1>4. TypeOK'
    BY <1>1, <1>2, <1>3 DEF IInv, TypeOK, HeldWereRequested
  <1>5. StoppedInv'
    BY <1>1, <1>2, <1>3 DEF IInv, StoppedInv
  <1>6. MutexInv' /\ HeldWereRequested' /\ BoundToOwner'
    BY <1>1, <1>3 DEF IInv, MutexInv, HeldWereRequested, BoundToOwner
  <1>7. RpcIdsMatchRecords' /\ WithinCapacity' /\ StopCountIsFinal'
    BY <1>1, <1>3 DEF IInv, RpcIdsMatchRecords, WithinCapacity, StopCountIsFinal
  <1> QED
    BY <1>4, <1>5, <1>6, <1>7 DEF IInv

LEMMA StopAcceptingIInv ==
  ASSUME IInv, NEW t \in Threads, StopAccepting(t)
  PROVE  IInv'
PROOF
  <1>1. /\ w \in WitnessState /\ w' = AfterStop(w) /\ pc[t] = "idle"
        /\ pc' = [pc EXCEPT ![t] = "stop"] /\ undone' = undone \ {t}
        /\ UNCHANGED <<mtx, arg, owner, promised, handed, finalCount>>
    BY DEF IInv, TypeOK, StopAccepting
  <1>2. /\ w' \in WitnessState /\ ~w'.accepting
        /\ HeldKeys(w') = HeldKeys(w) /\ HeldRequests(w') = HeldRequests(w)
        /\ w'.records = w.records /\ w'.rpc_ids = w.rpc_ids
        /\ w'.master_id = w.master_id /\ size(w') = size(w)
    BY <1>1, StopKeepsRecords
  <1>3. TypeOK' /\ MutexInv' /\ StoppedInv'
    BY <1>1, <1>2 DEF IInv, TypeOK, MutexInv, StoppedInv
  <1>4. HeldWereRequested' /\ BoundToOwner'
    BY <1>1, <1>2 DEF IInv, HeldWereRequested, BoundToOwner
  <1>5. RpcIdsMatchRecords' /\ WithinCapacity' /\ StopCountIsFinal'
    BY <1>1, <1>2 DEF IInv, RpcIdsMatchRecords, WithinCapacity, StopCountIsFinal
  <1> QED
    BY <1>3, <1>4, <1>5 DEF IInv

\* The count is taken with the mutex free and, unless a reset undid the stop,
\* with accepting_ off: no record can follow it.
LEMMA StopStatusIInv ==
  ASSUME IInv, NEW t \in Threads, StopStatus(t)
  PROVE  IInv'
PROOF
  <1>1. /\ w \in WitnessState /\ pc[t] = "stop" /\ mtx = Free
        /\ pc' = [pc EXCEPT ![t] = "idle"]
        /\ finalCount' = IF t \in undone THEN finalCount ELSE size(w)
        /\ UNCHANGED <<w, mtx, arg, owner, promised, handed, undone>>
    BY DEF IInv, TypeOK, StopStatus
  <1>2. size(w) \in Nat
    BY <1>1, SizeFacts
  <1>3. TypeOK' /\ MutexInv'
    BY <1>1, <1>2, ServiceAssumption DEF IInv, TypeOK, MutexInv
  <1>4. StoppedInv'
    BY <1>1 DEF IInv, TypeOK, StoppedInv
  <1>5. StopCountIsFinal'
    BY <1>1, <1>2 DEF IInv, StopCountIsFinal, size, HeldKeys
  <1>6. /\ HeldWereRequested' /\ BoundToOwner'
        /\ RpcIdsMatchRecords' /\ WithinCapacity'
    BY <1>1 DEF IInv, HeldWereRequested, BoundToOwner,
                RpcIdsMatchRecords, WithinCapacity
  <1> QED
    BY <1>3, <1>4, <1>5, <1>6 DEF IInv

LEMMA ResetIInv ==
  ASSUME IInv, NEW m \in CallerIds, Reset(m)
  PROVE  IInv'
PROOF
  <1>1. /\ w' = AfterReset(m) /\ promised' = {} /\ handed' = Nothing
        /\ owner' = [k \in Keys |-> NoMaster]
        /\ undone' = {t \in Threads : pc[t] = "stop"} /\ finalCount' = Nothing
        /\ UNCHANGED <<mtx, pc, arg>>
    BY DEF Reset
  <1>2. /\ w' \in WitnessState /\ HeldKeys(w') = {} /\ HeldRequests(w') = {}
        /\ w'.rpc_ids = {} /\ size(w') = 0
    BY <1>1, EmptyWitness
  <1>3. TypeOK' /\ MutexInv' /\ StoppedInv'
    BY <1>1, <1>2 DEF IInv, TypeOK, MutexInv, StoppedInv, CallerIds
  <1>4. /\ HeldWereRequested' /\ RpcIdsMatchRecords' /\ BoundToOwner'
        /\ StopCountIsFinal'
    BY <1>1, <1>2 DEF HeldWereRequested, RpcIdsMatchRecords, BoundToOwner,
                      StopCountIsFinal
  <1>5. WithinCapacity'
    BY <1>2, WitnessAssumption DEF WithinCapacity
  <1> QED
    BY <1>3, <1>4, <1>5 DEF IInv

\* Every step of the witness preserves the invariant.
LEMMA NextIInv == IInv /\ [Next]_vars => IInv'
PROOF
  <1> SUFFICES ASSUME IInv, [Next]_vars PROVE IInv'
    OBVIOUS
  <1>1. CASE UNCHANGED vars
    <2>1. UNCHANGED <<w, mtx, pc, arg, owner, promised, handed, undone, finalCount>>
      BY <1>1 DEF vars
    <2>2. TypeOK' /\ MutexInv' /\ StoppedInv' /\ HeldWereRequested'
      BY <2>1 DEF IInv, TypeOK, MutexInv, StoppedInv, HeldWereRequested
    <2>3. /\ RpcIdsMatchRecords' /\ BoundToOwner'
          /\ WithinCapacity' /\ StopCountIsFinal'
      BY <2>1 DEF IInv, RpcIdsMatchRecords, BoundToOwner,
                  WithinCapacity, StopCountIsFinal
    <2> QED
      BY <2>2, <2>3 DEF IInv
  <1>2. CASE Next
    BY <1>2, RecordEnterIInv, RecordFinishIInv, GarbageCollectIInv,
       GetRecoveryDataIInv, StopAcceptingIInv, StopStatusIInv, ResetIInv
    DEF Next
  <1> QED
    BY <1>1, <1>2

(***************************************************************************)
(* The invariant of the service, whatever the requests: in every reachable *)
(* state the two tables agree, the capacity is respected, a Stop count is  *)
(* final and a request with an owner keeps the witness bound to it.        *)
(***************************************************************************)
THEOREM WitnessInvariant == Spec => []IInv
  BY InitIInv, NextIInv, PTL DEF Spec

\* Every variable keeps its type.
THEOREM WitnessTypeOK == Spec => []TypeOK
PROOF
  <1>1. IInv => TypeOK
    BY DEF IInv
  <1> QED
    BY <1>1, WitnessInvariant, PTL

\* records_ and rpc_ids_ always agree (witness.cpp:58-81, 123-130, 209-210).
THEOREM TablesAgree == Spec => []RpcIdsMatchRecords
PROOF
  <1>1. IInv => RpcIdsMatchRecords
    BY DEF IInv
  <1> QED
    BY <1>1, WitnessInvariant, PTL

\* The request_count answered by Stop is an upper bound on what the witness
\* holds until the next reset (witness_service_impl.cpp:111-115).
THEOREM StopAnswerIsFinal == Spec => []StopCountIsFinal
PROOF
  <1>1. IInv => StopCountIsFinal
    BY DEF IInv
  <1> QED
    BY <1>1, WitnessInvariant, PTL

\* The witness never exceeds kMaxRecords (witness.cpp:48).
THEOREM CapacityRespected == Spec => []WithinCapacity
PROOF
  <1>1. IInv => WithinCapacity
    BY DEF IInv
  <1> QED
    BY <1>1, WitnessInvariant, PTL

(***************************************************************************)
(* Recovery data holds no request that was recorded for another master:    *)
(* whatever a witness that is not bound yet has stored under the empty id, *)
(* the first request with an owner binds it, until the next reset          *)
(* (witness.cpp:38, 84-88, 157, 209-211).                                  *)
(***************************************************************************)
THEOREM NoForeignRecovery == Spec => []ServedToOwnMaster
PROOF
  <1>1. IInv => ServedToOwnMaster
    <2> SUFFICES ASSUME IInv, NEW m \in CallerIds, NEW q \in RecoveryData(w, m)
                 PROVE  owner[q.key] \in {m, NoMaster}
      BY DEF ServedToOwnMaster
    <2>1. ~WrongMaster(w, m) /\ q \in HeldRequests(w)
      BY DEF RecoveryData
    <2>2. q.key \in HeldKeys(w)
      BY <2>1 DEF HeldRequests
    <2> QED
      BY <2>1, <2>2 DEF IInv, BoundToOwner, WrongMaster
  <1> QED
    BY <1>1, WitnessInvariant, PTL

-----------------------------------------------------------------------------
(***************************************************************************)
(* With unique request ids the witness keeps what it promised.  Uniqueness *)
(* is what makes the duplicate branch of record() (witness.cpp:58-63)      *)
(* sound: the id found in rpc_ids_ is then the very request being recorded.*)
(***************************************************************************)
PromiseInv == AcceptedIsHeld /\ RecoveryDataIsComplete

\* The client reads ACCEPTED only if the witness answered it.
LEMMA AnswerIsFaithful ==
  ASSUME NEW v, NEW m, NEW r, NEW k,
         \/ ClientResult(RecordReply(RecordVerdict(v, m, r, k))) = "ACCEPTED"
         \/ ClientResultOnRpcFailure = "ACCEPTED"
  PROVE  RecordVerdict(v, m, r, k) = "ACCEPTED"
PROOF
  <1> DEFINE result == RecordVerdict(v, m, r, k)
  <1>1. result \in RecordResult
    BY DEF RecordVerdict, RecordResult
  <1> HIDE DEF result
  <1>2. ClientResultOnRpcFailure # "ACCEPTED"
    BY DEF ClientResultOnRpcFailure
  <1>3. ASSUME result # "ACCEPTED"
        PROVE  ClientResult(RecordReply(result)) # "ACCEPTED"
    <2>1. ~RecordReply(result).accepted
      BY <1>3 DEF RecordReply
    <2>2. RecordReply(result).reject_reason \in 1..4
      BY <1>1, <1>3 DEF RecordReply, RejectReason, RecordResult
    <2> QED
      BY <2>1, <2>2 DEF ClientResult
  <1> QED
    BY <1>2, <1>3 DEF result

LEMMA RecordFinishPromise ==
  ASSUME UniqueIds, IInv, PromiseInv, NEW t \in Threads, RecordFinish(t)
  PROVE  PromiseInv'
PROOF
  <1> DEFINE m == arg[t].master_id
             q == arg[t].req
             accepted == RecordVerdict(w, m, q.rpc_id, q.key) = "ACCEPTED"
  <1>1. /\ mtx = t /\ m \in CallerIds /\ q \in Requests
        /\ q.rpc_id \in RpcIds /\ q.key \in Keys
        /\ q = [rpc_id |-> q.rpc_id, key |-> q.key]
        /\ w \in WitnessState
    BY ServiceAssumption DEF IInv, MutexInv, RecordFinish, Calls, TypeOK
  <1>2. /\ w' = AfterRecord(w, m, q.rpc_id, q.key)
        /\ promised' = promised \/ (accepted /\ promised' = promised \cup {q})
        /\ handed' = handed
    BY AnswerIsFaithful DEF RecordFinish
  <1>3. handed = Nothing
    BY <1>1, ServiceAssumption DEF IInv, StoppedInv
  <1> HIDE DEF m, q
  <1>4. AcceptedIsHeld'
    <2>1. CASE accepted /\ q.rpc_id \notin w.rpc_ids
      <3>1. HeldRequests(w') = HeldRequests(w) \cup {q}
        BY <1>1, <1>2, <2>1, RecordStores
      <3> QED
        BY <1>2, <3>1 DEF PromiseInv, AcceptedIsHeld
    <2>2. CASE accepted /\ q.rpc_id \in w.rpc_ids
      <3>1. w' = w
        BY <1>2, <2>2, RecordKeeps
      <3>2. PICK k \in HeldKeys(w) : w.records[k] = q.rpc_id
        BY <2>2 DEF IInv, RpcIdsMatchRecords
      <3>3. [rpc_id |-> w.records[k], key |-> k] \in HeldRequests(w)
        BY <3>2 DEF HeldRequests
      <3>4. [rpc_id |-> w.records[k], key |-> k] = q
        BY <1>1, <3>2, <3>3 DEF IInv, HeldWereRequested, UniqueIds
      <3> QED
        BY <1>2, <3>1, <3>3, <3>4 DEF PromiseInv, AcceptedIsHeld
    <2>3. CASE ~accepted
      <3>1. w' = w
        BY <1>2, <2>3, RecordKeeps
      <3> QED
        BY <1>2, <2>3, <3>1 DEF PromiseInv, AcceptedIsHeld
    <2> QED
      BY <2>1, <2>2, <2>3
  <1>5. RecoveryDataIsComplete'
    BY <1>2, <1>3 DEF RecoveryDataIsComplete
  <1> QED
    BY <1>4, <1>5 DEF PromiseInv

LEMMA NextPromise ==
  ASSUME UniqueIds
  PROVE  IInv /\ PromiseInv /\ [Next]_vars => PromiseInv'
PROOF
  <1> SUFFICES ASSUME IInv, PromiseInv, [Next]_vars PROVE PromiseInv'
    OBVIOUS
  <1> USE DEF PromiseInv, AcceptedIsHeld, RecoveryDataIsComplete
  <1>1. ASSUME NEW t \in Threads, RecordFinish(t) PROVE PromiseInv'
    BY <1>1, RecordFinishPromise
  <1>2. ASSUME NEW t \in Threads, NEW c \in Calls, RecordEnter(t, c)
        PROVE  PromiseInv'
    BY <1>2 DEF RecordEnter, history
  <1>3. ASSUME NEW m \in CallerIds, NEW entries \in SUBSET Requests,
               GarbageCollect(m, entries)
        PROVE  PromiseInv'
    <2>1. HeldRequests(w') = HeldRequests(w) \ Collectable(w, m, entries)
      BY <1>3, CollectRemoves DEF IInv, TypeOK, GarbageCollect
    <2>2. Collectable(w, m, entries) \subseteq entries
      BY DEF Collectable
    <2>3. \A q \in Collectable(w, m, entries) : owner[q.key] \in {m, NoMaster}
      <3>1. ASSUME NEW q \in Collectable(w, m, entries)
            PROVE  ~WrongMaster(w, m) /\ q.key \in HeldKeys(w)
        BY DEF Collectable, HeldRequests
      <3> QED
        BY <3>1 DEF IInv, BoundToOwner, WrongMaster
    <2> QED
      BY <1>3, <2>1, <2>2, <2>3 DEF GarbageCollect
  <1>4. ASSUME NEW m \in CallerIds, GetRecoveryData(m) PROVE PromiseInv'
    <2>1. w' = w \/ w' = AfterStop(w)
      BY <1>4 DEF GetRecoveryData, AfterGetRecoveryData, AfterStop
    <2>2. HeldRequests(w') = HeldRequests(w)
      BY <2>1, StopKeepsRecords DEF IInv, TypeOK
    <2>3. handed' = handed \/ handed' = HeldRequests(w)
      BY <1>4 DEF GetRecoveryData, RecoveryData, WrongMaster
    <2> QED
      BY <1>4, <2>2, <2>3 DEF GetRecoveryData
  <1>5. ASSUME NEW t \in Threads, StopAccepting(t) PROVE PromiseInv'
    <2>1. HeldRequests(w') = HeldRequests(w)
      BY <1>5, StopKeepsRecords DEF StopAccepting, IInv, TypeOK
    <2> QED
      BY <1>5, <2>1 DEF StopAccepting
  <1>6. ASSUME NEW t \in Threads, StopStatus(t) PROVE PromiseInv'
    BY <1>6 DEF StopStatus
  <1>7. ASSUME NEW m \in CallerIds, Reset(m) PROVE PromiseInv'
    BY <1>7 DEF Reset
  <1>8. CASE UNCHANGED vars
    BY <1>8 DEF vars
  <1> QED
    BY <1>1, <1>2, <1>3, <1>4, <1>5, <1>6, <1>7, <1>8 DEF Next

\* With unique request ids, both promises hold throughout (witness.cpp:14-183).
LEMMA PromiseInvariant ==
  ASSUME UniqueIds
  PROVE  Spec => []PromiseInv
PROOF
  <1>1. Init => PromiseInv
    BY DEF Init, PromiseInv, AcceptedIsHeld, RecoveryDataIsComplete
  <1>2. IInv /\ PromiseInv /\ [Next]_vars => PromiseInv'
    BY NextPromise
  <1> QED
    BY <1>1, <1>2, WitnessInvariant, PTL DEF Spec

(***************************************************************************)
(* With unique request ids, a request whose client read ACCEPTED stays in  *)
(* the witness until its master collects it or a reset comes               *)
(* (witness.cpp:14-138).                                                   *)
(***************************************************************************)
THEOREM PromisesKept ==
  ASSUME UniqueIds
  PROVE  Spec => []AcceptedIsHeld
PROOF
  <1>1. PromiseInv => AcceptedIsHeld
    BY DEF PromiseInv
  <1> QED
    BY <1>1, PromiseInvariant, PTL

(***************************************************************************)
(* With unique request ids, recovery data once handed out contains every   *)
(* promise the witness has made: no record() gets in behind it             *)
(* (witness.cpp:29, 140-183).                                              *)
(***************************************************************************)
THEOREM RecoveryMissesNothing ==
  ASSUME UniqueIds
  PROVE  Spec => []RecoveryDataIsComplete
PROOF
  <1>1. PromiseInv => RecoveryDataIsComplete
    BY DEF PromiseInv
  <1> QED
    BY <1>1, PromiseInvariant, PTL

(***************************************************************************)
(* No step replaces the request stored under a key by another one: the     *)
(* witness forces operations on a key apart (witness.cpp:66-80).           *)
(***************************************************************************)
THEOREM KeysNeverOverwritten == Spec => NoOverwrite
PROOF
  <1> DEFINE A == \A k \in Keys :
                    w.records[k] # NoRpc /\ w'.records[k] # NoRpc
                      => w'.records[k] = w.records[k]
  <1>1. ASSUME IInv, [Next]_vars PROVE A \/ UNCHANGED vars
    <2>1. w \in WitnessState
      BY <1>1 DEF IInv, TypeOK
    <2>2. ASSUME NEW t \in Threads, RecordFinish(t) PROVE A
      <3> DEFINE m == arg[t].master_id
                 q == arg[t].req
      <3>1. /\ m \in CallerIds /\ q.rpc_id \in RpcIds /\ q.key \in Keys
            /\ w' = AfterRecord(w, m, q.rpc_id, q.key)
        BY <1>1, <2>2, ServiceAssumption
        DEF IInv, MutexInv, RecordFinish, Calls, TypeOK
      <3> HIDE DEF m, q
      <3>2. CASE /\ RecordVerdict(w, m, q.rpc_id, q.key) = "ACCEPTED"
                 /\ q.rpc_id \notin w.rpc_ids
        <4>1. /\ q.key \notin HeldKeys(w)
              /\ \A l \in Keys : w'.records[l]
                                  = IF l = q.key THEN q.rpc_id ELSE w.records[l]
          BY <2>1, <3>1, <3>2, RecordStores
        <4> QED
          BY <4>1 DEF HeldKeys
      <3>3. CASE ~(/\ RecordVerdict(w, m, q.rpc_id, q.key) = "ACCEPTED"
                   /\ q.rpc_id \notin w.rpc_ids)
        BY <3>1, <3>3, RecordKeeps
      <3> QED
        BY <3>2, <3>3
    <2>3. ASSUME NEW m \in CallerIds, NEW entries \in SUBSET Requests,
                 GarbageCollect(m, entries)
          PROVE  A
      <3>1. \A l \in HeldKeys(w') : w'.records[l] = w.records[l]
        BY <2>1, <2>3, CollectRemoves DEF GarbageCollect
      <3> QED
        BY <3>1 DEF HeldKeys
    <2>4. ASSUME NEW m \in CallerIds, GetRecoveryData(m) PROVE A
      <3>1. w' = w \/ w' = AfterStop(w)
        BY <2>4 DEF GetRecoveryData, AfterGetRecoveryData, AfterStop
      <3> QED
        BY <2>1, <3>1, StopKeepsRecords
    <2>5. ASSUME NEW t \in Threads, StopAccepting(t) PROVE A
      BY <2>1, <2>5, StopKeepsRecords DEF StopAccepting
    <2>6. ASSUME NEW m \in CallerIds, Reset(m) PROVE A
      BY <2>6 DEF Reset, AfterReset
    <2>7. ASSUME NEW t \in Threads, StopStatus(t) PROVE A
      BY <2>7 DEF StopStatus
    <2>8. ASSUME NEW t \in Threads, NEW c \in Calls, RecordEnter(t, c) PROVE A
      BY <2>8 DEF RecordEnter
    <2> QED
      BY <1>1, <2>2, <2>3, <2>4, <2>5, <2>6, <2>7, <2>8 DEF Next
  <1> QED
    BY <1>1, WitnessInvariant, PTL DEF Spec, NoOverwrite
=============================================================================
