--------------------------- MODULE TestBaseProofs ---------------------------
(***************************************************************************)
(* The test harness, for any nodes, delays, clients and keys and any       *)
(* number of messages and operations.  The three parts have an invariant   *)
(* each; a step of one leaves the variables of the others alone.           *)
(***************************************************************************)
EXTENDS TestBase, FiniteSetTheorems, TLAPS

-----------------------------------------------------------------------------
(* The network simulator *)

\* A message in the queue has a number that was given to it alone.
QueueInv ==
  /\ IsFiniteSet(message_queue)
  /\ \A m \in message_queue :
       /\ m.id \in Nat /\ m.id < sent
       /\ m.deliver_time \in Nat

\* What is due was handed over before the clock went on.
ClockInv ==
  /\ current_time \in 0..MaxTime /\ latest \in Nat
  /\ latest <= current_time

NetInv ==
  /\ {dropped_count, delivered_count, unhandled, sent} \subseteq Nat
  /\ default_delay \in Ranges
  /\ \A p \in DOMAIN delay_config : delay_config[p] \in Ranges
  /\ QueueInv /\ ClockInv
  /\ DeliversInOrder

\* A step that leaves the queue and the counters alone, and the clock as it is
\* or later.
LEMMA NetQuietStep ==
  ASSUME NetInv, UNCHANGED <<message_queue, counters>>,
         current_time' \in current_time..MaxTime,
         default_delay' = default_delay,
         \A p \in DOMAIN delay_config' : delay_config'[p] \in Ranges
  PROVE  NetInv'
PROOF
  <1>1. /\ message_queue' = message_queue /\ sent' = sent /\ latest' = latest
        /\ dropped_count' = dropped_count /\ delivered_count' = delivered_count
        /\ unhandled' = unhandled
    BY DEF counters
  <1>2. QueueInv' /\ DeliversInOrder'
    BY <1>1 DEF NetInv, QueueInv, DeliversInOrder
  <1>3. ClockInv'
    BY <1>1, NetworkAssumption DEF NetInv, ClockInv
  <1> QED
    BY <1>1, <1>2, <1>3 DEF NetInv

\* Nothing sent now is due before what was handed over last.
LEMMA SendStep ==
  ASSUME NetInv, NEW from \in Peers, NEW to \in Peers, send_message(from, to)
  PROVE  NetInv'
PROOF
  <1>1. /\ {dropped_count, delivered_count, unhandled, sent} \subseteq Nat
        /\ current_time \in 0..MaxTime /\ latest \in Nat /\ latest <= current_time
        /\ IsFiniteSet(message_queue)
    BY DEF NetInv, QueueInv, ClockInv
  <1>2. /\ sent' = sent + 1 /\ current_time' = current_time /\ latest' = latest
        /\ delivered_count' = delivered_count /\ unhandled' = unhandled
        /\ default_delay' = default_delay /\ delay_config' = delay_config
    BY DEF send_message, config
  <1>3. ClockInv'
    BY <1>1, <1>2 DEF ClockInv
  <1>4. CASE dropped_count' = dropped_count + 1 /\ message_queue' = message_queue
    <2>1. QueueInv'
      BY <1>1, <1>2, <1>4 DEF NetInv, QueueInv
    <2>2. Cardinality(message_queue) \in Nat
      BY <1>1, FS_CardinalityType
    <2>3. DeliversInOrder'
      BY <1>1, <1>2, <1>4, <2>2 DEF NetInv, DeliversInOrder
    <2> QED
      BY <1>1, <1>2, <1>3, <1>4, <2>1, <2>3 DEF NetInv
  <1>5. CASE /\ dropped_count' = dropped_count
             /\ \E delay \in get_delay(from, to) :
                  message_queue' = message_queue \cup
                    {[id |-> sent, to |-> to, deliver_time |-> current_time + delay]}
    <2>1. PICK delay \in get_delay(from, to) :
            message_queue' = message_queue \cup
              {[id |-> sent, to |-> to, deliver_time |-> current_time + delay]}
      BY <1>5
    <2> DEFINE new == [id |-> sent, to |-> to, deliver_time |-> current_time + delay]
    <2>2. \A r \in Ranges : r[1] \in Nat /\ r[2] \in Nat
      BY NetworkAssumption
    <2>3. delay \in Nat
      BY <2>2 DEF get_delay, NetInv
    <2>4. new \notin message_queue
      BY <1>1 DEF NetInv, QueueInv
    <2>5. /\ IsFiniteSet(message_queue')
          /\ Cardinality(message_queue') = Cardinality(message_queue) + 1
          /\ Cardinality(message_queue) \in Nat
      <3> HIDE DEF new
      <3> QED
        BY <1>1, <2>1, <2>4, FS_AddElement, FS_CardinalityType DEF new
    <2>6. QueueInv'
      BY <1>1, <1>2, <2>1, <2>3, <2>5 DEF NetInv, QueueInv
    <2>7. \A m \in message_queue' : latest' <= m.deliver_time
      BY <1>1, <1>2, <2>1, <2>3 DEF NetInv, DeliversInOrder
    <2>8. DeliversInOrder'
      BY <1>1, <1>2, <1>5, <2>5, <2>7 DEF NetInv, DeliversInOrder
    <2> QED
      BY <1>1, <1>2, <1>3, <1>5, <2>6, <2>8 DEF NetInv
  <1> QED
    BY <1>4, <1>5 DEF send_message

\* What is handed over is at the top of the queue, and due.
LEMMA DeliverStep ==
  ASSUME NetInv, NEW m \in message_queue, WorkerDeliver(m)
  PROVE  NetInv'
PROOF
  <1>1. /\ {dropped_count, delivered_count, unhandled, sent} \subseteq Nat
        /\ current_time \in 0..MaxTime
        /\ IsFiniteSet(message_queue)
        /\ \A k \in message_queue : k.deliver_time \in Nat
    BY DEF NetInv, QueueInv, ClockInv
  <1>2. /\ message_queue' = message_queue \ {m}
        /\ latest' = m.deliver_time /\ m.deliver_time <= current_time
        /\ current_time' = current_time /\ sent' = sent /\ dropped_count' = dropped_count
        /\ default_delay' = default_delay /\ delay_config' = delay_config
        /\ \A k \in message_queue : m.deliver_time <= k.deliver_time
    BY DEF WorkerDeliver, Top, config
  <1>3. /\ delivered_count' \in Nat /\ unhandled' \in Nat
        /\ delivered_count' + unhandled' = delivered_count + unhandled + 1
    BY <1>1 DEF WorkerDeliver
  <1>4. /\ IsFiniteSet(message_queue')
        /\ Cardinality(message_queue') = Cardinality(message_queue) - 1
        /\ Cardinality(message_queue) \in Nat
    BY <1>1, <1>2, FS_RemoveElement, FS_CardinalityType
  <1>5. ClockInv'
    BY <1>1, <1>2 DEF ClockInv
  <1>6. QueueInv'
    BY <1>2, <1>4 DEF NetInv, QueueInv
  <1>7. DeliversInOrder'
    BY <1>1, <1>2, <1>3, <1>4 DEF NetInv, DeliversInOrder
  <1> QED
    BY <1>1, <1>2, <1>3, <1>5, <1>6, <1>7 DEF NetInv

LEMMA NetStep == NetInv /\ NetNext => NetInv'
PROOF
  <1> SUFFICES ASSUME NetInv, NetNext PROVE NetInv'
    OBVIOUS
  <1>0. current_time \in 0..MaxTime /\ MaxTime \in Nat
    BY NetworkAssumption DEF NetInv, ClockInv
  <1>1. CASE start \/ stop \/ heal
    <2>1. /\ UNCHANGED <<message_queue, counters>> /\ current_time' = current_time
          /\ default_delay' = default_delay /\ delay_config' = delay_config
      BY <1>1 DEF start, stop, heal, Configure, config
    <2> QED
      BY <1>0, <2>1, NetQuietStep DEF NetInv
  <1>2. CASE reset
    <2>1. /\ message_queue' = {} /\ delay_config' = <<>> /\ default_delay' = default_delay
          /\ dropped_count' = 0 /\ delivered_count' = 0 /\ current_time' = 0
          /\ sent' = 0 /\ unhandled' = 0 /\ latest' = 0
      BY <1>2 DEF reset
    <2>2. IsFiniteSet({}) /\ Cardinality({}) = 0
      BY FS_EmptySet
    <2>3. QueueInv' /\ DeliversInOrder'
      BY <2>1, <2>2 DEF QueueInv, DeliversInOrder
    <2>4. ClockInv'
      BY <1>0, <2>1 DEF ClockInv
    <2> QED
      BY <2>1, <2>3, <2>4 DEF NetInv
  <1>3. CASE \/ \E l \in BOOLEAN : set_packet_loss_rate(l)
             \/ \E cut \in Cuts : partition(cut)
             \/ \E n \in Peers : register_handler(n) \/ isolate_node(n) \/ reconnect_node(n)
    <2>1. /\ UNCHANGED <<message_queue, counters>> /\ current_time' = current_time
          /\ default_delay' = default_delay /\ delay_config' = delay_config
      BY <1>3 DEF set_packet_loss_rate, partition, register_handler, isolate_node,
                  reconnect_node, Configure
    <2> QED
      BY <1>0, <2>1, NetQuietStep DEF NetInv
  <1>4. ASSUME NEW ms \in 1..MaxTime, advance_time(ms)
        PROVE  NetInv'
    <2>1. /\ UNCHANGED <<message_queue, counters>> /\ current_time' = current_time + ms
          /\ current_time' <= MaxTime
          /\ default_delay' = default_delay /\ delay_config' = delay_config
      BY <1>4 DEF advance_time, config
    <2> QED
      BY <1>0, <2>1, NetQuietStep DEF NetInv
  <1>5. ASSUME NEW n \in Peers, NEW m \in Peers, NEW r \in Ranges, set_delay(n, m, r)
        PROVE  NetInv'
    <2>1. /\ UNCHANGED <<message_queue, counters>> /\ current_time' = current_time
          /\ default_delay' = default_delay
          /\ delay_config' = [p \in DOMAIN delay_config \cup {<<n, m>>} |->
                               IF p = <<n, m>> THEN r ELSE delay_config[p]]
      BY <1>5 DEF set_delay, Configure
    <2>2. \A p \in DOMAIN delay_config' : delay_config'[p] \in Ranges
      BY <2>1 DEF NetInv
    <2> QED
      BY <1>0, <2>1, <2>2, NetQuietStep
  <1>6. CASE WorkerTest \/ WorkerUnlock
    <2>1. /\ UNCHANGED <<message_queue, counters>> /\ current_time' = current_time
          /\ default_delay' = default_delay /\ delay_config' = delay_config
      BY <1>6 DEF WorkerTest, WorkerUnlock, config
    <2> QED
      BY <1>0, <2>1, NetQuietStep DEF NetInv
  <1>7. CASE WorkerWake
    <2>1. /\ UNCHANGED <<message_queue, counters>>
          /\ default_delay' = default_delay /\ delay_config' = delay_config
      BY <1>7 DEF WorkerWake, config
    <2>2. current_time' \in current_time..MaxTime
      BY <1>0, <1>7 DEF WorkerWake
    <2> QED
      BY <2>1, <2>2, NetQuietStep DEF NetInv
  <1> QED
    BY <1>1, <1>2, <1>3, <1>4, <1>5, <1>6, <1>7, SendStep, DeliverStep DEF NetNext, Worker
-----------------------------------------------------------------------------
(* The node controller *)

\* What a master has not synced was counted when it was proposed.
UnsyncedCounted ==
  \A m \in DOMAIN masters : masters[m].unsynced => node_stats[m]["fast"] > 0

NodesInv ==
  /\ DOMAIN masters \subseteq Ids
  /\ \A m \in DOMAIN masters : masters[m] \in [killed : BOOLEAN, unsynced : BOOLEAN]
  /\ node_stats \in [Ids -> [Counters -> Nat]]
  /\ UnsyncedCounted
  /\ HangsOnlyUnsynced

\* Without a hang there is nothing to say of one.
LEMMA NoHang ==
  ASSUME hung = {}, hung' = hung PROVE HangsOnlyUnsynced'
  BY DEF HangsOnlyUnsynced

\* A counted operation adds to what was counted.
LEMMA CountedStep ==
  ASSUME NodesInv, NEW n \in Ids, NEW outcome \in {"fast", "slow", "failed"},
         Counted(n, outcome)
  PROVE  /\ node_stats' \in [Ids -> [Counters -> Nat]]
         /\ \A m \in Ids : node_stats[m]["fast"] > 0 => node_stats'[m]["fast"] > 0
         /\ outcome = "fast" => node_stats'[n]["fast"] > 0
         /\ HangsOnlyUnsynced'
PROOF
  <1>1. /\ node_stats \in [Ids -> [Counters -> Nat]]
        /\ node_stats[n] \in [Counters -> Nat]
    BY DEF NodesInv
  <1> DEFINE new == [f \in Counters |->
                       node_stats[n][f] + (IF f \in {"total", outcome} THEN 1 ELSE 0)]
  <1>2. node_stats' = [node_stats EXCEPT ![n] = new]
    BY DEF Counted
  <1>3. \A f \in Counters :
          /\ node_stats[n][f] \in Nat
          /\ new[f] = node_stats[n][f] \/ new[f] = node_stats[n][f] + 1
          /\ f = outcome => new[f] = node_stats[n][f] + 1
    BY <1>1
  <1>4. new \in [Counters -> Nat]
    BY <1>3
  <1>5. "fast" \in Counters
    BY DEF Counters
  <1>6. HangsOnlyUnsynced'
    BY NoHang DEF Counted, MutexFree
  <1> HIDE DEF new
  <1>7. node_stats' \in [Ids -> [Counters -> Nat]]
    BY <1>1, <1>2, <1>4
  <1>8. ASSUME NEW m \in Ids, node_stats[m]["fast"] > 0
        PROVE  node_stats'[m]["fast"] > 0
    BY <1>1, <1>2, <1>3, <1>5, <1>8
  <1>9. outcome = "fast" => node_stats'[n]["fast"] > 0
    BY <1>1, <1>2, <1>3, <1>5
  <1> QED
    BY <1>6, <1>7, <1>8, <1>9

LEMMA NodesStep == NodesInv /\ NodesNext => NodesInv'
PROOF
  <1> SUFFICES ASSUME NodesInv, NEW n \in Ids,
                      \/ create_master(n) \/ create_witness(n) \/ create_client(n)
                      \/ \E w \in Ids : bind_witness_to_master(n, w)
                      \/ start_node(n) \/ stop_node(n) \/ crash_node(n) \/ recover_node(n)
                      \/ Restart(n) \/ RestartEnd(n)
                      \/ client_write(n) \/ master_propose(n) \/ SyncWorker(n)
               PROVE  NodesInv'
    BY DEF NodesNext
  <1>1. CASE create_master(n)
    <2> DEFINE new == [killed |-> FALSE, unsynced |-> FALSE]
    <2>1. /\ masters' = Put(masters, n, new)
          /\ node_stats' = node_stats /\ HangsOnlyUnsynced'
      BY <1>1, NoHang DEF create_master, Created, MutexFree
    <2>2. new \in [killed : BOOLEAN, unsynced : BOOLEAN] /\ ~new.unsynced
      OBVIOUS
    <2> HIDE DEF new
    <2>3. /\ DOMAIN masters' = DOMAIN masters \cup {n}
          /\ \A m \in DOMAIN masters' :
               \/ m = n /\ masters'[m] = new
               \/ m \in DOMAIN masters /\ masters'[m] = masters[m]
      BY <2>1 DEF Put
    <2> QED
      BY <2>1, <2>2, <2>3 DEF NodesInv, UnsyncedCounted
  <1>2. CASE UNCHANGED <<masters, node_stats>> /\ HangsOnlyUnsynced'
    BY <1>2 DEF NodesInv, UnsyncedCounted
  <1>3. CASE create_witness(n) \/ create_client(n) \/ start_node(n)
    BY <1>2, <1>3, NoHang DEF create_witness, create_client, start_node, Created, MutexFree
  <1>4. ASSUME NEW w \in Ids, bind_witness_to_master(n, w)
        PROVE  NodesInv'
    BY <1>2, <1>4, NoHang DEF bind_witness_to_master, MutexFree
  <1>5. ASSUME NEW state, TakeDown(n, state)
        PROVE  NodesInv'
    <2>1. node_stats' = node_stats /\ HangsOnlyUnsynced'
      BY <1>5, NoHang DEF TakeDown, MutexFree
    <2>2. DOMAIN masters' = DOMAIN masters
      BY <1>5 DEF TakeDown
    <2>3. \A m \in DOMAIN masters :
            /\ masters'[m] \in [killed : BOOLEAN, unsynced : BOOLEAN]
            /\ masters'[m].unsynced = masters[m].unsynced
      BY <1>5 DEF TakeDown, NodesInv
    <2> QED
      BY <2>1, <2>2, <2>3 DEF NodesInv, UnsyncedCounted
  <1>6. ASSUME Recovered(n)
        PROVE  NodesInv'
    <2>1. UNCHANGED <<masters, node_types, node_stats>>
      BY <1>6 DEF Recovered, nodes
    <2>2. CASE RecoverHangs(n) /\ hung' = {n}
      BY <1>2, <2>1, <2>2 DEF RecoverHangs, HangsOnlyUnsynced, NodesInv, UnsyncedCounted
    <2>3. CASE hung' = hung
      BY <1>2, <1>6, <2>1, <2>3, NoHang DEF Recovered, MutexFree
    <2> QED
      BY <1>6, <2>2, <2>3 DEF Recovered
  <1>7. CASE client_write(n)
    <2>1. PICK outcome \in {"fast", "slow"} : Counted(n, outcome)
      BY <1>7 DEF client_write
    <2>2. masters' = masters
      BY <1>7 DEF client_write
    <2> QED
      BY <2>1, <2>2, CountedStep DEF NodesInv, UnsyncedCounted
  <1>8. CASE master_propose(n)
    <2>1. CASE UNCHANGED masters
      <3>1. PICK outcome \in {"fast", "failed"} : Counted(n, outcome)
        BY <1>8 DEF master_propose
      <3> QED
        BY <2>1, <3>1, CountedStep DEF NodesInv, UnsyncedCounted
    <2>2. CASE Counted(n, "fast") /\ masters' = [masters EXCEPT ![n].unsynced = TRUE]
      <3>1. DOMAIN masters' = DOMAIN masters
        BY <2>2
      <3>2. \A m \in DOMAIN masters :
              /\ masters'[m] \in [killed : BOOLEAN, unsynced : BOOLEAN]
              /\ m # n => masters'[m] = masters[m]
        BY <2>2 DEF NodesInv
      <3> QED
        BY <2>2, <3>1, <3>2, CountedStep DEF NodesInv, UnsyncedCounted
    <2> QED
      BY <1>8, <2>1, <2>2 DEF master_propose
  <1>9. CASE SyncWorker(n)
    <2>1. /\ masters' = [masters EXCEPT ![n].unsynced = FALSE] /\ n \notin hung
          /\ UNCHANGED <<node_types, node_stats, hung>>
      BY <1>9 DEF SyncWorker, nodes
    <2>2. DOMAIN masters' = DOMAIN masters
      BY <2>1
    <2>3. \A m \in DOMAIN masters :
            /\ masters'[m] \in [killed : BOOLEAN, unsynced : BOOLEAN]
            /\ m # n => masters'[m] = masters[m]
            /\ m = n => masters'[m].unsynced = FALSE
      BY <2>1 DEF NodesInv
    <2>4. UnsyncedCounted' /\ HangsOnlyUnsynced'
      BY <2>1, <2>2, <2>3 DEF NodesInv, UnsyncedCounted, HangsOnlyUnsynced
    <2> QED
      BY <2>1, <2>2, <2>3, <2>4 DEF NodesInv
  <1>10. CASE \/ stop_node(n) \/ crash_node(n) \/ recover_node(n)
              \/ Restart(n) \/ RestartEnd(n)
    BY <1>5, <1>6, <1>10 DEF stop_node, crash_node, recover_node, Restart, RestartEnd
  <1> QED
    BY <1>1, <1>3, <1>4, <1>7, <1>8, <1>9, <1>10
-----------------------------------------------------------------------------
(* The consistency checker *)

OpRecord == [ key : Keys, start_time : Nat, end_time : Nat, success : BOOLEAN,
              fast_path : BOOLEAN, ended : BOOLEAN ]

\* Only what has ended counts as a success, and it ended after it began.
RecordInv ==
  /\ clock \in Nat
  /\ operations \in Seq(OpRecord)
  /\ DOMAIN before = DOMAIN operations
  /\ \A i \in DOMAIN operations :
       LET a == operations[i] IN
       /\ a.start_time <= clock
       /\ a.success => a.ended
       /\ a.ended => a.start_time <= a.end_time

\* Records are in the order of their start, and one that had not ended at
\* the start of another does not end before it.
OrderInv ==
  \A i, j \in DOMAIN operations : i < j =>
    /\ operations[i].start_time <= operations[j].start_time
    /\ operations[i].ended /\ i \notin before[j]
         => operations[j].start_time <= operations[i].end_time

CheckerInv ==
  /\ op_ids \in [Clients -> {NoWrite} \cup Nat]
  /\ RecordInv /\ OrderInv
  /\ OverlapsAreFlagged

\* A new record starts last, at the present time.
LEMMA RecordStep ==
  ASSUME CheckerInv, NEW r \in OpRecord, Record(r), clock' = clock,
         r.start_time = clock, r.success => r.ended, r.ended => r.end_time = clock,
         op_ids' \in [Clients -> {NoWrite} \cup Nat]
  PROVE  CheckerInv'
PROOF
  <1> DEFINE N == Len(operations)
  <1>1. /\ operations \in Seq(OpRecord) /\ N \in Nat /\ clock \in Nat
        /\ DOMAIN operations = 1..N /\ DOMAIN before = 1..N
        /\ \A i \in 1..N : operations[i] \in OpRecord
    BY DEF CheckerInv, RecordInv
  <1>2. /\ operations' = Append(operations, r)
        /\ before' = Append(before, {i \in DOMAIN operations : operations[i].ended})
        /\ checked' = FALSE
    BY DEF Record
  <1>3. /\ operations' \in Seq(OpRecord) /\ DOMAIN operations' = 1..(N + 1)
        /\ \A i \in 1..N : operations'[i] = operations[i]
        /\ operations'[N + 1] = r
    BY <1>1, <1>2
  <1>4. /\ DOMAIN before' = 1..(N + 1)
        /\ \A i \in 1..N : before'[i] = before[i]
        /\ before'[N + 1] = {i \in 1..N : operations[i].ended}
    BY <1>1, <1>2
  <1>5. RecordInv'
    <2>1. ASSUME NEW i \in 1..(N + 1)
          PROVE  /\ operations'[i].start_time <= clock
                 /\ operations'[i].success => operations'[i].ended
                 /\ operations'[i].ended
                      => operations'[i].start_time <= operations'[i].end_time
      <3>1. CASE i = N + 1
        BY <1>1, <1>3, <3>1
      <3>2. CASE i # N + 1
        <4>1. i \in 1..N /\ operations'[i] = operations[i]
          BY <1>1, <1>3, <3>2
        <4> QED
          BY <1>1, <4>1 DEF CheckerInv, RecordInv
      <3> QED
        BY <3>1, <3>2
    <2> QED
      BY <1>1, <1>3, <1>4, <2>1 DEF RecordInv
  <1>6. OrderInv'
    <2> SUFFICES ASSUME NEW i \in 1..(N + 1), NEW j \in 1..(N + 1), i < j
                 PROVE  /\ operations'[i].start_time <= operations'[j].start_time
                        /\ operations'[i].ended /\ i \notin before'[j]
                             => operations'[j].start_time <= operations'[i].end_time
      BY <1>3 DEF OrderInv
    <2>1. CASE j = N + 1
      BY <1>1, <1>3, <1>4, <2>1 DEF CheckerInv, RecordInv
    <2>2. CASE j # N + 1
      BY <1>1, <1>3, <1>4, <2>2 DEF CheckerInv, OrderInv
    <2> QED
      BY <2>1, <2>2
  <1> QED
    BY <1>2, <1>5, <1>6 DEF CheckerInv, OverlapsAreFlagged

\* A record that ends, or ends again, ends at the present time.
LEMMA EndStep ==
  ASSUME CheckerInv, NEW c \in Clients, NEW success \in BOOLEAN, NEW fast \in BOOLEAN,
         record_write_end(c, success, fast)
  PROVE  CheckerInv'
PROOF
  <1> DEFINE k == op_ids[c]
             N == Len(operations)
  <1>1. /\ operations \in Seq(OpRecord) /\ N \in Nat /\ clock \in Nat
        /\ DOMAIN operations = 1..N /\ DOMAIN before = 1..N
        /\ \A i \in 1..N : operations[i] \in OpRecord
    BY DEF CheckerInv, RecordInv
  <1>2. /\ op_ids' = [op_ids EXCEPT ![c] = NoWrite]
        /\ clock' = clock /\ before' = before /\ violations' = violations
    BY DEF record_write_end
  <1>3. op_ids' \in [Clients -> {NoWrite} \cup Nat]
    BY <1>2 DEF CheckerInv
  <1>4. CASE UNCHANGED <<operations, checked>>
    BY <1>2, <1>3, <1>4 DEF CheckerInv, RecordInv, OrderInv, OverlapsAreFlagged
  <1>5. CASE /\ k \in 1..N /\ checked' = FALSE
             /\ operations' = [operations EXCEPT
                  ![k] = [@ EXCEPT !.end_time = clock, !.success = success,
                                   !.fast_path = fast, !.ended = TRUE]]
    <2> DEFINE r == [operations[k] EXCEPT !.end_time = clock, !.success = success,
                                          !.fast_path = fast, !.ended = TRUE]
    <2>1. /\ r \in OpRecord /\ r.end_time = clock /\ r.ended
          /\ r.start_time = operations[k].start_time
      BY <1>1, <1>5 DEF OpRecord
    <2>2. /\ operations' \in Seq(OpRecord) /\ DOMAIN operations' = 1..N
          /\ operations'[k] = r
          /\ \A i \in 1..N : i # k => operations'[i] = operations[i]
      <3>1. k \in 1..N /\ operations' = [operations EXCEPT ![k] = r]
        BY <1>5
      <3> HIDE DEF r, k
      <3> QED
        BY <1>1, <2>1, <3>1
    <2> HIDE DEF r, k
    <2>3. \A i \in 1..N : operations'[i] \in OpRecord
      BY <1>1, <2>1, <2>2
    <2>4. RecordInv'
      BY <1>1, <1>2, <2>1, <2>2, <2>3 DEF CheckerInv, RecordInv
    <2>5. OrderInv'
      <3> SUFFICES ASSUME NEW i \in 1..N, NEW j \in 1..N, i < j
                   PROVE  /\ operations'[i].start_time <= operations'[j].start_time
                          /\ operations'[i].ended /\ i \notin before[j]
                               => operations'[j].start_time <= operations'[i].end_time
        BY <1>2, <2>2 DEF OrderInv
      <3>1. /\ operations'[i].start_time = operations[i].start_time
            /\ operations'[j].start_time = operations[j].start_time
            /\ operations[j].start_time <= clock
        BY <1>1, <2>1, <2>2 DEF CheckerInv, RecordInv
      <3> QED
        BY <1>1, <2>1, <2>2, <3>1 DEF CheckerInv, OrderInv
    <2> QED
      BY <1>3, <1>5, <2>4, <2>5 DEF CheckerInv, OverlapsAreFlagged
  <1> QED
    BY <1>1, <1>4, <1>5 DEF record_write_end

\* The check finds each pair of which neither had ended when the other began.
LEMMA CheckStep ==
  ASSUME CheckerInv, check_linearizability
  PROVE  CheckerInv'
PROOF
  <1> DEFINE N == Len(operations)
  <1>1. /\ N \in Nat /\ DOMAIN operations = 1..N
        /\ \A i \in 1..N : operations[i] \in OpRecord
    BY DEF CheckerInv, RecordInv
  <1>2. /\ operations' = operations /\ before' = before /\ op_ids' = op_ids
        /\ clock' = clock
    BY DEF check_linearizability
  <1>3. ASSUME NEW i \in 1..N, NEW j \in 1..N, i < j,
               operations[i].success, operations[j].success, i \notin before[j]
        PROVE  Overlap(operations[i], operations[j])
    <2>1. /\ operations[i].ended /\ operations[j].ended
          /\ operations[j].start_time <= operations[j].end_time
      BY <1>1, <1>3 DEF CheckerInv, RecordInv
    <2>2. /\ operations[i].start_time <= operations[j].start_time
          /\ operations[j].start_time <= operations[i].end_time
      BY <1>1, <1>3, <2>1 DEF CheckerInv, OrderInv
    <2>3. /\ operations[i].start_time \in Nat /\ operations[i].end_time \in Nat
          /\ operations[j].start_time \in Nat /\ operations[j].end_time \in Nat
      BY <1>1 DEF OpRecord
    <2> QED
      BY <2>1, <2>2, <2>3 DEF Overlap
  <1>4. OverlapsAreFlagged'
    BY <1>1, <1>2, <1>3 DEF OverlapsAreFlagged, check_linearizability
  <1>5. RecordInv' /\ OrderInv'
    BY <1>2 DEF CheckerInv, RecordInv, OrderInv
  <1> QED
    BY <1>2, <1>4, <1>5 DEF CheckerInv

LEMMA CheckerStep == CheckerInv /\ CheckerNext => CheckerInv'
PROOF
  <1> SUFFICES ASSUME CheckerInv, CheckerNext PROVE CheckerInv'
    OBVIOUS
  <1>0. clock \in Nat /\ Len(operations) \in Nat /\ MaxClock \in Nat
    BY CheckerAssumption DEF CheckerInv, RecordInv
  <1>1. ASSUME NEW c \in Clients, NEW key \in Keys, record_write_start(c, key)
        PROVE  CheckerInv'
    <2>1. CASE enabled
      <3>1. PICK end \in 0..MaxClock, fast \in BOOLEAN :
              Record([ key |-> key, start_time |-> clock, end_time |-> end,
                       success |-> FALSE, fast_path |-> fast, ended |-> FALSE ])
        BY <1>1, <2>1 DEF record_write_start
      <3> DEFINE r == [ key |-> key, start_time |-> clock, end_time |-> end,
                        success |-> FALSE, fast_path |-> fast, ended |-> FALSE ]
      <3>2. r \in OpRecord /\ r.start_time = clock /\ ~r.success /\ ~r.ended
        BY <1>0 DEF OpRecord
      <3>3. op_ids' \in [Clients -> {NoWrite} \cup Nat] /\ clock' = clock
        BY <1>0, <1>1, <2>1 DEF record_write_start, CheckerInv
      <3> HIDE DEF r
      <3> QED
        BY <3>1, <3>2, <3>3, RecordStep DEF r
    <2>2. CASE ~enabled
      BY <1>1, <2>2 DEF record_write_start, CheckerInv, RecordInv, OrderInv,
                        OverlapsAreFlagged
    <2> QED
      BY <2>1, <2>2
  <1>2. ASSUME NEW key \in Keys, NEW success \in BOOLEAN, record_read(key, success)
        PROVE  CheckerInv'
    <2>1. PICK fast \in BOOLEAN :
            Record([ key |-> key, start_time |-> clock, end_time |-> clock,
                     success |-> success, fast_path |-> fast, ended |-> TRUE ])
      BY <1>2 DEF record_read
    <2> DEFINE r == [ key |-> key, start_time |-> clock, end_time |-> clock,
                      success |-> success, fast_path |-> fast, ended |-> TRUE ]
    <2>2. r \in OpRecord /\ r.start_time = clock /\ r.ended /\ r.end_time = clock
      BY <1>0 DEF OpRecord
    <2>3. op_ids' = op_ids /\ clock' = clock
      BY <1>2 DEF record_read
    <2> HIDE DEF r
    <2> QED
      BY <2>1, <2>2, <2>3, RecordStep DEF r, CheckerInv
  <1>3. CASE resetChecker
    BY <1>3 DEF resetChecker, CheckerInv, RecordInv, OrderInv, OverlapsAreFlagged
  <1>4. CASE ClockTick
    <2>1. \A i \in DOMAIN operations : operations[i] \in OpRecord
      BY DEF CheckerInv, RecordInv
    <2>2. \A i \in DOMAIN operations : operations[i].start_time <= clock + 1
      BY <1>0, <2>1 DEF CheckerInv, RecordInv, OpRecord
    <2>3. RecordInv'
      <3>1. clock' = clock + 1 /\ operations' = operations /\ before' = before
        BY <1>4 DEF ClockTick
      <3>2. \A i \in DOMAIN operations :
              /\ operations[i].success => operations[i].ended
              /\ operations[i].ended => operations[i].start_time <= operations[i].end_time
        BY DEF CheckerInv, RecordInv
      <3>3. operations \in Seq(OpRecord) /\ DOMAIN before = DOMAIN operations
        BY DEF CheckerInv, RecordInv
      <3>4. clock + 1 \in Nat
        BY <1>0
      <3> QED
        BY <2>2, <3>1, <3>2, <3>3, <3>4 DEF RecordInv
    <2> QED
      BY <1>4, <2>3 DEF ClockTick, CheckerInv, OrderInv, OverlapsAreFlagged
  <1>5. ASSUME NEW e \in BOOLEAN, SetEnabled(e)
        PROVE  CheckerInv'
    BY <1>5 DEF SetEnabled, CheckerInv, RecordInv, OrderInv, OverlapsAreFlagged
  <1> QED
    BY <1>1, <1>2, <1>3, <1>4, <1>5, EndStep, CheckStep DEF CheckerNext

-----------------------------------------------------------------------------
(* The harness *)

HarnessInv == NetInv /\ NodesInv /\ CheckerInv

LEMMA HarnessInit == Init => HarnessInv
PROOF
  <1> SUFFICES ASSUME Init PROVE HarnessInv
    OBVIOUS
  <1>1. NetInv
    <2>1. IsFiniteSet({}) /\ Cardinality({}) = 0
      BY FS_EmptySet
    <2> QED
      BY <2>1, NetworkAssumption
         DEF Init, NetInit, NetInv, QueueInv, ClockInv, DeliversInOrder
  <1>2. NodesInv
    BY DEF Init, NodesInit, NodesInv, UnsyncedCounted, HangsOnlyUnsynced
  <1>3. CheckerInv
    BY DEF Init, CheckerInit, CheckerInv, RecordInv, OrderInv, OverlapsAreFlagged
  <1> QED
    BY <1>1, <1>2, <1>3 DEF HarnessInv

LEMMA HarnessStep == HarnessInv /\ [Next]_vars => HarnessInv'
PROOF
  <1> SUFFICES ASSUME HarnessInv, [Next]_vars PROVE HarnessInv'
    OBVIOUS
  <1>1. UNCHANGED netVars => NetInv'
    BY DEF HarnessInv, netVars, config, counters, NetInv, QueueInv, ClockInv, DeliversInOrder
  <1>2. UNCHANGED nodeVars => NodesInv'
    BY DEF HarnessInv, nodeVars, nodes, NodesInv, UnsyncedCounted, HangsOnlyUnsynced
  <1>3. UNCHANGED checkerVars => CheckerInv'
    BY DEF HarnessInv, checkerVars, CheckerInv, RecordInv, OrderInv, OverlapsAreFlagged
  <1> QED
    BY <1>1, <1>2, <1>3, NetStep, NodesStep, CheckerStep DEF HarnessInv, Next, vars

(***************************************************************************)
(* The simulator hands messages over in the order of their deliver_time    *)
(* and accounts for each, for any delays, partitions, losses and moves of  *)
(* the clock (network_simulator.cpp:68-101, 171-199).                      *)
(***************************************************************************)
THEOREM MessagesInOrder == Spec => []DeliversInOrder
PROOF
  <1>1. HarnessInv => DeliversInOrder
    BY DEF HarnessInv, NetInv
  <1> QED
    BY <1>1, HarnessInit, HarnessStep, PTL DEF Spec

(***************************************************************************)
(* The controller hangs only in the recover() of a master that executed    *)
(* what the controller proposed to it and has not synced it, in every      *)
(* order of calls and with any reuse of ids (node_controller.cpp:95-111).  *)
(***************************************************************************)
THEOREM NoOtherHang == Spec => []HangsOnlyUnsynced
PROOF
  <1>1. HarnessInv => HangsOnlyUnsynced
    BY DEF HarnessInv, NodesInv
  <1> QED
    BY <1>1, HarnessInit, HarnessStep, PTL DEF Spec

(***************************************************************************)
(* The checker misses no overlap of operations recorded as successful and  *)
(* fast, whatever the order in which clients end, ids reused included      *)
(* (consistency_checker.cpp:20-99, 110-151).                               *)
(***************************************************************************)
THEOREM NoOverlapMissed == Spec => []OverlapsAreFlagged
PROOF
  <1>1. HarnessInv => OverlapsAreFlagged
    BY DEF HarnessInv, CheckerInv
  <1> QED
    BY <1>1, HarnessInit, HarnessStep, PTL DEF Spec
=============================================================================
