-------------------------- MODULE NetworkSimulator --------------------------
(***************************************************************************)
(* NetworkSimulator (network_simulator.h, network_simulator.cpp): a queue  *)
(* of delayed messages and the worker thread that hands them over.  All    *)
(* operations hold mtx_; the worker holds it for a whole turn, calls of    *)
(* handlers included, and so a handler must not call the simulator.  One   *)
(* test thread calls the operations: it waits for the worker in stop().    *)
(***************************************************************************)
EXTENDS Integers, FiniteSets

CONSTANTS
  Peers,          \* node ids
  Ranges,         \* the <<min_ms, max_ms>> that delays are set to
  Cuts,           \* the pairs of groups that partition() is called with
  MaxTime,        \* bound: simulated milliseconds
  MaxSent         \* bound: messages sent

ASSUME NetworkAssumption ==
  /\ \A r \in Ranges : r \in Nat \X Nat /\ r[1] <= r[2]
  /\ Cuts \subseteq (SUBSET Peers) \X (SUBSET Peers)
  /\ MaxTime \in Nat /\ MaxSent \in Nat

VARIABLES
  running, worker, message_queue, handlers, lossy, default_delay,
  delay_config, isolated_nodes, partitions, current_time,
  dropped_count, delivered_count,
  \* History, read by the properties only.
  sent,           \* messages sent since the last reset
  unhandled,      \* messages for nodes without a handler, in no counter
  latest          \* deliver_time of the message handed over last

config == <<handlers, lossy, default_delay, delay_config, isolated_nodes, partitions>>
counters == <<dropped_count, delivered_count, sent, unhandled, latest>>
netVars == <<running, worker, message_queue, config, current_time, counters>>

\* The worker is at the head of its "loop", "asleep", in a "turn" with the
\* lock, or has "ended".
NetInit ==
  /\ running = TRUE /\ worker = "loop"
  /\ message_queue = {}
  /\ handlers = {} /\ lossy = FALSE /\ default_delay \in Ranges
  /\ delay_config = <<>> /\ isolated_nodes = {} /\ partitions = {}
  /\ current_time = 0
  /\ dropped_count = 0 /\ delivered_count = 0
  /\ sent = 0 /\ unhandled = 0 /\ latest = 0

\* The test thread is not in stop(), and the lock is free.
MayCall == worker # "turn" /\ (running \/ worker = "ended")

start ==
  /\ MayCall /\ ~running
  /\ running' = TRUE /\ worker' = "loop"
  /\ UNCHANGED <<message_queue, config, current_time, counters>>

\* The worker is joined: it finishes its turn first.
stop ==
  /\ running /\ running' = FALSE
  /\ UNCHANGED <<worker, message_queue, config, current_time, counters>>

\* Handlers and the loss rate stay, and the worker goes on.
reset ==
  /\ MayCall
  /\ message_queue' = {}
  /\ isolated_nodes' = {} /\ partitions' = {} /\ delay_config' = <<>>
  /\ dropped_count' = 0 /\ delivered_count' = 0 /\ current_time' = 0
  /\ sent' = 0 /\ unhandled' = 0 /\ latest' = 0
  /\ UNCHANGED <<running, worker, handlers, lossy, default_delay>>

Configure == MayCall /\ UNCHANGED <<running, worker, message_queue, current_time, counters>>

register_handler(n) ==
  /\ Configure
  /\ handlers' = handlers \cup {n}
  /\ UNCHANGED <<lossy, default_delay, delay_config, isolated_nodes, partitions>>

set_delay(from, to, range) ==
  /\ Configure
  /\ delay_config' = [p \in DOMAIN delay_config \cup {<<from, to>>} |->
                        IF p = <<from, to>> THEN range ELSE delay_config[p]]
  /\ UNCHANGED <<handlers, lossy, default_delay, isolated_nodes, partitions>>

set_packet_loss_rate(l) ==
  /\ Configure
  /\ lossy' = l
  /\ UNCHANGED <<handlers, default_delay, delay_config, isolated_nodes, partitions>>

partition(cut) ==
  /\ Configure
  /\ partitions' = partitions \cup {cut}
  /\ UNCHANGED <<handlers, lossy, default_delay, delay_config, isolated_nodes>>

\* Ends isolations too.
heal ==
  /\ Configure
  /\ partitions' = {} /\ isolated_nodes' = {}
  /\ UNCHANGED <<handlers, lossy, default_delay, delay_config>>

isolate_node(n) ==
  /\ Configure
  /\ isolated_nodes' = isolated_nodes \cup {n}
  /\ UNCHANGED <<handlers, lossy, default_delay, delay_config, partitions>>

reconnect_node(n) ==
  /\ Configure
  /\ isolated_nodes' = isolated_nodes \ {n}
  /\ UNCHANGED <<handlers, lossy, default_delay, delay_config, partitions>>

advance_time(ms) ==
  /\ MayCall /\ current_time + ms <= MaxTime
  /\ current_time' = current_time + ms
  /\ UNCHANGED <<running, worker, message_queue, config, counters>>
-----------------------------------------------------------------------------
\* Each packet of a lossy network may be dropped, none of another.
should_drop == IF lossy THEN BOOLEAN ELSE {FALSE}

get_delay(from, to) ==
  LET range == IF <<from, to>> \in DOMAIN delay_config
               THEN delay_config[<<from, to>>] ELSE default_delay
  IN range[1] .. range[2]

can_deliver(from, to) ==
  /\ {from, to} \cap isolated_nodes = {}
  /\ \A cut \in partitions :
       /\ ~(from \in cut[1] /\ to \in cut[2])
       /\ ~(from \in cut[2] /\ to \in cut[1])

\* The network is looked at now, and not again when the message is due.
send_message(from, to) ==
  /\ MayCall /\ sent < MaxSent
  /\ sent' = sent + 1
  /\ \E drop \in should_drop :
       IF drop \/ ~can_deliver(from, to)
       THEN dropped_count' = dropped_count + 1 /\ UNCHANGED message_queue
       ELSE /\ \E delay \in get_delay(from, to) :
                 /\ current_time + delay <= MaxTime
                 /\ message_queue' = message_queue \cup
                      {[id |-> sent, to |-> to, deliver_time |-> current_time + delay]}
            /\ UNCHANGED dropped_count
  /\ UNCHANGED <<running, worker, config, current_time, delivered_count, unhandled, latest>>
-----------------------------------------------------------------------------
(* worker_loop *)

WorkerTest ==
  /\ worker = "loop"
  /\ worker' = IF running THEN "asleep" ELSE "ended"
  /\ UNCHANGED <<running, message_queue, config, current_time, counters>>

\* Mutant: only advance_time moves the clock.
WorkerWakeNoTick ==
  /\ worker = "asleep"
  /\ worker' = "turn"
  /\ UNCHANGED <<running, message_queue, config, current_time, counters>>

\* The worker has slept for a millisecond and takes the lock.
WorkerWake ==
  /\ worker = "asleep"
  /\ worker' = "turn"
  /\ current_time' = IF current_time < MaxTime THEN current_time + 1 ELSE MaxTime
  /\ UNCHANGED <<running, message_queue, config, counters>>

\* Mutant: a queue without priorities.
TopAny == message_queue

\* The messages that may be at the top of the priority queue.
Top == {m \in message_queue : \A k \in message_queue : m.deliver_time <= k.deliver_time}

WorkerDeliver(m) ==
  /\ worker = "turn"
  /\ m \in Top /\ m.deliver_time <= current_time
  /\ message_queue' = message_queue \ {m}
  /\ delivered_count' = IF m.to \in handlers THEN delivered_count + 1 ELSE delivered_count
  /\ unhandled' = IF m.to \in handlers THEN unhandled ELSE unhandled + 1
  /\ latest' = m.deliver_time
  /\ UNCHANGED <<running, worker, config, current_time, dropped_count, sent>>

\* The message at the top is not due.
WorkerUnlock ==
  /\ worker = "turn"
  /\ \A m \in Top : m.deliver_time > current_time
  /\ worker' = "loop"
  /\ UNCHANGED <<running, message_queue, config, current_time, counters>>

Worker ==
  \/ WorkerTest \/ WorkerWake \/ WorkerUnlock
  \/ \E m \in message_queue : WorkerDeliver(m)

NetNext ==
  \/ start \/ stop \/ reset \/ heal
  \/ \E l \in BOOLEAN : set_packet_loss_rate(l)
  \/ \E cut \in Cuts : partition(cut)
  \/ \E ms \in 1..MaxTime : advance_time(ms)
  \/ \E n \in Peers :
       \/ register_handler(n) \/ isolate_node(n) \/ reconnect_node(n)
       \/ \E m \in Peers \ {n} :
            send_message(n, m) \/ \E r \in Ranges : set_delay(n, m, r)
  \/ Worker
-----------------------------------------------------------------------------
(***************************************************************************)
(* The simulator neither loses nor reorders on its own account: messages   *)
(* are handed over in the order of their deliver_time, whatever was sent,  *)
(* delayed or fast-forwarded in between, and each one sent since the last  *)
(* reset is dropped, delivered, queued, or was for a node without handler  *)
(* (network_simulator.cpp:68-101, 171-199).                                *)
(***************************************************************************)
DeliversInOrder ==
  /\ \A m \in message_queue : latest <= m.deliver_time
  /\ sent = dropped_count + delivered_count + unhandled + Cardinality(message_queue)

(***************************************************************************)
(* A queued message does not stay behind: the worker hands it over, unless *)
(* it is stopped (network_simulator.cpp:171-199).                          *)
(***************************************************************************)
QueueDrains == message_queue # {} ~> message_queue = {} \/ ~running
=============================================================================
