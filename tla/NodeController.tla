--------------------------- MODULE NodeController ---------------------------
(***************************************************************************)
(* NodeController (node_controller.h, node_controller.cpp): the masters,   *)
(* witnesses and clients of a test under one mutex, which crash_and_recover*)
(* gives up between its two halves.  Ids are shared: a node created with   *)
(* the id of another one replaces its state and type and leaves the other  *)
(* where it is.                                                            *)
(*                                                                         *)
(* What the masters and clients do in full is in CurpSystem.tla.  Here a   *)
(* master is whether its Raft node was killed and whether unsynced_ops_    *)
(* holds anything, for recover() of a master that has unsynced operations  *)
(* never returns (RecoveryReturns.cfg), with the mutex of the controller   *)
(* held.  No call of the controller records anything at a witness, so that *)
(* recover() has nothing to replay.                                        *)
(***************************************************************************)
EXTENDS Integers

CONSTANTS
  Ids,            \* node ids
  MaxOps          \* bound: operations counted per node

ASSUME ControllerAssumption == MaxOps \in Nat

VARIABLES
  masters,          \* of each master: killed, unsynced
  witnesses, clients,
  node_states, node_types,
  witness_bindings,
  node_stats,
  restarting,       \* nodes in the delay of crash_and_recover
  hung              \* the node in whose recover() mtx_ is held for ever

nodes == <<witnesses, clients, node_types, witness_bindings>>
nodeVars == <<masters, nodes, node_states, node_stats, restarting, hung>>

\* Stats: all operations of a node, and by outcome.
Counters == {"total", "fast", "slow", "failed"}

Put(f, x, v) == [y \in DOMAIN f \cup {x} |-> IF y = x THEN v ELSE f[y]]

NodesInit ==
  /\ masters = <<>> /\ witnesses = {} /\ clients = {}
  /\ node_states = <<>> /\ node_types = <<>> /\ witness_bindings = <<>>
  /\ node_stats = [n \in Ids |-> [f \in Counters |-> 0]]
  /\ restarting = {} /\ hung = {}

\* mtx_ can be locked.  Every other operation unlocks it when it returns.
MutexFree == hung = {}

Created(n, type, state) ==
  /\ MutexFree
  /\ node_states' = Put(node_states, n, state)
  /\ node_types' = Put(node_types, n, type)
  /\ UNCHANGED <<witness_bindings, node_stats, restarting, hung>>

create_master(n) ==
  /\ masters' = Put(masters, n, [killed |-> FALSE, unsynced |-> FALSE])
  /\ Created(n, "MASTER", "STOPPED")
  /\ UNCHANGED <<witnesses, clients>>

create_witness(n) ==
  /\ witnesses' = witnesses \cup {n}
  /\ Created(n, "WITNESS", "STOPPED")
  /\ UNCHANGED <<masters, clients>>

create_client(n) ==
  /\ clients' = clients \cup {n}
  /\ Created(n, "CLIENT", "RUNNING")
  /\ UNCHANGED <<masters, witnesses>>

bind_witness_to_master(m, w) ==
  /\ MutexFree
  /\ m \in DOMAIN masters /\ w \in witnesses
  /\ witness_bindings' = Put(witness_bindings, w, m)
  /\ UNCHANGED <<masters, witnesses, clients, node_states, node_types,
                 node_stats, restarting, hung>>

\* There may be no such node: it is running from now on.
start_node(n) ==
  /\ MutexFree
  /\ node_states' = Put(node_states, n, "RUNNING")
  /\ UNCHANGED <<masters, nodes, node_stats, restarting, hung>>

\* The Raft node of a master is killed; its tables and its sync worker are
\* left alone.  A witness is not even told.
TakeDown(n, state) ==
  /\ MutexFree
  /\ masters' = IF n \in DOMAIN masters THEN [masters EXCEPT ![n].killed = TRUE] ELSE masters
  /\ node_states' = Put(node_states, n, state)
  /\ UNCHANGED <<nodes, node_stats, hung>>

stop_node(n) == TakeDown(n, "STOPPED") /\ UNCHANGED restarting
crash_node(n) == TakeDown(n, "CRASHED") /\ UNCHANGED restarting

\* Mutant: the type of the node is not looked at.
RecoverHangsAnyType(n) == n \in DOMAIN masters /\ masters[n].unsynced

\* recover() is called and does not return.
RecoverHangs(n) ==
  /\ n \in DOMAIN node_types /\ node_types[n] = "MASTER"
  /\ n \in DOMAIN masters /\ masters[n].unsynced

\* A master that was killed stays so.
Recovered(n) ==
  /\ MutexFree
  /\ \/ /\ RecoverHangs(n)
        /\ hung' = {n} /\ UNCHANGED node_states
     \/ /\ ~RecoverHangs(n)
        /\ node_states' = IF n \in DOMAIN node_types THEN Put(node_states, n, "RUNNING")
                          ELSE node_states
        /\ UNCHANGED hung
  /\ UNCHANGED <<masters, nodes, node_stats>>

recover_node(n) == Recovered(n) /\ UNCHANGED restarting

\* crash_and_recover up to its delay, and after it.
Restart(n) ==
  /\ n \notin restarting
  /\ TakeDown(n, "CRASHED")
  /\ restarting' = restarting \cup {n}

RestartEnd(n) ==
  /\ n \in restarting
  /\ Recovered(n)
  /\ restarting' = IF hung' = {} THEN restarting \ {n} ELSE restarting

\* An operation is counted by its outcome.
Counted(n, outcome) ==
  /\ MutexFree
  /\ node_stats[n]["total"] < MaxOps
  /\ node_stats' = [node_stats EXCEPT ![n] =
       [f \in Counters |-> @[f] + (IF f \in {"total", outcome} THEN 1 ELSE 0)]]
  /\ UNCHANGED <<nodes, node_states, restarting, hung>>

\* CurpMasterClient answers every propose and sync with success: a write is
\* done fast, or slow if a witness does not accept it.
client_write(n) ==
  /\ n \in clients
  /\ \E outcome \in {"fast", "slow"} : Counted(n, outcome)
  /\ UNCHANGED masters

\* Neither the state of the node nor killed() is looked at.  The operation
\* is executed, was executed before, or is refused for one on its key.
master_propose(n) ==
  /\ n \in DOMAIN masters
  /\ \/ Counted(n, "fast") /\ masters' = [masters EXCEPT ![n].unsynced = TRUE]
     \/ node_stats[n]["fast"] > 0 /\ Counted(n, "fast") /\ UNCHANGED masters
     \/ masters[n].unsynced /\ Counted(n, "failed") /\ UNCHANGED masters

\* The sync worker of a master, killed or not, finds something to sync.  A
\* recover() that does not return holds curp_mtx_ too.
SyncWorker(n) ==
  /\ n \in DOMAIN masters /\ masters[n].unsynced /\ n \notin hung
  /\ masters' = [masters EXCEPT ![n].unsynced = FALSE]
  /\ UNCHANGED <<nodes, node_states, node_stats, restarting, hung>>

NodesNext ==
  \E n \in Ids :
    \/ create_master(n) \/ create_witness(n) \/ create_client(n)
    \/ \E w \in Ids : bind_witness_to_master(n, w)
    \/ start_node(n) \/ stop_node(n) \/ crash_node(n) \/ recover_node(n)
    \/ Restart(n) \/ RestartEnd(n)
    \/ client_write(n) \/ master_propose(n) \/ SyncWorker(n)
-----------------------------------------------------------------------------
(***************************************************************************)
(* If the controller hangs, it does so in one master that executed what    *)
(* was proposed to it by way of the controller and has not synced it, and  *)
(* whose id no other node has taken since; what was proposed before the    *)
(* master was created anew does not count (node_controller.cpp:95-111).    *)
(***************************************************************************)
HangsOnlyUnsynced ==
  \A n \in hung :
    /\ hung = {n}
    /\ n \in DOMAIN masters /\ masters[n].unsynced
    /\ node_types[n] = "MASTER"
    /\ node_stats[n]["fast"] > 0

(***************************************************************************)
(* crash_and_recover comes to its end, with everything else that is called *)
(* in its delay, also for an id that has another node by then, unless the  *)
(* controller hangs for the one reason there is                            *)
(* (node_controller.cpp:114-122).                                          *)
(***************************************************************************)
RestartsEnd ==
  \A n \in Ids :
    n \in restarting ~> n \notin restarting \/ (hung # {} /\ HangsOnlyUnsynced)
=============================================================================
