----------------------------- MODULE RaftCrash -----------------------------
(* Raft with nodes that die and are created again on the same log_dir. *)
EXTENDS Raft

CONSTANT MaxRestarts      \* bound: restarts of nodes

VARIABLE restarts

(***************************************************************************)
(* A node dies and is created again.  LogVec keeps the log in its files;   *)
(* nothing else survives, and the constructor appends a blank entry to     *)
(* whatever log it finds.  The calls of the old process that have not      *)
(* returned end with it: no reply to one of them reaches the new process.  *)
(***************************************************************************)
Restart(n) ==
  /\ restarts < MaxRestarts
  /\ restarts' = restarts + 1
  /\ currentTerm' = [currentTerm EXCEPT ![n] = 0]
  /\ votedFor' = [votedFor EXCEPT ![n] = Nobody]
  /\ log' = [log EXCEPT ![n] = Append(@, BlankEntry)]
  /\ nextIndex' = [nextIndex EXCEPT ![n] = [m \in Nodes |-> 0]]
  /\ matchIndex' = [matchIndex EXCEPT ![n] = [m \in Nodes |-> 0]]
  /\ role' = [role EXCEPT ![n] = "FOLLOWER"]
  /\ commitIndex' = [commitIndex EXCEPT ![n] = 0]
  /\ voteCount' = [voteCount EXCEPT ![n] = 0]
  /\ collecting' = {t \in collecting : t.node # n}
  /\ msgs' = {b \in msgs : IF b.kind \in {"RequestVote", "AppendEntries"}
                           THEN b.from # n ELSE b.to # n}
  /\ UNCHANGED <<voters, leaders, leaderLog, committed>>

CrashInit == Init /\ restarts = 0

CrashNext ==
  \/ Next /\ UNCHANGED restarts
  \/ \E n \in Nodes : Restart(n)

CrashSpec == CrashInit /\ [][CrashNext]_<<vars, restarts>>
=============================================================================
