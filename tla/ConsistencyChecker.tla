------------------------- MODULE ConsistencyChecker -------------------------
(***************************************************************************)
(* ConsistencyChecker (consistency_checker.h, consistency_checker.cpp): it *)
(* records writes and reads with a clock of milliseconds and looks for     *)
(* overlapping fast writes of a key.  Every operation holds mtx_.  Ids and *)
(* operations are numbered from one counter and reset together, so that an *)
(* id is the position of its record; id 0 stands for no record.            *)
(*                                                                         *)
(* A new record does not initialise fast_path, and that of a write not its *)
(* end_time: their values are arbitrary.                                   *)
(***************************************************************************)
EXTENDS Integers, Sequences

CONSTANTS
  Clients, Keys,
  MaxOperations,  \* bound: operations recorded
  MaxClock        \* bound: the clock

ASSUME CheckerAssumption == MaxOperations \in Nat /\ MaxClock \in Nat

VARIABLES
  enabled, operations, violations, clock,
  op_ids,         \* the id each client holds of the write it has under way
  \* History, read by the properties only.
  before,         \* for each record, the records that had ended at its start
  checked         \* whether violations is about operations as they are

checkerVars == <<enabled, operations, violations, clock, op_ids, before, checked>>

NoWrite == -1

CheckerInit ==
  /\ enabled = TRUE /\ operations = <<>> /\ violations = {} /\ clock = 0
  /\ op_ids = [c \in Clients |-> NoWrite]
  /\ before = <<>> /\ checked = FALSE

Record(record) ==
  /\ Len(operations) < MaxOperations
  /\ operations' = Append(operations, record)
  /\ before' = Append(before, {i \in DOMAIN operations : operations[i].ended})
  /\ checked' = FALSE

record_write_start(c, key) ==
  /\ op_ids[c] = NoWrite
  /\ \/ /\ enabled
        /\ \E end \in 0..MaxClock, fast \in BOOLEAN :
             Record([ key |-> key, start_time |-> clock, end_time |-> end,
                      success |-> FALSE, fast_path |-> fast, ended |-> FALSE ])
        /\ op_ids' = [op_ids EXCEPT ![c] = Len(operations) + 1]
     \/ /\ ~enabled
        /\ op_ids' = [op_ids EXCEPT ![c] = 0]
        /\ UNCHANGED <<operations, before, checked>>
  /\ UNCHANGED <<enabled, violations, clock>>

\* Mutant: the end of the operation is not noted.
record_write_endNoTime(c, success, fast) ==
  LET op_id == op_ids[c] IN
  /\ op_id # NoWrite
  /\ op_ids' = [op_ids EXCEPT ![c] = NoWrite]
  /\ IF enabled /\ op_id \in DOMAIN operations
     THEN /\ operations' = [operations EXCEPT
               ![op_id] = [@ EXCEPT !.success = success, !.fast_path = fast, !.ended = TRUE]]
          /\ checked' = FALSE
     ELSE UNCHANGED <<operations, checked>>
  /\ UNCHANGED <<enabled, violations, clock, before>>

\* The id may be that of another record, if there was a reset.
record_write_end(c, success, fast) ==
  LET op_id == op_ids[c] IN
  /\ op_id # NoWrite
  /\ op_ids' = [op_ids EXCEPT ![c] = NoWrite]
  /\ IF enabled /\ op_id \in DOMAIN operations
     THEN /\ operations' = [operations EXCEPT
               ![op_id] = [@ EXCEPT !.end_time = clock, !.success = success,
                                    !.fast_path = fast, !.ended = TRUE]]
          /\ checked' = FALSE
     ELSE UNCHANGED <<operations, checked>>
  /\ UNCHANGED <<enabled, violations, clock, before>>

record_read(key, success) ==
  /\ enabled
  /\ \E fast \in BOOLEAN :
       Record([ key |-> key, start_time |-> clock, end_time |-> clock,
                success |-> success, fast_path |-> fast, ended |-> TRUE ])
  /\ UNCHANGED <<enabled, violations, clock, op_ids>>

\* Operations of one clock reading overlap, as far as the checker can tell.
Overlap(a, b) == a.end_time >= b.start_time /\ b.end_time >= a.start_time

check_linearizability ==
  /\ violations' = {p \in (DOMAIN operations) \X (DOMAIN operations) :
       LET a == operations[p[1]]
           b == operations[p[2]]
       IN /\ p[1] < p[2] /\ a.key = b.key
          /\ a.success /\ b.success /\ Overlap(a, b)
          /\ a.fast_path /\ b.fast_path}
  /\ checked' = TRUE
  /\ UNCHANGED <<enabled, operations, clock, op_ids, before>>

resetChecker ==
  /\ operations' = <<>> /\ violations' = {}
  /\ before' = <<>> /\ checked' = FALSE
  /\ UNCHANGED <<enabled, clock, op_ids>>

SetEnabled(e) ==
  /\ enabled' = e
  /\ UNCHANGED <<operations, violations, clock, op_ids, before, checked>>

\* get_current_time returns a later time from now on.
ClockTick ==
  /\ clock < MaxClock
  /\ clock' = clock + 1
  /\ UNCHANGED <<enabled, operations, violations, op_ids, before, checked>>

CheckerNext ==
  \/ \E c \in Clients : 
       \/ \E key \in Keys : record_write_start(c, key)
       \/ \E success, fast \in BOOLEAN : record_write_end(c, success, fast)
  \/ \E key \in Keys, success \in BOOLEAN : record_read(key, success)
  \/ check_linearizability \/ resetChecker \/ ClockTick
  \/ \E e \in BOOLEAN : SetEnabled(e)
-----------------------------------------------------------------------------
(***************************************************************************)
(* The checker misses no overlap it has on record: two operations on a key *)
(* recorded as successful and fast, neither of which had ended when the    *)
(* other started, are reported, also if clients end in another order than  *)
(* they started or ids are reused after a reset.  An end that comes while  *)
(* recording is disabled is not on record: that operation does not count   *)
(* as successful (consistency_checker.cpp:20-99, 110-151).                 *)
(***************************************************************************)
OverlapsAreFlagged ==
  checked => \A i, j \in DOMAIN operations :
    LET a == operations[i]
        b == operations[j]
    IN (/\ i < j /\ a.key = b.key
        /\ a.success /\ a.fast_path /\ b.success /\ b.fast_path
        /\ i \notin before[j])
       => <<i, j>> \in violations
=============================================================================
