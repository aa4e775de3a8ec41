------------------------------ MODULE EntryLog ------------------------------
(***************************************************************************)
(* What LogVec promises: a sequence of entries that grows by push_back,    *)
(* shrinks by truncate_from and outlives its process.  What a crash does   *)
(* depends on the operation it interrupts:                                 *)
(*   none           nothing is lost;                                       *)
(*   push_back      the entry is lost, or has been merged into the entry   *)
(*                  before it;                                             *)
(*   truncate_from  the entries cut off are back, but spoilt.              *)
(***************************************************************************)
EXTENDS Naturals, Sequences

CONSTANTS
  Entries,
  Merge(_, _),      \* what an entry and one written behind it read as
  Spoilt

VARIABLES
  log,
  op                \* the operation under way

None == [name |-> "none"]

Init == log = <<>> /\ op = None

PushBegin(e) ==
  /\ op = None
  /\ op' = [name |-> "push", entry |-> e]
  /\ UNCHANGED log

PushEnd ==
  /\ op.name = "push"
  /\ log' = Append(log, op.entry)
  /\ op' = None

\* cut: how many entries go.
TruncateBegin(idx) ==
  /\ op = None /\ idx < Len(log)
  /\ log' = SubSeq(log, 1, idx)
  /\ op' = [name |-> "truncate", cut |-> Len(log) - idx]

TruncateEnd ==
  /\ op.name = "truncate"
  /\ op' = None
  /\ UNCHANGED log

CrashInPush ==
  /\ op.name = "push"
  /\ op' = None
  /\ log' = IF log = <<>> \/ log[Len(log)] = Spoilt THEN log
            ELSE [log EXCEPT ![Len(log)] = Merge(@, op.entry)]

CrashInTruncate ==
  /\ op.name = "truncate"
  /\ op' = None
  /\ log' = log \o [i \in 1..op.cut |-> Spoilt]

Next ==
  \/ \E e \in Entries : PushBegin(e)
  \/ PushEnd
  \/ \E idx \in 0..Len(log) : TruncateBegin(idx)
  \/ TruncateEnd
  \/ CrashInPush \/ CrashInTruncate

Spec == Init /\ [][Next]_<<log, op>>
=============================================================================
