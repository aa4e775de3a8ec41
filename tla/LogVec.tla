------------------------------- MODULE LogVec -------------------------------
(***************************************************************************)
(* LogVec (log_vec.h, log_vec.cpp), the log of a Raft node: a data file    *)
(* with the encoded entries one behind the other and a meta file with the  *)
(* offset of each.  There is no length and no checksum: an entry ends      *)
(* where the next one, or the file, does.                                  *)
(*                                                                         *)
(* All operations hold mtx_, so push_back and truncate_from are two steps  *)
(* only because the process can die between their two files.  The files    *)
(* are external (tiny_lsm::FileObj): an append or a truncation is taken    *)
(* to be done when it returns, and to survive the process; a read beyond   *)
(* the end of the file fails.  The loss of written data with the machine   *)
(* is not modelled, so that sync() has no effect.                          *)
(***************************************************************************)
EXTENDS Integers, Sequences

CONSTANTS
  Entries,            \* the entries that are pushed
  encode_entry(_),    \* an entry as a sequence of bytes
  decode_entry(_),    \* and back; never fails, as its result is not tested
  Merge(_, _),
  Unreadable,         \* in place of an entry, where operator[] fails
  MaxSize,            \* bound: entries in the log
  MaxCrashes          \* bound: crashes of the process

ASSUME LogVecAssumption ==
  /\ \A e \in Entries : decode_entry(encode_entry(e)) = e
  /\ Unreadable \notin Entries
  /\ MaxSize \in Nat /\ MaxCrashes \in Nat

VARIABLES
  data,             \* the data file
  meta,             \* the meta file, as a sequence of offsets
  entry_count,
  call,             \* the operation under way, between its two files
  up,               \* whether the process runs
  crashes,
  spoilt            \* history: indices a crash in truncate_from brought back

vars == <<data, meta, entry_count, call, up, crashes, spoilt>>

NoCall == [name |-> "none"]
Idle == up /\ call = NoCall

Init ==
  /\ data = <<>> /\ meta = <<>> /\ entry_count = 0
  /\ call = NoCall /\ up = TRUE /\ crashes = 0
  /\ spoilt = {}

\* Indices are those of the code, from 0.
get_offset(idx) == meta[idx + 1]
DataSize == IF call.name = "push" THEN call.offset ELSE Len(data)

\* operator[]: the slice up to the next offset, or to the end of the file.
\* An offset behind the next one makes the unsigned length huge.
Read(idx) ==
  LET offset == get_offset(idx)
      next == IF idx + 1 < entry_count THEN get_offset(idx + 1) ELSE DataSize
  IN IF offset <= next /\ next <= DataSize
     THEN decode_entry(SubSeq(data, offset + 1, next)) ELSE Unreadable
-----------------------------------------------------------------------------
\* push_back: the entry goes to the end of the data file ...
PushData(e) ==
  /\ Idle /\ entry_count < MaxSize
  /\ call' = [name |-> "push", entry |-> e, offset |-> Len(data)]
  /\ data' = data \o encode_entry(e)
  /\ UNCHANGED <<meta, entry_count, up, crashes, spoilt>>

\* ... and its offset to the end of the meta file.
PushMeta ==
  /\ call.name = "push"
  /\ meta' = Append(meta, call.offset)
  /\ entry_count' = entry_count + 1
  /\ call' = NoCall
  /\ UNCHANGED <<data, up, crashes, spoilt>>

\* Mutant: only the offsets are cut.
TruncateDataKeepsData(idx) ==
  /\ Idle /\ idx < entry_count
  /\ Read(idx) # Unreadable
  /\ call' = [name |-> "truncate", idx |-> idx]
  /\ UNCHANGED <<data, meta, entry_count, up, crashes, spoilt>>

\* truncate_from(idx): the data file is cut at the offset of idx ...  Its
\* caller has read the entry at idx before (raft_rpc.cpp:242).
TruncateData(idx) ==
  /\ Idle /\ idx < entry_count
  /\ Read(idx) # Unreadable
  /\ call' = [name |-> "truncate", idx |-> idx]
  /\ data' = SubSeq(data, 1, IF idx > 0 THEN get_offset(idx) ELSE 0)
  /\ UNCHANGED <<meta, entry_count, up, crashes, spoilt>>

\* ... and then the meta file.
TruncateMeta ==
  /\ call.name = "truncate"
  /\ meta' = SubSeq(meta, 1, call.idx)
  /\ entry_count' = call.idx
  /\ call' = NoCall
  /\ spoilt' = {i \in spoilt : i < call.idx}
  /\ UNCHANGED <<data, up, crashes>>

\* ~LogVec, which syncs the files.
Close ==
  /\ Idle
  /\ up' = FALSE
  /\ UNCHANGED <<data, meta, entry_count, call, crashes, spoilt>>

\* The process dies, possibly between the two files of an operation.
Crash ==
  /\ up /\ crashes < MaxCrashes
  /\ up' = FALSE
  /\ crashes' = crashes + 1
  /\ call' = NoCall
  /\ spoilt' = IF call.name = "truncate" THEN spoilt \cup (call.idx .. Len(meta) - 1)
               ELSE spoilt
  /\ UNCHANGED <<data, meta, entry_count>>

\* The constructor counts the offsets and looks no further.
Open ==
  /\ ~up
  /\ up' = TRUE
  /\ entry_count' = Len(meta)
  /\ UNCHANGED <<data, meta, call, crashes, spoilt>>

Next ==
  \/ \E e \in Entries : PushData(e)
  \/ PushMeta
  \/ \E idx \in 0 .. MaxSize : TruncateData(idx)
  \/ TruncateMeta
  \/ Close \/ Crash \/ Open

Spec == Init /\ [][Next]_vars
-----------------------------------------------------------------------------
(* LogVecIterator *)

begin == [idx |-> 0, reverse |-> FALSE]
end == [idx |-> entry_count, reverse |-> FALSE]
\* Mutant: behind the last entry.
rbeginAtSize == [idx |-> entry_count, reverse |-> TRUE]
rbegin == [idx |-> entry_count - 1, reverse |-> TRUE]
rend == [idx |-> -1, reverse |-> TRUE]

\* Prefix ++ and --.
Inc(it) == [it EXCEPT !.idx = IF it.reverse THEN @ - 1 ELSE @ + 1]
Dec(it) == [it EXCEPT !.idx = IF it.reverse THEN @ + 1 ELSE @ - 1]
Plus(it, n) == [it EXCEPT !.idx = @ + n]

\* operator*: fetch() throws outside of the log.
Deref(it) == IF it.idx \in 0 .. entry_count - 1 THEN Read(it.idx) ELSE Unreadable
-----------------------------------------------------------------------------
TypeOK ==
  /\ meta \in Seq(Nat) /\ entry_count = Len(meta)
  /\ call \in {NoCall} \cup [name : {"push"}, entry : Entries, offset : 0..Len(data)]
                \cup [name : {"truncate"}, idx : 0..entry_count]
  /\ call # NoCall => up
  /\ up \in BOOLEAN /\ crashes \in 0..MaxCrashes
  /\ spoilt \subseteq 0 .. entry_count - 1

\* The log as operator[] reads it back, once the operation under way is done
\* with the data file.
Contents ==
  [i \in 1 .. IF call.name = "truncate" THEN call.idx ELSE entry_count |->
     IF i - 1 \in spoilt THEN Unreadable ELSE Read(i - 1)]

\* The operation under way, by what it does to the log.
Operation ==
  CASE call.name = "push" -> [name |-> "push", entry |-> call.entry]
    [] call.name = "truncate" -> [name |-> "truncate", cut |-> entry_count - call.idx]
    [] OTHER -> [name |-> "none"]

Log == INSTANCE EntryLog WITH log <- Contents, Spoilt <- Unreadable, op <- Operation

(***************************************************************************)
(* LogVec implements the sequence of entries of EntryLog: every entry      *)
(* reads back as it was pushed for as long as it is in the log, across     *)
(* appends, truncations, restarts and crashes, but for the entries that    *)
(* EntryLog says an interrupted operation takes with it                    *)
(* (log_vec.cpp:147-171, 199-211).                                         *)
(***************************************************************************)
ImplementsLog == Log!Spec

\* What an iterator meets on its way from begin() + k to end(), and from
\* entry k to rend(), there in the order of the log.
Forth[k \in 0..MaxSize] ==
  LET it == Plus(begin, k) IN
  IF k >= entry_count THEN <<>> ELSE <<Deref(it)>> \o Forth[Inc(it).idx]
Back[k \in -1..MaxSize] ==
  LET it == [rbegin EXCEPT !.idx = k] IN
  IF it = rend THEN <<>> ELSE Append(Back[Inc(it).idx], Deref(it))

(***************************************************************************)
(* Sweeping an iterator over the log meets every entry once and in order,  *)
(* from begin() + k to end() as the heart beats do (raft.cpp:382), and     *)
(* backwards from rbegin() to rend(); on an empty log size() - 1 wraps to  *)
(* rend() (log_vec.cpp:189-197).                                           *)
(***************************************************************************)
SweepsMeetAll ==
  LET all == [i \in 1..entry_count |-> Read(i - 1)] IN
  Idle =>
    /\ Back[rbegin.idx] = all
    /\ \A k \in 0..entry_count :
         /\ Forth[k] = SubSeq(all, k + 1, entry_count)
         /\ Dec(Inc(Plus(begin, k))) = Plus(begin, k)
         /\ Plus(begin, k) = end <=> Forth[k] = <<>>
=============================================================================
