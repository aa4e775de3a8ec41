-------------------------------- MODULE Wire --------------------------------
(***************************************************************************)
(* The messages of the proto files as the generated protobuf classes keep, *)
(* write and read them.  A schema lists the fields of a message in the     *)
(* order of their numbers.                                                 *)
(*                                                                         *)
(* A serialized message is a sequence of <<number, wire type, value>>:     *)
(* what makes up one tag and what follows it is one element.  A scalar is  *)
(* an integer, 0 being the default that is not written: 0, FALSE or the    *)
(* empty string.  Other strings are positive numbers, or NotUtf8 for one   *)
(* that is no valid UTF-8.  Every embedded message of the repository is in *)
(* a repeated field, and none embeds another.                              *)
(***************************************************************************)
EXTENDS Integers, Sequences, SequencesExt

CONSTANT Two32          \* 2^32: where the integers of 32 bits wrap

ASSUME WireAssumption == Two32 \in Nat \ {0, 1}

NotUtf8 == -1

F(num, name, kind) == [num |-> num, name |-> name, kind |-> kind]

\* raft.proto
RequestVoteArgs == << F(1, "term", "int32"), F(2, "candidateId", "int32"),
  F(3, "lastLogIndex", "int32"), F(4, "lastLogTerm", "int32") >>
RequestVoteReply == << F(1, "term", "int32"), F(2, "voteGranted", "bool") >>
Entry == << F(1, "seq", "int64"), F(2, "term", "int32"), F(3, "key", "string"),
  F(4, "value", "bytes") >>
AppendEntriesArgs == << F(1, "term", "int32"), F(2, "leaderId", "int32"),
  F(3, "prevLogIndex", "int32"), F(4, "prevLogTerm", "int32"),
  F(5, "entries", "Entry"), F(6, "leaderCommit", "int32") >>
AppendEntriesReply == << F(1, "term", "int32"), F(2, "success", "bool"),
  F(3, "xTerm", "int32"), F(4, "xIndex", "int32"), F(5, "xLen", "int32") >>

\* witness.proto
RecordRequest == << F(1, "master_id", "string"), F(2, "rpc_id", "uint64"),
  F(3, "key", "string"), F(4, "request_data", "bytes"), F(5, "client_id", "uint64") >>
RecordReply == << F(1, "accepted", "bool"), F(2, "reject_reason", "int32"),
  F(3, "message", "string") >>
GCRequest == << F(1, "master_id", "string"), F(2, "entries", "GCEntry") >>
GCEntry == << F(1, "key", "string"), F(2, "rpc_id", "uint64") >>
GCReply == << F(1, "success", "bool"), F(2, "dropped_count", "uint32"),
  F(3, "stale_rpc_ids", "packed") >>
RecoveryRequest == << F(1, "master_id", "string") >>
RecoveryData == << F(1, "success", "bool"), F(2, "requests", "SavedRequest") >>
SavedRequest == << F(1, "rpc_id", "uint64"), F(2, "key", "string"),
  F(3, "request_data", "bytes"), F(4, "client_id", "uint64"), F(5, "timestamp", "uint64") >>
StopRequest == << F(1, "master_id", "string") >>
StopReply == << F(1, "success", "bool"), F(2, "request_count", "uint32") >>
ResetRequest == << F(1, "master_id", "string"), F(2, "new_master_id", "string") >>
ResetReply == << F(1, "success", "bool") >>
StatusRequest == << >>
StatusReply == << F(1, "master_id", "string"), F(2, "accepting", "bool"),
  F(3, "request_count", "uint32"), F(4, "oldest_timestamp", "uint64") >>

\* curp.proto
ProposeRequest == << F(1, "rpc_id", "uint64"), F(2, "client_id", "uint64"),
  F(3, "op_type", "int32"), F(4, "key", "string"), F(5, "value", "bytes") >>
ProposeReply == << F(1, "success", "bool"), F(2, "fast_path", "bool"),
  F(3, "need_sync", "bool"), F(4, "result", "bytes"), F(5, "error", "string") >>
ReadRequest == << F(1, "key", "string") >>
ReadReply == << F(1, "success", "bool"), F(2, "value", "bytes"), F(3, "error", "string") >>
SyncRequest == << F(1, "rpc_id", "uint64") >>
SyncReply == << F(1, "success", "bool") >>
RecoverRequest == << F(1, "node_id", "uint64") >>
RecoverReply == << F(1, "success", "bool"), F(2, "ops", "SavedOp") >>
SavedOp == << F(1, "rpc_id", "uint64"), F(2, "client_id", "uint64"),
  F(3, "op_type", "int32"), F(4, "key", "string"), F(5, "value", "bytes") >>

\* node.proto
Empty == << >>
Pong == << F(1, "msg", "string") >>
Message == << F(1, "content", "string") >>
Ack == << F(1, "success", "bool") >>

\* The messages that occur in repeated fields.
Embedded ==
  [ Entry |-> Entry, GCEntry |-> GCEntry, SavedRequest |-> SavedRequest,
    SavedOp |-> SavedOp ]
-----------------------------------------------------------------------------
IsEmbedded(f) == f.kind \in DOMAIN Embedded
IsRepeated(f) == f.kind = "packed" \/ IsEmbedded(f)
WireType(f) ==
  IF f.kind \in {"bool", "int32", "uint32", "int64", "uint64"} THEN "varint" ELSE "len"

Num(t) == t[1]
Val(t) == t[3]

FieldNames(schema) == {schema[i].name : i \in DOMAIN schema}
FieldNamed(schema, name) == CHOOSE f \in ToSet(schema) : f.name = name

\* What a constructor or Clear() leaves; ok is whether parsing has succeeded.
Cleared(schema) ==
  [ ok |-> TRUE, unknown |-> <<>>,
    val |-> [n \in FieldNames(schema) |->
               IF IsRepeated(FieldNamed(schema, n)) THEN <<>> ELSE 0] ]

\* The C++ type of a field, which its setter and its parser convert to.
Converted(f, v) ==
  CASE f.kind = "bool" -> IF v = 0 THEN 0 ELSE 1
    [] f.kind \in {"int32", "uint32"} -> v % Two32
    [] OTHER -> v

\* The field that a tag names: its number has to go with its wire type.  An
\* element of a packed field may also come alone.
Expects(f, t) ==
  Num(t) = f.num /\ (t[2] = WireType(f) \/ (f.kind = "packed" /\ t[2] = "varint"))

\* Mutant: unknown fields are skipped.
ParseScalarSkipsUnknown(schema, m, t) ==
  LET fs == {f \in ToSet(schema) : Expects(f, t)}
      f == CHOOSE g \in fs : TRUE
  IN IF ~m.ok \/ fs = {} THEN m
     ELSE IF f.kind = "packed"
     THEN [m EXCEPT !.val[f.name] = @ \o (IF t[2] = "varint" THEN <<Val(t)>> ELSE Val(t))]
     ELSE [m EXCEPT !.val[f.name] = Converted(f, Val(t)),
                    !.ok = ~(f.kind = "string" /\ Val(t) = NotUtf8)]

(***************************************************************************)
(* One turn of the loop of _InternalParse for the scalars: the last value  *)
(* of a field wins, and what no field expects is kept as an unknown field. *)
(* A string is stored before it is found not to be UTF-8; parsing then     *)
(* stops where it is.                                                      *)
(***************************************************************************)
ParseScalar(schema, m, t) ==
  LET fs == {f \in ToSet(schema) : Expects(f, t)}
      f == CHOOSE g \in fs : TRUE
  IN IF ~m.ok THEN m
     ELSE IF fs = {} THEN [m EXCEPT !.unknown = Append(@, t)]
     ELSE IF f.kind = "packed"
     THEN [m EXCEPT !.val[f.name] = @ \o (IF t[2] = "varint" THEN <<Val(t)>> ELSE Val(t))]
     ELSE [m EXCEPT !.val[f.name] = Converted(f, Val(t)),
                    !.ok = ~(f.kind = "string" /\ Val(t) = NotUtf8)]

ParseScalars(schema, bytes) ==
  FoldLeft(LAMBDA m, t : ParseScalar(schema, m, t), Cleared(schema), bytes)

\* Mutant: an element without bytes is skipped.
ParseFieldSkipsEmpty(schema, m, t) ==
  LET fs == {f \in ToSet(schema) : IsEmbedded(f) /\ Expects(f, t)}
      f == CHOOSE g \in fs : TRUE
      element == ParseScalars(Embedded[f.kind], Val(t))
  IN IF ~m.ok \/ fs = {} THEN ParseScalar(schema, m, t)
     ELSE IF Val(t) = <<>> THEN m
     ELSE [m EXCEPT !.val[f.name] = Append(@, element), !.ok = element.ok]

\* The same for messages that may embed others: an element is added, parsed
\* in place, and its failure is the failure of the whole.
ParseField(schema, m, t) ==
  LET fs == {f \in ToSet(schema) : IsEmbedded(f) /\ Expects(f, t)}
      f == CHOOSE g \in fs : TRUE
      element == ParseScalars(Embedded[f.kind], Val(t))
  IN IF ~m.ok \/ fs = {} THEN ParseScalar(schema, m, t)
     ELSE [m EXCEPT !.val[f.name] = Append(@, element), !.ok = element.ok]

ParseFromArray(schema, bytes) ==
  FoldLeft(LAMBDA m, t : ParseField(schema, m, t), Cleared(schema), bytes)

\* _InternalSerialize of a message without embedded ones: the fields in
\* order, the defaults left out, then the unknown fields.  A string that is
\* not UTF-8 is only warned about.
SerializeScalars(schema, m) ==
  FlattenSeq([i \in DOMAIN schema |->
      LET f == schema[i]
          v == m.val[f.name]
      IN IF v = (IF f.kind = "packed" THEN <<>> ELSE 0) THEN <<>>
         ELSE << <<f.num, WireType(f), v>> >>])
    \o m.unknown

SerializeToString(schema, m) ==
  FlattenSeq([i \in DOMAIN schema |->
      LET f == schema[i] IN
      IF IsEmbedded(f)
      THEN [j \in DOMAIN m.val[f.name] |->
              <<f.num, "len", SerializeScalars(Embedded[f.kind], m.val[f.name][j])>>]
      ELSE SerializeScalars(<<f>>, [m EXCEPT !.unknown = <<>>])])
    \o m.unknown

\* MergeImpl: what is set in b replaces or, if repeated, extends a.
MergeFrom(schema, a, b) ==
  [ ok |-> a.ok /\ b.ok, unknown |-> a.unknown \o b.unknown,
    val |-> [n \in FieldNames(schema) |->
               IF IsRepeated(FieldNamed(schema, n)) THEN a.val[n] \o b.val[n]
               ELSE IF b.val[n] # 0 THEN b.val[n] ELSE a.val[n]] ]
=============================================================================
