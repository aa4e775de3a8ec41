--------------------------------- MODULE Rpc ---------------------------------
(***************************************************************************)
(* A unary gRPC call as the generated stubs and services make it, from the *)
(* setters on the request to what the caller in the repository reports:    *)
(* WitnessClient, PingClient, GetVoteAnswer and sendAppendEntries.  Calls  *)
(* share nothing but the channel, so one is followed at a time.            *)
(*                                                                         *)
(* gRPC itself is external: it carries the bytes once, or fails the call   *)
(* before or after the handler has run; bytes that do not parse fail it    *)
(* with a status, at either end.                                           *)
(***************************************************************************)
EXTENDS Wire

CONSTANTS
  Registered,       \* the services some server of the deployment registers
  MaxSets,          \* bound: setters called on the request
  ScalarValues      \* bound: the values the setters are given

ASSUME RpcAssumption ==
  /\ Registered \subseteq {"Raft", "WitnessService", "CurpService", "NodeService"}
  /\ MaxSets \in Nat
  /\ ScalarValues \subseteq Nat

VARIABLES
  method,           \* the method of the call under way
  phase,            \* "set", "sent", "answered", "done"
  sets,             \* how many setters have been called
  request,          \* the caller's request object
  wire,             \* the bytes in flight
  seen,             \* the request object of the handler
  reply,            \* the reply object of the handler
  response,         \* the caller's reply object
  status,           \* the status of the call, once it is done
  runs              \* history: how often the handler has run in this call

vars == <<method, phase, sets, request, wire, seen, reply, response, status, runs>>

\* method |-> the service, the request and the reply, and the field of the
\* reply that the caller goes by ("ok" if the status is all it looks at).
M(service, req, rep, verdict) ==
  [service |-> service, req |-> req, rep |-> rep, verdict |-> verdict]

RaftMethods ==
  [ RequestVote |-> M("Raft", RequestVoteArgs, RequestVoteReply, "voteGranted"),
    AppendEntries |-> M("Raft", AppendEntriesArgs, AppendEntriesReply, "success") ]
WitnessMethods ==
  [ Record |-> M("WitnessService", RecordRequest, RecordReply, "accepted"),
    GarbageCollect |-> M("WitnessService", GCRequest, GCReply, "dropped_count"),
    GetRecoveryData |-> M("WitnessService", RecoveryRequest, RecoveryData, "requests"),
    Stop |-> M("WitnessService", StopRequest, StopReply, "success"),
    Reset |-> M("WitnessService", ResetRequest, ResetReply, "success"),
    GetStatus |-> M("WitnessService", StatusRequest, StatusReply, "accepting") ]
CurpMethods ==
  [ Propose |-> M("CurpService", ProposeRequest, ProposeReply, "success"),
    Read |-> M("CurpService", ReadRequest, ReadReply, "success"),
    Sync |-> M("CurpService", SyncRequest, SyncReply, "success"),
    Recover |-> M("CurpService", RecoverRequest, RecoverReply, "success") ]
NodeMethods ==
  [ Ping |-> M("NodeService", Empty, Pong, "ok"),
    SendMessage |-> M("NodeService", Message, Ack, "success") ]

Methods ==
  [ k \in UNION {DOMAIN RaftMethods, DOMAIN WitnessMethods, DOMAIN CurpMethods,
                 DOMAIN NodeMethods} |->
      CASE k \in DOMAIN RaftMethods -> RaftMethods[k]
        [] k \in DOMAIN WitnessMethods -> WitnessMethods[k]
        [] k \in DOMAIN CurpMethods -> CurpMethods[k]
        [] k \in DOMAIN NodeMethods -> NodeMethods[k] ]
Req == Methods[method].req
Rep == Methods[method].rep

\* Small samples of an embedded message: nothing set, everything set, and
\* everything with strings that are not UTF-8.
Elements(schema) ==
  {[Cleared(schema) EXCEPT !.val = [n \in FieldNames(schema) |->
      IF FieldNamed(schema, n).kind = "string" THEN s ELSE v]] :
     s \in {0, 1, NotUtf8}, v \in {0, 1}}

Inputs(f) == CASE f.kind = "string" -> ScalarValues \cup {NotUtf8}
               [] IsEmbedded(f) -> Elements(Embedded[f.kind])
               [] OTHER -> ScalarValues

\* The four kinds of setters: of a scalar, of a string or bytes, whatever is
\* in them, and those that add to a repeated field.
AssignScalar(m, f, v) == [m EXCEPT !.val[f.name] = Converted(f, v)]
AssignString(m, f, v) == [m EXCEPT !.val[f.name] = v]
AddScalar(m, f, v) == [m EXCEPT !.val[f.name] = Append(@, v)]
AddElement(m, f, element) == [m EXCEPT !.val[f.name] = Append(@, element)]

Assigned(m, f, v) ==
  CASE IsEmbedded(f) -> AddElement(m, f, v)
    [] f.kind = "packed" -> AddScalar(m, f, v)
    [] f.kind \in {"string", "bytes"} -> AssignString(m, f, v)
    [] OTHER -> AssignScalar(m, f, v)

\* The getter of a field: its default if nobody has set it.
Get(m, name) == m.val[name]

\* What handlers answer with: at most one field set.
Replies(schema) ==
  {Cleared(schema)} \cup
  UNION {{Assigned(Cleared(schema), f, v) : v \in Inputs(f)} : f \in ToSet(schema)}

\* Mutant: the status is not looked at.
ReportedIgnoresStatus ==
  LET v == Methods[method].verdict IN
  IF v = "ok" THEN 1
  ELSE IF v = "requests" THEN Len(Get(response, v)) ELSE Get(response, v)

\* What the caller makes of a call that is done: the field it goes by, and
\* refused, empty or none if the call has failed.
Reported ==
  LET v == Methods[method].verdict IN
  IF status # "OK" THEN 0
  ELSE IF v = "ok" THEN 1
  ELSE IF v = "requests" THEN Len(Get(response, v)) ELSE Get(response, v)

Init ==
  /\ method \in DOMAIN Methods /\ phase = "set" /\ sets = 0
  /\ request = Cleared(Req) /\ seen = Cleared(Req)
  /\ reply = Cleared(Rep) /\ response = Cleared(Rep)
  /\ wire = <<>> /\ status = "none" /\ runs = 0

Set(f, v) ==
  /\ phase = "set" /\ sets < MaxSets
  /\ request' = Assigned(request, f, v)
  /\ sets' = sets + 1
  /\ UNCHANGED <<method, phase, wire, seen, reply, response, status, runs>>

\* BlockingUnaryCall serializes the request.  A caller built from a later
\* proto file may add a field that this server does not know.
Send(extra) ==
  /\ phase = "set"
  /\ wire' = SerializeToString(Req, request) \o extra
  /\ phase' = "sent"
  /\ UNCHANGED <<method, sets, request, seen, reply, response, status, runs>>

Finish(s) == phase' = "done" /\ status' = s

\* No server has registered the service: CurpService has no implementation.
Unimplemented ==
  /\ phase = "sent" /\ Methods[method].service \notin Registered
  /\ Finish("UNIMPLEMENTED")
  /\ UNCHANGED <<method, sets, request, wire, seen, reply, response, runs>>

\* The server parses the request and, if it can, calls the handler.
Handle(r) ==
  LET m == ParseFromArray(Req, wire) IN
  /\ phase = "sent" /\ Methods[method].service \in Registered
  /\ seen' = m
  /\ IF m.ok
     THEN /\ runs' = runs + 1
          /\ reply' = r
          /\ wire' = SerializeToString(Rep, r)
          /\ phase' = "answered" /\ UNCHANGED status
     ELSE /\ Finish("INTERNAL")
          /\ UNCHANGED <<runs, reply, wire>>
  /\ UNCHANGED <<method, sets, request, response>>

\* The caller parses the answer.
Receive ==
  LET m == ParseFromArray(Rep, wire) IN
  /\ phase = "answered"
  /\ response' = m
  /\ Finish(IF m.ok THEN "OK" ELSE "INTERNAL")
  /\ UNCHANGED <<method, sets, request, wire, seen, reply, runs>>

\* The connection fails before or after the handler.
Fail ==
  /\ phase \in {"sent", "answered"}
  /\ Finish("UNAVAILABLE")
  /\ UNCHANGED <<method, sets, request, wire, seen, reply, response, runs>>

\* The caller has its result; the next call has objects of its own.
Return ==
  /\ phase = "done"
  /\ phase' = "set" /\ sets' = 0
  /\ request' = Cleared(Req) /\ seen' = Cleared(Req)
  /\ reply' = Cleared(Rep) /\ response' = Cleared(Rep)
  /\ wire' = <<>> /\ status' = "none" /\ runs' = 0
  /\ UNCHANGED method

Next ==
  \/ \E f \in ToSet(Req) : \E v \in Inputs(f) : Set(f, v)
  \/ \E extra \in {<<>>, << <<16, "varint", 1>> >>} : Send(extra)
  \/ Unimplemented
  \/ \E r \in Replies(Rep) : Handle(r)
  \/ Receive \/ Fail \/ Return

Spec == Init /\ [][Next]_vars
-----------------------------------------------------------------------------
(***************************************************************************)
(* A handler that runs has the request the caller has set, defaults and    *)
(* empty elements included, or it does not run at all: proto3 leaves       *)
(* defaults out and refuses strings that are not UTF-8 only when it reads  *)
(* them (raft.pb.cc:783-845, 847-887).                                     *)
(***************************************************************************)
HandlerSeesRequest == runs > 0 => seen.val = request.val

(***************************************************************************)
(* A caller reports acceptance, data or a vote only if the handler has run *)
(* exactly once and said so: an object nobody has filled in, a service     *)
(* nobody registered and bytes that do not parse all read as refusal       *)
(* (witness_service_impl.cpp:191-291, raft_rpc.cpp:309-330).               *)
(***************************************************************************)
ReportsOnlyAnswers ==
  phase = "done" /\ Reported # 0 =>
    /\ runs = 1
    /\ response.val = reply.val

(***************************************************************************)
(* What has been read can be written again without loss, the fields of a   *)
(* later proto file included (UnknownFieldParse, raft.pb.cc:827-838).      *)
(***************************************************************************)
RelayKeepsBytes ==
  LET schema == IF phase = "sent" THEN Req ELSE Rep
      m == ParseFromArray(schema, wire)
  IN phase \in {"sent", "answered"} /\ m.ok => SerializeToString(schema, m) = wire
=============================================================================
