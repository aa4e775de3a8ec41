-------------------------------- MODULE Raft --------------------------------
(***************************************************************************)
(* RaftNode and RaftServiceImpl (raft.cpp, raft_rpc.cpp): the election and *)
(* the log replication that CurpMaster inherits.                           *)
(*                                                                         *)
(* An RPC is a request in flight, its handler at the receiver, and the     *)
(* rest of the thread that sent it when the reply comes back: collectVote  *)
(* or handleAppendEntries.  Handlers and those threads hold mtx_ for each  *)
(* step below.  The timers are left out: a tick may come at any time.      *)
(*                                                                         *)
(* lastIncludedIndex is 0 throughout, for no code takes a snapshot, so     *)
(* that VirtualLogIdx and RealLogIdx are the identity and the branches for *)
(* a truncated prefix are dead.  LogVec indexes from 0, a sequence from 1: *)
(* the entry at index i is Entry(n, i).                                    *)
(***************************************************************************)
EXTENDS Integers, Sequences, FiniteSets, FiniteSetsExt

CONSTANTS
  Nodes,          \* cluster_configs
  Nobody,         \* votedFor = -1
  MaxTerm,        \* bound: the term up to which each node starts elections
  MaxLogSize,     \* bound: log size up to which a leader is given entries
  MaxMsgs         \* bound: messages in flight

ASSUME RaftAssumption ==
  /\ IsFiniteSet(Nodes) /\ Nodes # {}
  /\ Nobody \notin Nodes
  /\ MaxTerm \in [Nodes -> Nat]
  /\ MaxLogSize \in Nat /\ MaxMsgs \in Nat

VARIABLES
  currentTerm, votedFor, log, nextIndex, matchIndex, role, commitIndex,
  voteCount,      \* the counter of the node's latest election
  collecting,     \* collectVote threads whose GetVoteAnswer returned TRUE
  msgs,           \* requests and replies in flight
  \* History, read by the properties only.
  voters,         \* who voted for the node in its latest election
  leaders,        \* who has led in which term, elected by whom
  leaderLog,      \* the log of the leader of each term that had one
  committed       \* what leaders have committed, and in which term

electionVars == <<votedFor, voteCount, collecting, voters, leaders>>
logVars == <<log, nextIndex, matchIndex, commitIndex, leaderLog, committed>>
vars == <<currentTerm, role, electionVars, logVars, msgs>>

\* raft::Entry, with the leader it comes from in place of key and value.
LogEntry == [term : Nat, from : Nodes \cup {Nobody}]
\* Mutant: the blank entry is of no term.
BlankEntryMinusOne == [term |-> -1, from |-> Nobody]
BlankEntry == [term |-> 0, from |-> Nobody]

Entry(n, i) == log[n][i + 1]
LastIndex(n) == Len(log[n]) - 1
LastTerm(n) == Entry(n, LastIndex(n)).term

Peers(n) == Nodes \ {n}
IsMajority(count) == count > Cardinality(Nodes) \div 2

\* RPCs go out to other nodes.  Some fail right away, and all do that are
\* too many for the bound.
Send(requests) ==
  \E sent \in SUBSET requests :
    /\ Cardinality(msgs \cup sent) <= MaxMsgs
    /\ msgs' = msgs \cup sent

Init ==
  /\ currentTerm = [n \in Nodes |-> 0]
  /\ votedFor = [n \in Nodes |-> Nobody]
  /\ log = [n \in Nodes |-> <<BlankEntry>>]
  /\ nextIndex = [n \in Nodes |-> [m \in Nodes |-> 0]]
  /\ matchIndex = [n \in Nodes |-> [m \in Nodes |-> 0]]
  /\ role = [n \in Nodes |-> "FOLLOWER"]
  /\ commitIndex = [n \in Nodes |-> 0]
  /\ voteCount = [n \in Nodes |-> 0]
  /\ collecting = {}
  /\ msgs = {}
  /\ voters = [n \in Nodes |-> {}]
  /\ leaders = {}
  /\ leaderLog = [t \in {0} |-> <<BlankEntry>>]
  /\ committed = {}
-----------------------------------------------------------------------------
(* Election *)

(***************************************************************************)
(* ticker starts Elect in a thread of its own when the node is not the     *)
(* leader, and Elect does not test that again.  A node can have become     *)
(* leader meanwhile, and every leader was a candidate before: Elect may    *)
(* run in any role.  The persist() it calls does nothing.                  *)
(***************************************************************************)
Elect(n) ==
  /\ currentTerm[n] < MaxTerm[n]
  /\ currentTerm' = [currentTerm EXCEPT ![n] = @ + 1]
  /\ role' = [role EXCEPT ![n] = "CANDIDATE"]
  /\ votedFor' = [votedFor EXCEPT ![n] = n]
  /\ voteCount' = [voteCount EXCEPT ![n] = 1]
  /\ voters' = [voters EXCEPT ![n] = {n}]
  /\ Send({[ kind |-> "RequestVote", from |-> n, to |-> m,
             term |-> currentTerm'[n], lastlogindex |-> LastIndex(n),
             lastlogterm |-> LastTerm(n) ] : m \in Peers(n)})
  /\ UNCHANGED <<collecting, leaders, logVars>>

\* Mutant: only the lengths are compared.
UpToDateByIndex(n, a) == a.lastlogindex >= LastIndex(n)

\* The candidate's log is at least as up to date as that of node n.
UpToDate(n, a) ==
  \/ a.lastlogterm > LastTerm(n)
  \/ a.lastlogterm = LastTerm(n) /\ a.lastlogindex >= LastIndex(n)

\* Mutant: the vote given in this term is forgotten.
GrantsVoteAgain(n, a) == a.term >= currentTerm[n] /\ UpToDate(n, a)

\* Whether n votes for the candidate of request a, a newer term having
\* voided its earlier vote.
GrantsVote(n, a) ==
  /\ a.term >= currentTerm[n]
  /\ a.term > currentTerm[n] \/ votedFor[n] \in {Nobody, a.from}
  /\ UpToDate(n, a)

RequestVote(n, a) ==
  LET newer == a.term > currentTerm[n]
      granted == GrantsVote(n, a)
  IN /\ a \in msgs /\ a.kind = "RequestVote" /\ a.to = n
     /\ currentTerm' = [currentTerm EXCEPT ![n] = IF newer THEN a.term ELSE @]
     /\ votedFor' = [votedFor EXCEPT ![n] = IF granted THEN a.from
                                            ELSE IF newer THEN Nobody ELSE @]
     /\ role' = [role EXCEPT ![n] = IF newer \/ granted THEN "FOLLOWER" ELSE @]
     /\ msgs' = (msgs \ {a}) \cup
          {[ kind |-> "RequestVoteReply", from |-> n, to |-> a.from,
             request |-> a.term, term |-> currentTerm'[n],
             votegranted |-> granted ]}
     /\ voters' = IF granted /\ a.term = currentTerm[a.from]
                  THEN [voters EXCEPT ![a.from] = @ \cup {n}] ELSE voters
     /\ UNCHANGED <<voteCount, collecting, leaders, logVars>>

\* A reply with a newer term turns the caller into a follower.
StepDown(n, t) ==
  /\ currentTerm' = [currentTerm EXCEPT ![n] = t]
  /\ role' = [role EXCEPT ![n] = "FOLLOWER"]
  /\ votedFor' = [votedFor EXCEPT ![n] = Nobody]

GetVoteAnswer(n, b) ==
  LET stale == role[n] # "CANDIDATE" \/ b.request # currentTerm[n] IN
  /\ b \in msgs /\ b.kind = "RequestVoteReply" /\ b.to = n
  /\ msgs' = msgs \ {b}
  /\ IF ~stale /\ b.term > currentTerm[n]
     THEN StepDown(n, b.term)
     ELSE UNCHANGED <<currentTerm, role, votedFor>>
  /\ collecting' = IF ~stale /\ b.votegranted
                   THEN collecting \cup {[node |-> n, voter |-> b.from, term |-> b.request]}
                   ELSE collecting
  /\ UNCHANGED <<voteCount, voters, leaders, logVars>>

(***************************************************************************)
(* The rest of collectVote.  The node has been unlocked since              *)
(* GetVoteAnswer looked at it, so role and term are tested again.  A       *)
(* thread of an earlier election has a counter of its own and fails that   *)
(* test; it leaves nothing behind.                                         *)
(***************************************************************************)
CollectVote(t) ==
  LET n == t.node
      ours == t.term = currentTerm[n] /\ ~IsMajority(voteCount[n])
      count == IF ours THEN voteCount[n] + 1 ELSE voteCount[n]
      wins == ours /\ IsMajority(count) /\ role[n] = "CANDIDATE"
  IN /\ t \in collecting
     /\ collecting' = collecting \ {t}
     /\ voteCount' = [voteCount EXCEPT ![n] = count]
     /\ IF wins
        THEN /\ role' = [role EXCEPT ![n] = "LEADER"]
             /\ nextIndex' = [nextIndex EXCEPT ![n] = [m \in Nodes |-> Len(log[n])]]
             /\ matchIndex' = [matchIndex EXCEPT ![n] = [m \in Nodes |-> 0]]
             /\ leaders' = leaders \cup
                  {[node |-> n, term |-> currentTerm[n], voters |-> voters[n]]}
             /\ leaderLog' = [u \in DOMAIN leaderLog \cup {currentTerm[n]} |->
                                IF u = currentTerm[n] THEN log[n] ELSE leaderLog[u]]
        ELSE UNCHANGED <<role, nextIndex, matchIndex, leaders, leaderLog>>
     /\ UNCHANGED <<currentTerm, votedFor, log, commitIndex, voters, committed, msgs>>
-----------------------------------------------------------------------------
(* Log replication *)

\* Whoever embeds the leader appends an entry of its term.  No code of the
\* repository does: CurpMaster::do_sync builds its entries and drops them.
HostAppend(n) ==
  /\ role[n] = "LEADER" /\ Len(log[n]) < MaxLogSize
  /\ log' = [log EXCEPT ![n] = Append(@, [term |-> currentTerm[n], from |-> n])]
  /\ leaderLog' = [leaderLog EXCEPT ![currentTerm[n]] = log'[n]]
  /\ UNCHANGED <<currentTerm, role, electionVars, nextIndex, matchIndex,
                 commitIndex, committed, msgs>>

AppendEntriesArgs(n, m) ==
  LET prev == nextIndex[n][m] - 1 IN
  [ kind |-> "AppendEntries", from |-> n, to |-> m, term |-> currentTerm[n],
    prevlogindex |-> prev, prevlogterm |-> Entry(n, prev).term,
    entries |-> SubSeq(log[n], prev + 2, Len(log[n])),
    leadercommit |-> commitIndex[n] ]

\* One turn of the loop: a request to every peer, under one lock.
SendHeartBeats(n) ==
  /\ role[n] = "LEADER"
  /\ Send({AppendEntriesArgs(n, m) : m \in Peers(n)})
  /\ UNCHANGED <<currentTerm, role, electionVars, logVars>>

\* Mutants: entries already there are never compared; a delayed request
\* cuts off what a later one appended.
MergedAppendOnly(lg, prev, entries) ==
  lg \o SubSeq(entries, Len(lg) - prev, Len(entries))
MergedAlwaysTruncates(lg, prev, entries) == SubSeq(lg, 1, prev + 1) \o entries

\* The log of a follower that agrees with the leader up to prev: from the
\* first new entry that is missing or of another term on, it is replaced.
Merged(lg, prev, entries) ==
  LET new == {j \in 1..Len(entries) :
                \/ prev + j >= Len(lg)
                \/ lg[prev + j + 1].term # entries[j].term}
  IN IF new = {} THEN lg
     ELSE SubSeq(lg, 1, prev + Min(new)) \o SubSeq(entries, Min(new), Len(entries))

\* Mutant: the entry itself, not the one behind it.
XIndexOffByOne(n, prev) ==
  Max({i \in 0..prev : i <= commitIndex[n] \/ Entry(n, i).term # Entry(n, prev).term})

\* Where the leader is to back off to: behind the last entry before prev
\* that is of another term or committed.
XIndex(n, prev) ==
  1 + Max({i \in 0..prev : i <= commitIndex[n] \/ Entry(n, i).term # Entry(n, prev).term})

\* The answer to a request that is not of an old term.
AppendReply(n, a) ==
  IF a.prevlogindex > LastIndex(n)
  THEN [success |-> FALSE, xterm |-> -1, xindex |-> 0, xlen |-> Len(log[n])]
  ELSE IF Entry(n, a.prevlogindex).term # a.prevlogterm
  THEN [success |-> FALSE, xterm |-> Entry(n, a.prevlogindex).term,
        xindex |-> XIndex(n, a.prevlogindex), xlen |-> Len(log[n])]
  ELSE [success |-> TRUE, xterm |-> 0, xindex |-> 0, xlen |-> 0]

RefusedAsOld == [success |-> FALSE, xterm |-> 0, xindex |-> 0, xlen |-> 0]

\* A candidate that hears the leader of its own term stays a candidate.
AppendEntries(n, a) ==
  LET old == a.term < currentTerm[n]
      newer == a.term > currentTerm[n]
      reply == IF old THEN RefusedAsOld ELSE AppendReply(n, a)
      lg == IF reply.success THEN Merged(log[n], a.prevlogindex, a.entries) ELSE log[n]
      commit == IF reply.success /\ a.leadercommit > commitIndex[n]
                THEN Min({a.leadercommit, Len(lg) - 1}) ELSE commitIndex[n]
  IN /\ a \in msgs /\ a.kind = "AppendEntries" /\ a.to = n
     /\ currentTerm' = [currentTerm EXCEPT ![n] = IF newer THEN a.term ELSE @]
     /\ votedFor' = [votedFor EXCEPT ![n] = IF newer THEN Nobody ELSE @]
     /\ role' = [role EXCEPT ![n] = IF newer THEN "FOLLOWER" ELSE @]
     /\ log' = [log EXCEPT ![n] = lg]
     /\ commitIndex' = [commitIndex EXCEPT ![n] = commit]
     /\ msgs' = (msgs \ {a}) \cup
            {[ kind |-> "AppendEntriesReply", from |-> n, to |-> a.from,
               request |-> a.term, acked |-> a.prevlogindex + Len(a.entries),
               term |-> currentTerm'[n], reply |-> reply ]}
     /\ UNCHANGED <<voteCount, collecting, voters, leaders, nextIndex, matchIndex,
                    leaderLog, committed>>

\* Mutant: the leader counts itself twice.
CommittableEarly(n, match) ==
  {i \in commitIndex[n] + 1 .. LastIndex(n) :
     /\ Entry(n, i).term = currentTerm[n]
     /\ IsMajority(2 + Cardinality({m \in Peers(n) : match[m] >= i}))}

\* The indices beyond commitIndex that a majority has, in the leader's term.
Committable(n, match) ==
  {i \in commitIndex[n] + 1 .. LastIndex(n) :
     /\ Entry(n, i).term = currentTerm[n]
     /\ IsMajority(1 + Cardinality({m \in Peers(n) : match[m] >= i}))}

\* Mutant: the search does not stop at commitIndex.
NewCommitIndexRecount(n, match) == Max(Committable(n, match) \cup {0})

\* The search for the new commitIndex starts at the end of the log.
NewCommitIndex(n, match) ==
  Max(Committable(n, match) \cup {Min({commitIndex[n], LastIndex(n)})})

\* Where the leader goes on after a refusal: at the end of a log that is too
\* short, behind its own last entry of the conflicting term, or else where
\* that term starts at the follower.
BackOff(n, m, r) ==
  LET i == Max({j \in 0..nextIndex[n][m] - 1 : j = 0 \/ Entry(n, j).term <= r.xterm}) IN
  IF r.xterm = -1 THEN r.xlen
  ELSE IF Entry(n, i).term = r.xterm THEN i + 1 ELSE r.xindex

handleAppendEntries(n, b) ==
  LET m == b.from
      stale == role[n] # "LEADER" \/ b.request # currentTerm[n]
      match == [matchIndex[n] EXCEPT ![m] = Max({@, b.acked})]
  IN /\ b \in msgs /\ b.kind = "AppendEntriesReply" /\ b.to = n
     /\ msgs' = msgs \ {b}
     /\ \/ /\ stale
           /\ UNCHANGED <<currentTerm, role, votedFor, logVars>>
        \/ /\ ~stale /\ b.reply.success
           /\ matchIndex' = [matchIndex EXCEPT ![n] = match]
           /\ nextIndex' = [nextIndex EXCEPT ![n][m] = match[m] + 1]
           /\ commitIndex' = [commitIndex EXCEPT ![n] = NewCommitIndex(n, match)]
           /\ committed' = committed \cup
                {[index |-> i, entry |-> Entry(n, i), term |-> currentTerm[n]] :
                   i \in commitIndex[n] + 1 .. commitIndex'[n]}
           /\ UNCHANGED <<currentTerm, role, votedFor, log, leaderLog>>
        \/ /\ ~stale /\ ~b.reply.success /\ b.term > currentTerm[n]
           /\ StepDown(n, b.term)
           /\ UNCHANGED logVars
        \/ /\ ~stale /\ ~b.reply.success /\ b.term = currentTerm[n]
           /\ nextIndex' = [nextIndex EXCEPT ![n][m] = BackOff(n, m, b.reply)]
           /\ UNCHANGED <<currentTerm, role, votedFor, log, matchIndex,
                          commitIndex, leaderLog, committed>>
     /\ UNCHANGED <<voteCount, collecting, voters, leaders>>
-----------------------------------------------------------------------------
\* An RPC fails before or after its handler ran; the sender ignores it.
RpcFails(b) ==
  /\ b \in msgs
  /\ msgs' = msgs \ {b}
  /\ UNCHANGED <<currentTerm, role, electionVars, logVars>>

Next ==
  \/ \E n \in Nodes :
       \/ Elect(n) \/ HostAppend(n) \/ SendHeartBeats(n)
       \/ \E b \in msgs :
            \/ RequestVote(n, b) \/ GetVoteAnswer(n, b)
            \/ AppendEntries(n, b) \/ handleAppendEntries(n, b)
  \/ \E t \in collecting : CollectVote(t)
  \/ \E b \in msgs : RpcFails(b)

Spec == Init /\ [][Next]_vars
-----------------------------------------------------------------------------
TypeOK ==
  /\ currentTerm \in [Nodes -> Nat]
  /\ votedFor \in [Nodes -> Nodes \cup {Nobody}]
  /\ log \in [Nodes -> Seq(LogEntry)]
  /\ \A n \in Nodes : Len(log[n]) > 0
  /\ nextIndex \in [Nodes -> [Nodes -> Nat]]
  /\ matchIndex \in [Nodes -> [Nodes -> Nat]]
  /\ role \in [Nodes -> {"FOLLOWER", "CANDIDATE", "LEADER"}]
  /\ commitIndex \in [Nodes -> Nat]
  /\ voteCount \in [Nodes -> Nat]
  /\ collecting \subseteq [node : Nodes, voter : Nodes, term : Nat]
  /\ voters \in [Nodes -> SUBSET Nodes]
  /\ leaders \subseteq [node : Nodes, term : Nat, voters : SUBSET Nodes]
  /\ DOMAIN leaderLog \subseteq Nat
  /\ \A t \in DOMAIN leaderLog : leaderLog[t] \in Seq(LogEntry)
  /\ committed \subseteq [index : Nat, entry : LogEntry, term : Nat]

(***************************************************************************)
(* No term has two leaders, although Elect threads start late, votes are   *)
(* counted after the node was unlocked and replies of older elections      *)
(* arrive (raft.cpp:101-117, raft_rpc.cpp:75-104, 319-327).                *)
(***************************************************************************)
OneLeaderPerTerm == \A l, k \in leaders : l.term = k.term => l.node = k.node

(***************************************************************************)
(* Two logs with an entry of one term at the same index are equal up to    *)
(* there (raft_rpc.cpp:205, 238-259).                                      *)
(***************************************************************************)
LogsMatch ==
  \A n, m \in Nodes : \A i \in 0 .. Min({LastIndex(n), LastIndex(m)}) :
    Entry(n, i).term = Entry(m, i).term
      => SubSeq(log[n], 1, i + 1) = SubSeq(log[m], 1, i + 1)

\* What node n takes for committed, and the longest of it all: the blank
\* entry at index 0 is everyone's.
Known(n) == SubSeq(log[n], 2, commitIndex[n] + 1)
Chosen ==
  Known(CHOOSE n \in Nodes : \A m \in Nodes : commitIndex[m] <= commitIndex[n])

Commits == INSTANCE CommittedLog WITH
  chosen <- Chosen,
  known <- [n \in Nodes |-> Known(n)]

(***************************************************************************)
(* Committed once is committed for ever, and for all: the nodes implement  *)
(* one log of commits, to which a step appends and of which a node knows   *)
(* ever more, whatever delayed requests and replies it has processed       *)
(* (raft.cpp:237-260, raft_rpc.cpp:238-285).                               *)
(***************************************************************************)
ImplementsCommittedLog == Commits!Spec

(***************************************************************************)
(* A leader has every entry that was committed in its term or before       *)
(* (raft_rpc.cpp:87-90).                                                   *)
(***************************************************************************)
LeaderHasCommitted ==
  \A n \in Nodes : role[n] = "LEADER" =>
    \A c \in committed : c.term <= currentTerm[n] =>
      c.index <= LastIndex(n) /\ Entry(n, c.index) = c.entry

(***************************************************************************)
(* matchIndex of a leader is the truth about a follower that knows no      *)
(* later term, although replies arrive out of order (raft.cpp:228-234).    *)
(***************************************************************************)
MatchIndexIsTrue ==
  \A n \in Nodes : role[n] = "LEADER" =>
    \A m \in Peers(n) : currentTerm[m] <= currentTerm[n] =>
      /\ matchIndex[n][m] <= LastIndex(m)
      /\ SubSeq(log[m], 1, matchIndex[n][m] + 1) = SubSeq(log[n], 1, matchIndex[n][m] + 1)

(***************************************************************************)
(* The reads of the log by the heart beats stay inside it: backing off     *)
(* never moves nextIndex to 0 or past the end (raft.cpp:366-394 and        *)
(* assert(idx < entry_count_) in log_vec.cpp:164).                         *)
(***************************************************************************)
NextIndexInLog ==
  \A n \in Nodes : role[n] = "LEADER" =>
    \A m \in Peers(n) : nextIndex[n][m] \in 1 .. Len(log[n])

\* A running node never takes back a commit, a vote or a term.
NothingTakenBack ==
  [][\A n \in Nodes : 
       /\ currentTerm'[n] >= currentTerm[n]
       /\ commitIndex'[n] >= commitIndex[n]
       /\ currentTerm'[n] = currentTerm[n] /\ votedFor[n] # Nobody
            => votedFor'[n] = votedFor[n]]_vars
=============================================================================
