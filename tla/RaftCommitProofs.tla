---------------------------- MODULE RaftCommitProofs ----------------------------
(***************************************************************************)
(* Commits of Raft, for clusters, logs and terms of any size: a leader has *)
(* every entry committed before, nothing committed is taken back, and the  *)
(* nodes implement one log of commits.                                     *)
(*                                                                         *)
(* An entry is followed from the node that stored it: unless some leader   *)
(* of a later term has a log without the entry, the node still has it, and *)
(* so has every candidate it votes for.  When a majority has stored the    *)
(* entry of a leader's own term, there is no such leader: the first one    *)
(* would have been elected with the vote of a node that has the entry.     *)
(***************************************************************************)
EXTENDS RaftProofs

\* The log has at position i an entry of term T.
Has(L, T, i) == i \in 1..Len(L) /\ L[i].term = T

\* A leader after term T, up to term U, has not got that entry.
Lost(leads, T, i, U) ==
  \E W \in DOMAIN leads : T < W /\ W <= U /\ ~Has(leads[W], T, i)

\* A candidate in a term that has no leader yet.
Pending(c) == role[c] = "CANDIDATE" /\ currentTerm[c] \notin DOMAIN leaderLog

(***************************************************************************)
(* Node m stored the entry of term T at position i as a follower of the    *)
(* leader of T, or as that leader: m has it and has passed it on, as its   *)
(* vote, to the later leaders and candidates it voted for.                 *)
(***************************************************************************)
Tracked(m, T, i) ==
  /\ currentTerm[m] >= T
  /\ Has(log[m], T, i) \/ Lost(leaderLog, T, i, currentTerm[m])
  /\ \A l \in leaders : m \in l.voters /\ l.term > T
       => Has(leaderLog[l.term], T, i) \/ Lost(leaderLog, T, i, l.term - 1)
  /\ \A c \in Nodes : Pending(c) /\ m \in voters[c] /\ currentTerm[c] > T
       => Has(log[c], T, i) \/ Lost(leaderLog, T, i, currentTerm[c])

\* A majority has stored the entry.
Anchored(T, i) ==
  /\ T \in DOMAIN leaderLog /\ Has(leaderLog[T], T, i)
  /\ \E Q \in SUBSET Nodes : /\ IsMajority(Cardinality(Q))
                             /\ \A m \in Q : Tracked(m, T, i)

\* The commits up to index ci, by a node with the log L in term U, are
\* backed by such an entry behind them.
Backed(L, ci, U) ==
  \E T \in DOMAIN leaderLog :
    /\ T <= U /\ Agree(L, leaderLog[T], ci + 1)
    /\ \E i \in ci + 1 .. Len(leaderLog[T]) : Anchored(T, i)

\* What was acknowledged is tracked.
AckInv ==
  \A b \in msgs : b.kind = "AppendEntriesReply" /\ b.reply.success =>
    \A i \in 1..b.acked + 1 :
      Has(leaderLog[b.request], b.request, i) => Tracked(b.from, b.request, i)

LeaderAcks(n) ==
  \A T \in DOMAIN leaderLog : role[n] = "LEADER" /\ currentTerm[n] = T =>
    \A i \in 1..Len(log[n]) : log[n][i].term = T =>
      /\ Tracked(n, T, i)
      /\ \A m \in Peers(n) : i <= matchIndex[n][m] + 1 => Tracked(m, T, i)

LeaderAckInv == \A n \in Nodes : LeaderAcks(n)

\* A candidate that can still win has the log that its requests tell of.
RequestInv ==
  \A b \in msgs :
    b.kind = "RequestVote" /\ Pending(b.from) /\ b.term = currentTerm[b.from] =>
      b.lastlogindex = LastIndex(b.from) /\ b.lastlogterm = LastTerm(b.from)

CommittedInv ==
  \A c \in committed :
    /\ c.term \in DOMAIN leaderLog /\ c.index + 1 <= Len(leaderLog[c.term])
    /\ c.entry = leaderLog[c.term][c.index + 1]
    /\ \E i \in c.index + 1 .. Len(leaderLog[c.term]) : Anchored(c.term, i)

BackedInv ==
  /\ \A n \in Nodes : Backed(log[n], commitIndex[n], currentTerm[n])
  /\ \A a \in msgs : a.kind = "AppendEntries" =>
       /\ a.leadercommit <= a.prevlogindex + Len(a.entries)
       /\ Backed(leaderLog[a.term], a.leadercommit, a.term)

CommitInv == AckInv /\ LeaderAckInv /\ RequestInv /\ CommittedInv /\ BackedInv
-----------------------------------------------------------------------------
\* The last entry of L is of a later term than that of M, or of the same and
\* L is no shorter: what UpToDate asks.
AtLeast(L, M) ==
  \/ L[Len(L)].term > M[Len(M)].term
  \/ L[Len(L)].term = M[Len(M)].term /\ Len(L) >= Len(M)

\* What a log has, the log of the leader of that term has at that place.
LEMMA HasInLeader ==
  ASSUME NEW leads, NEW L, Good(L, leads), NEW T, NEW i, Has(L, T, i)
  PROVE  T \in DOMAIN leads /\ Has(leads[T], T, i) /\ Agree(L, leads[T], i)
PROOF
  <1>1. i \in 1..Len(L) /\ L[i].term = T
    BY DEF Has
  <1>2. T \in DOMAIN leads /\ Agree(L, leads[T], i)
    BY <1>1 DEF Good
  <1>3. i \in Nat /\ i >= 1 /\ L[i] = leads[T][i] /\ i <= Len(leads[T])
    BY <1>1, <1>2 DEF Agree
  <1>4. Len(L) \in Nat
    BY DEF Good
  <1> QED
    BY <1>1, <1>2, <1>3, <1>4 DEF Has

(***************************************************************************)
(* An entry that a voter has is in the log of the candidate, which is at   *)
(* least as up to date, unless a leader since has not got it.              *)
(***************************************************************************)
LEMMA VoteCarries ==
  ASSUME NEW leads, DOMAIN leads \subseteq Nat, \A t \in DOMAIN leads : Good(leads[t], leads),
         NEW L, NEW M, Good(L, leads), Good(M, leads), AtLeast(L, M),
         NEW U \in Nat, UpToTerm(L, U), NEW T \in Nat, NEW i \in Nat, Has(M, T, i)
  PROVE  Has(L, T, i) \/ Lost(leads, T, i, U)
PROOF
  <1> DEFINE w == L[Len(L)].term
             v == M[Len(M)].term
  <1>1. /\ L \in Seq(LogEntry) /\ M \in Seq(LogEntry) /\ Len(L) \in Nat /\ Len(M) \in Nat
        /\ Len(L) >= 1 /\ Len(M) >= 1
    BY DEF Good
  <1>2. /\ Len(L) \in 1..Len(L) /\ Len(M) \in 1..Len(M)
    BY <1>1
  <1>3. i \in 1..Len(M) /\ M[i].term = T /\ i <= Len(M)
    BY <1>1 DEF Has
  <1>4. T <= v /\ v \in Nat /\ w \in Nat
    <2>1. L[Len(L)] \in LogEntry /\ M[Len(M)] \in LogEntry
      BY <1>1, <1>2
    <2> QED BY <1>2, <1>3, <2>1 DEF Good, LogEntry
  <1>5. /\ w \in DOMAIN leads /\ Agree(L, leads[w], Len(L)) /\ w <= U
        /\ Good(leads[w], leads)
    BY <1>2 DEF Good, UpToTerm
  <1>6. w > v \/ (w = v /\ Len(L) >= Len(M))
    BY DEF AtLeast
  <1> HIDE DEF w, v
  <1>7. CASE w = T
    <2>1. Has(leads[T], T, i)
      BY HasInLeader
    <2>2. i \in 1..Len(L)
      BY <1>1, <1>3, <1>4, <1>6, <1>7
    <2>3. L[i] = leads[T][i]
      BY <1>5, <1>7, <2>2 DEF Agree
    <2> QED BY <2>1, <2>2, <2>3 DEF Has
  <1>8. CASE w > T /\ Has(leads[w], T, i)
    <2>1. /\ leads[w] \in Seq(LogEntry) /\ Len(leads[w]) \in Nat
          /\ i \in 1..Len(leads[w]) /\ leads[w][i].term = T
          /\ Len(L) <= Len(leads[w]) /\ leads[w][Len(L)] = L[Len(L)]
      <3>1. i \in 1..Len(leads[w]) /\ leads[w][i].term = T
        BY <1>8 DEF Has
      <3>2. leads[w] \in Seq(LogEntry)
        BY <1>5 DEF Good
      <3>3. Len(L) <= Len(leads[w]) /\ leads[w][Len(L)] = L[Len(L)]
        BY <1>2, <1>5 DEF Agree
      <3> QED BY <3>1, <3>2, <3>3
    <2>2. leads[w][Len(L)].term = w
      BY <2>1 DEF w
    <2>3. i <= Len(L)
      <3>1. SUFFICES ASSUME Len(L) <= i PROVE w <= T
        BY <1>1, <1>4, <1>8
      <3>2. Len(L) \in 1..Len(leads[w])
        BY <1>1, <2>1
      <3> QED BY <1>5, <2>1, <2>2, <3>1, <3>2 DEF Good
    <2>4. i \in 1..Len(L) /\ L[i] = leads[w][i]
      BY <1>1, <1>3, <1>5, <2>3 DEF Agree
    <2> QED BY <2>1, <2>4 DEF Has
  <1>9. CASE w > T /\ ~Has(leads[w], T, i)
    BY <1>5, <1>9 DEF Lost
  <1> QED
    BY <1>4, <1>6, <1>7, <1>8, <1>9
-----------------------------------------------------------------------------
(***************************************************************************)
(* What a step may do to logs, leaders, candidates and their voters.       *)
(***************************************************************************)
CommitFrame ==
  /\ Frame
  \* A leader appends entries of its own term only.
  /\ \A t \in DOMAIN leaderLog : \A i \in 1..Len(leaderLog'[t]) :
       i > Len(leaderLog[t]) => leaderLog'[t][i].term = t
  \* A node drops an entry for a leader that has not got it.
  /\ \A m \in Nodes : \A T, i \in Nat :
       Has(log[m], T, i)
         => Has(log'[m], T, i) \/ Lost(leaderLog', T, i, currentTerm'[m])
  \* A new leader was a candidate.
  /\ \A l \in leaders' :
       \/ l \in leaders
       \/ \E c \in Nodes : /\ Pending(c) /\ l.voters = voters[c] /\ l.term = currentTerm[c]
                           /\ leaderLog'[l.term] = log[c]
  \* A candidate keeps its log, and new voters find it up to date.
  /\ \A c \in Nodes : Pending(c)' =>
       /\ log'[c] = log[c]
       /\ \/ Pending(c) /\ currentTerm'[c] = currentTerm[c]
          \/ currentTerm'[c] > currentTerm[c]
       /\ \A m \in voters'[c] :
            \/ Pending(c) /\ currentTerm'[c] = currentTerm[c] /\ m \in voters[c]
            \/ AtLeast(log[c], log[m]) /\ currentTerm[m] <= currentTerm'[c]

LEMMA LogFacts ==
  ASSUME ElectionInv, LogInv
  PROVE  /\ DOMAIN leaderLog \subseteq Nat
         /\ \A t \in DOMAIN leaderLog :
              /\ Good(leaderLog[t], leaderLog) /\ UpToTerm(leaderLog[t], t)
              /\ leaderLog[t] \in Seq(LogEntry) /\ Len(leaderLog[t]) \in Nat
         /\ \A n \in Nodes :
              /\ Good(log[n], leaderLog) /\ UpToTerm(log[n], currentTerm[n])
              /\ log[n] \in Seq(LogEntry) /\ Len(log[n]) \in Nat /\ Len(log[n]) >= 1
              /\ currentTerm[n] \in Nat /\ commitIndex[n] \in Nat
PROOF
  <1>1. DOMAIN leaderLog \subseteq Nat
    BY DEF ElectionInv, VoteTypes, LogInv, LeaderLogInv
  <1>2. /\ \A t \in DOMAIN leaderLog : Good(leaderLog[t], leaderLog) /\ UpToTerm(leaderLog[t], t)
        /\ \A n \in Nodes : Good(log[n], leaderLog) /\ UpToTerm(log[n], currentTerm[n])
    BY DEF LogInv, MatchInv
  <1>3. \A n \in Nodes : currentTerm[n] \in Nat /\ commitIndex[n] \in Nat
    BY DEF ElectionInv, VoteTypes, LogInv, ReplicationTypes
  <1>4. ASSUME NEW L, Good(L, leaderLog)
        PROVE  L \in Seq(LogEntry) /\ Len(L) \in Nat /\ Len(L) >= 1
    <2>1. L \in Seq(LogEntry) /\ Len(L) >= 1
      BY <1>4 DEF Good
    <2> QED BY <2>1
  <1> QED
    BY <1>1, <1>2, <1>3, <1>4

LEMMA HasKept ==
  ASSUME ElectionInv, LogInv, LogInv', CommitFrame,
         NEW t \in DOMAIN leaderLog, NEW T \in Nat, NEW i \in Nat
  PROVE  /\ Has(leaderLog[t], T, i) => Has(leaderLog'[t], T, i)
         /\ T < t /\ Has(leaderLog'[t], T, i) => Has(leaderLog[t], T, i)
         /\ i <= Len(leaderLog[t]) /\ Has(leaderLog'[t], T, i) => Has(leaderLog[t], T, i)
PROOF
  <1>1. /\ t \in DOMAIN leaderLog' /\ Agree(leaderLog[t], leaderLog'[t], Len(leaderLog[t]))
    BY DEF CommitFrame, Frame, GrowTo
  <1>2. /\ leaderLog[t] \in Seq(LogEntry) /\ leaderLog'[t] \in Seq(LogEntry)
    BY <1>1 DEF LogInv, MatchInv, Good
  <1>3. /\ Len(leaderLog[t]) \in Nat /\ Len(leaderLog'[t]) \in Nat
        /\ Len(leaderLog[t]) <= Len(leaderLog'[t])
        /\ \A j \in 1..Len(leaderLog[t]) : leaderLog[t][j] = leaderLog'[t][j]
    BY <1>1, <1>2 DEF Agree
  <1>4. \A j \in 1..Len(leaderLog'[t]) : j > Len(leaderLog[t]) => leaderLog'[t][j].term = t
    BY DEF CommitFrame
  <1>5. ASSUME T < t, Has(leaderLog'[t], T, i) PROVE i <= Len(leaderLog[t])
    <2>1. i \in 1..Len(leaderLog'[t]) /\ leaderLog'[t][i].term = T
      BY <1>5 DEF Has
    <2>2. T # t
      BY <1>5, LogFacts
    <2> QED BY <1>3, <1>4, <2>1, <2>2
  <1> QED
    BY <1>3, <1>5 DEF Has

LEMMA LostKept ==
  ASSUME ElectionInv, LogInv, LogInv', CommitFrame,
         NEW T \in Nat, NEW i \in Nat, NEW U \in Nat, NEW V \in Nat,
         Lost(leaderLog, T, i, U), U <= V
  PROVE  Lost(leaderLog', T, i, V)
PROOF
  <1>1. PICK W \in DOMAIN leaderLog : T < W /\ W <= U /\ ~Has(leaderLog[W], T, i)
    BY DEF Lost
  <1>2. W \in Nat
    BY LogFacts
  <1>3. W \in DOMAIN leaderLog' /\ ~Has(leaderLog'[W], T, i)
    BY <1>1, HasKept DEF CommitFrame, Frame, GrowTo
  <1>4. W <= V
    BY <1>1, <1>2
  <1> QED
    BY <1>1, <1>3, <1>4 DEF Lost

\* An entry stays tracked.
LEMMA TrackedKept ==
  ASSUME ElectionInv, ElectionInv', LogInv, LogInv', CommitFrame,
         NEW m \in Nodes, NEW T \in Nat, NEW i \in Nat, Tracked(m, T, i)
  PROVE  Tracked(m, T, i)'
PROOF
  <1>1. /\ currentTerm[m] >= T
        /\ Has(log[m], T, i) \/ Lost(leaderLog, T, i, currentTerm[m])
        /\ \A l \in leaders : m \in l.voters /\ l.term > T
             => Has(leaderLog[l.term], T, i) \/ Lost(leaderLog, T, i, l.term - 1)
        /\ \A c \in Nodes : Pending(c) /\ m \in voters[c] /\ currentTerm[c] > T
             => Has(log[c], T, i) \/ Lost(leaderLog, T, i, currentTerm[c])
    BY DEF Tracked
  <1>2. /\ currentTerm \in [Nodes -> Nat] /\ currentTerm' \in [Nodes -> Nat]
        /\ leaders \subseteq [node : Nodes, term : Nat, voters : SUBSET Nodes]
        /\ leaders' \subseteq [node : Nodes, term : Nat, voters : SUBSET Nodes]
        /\ \A c \in Nodes : currentTerm'[c] >= currentTerm[c]
    BY DEF ElectionInv, VoteTypes, CommitFrame, Frame
  <1>3. DOMAIN leaderLog = {0} \cup {l.term : l \in leaders}
    BY DEF LogInv, LeaderLogInv
  <1>4. /\ DOMAIN leaderLog \subseteq Nat /\ \A t \in DOMAIN leaderLog : Good(leaderLog[t], leaderLog)
        /\ \A c \in Nodes : Good(log[c], leaderLog) /\ UpToTerm(log[c], currentTerm[c])
    BY LogFacts
  <1>5. currentTerm'[m] >= T
    <2>1. currentTerm[m] \in Nat /\ currentTerm'[m] \in Nat /\ currentTerm'[m] >= currentTerm[m]
      BY <1>2
    <2> QED BY <1>1, <2>1
  <1>6. Has(log'[m], T, i) \/ Lost(leaderLog', T, i, currentTerm'[m])
    <2>1. CASE Has(log[m], T, i)
      BY <2>1 DEF CommitFrame
    <2>2. CASE Lost(leaderLog, T, i, currentTerm[m])
      BY <1>2, <2>2, LostKept
    <2> QED BY <1>1, <2>1, <2>2
  <1>7. ASSUME NEW l \in leaders', m \in l.voters, l.term > T
        PROVE  Has(leaderLog'[l.term], T, i) \/ Lost(leaderLog', T, i, l.term - 1)
    <2>1. l.term \in Nat /\ l.term - 1 \in Nat
      BY <1>2, <1>7
    <2>2. CASE l \in leaders
      <3>1. Has(leaderLog[l.term], T, i) \/ Lost(leaderLog, T, i, l.term - 1)
        BY <1>1, <1>7, <2>2
      <3>2. l.term \in DOMAIN leaderLog
        BY <1>3, <2>2
      <3>3. Has(leaderLog[l.term], T, i) => Has(leaderLog'[l.term], T, i)
        BY <3>2, HasKept
      <3>4. Lost(leaderLog, T, i, l.term - 1) => Lost(leaderLog', T, i, l.term - 1)
        BY <2>1, LostKept
      <3> QED BY <3>1, <3>3, <3>4
    <2>3. CASE l \notin leaders
      <3>1. PICK c \in Nodes : /\ Pending(c) /\ l.voters = voters[c] /\ l.term = currentTerm[c]
                               /\ leaderLog'[l.term] = log[c]
        BY <2>3 DEF CommitFrame
      <3>2. Has(log[c], T, i) \/ Lost(leaderLog, T, i, currentTerm[c])
        BY <1>1, <1>7, <3>1
      <3>3. Lost(leaderLog, T, i, l.term) => Lost(leaderLog, T, i, l.term - 1)
        <4>1. \A W \in DOMAIN leaderLog : W \in Nat /\ W # l.term
          BY <1>4, <3>1 DEF Pending
        <4> QED BY <2>1, <4>1 DEF Lost
      <3>4. Lost(leaderLog, T, i, l.term - 1) => Lost(leaderLog', T, i, l.term - 1)
        BY <2>1, LostKept
      <3> QED BY <3>1, <3>2, <3>3, <3>4
    <2> QED BY <2>2, <2>3
  <1>8. ASSUME NEW c \in Nodes, Pending(c)', m \in voters'[c], currentTerm'[c] > T
        PROVE  Has(log'[c], T, i) \/ Lost(leaderLog', T, i, currentTerm'[c])
    <2>1. currentTerm[c] \in Nat /\ currentTerm'[c] \in Nat /\ currentTerm'[c] >= currentTerm[c]
          /\ currentTerm[m] \in Nat
      BY <1>2
    <2>2. /\ log'[c] = log[c]
          /\ \/ Pending(c) /\ currentTerm'[c] = currentTerm[c] /\ m \in voters[c]
             \/ AtLeast(log[c], log[m]) /\ currentTerm[m] <= currentTerm'[c]
      BY <1>8 DEF CommitFrame
    <2>3. CASE Pending(c) /\ currentTerm'[c] = currentTerm[c] /\ m \in voters[c]
      <3>1. Has(log[c], T, i) \/ Lost(leaderLog, T, i, currentTerm[c])
        BY <1>1, <1>8, <2>3
      <3>2. Lost(leaderLog, T, i, currentTerm[c]) => Lost(leaderLog', T, i, currentTerm'[c])
        BY <2>1, LostKept
      <3> QED BY <2>2, <3>1, <3>2
    <2>4. CASE AtLeast(log[c], log[m]) /\ currentTerm[m] <= currentTerm'[c]
      <3>1. CASE Has(log[m], T, i)
        <4>1. Has(log[c], T, i) \/ Lost(leaderLog, T, i, currentTerm[c])
          BY <1>4, <2>1, <2>4, <3>1, VoteCarries
        <4>2. Lost(leaderLog, T, i, currentTerm[c]) => Lost(leaderLog', T, i, currentTerm'[c])
          BY <2>1, LostKept
        <4> QED BY <2>2, <4>1, <4>2
      <3>2. CASE Lost(leaderLog, T, i, currentTerm[m])
        BY <2>1, <2>4, <3>2, LostKept
      <3> QED BY <1>1, <3>1, <3>2
    <2> QED BY <2>2, <2>3, <2>4
  <1> QED
    BY <1>5, <1>6, <1>7, <1>8 DEF Tracked

\* A node that stores an entry in the term of it starts to be tracked.
LEMMA TrackedStart ==
  ASSUME ElectionInv', NEW m \in Nodes, NEW T \in Nat, NEW i \in Nat,
         currentTerm'[m] = T, Has(log'[m], T, i)
  PROVE  Tracked(m, T, i)'
PROOF
  <1>1. /\ currentTerm' \in [Nodes -> Nat]
        /\ leaders' \subseteq [node : Nodes, term : Nat, voters : SUBSET Nodes]
    BY DEF ElectionInv, VoteTypes
  <1>2. \A l \in leaders' : m \in l.voters => l.term <= T
    <2>1. \A l \in leaders' : m \in l.voters => currentTerm'[m] >= l.term /\ l.term \in Nat
      BY <1>1 DEF ElectionInv, LeaderInv, Bound
    <2> QED BY <2>1
  <1>3. \A c \in Nodes : Pending(c)' /\ m \in voters'[c] => currentTerm'[c] <= T
    <2>1. \A c \in Nodes : Pending(c)' /\ m \in voters'[c] => currentTerm'[m] >= currentTerm'[c]
      BY DEF ElectionInv, CandidateInv, Bound, Pending
    <2> QED BY <1>1, <2>1
  <1> QED
    BY <1>1, <1>2, <1>3 DEF Tracked

LEMMA AnchoredKept ==
  ASSUME ElectionInv, ElectionInv', LogInv, LogInv', CommitFrame,
         NEW T, NEW i, Anchored(T, i)
  PROVE  Anchored(T, i)'
PROOF
  <1>1. /\ T \in DOMAIN leaderLog /\ Has(leaderLog[T], T, i)
    BY DEF Anchored
  <1>2. PICK Q \in SUBSET Nodes : IsMajority(Cardinality(Q)) /\ \A m \in Q : Tracked(m, T, i)
    BY DEF Anchored
  <1>3. T \in Nat /\ i \in Nat
    BY <1>1, LogFacts DEF Has
  <1>4. T \in DOMAIN leaderLog' /\ Has(leaderLog'[T], T, i)
    BY <1>1, <1>3, HasKept DEF CommitFrame, Frame, GrowTo
  <1>5. \A m \in Q : Tracked(m, T, i)'
    BY <1>2, <1>3, TrackedKept
  <1> QED
    BY <1>2, <1>4, <1>5 DEF Anchored
-----------------------------------------------------------------------------
(***************************************************************************)
(* The leaders after the term of an anchored entry have it: the first that *)
(* had it not would have been elected by a node that had it.               *)
(***************************************************************************)
LEMMA Completeness ==
  ASSUME ElectionInv, LogInv, NEW T, NEW i, Anchored(T, i), NEW U \in DOMAIN leaderLog, U > T
  PROVE  Has(leaderLog[U], T, i)
PROOF
  <1> DEFINE F == {W \in DOMAIN leaderLog : W > T /\ ~Has(leaderLog[W], T, i)}
  <1>1. T \in DOMAIN leaderLog /\ DOMAIN leaderLog \subseteq Nat
    BY LogFacts DEF Anchored
  <1>2. CASE F = {}
    BY <1>2
  <1>3. CASE F # {}
    <2>1. F \in SUBSET Nat
      BY <1>1
    <2>2. PICK W \in F : \A V \in F : W <= V
      <3> HIDE DEF F
      <3> QED BY <1>3, <2>1, LeastNumber
    <2>3. W \in Nat /\ T \in Nat /\ W > T /\ W \in DOMAIN leaderLog
      BY <1>1, <2>1, <2>2
    <2>4. PICK l \in leaders : l.term = W
      <3>1. DOMAIN leaderLog = {0} \cup {l.term : l \in leaders}
        BY DEF LogInv, LeaderLogInv
      <3>2. W # 0
        BY <2>3
      <3> QED BY <2>3, <3>1, <3>2
    <2>5. PICK Q \in SUBSET Nodes : IsMajority(Cardinality(Q)) /\ \A m \in Q : Tracked(m, T, i)
      BY DEF Anchored
    <2>6. l.voters \in SUBSET Nodes /\ IsMajority(Cardinality(l.voters))
      BY DEF ElectionInv, LeaderInv, VoteTypes
    <2>7. PICK m : m \in Q /\ m \in l.voters
      BY <2>5, <2>6, MajoritiesMeet
    <2>8. Has(leaderLog[W], T, i) \/ Lost(leaderLog, T, i, W - 1)
      BY <2>3, <2>4, <2>5, <2>7 DEF Tracked
    <2>9. ~Lost(leaderLog, T, i, W - 1)
      <3>1. SUFFICES ASSUME NEW V \in DOMAIN leaderLog, T < V, V <= W - 1, ~Has(leaderLog[V], T, i)
                     PROVE  FALSE
        BY DEF Lost
      <3>2. V \in F /\ V \in Nat
        BY <1>1, <2>3, <3>1
      <3> HIDE DEF F
      <3> QED BY <2>2, <2>3, <3>1, <3>2
    <2> QED BY <2>2, <2>8, <2>9
  <1> QED BY <1>2, <1>3

\* A log with backed commits agrees up to there with every leader after.
LEMMA BackedInLeader ==
  ASSUME ElectionInv, LogInv, NEW L \in Seq(LogEntry), NEW ci \in Nat, NEW U \in Nat,
         Backed(L, ci, U), NEW V \in DOMAIN leaderLog, U <= V
  PROVE  Agree(L, leaderLog[V], ci + 1)
PROOF
  <1>1. PICK T \in DOMAIN leaderLog :
          /\ T <= U /\ Agree(L, leaderLog[T], ci + 1)
          /\ \E i \in ci + 1 .. Len(leaderLog[T]) : Anchored(T, i)
    BY DEF Backed
  <1>2. PICK i \in ci + 1 .. Len(leaderLog[T]) : Anchored(T, i)
    BY <1>1
  <1>3. /\ T \in Nat /\ V \in Nat /\ Len(leaderLog[T]) \in Nat /\ Len(leaderLog[V]) \in Nat
        /\ Good(leaderLog[V], leaderLog) /\ Len(L) \in Nat
    BY LogFacts
  <1>4. CASE T = V
    BY <1>1, <1>4
  <1>5. CASE T # V
    <2>1. V > T
      BY <1>1, <1>3, <1>5
    <2>2. Has(leaderLog[V], T, i)
      BY <1>2, <2>1, Completeness
    <2>3. Agree(leaderLog[V], leaderLog[T], i)
      BY <1>3, <2>2, HasInLeader
    <2> QED
      BY <1>1, <1>2, <1>3, <2>3 DEF Agree
  <1> QED BY <1>4, <1>5

LEMMA BackedKept ==
  ASSUME ElectionInv, ElectionInv', LogInv, LogInv', CommitFrame,
         NEW L \in Seq(LogEntry), NEW ci \in Nat, NEW U \in Nat, NEW V \in Nat, U <= V,
         Backed(L, ci, U)
  PROVE  \E T \in DOMAIN leaderLog' :
           /\ T <= V /\ Agree(L, leaderLog'[T], ci + 1)
           /\ \E i \in ci + 1 .. Len(leaderLog'[T]) : Anchored(T, i)'
PROOF
  <1>1. PICK T \in DOMAIN leaderLog :
          /\ T <= U /\ Agree(L, leaderLog[T], ci + 1)
          /\ \E i \in ci + 1 .. Len(leaderLog[T]) : Anchored(T, i)
    BY DEF Backed
  <1>2. PICK i \in ci + 1 .. Len(leaderLog[T]) : Anchored(T, i)
    BY <1>1
  <1>3. /\ T \in DOMAIN leaderLog' /\ Agree(leaderLog[T], leaderLog'[T], Len(leaderLog[T]))
        /\ leaderLog'[T] \in Seq(LogEntry)
    BY DEF CommitFrame, Frame, GrowTo
  <1>4. T \in Nat /\ Len(leaderLog[T]) \in Nat /\ Len(leaderLog'[T]) \in Nat /\ Len(L) \in Nat
    BY <1>3, LogFacts
  <1>5. /\ Len(leaderLog[T]) <= Len(leaderLog'[T])
        /\ \A j \in 1..Len(leaderLog[T]) : leaderLog[T][j] = leaderLog'[T][j]
    BY <1>3 DEF Agree
  <1>6. Agree(L, leaderLog'[T], ci + 1)
    BY <1>1, <1>4, <1>5 DEF Agree
  <1>7. Anchored(T, i)' /\ i \in ci + 1 .. Len(leaderLog'[T])
    BY <1>2, <1>4, <1>5, AnchoredKept
  <1>8. T <= V
    BY <1>1, <1>4
  <1> QED
    BY <1>3, <1>6, <1>7, <1>8

\* What a leader was told stays true while it leads.
LEMMA LeaderAckKept ==
  ASSUME ElectionInv, ElectionInv', LogInv, LogInv', CommitInv, CommitFrame,
         NEW n \in Nodes, NEW T \in Nat, role[n] = "LEADER", currentTerm[n] = T,
         NEW i \in 1..Len(log[n]), log[n][i].term = T
  PROVE  /\ Tracked(n, T, i)'
         /\ \A m \in Peers(n) : i <= matchIndex[n][m] + 1 => Tracked(m, T, i)'
PROOF
  <1>1. T \in DOMAIN leaderLog
    BY LeaderFacts
  <1>2. /\ Tracked(n, T, i)
        /\ \A m \in Peers(n) : i <= matchIndex[n][m] + 1 => Tracked(m, T, i)
    BY <1>1 DEF CommitInv, LeaderAckInv, LeaderAcks
  <1>3. i \in Nat /\ Peers(n) \subseteq Nodes
    BY DEF Peers
  <1> QED
    BY <1>2, <1>3, TrackedKept

LEMMA LeaderAcksKept ==
  ASSUME ElectionInv, ElectionInv', LogInv, LogInv', CommitInv, CommitFrame, NEW n \in Nodes,
         role'[n] = "LEADER" => /\ role[n] = "LEADER" /\ currentTerm'[n] = currentTerm[n]
                                /\ log'[n] = log[n] /\ matchIndex'[n] = matchIndex[n]
  PROVE  LeaderAcks(n)'
PROOF
  <1> SUFFICES ASSUME NEW T \in DOMAIN leaderLog', role'[n] = "LEADER", currentTerm'[n] = T,
                      NEW i \in 1..Len(log'[n]), log'[n][i].term = T
               PROVE  /\ Tracked(n, T, i)'
                      /\ \A m \in Peers(n) : i <= matchIndex'[n][m] + 1 => Tracked(m, T, i)'
    BY DEF LeaderAcks, Peers
  <1>1. /\ role[n] = "LEADER" /\ currentTerm[n] = T /\ i \in 1..Len(log[n]) /\ log[n][i].term = T
        /\ matchIndex'[n] = matchIndex[n]
    OBVIOUS
  <1>2. T \in Nat
    BY <1>1, LogFacts
  <1> QED
    BY <1>1, <1>2, LeaderAckKept

LEMMA CommitStep ==
  ASSUME ElectionInv, ElectionInv', LogInv, LogInv', CommitInv, CommitFrame,
         \A b \in msgs' :
           \/ b \in msgs
           \/ b.kind = "RequestVoteReply"
           \/ /\ b.kind = "RequestVote"
              /\ b.lastlogindex = LastIndex(b.from)' /\ b.lastlogterm = LastTerm(b.from)'
           \/ /\ b.kind = "AppendEntries" /\ b.leadercommit <= b.prevlogindex + Len(b.entries)
              /\ Backed(leaderLog[b.term], b.leadercommit, b.term)'
           \/ /\ b.kind = "AppendEntriesReply"
              /\ b.reply.success => \A i \in 1..b.acked + 1 :
                   Has(leaderLog'[b.request], b.request, i) => Tracked(b.from, b.request, i)',
         LeaderAckInv',
         \A c \in committed' :
           \/ c \in committed
           \/ /\ c.term \in DOMAIN leaderLog /\ c.index + 1 <= Len(leaderLog[c.term])
              /\ c.entry = leaderLog[c.term][c.index + 1]
              /\ \E i \in c.index + 1 .. Len(leaderLog[c.term]) : Anchored(c.term, i),
         \A n \in Nodes : \/ log'[n] = log[n] /\ commitIndex'[n] = commitIndex[n]
                          \/ Backed(log[n], commitIndex[n], currentTerm[n])'
  PROVE  CommitInv'
PROOF
  <1>0. /\ currentTerm \in [Nodes -> Nat] /\ currentTerm' \in [Nodes -> Nat]
        /\ \A b \in msgs : Header(b)
        /\ \A n \in Nodes : currentTerm'[n] >= currentTerm[n]
    BY DEF ElectionInv, VoteTypes, CommitFrame, Frame
  <1>1. AckInv'
    <2> SUFFICES ASSUME NEW b \in msgs', b.kind = "AppendEntriesReply", b.reply.success,
                        NEW i \in 1..b.acked + 1,
                        Has(leaderLog'[b.request], b.request, i)
                 PROVE  Tracked(b.from, b.request, i)'
      BY DEF AckInv
    <2>1. CASE b \in msgs
      <3>1. /\ b.from \in Nodes /\ b.request \in Nat
        BY <1>0, <2>1 DEF Header
      <3>2. ReplyOK(b)
        BY <2>1 DEF LogInv, MessageInv
      <3>3. b.request \in DOMAIN leaderLog /\ b.acked \in Nat /\ b.acked + 1 <= Len(leaderLog[b.request])
        BY <3>2 DEF ReplyOK, Holds
      <3>4. i \in Nat /\ i <= Len(leaderLog[b.request])
        BY <3>3, LogFacts
      <3>5. Has(leaderLog[b.request], b.request, i)
        BY <3>1, <3>3, <3>4, HasKept
      <3>6. Tracked(b.from, b.request, i)
        BY <2>1, <3>5 DEF CommitInv, AckInv
      <3> QED
        BY <3>1, <3>4, <3>6, TrackedKept
    <2> QED BY <2>1
  <1>2. RequestInv'
    <2> SUFFICES ASSUME NEW b \in msgs', b.kind = "RequestVote", Pending(b.from)',
                        b.term = currentTerm'[b.from]
                 PROVE  b.lastlogindex = LastIndex(b.from)' /\ b.lastlogterm = LastTerm(b.from)'
      BY DEF RequestInv
    <2>1. CASE b \in msgs
      <3>1. b.from \in Nodes /\ b.term \in Nat
        BY <1>0, <2>1 DEF Header
      <3>2. b.term <= currentTerm[b.from]
        <4>1. Ballot(b) \in Ballots /\ Ballot(b).node = b.from /\ Ballot(b).term = b.term
          BY <2>1 DEF Ballots, VoteMsgs, Ballot
        <4> QED BY <4>1 DEF ElectionInv, BallotInv
      <3>3. currentTerm[b.from] \in Nat /\ currentTerm'[b.from] \in Nat
        BY <1>0, <3>1
      <3>4. /\ log'[b.from] = log[b.from]
            /\ Pending(b.from) /\ currentTerm'[b.from] = currentTerm[b.from]
        BY <3>1, <3>2, <3>3 DEF CommitFrame
      <3> QED
        BY <2>1, <3>4 DEF CommitInv, RequestInv, LastIndex, LastTerm, Entry
    <2> QED BY <2>1
  <1>3. CommittedInv'
    <2> SUFFICES ASSUME NEW c \in committed'
                 PROVE  /\ c.term \in DOMAIN leaderLog' /\ c.index + 1 <= Len(leaderLog'[c.term])
                        /\ c.entry = leaderLog'[c.term][c.index + 1]
                        /\ \E i \in c.index + 1 .. Len(leaderLog'[c.term]) : Anchored(c.term, i)'
      BY DEF CommittedInv
    <2>1. /\ c.term \in DOMAIN leaderLog /\ c.index + 1 <= Len(leaderLog[c.term])
          /\ c.entry = leaderLog[c.term][c.index + 1]
          /\ \E i \in c.index + 1 .. Len(leaderLog[c.term]) : Anchored(c.term, i)
      BY DEF CommitInv, CommittedInv
    <2>2. PICK i \in c.index + 1 .. Len(leaderLog[c.term]) : Anchored(c.term, i)
      BY <2>1
    <2>3. c.index \in Nat
      BY DEF LogInv, ReplicationTypes
    <2>4. /\ c.term \in DOMAIN leaderLog'
          /\ Agree(leaderLog[c.term], leaderLog'[c.term], Len(leaderLog[c.term]))
          /\ leaderLog'[c.term] \in Seq(LogEntry)
      BY <2>1 DEF CommitFrame, Frame, GrowTo
    <2>5. Len(leaderLog[c.term]) \in Nat /\ Len(leaderLog'[c.term]) \in Nat
      BY <2>1, <2>4, LogFacts
    <2>6. /\ Len(leaderLog[c.term]) <= Len(leaderLog'[c.term])
          /\ \A j \in 1..Len(leaderLog[c.term]) : leaderLog[c.term][j] = leaderLog'[c.term][j]
      BY <2>4 DEF Agree
    <2>7. Anchored(c.term, i)' /\ i \in c.index + 1 .. Len(leaderLog'[c.term])
      BY <2>2, <2>3, <2>5, <2>6, AnchoredKept
    <2>8. c.index + 1 \in 1..Len(leaderLog[c.term])
      BY <2>1, <2>3, <2>5
    <2> QED
      BY <2>1, <2>3, <2>4, <2>5, <2>6, <2>7, <2>8
  <1>4. BackedInv'
    <2>1. ASSUME NEW n \in Nodes PROVE Backed(log[n], commitIndex[n], currentTerm[n])'
      <3>1. CASE log'[n] = log[n] /\ commitIndex'[n] = commitIndex[n]
        <4>1. Backed(log[n], commitIndex[n], currentTerm[n])
          BY DEF CommitInv, BackedInv
        <4>2. /\ log[n] \in Seq(LogEntry) /\ commitIndex[n] \in Nat
              /\ currentTerm[n] \in Nat /\ currentTerm'[n] \in Nat /\ currentTerm[n] <= currentTerm'[n]
          BY <1>0, LogFacts
        <4>3. \E T \in DOMAIN leaderLog' :
                /\ T <= currentTerm'[n] /\ Agree(log[n], leaderLog'[T], commitIndex[n] + 1)
                /\ \E i \in commitIndex[n] + 1 .. Len(leaderLog'[T]) : Anchored(T, i)'
          BY <4>1, <4>2, BackedKept
        <4> QED
          BY <3>1, <4>3 DEF Backed
      <3> QED BY <3>1
    <2>2. ASSUME NEW a \in msgs', a.kind = "AppendEntries"
          PROVE  /\ a.leadercommit <= a.prevlogindex + Len(a.entries)
                 /\ Backed(leaderLog[a.term], a.leadercommit, a.term)'
      <3>1. CASE a \in msgs
        <4>1. /\ a.leadercommit <= a.prevlogindex + Len(a.entries)
              /\ Backed(leaderLog[a.term], a.leadercommit, a.term)
          BY <2>2, <3>1 DEF CommitInv, BackedInv
        <4>2. /\ RequestOK(a) /\ a.term \in Nat
          BY <1>0, <2>2, <3>1 DEF LogInv, MessageInv, Header
        <4>3. a.term \in DOMAIN leaderLog /\ a.leadercommit \in Nat
          BY <4>2 DEF RequestOK, Led, LogInv, LeaderLogInv
        <4>4. leaderLog[a.term] \in Seq(LogEntry) /\ Len(leaderLog[a.term]) \in Nat
          BY <4>3, LogFacts
        <4>5. PICK T \in DOMAIN leaderLog' :
                /\ T <= a.term /\ Agree(leaderLog[a.term], leaderLog'[T], a.leadercommit + 1)
                /\ \E i \in a.leadercommit + 1 .. Len(leaderLog'[T]) : Anchored(T, i)'
          <5>1. PICK X : X = leaderLog[a.term]
            OBVIOUS
          <5>2. PICK u : u = a.term
            OBVIOUS
          <5>3. PICK k : k = a.leadercommit
            OBVIOUS
          <5>4. X \in Seq(LogEntry) /\ k \in Nat /\ u \in Nat /\ u <= u /\ Backed(X, k, u)
            BY <4>1, <4>2, <4>3, <4>4, <5>1, <5>2, <5>3
          <5>5. \E T \in DOMAIN leaderLog' :
                  /\ T <= u /\ Agree(X, leaderLog'[T], k + 1)
                  /\ \E i \in k + 1 .. Len(leaderLog'[T]) : Anchored(T, i)'
            BY <5>4, BackedKept
          <5> QED BY <5>1, <5>2, <5>3, <5>5
        <4>6. /\ Agree(leaderLog[a.term], leaderLog'[a.term], Len(leaderLog[a.term]))
              /\ leaderLog'[a.term] \in Seq(LogEntry)
          BY <4>3 DEF CommitFrame, Frame, GrowTo
        <4>7. Agree(leaderLog'[a.term], leaderLog'[T], a.leadercommit + 1)
          <5>1. Len(leaderLog'[a.term]) \in Nat
            BY <4>6
          <5> QED
            BY <4>3, <4>4, <4>5, <4>6, <5>1 DEF Agree
        <4> QED
          BY <4>1, <4>5, <4>7 DEF Backed
      <3> QED BY <2>2, <3>1
    <2> QED BY <2>1, <2>2 DEF BackedInv
  <1> QED
    BY <1>1, <1>2, <1>3, <1>4 DEF CommitInv
-----------------------------------------------------------------------------
(* The steps of the election. *)

LEMMA QuietCommitStep ==
  ASSUME ElectionInv, ElectionInv', LogInv, LogInv', CommitInv, UNCHANGED <<logVars, leaders>>,
         \A n \in Nodes :
           /\ currentTerm'[n] >= currentTerm[n]
           /\ role'[n] = "LEADER" => role[n] = "LEADER" /\ currentTerm'[n] = currentTerm[n],
         \A c \in Nodes : Pending(c)' =>
           /\ \/ Pending(c) /\ currentTerm'[c] = currentTerm[c]
              \/ currentTerm'[c] > currentTerm[c]
           /\ \A m \in voters'[c] :
                \/ Pending(c) /\ currentTerm'[c] = currentTerm[c] /\ m \in voters[c]
                \/ AtLeast(log[c], log[m]) /\ currentTerm[m] <= currentTerm'[c],
         \A b \in msgs' :
           \/ b \in msgs
           \/ b.kind = "RequestVoteReply"
           \/ /\ b.kind = "RequestVote"
              /\ b.lastlogindex = LastIndex(b.from)' /\ b.lastlogterm = LastTerm(b.from)'
  PROVE  CommitInv'
PROOF
  <1>1. UNCHANGED <<log, nextIndex, matchIndex, commitIndex, leaderLog, committed, leaders>>
    BY DEF logVars
  <1>2. \A t \in DOMAIN leaderLog : leaderLog[t] \in Seq(LogEntry) /\ Len(leaderLog[t]) \in Nat
    BY LogFacts
  <1>3. Frame
    BY <1>1, <1>2 DEF Frame, GrowTo, Agree
  <1>4. \A t \in DOMAIN leaderLog : \A i \in 1..Len(leaderLog'[t]) : ~(i > Len(leaderLog[t]))
    BY <1>1, <1>2
  <1>5. CommitFrame
    BY <1>1, <1>3, <1>4 DEF CommitFrame
  <1>6. LeaderAckInv'
    BY <1>1, <1>5, LeaderAcksKept DEF LeaderAckInv
  <1> QED
    BY <1>1, <1>5, <1>6, CommitStep

LEMMA CommitVoteSteps ==
  ASSUME ElectionInv, ElectionInv', LogInv, LogInv', CommitInv, NEW n \in Nodes,
         \/ Elect(n)
         \/ \E b \in msgs : RequestVote(n, b) \/ GetVoteAnswer(n, b) \/ RpcFails(b)
         \/ UNCHANGED vars
  PROVE  CommitInv'
PROOF
  <1>1. /\ currentTerm \in [Nodes -> Nat] /\ role \in [Nodes -> {"FOLLOWER", "CANDIDATE", "LEADER"}]
        /\ voters \in [Nodes -> SUBSET Nodes]
        /\ \A b \in msgs : Header(b)
    BY DEF ElectionInv, VoteTypes
  <1> DEFINE Later == \A q \in Nodes :
           /\ currentTerm'[q] >= currentTerm[q]
           /\ role'[q] = "LEADER" => role[q] = "LEADER" /\ currentTerm'[q] = currentTerm[q]
             Kept(c) == /\ Pending(c) /\ currentTerm'[c] = currentTerm[c]
             Votes == \A c \in Nodes : Pending(c)' =>
           /\ Kept(c) \/ currentTerm'[c] > currentTerm[c]
           /\ \A m \in voters'[c] :
                \/ Kept(c) /\ m \in voters[c]
                \/ AtLeast(log[c], log[m]) /\ currentTerm[m] <= currentTerm'[c]
             News == \A b \in msgs' :
           \/ b \in msgs
           \/ b.kind = "RequestVoteReply"
           \/ /\ b.kind = "RequestVote"
              /\ b.lastlogindex = LastIndex(b.from)' /\ b.lastlogterm = LastTerm(b.from)'
  <1>2. ASSUME UNCHANGED <<logVars, leaders>>, Later, Votes, News PROVE CommitInv'
    BY <1>2, QuietCommitStep
  <1>3. CASE Elect(n)
    <2>1. /\ UNCHANGED <<logVars, leaders>> /\ UNCHANGED <<log, leaderLog>>
          /\ currentTerm' = [currentTerm EXCEPT ![n] = @ + 1]
          /\ role' = [role EXCEPT ![n] = "CANDIDATE"]
          /\ voters' = [voters EXCEPT ![n] = {n}]
      BY <1>3 DEF Elect, logVars
    <2>2. Later
      BY <1>1, <2>1
    <2>3. Votes
      <3> SUFFICES ASSUME NEW c \in Nodes, Pending(c)'
                   PROVE  /\ Kept(c) \/ currentTerm'[c] > currentTerm[c]
                          /\ \A m \in voters'[c] :
                               \/ Kept(c) /\ m \in voters[c]
                               \/ AtLeast(log[c], log[m]) /\ currentTerm[m] <= currentTerm'[c]
        OBVIOUS
      <3>1. CASE c = n
        <4>1. voters'[c] = {n} /\ currentTerm'[n] > currentTerm[n] /\ currentTerm[n] <= currentTerm'[n]
          BY <1>1, <2>1, <3>1
        <4>2. AtLeast(log[n], log[n])
          <5>1. Len(log[n]) \in Nat
            BY LogFacts
          <5> QED BY <5>1 DEF AtLeast
        <4> QED BY <3>1, <4>1, <4>2
      <3>2. CASE c # n
        BY <1>1, <2>1, <3>2 DEF Pending
      <3> QED BY <3>1, <3>2
    <2>4. News
      <3>1. \A b \in msgs' : \/ b \in msgs
                            \/ /\ b.kind = "RequestVote" /\ b.from = n
                               /\ b.lastlogindex = LastIndex(n) /\ b.lastlogterm = LastTerm(n)
        BY <1>3 DEF Elect, Send
      <3> QED BY <2>1, <3>1 DEF LastIndex, LastTerm, Entry
    <2> QED BY <1>2, <2>1, <2>2, <2>3, <2>4
  <1>4. ASSUME NEW a \in msgs, RequestVote(n, a) PROVE CommitInv'
    <2> DEFINE newer == a.term > currentTerm[n]
               granted == GrantsVote(n, a)
    <2>1. /\ UNCHANGED <<logVars, leaders>> /\ UNCHANGED <<log, leaderLog>>
          /\ a.kind = "RequestVote" /\ a.to = n
          /\ currentTerm' = [currentTerm EXCEPT ![n] = IF newer THEN a.term ELSE @]
          /\ role' = [role EXCEPT ![n] = IF newer \/ granted THEN "FOLLOWER" ELSE @]
          /\ voters' = IF granted /\ a.term = currentTerm[a.from]
                       THEN [voters EXCEPT ![a.from] = @ \cup {n}] ELSE voters
      BY <1>4 DEF RequestVote, logVars
    <2>2. a.term \in Nat /\ a.from \in Nodes /\ a.from # n
      BY <1>1, <2>1 DEF Header
    <2> HIDE DEF granted
    <2>3. Later
      BY <1>1, <2>1, <2>2
    <2>4. Votes
      <3> SUFFICES ASSUME NEW c \in Nodes, Pending(c)'
                   PROVE  /\ Kept(c)
                          /\ \A m \in voters'[c] :
                               \/ Kept(c) /\ m \in voters[c]
                               \/ AtLeast(log[c], log[m]) /\ currentTerm[m] <= currentTerm'[c]
        OBVIOUS
      <3>1. Kept(c)
        BY <1>1, <2>1 DEF Pending
      <3>2. voters'[c] = voters[c] \/ (/\ c = a.from /\ granted /\ a.term = currentTerm[c]
                                      /\ voters'[c] = voters[c] \cup {n})
        BY <1>1, <2>1, <2>2
      <3>3. ASSUME c = a.from, granted, a.term = currentTerm[c]
            PROVE  AtLeast(log[c], log[n]) /\ currentTerm[n] <= currentTerm'[c]
        <4>1. a.lastlogindex = LastIndex(c) /\ a.lastlogterm = LastTerm(c)
          BY <2>1, <3>1, <3>3 DEF CommitInv, RequestInv
        <4>2. UpToDate(n, a) /\ currentTerm[n] <= currentTerm'[c]
          BY <1>1, <2>2, <3>1, <3>3 DEF granted, GrantsVote
        <4>3. Len(log[c]) \in Nat /\ Len(log[n]) \in Nat
          BY LogFacts
        <4>4. /\ LastTerm(c) = log[c][Len(log[c])].term /\ LastTerm(n) = log[n][Len(log[n])].term
              /\ LastIndex(c) = Len(log[c]) - 1 /\ LastIndex(n) = Len(log[n]) - 1
          <5>1. Len(log[c]) - 1 + 1 = Len(log[c]) /\ Len(log[n]) - 1 + 1 = Len(log[n])
            BY <4>3
          <5> QED BY <5>1 DEF LastTerm, LastIndex, Entry
        <4> QED BY <4>1, <4>2, <4>3, <4>4 DEF UpToDate, AtLeast
      <3> QED BY <3>1, <3>2, <3>3
    <2>5. News
      BY <1>4 DEF RequestVote
    <2> QED BY <1>2, <2>1, <2>3, <2>4, <2>5
  <1>5. ASSUME NEW b \in msgs, GetVoteAnswer(n, b) PROVE CommitInv'
    <2>1. /\ UNCHANGED <<logVars, leaders>> /\ UNCHANGED <<log, leaderLog, voters>>
          /\ msgs' = msgs \ {b}
          /\ \/ UNCHANGED <<currentTerm, role>>
             \/ /\ b.term > currentTerm[n]
                /\ currentTerm' = [currentTerm EXCEPT ![n] = b.term]
                /\ role' = [role EXCEPT ![n] = "FOLLOWER"]
      BY <1>5 DEF GetVoteAnswer, StepDown, logVars
    <2>2. b.term \in Nat
      BY <1>1 DEF Header
    <2>3. Later
      BY <1>1, <2>1, <2>2
    <2>4. Votes
      BY <1>1, <2>1 DEF Pending
    <2> QED BY <1>2, <2>1, <2>3, <2>4
  <1>6. ASSUME UNCHANGED vars \/ \E b \in msgs : RpcFails(b) PROVE CommitInv'
    <2>1. /\ UNCHANGED <<logVars, leaders>> /\ UNCHANGED <<currentTerm, role, log, leaderLog, voters>>
          /\ msgs' \subseteq msgs
      BY <1>6 DEF RpcFails, vars, electionVars, logVars
    <2>2. Later
      BY <1>1, <2>1
    <2>3. Votes
      BY <2>1 DEF Pending
    <2> QED BY <1>2, <2>1, <2>2, <2>3
  <1> QED
    BY <1>3, <1>4, <1>5, <1>6

LEMMA CommitWinStep ==
  ASSUME ElectionInv, ElectionInv', LogInv, LogInv', CommitInv, NEW t \in collecting, CollectVote(t)
  PROVE  CommitInv'
PROOF
  <1> DEFINE n == t.node
             ours == t.term = currentTerm[n] /\ ~IsMajority(voteCount[n])
             count == IF ours THEN voteCount[n] + 1 ELSE voteCount[n]
             wins == ours /\ IsMajority(count) /\ role[n] = "CANDIDATE"
             T == currentTerm[n]
  <1>1. /\ currentTerm \in [Nodes -> Nat] /\ role \in [Nodes -> {"FOLLOWER", "CANDIDATE", "LEADER"}]
        /\ n \in Nodes /\ T \in Nat
    BY DEF ElectionInv, VoteTypes
  <1>2. UNCHANGED <<currentTerm, log, commitIndex, committed, msgs, voters>>
    BY DEF CollectVote
  <1>3. CASE ~wins
    <2>1. UNCHANGED <<role, nextIndex, matchIndex, leaders, leaderLog>>
      BY <1>3 DEF CollectVote
    <2>2. \A c \in Nodes : Pending(c)' <=> Pending(c)
      BY <1>2, <2>1 DEF Pending
    <2> HIDE DEF n
    <2> QED
      BY <1>1, <1>2, <2>1, <2>2, QuietCommitStep DEF logVars
  <1>4. CASE wins
    <2> DEFINE l0 == [node |-> n, term |-> T, voters |-> voters[n]]
    <2>1. /\ role' = [role EXCEPT ![n] = "LEADER"]
          /\ matchIndex' = [matchIndex EXCEPT ![n] = [m \in Nodes |-> 0]]
          /\ leaders' = leaders \cup {l0}
          /\ leaderLog' = [u \in DOMAIN leaderLog \cup {T} |->
                             IF u = T THEN log[n] ELSE leaderLog[u]]
          /\ role[n] = "CANDIDATE"
      BY <1>4 DEF CollectVote
    <2>2. T \notin DOMAIN leaderLog
      BY <1>1, <2>1, WonTermIsNew
    <2>3. /\ T = currentTerm[n] /\ l0.term = T /\ l0.voters = voters[n]
          /\ matchIndex \in [Nodes -> [Nodes -> Nat]]
      BY DEF LogInv, ReplicationTypes
    <2> HIDE DEF n, T, wins, l0
    <2>4. /\ DOMAIN leaderLog' = DOMAIN leaderLog \cup {T} /\ leaderLog'[T] = log[n]
          /\ \A u \in DOMAIN leaderLog : /\ leaderLog'[u] = leaderLog[u]
                                         /\ leaderLog[u] \in Seq(LogEntry)
                                         /\ Len(leaderLog[u]) \in Nat
      BY <2>1, <2>2, LogFacts
    <2>5. \A c \in Nodes : Pending(c)' => Pending(c)
      BY <1>1, <1>2, <2>1, <2>4 DEF Pending
    <2>6. Pending(n)
      BY <2>1, <2>2, <2>3 DEF Pending
    <2>7. CommitFrame
      <3>1. GrowTo(leaderLog, leaderLog')
        BY <2>4 DEF GrowTo, Agree
      <3>2. Frame
        BY <1>1, <1>2, <2>1, <2>4, <3>1 DEF Frame
      <3>3. \A u \in DOMAIN leaderLog : \A i \in 1..Len(leaderLog'[u]) : ~(i > Len(leaderLog[u]))
        BY <2>4
      <3>4. ASSUME NEW l \in leaders'
            PROVE  \/ l \in leaders
                   \/ \E c \in Nodes : /\ Pending(c) /\ l.voters = voters[c]
                                       /\ l.term = currentTerm[c] /\ leaderLog'[l.term] = log[c]
        BY <1>1, <2>1, <2>3, <2>4, <2>6
      <3> QED
        BY <1>2, <2>5, <3>2, <3>3, <3>4 DEF CommitFrame
    <2>8. ASSUME NEW m \in Nodes PROVE LeaderAcks(m)'
      <3>1. CASE m = n
        <4>1. \A i \in 1..Len(log[n]) : log[n][i].term \in DOMAIN leaderLog
          BY <1>1, LogFacts DEF Good
        <4> QED BY <1>2, <2>2, <2>3, <3>1, <4>1 DEF LeaderAcks
      <3>2. CASE m # n
        <4>1. role'[m] = role[m] /\ matchIndex'[m] = matchIndex[m]
          BY <1>1, <2>1, <2>3, <3>2
        <4> QED BY <1>2, <2>7, <4>1, LeaderAcksKept
      <3> QED BY <3>1, <3>2
    <2>9. LeaderAckInv'
      BY <2>8 DEF LeaderAckInv
    <2> QED
      BY <1>2, <2>7, <2>9, CommitStep
  <1> QED
    BY <1>3, <1>4
-----------------------------------------------------------------------------
(* The steps of the replication. *)

LEMMA CommitHostAppendStep ==
  ASSUME ElectionInv, ElectionInv', LogInv, LogInv', CommitInv, NEW n \in Nodes, HostAppend(n)
  PROVE  CommitInv'
PROOF
  <1> DEFINE T == currentTerm[n]
             e == [term |-> currentTerm[n], from |-> n]
             L == log[n]
             M == Append(log[n], e)
  <1>1. /\ role[n] = "LEADER"
        /\ log' = [log EXCEPT ![n] = M]
        /\ leaderLog' = [leaderLog EXCEPT ![T] = log'[n]]
        /\ UNCHANGED <<currentTerm, role, leaders, nextIndex, matchIndex, commitIndex, committed,
                       msgs, voters>>
    BY DEF HostAppend, electionVars
  <1>2. /\ T \in DOMAIN leaderLog /\ leaderLog[T] = L
    BY <1>1, LeaderFacts
  <1>3. /\ log \in [Nodes -> Seq(LogEntry)] /\ L \in Seq(LogEntry) /\ T \in Nat /\ e \in LogEntry
        /\ e.term = T /\ matchIndex \in [Nodes -> [Nodes -> Nat]]
        /\ currentTerm \in [Nodes -> Nat]
    BY DEF LogInv, ReplicationTypes, ElectionInv, VoteTypes, LogEntry
  <1> HIDE DEF e
  <1>4. /\ M \in Seq(LogEntry) /\ Len(M) = Len(L) + 1 /\ Len(L) \in Nat
        /\ \A i \in 1..Len(L) : M[i] = L[i]
        /\ M[Len(L) + 1] = e
    BY <1>3, AppendProperties
  <1> HIDE DEF M
  <1>5. /\ DOMAIN leaderLog' = DOMAIN leaderLog /\ leaderLog'[T] = M /\ log'[n] = M
        /\ \A u \in DOMAIN leaderLog : u # T => leaderLog'[u] = leaderLog[u]
        /\ \A m \in Nodes : m # n => log'[m] = log[m]
    BY <1>1, <1>2, <1>3, <1>4
  <1>6. T = currentTerm[n] /\ L = log[n]
    OBVIOUS
  <1> HIDE DEF T, L
  <1>7. \A u \in DOMAIN leaderLog : leaderLog[u] \in Seq(LogEntry) /\ Len(leaderLog[u]) \in Nat
    BY LogFacts
  <1>8. \A T1, i \in Nat : Has(L, T1, i) => Has(M, T1, i)
    BY <1>4 DEF Has
  <1>9. \A c \in Nodes : Pending(c)' => Pending(c) /\ log'[c] = log[c]
    BY <1>1, <1>5 DEF Pending
  <1>10. GrowTo(leaderLog, leaderLog')
    <2>1. ASSUME NEW u \in DOMAIN leaderLog
          PROVE  leaderLog'[u] \in Seq(LogEntry) /\ Agree(leaderLog[u], leaderLog'[u], Len(leaderLog[u]))
      <3>1. CASE u = T
        BY <1>2, <1>4, <1>5, <3>1 DEF Agree
      <3>2. CASE u # T
        BY <1>5, <1>7, <3>2 DEF Agree
      <3> QED BY <3>1, <3>2
    <2> QED BY <1>5, <2>1 DEF GrowTo
  <1>11. CommitFrame
    <2>1. ASSUME NEW m \in Nodes, currentTerm[m] \in DOMAIN leaderLog, NEW i \in Nat,
                 Agree(log[m], leaderLog[currentTerm[m]], i)
          PROVE  Agree(log'[m], leaderLog'[currentTerm[m]], i)
      <3>1. /\ log[m] \in Seq(LogEntry) /\ Len(log[m]) \in Nat
        BY <1>3
      <3>2. CASE currentTerm[m] # T
        BY <1>5, <1>6, <2>1, <3>2
      <3>3. CASE currentTerm[m] = T
        <4>1. Agree(log[m], L, i)
          BY <1>2, <2>1, <3>3
        <4>2. Agree(log[m], M, i)
          BY <1>4, <4>1 DEF Agree
        <4>3. i <= Len(M)
          BY <4>2 DEF Agree
        <4>4. Agree(M, M, i)
          BY <4>3 DEF Agree
        <4> QED BY <1>5, <3>3, <4>2, <4>4
      <3> QED BY <3>2, <3>3
    <2>2. \A m \in Nodes : currentTerm'[m] >= currentTerm[m]
      BY <1>1, <1>3
    <2>3. Frame
      BY <1>1, <1>10, <2>1, <2>2 DEF Frame
    <2>4. ASSUME NEW u \in DOMAIN leaderLog, NEW i \in 1..Len(leaderLog'[u]), i > Len(leaderLog[u])
          PROVE  leaderLog'[u][i].term = u
      <3>1. u = T
        BY <1>5, <1>7, <2>4
      <3>2. i = Len(L) + 1
        BY <1>2, <1>4, <1>5, <2>4, <3>1
      <3> QED BY <1>3, <1>4, <1>5, <3>1, <3>2
    <2>5. \A m \in Nodes : \A T1, i \in Nat : Has(log[m], T1, i) => Has(log'[m], T1, i)
      BY <1>5, <1>6, <1>8
    <2> QED
      BY <1>1, <1>9, <2>3, <2>4, <2>5 DEF CommitFrame
  <1>12. ASSUME NEW m \in Nodes PROVE LeaderAcks(m)'
    <2>1. CASE m # n
      BY <1>1, <1>5, <1>11, <2>1, LeaderAcksKept
    <2>2. CASE m = n
      <3> SUFFICES ASSUME NEW U \in DOMAIN leaderLog', currentTerm'[n] = U,
                          NEW i \in 1..Len(M), M[i].term = U
                   PROVE  /\ Tracked(n, U, i)'
                          /\ \A q \in Peers(n) : i <= matchIndex'[n][q] + 1 => Tracked(q, U, i)'
        BY <1>5, <2>2 DEF LeaderAcks, Peers
      <3>0. U = T /\ U \in Nat /\ currentTerm[n] = U
        BY <1>1, <1>3, <1>6
      <3>1. CASE i \in 1..Len(L)
        <4>1. i \in 1..Len(log[n]) /\ log[n][i].term = U
          BY <1>4, <1>6, <3>1
        <4> QED
          BY <1>1, <1>11, <3>0, <4>1, LeaderAckKept
      <3>2. CASE i = Len(L) + 1
        <4>1. Tracked(n, U, i)'
          <5>1. i \in Nat /\ Has(log'[n], U, i)
            BY <1>4, <1>5 DEF Has
          <5> QED BY <3>0, <5>1, TrackedStart
        <4>2. ASSUME NEW q \in Peers(n), i <= matchIndex'[n][q] + 1 PROVE FALSE
          <5>1. matchIndex[n][q] = 0 \/ Holds(q, T, matchIndex[n][q] + 1)
            BY <1>1, <1>6 DEF LogInv, ProgressInv
          <5>2. matchIndex[n][q] = 0 \/ matchIndex[n][q] + 1 <= Len(L)
            BY <1>2, <5>1 DEF Holds
          <5>3. q \in Nodes
            BY DEF Peers
          <5>4. matchIndex[n][q] \in Nat /\ matchIndex'[n][q] = matchIndex[n][q] /\ Len(L) >= 1
            BY <1>1, <1>3, <1>6, <5>3, LogFacts
          <5> QED BY <1>4, <3>2, <4>2, <5>2, <5>4
        <4> QED BY <4>1, <4>2
      <3> QED BY <1>4, <3>1, <3>2
    <2> QED BY <2>1, <2>2
  <1>13. LeaderAckInv'
    BY <1>12 DEF LeaderAckInv
  <1>14. ASSUME NEW m \in Nodes
         PROVE  \/ log'[m] = log[m] /\ commitIndex'[m] = commitIndex[m]
                \/ Backed(log[m], commitIndex[m], currentTerm[m])'
    <2>1. CASE m # n
      BY <1>1, <1>5, <2>1
    <2>2. CASE m = n
      <3>1. Backed(L, commitIndex[n], T) /\ commitIndex[n] \in Nat
        BY <1>6, LogFacts DEF CommitInv, BackedInv
      <3>2. PICK ci \in Nat : ci = commitIndex[n]
        BY <3>1
      <3>3. PICK W \in DOMAIN leaderLog' :
              /\ W <= T /\ Agree(L, leaderLog'[W], ci + 1)
              /\ \E i \in ci + 1 .. Len(leaderLog'[W]) : Anchored(W, i)'
        <4>1. T <= T
          BY <1>3
        <4> QED BY <1>3, <1>11, <3>1, <3>2, <4>1, BackedKept
      <3>4. Agree(M, leaderLog'[W], ci + 1)
        BY <1>4, <3>2, <3>3 DEF Agree
      <3>5. Backed(log[n], commitIndex[n], currentTerm[n])'
        BY <1>1, <1>5, <1>6, <3>2, <3>3, <3>4 DEF Backed
      <3> QED BY <2>2, <3>5
    <2> QED BY <2>1, <2>2
  <1> QED
    BY <1>1, <1>11, <1>13, <1>14, CommitStep

\* A step that leaves logs, terms, roles and votes as they are.
LEMMA SameCommitFrame ==
  ASSUME ElectionInv, LogInv, UNCHANGED <<currentTerm, role, voters, leaders, log, leaderLog>>
  PROVE  CommitFrame
PROOF
  <1>1. \A t \in DOMAIN leaderLog : leaderLog[t] \in Seq(LogEntry) /\ Len(leaderLog[t]) \in Nat
    BY LogFacts
  <1>2. \A n \in Nodes : currentTerm[n] \in Nat
    BY LogFacts
  <1>3. Frame
    BY <1>1, <1>2 DEF Frame, GrowTo, Agree
  <1>4. \A t \in DOMAIN leaderLog : \A i \in 1..Len(leaderLog'[t]) : ~(i > Len(leaderLog[t]))
    BY <1>1
  <1>5. \A c \in Nodes : Pending(c)' <=> Pending(c)
    BY DEF Pending
  <1> QED
    BY <1>3, <1>4, <1>5 DEF CommitFrame

\* The log of a leader is backed as far as it has committed.
LEMMA LeaderBacked ==
  ASSUME ElectionInv, LogInv, CommitInv, NEW n \in Nodes
  PROVE  Backed(log[n], commitIndex[n], currentTerm[n]) /\ commitIndex[n] + 1 <= Len(log[n])
PROOF
  <1>1. Backed(log[n], commitIndex[n], currentTerm[n])
    BY DEF CommitInv, BackedInv
  <1> QED BY <1>1 DEF Backed, Agree

LEMMA CommitSendStep ==
  ASSUME ElectionInv, ElectionInv', LogInv, LogInv', CommitInv, NEW n \in Nodes, SendHeartBeats(n)
  PROVE  CommitInv'
PROOF
  <1>1. /\ role[n] = "LEADER"
        /\ UNCHANGED <<currentTerm, role, leaders, log, nextIndex, matchIndex, commitIndex,
                       leaderLog, committed, voters>>
        /\ \A b \in msgs' : b \in msgs \/ \E m \in Peers(n) : b = AppendEntriesArgs(n, m)
    BY DEF SendHeartBeats, Send, electionVars, logVars
  <1>2. CommitFrame
    BY <1>1, SameCommitFrame
  <1>3. LeaderAckInv'
    BY <1>1, <1>2, LeaderAcksKept DEF LeaderAckInv
  <1>4. ASSUME NEW m \in Peers(n), NEW b, b = AppendEntriesArgs(n, m)
        PROVE  /\ b.kind = "AppendEntries" /\ b.leadercommit <= b.prevlogindex + Len(b.entries)
               /\ Backed(leaderLog[b.term], b.leadercommit, b.term)'
    <2>1. PICK L : L = log[n]
      OBVIOUS
    <2>2. PICK ci : ci = commitIndex[n]
      OBVIOUS
    <2>3. PICK T : T = currentTerm[n]
      OBVIOUS
    <2>4. PICK p : p = nextIndex[n][m] - 1
      OBVIOUS
    <2>5. /\ L \in Seq(LogEntry) /\ Len(L) \in Nat /\ ci \in Nat /\ T \in Nat
          /\ Backed(L, ci, T) /\ ci + 1 <= Len(L)
      BY <2>1, <2>2, <2>3, LogFacts, LeaderBacked
    <2>6. p \in Nat /\ p + 1 <= Len(L)
      <3>1. nextIndex[n][m] \in 1..Len(log[n])
        BY <1>1 DEF LogInv, ProgressInv
      <3> QED BY <2>1, <2>4, <2>5, <3>1
    <2>7. /\ b.kind = "AppendEntries" /\ b.term = T /\ b.prevlogindex = p /\ b.leadercommit = ci
          /\ b.entries = SubSeq(L, p + 2, Len(L))
      BY <1>4, <2>1, <2>2, <2>3, <2>4 DEF AppendEntriesArgs
    <2>8. Len(SubSeq(L, p + 2, Len(L))) = Len(L) - p - 1
      <3>1. \A i \in p + 2 .. Len(L) : L[i] \in LogEntry
        BY <2>5, <2>6
      <3>2. Len(SubSeq(L, p + 2, Len(L))) = IF p + 2 <= Len(L) THEN Len(L) - (p + 2) + 1 ELSE 0
        <4>1. p + 2 \in Int /\ Len(L) \in Int
          BY <2>5, <2>6
        <4> QED BY <3>1, <4>1, SubSeqProperties
      <3> QED BY <2>5, <2>6, <3>2
    <2>9. \E W \in DOMAIN leaderLog' :
            /\ W <= T /\ Agree(L, leaderLog'[W], ci + 1)
            /\ \E i \in ci + 1 .. Len(leaderLog'[W]) : Anchored(W, i)'
      <3>1. T <= T
        BY <2>5
      <3> QED BY <1>2, <2>5, <3>1, BackedKept
    <2>10. leaderLog'[T] = L
      BY <1>1, <2>1, <2>3, LeaderFacts
    <2>11. Backed(leaderLog[b.term], b.leadercommit, b.term)'
      BY <2>7, <2>9, <2>10 DEF Backed
    <2> QED
      BY <2>5, <2>6, <2>7, <2>8, <2>11
  <1>5. \A b \in msgs' :
          \/ b \in msgs
          \/ /\ b.kind = "AppendEntries" /\ b.leadercommit <= b.prevlogindex + Len(b.entries)
             /\ Backed(leaderLog[b.term], b.leadercommit, b.term)'
    BY <1>1, <1>4
  <1> QED
    BY <1>1, <1>2, <1>3, <1>5, CommitStep

(***************************************************************************)
(* A follower that accepts the entries of a leader has backed commits, no  *)
(* fewer than before.                                                      *)
(***************************************************************************)
LEMMA AppendBacked ==
  ASSUME ElectionInv, LogInv, CommitInv, NEW n \in Nodes, NEW a \in msgs, a.kind = "AppendEntries",
         NEW M, NEW commit, NEW c, AppendOutcome(n, a, M, commit, c), c.reply.success
  PROVE  Backed(M, commit, a.term) /\ commit >= commitIndex[n]
PROOF
  <1>1. PICK T : T = a.term
    OBVIOUS
  <1>2. PICK X : X = leaderLog[T]
    OBVIOUS
  <1>3. PICK L : L = log[n]
    OBVIOUS
  <1>4. PICK k : k = a.prevlogindex + 1 + Len(a.entries)
    OBVIOUS
  <1>5. PICK ci : ci = commitIndex[n]
    OBVIOUS
  <1>6. PICK lc : lc = a.leadercommit
    OBVIOUS
  <1>7. /\ M \in Seq(LogEntry) /\ ~(T < currentTerm[n]) /\ Agree(M, X, k)
        /\ \A i \in Nat : Agree(L, X, i) => Agree(M, X, i)
        /\ lc > ci => commit = Min({lc, Len(M) - 1})
        /\ ~(lc > ci) => commit = ci
    BY <1>1, <1>2, <1>3, <1>4, <1>5, <1>6 DEF AppendOutcome
  <1>8. RequestOK(a) /\ Header(a)
    BY DEF ElectionInv, VoteTypes, LogInv, MessageInv
  <1>9. /\ T \in Nat /\ T \in DOMAIN leaderLog /\ lc \in Nat /\ k \in Nat
        /\ lc <= k - 1 /\ k >= 1 /\ Backed(X, lc, T)
    <2>1. a.prevlogindex \in Nat /\ a.leadercommit \in Nat /\ Len(a.entries) \in Nat
      BY <1>8 DEF RequestOK, PartOf
    <2>2. /\ a.leadercommit <= a.prevlogindex + Len(a.entries)
          /\ Backed(leaderLog[a.term], a.leadercommit, a.term)
      BY DEF CommitInv, BackedInv
    <2>3. T \in Nat /\ T \in DOMAIN leaderLog
      BY <1>1, <1>8 DEF RequestOK, Header, LogInv, LeaderLogInv, Led
    <2>4. lc <= k - 1 /\ k >= 1 /\ k \in Nat /\ lc \in Nat
      BY <1>4, <1>6, <2>1, <2>2
    <2> QED BY <1>1, <1>2, <1>6, <2>2, <2>3, <2>4
  <1>10. /\ X \in Seq(LogEntry) /\ Len(X) \in Nat /\ L \in Seq(LogEntry) /\ Len(L) \in Nat
         /\ ci \in Nat /\ currentTerm[n] \in Nat /\ Len(M) \in Nat
    BY <1>2, <1>3, <1>5, <1>7, <1>9, LogFacts
  <1>11. /\ k <= Len(M) /\ k <= Len(X) /\ \A j \in 1..k : M[j] = X[j]
    BY <1>7 DEF Agree
  <1>12. CASE lc > ci
    <2>1. commit = lc
      <3>1. {lc, Len(M) - 1} \in SUBSET Nat
        BY <1>9, <1>10, <1>11
      <3>2. Min({lc, Len(M) - 1}) \in {lc, Len(M) - 1} /\ Min({lc, Len(M) - 1}) <= Len(M) - 1
            /\ Min({lc, Len(M) - 1}) <= lc
        BY <3>1, LeastNumber
      <3> QED BY <1>7, <1>9, <1>10, <1>11, <1>12, <3>2
    <2>2. PICK W \in DOMAIN leaderLog :
            /\ W <= T /\ Agree(X, leaderLog[W], lc + 1)
            /\ \E i \in lc + 1 .. Len(leaderLog[W]) : Anchored(W, i)
      BY <1>9 DEF Backed
    <2>3. Agree(M, leaderLog[W], lc + 1)
      BY <1>9, <1>10, <1>11, <2>2 DEF Agree
    <2>4. Backed(M, lc, T)
      BY <2>2, <2>3 DEF Backed
    <2> QED BY <1>1, <1>5, <1>9, <1>10, <1>12, <2>1, <2>4
  <1>13. CASE ~(lc > ci)
    <2>1. PICK u : u = currentTerm[n]
      OBVIOUS
    <2>2. u \in Nat /\ u <= T /\ Backed(L, ci, u)
      BY <1>3, <1>5, <1>7, <1>9, <1>10, <2>1 DEF CommitInv, BackedInv
    <2>3. Agree(L, X, ci + 1)
      BY <1>2, <1>9, <1>10, <2>2, BackedInLeader
    <2>4. Agree(M, X, ci + 1)
      BY <1>7, <1>10, <2>3
    <2>5. PICK W \in DOMAIN leaderLog :
            /\ W <= u /\ Agree(L, leaderLog[W], ci + 1)
            /\ \E i \in ci + 1 .. Len(leaderLog[W]) : Anchored(W, i)
      BY <2>2 DEF Backed
    <2>6. Agree(M, leaderLog[W], ci + 1)
      BY <2>3, <2>4, <2>5 DEF Agree
    <2>7. W <= T
      <3>1. W \in Nat
        BY LogFacts
      <3> QED BY <1>9, <2>2, <2>5, <3>1
    <2>8. Backed(M, ci, T)
      BY <2>5, <2>6, <2>7 DEF Backed
    <2> QED BY <1>1, <1>5, <1>7, <1>10, <1>13, <2>8
  <1> QED BY <1>12, <1>13

LEMMA CommitAppendStep ==
  ASSUME ElectionInv, ElectionInv', LogInv, LogInv', CommitInv,
         NEW n \in Nodes, NEW a \in msgs, AppendEntries(n, a)
  PROVE  CommitInv'
PROOF
  <1>0. /\ currentTerm \in [Nodes -> Nat] /\ currentTerm' \in [Nodes -> Nat]
        /\ role \in [Nodes -> {"FOLLOWER", "CANDIDATE", "LEADER"}]
        /\ Header(a) /\ log \in [Nodes -> Seq(LogEntry)] /\ commitIndex \in [Nodes -> Nat]
    BY DEF ElectionInv, VoteTypes, LogInv, ReplicationTypes
  <1>1. /\ a.kind = "AppendEntries" /\ a.to = n
        /\ currentTerm' = [currentTerm EXCEPT ![n] = IF a.term > currentTerm[n] THEN a.term ELSE @]
        /\ role' = [role EXCEPT ![n] = IF a.term > currentTerm[n] THEN "FOLLOWER" ELSE @]
        /\ UNCHANGED <<leaders, nextIndex, matchIndex, leaderLog, committed, voters>>
    BY DEF AppendEntries
  <1>2. PICK M, commit, c : AppendOutcome(n, a, M, commit, c)
    BY AppendEntriesFacts
  <1>3. PICK T : T = a.term
    OBVIOUS
  <1>4. PICK X : X = leaderLog[T]
    OBVIOUS
  <1>5. PICK L : L = log[n]
    OBVIOUS
  <1>6. PICK k : k = a.prevlogindex + 1 + Len(a.entries)
    OBVIOUS
  <1>7. PICK ok : ok = c.reply.success
    OBVIOUS
  <1>8. PICK ci : ci = commitIndex[n]
    OBVIOUS
  <1>9. PICK lc : lc = a.leadercommit
    OBVIOUS
  <1>10. /\ log' = [log EXCEPT ![n] = M] /\ commitIndex' = [commitIndex EXCEPT ![n] = commit]
         /\ msgs' = (msgs \ {a}) \cup {c} /\ M \in Seq(LogEntry) /\ commit \in Nat
         /\ c.kind = "AppendEntriesReply" /\ c.from = n /\ c.request = T
         /\ c.acked = a.prevlogindex + Len(a.entries)
    BY <1>2, <1>3 DEF AppendOutcome
  <1>11. /\ ok \in BOOLEAN /\ ok => ~(T < currentTerm[n]) /\ Agree(M, X, k)
         /\ ok => \A i \in Nat : Agree(L, X, i) => Agree(M, X, i)
         /\ ~ok => M = L /\ commit = ci
         /\ ok /\ lc > ci => commit = Min({lc, Len(M) - 1})
         /\ ok /\ ~(lc > ci) => commit = ci
    BY <1>2, <1>3, <1>4, <1>5, <1>6, <1>7, <1>8, <1>9 DEF AppendOutcome
  <1>12. RequestOK(a) /\ Led(a.from, T)
    BY <1>1, <1>3 DEF LogInv, MessageInv, RequestOK
  <1>13. /\ T \in Nat /\ T \in DOMAIN leaderLog /\ a.from \in Nodes /\ a.from # n
         /\ currentTerm[n] \in Nat /\ currentTerm'[n] \in Nat
         /\ currentTerm'[n] = IF T > currentTerm[n] THEN T ELSE currentTerm[n]
    BY <1>0, <1>1, <1>3, <1>12 DEF Header, LogInv, LeaderLogInv, Led
  <1>14. /\ X \in Seq(LogEntry) /\ Len(X) \in Nat /\ Good(X, leaderLog)
         /\ L \in Seq(LogEntry) /\ Len(L) \in Nat /\ Good(L, leaderLog)
         /\ UpToTerm(L, currentTerm[n]) /\ ci \in Nat
    BY <1>4, <1>5, <1>8, <1>13, LogFacts
  <1>15. /\ lc \in Nat /\ k \in Nat /\ k >= 1 /\ Len(M) \in Nat
         /\ c.acked \in Nat /\ c.acked + 1 = k
    <2>1. a.prevlogindex \in Nat /\ a.leadercommit \in Nat /\ Len(a.entries) \in Nat
      BY <1>12 DEF RequestOK, PartOf
    <2>2. /\ k = a.prevlogindex + 1 + Len(a.entries) /\ c.acked = a.prevlogindex + Len(a.entries)
          /\ lc \in Nat /\ Len(M) \in Nat
      BY <1>6, <1>9, <1>10, <2>1
    <2>3. PICK x, y : x = a.prevlogindex /\ y = Len(a.entries)
      OBVIOUS
    <2>4. x \in Nat /\ y \in Nat /\ k = x + 1 + y /\ c.acked = x + y
      BY <2>1, <2>2, <2>3
    <2>5. k \in Nat /\ k >= 1 /\ c.acked \in Nat /\ c.acked + 1 = k
      BY <2>4
    <2> QED BY <2>2, <2>5
  <1>16. ok => currentTerm'[n] = T
    BY <1>11, <1>13
  <1>17. /\ log'[n] = M /\ commitIndex'[n] = commit
         /\ \A m \in Nodes : m # n => /\ log'[m] = log[m] /\ currentTerm'[m] = currentTerm[m]
                                      /\ role'[m] = role[m] /\ commitIndex'[m] = commitIndex[m]
    BY <1>0, <1>1, <1>10
  <1>18. role'[n] = "LEADER" => /\ role[n] = "LEADER" /\ currentTerm'[n] = currentTerm[n] /\ M = L
    <2> SUFFICES ASSUME role'[n] = "LEADER"
                 PROVE  role[n] = "LEADER" /\ currentTerm'[n] = currentTerm[n] /\ M = L
      OBVIOUS
    <2>1. role[n] = "LEADER" /\ ~(T > currentTerm[n])
      BY <1>0, <1>1, <1>3
    <2>2. T # currentTerm[n]
      <3>1. \A m \in Nodes : Led(m, currentTerm[n]) => m = n
        BY <2>1, LeaderFacts
      <3> QED BY <1>12, <1>13, <3>1
    <2>3. T < currentTerm[n] /\ currentTerm'[n] = currentTerm[n]
      BY <1>13, <2>1, <2>2
    <2> QED BY <1>11, <2>1, <2>3
  <1>19. ASSUME NEW U \in Nat, NEW i \in Nat, Has(L, U, i)
         PROVE  Has(M, U, i) \/ Lost(leaderLog, U, i, currentTerm'[n])
    <2>1. CASE ~ok
      BY <1>11, <1>19, <2>1
    <2>2. CASE ok /\ Has(X, U, i)
      <3>1. /\ i \in 1..Len(L) /\ L[i].term = U /\ i \in 1..Len(X) /\ X[i].term = U
        BY <1>19, <2>2 DEF Has
      <3>2. i <= Len(X) /\ L[i].term = X[i].term
        BY <1>14, <3>1
      <3>3. Agree(L, X, i)
        BY <1>14, <3>1, <3>2, SameTermAgree
      <3>4. Agree(M, X, i)
        BY <1>11, <2>2, <3>3
      <3>5. i <= Len(M) /\ M[i] = X[i]
        BY <3>1, <3>4 DEF Agree
      <3> QED BY <1>15, <3>1, <3>5 DEF Has
    <2>3. CASE ok /\ ~Has(X, U, i)
      <3>1. i \in 1..Len(L) /\ L[i].term = U
        BY <1>19 DEF Has
      <3>2. U <= currentTerm[n]
        BY <1>14, <3>1 DEF UpToTerm
      <3>3. U # T
        BY <1>4, <1>14, <1>19, <2>3, HasInLeader
      <3>4. U < T /\ T <= currentTerm'[n]
        BY <1>11, <1>13, <1>16, <2>3, <3>2, <3>3
      <3> QED BY <1>4, <1>13, <2>3, <3>4 DEF Lost
    <2> QED BY <1>11, <2>1, <2>2, <2>3
  <1>20. CommitFrame
    <2>1. \A t \in DOMAIN leaderLog : leaderLog[t] \in Seq(LogEntry) /\ Len(leaderLog[t]) \in Nat
      BY LogFacts
    <2>2. GrowTo(leaderLog, leaderLog')
      BY <1>1, <2>1 DEF GrowTo, Agree
    <2>3. ASSUME NEW m \in Nodes, currentTerm'[m] = currentTerm[m], NEW i \in Nat,
                 Agree(log[m], leaderLog[currentTerm[m]], i)
          PROVE  Agree(log'[m], leaderLog[currentTerm[m]], i)
      <3>1. CASE m = n /\ ok
        <4>1. currentTerm[n] = T
          BY <1>16, <2>3, <3>1
        <4> QED BY <1>4, <1>5, <1>11, <1>17, <2>3, <3>1, <4>1
      <3>2. CASE ~(m = n /\ ok)
        BY <1>5, <1>11, <1>17, <2>3, <3>2
      <3> QED BY <3>1, <3>2
    <2>4. ASSUME NEW m \in Nodes PROVE currentTerm'[m] >= currentTerm[m]
      <3>1. CASE m = n
        BY <1>13, <3>1
      <3>2. CASE m # n
        BY <1>0, <1>17, <3>2
      <3> QED BY <3>1, <3>2
    <2>5. Frame
      BY <1>1, <2>2, <2>3, <2>4 DEF Frame
    <2>6. \A t \in DOMAIN leaderLog : \A i \in 1..Len(leaderLog'[t]) : ~(i > Len(leaderLog[t]))
      BY <1>1, <2>1
    <2>7. \A m \in Nodes : \A U, i \in Nat :
            Has(log[m], U, i) => Has(log'[m], U, i) \/ Lost(leaderLog', U, i, currentTerm'[m])
      BY <1>1, <1>5, <1>17, <1>19
    <2>8. ASSUME NEW q \in Nodes, Pending(q)'
          PROVE  Pending(q) /\ log'[q] = log[q] /\ currentTerm'[q] = currentTerm[q]
      <3>1. CASE q # n
        BY <1>1, <1>17, <2>8, <3>1 DEF Pending
      <3>2. CASE q = n
        <4>1. role[n] = "CANDIDATE" /\ ~(T > currentTerm[n])
          BY <1>0, <1>1, <1>3, <2>8, <3>2 DEF Pending
        <4>2. currentTerm'[n] = currentTerm[n]
          BY <1>13, <4>1
        <4>3. Pending(n)
          BY <1>1, <2>8, <3>2, <4>1, <4>2 DEF Pending
        <4>4. ~ok
          BY <1>13, <1>16, <4>2, <4>3 DEF Pending
        <4> QED BY <1>5, <1>11, <1>17, <3>2, <4>2, <4>3, <4>4
      <3> QED BY <3>1, <3>2
    <2> QED
      BY <1>1, <2>5, <2>6, <2>7, <2>8 DEF CommitFrame
  <1>21. LeaderAckInv'
    <2>1. ASSUME NEW m \in Nodes, role'[m] = "LEADER"
          PROVE  /\ role[m] = "LEADER" /\ currentTerm'[m] = currentTerm[m]
                 /\ log'[m] = log[m] /\ matchIndex'[m] = matchIndex[m]
      BY <1>1, <1>5, <1>17, <1>18, <2>1
    <2> QED
      BY <1>20, <2>1, LeaderAcksKept DEF LeaderAckInv
  <1>22. c.reply.success => \A i \in 1..c.acked + 1 :
           Has(leaderLog'[c.request], c.request, i) => Tracked(c.from, c.request, i)'
    <2> SUFFICES ASSUME ok, NEW i \in 1..k, Has(X, T, i) PROVE Tracked(n, T, i)'
      BY <1>1, <1>4, <1>7, <1>10, <1>15
    <2>1. i \in Nat /\ i <= k /\ X[i].term = T
      BY <1>15 DEF Has
    <2>2. i <= Len(M) /\ M[i] = X[i]
      <3>1. k <= Len(M) /\ \A j \in 1..k : M[j] = X[j]
        BY <1>11 DEF Agree
      <3> QED BY <1>15, <2>1, <3>1
    <2>3. Has(log'[n], T, i)
      BY <1>15, <1>17, <2>1, <2>2 DEF Has
    <2> QED
      BY <1>13, <1>16, <2>1, <2>3, TrackedStart
  <1>23. ASSUME ok PROVE Backed(log[n], commitIndex[n], currentTerm[n])'
    <2>1. Backed(M, commit, T) /\ T <= T
      <3>1. a.kind = "AppendEntries" /\ c.reply.success
        BY <1>1, <1>7, <1>23
      <3>2. Backed(M, commit, a.term)
        BY <1>2, <3>1, AppendBacked
      <3> QED BY <1>3, <1>13, <3>2
    <2>2. \E W \in DOMAIN leaderLog' :
            /\ W <= T /\ Agree(M, leaderLog'[W], commit + 1)
            /\ \E i \in commit + 1 .. Len(leaderLog'[W]) : Anchored(W, i)'
      BY <1>10, <1>13, <1>20, <2>1, BackedKept
    <2> QED
      BY <1>16, <1>17, <1>23, <2>2 DEF Backed
  <1>24. ASSUME NEW m \in Nodes
         PROVE  \/ log'[m] = log[m] /\ commitIndex'[m] = commitIndex[m]
                \/ Backed(log[m], commitIndex[m], currentTerm[m])'
    BY <1>5, <1>8, <1>11, <1>17, <1>23
  <1>25. \A b \in msgs' : b \in msgs \/ b = c
    BY <1>10
  <1> QED
    BY <1>1, <1>10, <1>20, <1>21, <1>22, <1>24, <1>25, CommitStep

(***************************************************************************)
(* What a majority has reported to a leader is anchored, if the last of it *)
(* is of the leader's term.                                                *)
(***************************************************************************)
LEMMA CommittableAnchored ==
  ASSUME ElectionInv, LogInv, CommitInv, NEW n \in Nodes, role[n] = "LEADER",
         NEW T, T = currentTerm[n], NEW match \in [Nodes -> Nat], NEW N \in Committable(n, match),
         \A i \in 1..Len(log[n]) : log[n][i].term = T =>
           \A o \in Peers(n) : i <= match[o] + 1 => Tracked(o, T, i)
  PROVE  /\ N \in commitIndex[n] + 1 .. LastIndex(n)
         /\ N \in Nat /\ N + 1 \in 1..Len(log[n]) /\ Anchored(T, N + 1)
PROOF
  <1>1. /\ T \in DOMAIN leaderLog /\ leaderLog[T] = log[n]
    BY LeaderFacts
  <1>2. Len(log[n]) \in Nat /\ commitIndex[n] \in Nat
    BY LogFacts
  <1>3. /\ N \in commitIndex[n] + 1 .. LastIndex(n) /\ Entry(n, N).term = T
        /\ IsMajority(1 + Cardinality({o \in Peers(n) : match[o] >= N}))
    BY DEF Committable
  <1>4. N \in Nat /\ N + 1 \in 1..Len(log[n]) /\ log[n][N + 1].term = T
    BY <1>2, <1>3 DEF LastIndex, Entry
  <1> DEFINE S == {o \in Peers(n) : match[o] >= N}
             Q == S \cup {n}
  <1>5. Q \in SUBSET Nodes /\ S \in SUBSET Nodes /\ n \notin S
    BY DEF Peers
  <1>6. IsMajority(Cardinality(Q))
    <2>1. IsFiniteSet(S)
      BY <1>5, RaftAssumption, FS_Subset
    <2>2. Cardinality(Q) = Cardinality(S) + 1 /\ Cardinality(S) \in Nat
      <3> HIDE DEF S
      <3> QED BY <1>5, <2>1, FS_AddElement, FS_CardinalityType
    <2>3. 1 + Cardinality(S) = Cardinality(Q)
      <3> HIDE DEF S, Q
      <3> QED BY <2>2
    <2> QED BY <1>3, <2>3
  <1>7. ASSUME NEW o \in Q PROVE Tracked(o, T, N + 1)
    <2>1. CASE o = n
      BY <1>1, <1>4, <2>1 DEF CommitInv, LeaderAckInv, LeaderAcks
    <2>2. CASE o # n
      <3>1. o \in Peers(n) /\ match[o] >= N /\ match[o] \in Nat
        BY <2>2 DEF Peers
      <3>2. N + 1 <= match[o] + 1
        BY <1>4, <3>1
      <3> QED BY <1>4, <3>1, <3>2
    <2> QED BY <2>1, <2>2
  <1>8. Has(leaderLog[T], T, N + 1)
    BY <1>1, <1>4 DEF Has
  <1> HIDE DEF Q
  <1> QED
    BY <1>1, <1>3, <1>4, <1>5, <1>6, <1>7, <1>8 DEF Anchored

(***************************************************************************)
(* A leader that is told of success knows more of a follower, and commits  *)
(* what is anchored.                                                       *)
(***************************************************************************)
LEMMA HandleFacts ==
  ASSUME ElectionInv, LogInv, CommitInv, NEW n \in Nodes, NEW b \in msgs,
         b.kind = "AppendEntriesReply", b.to = n, role[n] = "LEADER", b.reply.success,
         NEW T, T = currentTerm[n], b.request = T,
         NEW mt, mt = [matchIndex[n] EXCEPT ![b.from] = Max({@, b.acked})],
         NEW N, N = NewCommitIndex(n, mt)
  PROVE  /\ \A i \in 1..Len(log[n]) : log[n][i].term = T =>
               \A o \in Peers(n) : i <= mt[o] + 1 => Tracked(o, T, i)
         /\ \/ N = commitIndex[n]
            \/ /\ N \in commitIndex[n] + 1 .. LastIndex(n)
               /\ N \in Nat /\ N + 1 \in 1..Len(log[n]) /\ Anchored(T, N + 1)
PROOF
  <1> DEFINE m == b.from
             L == log[n]
             ci == commitIndex[n]
  <1>1. Header(b) /\ matchIndex \in [Nodes -> [Nodes -> Nat]]
    BY DEF ElectionInv, VoteTypes, LogInv, ReplicationTypes
  <1>2. m \in Nodes /\ m # n /\ b.acked \in Nat /\ matchIndex[n][m] \in Nat
    BY <1>1 DEF Header, LogInv, MessageInv, ReplyOK
  <1>3. /\ mt[m] \in {matchIndex[n][m], b.acked} /\ mt \in [Nodes -> Nat]
        /\ \A o \in Nodes : o # m => mt[o] = matchIndex[n][o]
    <2>1. Max({matchIndex[n][m], b.acked}) \in {matchIndex[n][m], b.acked}
      <3>1. {matchIndex[n][m], b.acked} \in SUBSET (0..(matchIndex[n][m] + b.acked))
        BY <1>2
      <3>2. matchIndex[n][m] + b.acked \in Nat
        BY <1>2
      <3> QED BY <3>1, <3>2, GreatestNumber
    <2> QED BY <1>1, <1>2, <2>1
  <1>4. T \in DOMAIN leaderLog /\ leaderLog[T] = L
    BY LeaderFacts
  <1>5. ASSUME NEW i \in 1..Len(L), L[i].term = T, NEW o \in Peers(n), i <= mt[o] + 1
        PROVE  Tracked(o, T, i)
    <2>1. o \in Nodes
      BY DEF Peers
    <2>2. CASE mt[o] = matchIndex[n][o]
      BY <1>4, <1>5, <2>2 DEF CommitInv, LeaderAckInv, LeaderAcks
    <2>3. CASE o = m /\ mt[o] = b.acked
      <3>1. i \in 1..b.acked + 1
        BY <1>2, <1>5, <2>3
      <3>2. Has(leaderLog[b.request], b.request, i)
        BY <1>4, <1>5 DEF Has
      <3> QED BY <2>3, <3>1, <3>2 DEF CommitInv, AckInv
    <2> QED BY <1>3, <2>1, <2>2, <2>3
  <1>6. ci \in Nat /\ LastIndex(n) \in Nat /\ ci <= LastIndex(n)
    <2>1. ci \in Nat /\ Len(L) \in Nat /\ ci + 1 <= Len(L)
      BY LogFacts, LeaderBacked
    <2> QED BY <2>1 DEF LastIndex
  <1>7. N = ci \/ N \in Committable(n, mt)
    <2>1. /\ N = Min({ci, LastIndex(n)}) \/ N \in Committable(n, mt)
          /\ Min({ci, LastIndex(n)}) \in {ci, LastIndex(n)}
          /\ Min({ci, LastIndex(n)}) <= ci
      BY <1>6, NewCommitIndexInLog
    <2>2. Min({ci, LastIndex(n)}) = ci
      BY <1>6, <2>1
    <2> QED BY <2>1, <2>2
  <1>8. ASSUME N \in Committable(n, mt)
        PROVE  /\ N \in commitIndex[n] + 1 .. LastIndex(n)
               /\ N \in Nat /\ N + 1 \in 1..Len(log[n]) /\ Anchored(T, N + 1)
    <2>1. \A i \in 1..Len(log[n]) : log[n][i].term = T =>
            \A o \in Peers(n) : i <= mt[o] + 1 => Tracked(o, T, i)
      BY <1>5
    <2>2. mt \in [Nodes -> Nat]
      BY <1>3
    <2> HIDE DEF L, ci, m
    <2> QED BY <1>8, <2>1, <2>2, CommittableAnchored
  <1> QED BY <1>5, <1>7, <1>8

LEMMA CommitHandleStep ==
  ASSUME ElectionInv, ElectionInv', LogInv, LogInv', CommitInv,
         NEW n \in Nodes, NEW b \in msgs, handleAppendEntries(n, b)
  PROVE  CommitInv'
PROOF
  <1> DEFINE m == b.from
             stale == role[n] # "LEADER" \/ b.request # currentTerm[n]
             match == [matchIndex[n] EXCEPT ![m] = Max({@, b.acked})]
  <1>1. /\ currentTerm \in [Nodes -> Nat] /\ role \in [Nodes -> {"FOLLOWER", "CANDIDATE", "LEADER"}]
        /\ Header(b) /\ matchIndex \in [Nodes -> [Nodes -> Nat]]
        /\ commitIndex \in [Nodes -> Nat]
    BY DEF ElectionInv, VoteTypes, LogInv, ReplicationTypes
  <1>2. /\ b.kind = "AppendEntriesReply" /\ b.to = n /\ msgs' = msgs \ {b}
        /\ UNCHANGED <<leaders, voters>>
    BY DEF handleAppendEntries
  <1>3. /\ m \in Nodes /\ m # n /\ b.term \in Nat /\ b.acked \in Nat /\ m \in Peers(n)
        /\ matchIndex[n][m] \in Nat
    BY <1>1, <1>2 DEF Header, LogInv, MessageInv, ReplyOK, Peers
  <1>4. CASE UNCHANGED <<currentTerm, role, votedFor, logVars>>
    <2>1. \A c \in Nodes : Pending(c)' <=> Pending(c)
      BY <1>4 DEF Pending, logVars
    <2> QED BY <1>1, <1>2, <1>4, <2>1, QuietCommitStep
  <1>5. CASE b.term > currentTerm[n] /\ StepDown(n, b.term) /\ UNCHANGED logVars
    <2>1. /\ currentTerm' = [currentTerm EXCEPT ![n] = b.term]
          /\ role' = [role EXCEPT ![n] = "FOLLOWER"] /\ leaderLog' = leaderLog
      BY <1>5 DEF StepDown, logVars
    <2>2. \A c \in Nodes : Pending(c)' => Pending(c) /\ currentTerm'[c] = currentTerm[c]
      BY <1>1, <2>1 DEF Pending
    <2>3. \A q \in Nodes :
            /\ currentTerm'[q] >= currentTerm[q]
            /\ role'[q] = "LEADER" => role[q] = "LEADER" /\ currentTerm'[q] = currentTerm[q]
      BY <1>1, <1>3, <1>5, <2>1
    <2> QED BY <1>2, <1>5, <2>2, <2>3, QuietCommitStep
  <1>6. CASE UNCHANGED <<currentTerm, role, votedFor, log, matchIndex, commitIndex, leaderLog, committed>>
    <2>1. CommitFrame
      BY <1>2, <1>6, SameCommitFrame
    <2>2. LeaderAckInv'
      BY <1>6, <2>1, LeaderAcksKept DEF LeaderAckInv
    <2> QED BY <1>2, <1>6, <2>1, <2>2, CommitStep
  <1>7. CASE /\ ~stale /\ b.reply.success
             /\ matchIndex' = [matchIndex EXCEPT ![n] = match]
             /\ commitIndex' = [commitIndex EXCEPT ![n] = NewCommitIndex(n, match)]
             /\ committed' = committed \cup
                  {[index |-> i, entry |-> Entry(n, i), term |-> currentTerm[n]] :
                     i \in commitIndex[n] + 1 .. commitIndex'[n]}
             /\ UNCHANGED <<currentTerm, role, votedFor, log, leaderLog>>
    <2>1. CommitFrame
      BY <1>2, <1>7, SameCommitFrame
    <2>2. PICK T : T = currentTerm[n]
      OBVIOUS
    <2>3. /\ T \in DOMAIN leaderLog /\ leaderLog[T] = log[n] /\ b.request = T /\ role[n] = "LEADER"
          /\ T \in Nat /\ currentTerm'[n] = T
      BY <1>1, <1>7, <2>2, LeaderFacts
    <2>5. PICK mt : mt = match
      OBVIOUS
    <2>6. PICK ci : ci = commitIndex[n]
      OBVIOUS
    <2>7. PICK N : N = NewCommitIndex(n, mt)
      OBVIOUS
    <2>8. PICK L : L = log[n]
      OBVIOUS
    <2> HIDE DEF match
    <2>9. /\ matchIndex'[n] = mt /\ \A q \in Nodes : q # n => matchIndex'[q] = matchIndex[q]
          /\ commitIndex'[n] = N /\ \A q \in Nodes : q # n => commitIndex'[q] = commitIndex[q]
      BY <1>1, <1>7, <2>5, <2>7
    <2>10. /\ \A i \in 1..Len(L) : L[i].term = T =>
                \A o \in Peers(n) : i <= mt[o] + 1 => Tracked(o, T, i)
           /\ \/ N = ci
              \/ /\ N \in ci + 1 .. LastIndex(n)
                 /\ N \in Nat /\ N + 1 \in 1..Len(L) /\ Anchored(T, N + 1)
      BY <1>2, <1>7, <2>2, <2>3, <2>5, <2>6, <2>7, <2>8, HandleFacts DEF match
    <2>11. ASSUME NEW q \in Nodes PROVE LeaderAcks(q)'
      <3>1. CASE q # n
        BY <1>7, <2>1, <2>9, <3>1, LeaderAcksKept
      <3>2. CASE q = n
        <4> SUFFICES ASSUME NEW i \in 1..Len(L), L[i].term = T
                     PROVE  /\ Tracked(n, T, i)'
                            /\ \A o \in Peers(n) : i <= mt[o] + 1 => Tracked(o, T, i)'
          BY <1>7, <2>3, <2>8, <2>9, <3>2 DEF LeaderAcks, Peers
        <4>1. i \in Nat /\ Peers(n) \subseteq Nodes
          BY DEF Peers
        <4>2. Tracked(n, T, i)
          BY <2>2, <2>3, <2>8 DEF CommitInv, LeaderAckInv, LeaderAcks
        <4> QED BY <2>1, <2>3, <2>10, <4>1, <4>2, TrackedKept
      <3> QED BY <3>1, <3>2
    <2>12. LeaderAckInv'
      BY <2>11 DEF LeaderAckInv
    <2>13. /\ ci \in Nat /\ Len(L) \in Nat /\ ci + 1 <= Len(L) /\ LastIndex(n) \in Nat
           /\ ci <= LastIndex(n)
      <3>1. ci \in Nat /\ Len(L) \in Nat /\ ci + 1 <= Len(L)
        BY <2>6, <2>8, LogFacts, LeaderBacked
      <3> QED BY <2>8, <3>1 DEF LastIndex
    <2>15. CASE N = ci
      <3>1. commitIndex[n] + 1 .. commitIndex'[n] = {}
        BY <2>6, <2>9, <2>13, <2>15
      <3>2. committed' = committed
        BY <1>7, <3>1
      <3>3. commitIndex' = commitIndex
        BY <1>1, <1>7, <2>5, <2>6, <2>7, <2>15
      <3> QED
        BY <1>2, <1>7, <2>1, <2>12, <3>2, <3>3, CommitStep
    <2>16. CASE N # ci
      <3>1. /\ N \in Nat /\ N + 1 \in 1..Len(L) /\ Anchored(T, N + 1) /\ N <= LastIndex(n)
        BY <2>10, <2>13, <2>16
      <3>2. Anchored(T, N + 1)'
        BY <2>1, <3>1, AnchoredKept
      <3>3. N + 1 \in N + 1 .. Len(L) /\ Agree(L, L, N + 1) /\ T <= T
        BY <2>3, <2>13, <3>1 DEF Agree
      <3>4. Backed(log[n], commitIndex[n], currentTerm[n])'
        BY <1>7, <2>3, <2>8, <2>9, <3>2, <3>3 DEF Backed
      <3>5. \A q \in Nodes : \/ log'[q] = log[q] /\ commitIndex'[q] = commitIndex[q]
                            \/ Backed(log[q], commitIndex[q], currentTerm[q])'
        BY <1>7, <2>9, <3>4
      <3>6. ASSUME NEW c \in committed', c \notin committed
            PROVE  /\ c.term \in DOMAIN leaderLog /\ c.index + 1 <= Len(leaderLog[c.term])
                   /\ c.entry = leaderLog[c.term][c.index + 1]
                   /\ \E i \in c.index + 1 .. Len(leaderLog[c.term]) : Anchored(c.term, i)
        <4>1. PICK j \in ci + 1 .. N : c = [index |-> j, entry |-> Entry(n, j), term |-> T]
          BY <1>7, <2>2, <2>6, <2>9, <3>6
        <4>2. j \in Nat /\ j <= N /\ j + 1 <= Len(L) /\ N + 1 \in j + 1 .. Len(L)
          BY <2>13, <3>1, <4>1
        <4>3. c.index = j /\ c.entry = L[j + 1] /\ c.term = T
          BY <2>8, <4>1 DEF Entry
        <4> QED BY <2>3, <2>8, <3>1, <4>2, <4>3
      <3> QED
        BY <1>2, <2>1, <2>12, <3>5, <3>6, CommitStep
    <2> QED BY <2>15, <2>16
  <1> QED
    BY <1>4, <1>5, <1>6, <1>7 DEF handleAppendEntries
-----------------------------------------------------------------------------
\* The invariant of the commits holds in every reachable state.
LEMMA CommitInvariant == Spec => [](ElectionInv /\ LogInv /\ CommitInv)
PROOF
  <1>1. Init /\ ElectionInv /\ LogInv => CommitInv
    <2> SUFFICES ASSUME Init, ElectionInv, LogInv PROVE CommitInv
      OBVIOUS
    <2>1. /\ leaderLog = [t \in {0} |-> <<BlankEntry>>] /\ leaders = {} /\ msgs = {} /\ committed = {}
          /\ log = [n \in Nodes |-> <<BlankEntry>>] /\ role = [n \in Nodes |-> "FOLLOWER"]
          /\ currentTerm = [n \in Nodes |-> 0] /\ commitIndex = [n \in Nodes |-> 0]
      BY DEF Init
    <2> DEFINE B == <<BlankEntry>>
    <2>2. Len(B) = 1 /\ B[1].term = 0
      BY DEF BlankEntry
    <2>3. DOMAIN leaderLog = {0} /\ leaderLog[0] = B /\ \A n \in Nodes : log[n] = B
      BY <2>1
    <2> HIDE DEF B
    <2>4. Has(B, 0, 1) /\ Agree(B, B, 1)
      BY <2>2 DEF Has, Agree
    <2>5. \A n \in Nodes : Tracked(n, 0, 1)
      BY <2>1, <2>3, <2>4 DEF Tracked, Pending
    <2>6. IsMajority(Cardinality(Nodes))
      <3>1. Cardinality(Nodes) \in Nat /\ Cardinality(Nodes) # 0
        BY RaftAssumption, FS_CardinalityType, FS_EmptySet
      <3> QED BY <3>1 DEF IsMajority
    <2>7. Anchored(0, 1)
      BY <2>3, <2>4, <2>5, <2>6 DEF Anchored
    <2>8. \A n \in Nodes : Backed(log[n], commitIndex[n], currentTerm[n])
      <3>1. Backed(B, 0, 0)
        BY <2>2, <2>3, <2>4, <2>7 DEF Backed
      <3> QED BY <2>1, <2>3, <3>1
    <2>9. AckInv /\ LeaderAckInv /\ RequestInv /\ CommittedInv
      BY <2>1 DEF AckInv, LeaderAckInv, LeaderAcks, RequestInv, CommittedInv
    <2> QED BY <2>1, <2>8, <2>9 DEF CommitInv, BackedInv
  <1>2. ASSUME ElectionInv, ElectionInv', LogInv, LogInv', CommitInv, [Next]_vars PROVE CommitInv'
    <2> USE <1>2
    <2>1. PICK n0 \in Nodes : TRUE
      BY RaftAssumption
    <2>2. ASSUME NEW n \in Nodes,
                 Elect(n) \/ \E b \in msgs : RequestVote(n, b) \/ GetVoteAnswer(n, b)
          PROVE  CommitInv'
      BY <2>2, CommitVoteSteps
    <2>3. ASSUME UNCHANGED vars \/ \E b \in msgs : RpcFails(b) PROVE CommitInv'
      BY <2>1, <2>3, CommitVoteSteps
    <2>4. ASSUME NEW t \in collecting, CollectVote(t) PROVE CommitInv'
      BY <2>4, CommitWinStep
    <2>5. ASSUME NEW n \in Nodes, HostAppend(n) PROVE CommitInv'
      BY <2>5, CommitHostAppendStep
    <2>6. ASSUME NEW n \in Nodes, SendHeartBeats(n) PROVE CommitInv'
      BY <2>6, CommitSendStep
    <2>7. ASSUME NEW n \in Nodes, NEW b \in msgs, AppendEntries(n, b) PROVE CommitInv'
      BY <2>7, CommitAppendStep
    <2>8. ASSUME NEW n \in Nodes, NEW b \in msgs, handleAppendEntries(n, b) PROVE CommitInv'
      BY <2>8, CommitHandleStep
    <2> QED
      BY <2>2, <2>3, <2>4, <2>5, <2>6, <2>7, <2>8 DEF Next
  <1>3. ElectionInv /\ ElectionInv' /\ LogInv /\ LogInv' /\ CommitInv /\ [Next]_vars => CommitInv'
    BY <1>2
  <1> QED
    BY <1>1, <1>3, LogInvariant, PTL DEF Spec

(***************************************************************************)
(* A leader has every entry that was committed in its term or before, in a *)
(* cluster of any size and after any loss and delay (raft_rpc.cpp:87-90).  *)
(***************************************************************************)
THEOREM LeaderCompleteness == Spec => []LeaderHasCommitted
PROOF
  <1>1. ElectionInv /\ LogInv /\ CommitInv => LeaderHasCommitted
    <2> SUFFICES ASSUME ElectionInv, LogInv, CommitInv, NEW n \in Nodes, role[n] = "LEADER",
                        NEW c \in committed, c.term <= currentTerm[n]
                 PROVE  c.index <= LastIndex(n) /\ Entry(n, c.index) = c.entry
      BY DEF LeaderHasCommitted
    <2> DEFINE T == currentTerm[n]
               L == log[n]
               Y == leaderLog[c.term]
    <2>1. T \in DOMAIN leaderLog /\ leaderLog[T] = L
      BY LeaderFacts
    <2>2. /\ c.term \in DOMAIN leaderLog /\ c.index + 1 <= Len(Y) /\ c.entry = Y[c.index + 1]
          /\ \E i \in c.index + 1 .. Len(Y) : Anchored(c.term, i)
      BY DEF CommitInv, CommittedInv
    <2>3. PICK i \in c.index + 1 .. Len(Y) : Anchored(c.term, i)
      BY <2>2
    <2>4. /\ c.index \in Nat /\ c.term \in Nat /\ T \in Nat /\ Len(L) \in Nat /\ Len(Y) \in Nat
          /\ Good(L, leaderLog)
      BY <2>2, LogFacts DEF LogInv, ReplicationTypes
    <2>5. CASE c.term = T
      BY <2>1, <2>2, <2>4, <2>5 DEF LastIndex, Entry
    <2>6. CASE c.term # T
      <3>1. T > c.term
        BY <2>4, <2>6
      <3>2. Has(L, c.term, i)
        BY <2>1, <2>3, <3>1, Completeness
      <3>3. Agree(L, Y, i)
        BY <2>4, <3>2, HasInLeader
      <3>4. i <= Len(L) /\ \A j \in 1..i : L[j] = Y[j]
        BY <3>3 DEF Agree
      <3>5. c.index + 1 \in 1..i
        BY <2>3, <2>4
      <3>6. c.index + 1 <= Len(L) /\ L[c.index + 1] = c.entry
        BY <2>2, <2>4, <3>4, <3>5
      <3> QED BY <2>4, <3>6 DEF LastIndex, Entry
    <2> QED BY <2>5, <2>6
  <1> QED
    BY <1>1, CommitInvariant, PTL
-----------------------------------------------------------------------------
(* Commits over time, and the one log that they make up. *)

\* Backed commits agree, whichever of two nodes has more.
LEMMA BackedAgree ==
  ASSUME ElectionInv, LogInv, NEW L \in Seq(LogEntry), NEW M \in Seq(LogEntry),
         NEW ci \in Nat, NEW cj \in Nat, ci <= cj,
         NEW u \in Nat, NEW v \in Nat, Backed(L, ci, u), Backed(M, cj, v)
  PROVE  Agree(L, M, ci + 1)
PROOF
  <1>1. PICK T \in DOMAIN leaderLog :
          /\ T <= u /\ Agree(L, leaderLog[T], ci + 1)
          /\ \E i \in ci + 1 .. Len(leaderLog[T]) : Anchored(T, i)
    BY DEF Backed
  <1>2. PICK W \in DOMAIN leaderLog :
          /\ W <= v /\ Agree(M, leaderLog[W], cj + 1)
          /\ \E i \in cj + 1 .. Len(leaderLog[W]) : Anchored(W, i)
    BY DEF Backed
  <1>3. T \in Nat /\ W \in Nat
    BY LogFacts
  <1>4. T <= T /\ W <= W
    BY <1>3
  <1>5. Backed(L, ci, T) /\ Backed(M, cj, W)
    BY <1>1, <1>2, <1>4 DEF Backed
  <1>6. CASE T <= W
    <2>1. Agree(L, leaderLog[W], ci + 1)
      BY <1>3, <1>5, <1>6, BackedInLeader
    <2> QED BY <1>2, <2>1 DEF Agree
  <1>7. CASE W <= T
    <2>1. Agree(M, leaderLog[T], cj + 1)
      BY <1>3, <1>5, <1>7, BackedInLeader
    <2> QED BY <1>1, <2>1 DEF Agree
  <1> QED BY <1>3, <1>6, <1>7

(***************************************************************************)
(* A step changes what one node takes for committed, at most, for no less, *)
(* and that is backed already before the step.                             *)
(***************************************************************************)
LEMMA CommitGrows ==
  ASSUME ElectionInv, ElectionInv', LogInv, LogInv', CommitInv, [Next]_vars
  PROVE  \E n \in Nodes :
           /\ \A m \in Nodes : m # n => log'[m] = log[m] /\ commitIndex'[m] = commitIndex[m]
           /\ commitIndex'[n] >= commitIndex[n]
           /\ \E u \in Nat : Backed(log'[n], commitIndex'[n], u)
PROOF
  <1> DEFINE Goal(n) ==
        /\ \A m \in Nodes : m # n => log'[m] = log[m] /\ commitIndex'[m] = commitIndex[m]
        /\ commitIndex'[n] >= commitIndex[n]
        /\ \E u \in Nat : Backed(log'[n], commitIndex'[n], u)
  <1>0. /\ log \in [Nodes -> Seq(LogEntry)] /\ commitIndex \in [Nodes -> Nat]
        /\ currentTerm \in [Nodes -> Nat]
        /\ \A n \in Nodes : Backed(log[n], commitIndex[n], currentTerm[n])
    BY DEF LogInv, ReplicationTypes, ElectionInv, VoteTypes, CommitInv, BackedInv
  <1>1. PICK n0 \in Nodes : TRUE
    BY RaftAssumption
  <1>2. CASE UNCHANGED <<log, commitIndex>>
    <2>1. Goal(n0)
      BY <1>0, <1>2
    <2> QED BY <2>1
  <1>3. ASSUME NEW n \in Nodes, HostAppend(n) PROVE Goal(n)
    <2>1. PICK L : L = log[n]
      OBVIOUS
    <2>2. PICK ci : ci = commitIndex[n]
      OBVIOUS
    <2>3. PICK u : u = currentTerm[n]
      OBVIOUS
    <2>4. PICK e : e = [term |-> currentTerm[n], from |-> n]
      OBVIOUS
    <2>5. log' = [log EXCEPT ![n] = Append(L, e)] /\ commitIndex' = commitIndex
      BY <1>3, <2>1, <2>4 DEF HostAppend
    <2>6. L \in Seq(LogEntry) /\ e \in LogEntry /\ ci \in Nat /\ u \in Nat /\ Backed(L, ci, u)
      BY <1>0, <2>1, <2>2, <2>3, <2>4 DEF LogEntry
    <2>7. /\ Len(Append(L, e)) = Len(L) + 1 /\ Len(L) \in Nat
          /\ \A i \in 1..Len(L) : Append(L, e)[i] = L[i]
      BY <2>6, AppendProperties
    <2>8. PICK M : M = Append(L, e)
      OBVIOUS
    <2>9. PICK W \in DOMAIN leaderLog :
            /\ W <= u /\ Agree(L, leaderLog[W], ci + 1)
            /\ \E i \in ci + 1 .. Len(leaderLog[W]) : Anchored(W, i)
      BY <2>6 DEF Backed
    <2>10. Agree(M, leaderLog[W], ci + 1)
      BY <2>6, <2>7, <2>8, <2>9 DEF Agree
    <2>11. Backed(M, ci, u)
      BY <2>9, <2>10 DEF Backed
    <2> QED BY <1>0, <2>2, <2>5, <2>6, <2>8, <2>11
  <1>4. ASSUME NEW n \in Nodes, NEW a \in msgs, AppendEntries(n, a) PROVE Goal(n)
    <2>1. PICK M, commit, c : AppendOutcome(n, a, M, commit, c)
      BY <1>4, AppendEntriesFacts
    <2>2. /\ log' = [log EXCEPT ![n] = M] /\ commitIndex' = [commitIndex EXCEPT ![n] = commit]
          /\ c.reply.success \in BOOLEAN
          /\ ~c.reply.success => M = log[n] /\ commit = commitIndex[n]
      BY <2>1 DEF AppendOutcome
    <2>3. CASE c.reply.success
      <3>1. a.kind = "AppendEntries" /\ a.term \in Nat
        BY <1>4 DEF AppendEntries, ElectionInv, VoteTypes, Header
      <3>2. Backed(M, commit, a.term) /\ commit >= commitIndex[n]
        BY <2>1, <2>3, <3>1, AppendBacked
      <3> QED BY <1>0, <2>2, <3>1, <3>2
    <2>4. CASE ~c.reply.success
      BY <1>0, <2>2, <2>4
    <2> QED BY <2>2, <2>3, <2>4
  <1>5. ASSUME NEW n \in Nodes, NEW b \in msgs, handleAppendEntries(n, b),
               ~UNCHANGED <<log, commitIndex>>
        PROVE  Goal(n)
    <2>1. PICK mt : mt = [matchIndex[n] EXCEPT ![b.from] = Max({@, b.acked})]
      OBVIOUS
    <2>2. PICK N : N = NewCommitIndex(n, mt)
      OBVIOUS
    <2>3. PICK T : T = currentTerm[n]
      OBVIOUS
    <2>4. /\ b.kind = "AppendEntriesReply" /\ b.to = n /\ role[n] = "LEADER" /\ b.request = T
          /\ b.reply.success /\ log' = log /\ commitIndex' = [commitIndex EXCEPT ![n] = N]
      BY <1>5, <2>1, <2>2, <2>3 DEF handleAppendEntries, logVars
    <2>5. \/ N = commitIndex[n]
          \/ /\ N \in commitIndex[n] + 1 .. LastIndex(n)
             /\ N \in Nat /\ N + 1 \in 1..Len(log[n]) /\ Anchored(T, N + 1)
      BY <2>1, <2>2, <2>3, <2>4, HandleFacts
    <2>6. CASE N = commitIndex[n]
      BY <1>0, <2>4, <2>6
    <2>7. CASE N # commitIndex[n]
      <3>1. T \in DOMAIN leaderLog /\ leaderLog[T] = log[n] /\ T \in Nat
        BY <1>0, <2>3, <2>4, LeaderFacts
      <3>2. Len(log[n]) \in Nat
        BY LogFacts
      <3>3. N \in Nat /\ N >= commitIndex[n] /\ N + 1 \in N + 1 .. Len(log[n]) /\ T <= T
            /\ Anchored(T, N + 1) /\ N + 1 <= Len(log[n])
        BY <1>0, <2>5, <2>7, <3>1, <3>2
      <3>4. Agree(log[n], leaderLog[T], N + 1)
        BY <3>1, <3>3 DEF Agree
      <3>5. Backed(log[n], N, T)
        BY <3>1, <3>3, <3>4 DEF Backed
      <3> QED BY <1>0, <2>4, <3>1, <3>3, <3>5
    <2> QED BY <2>6, <2>7
  <1>6. ASSUME NEW n \in Nodes,
               \/ Elect(n) \/ SendHeartBeats(n)
               \/ \E b \in msgs : RequestVote(n, b) \/ GetVoteAnswer(n, b)
        PROVE  UNCHANGED <<log, commitIndex>>
    BY <1>6 DEF Elect, SendHeartBeats, RequestVote, GetVoteAnswer, logVars
  <1>7. ASSUME \/ UNCHANGED vars \/ \E b \in msgs : RpcFails(b)
               \/ \E t \in collecting : CollectVote(t)
        PROVE  UNCHANGED <<log, commitIndex>>
    BY <1>7 DEF RpcFails, CollectVote, logVars, vars
  <1>8. \/ UNCHANGED <<log, commitIndex>>
        \/ \E n \in Nodes : HostAppend(n) \/ \E b \in msgs : AppendEntries(n, b) \/ handleAppendEntries(n, b)
    BY <1>6, <1>7 DEF Next
  <1> HIDE DEF Goal
  <1>9. \E n \in Nodes : Goal(n)
    BY <1>2, <1>3, <1>4, <1>5, <1>8 DEF Goal
  <1> QED BY <1>9 DEF Goal

\* A node moves to a later term, or keeps its term and the vote it gave.
LEMMA VotesKept ==
  ASSUME ElectionInv, [Next]_vars, NEW n \in Nodes
  PROVE  \/ currentTerm'[n] > currentTerm[n]
         \/ /\ currentTerm'[n] = currentTerm[n]
            /\ votedFor[n] # Nobody => votedFor'[n] = votedFor[n]
PROOF
  <1> DEFINE Goal == \/ currentTerm'[n] > currentTerm[n]
                     \/ /\ currentTerm'[n] = currentTerm[n]
                        /\ votedFor[n] # Nobody => votedFor'[n] = votedFor[n]
  <1>1. /\ currentTerm \in [Nodes -> Nat] /\ votedFor \in [Nodes -> Nodes \cup {Nobody}]
        /\ \A b \in msgs : Header(b)
    BY DEF ElectionInv, VoteTypes
  <1>2. ASSUME NEW m \in Nodes, Elect(m) PROVE Goal
    BY <1>1, <1>2 DEF Elect
  <1>3. ASSUME NEW m \in Nodes, NEW a \in msgs, RequestVote(m, a) PROVE Goal
    <2> DEFINE newer == a.term > currentTerm[m]
               granted == GrantsVote(m, a)
    <2>1. /\ currentTerm' = [currentTerm EXCEPT ![m] = IF newer THEN a.term ELSE @]
          /\ votedFor' = [votedFor EXCEPT ![m] = IF granted THEN a.from
                                                 ELSE IF newer THEN Nobody ELSE @]
      BY <1>3 DEF RequestVote
    <2>2. granted /\ ~newer => votedFor[m] \in {Nobody, a.from}
      BY DEF GrantsVote
    <2> HIDE DEF granted
    <2> QED BY <1>1, <2>1, <2>2
  <1>4. ASSUME NEW m \in Nodes, NEW t, t > currentTerm[m], StepDown(m, t) PROVE Goal
    BY <1>1, <1>4 DEF StepDown
  <1>5. ASSUME NEW m \in Nodes, NEW b \in msgs, GetVoteAnswer(m, b) \/ handleAppendEntries(m, b)
        PROVE  Goal
    <2>1. \/ UNCHANGED <<currentTerm, votedFor>>
          \/ b.term > currentTerm[m] /\ StepDown(m, b.term)
      BY <1>5 DEF GetVoteAnswer, handleAppendEntries
    <2> QED BY <1>4, <2>1
  <1>6. ASSUME NEW m \in Nodes, NEW a \in msgs, AppendEntries(m, a) PROVE Goal
    <2>1. /\ currentTerm' = [currentTerm EXCEPT ![m] = IF a.term > currentTerm[m] THEN a.term ELSE @]
          /\ votedFor' = [votedFor EXCEPT ![m] = IF a.term > currentTerm[m] THEN Nobody ELSE @]
      BY <1>6 DEF AppendEntries
    <2> QED BY <1>1, <2>1
  <1>7. ASSUME \/ \E m \in Nodes : HostAppend(m) \/ SendHeartBeats(m)
               \/ \E t \in collecting : CollectVote(t)
               \/ \E b \in msgs : RpcFails(b)
               \/ UNCHANGED vars
        PROVE  Goal
    BY <1>7 DEF HostAppend, SendHeartBeats, CollectVote, RpcFails, electionVars, vars
  <1> HIDE DEF Goal
  <1>8. Goal
    BY <1>2, <1>3, <1>5, <1>6, <1>7 DEF Next
  <1> QED BY <1>8 DEF Goal

(***************************************************************************)
(* A running node never takes back a term, a vote or a commit: above all,  *)
(* the commitIndex that a delayed request or reply leads to is no smaller  *)
(* than the one before (raft.cpp:237-260, raft_rpc.cpp:270-285).           *)
(***************************************************************************)
THEOREM NoneTakenBack == Spec => NothingTakenBack
PROOF
  <1>1. /\ ElectionInv /\ ElectionInv' /\ LogInv /\ LogInv' /\ CommitInv /\ [Next]_vars
        => [\A n \in Nodes : 
              /\ currentTerm'[n] >= currentTerm[n]
              /\ commitIndex'[n] >= commitIndex[n]
              /\ currentTerm'[n] = currentTerm[n] /\ votedFor[n] # Nobody
                   => votedFor'[n] = votedFor[n]]_vars
    <2> SUFFICES ASSUME ElectionInv, ElectionInv', LogInv, LogInv', CommitInv, [Next]_vars,
                        NEW n \in Nodes
                 PROVE  /\ currentTerm'[n] >= currentTerm[n]
                        /\ commitIndex'[n] >= commitIndex[n]
                        /\ currentTerm'[n] = currentTerm[n] /\ votedFor[n] # Nobody
                             => votedFor'[n] = votedFor[n]
      OBVIOUS
    <2>1. /\ currentTerm[n] \in Nat /\ currentTerm'[n] \in Nat /\ commitIndex[n] \in Nat
      BY LogFacts DEF ElectionInv, VoteTypes
    <2>2. \/ currentTerm'[n] > currentTerm[n]
          \/ /\ currentTerm'[n] = currentTerm[n]
             /\ votedFor[n] # Nobody => votedFor'[n] = votedFor[n]
      BY VotesKept
    <2>3. commitIndex'[n] >= commitIndex[n]
      BY <2>1, CommitGrows
    <2> QED BY <2>1, <2>2, <2>3
  <1> QED
    BY <1>1, CommitInvariant, PTL DEF Spec, NothingTakenBack
-----------------------------------------------------------------------------
(* The nodes implement one log of commits. *)

\* Some node has the largest number.
LEMMA LargestAtNode ==
  ASSUME NEW f \in [Nodes -> Nat]
  PROVE  \E n \in Nodes : \A m \in Nodes : f[m] <= f[n]
PROOF
  <1> DEFINE Top(S) == \E n \in S : \A m \in S : f[m] <= f[n]
             K == {k \in Nat : \E S \in SUBSET Nodes : S # {} /\ Cardinality(S) = k /\ ~Top(S)}
  <1>1. CASE K = {}
    <2>1. Cardinality(Nodes) \in Nat
      BY RaftAssumption, FS_CardinalityType
    <2>2. Top(Nodes)
      <3> HIDE DEF Top
      <3> QED BY <1>1, <2>1, RaftAssumption
    <2> QED BY <2>2
  <1>2. CASE K # {}
    <2>1. PICK k \in K : \A j \in K : k <= j
      <3>1. K \in SUBSET Nat
        OBVIOUS
      <3> HIDE DEF K
      <3> QED BY <1>2, <3>1, LeastNumber
    <2>2. PICK S \in SUBSET Nodes : S # {} /\ Cardinality(S) = k /\ ~Top(S)
      BY <2>1
    <2>3. PICK x : x \in S
      BY <2>2
    <2> DEFINE R == S \ {x}
    <2>4. /\ IsFiniteSet(S) /\ IsFiniteSet(R) /\ Cardinality(S) \in Nat /\ Cardinality(R) \in Nat
          /\ Cardinality(R) = Cardinality(S) - 1
      <3>1. IsFiniteSet(S)
        BY RaftAssumption, FS_Subset
      <3>2. IsFiniteSet(R) /\ Cardinality(R) = Cardinality(S) - 1
        BY <2>3, <3>1, FS_RemoveElement
      <3> QED BY <3>1, <3>2, FS_CardinalityType
    <2>5. CASE R = {}
      BY <2>2, <2>3, <2>5
    <2>6. CASE R # {}
      <3>1. Top(R)
        <4>1. SUFFICES ASSUME ~Top(R) PROVE FALSE
          OBVIOUS
        <4>2. Cardinality(R) \in K
          <5>1. R \in SUBSET Nodes
            OBVIOUS
          <5> HIDE DEF R, Top
          <5> QED BY <2>4, <2>6, <4>1, <5>1
        <4>3. k <= Cardinality(R) /\ k = Cardinality(S)
          <5> HIDE DEF K
          <5> QED BY <2>1, <2>2, <4>2
        <4> HIDE DEF R
        <4> QED BY <2>4, <4>3
      <3>2. PICK y \in R : \A m \in R : f[m] <= f[y]
        BY <3>1
      <3>3. x \in Nodes /\ y \in Nodes /\ f[x] \in Nat /\ f[y] \in Nat
        BY <2>2, <2>3
      <3>4. \A m \in S : f[m] \in Nat /\ (m = x \/ f[m] <= f[y])
        BY <2>2, <3>2
      <3>5. CASE f[x] <= f[y]
        BY <2>2, <3>2, <3>4, <3>5
      <3>6. CASE f[y] <= f[x]
        <4>1. \A m \in S : f[m] <= f[x]
          BY <3>3, <3>4, <3>6
        <4> QED BY <2>2, <2>3, <4>1
      <3> QED BY <3>3, <3>5, <3>6
    <2> QED BY <2>5, <2>6
  <1> QED BY <1>1, <1>2

\* What a log has up to a commitIndex, without the blank entry, is a prefix
\* of what a log that agrees with it has up to a larger one.
LEMMA KnownPrefix ==
  ASSUME NEW L \in Seq(LogEntry), NEW M \in Seq(LogEntry), NEW ci \in Nat, NEW cj \in Nat,
         ci <= cj, Agree(L, M, ci + 1), cj + 1 <= Len(M)
  PROVE  /\ Commits!IsPrefix(SubSeq(L, 2, ci + 1), SubSeq(M, 2, cj + 1))
         /\ ci = cj => SubSeq(L, 2, ci + 1) = SubSeq(M, 2, cj + 1)
         /\ ci < cj => Commits!IsStrictPrefix(SubSeq(L, 2, ci + 1), SubSeq(M, 2, cj + 1))
PROOF
  <1> DEFINE s == SubSeq(L, 2, ci + 1)
             t == SubSeq(M, 2, cj + 1)
  <1>1. /\ ci + 1 <= Len(L) /\ ci + 1 <= Len(M) /\ \A i \in 1..ci + 1 : L[i] = M[i]
        /\ Len(L) \in Nat /\ Len(M) \in Nat
    BY DEF Agree
  <1>2. ASSUME NEW N \in Seq(LogEntry), NEW k \in Nat, k + 1 <= Len(N)
        PROVE  /\ SubSeq(N, 2, k + 1) \in Seq(LogEntry) /\ Len(SubSeq(N, 2, k + 1)) = k
               /\ \A i \in 1..k : SubSeq(N, 2, k + 1)[i] = N[i + 1]
    <2>1. \A i \in 2..k + 1 : N[i] \in LogEntry
      BY <1>2
    <2>2. /\ SubSeq(N, 2, k + 1) \in Seq(LogEntry)
          /\ Len(SubSeq(N, 2, k + 1)) = IF 2 <= k + 1 THEN k + 1 - 2 + 1 ELSE 0
          /\ \A i \in 1 .. k + 1 - 2 + 1 : SubSeq(N, 2, k + 1)[i] = N[2 + i - 1]
      <3>1. 2 \in Int /\ k + 1 \in Int
        OBVIOUS
      <3> QED BY <2>1, <3>1, SubSeqProperties
    <2>3. ASSUME NEW i \in 1..k PROVE SubSeq(N, 2, k + 1)[i] = N[i + 1]
      <3>1. i \in 1 .. k + 1 - 2 + 1 /\ 2 + i - 1 = i + 1
        OBVIOUS
      <3> QED BY <2>2, <3>1
    <2> QED BY <2>2, <2>3
  <1>3. /\ s \in Seq(LogEntry) /\ Len(s) = ci /\ \A i \in 1..ci : s[i] = L[i + 1]
        /\ t \in Seq(LogEntry) /\ Len(t) = cj /\ \A i \in 1..cj : t[i] = M[i + 1]
    BY <1>1, <1>2
  <1> HIDE DEF s, t
  <1>4. ASSUME NEW i \in 1..ci PROVE s[i] = t[i]
    <2>1. i \in 1..cj /\ i + 1 \in 1..ci + 1
      OBVIOUS
    <2>2. s[i] = L[i + 1] /\ t[i] = M[i + 1] /\ L[i + 1] = M[i + 1]
      BY <1>1, <1>3, <2>1
    <2> QED BY <2>2
  <1>5. Agree(s, t, ci)
    BY <1>3, <1>4 DEF Agree
  <1>6. SubSeq(s, 1, ci) = SubSeq(t, 1, ci)
    BY <1>3, <1>5, AgreeSubSeq
  <1>7. Commits!IsPrefix(s, t)
    BY <1>3, <1>6 DEF Commits!IsPrefix
  <1>8. ci = cj => s = t
    BY <1>3, <1>4, SeqEqual
  <1>9. ci < cj => Commits!IsStrictPrefix(s, t)
    BY <1>3, <1>7 DEF Commits!IsStrictPrefix
  <1> QED
    BY <1>7, <1>8, <1>9 DEF s, t

\* The commits of a log, up to c, that are backed.
Committed(L, c) == L \in Seq(LogEntry) /\ c \in Nat /\ \E u \in Nat : Backed(L, c, u)

LEMMA CommittedPrefix ==
  ASSUME ElectionInv, LogInv, NEW L, NEW M, NEW ci, NEW cj,
         Committed(L, ci), Committed(M, cj), ci <= cj
  PROVE  /\ Commits!IsPrefix(SubSeq(L, 2, ci + 1), SubSeq(M, 2, cj + 1))
         /\ ci = cj => SubSeq(L, 2, ci + 1) = SubSeq(M, 2, cj + 1)
         /\ ci < cj => Commits!IsStrictPrefix(SubSeq(L, 2, ci + 1), SubSeq(M, 2, cj + 1))
PROOF
  <1>1. /\ L \in Seq(LogEntry) /\ M \in Seq(LogEntry) /\ ci \in Nat /\ cj \in Nat
    BY DEF Committed
  <1>2. PICK u \in Nat : Backed(L, ci, u)
    BY DEF Committed
  <1>3. PICK v \in Nat : Backed(M, cj, v)
    BY DEF Committed
  <1>4. Agree(L, M, ci + 1)
    BY <1>1, <1>2, <1>3, BackedAgree
  <1>5. cj + 1 <= Len(M)
    BY <1>3 DEF Backed, Agree
  <1> QED
    BY <1>1, <1>4, <1>5, KnownPrefix

LEMMA CommittedEqual ==
  ASSUME ElectionInv, LogInv, NEW L, NEW M, NEW c, Committed(L, c), Committed(M, c)
  PROVE  SubSeq(L, 2, c + 1) = SubSeq(M, 2, c + 1)
PROOF
  <1>1. c <= c
    BY DEF Committed
  <1>2. PICK d : d = c
    OBVIOUS
  <1>3. c <= d /\ Committed(M, d)
    BY <1>1, <1>2
  <1>4. /\ Commits!IsPrefix(SubSeq(L, 2, c + 1), SubSeq(M, 2, d + 1))
        /\ c = d => SubSeq(L, 2, c + 1) = SubSeq(M, 2, d + 1)
        /\ c < d => Commits!IsStrictPrefix(SubSeq(L, 2, c + 1), SubSeq(M, 2, d + 1))
    BY <1>3, CommittedPrefix
  <1> QED
    BY <1>2, <1>4

(***************************************************************************)
(* A step of the nodes is a step of the log of commits: the node that goes *)
(* on learns what others know, or chooses what none knew.                  *)
(***************************************************************************)
LEMMA CommittedLogStep ==
  ASSUME ElectionInv, ElectionInv', LogInv, LogInv', CommitInv, [Next]_vars
  PROVE  [Commits!Next]_(Commits!vars)
PROOF
  <1>1. PICK n \in Nodes :
           /\ \A m \in Nodes : m # n => log'[m] = log[m] /\ commitIndex'[m] = commitIndex[m]
           /\ commitIndex'[n] >= commitIndex[n]
           /\ \E u \in Nat : Backed(log'[n], commitIndex'[n], u)
    BY CommitGrows
  <1>2. /\ log \in [Nodes -> Seq(LogEntry)] /\ log' \in [Nodes -> Seq(LogEntry)]
        /\ commitIndex \in [Nodes -> Nat] /\ commitIndex' \in [Nodes -> Nat]
    BY DEF LogInv, ReplicationTypes
  <1>3. /\ \A m \in Nodes : Committed(log[m], commitIndex[m])
        /\ Committed(log'[n], commitIndex'[n])
    <2>1. \A m \in Nodes : currentTerm[m] \in Nat /\ Backed(log[m], commitIndex[m], currentTerm[m])
      BY LogFacts DEF CommitInv, BackedInv
    <2> QED BY <1>1, <1>2, <2>1 DEF Committed
  <1>4. PICK p : p = CHOOSE o \in Nodes : \A m \in Nodes : commitIndex[m] <= commitIndex[o]
    OBVIOUS
  <1>5. PICK q : q = CHOOSE o \in Nodes : \A m \in Nodes : commitIndex'[m] <= commitIndex'[o]
    OBVIOUS
  <1>6. p \in Nodes /\ \A m \in Nodes : commitIndex[m] <= commitIndex[p]
    BY <1>2, <1>4, LargestAtNode
  <1>7. q \in Nodes /\ \A m \in Nodes : commitIndex'[m] <= commitIndex'[q]
    BY <1>2, <1>5, LargestAtNode
  <1> DEFINE k == [m \in Nodes |-> Known(m)]
             K(m) == SubSeq(log[m], 2, commitIndex[m] + 1)
             J(m) == SubSeq(log'[m], 2, commitIndex'[m] + 1)
  <1>8. /\ k \in [Nodes -> {K(m) : m \in Nodes}] /\ \A m \in Nodes : k[m] = K(m) /\ k'[m] = J(m)
        /\ DOMAIN k' = Nodes /\ k' = [m \in Nodes |-> J(m)]
        /\ Chosen = K(p) /\ Chosen' = J(q)
    BY <1>4, <1>5 DEF Known, Chosen
  <1>9. \A m \in Nodes : m # n => J(m) = K(m)
    BY <1>1
  <1> HIDE DEF K, J, k
  <1>10. ASSUME commitIndex'[n] = commitIndex[n] PROVE J(n) = K(n)
    <2>1. PICK L, M, c : L = log'[n] /\ M = log[n] /\ c = commitIndex[n]
      OBVIOUS
    <2>2. Committed(L, c) /\ Committed(M, c) /\ c = commitIndex'[n]
      BY <1>3, <1>10, <2>1
    <2>3. SubSeq(L, 2, c + 1) = SubSeq(M, 2, c + 1)
      BY <2>2, CommittedEqual
    <2> QED BY <2>1, <2>2, <2>3 DEF J, K
  <1>11. k' = [k EXCEPT ![n] = J(n)]
    BY <1>8, <1>9
  <1>12. CASE commitIndex'[n] = commitIndex[n]
    <2>1. commitIndex' = commitIndex
      BY <1>1, <1>2, <1>12
    <2>2. p = q /\ \A m \in Nodes : J(m) = K(m)
      BY <1>4, <1>5, <1>9, <1>10, <1>12, <2>1
    <2>3. k' = k /\ Chosen' = Chosen
      BY <1>6, <1>8, <2>2
    <2> QED BY <2>3 DEF Commits!vars, k
  <1>13. CASE commitIndex'[n] # commitIndex[n] /\ commitIndex'[n] <= commitIndex[p]
    <2>1. commitIndex'[q] = commitIndex[p]
      <3>1. \A m \in Nodes : commitIndex'[m] <= commitIndex[p]
        BY <1>1, <1>6, <1>13
      <3>2. commitIndex'[p] >= commitIndex[p]
        BY <1>1, <1>2, <1>6
      <3>3. commitIndex'[q] \in Nat /\ commitIndex'[p] \in Nat /\ commitIndex[p] \in Nat
        BY <1>2, <1>6, <1>7
      <3>4. commitIndex'[p] <= commitIndex'[q] /\ commitIndex'[q] <= commitIndex[p]
        BY <1>6, <1>7, <3>1
      <3> QED BY <3>2, <3>3, <3>4
    <2>2. Chosen' = Chosen
      <3>1. Committed(log'[q], commitIndex'[q]) /\ Committed(log[p], commitIndex[p])
        BY <1>1, <1>3, <1>6, <1>7
      <3>2. PICK L, M, c : L = log'[q] /\ M = log[p] /\ c = commitIndex[p]
        OBVIOUS
      <3>3. J(q) = K(p)
        <4>1. Committed(L, c) /\ Committed(M, c) /\ c = commitIndex'[q]
          BY <2>1, <3>1, <3>2
        <4>2. SubSeq(L, 2, c + 1) = SubSeq(M, 2, c + 1)
          BY <4>1, CommittedEqual
        <4> QED BY <3>2, <4>1, <4>2 DEF J, K
      <3> QED BY <1>8, <3>3
    <2>3. Commits!IsStrictPrefix(K(n), J(n)) /\ Commits!IsPrefix(J(n), Chosen)
      <3>1. commitIndex[n] < commitIndex'[n] /\ commitIndex[n] <= commitIndex'[n]
        <4>1. commitIndex[n] \in Nat /\ commitIndex'[n] \in Nat
          BY <1>2
        <4> QED BY <1>1, <1>13, <4>1
      <3>2. Commits!IsStrictPrefix(K(n), J(n))
        BY <1>3, <3>1, CommittedPrefix DEF K, J
      <3>3. Commits!IsPrefix(J(n), K(p))
        BY <1>3, <1>6, <1>13, CommittedPrefix DEF K, J
      <3> QED BY <1>8, <3>2, <3>3
    <2>4. k[n] = K(n) /\ k'[n] = J(n)
      BY <1>8
    <2>5. Commits!Learn(n)
      BY <1>11, <2>2, <2>3, <2>4 DEF Commits!Learn, k
    <2> QED BY <2>5 DEF Commits!Next
  <1>14. CASE commitIndex'[n] # commitIndex[n] /\ ~(commitIndex'[n] <= commitIndex[p])
    <2>1. commitIndex[p] < commitIndex'[n] /\ commitIndex[p] <= commitIndex'[n]
      <3>1. commitIndex[p] \in Nat /\ commitIndex'[n] \in Nat
        BY <1>2, <1>6
      <3> QED BY <1>14, <3>1
    <2>2. q = n
      <3>1. SUFFICES ASSUME q # n PROVE FALSE
        OBVIOUS
      <3>2. commitIndex'[q] = commitIndex[q] /\ commitIndex[q] <= commitIndex[p]
            /\ commitIndex'[n] <= commitIndex'[q]
        BY <1>1, <1>6, <1>7, <3>1
      <3>3. /\ commitIndex[q] \in Nat /\ commitIndex[p] \in Nat /\ commitIndex'[n] \in Nat
        BY <1>2, <1>6, <1>7
      <3> QED BY <2>1, <3>2, <3>3
    <2>3. Commits!IsStrictPrefix(K(p), J(n))
      BY <1>3, <1>6, <2>1, CommittedPrefix DEF K, J
    <2>4. Commits!IsStrictPrefix(Chosen, Chosen') /\ Chosen' = J(n)
      BY <1>8, <2>2, <2>3
    <2>5. Commits!Choose(n)
      BY <1>11, <2>4 DEF Commits!Choose, k
    <2> QED BY <2>5 DEF Commits!Next
  <1> QED BY <1>12, <1>13, <1>14

(***************************************************************************)
(* The nodes implement one log of commits: committed once is committed for *)
(* ever and for all, whatever is delayed, reordered or lost                *)
(* (raft.cpp:237-260, raft_rpc.cpp:238-285).                               *)
(***************************************************************************)
THEOREM RaftImplementsCommittedLog == Spec => ImplementsCommittedLog
PROOF
  <1>1. Init => Commits!Init
    <2> SUFFICES ASSUME Init PROVE Commits!Init
      OBVIOUS
    <2>1. log = [n \in Nodes |-> <<BlankEntry>>] /\ commitIndex = [n \in Nodes |-> 0]
      BY DEF Init
    <2>2. \A n \in Nodes : Known(n) = <<>>
      <3>1. SubSeq(<<BlankEntry>>, 2, 1) = <<>>
        OBVIOUS
      <3>2. \A n \in Nodes : log[n] = <<BlankEntry>> /\ commitIndex[n] + 1 = 1
        BY <2>1
      <3> QED BY <3>1, <3>2 DEF Known
    <2>3. PICK p : p = CHOOSE o \in Nodes : \A m \in Nodes : commitIndex[m] <= commitIndex[o]
      OBVIOUS
    <2>4. p \in Nodes
      <3>1. commitIndex \in [Nodes -> Nat]
        BY <2>1
      <3> QED BY <2>3, <3>1, LargestAtNode
    <2>5. Chosen = <<>>
      BY <2>2, <2>3, <2>4 DEF Chosen
    <2> QED BY <2>2, <2>5 DEF Commits!Init
  <1>2. /\ ElectionInv /\ ElectionInv' /\ LogInv /\ LogInv' /\ CommitInv /\ [Next]_vars
        => [Commits!Next]_(Commits!vars)
    BY CommittedLogStep
  <1> QED
    BY <1>1, <1>2, CommitInvariant, PTL DEF Spec, ImplementsCommittedLog, Commits!Spec
=============================================================================
