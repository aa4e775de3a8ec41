------------------------------ MODULE RaftProofs ------------------------------
(***************************************************************************)
(* Election and log replication of Raft, for clusters of any size, any     *)
(* number of terms and messages delayed, reordered and lost in any way: no *)
(* term has two leaders, logs match, a leader reads inside its log, and    *)
(* matchIndex is the truth.                                                *)
(***************************************************************************)
EXTENDS Raft, FiniteSetTheorems, SequenceTheorems, TLAPS

-----------------------------------------------------------------------------
(***************************************************************************)
(* Election.  A vote is on its way from the request of the candidate,      *)
(* through the reply of the voter, to the thread that counts it.  The      *)
(* argument is that there is at most one of these for each candidate,      *)
(* voter and term, so that voteCount counts no voter twice.                *)
(***************************************************************************)

\* The ballot that a vote message is about.
Ballot(b) ==
  IF b.kind = "RequestVote"
  THEN [node |-> b.from, voter |-> b.to, term |-> b.term]
  ELSE [node |-> b.to, voter |-> b.from, term |-> b.request]

VoteMsgs == {b \in msgs : b.kind \in {"RequestVote", "RequestVoteReply"}}

\* The ballots under way.
Ballots == collecting \cup {Ballot(b) : b \in VoteMsgs}

\* The ballot of v in the current election of n, and those of its voters
\* that are not under way.
Mine(n, v) == [node |-> n, voter |-> v, term |-> currentTerm[n]]
Counted(n) == {v \in voters[n] : Mine(n, v) \notin Ballots}

Led(n, t) == \E l \in leaders : l.node = n /\ l.term = t

Header(b) ==
  /\ b.kind \in {"RequestVote", "RequestVoteReply", "AppendEntries", "AppendEntriesReply"}
  /\ b.from \in Nodes /\ b.to \in Nodes /\ b.from # b.to
  /\ b.term \in Nat
  /\ b.kind \in {"RequestVoteReply", "AppendEntriesReply"} => b.request \in Nat

VoteTypes ==
  /\ currentTerm \in [Nodes -> Nat]
  /\ votedFor \in [Nodes -> Nodes \cup {Nobody}]
  /\ role \in [Nodes -> {"FOLLOWER", "CANDIDATE", "LEADER"}]
  /\ voteCount \in [Nodes -> Nat]
  /\ collecting \subseteq [node : Nodes, voter : Nodes, term : Nat]
  /\ voters \in [Nodes -> SUBSET Nodes]
  /\ leaders \subseteq [node : Nodes, term : Nat, voters : SUBSET Nodes]
  /\ \A b \in msgs : Header(b)

\* There is one message or thread at most for each ballot, of an election
\* that has been held.
BallotInv ==
  /\ \A a, b \in VoteMsgs : Ballot(a) = Ballot(b) => a = b
  /\ \A b \in VoteMsgs : Ballot(b) \notin collecting
  /\ \A t \in Ballots : t.term <= currentTerm[t.node]

\* Who voted for n in term t votes for no one else in that term.
Bound(v, n, t) ==
  /\ currentTerm[v] >= t
  /\ currentTerm[v] = t => votedFor[v] = n

CandidateInv ==
  \A n \in Nodes : role[n] = "CANDIDATE" =>
    /\ ~Led(n, currentTerm[n])
    /\ \A v \in voters[n] : Bound(v, n, currentTerm[n])
    /\ voteCount[n] <= Cardinality(Counted(n))
    /\ \A b \in msgs :
         b.kind = "RequestVoteReply" /\ b.votegranted /\ b.to = n /\ b.request = currentTerm[n]
           => b.from \in voters[n]
    /\ \A v \in Nodes : Mine(n, v) \in collecting => v \in voters[n]

\* The voters of different candidates and leaders of one term differ.
RivalsInv ==
  \A n \in Nodes : role[n] = "CANDIDATE" =>
    /\ \A m \in Nodes : role[m] = "CANDIDATE" /\ currentTerm[m] = currentTerm[n] /\ m # n
                          => voters[m] \cap voters[n] = {}
    /\ \A l \in leaders : l.term = currentTerm[n] /\ l.node # n
                            => l.voters \cap voters[n] = {}

LeaderInv ==
  /\ \A n \in Nodes : role[n] = "LEADER" => Led(n, currentTerm[n])
  /\ \A l \in leaders :
       /\ l.term <= currentTerm[l.node]
       /\ IsMajority(Cardinality(l.voters))
       /\ \A v \in l.voters : Bound(v, l.node, l.term)

ElectionInv ==
  /\ VoteTypes /\ BallotInv /\ CandidateInv /\ RivalsInv /\ LeaderInv
  /\ OneLeaderPerTerm
-----------------------------------------------------------------------------
\* Two majorities have a node in common.
LEMMA MajoritiesMeet ==
  ASSUME NEW P \in SUBSET Nodes, NEW Q \in SUBSET Nodes,
         IsMajority(Cardinality(P)), IsMajority(Cardinality(Q))
  PROVE  P \cap Q # {}
PROOF
  <1>1. /\ IsFiniteSet(Nodes)
        /\ Cardinality(Nodes) \in Nat /\ Cardinality(P) \in Nat /\ Cardinality(Q) \in Nat
    BY RaftAssumption, FS_Subset, FS_CardinalityType
  <1>2. Cardinality(P) + Cardinality(Q) > Cardinality(Nodes)
    BY <1>1 DEF IsMajority
  <1> QED
    BY <1>1, <1>2, FS_MajoritiesIntersect

\* Sets of nodes are finite, and a larger one has no smaller number.
LEMMA NodeCount ==
  ASSUME NEW P \in SUBSET Nodes, NEW Q \in SUBSET Nodes, P \subseteq Q
  PROVE  /\ IsFiniteSet(P) /\ IsFiniteSet(Q)
         /\ Cardinality(P) \in Nat /\ Cardinality(Q) \in Nat
         /\ Cardinality(P) <= Cardinality(Q)
PROOF
  <1>1. IsFiniteSet(P) /\ IsFiniteSet(Q)
    BY RaftAssumption, FS_Subset
  <1> QED
    BY <1>1, FS_CardinalityType, FS_Subset

(***************************************************************************)
(* The steps that neither vote nor count: no ballot comes under way, one   *)
(* goes from a message to a thread at most, and a node that moves to a     *)
(* later term is a follower there.                                         *)
(***************************************************************************)
Quiet ==
  /\ VoteMsgs' \subseteq VoteMsgs /\ Ballots' \subseteq Ballots
  /\ \A b \in VoteMsgs' : Ballot(b) \notin collecting'
  /\ \A t \in collecting' : t \in collecting \/ t.voter \in voters[t.node]
  /\ voters' = voters /\ leaders' = leaders /\ voteCount' = voteCount
  /\ \A n \in Nodes :
       \/ /\ currentTerm'[n] = currentTerm[n] /\ votedFor'[n] = votedFor[n]
          /\ role'[n] = role[n]
       \/ currentTerm'[n] > currentTerm[n] /\ role'[n] = "FOLLOWER"

\* Terms grow, and a vote stays in its term: the bound on a voter is kept.
LEMMA BoundKept ==
  ASSUME VoteTypes, VoteTypes', NEW v \in Nodes, NEW n \in Nodes, NEW t \in Nat,
         Bound(v, n, t),
         \/ currentTerm'[v] = currentTerm[v] /\ votedFor'[v] = votedFor[v]
         \/ currentTerm'[v] > currentTerm[v]
         \/ currentTerm'[v] = currentTerm[v] /\ votedFor[v] = Nobody
  PROVE  Bound(v, n, t)'
PROOF
  <1>1. currentTerm[v] \in Nat /\ currentTerm'[v] \in Nat
    BY DEF VoteTypes
  <1> QED
    BY <1>1, RaftAssumption DEF Bound

LEMMA QuietStep ==
  ASSUME ElectionInv, VoteTypes', Quiet
  PROVE  ElectionInv'
PROOF
  <1> USE DEF ElectionInv
  <1>1. VoteTypes
    OBVIOUS
  <1>2. /\ currentTerm \in [Nodes -> Nat] /\ currentTerm' \in [Nodes -> Nat]
        /\ voters \in [Nodes -> SUBSET Nodes]
        /\ leaders \subseteq [node : Nodes, term : Nat, voters : SUBSET Nodes]
        /\ voteCount \in [Nodes -> Nat]
        /\ collecting \subseteq [node : Nodes, voter : Nodes, term : Nat]
    BY DEF VoteTypes
  <1>3. Ballots' \subseteq Ballots
    BY DEF Quiet
  <1>4. \A n \in Nodes : currentTerm'[n] >= currentTerm[n]
    BY <1>2 DEF Quiet
  <1>5. ASSUME NEW v \in Nodes, NEW n \in Nodes, NEW t \in Nat, Bound(v, n, t)
        PROVE  Bound(v, n, t)'
    BY <1>1, <1>5, BoundKept DEF Quiet
  <1>6. \A t \in Ballots : t.node \in Nodes /\ t.term \in Nat
    <2>1. \A b \in VoteMsgs : Header(b)
      BY DEF VoteTypes, VoteMsgs
    <2> QED
      BY <1>2, <2>1 DEF Ballots, Ballot, VoteMsgs, Header
  <1>7. BallotInv'
    <2>1. \A a, b \in VoteMsgs' : Ballot(a) = Ballot(b) => a = b
      BY DEF BallotInv, Quiet
    <2>2. \A b \in VoteMsgs' : Ballot(b) \notin collecting'
      BY DEF BallotInv, Quiet
    <2>3. \A t \in Ballots' : t.term <= currentTerm'[t.node]
      <3>1. ASSUME NEW t \in Ballots PROVE t.term <= currentTerm'[t.node]
        <4>1. /\ t.term <= currentTerm[t.node] /\ t.node \in Nodes /\ t.term \in Nat
              /\ currentTerm[t.node] \in Nat /\ currentTerm'[t.node] \in Nat
          BY <1>2, <1>6 DEF BallotInv
        <4> QED
          BY <1>4, <4>1
      <3> QED
        BY <1>3, <3>1
    <2> QED
      BY <2>1, <2>2, <2>3 DEF BallotInv, Ballot
  <1>8. ASSUME NEW n \in Nodes, role'[n] = "CANDIDATE"
        PROVE  role[n] = "CANDIDATE" /\ currentTerm'[n] = currentTerm[n]
    BY <1>8 DEF Quiet
  <1>9. CandidateInv'
    <2> SUFFICES ASSUME NEW n \in Nodes, role'[n] = "CANDIDATE"
                 PROVE  /\ ~Led(n, currentTerm[n])'
                        /\ \A v \in voters'[n] : Bound(v, n, currentTerm[n])'
                        /\ voteCount'[n] <= Cardinality(Counted(n)')
                        /\ \A b \in msgs' :
                             b.kind = "RequestVoteReply" /\ b.votegranted /\ b.to = n
                                /\ b.request = currentTerm'[n] => b.from \in voters'[n]
                        /\ \A v \in Nodes : Mine(n, v)' \in collecting' => v \in voters'[n]
      BY DEF CandidateInv
    <2>1. role[n] = "CANDIDATE" /\ currentTerm'[n] = currentTerm[n]
      BY <1>8
    <2>2. ~Led(n, currentTerm[n])'
      BY <2>1 DEF Led, CandidateInv, Quiet
    <2>3. \A v \in voters'[n] : Bound(v, n, currentTerm[n])'
      <3>1. ASSUME NEW v \in voters'[n] PROVE Bound(v, n, currentTerm[n])'
        <4>1. v \in Nodes /\ Bound(v, n, currentTerm[n]) /\ currentTerm[n] \in Nat
          BY <1>2, <2>1 DEF CandidateInv, Quiet
        <4> QED
          BY <1>5, <2>1, <4>1 DEF Bound
      <3> QED BY <3>1
    <2>4. voteCount'[n] <= Cardinality(Counted(n)')
      <3>1. Counted(n) \subseteq Counted(n)' /\ Counted(n) \subseteq Nodes /\ Counted(n)' \subseteq Nodes
        BY <1>2, <1>3, <2>1 DEF Counted, Mine, Quiet
      <3>2. /\ Cardinality(Counted(n)) \in Nat /\ Cardinality(Counted(n)') \in Nat
            /\ Cardinality(Counted(n)) <= Cardinality(Counted(n)')
        BY <3>1, NodeCount
      <3>3. voteCount'[n] \in Nat /\ voteCount'[n] <= Cardinality(Counted(n))
        BY <1>2, <2>1 DEF CandidateInv, Quiet
      <3> QED
        BY <3>2, <3>3
    <2>5. ASSUME NEW b \in msgs', b.kind = "RequestVoteReply", b.votegranted, b.to = n,
                 b.request = currentTerm'[n]
          PROVE  b.from \in voters'[n]
      <3>1. b \in msgs
        BY <2>5 DEF Quiet, VoteMsgs
      <3> QED
        BY <2>1, <2>5, <3>1 DEF CandidateInv, Quiet
    <2>6. \A v \in Nodes : Mine(n, v)' \in collecting' => v \in voters'[n]
      BY <2>1 DEF CandidateInv, Quiet, Mine
    <2> QED
      BY <2>2, <2>3, <2>4, <2>5, <2>6
  <1>10. RivalsInv'
    BY <1>8 DEF RivalsInv, Quiet
  <1>11. LeaderInv'
    <2>1. ASSUME NEW n \in Nodes, role'[n] = "LEADER" PROVE Led(n, currentTerm[n])'
      BY <2>1 DEF LeaderInv, Led, Quiet
    <2>2. ASSUME NEW l \in leaders
          PROVE  /\ l.term <= currentTerm'[l.node]
                 /\ \A v \in l.voters : Bound(v, l.node, l.term)'
      <3>1. l.node \in Nodes /\ l.term \in Nat /\ l.voters \in SUBSET Nodes
        BY <1>2
      <3>2. l.term <= currentTerm'[l.node]
        <4>1. /\ currentTerm[l.node] \in Nat /\ currentTerm'[l.node] \in Nat
              /\ l.term <= currentTerm[l.node]
          BY <1>2, <3>1 DEF LeaderInv
        <4> QED BY <1>4, <3>1, <4>1
      <3> QED
        BY <1>5, <3>1, <3>2 DEF LeaderInv
    <2>3. leaders' = leaders
      BY DEF Quiet
    <2> QED
      BY <2>1, <2>2, <2>3 DEF LeaderInv, Bound
  <1>12. OneLeaderPerTerm'
    BY DEF OneLeaderPerTerm, Quiet
  <1> QED
    BY <1>7, <1>9, <1>10, <1>11, <1>12
-----------------------------------------------------------------------------
\* Elect: a new election of n, in a term in which n has no ballots yet.
LEMMA ElectStep ==
  ASSUME ElectionInv, NEW n \in Nodes, Elect(n)
  PROVE  ElectionInv'
PROOF
  <1> DEFINE t == currentTerm[n] + 1
             request(m) == [ kind |-> "RequestVote", from |-> n, to |-> m,
                             term |-> currentTerm'[n], lastlogindex |-> LastIndex(n),
                             lastlogterm |-> LastTerm(n) ]
  <1>0. VoteTypes /\ BallotInv /\ CandidateInv /\ RivalsInv /\ LeaderInv /\ OneLeaderPerTerm
    BY DEF ElectionInv
  <1>1. /\ currentTerm \in [Nodes -> Nat]
        /\ votedFor \in [Nodes -> Nodes \cup {Nobody}]
        /\ role \in [Nodes -> {"FOLLOWER", "CANDIDATE", "LEADER"}]
        /\ voteCount \in [Nodes -> Nat]
        /\ collecting \subseteq [node : Nodes, voter : Nodes, term : Nat]
        /\ voters \in [Nodes -> SUBSET Nodes]
        /\ leaders \subseteq [node : Nodes, term : Nat, voters : SUBSET Nodes]
        /\ \A b \in msgs : Header(b)
    BY <1>0 DEF VoteTypes
  <1>2. /\ currentTerm' = [currentTerm EXCEPT ![n] = t]
        /\ role' = [role EXCEPT ![n] = "CANDIDATE"]
        /\ votedFor' = [votedFor EXCEPT ![n] = n]
        /\ voteCount' = [voteCount EXCEPT ![n] = 1]
        /\ voters' = [voters EXCEPT ![n] = {n}]
        /\ UNCHANGED <<collecting, leaders>>
    BY DEF Elect
  <1>3. t \in Nat /\ currentTerm'[n] = t /\ t > currentTerm[n]
    BY <1>1, <1>2
  <1> HIDE DEF t
  <1>4. /\ msgs \subseteq msgs'
        /\ \A b \in msgs' : b \in msgs \/ \E m \in Peers(n) : b = request(m)
    BY DEF Elect, Send
  <1>5. \A m \in Peers(n) : Header(request(m)) /\ request(m).kind = "RequestVote"
                            /\ Ballot(request(m)) = [node |-> n, voter |-> m, term |-> t]
    BY <1>3 DEF Header, Ballot, Peers
  <1>6. \A b \in VoteMsgs' : b \in VoteMsgs \/ \E m \in Peers(n) : b = request(m)
    BY <1>4 DEF VoteMsgs
  <1> HIDE DEF request
  <1>7. VoteTypes'
    BY <1>1, <1>2, <1>3, <1>4, <1>5 DEF VoteTypes
  <1>8. \A b \in Ballots : b.node \in Nodes /\ b.term \in Nat /\ b.term <= currentTerm[b.node]
    BY <1>0, <1>1 DEF BallotInv, Ballots, Ballot, VoteMsgs, Header
  <1>9. \A b \in Ballots : b.node = n => b.term # t
    BY <1>1, <1>3, <1>8
  <1>10. \A b \in VoteMsgs : Ballot(b) \in Ballots
    BY DEF Ballots
  <1>11. BallotInv'
    <2>1. ASSUME NEW a \in VoteMsgs', NEW b \in VoteMsgs', Ballot(a) = Ballot(b)
          PROVE  a = b
      <3>1. CASE a \in VoteMsgs /\ b \in VoteMsgs
        BY <1>0, <2>1, <3>1 DEF BallotInv
      <3>2. ASSUME NEW m \in Peers(n), a = request(m) PROVE a = b
        <4>1. b \notin VoteMsgs
          BY <1>5, <1>9, <1>10, <2>1, <3>2
        <4>2. PICK k \in Peers(n) : b = request(k)
          BY <1>6, <4>1
        <4>3. m = k
          BY <1>5, <2>1, <3>2, <4>2
        <4> QED BY <3>2, <4>2, <4>3
      <3>3. ASSUME NEW m \in Peers(n), b = request(m) PROVE a = b
        <4>1. a \notin VoteMsgs
          BY <1>5, <1>9, <1>10, <2>1, <3>3
        <4> QED BY <1>6, <3>2, <4>1
      <3> QED
        BY <1>6, <3>1, <3>2, <3>3
    <2>2. \A b \in VoteMsgs' : Ballot(b) \notin collecting'
      BY <1>0, <1>2, <1>5, <1>6, <1>9 DEF BallotInv, Ballots
    <2>3. ASSUME NEW b \in Ballots' PROVE b.term <= currentTerm'[b.node]
      <3>1. CASE b \in Ballots
        BY <1>1, <1>2, <1>3, <1>8, <3>1
      <3>2. CASE \E m \in Peers(n) : b = Ballot(request(m))
        BY <1>3, <1>5, <3>2
      <3> QED
        BY <1>2, <1>6, <3>1, <3>2 DEF Ballots, Ballot
    <2> QED
      BY <2>1, <2>2, <2>3 DEF BallotInv, Ballot
  <1>12. ASSUME NEW v \in Nodes, NEW m \in Nodes, NEW u \in Nat, Bound(v, m, u)
         PROVE  Bound(v, m, u)'
    BY <1>0, <1>1, <1>2, <1>3, <1>7, <1>12, BoundKept
  <1>13. \A m \in Nodes \ {n} : /\ role'[m] = role[m] /\ currentTerm'[m] = currentTerm[m]
                                /\ voteCount'[m] = voteCount[m] /\ voters'[m] = voters[m]
    BY <1>1, <1>2
  <1>14. /\ role'[n] = "CANDIDATE" /\ voters'[n] = {n} /\ voteCount'[n] = 1 /\ votedFor'[n] = n
    BY <1>1, <1>2
  <1>15. \A l \in leaders : l.node \in Nodes /\ l.term \in Nat /\ l.voters \in SUBSET Nodes
    BY <1>1
  <1>16. ~Led(n, t)
    BY <1>0, <1>1, <1>3, <1>15 DEF Led, LeaderInv
  <1>17. CandidateInv'
    <2>1. ASSUME NEW m \in Nodes, role'[m] = "CANDIDATE", m # n
          PROVE  /\ ~Led(m, currentTerm[m])'
                 /\ \A v \in voters'[m] : Bound(v, m, currentTerm[m])'
                 /\ voteCount'[m] <= Cardinality(Counted(m)')
                 /\ \A b \in msgs' :
                      b.kind = "RequestVoteReply" /\ b.votegranted /\ b.to = m
                         /\ b.request = currentTerm'[m] => b.from \in voters'[m]
                 /\ \A v \in Nodes : Mine(m, v)' \in collecting' => v \in voters'[m]
      <3>1. /\ role[m] = "CANDIDATE" /\ currentTerm'[m] = currentTerm[m]
            /\ voteCount'[m] = voteCount[m] /\ voters'[m] = voters[m]
        BY <1>13, <2>1
      <3>2. ~Led(m, currentTerm[m])'
        BY <1>0, <1>2, <3>1 DEF CandidateInv, Led
      <3>3. \A v \in voters'[m] : Bound(v, m, currentTerm[m])'
        <4>1. ASSUME NEW v \in voters'[m] PROVE Bound(v, m, currentTerm[m])'
          <5>1. v \in Nodes /\ currentTerm[m] \in Nat /\ Bound(v, m, currentTerm[m])
            BY <1>0, <1>1, <3>1 DEF CandidateInv
          <5> QED
            BY <1>12, <3>1, <5>1 DEF Bound
        <4> QED BY <4>1
      <3>4. Counted(m)' = Counted(m)
        <4>1. \A v \in Nodes : Mine(m, v)' \in Ballots' <=> Mine(m, v) \in Ballots
          <5>1. ASSUME NEW v \in Nodes PROVE Mine(m, v)' = Mine(m, v)
            BY <3>1 DEF Mine
          <5>2. ASSUME NEW v \in Nodes, Mine(m, v) \in Ballots' PROVE Mine(m, v) \in Ballots
            <6>1. Mine(m, v).node # n
              BY <2>1 DEF Mine
            <6>2. \A k \in Peers(n) : Ballot(request(k)) # Mine(m, v)
              BY <1>5, <6>1
            <6> QED
              BY <1>2, <1>6, <5>2, <6>2 DEF Ballots, Ballot
          <5>3. Ballots \subseteq Ballots'
            BY <1>2, <1>4 DEF Ballots, Ballot, VoteMsgs
          <5> QED BY <5>1, <5>2, <5>3
        <4> QED
          BY <1>1, <3>1, <4>1 DEF Counted
      <3>5. voteCount'[m] <= Cardinality(Counted(m)')
        BY <1>0, <3>1, <3>4 DEF CandidateInv
      <3>6. ASSUME NEW b \in msgs', b.kind = "RequestVoteReply" PROVE b \in msgs
        BY <1>4, <1>5, <3>6
      <3> QED
        BY <1>0, <1>2, <3>1, <3>2, <3>3, <3>5, <3>6 DEF CandidateInv, Mine
    <2>2. /\ ~Led(n, currentTerm[n])'
          /\ \A v \in voters'[n] : Bound(v, n, currentTerm[n])'
          /\ voteCount'[n] <= Cardinality(Counted(n)')
          /\ \A b \in msgs' :
               b.kind = "RequestVoteReply" /\ b.votegranted /\ b.to = n
                  /\ b.request = currentTerm'[n] => b.from \in voters'[n]
          /\ \A v \in Nodes : Mine(n, v)' \in collecting' => v \in voters'[n]
      <3>1. ~Led(n, currentTerm[n])'
        BY <1>2, <1>3, <1>16 DEF Led
      <3>2. \A v \in voters'[n] : Bound(v, n, currentTerm[n])'
        BY <1>3, <1>14 DEF Bound
      <3>3. Counted(n)' = {n}
        <4>1. Mine(n, n)' \notin Ballots'
          <5>1. Mine(n, n)' = [node |-> n, voter |-> n, term |-> t]
            BY <1>3 DEF Mine
          <5>2. Mine(n, n)' \notin Ballots
            BY <1>9, <5>1
          <5>3. \A m \in Peers(n) : Ballot(request(m)) # Mine(n, n)'
            BY <1>5, <5>1 DEF Peers
          <5> QED
            BY <1>2, <1>6, <5>2, <5>3 DEF Ballots, Ballot
        <4> QED
          BY <1>14, <4>1 DEF Counted
      <3>4. voteCount'[n] <= Cardinality(Counted(n)')
        BY <1>14, <3>3, FS_Singleton
      <3>5. ASSUME NEW b \in msgs', b.kind = "RequestVoteReply", b.to = n,
                   b.request = currentTerm'[n]
            PROVE  FALSE
        <4>1. b \in VoteMsgs
          BY <1>4, <1>5, <3>5 DEF VoteMsgs
        <4>2. Ballot(b).node = n /\ Ballot(b).term = t
          BY <1>3, <3>5 DEF Ballot
        <4> QED
          BY <1>9, <1>10, <4>1, <4>2
      <3>6. \A v \in Nodes : Mine(n, v)' \notin collecting'
        BY <1>2, <1>3, <1>9 DEF Mine, Ballots
      <3> QED
        BY <3>1, <3>2, <3>4, <3>5, <3>6
    <2> QED
      BY <2>1, <2>2 DEF CandidateInv
  <1>18. \A m \in Nodes \ {n} : role[m] = "CANDIDATE" /\ currentTerm[m] = t => n \notin voters[m]
    BY <1>0, <1>1, <1>3 DEF CandidateInv, Bound
  <1>19. \A l \in leaders : l.term = t => n \notin l.voters
    BY <1>0, <1>1, <1>3, <1>15 DEF LeaderInv, Bound
  <1>20. RivalsInv'
    BY <1>0, <1>2, <1>3, <1>13, <1>14, <1>18, <1>19 DEF RivalsInv
  <1>21. LeaderInv'
    <2>1. ASSUME NEW m \in Nodes, role'[m] = "LEADER" PROVE Led(m, currentTerm[m])'
      BY <1>0, <1>2, <1>13, <1>14, <2>1 DEF LeaderInv, Led
    <2>2. ASSUME NEW l \in leaders
          PROVE  /\ l.term <= currentTerm'[l.node]
                 /\ \A v \in l.voters : Bound(v, l.node, l.term)'
      <3>1. l.term <= currentTerm'[l.node]
        BY <1>0, <1>1, <1>2, <1>3, <1>15 DEF LeaderInv
      <3> QED
        BY <1>0, <1>12, <1>15, <3>1 DEF LeaderInv
    <2> QED
      BY <1>0, <1>2, <2>1, <2>2 DEF LeaderInv, Bound
  <1>22. OneLeaderPerTerm'
    BY <1>0, <1>2 DEF OneLeaderPerTerm
  <1> QED
    BY <1>7, <1>11, <1>17, <1>20, <1>21, <1>22 DEF ElectionInv

\* RequestVote: the request of a ballot becomes its reply, and a voter that
\* is bound to another candidate of the term does not vote.
LEMMA RequestVoteStep ==
  ASSUME ElectionInv, NEW n \in Nodes, NEW a \in msgs, RequestVote(n, a)
  PROVE  ElectionInv'
PROOF
  <1> DEFINE c == a.from
             newer == a.term > currentTerm[n]
             granted == GrantsVote(n, a)
             r == [ kind |-> "RequestVoteReply", from |-> n, to |-> a.from,
                    request |-> a.term, term |-> currentTerm'[n],
                    votegranted |-> granted ]
  <1>0. VoteTypes /\ BallotInv /\ CandidateInv /\ RivalsInv /\ LeaderInv /\ OneLeaderPerTerm
    BY DEF ElectionInv
  <1>1. /\ currentTerm \in [Nodes -> Nat]
        /\ votedFor \in [Nodes -> Nodes \cup {Nobody}]
        /\ role \in [Nodes -> {"FOLLOWER", "CANDIDATE", "LEADER"}]
        /\ voteCount \in [Nodes -> Nat]
        /\ collecting \subseteq [node : Nodes, voter : Nodes, term : Nat]
        /\ voters \in [Nodes -> SUBSET Nodes]
        /\ leaders \subseteq [node : Nodes, term : Nat, voters : SUBSET Nodes]
        /\ \A b \in msgs : Header(b)
    BY <1>0 DEF VoteTypes
  <1>2. /\ currentTerm' = [currentTerm EXCEPT ![n] = IF newer THEN a.term ELSE @]
        /\ votedFor' = [votedFor EXCEPT ![n] = IF granted THEN c
                                               ELSE IF newer THEN Nobody ELSE @]
        /\ role' = [role EXCEPT ![n] = IF newer \/ granted THEN "FOLLOWER" ELSE @]
        /\ msgs' = (msgs \ {a}) \cup {r}
        /\ voters' = IF granted /\ a.term = currentTerm[c]
                     THEN [voters EXCEPT ![c] = @ \cup {n}] ELSE voters
        /\ UNCHANGED <<voteCount, collecting, leaders>>
    BY DEF RequestVote
  <1>3. a.kind = "RequestVote" /\ a.to = n /\ c \in Nodes /\ c # n /\ a.term \in Nat
    BY <1>1 DEF RequestVote, Header
  <1>4. granted => /\ a.term >= currentTerm[n]
                   /\ a.term > currentTerm[n] \/ votedFor[n] \in {Nobody, c}
    BY DEF GrantsVote
  <1>5. currentTerm[n] \in Nat /\ currentTerm'[n] = IF newer THEN a.term ELSE currentTerm[n]
    BY <1>1, <1>2
  <1>6. \A m \in Nodes \ {n} : /\ currentTerm'[m] = currentTerm[m] /\ role'[m] = role[m]
                               /\ votedFor'[m] = votedFor[m]
    BY <1>1, <1>2
  <1>7. /\ votedFor'[n] = IF granted THEN c ELSE IF newer THEN Nobody ELSE votedFor[n]
        /\ role'[n] = IF newer \/ granted THEN "FOLLOWER" ELSE role[n]
    BY <1>1, <1>2
  <1>8. /\ r.kind = "RequestVoteReply" /\ r.from = n /\ r.to = c /\ r.request = a.term
        /\ r.term = currentTerm'[n] /\ r.votegranted = granted
    OBVIOUS
  <1> HIDE DEF r, c, granted, newer
  <1>9. currentTerm'[n] \in Nat
    BY <1>3, <1>5
  <1>10. Header(r)
    BY <1>3, <1>8, <1>9 DEF Header
  <1>11. VoteTypes'
    <2>1. currentTerm' \in [Nodes -> Nat]
      BY <1>1, <1>2, <1>3
    <2>2. votedFor' \in [Nodes -> Nodes \cup {Nobody}]
      BY <1>1, <1>2, <1>3
    <2>3. role' \in [Nodes -> {"FOLLOWER", "CANDIDATE", "LEADER"}]
      BY <1>1, <1>2
    <2>4. voters' \in [Nodes -> SUBSET Nodes]
      BY <1>1, <1>2, <1>3
    <2> QED
      BY <1>1, <1>2, <1>10, <2>1, <2>2, <2>3, <2>4 DEF VoteTypes
  <1>12. Ballot(r) = Ballot(a) /\ Ballot(a) = [node |-> c, voter |-> n, term |-> a.term]
    BY <1>3, <1>8 DEF Ballot, c
  <1>13. a \in VoteMsgs /\ VoteMsgs' = (VoteMsgs \ {a}) \cup {r}
    BY <1>2, <1>3, <1>8 DEF VoteMsgs
  <1>14. Ballots' = Ballots
    <2>1. {Ballot(b) : b \in VoteMsgs'} = {Ballot(b) : b \in VoteMsgs}
      BY <1>12, <1>13
    <2> QED
      BY <1>2, <2>1 DEF Ballots, Ballot
  <1>15. \A b \in Ballots : b.node \in Nodes /\ b.term \in Nat /\ b.term <= currentTerm[b.node]
    BY <1>0, <1>1 DEF BallotInv, Ballots, Ballot, VoteMsgs, Header
  <1>16. \A m \in Nodes : currentTerm'[m] >= currentTerm[m]
    BY <1>1, <1>3, <1>5, <1>6 DEF newer
  <1>17. BallotInv'
    <2>1. \A b1, b2 \in VoteMsgs' : Ballot(b1) = Ballot(b2) => b1 = b2
      BY <1>0, <1>12, <1>13 DEF BallotInv
    <2>2. \A b \in VoteMsgs' : Ballot(b) \notin collecting'
      BY <1>0, <1>2, <1>12, <1>13 DEF BallotInv
    <2>3. ASSUME NEW b \in Ballots PROVE b.term <= currentTerm'[b.node]
      <3>1. currentTerm[b.node] \in Nat /\ currentTerm'[b.node] \in Nat
        BY <1>1, <1>11, <1>15 DEF VoteTypes
      <3> QED
        BY <1>15, <1>16, <3>1
    <2> QED
      BY <1>14, <2>1, <2>2, <2>3 DEF BallotInv, Ballot
  <1>18. ASSUME NEW v \in Nodes, NEW m \in Nodes, NEW u \in Nat, Bound(v, m, u)
         PROVE  Bound(v, m, u)'
    <2>1. CASE v # n
      BY <1>0, <1>6, <1>11, <1>18, <2>1, BoundKept
    <2>2. CASE v = n /\ newer
      BY <1>0, <1>3, <1>5, <1>11, <1>18, <2>2, BoundKept DEF newer
    <2>3. CASE v = n /\ ~newer
      <3>1. currentTerm'[n] = currentTerm[n]
        BY <1>5, <2>3
      <3>2. votedFor'[n] = votedFor[n] \/ votedFor[n] = Nobody
        BY <1>4, <1>7, <2>3 DEF newer
      <3> QED
        BY <1>0, <1>11, <1>18, <2>3, <3>1, <3>2, BoundKept
    <2> QED
      BY <2>1, <2>2, <2>3
  <1>19. ASSUME NEW m \in Nodes, role'[m] = "CANDIDATE"
         PROVE  role[m] = "CANDIDATE" /\ currentTerm'[m] = currentTerm[m]
    BY <1>5, <1>6, <1>7, <1>19
  <1>20. \A m \in Nodes :
           /\ voters[m] \subseteq voters'[m] /\ voters'[m] \subseteq voters[m] \cup {n}
           /\ n \in voters'[m] => \/ n \in voters[m]
                                  \/ m = c /\ granted /\ a.term = currentTerm[c]
    BY <1>1, <1>2, <1>3
  <1>21. granted => currentTerm'[n] = a.term /\ votedFor'[n] = c
    BY <1>3, <1>4, <1>5, <1>7 DEF newer
  <1>22. granted /\ a.term = currentTerm[c] => n \in voters'[c]
    BY <1>1, <1>2, <1>3
  <1>23. CandidateInv'
    <2> SUFFICES ASSUME NEW m \in Nodes, role'[m] = "CANDIDATE"
                 PROVE  /\ ~Led(m, currentTerm[m])'
                        /\ \A v \in voters'[m] : Bound(v, m, currentTerm[m])'
                        /\ voteCount'[m] <= Cardinality(Counted(m)')
                        /\ \A b \in msgs' :
                             b.kind = "RequestVoteReply" /\ b.votegranted /\ b.to = m
                                /\ b.request = currentTerm'[m] => b.from \in voters'[m]
                        /\ \A v \in Nodes : Mine(m, v)' \in collecting' => v \in voters'[m]
      BY DEF CandidateInv
    <2>1. role[m] = "CANDIDATE" /\ currentTerm'[m] = currentTerm[m] /\ currentTerm[m] \in Nat
      BY <1>1, <1>19
    <2>2. ~Led(m, currentTerm[m])'
      BY <1>0, <1>2, <2>1 DEF Led, CandidateInv
    <2>3. ASSUME NEW v \in voters'[m] PROVE Bound(v, m, currentTerm[m])'
      <3>1. CASE v \in voters[m]
        <4>1. v \in Nodes /\ Bound(v, m, currentTerm[m])
          BY <1>0, <1>1, <2>1, <3>1 DEF CandidateInv
        <4> QED
          BY <1>18, <2>1, <4>1 DEF Bound
      <3>2. CASE v \notin voters[m]
        <4>1. v = n /\ m = c /\ granted /\ a.term = currentTerm[c]
          BY <1>20, <2>3, <3>2
        <4> QED
          BY <1>9, <1>21, <2>1, <4>1 DEF Bound
      <3> QED BY <3>1, <3>2
    <2>4. voteCount'[m] <= Cardinality(Counted(m)')
      <3>1. Counted(m) \subseteq Counted(m)' /\ Counted(m) \subseteq Nodes /\ Counted(m)' \subseteq Nodes
        BY <1>1, <1>11, <1>14, <1>20, <2>1 DEF Counted, Mine, VoteTypes
      <3>2. /\ Cardinality(Counted(m)) \in Nat /\ Cardinality(Counted(m)') \in Nat
            /\ Cardinality(Counted(m)) <= Cardinality(Counted(m)')
        BY <3>1, NodeCount
      <3>3. voteCount'[m] \in Nat /\ voteCount'[m] <= Cardinality(Counted(m))
        BY <1>0, <1>1, <1>2, <2>1 DEF CandidateInv
      <3> QED
        BY <3>2, <3>3
    <2>5. ASSUME NEW b \in msgs', b.kind = "RequestVoteReply", b.votegranted, b.to = m,
                 b.request = currentTerm'[m]
          PROVE  b.from \in voters'[m]
      <3>1. CASE b \in msgs
        BY <1>0, <1>20, <2>1, <2>5, <3>1 DEF CandidateInv
      <3>2. CASE b = r
        BY <1>8, <1>22, <2>1, <2>5, <3>2
      <3> QED BY <1>2, <3>1, <3>2
    <2>6. \A v \in Nodes : Mine(m, v)' \in collecting' => v \in voters'[m]
      BY <1>0, <1>2, <1>20, <2>1 DEF CandidateInv, Mine
    <2> QED
      BY <2>2, <2>3, <2>4, <2>5, <2>6
  <1>24. ASSUME granted, a.term = currentTerm[c],
                NEW k \in Nodes \ {c}, Bound(n, k, a.term)
         PROVE  FALSE
    BY <1>3, <1>4, <1>5, <1>24, RaftAssumption DEF Bound
  <1>25. RivalsInv'
    <2>1. ASSUME NEW m \in Nodes, role'[m] = "CANDIDATE", NEW k \in Nodes,
                 role'[k] = "CANDIDATE", currentTerm'[k] = currentTerm'[m], k # m,
                 NEW v \in voters'[k] \cap voters'[m]
          PROVE  FALSE
      <3>1. /\ role[m] = "CANDIDATE" /\ role[k] = "CANDIDATE" /\ currentTerm[k] = currentTerm[m]
        BY <1>19, <2>1
      <3>2. voters[k] \cap voters[m] = {}
        BY <1>0, <2>1, <3>1 DEF RivalsInv
      <3>3. v = n
        BY <1>20, <2>1, <3>2
      <3>4. CASE n \in voters[m]
        <4>1. k = c /\ granted /\ a.term = currentTerm[c]
          BY <1>20, <2>1, <3>2, <3>3, <3>4
        <4> QED
          BY <1>0, <1>24, <2>1, <3>1, <3>4, <4>1 DEF CandidateInv
      <3>5. CASE n \notin voters[m]
        <4>1. m = c /\ granted /\ a.term = currentTerm[c]
          BY <1>20, <2>1, <3>3, <3>5
        <4>2. n \in voters[k]
          BY <1>20, <2>1, <3>3, <4>1
        <4> QED
          BY <1>0, <1>24, <2>1, <3>1, <4>1, <4>2 DEF CandidateInv
      <3> QED BY <3>4, <3>5
    <2>2. ASSUME NEW m \in Nodes, role'[m] = "CANDIDATE", NEW l \in leaders,
                 l.term = currentTerm'[m], l.node # m, NEW v \in l.voters \cap voters'[m]
          PROVE  FALSE
      <3>1. role[m] = "CANDIDATE" /\ l.term = currentTerm[m]
        BY <1>19, <2>2
      <3>2. l.voters \cap voters[m] = {}
        BY <1>0, <2>2, <3>1 DEF RivalsInv
      <3>3. v = n /\ m = c /\ granted /\ a.term = currentTerm[c]
        BY <1>20, <2>2, <3>2
      <3>4. Bound(n, l.node, a.term) /\ l.node \in Nodes
        BY <1>0, <1>1, <2>2, <3>1, <3>3 DEF LeaderInv
      <3> QED
        BY <1>24, <2>2, <3>3, <3>4
    <2> QED
      BY <1>2, <2>1, <2>2 DEF RivalsInv
  <1>26. LeaderInv'
    <2>1. ASSUME NEW m \in Nodes, role'[m] = "LEADER" PROVE Led(m, currentTerm[m])'
      <3>1. role[m] = "LEADER" /\ currentTerm'[m] = currentTerm[m]
        BY <1>5, <1>6, <1>7, <2>1
      <3> QED
        BY <1>0, <1>2, <3>1 DEF LeaderInv, Led
    <2>2. ASSUME NEW l \in leaders
          PROVE  /\ l.term <= currentTerm'[l.node]
                 /\ \A v \in l.voters : Bound(v, l.node, l.term)'
      <3>1. l.node \in Nodes /\ l.term \in Nat /\ l.voters \in SUBSET Nodes
        BY <1>1
      <3>2. l.term <= currentTerm'[l.node]
        <4>1. /\ currentTerm[l.node] \in Nat /\ currentTerm'[l.node] \in Nat
              /\ l.term <= currentTerm[l.node]
          BY <1>0, <1>1, <1>11, <3>1 DEF LeaderInv, VoteTypes
        <4> QED BY <1>16, <3>1, <4>1
      <3> QED
        BY <1>0, <1>18, <3>1, <3>2 DEF LeaderInv
    <2> QED
      BY <1>0, <1>2, <2>1, <2>2 DEF LeaderInv, Bound
  <1>27. OneLeaderPerTerm'
    BY <1>0, <1>2 DEF OneLeaderPerTerm
  <1> QED
    BY <1>11, <1>17, <1>23, <1>25, <1>26, <1>27 DEF ElectionInv

\* GetVoteAnswer: the reply of a ballot is dropped or becomes a thread.
LEMMA GetVoteAnswerStep ==
  ASSUME ElectionInv, NEW n \in Nodes, NEW b \in msgs, GetVoteAnswer(n, b)
  PROVE  ElectionInv'
PROOF
  <1> DEFINE stale == role[n] # "CANDIDATE" \/ b.request # currentTerm[n]
  <1>0. VoteTypes /\ BallotInv /\ CandidateInv
    BY DEF ElectionInv
  <1>1. /\ b.kind = "RequestVoteReply" /\ b.to = n /\ Header(b)
        /\ msgs' = msgs \ {b}
        /\ UNCHANGED <<voteCount, voters, leaders>>
    BY <1>0 DEF GetVoteAnswer, VoteTypes
  <1>2. \/ UNCHANGED <<currentTerm, role, votedFor>>
        \/ /\ b.term > currentTerm[n]
           /\ currentTerm' = [currentTerm EXCEPT ![n] = b.term]
           /\ role' = [role EXCEPT ![n] = "FOLLOWER"]
           /\ votedFor' = [votedFor EXCEPT ![n] = Nobody]
    BY DEF GetVoteAnswer, StepDown
  <1>3. \/ collecting' = collecting
        \/ ~stale /\ b.votegranted /\ collecting' = collecting \cup {Ballot(b)}
    BY <1>1 DEF GetVoteAnswer, Ballot
  <1>4. Ballot(b) = [node |-> n, voter |-> b.from, term |-> b.request] /\ b \in VoteMsgs
    BY <1>1 DEF Ballot, VoteMsgs
  <1>5. ~stale /\ b.votegranted => b.from \in voters[n]
    BY <1>0, <1>1 DEF CandidateInv
  <1> HIDE DEF stale
  <1>6. VoteMsgs' = VoteMsgs \ {b}
    BY <1>1 DEF VoteMsgs
  <1>7. Ballots' \subseteq Ballots
    BY <1>3, <1>4, <1>6 DEF Ballots, Ballot
  <1>8. \A a \in VoteMsgs' : Ballot(a) \notin collecting'
    BY <1>0, <1>3, <1>4, <1>6 DEF BallotInv
  <1>9. \A t \in collecting' : t \in collecting \/ t.voter \in voters[t.node]
    BY <1>3, <1>4, <1>5
  <1>10. b.term \in Nat /\ b.from \in Nodes /\ b.request \in Nat
    BY <1>1 DEF Header
  <1>11. VoteTypes'
    <2>1. collecting' \subseteq [node : Nodes, voter : Nodes, term : Nat]
      BY <1>0, <1>3, <1>4, <1>10 DEF VoteTypes
    <2> QED
      BY <1>0, <1>1, <1>2, <1>10, <2>1 DEF VoteTypes
  <1>12. \A m \in Nodes :
           \/ /\ currentTerm'[m] = currentTerm[m] /\ votedFor'[m] = votedFor[m]
              /\ role'[m] = role[m]
           \/ currentTerm'[m] > currentTerm[m] /\ role'[m] = "FOLLOWER"
    BY <1>0, <1>2 DEF VoteTypes
  <1>13. Quiet
    BY <1>1, <1>6, <1>7, <1>8, <1>9, <1>12 DEF Quiet
  <1> QED
    BY <1>11, <1>13, QuietStep

\* CollectVote: a voter not counted before is counted, and a candidate that
\* has counted a majority has the votes of one.
LEMMA CollectVoteStep ==
  ASSUME ElectionInv, NEW t \in collecting, CollectVote(t)
  PROVE  ElectionInv'
PROOF
  <1> DEFINE n == t.node
             ours == t.term = currentTerm[n] /\ ~IsMajority(voteCount[n])
             count == IF ours THEN voteCount[n] + 1 ELSE voteCount[n]
             wins == ours /\ IsMajority(count) /\ role[n] = "CANDIDATE"
             l0 == [node |-> n, term |-> currentTerm[n], voters |-> voters[n]]
  <1>0. VoteTypes /\ BallotInv /\ CandidateInv /\ RivalsInv /\ LeaderInv /\ OneLeaderPerTerm
    BY DEF ElectionInv
  <1>1. /\ currentTerm \in [Nodes -> Nat]
        /\ votedFor \in [Nodes -> Nodes \cup {Nobody}]
        /\ role \in [Nodes -> {"FOLLOWER", "CANDIDATE", "LEADER"}]
        /\ voteCount \in [Nodes -> Nat]
        /\ collecting \subseteq [node : Nodes, voter : Nodes, term : Nat]
        /\ voters \in [Nodes -> SUBSET Nodes]
        /\ leaders \subseteq [node : Nodes, term : Nat, voters : SUBSET Nodes]
        /\ \A b \in msgs : Header(b)
    BY <1>0 DEF VoteTypes
  <1>2. /\ collecting' = collecting \ {t}
        /\ voteCount' = [voteCount EXCEPT ![n] = count]
        /\ wins => role' = [role EXCEPT ![n] = "LEADER"] /\ leaders' = leaders \cup {l0}
        /\ ~wins => UNCHANGED <<role, leaders>>
        /\ UNCHANGED <<currentTerm, votedFor, voters, msgs>>
    BY DEF CollectVote
  <1>3. n \in Nodes /\ t.voter \in Nodes /\ t.term \in Nat
        /\ t = [node |-> n, voter |-> t.voter, term |-> t.term]
    BY <1>1
  <1>4. count \in Nat /\ (ours => count = voteCount[n] + 1) /\ (~ours => count = voteCount[n])
    BY <1>1, <1>3
  <1>5. /\ l0 \in [node : Nodes, term : Nat, voters : SUBSET Nodes]
        /\ l0.node = n /\ l0.term = currentTerm[n] /\ l0.voters = voters[n]
    BY <1>1, <1>3
  <1>6. /\ wins => ours /\ IsMajority(count) /\ role[n] = "CANDIDATE"
        /\ ours => t.term = currentTerm[n]
    OBVIOUS
  <1> HIDE DEF n, ours, count, wins, l0
  <1>7. VoteTypes'
    BY <1>1, <1>2, <1>3, <1>4, <1>5 DEF VoteTypes
  <1>8. VoteMsgs' = VoteMsgs /\ Ballots' \subseteq Ballots
    BY <1>2 DEF VoteMsgs, Ballots, Ballot
  <1>9. t \in Ballots /\ t \notin Ballots'
    <2>1. \A b \in VoteMsgs : Ballot(b) # t
      BY <1>0 DEF BallotInv
    <2>2. Ballots' = collecting' \cup {Ballot(b) : b \in VoteMsgs}
      BY <1>8 DEF Ballots, Ballot
    <2> QED
      BY <1>2, <2>1, <2>2 DEF Ballots
  <1>10. BallotInv'
    BY <1>0, <1>2, <1>8 DEF BallotInv, Ballot
  <1>11. \A v, m, u : Bound(v, m, u)' <=> Bound(v, m, u)
    BY <1>2 DEF Bound
  <1>12. \A m \in Nodes : /\ Counted(m) \subseteq Counted(m)'
                          /\ Counted(m) \subseteq Nodes /\ Counted(m)' \subseteq Nodes
                          /\ Counted(m)' \subseteq voters[m]
    BY <1>1, <1>2, <1>8 DEF Counted, Mine
  <1>13. \A m \in Nodes : /\ Cardinality(Counted(m)) \in Nat /\ Cardinality(Counted(m)') \in Nat
                          /\ Cardinality(Counted(m)) <= Cardinality(Counted(m)')
    BY <1>12, NodeCount
  <1>14. ASSUME ours, role[n] = "CANDIDATE"
         PROVE  count <= Cardinality(Counted(n)')
    <2>1. t = Mine(n, t.voter) /\ t = Mine(n, t.voter)'
      BY <1>2, <1>3, <1>6, <1>14 DEF Mine
    <2>2. t.voter \in voters[n] /\ voteCount[n] <= Cardinality(Counted(n))
      BY <1>0, <1>3, <1>14, <2>1 DEF CandidateInv
    <2>3. t.voter \notin Counted(n) /\ t.voter \in Counted(n)'
      BY <1>2, <1>9, <2>1, <2>2 DEF Counted
    <2>4. /\ Cardinality(Counted(n) \cup {t.voter}) = Cardinality(Counted(n)) + 1
          /\ Counted(n) \cup {t.voter} \subseteq Counted(n)'
      BY <1>3, <1>12, <2>3, NodeCount, FS_AddElement
    <2>5. Cardinality(Counted(n) \cup {t.voter}) <= Cardinality(Counted(n)')
      BY <1>3, <1>12, <2>4, NodeCount
    <2>6. voteCount[n] \in Nat
      BY <1>1, <1>3
    <2> QED
      BY <1>3, <1>4, <1>13, <1>14, <2>2, <2>4, <2>5, <2>6
  <1>15. ASSUME NEW m \in Nodes, role'[m] = "CANDIDATE"
         PROVE  role[m] = "CANDIDATE" /\ (wins => m # n)
    BY <1>1, <1>2, <1>3, <1>15
  <1>16. \A l \in leaders' : l \in leaders \/ (wins /\ l = l0)
    BY <1>2
  <1>17. CandidateInv'
    <2> SUFFICES ASSUME NEW m \in Nodes, role'[m] = "CANDIDATE"
                 PROVE  /\ ~Led(m, currentTerm[m])'
                        /\ \A v \in voters'[m] : Bound(v, m, currentTerm[m])'
                        /\ voteCount'[m] <= Cardinality(Counted(m)')
                        /\ \A b \in msgs' :
                             b.kind = "RequestVoteReply" /\ b.votegranted /\ b.to = m
                                /\ b.request = currentTerm'[m] => b.from \in voters'[m]
                        /\ \A v \in Nodes : Mine(m, v)' \in collecting' => v \in voters'[m]
      BY DEF CandidateInv
    <2>1. role[m] = "CANDIDATE" /\ (wins => m # n)
      BY <1>15
    <2>2. ~Led(m, currentTerm[m])'
      BY <1>0, <1>2, <1>5, <1>16, <2>1 DEF Led, CandidateInv
    <2>3. \A v \in voters'[m] : Bound(v, m, currentTerm[m])'
      BY <1>0, <1>2, <2>1 DEF CandidateInv, Bound
    <2>4. voteCount'[m] <= Cardinality(Counted(m)')
      <3>1. voteCount[m] <= Cardinality(Counted(m)) /\ voteCount[m] \in Nat
        BY <1>0, <1>1, <2>1 DEF CandidateInv
      <3>2. CASE m = n /\ ours
        BY <1>1, <1>2, <1>14, <2>1, <3>2
      <3>3. CASE ~(m = n /\ ours)
        <4>1. voteCount'[m] = voteCount[m]
          BY <1>1, <1>2, <1>4, <3>3
        <4> QED BY <1>13, <3>1, <4>1
      <3> QED BY <3>2, <3>3
    <2>5. \A v \in Nodes : Mine(m, v)' \in collecting' => v \in voters'[m]
      BY <1>0, <1>2, <2>1 DEF CandidateInv, Mine
    <2> QED
      BY <1>0, <1>2, <2>1, <2>2, <2>3, <2>4, <2>5 DEF CandidateInv
  <1>18. RivalsInv'
    <2>1. ASSUME NEW m \in Nodes, role'[m] = "CANDIDATE", NEW l \in leaders',
                 l.term = currentTerm[m], l.node # m
          PROVE  l.voters \cap voters[m] = {}
      <3>1. CASE l \in leaders
        BY <1>0, <1>15, <2>1, <3>1 DEF RivalsInv
      <3>2. CASE wins /\ l = l0
        <4>1. role[n] = "CANDIDATE" /\ currentTerm[m] = currentTerm[n] /\ l.voters = voters[n]
          BY <1>5, <1>6, <2>1, <3>2
        <4> QED
          BY <1>0, <1>3, <1>15, <2>1, <3>2, <4>1 DEF RivalsInv
      <3> QED BY <1>16, <3>1, <3>2
    <2> QED
      BY <1>0, <1>2, <1>15, <2>1 DEF RivalsInv
  <1>19. wins => /\ IsMajority(Cardinality(voters[n]))
                 /\ \A v \in voters[n] : Bound(v, n, currentTerm[n])
    <2> SUFFICES ASSUME wins
                 PROVE  /\ IsMajority(Cardinality(voters[n]))
                        /\ \A v \in voters[n] : Bound(v, n, currentTerm[n])
      OBVIOUS
    <2>1. ours /\ IsMajority(count) /\ role[n] = "CANDIDATE"
      BY <1>6
    <2>2. count <= Cardinality(Counted(n)')
      BY <1>14, <2>1
    <2>3. /\ Cardinality(Counted(n)') <= Cardinality(voters[n])
          /\ Cardinality(voters[n]) \in Nat /\ Cardinality(Counted(n)') \in Nat
      BY <1>1, <1>3, <1>12, NodeCount
    <2>4. Cardinality(Nodes) \in Nat
      BY RaftAssumption, FS_CardinalityType
    <2>5. IsMajority(Cardinality(voters[n]))
      BY <1>4, <2>1, <2>2, <2>3, <2>4 DEF IsMajority
    <2> QED
      BY <1>0, <1>3, <2>1, <2>5 DEF CandidateInv
  <1>20. LeaderInv'
    <2>1. ASSUME NEW m \in Nodes, role'[m] = "LEADER" PROVE Led(m, currentTerm[m])'
      <3>1. CASE wins /\ m = n
        BY <1>2, <1>5, <3>1 DEF Led
      <3>2. CASE ~(wins /\ m = n)
        <4>1. role[m] = "LEADER"
          BY <1>1, <1>2, <2>1, <3>2
        <4> QED
          BY <1>0, <1>2, <4>1 DEF LeaderInv, Led
      <3> QED BY <3>1, <3>2
    <2>2. ASSUME NEW l \in leaders'
          PROVE  /\ l.term <= currentTerm[l.node]
                 /\ IsMajority(Cardinality(l.voters))
                 /\ \A v \in l.voters : Bound(v, l.node, l.term)
      <3>1. CASE l \in leaders
        BY <1>0, <3>1 DEF LeaderInv
      <3>2. CASE wins /\ l = l0
        BY <1>1, <1>3, <1>5, <1>19, <3>2
      <3> QED BY <1>16, <3>1, <3>2
    <2> QED
      BY <1>2, <2>1, <2>2 DEF LeaderInv, Bound
  <1>21. OneLeaderPerTerm'
    <2>1. ASSUME wins, NEW l \in leaders, l.term = currentTerm[n], l.node # n
          PROVE  FALSE
      <3>1. l.voters \cap voters[n] = {}
        BY <1>0, <1>3, <1>6, <2>1 DEF RivalsInv
      <3>2. IsMajority(Cardinality(l.voters)) /\ l.voters \in SUBSET Nodes
            /\ voters[n] \in SUBSET Nodes
        BY <1>0, <1>1, <1>3 DEF LeaderInv
      <3> QED
        BY <1>19, <2>1, <3>1, <3>2, MajoritiesMeet
    <2> QED
      BY <1>0, <1>5, <1>16, <2>1 DEF OneLeaderPerTerm
  <1> QED
    BY <1>7, <1>10, <1>17, <1>18, <1>20, <1>21 DEF ElectionInv

\* The other steps neither vote nor count: no message of theirs is about a
\* ballot.
LEMMA OtherStep ==
  ASSUME ElectionInv,
         UNCHANGED <<voteCount, collecting, voters, leaders>>,
         VoteTypes', VoteMsgs' \subseteq VoteMsgs,
         \A n \in Nodes :
           \/ /\ currentTerm'[n] = currentTerm[n] /\ votedFor'[n] = votedFor[n]
              /\ role'[n] = role[n]
           \/ currentTerm'[n] > currentTerm[n] /\ role'[n] = "FOLLOWER"
  PROVE  ElectionInv'
PROOF
  <1>1. \A b \in VoteMsgs : Ballot(b) \notin collecting
    BY DEF ElectionInv, BallotInv
  <1>2. {Ballot(b) : b \in VoteMsgs'} \subseteq {Ballot(b) : b \in VoteMsgs}
    OBVIOUS
  <1>3. Ballots' \subseteq Ballots
    BY <1>2 DEF Ballots, Ballot
  <1>4. Quiet
    BY <1>1, <1>3 DEF Quiet
  <1> QED
    BY <1>4, QuietStep

LEMMA ReplicationSteps ==
  ASSUME ElectionInv, NEW n \in Nodes,
         \/ HostAppend(n) \/ SendHeartBeats(n)
         \/ \E b \in msgs : AppendEntries(n, b) \/ handleAppendEntries(n, b) \/ RpcFails(b)
         \/ UNCHANGED vars
  PROVE  ElectionInv'
PROOF
  <1>0. VoteTypes
    BY DEF ElectionInv
  <1>1. CASE HostAppend(n) \/ UNCHANGED vars
    <2>1. UNCHANGED <<currentTerm, role, votedFor, voteCount, collecting, voters, leaders, msgs>>
      BY <1>1 DEF HostAppend, vars, electionVars
    <2>2. VoteTypes' /\ VoteMsgs' = VoteMsgs
      BY <1>0, <2>1 DEF VoteTypes, Header, VoteMsgs
    <2> QED
      BY <2>1, <2>2, OtherStep
  <1>2. CASE SendHeartBeats(n)
    <2>1. /\ UNCHANGED <<currentTerm, role, votedFor, voteCount, collecting, voters, leaders>>
          /\ \A b \in msgs' : b \in msgs \/ \E m \in Peers(n) : b = AppendEntriesArgs(n, m)
      BY <1>2 DEF SendHeartBeats, electionVars, Send
    <2>2. \A m \in Peers(n) : /\ Header(AppendEntriesArgs(n, m))
                              /\ AppendEntriesArgs(n, m).kind = "AppendEntries"
      BY <1>0 DEF AppendEntriesArgs, Header, Peers, VoteTypes
    <2>3. \A b \in msgs' : Header(b)
      BY <1>0, <2>1, <2>2 DEF VoteTypes
    <2>4. VoteMsgs' \subseteq VoteMsgs
      BY <2>1, <2>2 DEF VoteMsgs
    <2>5. VoteTypes'
      BY <1>0, <2>1, <2>3 DEF VoteTypes
    <2> QED
      BY <2>1, <2>4, <2>5, OtherStep
  <1>3. ASSUME NEW b \in msgs, RpcFails(b) PROVE ElectionInv'
    <2>1. /\ UNCHANGED <<currentTerm, role, votedFor, voteCount, collecting, voters, leaders>>
          /\ msgs' \subseteq msgs
      BY <1>3 DEF RpcFails, electionVars
    <2>2. VoteTypes' /\ VoteMsgs' \subseteq VoteMsgs
      BY <1>0, <2>1 DEF VoteTypes, VoteMsgs
    <2> QED
      BY <2>1, <2>2, OtherStep
  <1>4. ASSUME NEW a \in msgs, AppendEntries(n, a) PROVE ElectionInv'
    <2> DEFINE newer == a.term > currentTerm[n]
    <2>1. /\ currentTerm' = [currentTerm EXCEPT ![n] = IF newer THEN a.term ELSE @]
          /\ votedFor' = [votedFor EXCEPT ![n] = IF newer THEN Nobody ELSE @]
          /\ role' = [role EXCEPT ![n] = IF newer THEN "FOLLOWER" ELSE @]
          /\ UNCHANGED <<voteCount, collecting, voters, leaders>>
      BY <1>4 DEF AppendEntries
    <2>2. PICK x : msgs' = (msgs \ {a}) \cup
            {[ kind |-> "AppendEntriesReply", from |-> n, to |-> a.from,
               request |-> a.term, acked |-> a.prevlogindex + Len(a.entries),
               term |-> currentTerm'[n], reply |-> x ]}
      BY <1>4 DEF AppendEntries
    <2> DEFINE r == [ kind |-> "AppendEntriesReply", from |-> n, to |-> a.from,
                      request |-> a.term, acked |-> a.prevlogindex + Len(a.entries),
                      term |-> currentTerm'[n], reply |-> x ]
    <2>3. Header(a) /\ a.to = n /\ a.term \in Nat /\ currentTerm[n] \in Nat
      BY <1>0, <1>4 DEF VoteTypes, AppendEntries, Header
    <2>4. currentTerm'[n] \in Nat
      BY <1>0, <2>1, <2>3 DEF VoteTypes
    <2>5. Header(r) /\ r.kind = "AppendEntriesReply"
      BY <2>3, <2>4 DEF Header
    <2>6. msgs' = (msgs \ {a}) \cup {r}
      BY <2>2
    <2> HIDE DEF r
    <2>7. VoteMsgs' \subseteq VoteMsgs
      BY <2>5, <2>6 DEF VoteMsgs
    <2>8. VoteTypes'
      BY <1>0, <2>1, <2>3, <2>5, <2>6 DEF VoteTypes
    <2>9. \A m \in Nodes :
            \/ /\ currentTerm'[m] = currentTerm[m] /\ votedFor'[m] = votedFor[m]
               /\ role'[m] = role[m]
            \/ currentTerm'[m] > currentTerm[m] /\ role'[m] = "FOLLOWER"
      BY <1>0, <2>1 DEF VoteTypes
    <2> QED
      BY <2>1, <2>7, <2>8, <2>9, OtherStep
  <1>5. ASSUME NEW b \in msgs, handleAppendEntries(n, b) PROVE ElectionInv'
    <2>1. /\ UNCHANGED <<voteCount, collecting, voters, leaders>>
          /\ msgs' = msgs \ {b}
          /\ \/ UNCHANGED <<currentTerm, role, votedFor>>
             \/ /\ b.term > currentTerm[n]
                /\ currentTerm' = [currentTerm EXCEPT ![n] = b.term]
                /\ role' = [role EXCEPT ![n] = "FOLLOWER"]
                /\ votedFor' = [votedFor EXCEPT ![n] = Nobody]
      BY <1>5 DEF handleAppendEntries, StepDown
    <2>2. b.term \in Nat
      BY <1>0 DEF VoteTypes, Header
    <2>3. VoteTypes' /\ VoteMsgs' \subseteq VoteMsgs
      BY <1>0, <2>1, <2>2 DEF VoteTypes, VoteMsgs
    <2>4. \A m \in Nodes :
            \/ /\ currentTerm'[m] = currentTerm[m] /\ votedFor'[m] = votedFor[m]
               /\ role'[m] = role[m]
            \/ currentTerm'[m] > currentTerm[m] /\ role'[m] = "FOLLOWER"
      BY <1>0, <2>1 DEF VoteTypes
    <2> QED
      BY <2>1, <2>3, <2>4, OtherStep
  <1> QED
    BY <1>1, <1>2, <1>3, <1>4, <1>5

\* The invariant of the election holds in every reachable state.
LEMMA ElectionInvariant == Spec => []ElectionInv
PROOF
  <1>1. Init => ElectionInv
    BY DEF Init, ElectionInv, VoteTypes, BallotInv, CandidateInv, RivalsInv, LeaderInv,
           OneLeaderPerTerm, Ballots, VoteMsgs
  <1>2. ElectionInv /\ [Next]_vars => ElectionInv'
    <2> SUFFICES ASSUME ElectionInv, [Next]_vars PROVE ElectionInv'
      OBVIOUS
    <2>1. ASSUME NEW n \in Nodes, Elect(n) PROVE ElectionInv'
      BY <2>1, ElectStep
    <2>2. ASSUME NEW n \in Nodes, NEW b \in msgs, RequestVote(n, b) PROVE ElectionInv'
      BY <2>2, RequestVoteStep
    <2>3. ASSUME NEW n \in Nodes, NEW b \in msgs, GetVoteAnswer(n, b) PROVE ElectionInv'
      BY <2>3, GetVoteAnswerStep
    <2>4. ASSUME NEW t \in collecting, CollectVote(t) PROVE ElectionInv'
      BY <2>4, CollectVoteStep
    <2>5. PICK n0 \in Nodes : TRUE
      BY RaftAssumption
    <2>6. ASSUME NEW n \in Nodes,
                 \/ HostAppend(n) \/ SendHeartBeats(n)
                 \/ \E b \in msgs : AppendEntries(n, b) \/ handleAppendEntries(n, b)
          PROVE  ElectionInv'
      BY <2>6, ReplicationSteps
    <2>7. ASSUME UNCHANGED vars \/ \E b \in msgs : RpcFails(b) PROVE ElectionInv'
      BY <2>5, <2>7, ReplicationSteps
    <2> QED
      BY <2>1, <2>2, <2>3, <2>4, <2>6, <2>7 DEF Next
  <1> QED
    BY <1>1, <1>2, PTL DEF Spec

(***************************************************************************)
(* No term has two leaders, in a cluster of any size (raft.cpp:101-117,    *)
(* raft_rpc.cpp:75-104, 319-327), as long as no node is restarted: a       *)
(* restart forgets votes (RaftCrash).                                      *)
(***************************************************************************)
THEOREM ElectionSafety == Spec => []OneLeaderPerTerm
PROOF
  <1>1. ElectionInv => OneLeaderPerTerm
    BY DEF ElectionInv
  <1> QED
    BY <1>1, ElectionInvariant, PTL

-----------------------------------------------------------------------------
(***************************************************************************)
(* Log replication.  The argument goes through leaderLog, the log of the   *)
(* leader of each term: wherever an entry of term t stands, in a log, up   *)
(* to that entry the log is that of the leader of t.                       *)
(***************************************************************************)

\* The first k entries of two logs are the same.
Agree(L, M, k) ==
  /\ k <= Len(L) /\ k <= Len(M)
  /\ \A i \in 1..k : L[i] = M[i]

\* What each log of the system satisfies, that of an old leader included:
\* leads gives the log of the leader of each term.
Good(L, leads) ==
  /\ L \in Seq(LogEntry) /\ Len(L) >= 1 /\ L[1] = BlankEntry
  /\ \A i \in 1..Len(L) : /\ L[i].term \in DOMAIN leads
                          /\ Agree(L, leads[L[i].term], i)
  /\ \A i, j \in 1..Len(L) : i <= j => L[i].term <= L[j].term

UpToTerm(L, t) == \A i \in 1..Len(L) : L[i].term <= t

\* Node m has the first k entries of the leader of term t, unless it knows
\* a later term.
Holds(m, t, k) ==
  /\ t \in DOMAIN leaderLog /\ k <= Len(leaderLog[t])
  /\ currentTerm[m] >= t
  /\ currentTerm[m] = t => Agree(log[m], leaderLog[t], k)

ReplicationTypes ==
  /\ log \in [Nodes -> Seq(LogEntry)]
  /\ nextIndex \in [Nodes -> [Nodes -> Nat]]
  /\ matchIndex \in [Nodes -> [Nodes -> Nat]]
  /\ commitIndex \in [Nodes -> Nat]
  /\ committed \subseteq [index : Nat, entry : LogEntry, term : Nat]

LeaderLogInv ==
  /\ DOMAIN leaderLog = {0} \cup {l.term : l \in leaders}
  /\ \A n \in Nodes : role[n] = "CANDIDATE" => currentTerm[n] > 0
  /\ \A n \in Nodes : role[n] = "LEADER" => log[n] = leaderLog[currentTerm[n]]

MatchInv ==
  /\ \A n \in Nodes : Good(log[n], leaderLog) /\ UpToTerm(log[n], currentTerm[n])
  /\ \A t \in DOMAIN leaderLog : Good(leaderLog[t], leaderLog) /\ UpToTerm(leaderLog[t], t)

\* The entries are those of the log X behind index prev.
PartOf(entries, X, prev) ==
  /\ entries \in Seq(LogEntry) /\ prev + 1 + Len(entries) <= Len(X)
  /\ \A j \in 1..Len(entries) : entries[j] = X[prev + 1 + j]

\* A request carries a part of the log of the leader that sent it.
RequestOK(a) ==
  LET X == leaderLog[a.term] IN
  /\ Led(a.from, a.term)
  /\ a.prevlogindex \in Nat /\ a.prevlogterm \in Nat /\ a.leadercommit \in Nat
  /\ PartOf(a.entries, X, a.prevlogindex)
  /\ a.prevlogterm = X[a.prevlogindex + 1].term

\* A reply tells the truth, and where to back off to lies in the log of the
\* leader that asked.
ReplyOK(b) ==
  LET X == leaderLog[b.request] IN
  /\ Led(b.to, b.request)
  /\ b.acked \in Nat /\ b.reply.success \in BOOLEAN
  /\ b.reply.xterm \in Int
  /\ b.reply.success => Holds(b.from, b.request, b.acked + 1)
  /\ ~b.reply.success /\ b.term = b.request =>
       /\ b.reply.xterm = -1 => b.reply.xlen \in 1..Len(X)
       /\ b.reply.xterm # -1 => b.reply.xindex \in 1..Len(X)

MessageInv ==
  \A b \in msgs :
    /\ b.kind = "AppendEntries" => RequestOK(b)
    /\ b.kind = "AppendEntriesReply" => ReplyOK(b)

ProgressInv ==
  \A n \in Nodes : role[n] = "LEADER" =>
    \A m \in Peers(n) :
      /\ nextIndex[n][m] \in 1..Len(log[n])
      /\ \/ matchIndex[n][m] = 0
         \/ Holds(m, currentTerm[n], matchIndex[n][m] + 1)

LogInv ==
  /\ ReplicationTypes /\ LeaderLogInv /\ MatchInv /\ MessageInv /\ ProgressInv
-----------------------------------------------------------------------------
(* Least and greatest numbers, and what the operators on logs return. *)

LEMMA LeastNumber ==
  ASSUME NEW T \in SUBSET Nat, T # {}
  PROVE  Min(T) \in T /\ \A y \in T : Min(T) <= y
PROOF
  <1> DEFINE R == OpToRel(<, Nat)
  <1>1. IsWellFoundedOn(R, Nat)
    BY NatLessThanWellFounded
  <1>2. \E x \in T : \A y \in T : ~(<<y, x>> \in R)
    <2> HIDE DEF R
    <2> QED BY <1>1, WFMin
  <1>3. PICK x \in T : \A y \in T : ~(<<y, x>> \in R)
    BY <1>2
  <1>4. ASSUME NEW y \in T PROVE x <= y
    <2>1. x \in Nat /\ y \in Nat /\ ~(<<y, x>> \in R)
      BY <1>3
    <2>2. x > y => <<y, x>> \in R
      BY <2>1 DEF OpToRel
    <2> HIDE DEF R
    <2> QED BY <2>1, <2>2
  <1> QED
    BY <1>4 DEF Min

LEMMA GreatestNumber ==
  ASSUME NEW k \in Nat, NEW T \in SUBSET (0..k), T # {}
  PROVE  Max(T) \in T /\ \A y \in T : y <= Max(T)
PROOF
  <1> DEFINE U == {k - x : x \in T}
  <1>1. U \in SUBSET Nat /\ U # {}
    OBVIOUS
  <1>2. PICK x \in T : Min(U) = k - x
    <2> HIDE DEF U
    <2>1. Min(U) \in U
      BY <1>1, LeastNumber
    <2> QED BY <2>1 DEF U
  <1>3. ASSUME NEW y \in T PROVE y <= x
    <2>1. k - y \in U
      OBVIOUS
    <2>2. Min(U) <= k - y
      <3> HIDE DEF U
      <3> QED BY <1>1, <2>1, LeastNumber
    <2>3. x \in Nat /\ y \in Nat
      OBVIOUS
    <2> QED BY <1>2, <2>2, <2>3
  <1>4. \E z \in T : \A y \in T : z >= y
    BY <1>3
  <1> QED
    BY <1>4 DEF Max

\* Two logs with an entry of one term at the same place agree up to there.
LEMMA SameTermAgree ==
  ASSUME NEW leads, NEW L, NEW M, Good(L, leads), Good(M, leads),
         NEW k \in 1..Len(L), k <= Len(M), L[k].term = M[k].term
  PROVE  Agree(L, M, k)
PROOF
  <1>1. /\ k \in 1..Len(M)
        /\ Len(L) \in Nat /\ Len(M) \in Nat
    BY DEF Good
  <1>2. Agree(L, leads[L[k].term], k) /\ Agree(M, leads[L[k].term], k)
    BY <1>1 DEF Good
  <1> QED
    BY <1>1, <1>2 DEF Agree

\* A part of a log from its start on is a log.
LEMMA GoodPrefix ==
  ASSUME NEW leads, NEW L, Good(L, leads), NEW M \in Seq(LogEntry), Len(M) >= 1,
         Agree(M, L, Len(M))
  PROVE  Good(M, leads)
PROOF
  <1>1. /\ Len(L) \in Nat /\ Len(M) \in Nat /\ Len(M) <= Len(L)
        /\ \A i \in 1..Len(M) : i \in 1..Len(L) /\ M[i] = L[i]
    BY DEF Good, Agree
  <1>2. ASSUME NEW i \in 1..Len(M)
        PROVE  M[i].term \in DOMAIN leads /\ Agree(M, leads[M[i].term], i)
    <2>1. L[i].term \in DOMAIN leads /\ Agree(L, leads[L[i].term], i)
      BY <1>1 DEF Good
    <2> QED
      BY <1>1, <2>1 DEF Agree
  <1>3. \A i, j \in 1..Len(M) : i <= j => M[i].term <= M[j].term
    BY <1>1 DEF Good
  <1>4. M[1] = BlankEntry
    BY <1>1 DEF Good
  <1> QED
    BY <1>2, <1>3, <1>4 DEF Good

(***************************************************************************)
(* What a follower makes of the entries of a leader with the log X: its    *)
(* own log, if that had them all, or the leader's as far as the request    *)
(* goes.                                                                   *)
(***************************************************************************)
LEMMA MergedAgrees ==
  ASSUME NEW leads, NEW lg, Good(lg, leads), NEW X, Good(X, leads),
         NEW p \in Nat, p + 1 <= Len(lg),
         NEW entries, PartOf(entries, X, p), lg[p + 1].term = X[p + 1].term
  PROVE  LET M == Merged(lg, p, entries)
             k == p + 1 + Len(entries)
         IN /\ M \in Seq(LogEntry) /\ Agree(M, X, k)
            /\ M = lg \/ Len(M) = k
            /\ \A i \in Nat : Agree(lg, X, i) => Agree(M, X, i)
PROOF
  <1> DEFINE M == Merged(lg, p, entries)
             k == p + 1 + Len(entries)
             new == {j \in 1..Len(entries) : \/ p + j >= Len(lg)
                                             \/ lg[p + j + 1].term # entries[j].term}
  <1>1. /\ lg \in Seq(LogEntry) /\ X \in Seq(LogEntry)
        /\ entries \in Seq(LogEntry) /\ p + 1 + Len(entries) <= Len(X)
        /\ Len(lg) \in Nat /\ Len(X) \in Nat /\ Len(entries) \in Nat
    BY DEF Good, PartOf
  <1>2. ASSUME NEW i \in 1..Len(entries) \cup {0}, \A j \in 1..i : j \notin new
        PROVE  Agree(lg, X, p + 1 + i)
    <2>1. p + 1 + i \in 1..Len(lg) /\ p + 1 + i <= Len(X) /\ i \in Nat
      <3>1. i \in Nat /\ i <= Len(entries)
        BY <1>1
      <3>2. i # 0 => p + i < Len(lg)
        <4>1. i # 0 => i \in 1..Len(entries) /\ i \notin new
          BY <1>1, <1>2
        <4> QED BY <1>1, <4>1
      <3> HIDE DEF new
      <3> QED BY <1>1, <3>1, <3>2
    <2>2. lg[p + 1 + i].term = X[p + 1 + i].term
      <3>1. CASE i = 0
        BY <3>1
      <3>2. CASE i # 0
        <4>1. i \in 1..Len(entries) /\ i \notin new
          BY <1>1, <1>2, <3>2
        <4>2. lg[p + i + 1].term = entries[i].term /\ entries[i] = X[p + 1 + i]
          BY <4>1 DEF PartOf
        <4>3. p + i + 1 = p + 1 + i
          BY <1>1, <4>1
        <4> QED BY <4>2, <4>3
      <3> QED BY <3>1, <3>2
    <2> QED
      BY <2>1, <2>2, SameTermAgree
  <1>3. CASE new = {}
    <2>1. M = lg
      BY <1>3 DEF Merged
    <2>2. Len(entries) \in 1..Len(entries) \cup {0}
      BY <1>1
    <2>3. Agree(lg, X, k)
      BY <1>2, <1>3, <2>2
    <2> QED
      BY <1>1, <2>1, <2>3
  <1>4. CASE new # {}
    <2> DEFINE h == Min(new)
               A == SubSeq(lg, 1, p + h)
               B == SubSeq(entries, h, Len(entries))
    <2>1. M = A \o B
      BY <1>4 DEF Merged
    <2>2. h \in new /\ \A j \in new : h <= j
      <3>1. new \in SUBSET Nat
        OBVIOUS
      <3> HIDE DEF new
      <3> QED BY <1>4, <3>1, LeastNumber
    <2>3. h \in 1..Len(entries) /\ h \in Nat
      BY <1>1, <2>2
    <2> HIDE DEF h, new
    <2>4. \A j \in 1..h - 1 : j \notin new
      BY <2>2, <2>3
    <2>5. Agree(lg, X, p + h)
      <3>1. h - 1 \in 1..Len(entries) \cup {0} /\ p + 1 + (h - 1) = p + h
        BY <1>1, <2>3
      <3> QED BY <1>2, <2>4, <3>1
    <2>6. /\ A \in Seq(LogEntry) /\ Len(A) = p + h
          /\ \A i \in 1..p + h : A[i] = X[i]
      <3>1. p + h <= Len(lg) /\ \A i \in 1..p + h : lg[i] \in LogEntry /\ lg[i] = X[i]
        BY <1>1, <2>3, <2>5 DEF Agree
      <3>2. /\ SubSeq(lg, 1, p + h) \in Seq(LogEntry)
            /\ Len(SubSeq(lg, 1, p + h)) = IF 1 <= p + h THEN p + h - 1 + 1 ELSE 0
            /\ \A i \in 1..p + h - 1 + 1 : SubSeq(lg, 1, p + h)[i] = lg[1 + i - 1]
        BY <2>3, <3>1, SubSeqProperties
      <3> QED
        BY <2>3, <3>1, <3>2
    <2>7. /\ B \in Seq(LogEntry) /\ Len(B) = Len(entries) - h + 1
          /\ \A i \in 1..Len(entries) - h + 1 : B[i] = entries[h + i - 1]
      <3>1. \A i \in h..Len(entries) : entries[i] \in LogEntry
        BY <1>1, <2>3
      <3>2. /\ SubSeq(entries, h, Len(entries)) \in Seq(LogEntry)
            /\ Len(SubSeq(entries, h, Len(entries)))
                 = IF h <= Len(entries) THEN Len(entries) - h + 1 ELSE 0
            /\ \A i \in 1..Len(entries) - h + 1 :
                 SubSeq(entries, h, Len(entries))[i] = entries[h + i - 1]
        BY <1>1, <2>3, <3>1, SubSeqProperties
      <3> QED
        BY <1>1, <2>3, <3>2
    <2> HIDE DEF A, B, M
    <2>8. /\ M \in Seq(LogEntry) /\ Len(M) = k
          /\ \A i \in 1..k : M[i] = IF i <= p + h THEN A[i] ELSE B[i - (p + h)]
      <3>1. Len(A) + Len(B) = k
        BY <1>1, <2>3, <2>6, <2>7
      <3>2. /\ A \o B \in Seq(LogEntry) /\ Len(A \o B) = Len(A) + Len(B)
            /\ \A i \in 1 .. Len(A) + Len(B) :
                 (A \o B)[i] = IF i <= Len(A) THEN A[i] ELSE B[i - Len(A)]
        <4>1. A \in Seq(LogEntry) /\ B \in Seq(LogEntry)
          BY <2>6, <2>7
        <4> QED BY <4>1, ConcatProperties
      <3> QED
        BY <2>1, <2>6, <3>1, <3>2
    <2>9. ASSUME NEW i \in 1..k PROVE M[i] = X[i]
      <3>1. CASE i <= p + h
        BY <1>1, <2>3, <2>6, <2>8, <3>1
      <3>2. CASE ~(i <= p + h)
        <4>1. i - (p + h) \in 1..Len(entries) - h + 1 /\ h + (i - (p + h)) - 1 = i - p - 1
          BY <1>1, <2>3, <3>2
        <4>2. M[i] = entries[i - p - 1]
          BY <2>7, <2>8, <3>2, <4>1
        <4>3. i - p - 1 \in 1..Len(entries) /\ p + 1 + (i - p - 1) = i
          BY <1>1, <2>3, <3>2
        <4> QED BY <4>2, <4>3 DEF PartOf
      <3> QED BY <3>1, <3>2
    <2>10. Agree(M, X, k)
      BY <1>1, <2>8, <2>9 DEF Agree
    <2>11. ASSUME NEW i \in Nat, Agree(lg, X, i) PROVE Agree(M, X, i)
      <3>1. i <= Len(lg) /\ i <= Len(X) /\ \A j \in 1..i : lg[j] = X[j]
        BY <2>11 DEF Agree
      <3>2. \/ p + h >= Len(lg)
            \/ lg[p + h + 1].term # entries[h].term
        BY <2>2 DEF new
      <3>3. entries[h] = X[p + 1 + h] /\ p + 1 + h = p + h + 1
        BY <2>3 DEF PartOf
      <3>4. i <= p + h
        BY <1>1, <2>3, <3>1, <3>2, <3>3
      <3> QED
        BY <1>1, <2>3, <2>8, <2>9, <3>1, <3>4 DEF Agree
    <2> QED
      BY <2>8, <2>10, <2>11 DEF M
  <1> QED
    BY <1>3, <1>4
-----------------------------------------------------------------------------
(* What a step does to the logs of the leaders and to the terms. *)

\* Logs of leaders are appended to, and new ones come up.
GrowTo(leads, grown) ==
  /\ DOMAIN leads \subseteq DOMAIN grown
  /\ \A t \in DOMAIN leads : /\ grown[t] \in Seq(LogEntry)
                             /\ Agree(leads[t], grown[t], Len(leads[t]))

Frame ==
  /\ GrowTo(leaderLog, leaderLog') /\ leaders \subseteq leaders'
  /\ \A m \in Nodes :
       /\ currentTerm'[m] >= currentTerm[m]
       /\ currentTerm'[m] = currentTerm[m] /\ currentTerm[m] \in DOMAIN leaderLog
            => \A i \in Nat : Agree(log[m], leaderLog[currentTerm[m]], i)
                                => Agree(log'[m], leaderLog'[currentTerm[m]], i)

LEMMA GoodKept ==
  ASSUME NEW leads, NEW grown, GrowTo(leads, grown), NEW L, Good(L, leads),
         \A t \in DOMAIN leads : leads[t] \in Seq(LogEntry)
  PROVE  Good(L, grown)
PROOF
  <1>1. ASSUME NEW i \in 1..Len(L)
        PROVE  L[i].term \in DOMAIN grown /\ Agree(L, grown[L[i].term], i)
    <2> DEFINE t == L[i].term
    <2>1. t \in DOMAIN leads /\ Agree(L, leads[t], i)
      BY DEF Good
    <2>2. t \in DOMAIN grown /\ Agree(leads[t], grown[t], Len(leads[t]))
          /\ leads[t] \in Seq(LogEntry) /\ grown[t] \in Seq(LogEntry)
      BY <2>1 DEF GrowTo
    <2> HIDE DEF t
    <2>3. i \in Nat /\ Len(leads[t]) \in Nat /\ Len(grown[t]) \in Nat
      BY <2>2
    <2>4. Agree(L, grown[t], i)
      BY <2>1, <2>2, <2>3 DEF Agree
    <2> QED BY <2>2, <2>4 DEF t
  <1> QED
    BY <1>1 DEF Good

LEMMA FrameKeeps ==
  ASSUME VoteTypes, VoteTypes', LogInv, Frame
  PROVE  /\ \A m \in Nodes, t \in Nat, k \in Nat : Holds(m, t, k) => Holds(m, t, k)'
         /\ \A b \in msgs : b.kind = "AppendEntries" => RequestOK(b)'
         /\ \A b \in msgs : b.kind = "AppendEntriesReply" => ReplyOK(b)'
PROOF
  <1>1. /\ currentTerm \in [Nodes -> Nat] /\ currentTerm' \in [Nodes -> Nat]
        /\ leaders \subseteq [node : Nodes, term : Nat, voters : SUBSET Nodes]
        /\ \A b \in msgs : Header(b)
    BY DEF VoteTypes
  <1>2. DOMAIN leaderLog = {0} \cup {l.term : l \in leaders}
    BY DEF LogInv, LeaderLogInv
  <1>3. \A t \in DOMAIN leaderLog : leaderLog[t] \in Seq(LogEntry)
    BY DEF LogInv, MatchInv, Good
  <1>4. ASSUME NEW t \in DOMAIN leaderLog
        PROVE  /\ t \in DOMAIN leaderLog'
               /\ Len(leaderLog[t]) \in Nat /\ Len(leaderLog'[t]) \in Nat
               /\ Len(leaderLog[t]) <= Len(leaderLog'[t])
               /\ \A i \in 1..Len(leaderLog[t]) : leaderLog'[t][i] = leaderLog[t][i]
    BY <1>3 DEF Frame, GrowTo, Agree
  <1>5. ASSUME NEW m \in Nodes, NEW t \in Nat, NEW k \in Nat, Holds(m, t, k)
        PROVE  Holds(m, t, k)'
    <2>1. /\ t \in DOMAIN leaderLog /\ k <= Len(leaderLog[t]) /\ currentTerm[m] >= t
          /\ currentTerm[m] = t => Agree(log[m], leaderLog[t], k)
      BY <1>5 DEF Holds
    <2>2. /\ currentTerm'[m] >= currentTerm[m]
          /\ currentTerm'[m] = currentTerm[m] /\ currentTerm[m] = t
               => (Agree(log[m], leaderLog[t], k) => Agree(log'[m], leaderLog'[t], k))
      BY <2>1 DEF Frame
    <2>3. currentTerm[m] \in Nat /\ currentTerm'[m] \in Nat
      BY <1>1
    <2>4. t \in DOMAIN leaderLog' /\ k <= Len(leaderLog'[t])
      BY <1>4, <2>1
    <2> QED
      BY <2>1, <2>2, <2>3, <2>4 DEF Holds
  <1>6. ASSUME NEW n, NEW t, Led(n, t)
        PROVE  t \in DOMAIN leaderLog /\ \E l \in leaders' : l.node = n /\ l.term = t
    BY <1>2, <1>6 DEF Led, Frame
  <1>7. ASSUME NEW b \in msgs, b.kind = "AppendEntries" PROVE RequestOK(b)'
    <2>1. RequestOK(b)
      BY <1>7 DEF LogInv, MessageInv
    <2>2. b.term \in DOMAIN leaderLog /\ \E l \in leaders' : l.node = b.from /\ l.term = b.term
      BY <1>6, <2>1 DEF RequestOK
    <2>3. /\ PartOf(b.entries, leaderLog'[b.term], b.prevlogindex)
          /\ b.prevlogterm = leaderLog'[b.term][b.prevlogindex + 1].term
      <3> DEFINE q == b.prevlogindex + 1
                 e == Len(b.entries)
                 X == leaderLog[b.term]
                 Y == leaderLog'[b.term]
      <3>1. /\ q \in Nat /\ q >= 1 /\ e \in Nat /\ q + e <= Len(X)
            /\ Len(X) \in Nat /\ Len(Y) \in Nat /\ Len(X) <= Len(Y)
        BY <1>4, <2>1, <2>2 DEF RequestOK, PartOf
      <3>2. \A i \in 1..Len(X) : Y[i] = X[i]
        BY <1>4, <2>2
      <3>3. /\ b.prevlogterm = X[q].term /\ b.entries \in Seq(LogEntry)
            /\ \A j \in 1..e : b.entries[j] = X[q + j]
        BY <2>1 DEF RequestOK, PartOf
      <3> HIDE DEF q, e, X, Y
      <3>4. q + e <= Len(Y) /\ q \in 1..Len(X) /\ \A j \in 1..e : q + j \in 1..Len(X)
        BY <3>1
      <3>5. /\ b.prevlogterm = Y[q].term
            /\ \A j \in 1..e : b.entries[j] = Y[q + j]
        BY <3>2, <3>3, <3>4
      <3> QED
        BY <3>3, <3>4, <3>5 DEF q, e, X, Y, PartOf
    <2> QED
      BY <2>1, <2>2, <2>3 DEF RequestOK, Led
  <1>8. ASSUME NEW b \in msgs, b.kind = "AppendEntriesReply" PROVE ReplyOK(b)'
    <2>1. ReplyOK(b)
      BY <1>8 DEF LogInv, MessageInv
    <2>2. b.request \in DOMAIN leaderLog /\ \E l \in leaders' : l.node = b.to /\ l.term = b.request
      BY <1>6, <2>1 DEF ReplyOK
    <2>3. b.from \in Nodes /\ b.request \in Nat /\ b.acked \in Nat
      BY <1>1, <1>8, <2>1 DEF Header, ReplyOK
    <2>4. b.reply.success => Holds(b.from, b.request, b.acked + 1)'
      BY <1>5, <2>1, <2>3 DEF ReplyOK
    <2>5. \A i : i \in 1..Len(leaderLog[b.request]) => i \in 1..Len(leaderLog'[b.request])
      BY <1>4, <2>2
    <2> QED
      BY <2>1, <2>2, <2>4, <2>5 DEF ReplyOK, Led
  <1> QED
    BY <1>5, <1>7, <1>8

\* What a leader knows about a peer stays true while it leads.
LEMMA ProgressKept ==
  ASSUME VoteTypes, VoteTypes', LogInv, Frame, ReplicationTypes',
         NEW n \in Nodes, role[n] = "LEADER", currentTerm'[n] = currentTerm[n],
         Len(log'[n]) >= Len(log[n]), NEW m \in Peers(n)
  PROVE  /\ nextIndex[n][m] \in 1..Len(log'[n])
         /\ \/ matchIndex[n][m] = 0
            \/ \A i : i = matchIndex[n][m] => Holds(m, currentTerm[n], i + 1)'
PROOF
  <1>1. /\ nextIndex[n][m] \in 1..Len(log[n])
        /\ matchIndex[n][m] = 0 \/ Holds(m, currentTerm[n], matchIndex[n][m] + 1)
    BY DEF LogInv, ProgressInv
  <1>2. Len(log[n]) \in Nat /\ Len(log'[n]) \in Nat
    BY DEF LogInv, ReplicationTypes
  <1>3. m \in Nodes /\ currentTerm[n] \in Nat /\ matchIndex[n][m] + 1 \in Nat
    <2>1. m \in Nodes
      BY DEF Peers
    <2>2. matchIndex \in [Nodes -> [Nodes -> Nat]] /\ currentTerm \in [Nodes -> Nat]
      BY DEF LogInv, ReplicationTypes, VoteTypes
    <2> QED BY <2>1, <2>2
  <1>4. \A t, k \in Nat : Holds(m, t, k) => Holds(m, t, k)'
    BY <1>3, FrameKeeps
  <1>5. ASSUME NEW i, i = matchIndex[n][m], Holds(m, currentTerm[n], matchIndex[n][m] + 1)
        PROVE  Holds(m, currentTerm[n], i + 1)'
    <2>1. PICK t \in Nat, k \in Nat : t = currentTerm[n] /\ k = matchIndex[n][m] + 1
      BY <1>3
    <2>2. Holds(m, t, k)'
      BY <1>4, <1>5, <2>1
    <2> QED
      BY <1>5, <2>1, <2>2 DEF Holds
  <1> QED
    BY <1>1, <1>2, <1>5

LEMMA LogStep ==
  ASSUME VoteTypes, VoteTypes', LogInv, Frame, ReplicationTypes', LeaderLogInv',
         \A n \in Nodes : \/ log'[n] = log[n]
                          \/ Good(log'[n], leaderLog') /\ UpToTerm(log'[n], currentTerm'[n]),
         \A t \in DOMAIN leaderLog' : 
           \/ t \in DOMAIN leaderLog /\ leaderLog'[t] = leaderLog[t]
           \/ Good(leaderLog'[t], leaderLog') /\ UpToTerm(leaderLog'[t], t),
         \A b \in msgs' : \/ b \in msgs
                          \/ b.kind = "AppendEntries" /\ RequestOK(b)'
                          \/ b.kind = "AppendEntriesReply" /\ ReplyOK(b)'
                          \/ b.kind \in {"RequestVote", "RequestVoteReply"},
         ProgressInv'
  PROVE  LogInv'
PROOF
  <1>1. /\ \A n \in Nodes : Good(log[n], leaderLog) /\ UpToTerm(log[n], currentTerm[n])
        /\ \A t \in DOMAIN leaderLog : Good(leaderLog[t], leaderLog) /\ UpToTerm(leaderLog[t], t)
    BY DEF LogInv, MatchInv
  <1>2. \A t \in DOMAIN leaderLog : leaderLog[t] \in Seq(LogEntry)
    BY <1>1 DEF Good
  <1>3. GrowTo(leaderLog, leaderLog')
    BY DEF Frame
  <1>4. \A L : Good(L, leaderLog) => Good(L, leaderLog')
    BY <1>2, <1>3, GoodKept
  <1>5. ASSUME NEW n \in Nodes PROVE UpToTerm(log[n], currentTerm'[n])
    <2>1. /\ currentTerm[n] \in Nat /\ currentTerm'[n] \in Nat
          /\ currentTerm'[n] >= currentTerm[n]
      BY DEF VoteTypes, Frame
    <2>2. \A i \in 1..Len(log[n]) : log[n][i].term \in Nat /\ log[n][i].term <= currentTerm[n]
      <3>1. log[n] \in Seq(LogEntry)
        BY <1>1 DEF Good
      <3>2. \A i \in 1..Len(log[n]) : log[n][i] \in LogEntry
        BY <3>1
      <3> QED
        BY <1>1, <3>2 DEF UpToTerm, LogEntry
    <2> QED
      BY <2>1, <2>2 DEF UpToTerm
  <1>6. MatchInv'
    BY <1>1, <1>4, <1>5 DEF MatchInv
  <1>7. MessageInv'
    <2>1. /\ \A b \in msgs : b.kind = "AppendEntries" => RequestOK(b)'
          /\ \A b \in msgs : b.kind = "AppendEntriesReply" => ReplyOK(b)'
      BY FrameKeeps
    <2> QED
      BY <2>1 DEF MessageInv
  <1> QED
    BY <1>6, <1>7 DEF LogInv

(***************************************************************************)
(* The steps that leave the logs alone: Elect, RequestVote, GetVoteAnswer, *)
(* the collectVote that does not win, stale replies, and the loss of one.  *)
(***************************************************************************)
LEMMA QuietLogStep ==
  ASSUME VoteTypes, VoteTypes', LogInv, UNCHANGED <<logVars, leaders>>,
         \A n \in Nodes :
           /\ currentTerm'[n] >= currentTerm[n]
           /\ role'[n] = "LEADER" => role[n] = "LEADER" /\ currentTerm'[n] = currentTerm[n]
           /\ role'[n] = "CANDIDATE" => currentTerm'[n] > 0,
         \A b \in msgs' : b \in msgs \/ b.kind \in {"RequestVote", "RequestVoteReply"}
  PROVE  LogInv'
PROOF
  <1>1. UNCHANGED <<log, nextIndex, matchIndex, commitIndex, leaderLog, committed>>
    BY DEF logVars
  <1>2. ReplicationTypes' /\ LeaderLogInv'
    BY <1>1 DEF LogInv, ReplicationTypes, LeaderLogInv
  <1>3. \A t \in DOMAIN leaderLog : leaderLog[t] \in Seq(LogEntry)
    BY DEF LogInv, MatchInv, Good
  <1>4. Frame
    BY <1>1, <1>3 DEF Frame, GrowTo, Agree
  <1>5. ProgressInv'
    <2> SUFFICES ASSUME NEW n \in Nodes, role'[n] = "LEADER", NEW m \in Peers(n)
                 PROVE  /\ nextIndex'[n][m] \in 1..Len(log'[n])
                        /\ \/ matchIndex'[n][m] = 0
                           \/ Holds(m, currentTerm[n], matchIndex[n][m] + 1)'
      BY DEF ProgressInv
    <2>1. Len(log[n]) \in Nat
      BY DEF LogInv, ReplicationTypes
    <2>2. /\ nextIndex[n][m] \in 1..Len(log'[n])
          /\ \/ matchIndex[n][m] = 0
             \/ \A i : i = matchIndex[n][m] => Holds(m, currentTerm[n], i + 1)'
      BY <1>1, <1>2, <1>4, <2>1, ProgressKept
    <2> QED
      BY <1>1, <2>2 DEF Holds
  <1> QED
    BY <1>1, <1>2, <1>4, <1>5, LogStep
-----------------------------------------------------------------------------
(* The steps of the replication. *)

\* The log of a leader is that of its term, and no other leads in it.
LEMMA LeaderFacts ==
  ASSUME ElectionInv, LogInv, NEW n \in Nodes, role[n] = "LEADER"
  PROVE  /\ currentTerm[n] \in DOMAIN leaderLog /\ leaderLog[currentTerm[n]] = log[n]
         /\ Led(n, currentTerm[n])
         /\ \A m \in Nodes : Led(m, currentTerm[n]) => m = n
         /\ \A m \in Nodes : role[m] = "LEADER" /\ currentTerm[m] = currentTerm[n] => m = n
PROOF
  <1>1. Led(n, currentTerm[n])
    BY DEF ElectionInv, LeaderInv
  <1>2. \A m \in Nodes : Led(m, currentTerm[n]) => m = n
    BY <1>1 DEF ElectionInv, OneLeaderPerTerm, Led
  <1>3. \A m \in Nodes : role[m] = "LEADER" /\ currentTerm[m] = currentTerm[n] => m = n
    BY <1>2 DEF ElectionInv, LeaderInv
  <1> QED
    BY <1>1, <1>2, <1>3 DEF LogInv, LeaderLogInv, Led

\* A term that a candidate wins had no leader.
LEMMA WonTermIsNew ==
  ASSUME ElectionInv, ElectionInv', LogInv, NEW n \in Nodes, role[n] = "CANDIDATE",
         leaders' = leaders \cup {[node |-> n, term |-> currentTerm[n], voters |-> voters[n]]}
  PROVE  currentTerm[n] \notin DOMAIN leaderLog
PROOF
  <1> DEFINE T == currentTerm[n]
  <1>1. T \in Nat /\ T > 0 /\ DOMAIN leaderLog = {0} \cup {l.term : l \in leaders}
    BY DEF LogInv, LeaderLogInv, ElectionInv, VoteTypes
  <1>2. ASSUME NEW l \in leaders, l.term = T PROVE FALSE
    <2>1. l \in leaders' /\ [node |-> n, term |-> T, voters |-> voters[n]] \in leaders'
      OBVIOUS
    <2>2. OneLeaderPerTerm'
      BY DEF ElectionInv
    <2>3. l.node = n
      BY <1>2, <2>1, <2>2 DEF OneLeaderPerTerm
    <2> QED
      BY <1>2, <2>3 DEF ElectionInv, CandidateInv, Led
  <1> QED BY <1>1, <1>2

LEMMA WinStep ==
  ASSUME ElectionInv, ElectionInv', LogInv, NEW t \in collecting, CollectVote(t)
  PROVE  LogInv'
PROOF
  <1> DEFINE n == t.node
             ours == t.term = currentTerm[n] /\ ~IsMajority(voteCount[n])
             count == IF ours THEN voteCount[n] + 1 ELSE voteCount[n]
             wins == ours /\ IsMajority(count) /\ role[n] = "CANDIDATE"
             T == currentTerm[n]
  <1>0. VoteTypes /\ VoteTypes'
    BY DEF ElectionInv
  <1>1. /\ currentTerm \in [Nodes -> Nat] /\ role \in [Nodes -> {"FOLLOWER", "CANDIDATE", "LEADER"}]
        /\ n \in Nodes /\ T \in Nat
    BY <1>0 DEF VoteTypes
  <1>2. UNCHANGED <<currentTerm, log, commitIndex, committed, msgs>>
    BY DEF CollectVote
  <1>3. CASE ~wins
    <2>1. UNCHANGED <<role, nextIndex, matchIndex, leaders, leaderLog>>
      BY <1>3 DEF CollectVote
    <2>2. \A m \in Nodes : role[m] = "CANDIDATE" => currentTerm[m] > 0
      BY DEF LogInv, LeaderLogInv
    <2> HIDE DEF n
    <2> QED
      BY <1>0, <1>1, <1>2, <2>1, <2>2, QuietLogStep DEF logVars
  <1>4. CASE wins
    <2>1. /\ role' = [role EXCEPT ![n] = "LEADER"]
          /\ nextIndex' = [nextIndex EXCEPT ![n] = [m \in Nodes |-> Len(log[n])]]
          /\ matchIndex' = [matchIndex EXCEPT ![n] = [m \in Nodes |-> 0]]
          /\ leaders' = leaders \cup {[node |-> n, term |-> T, voters |-> voters[n]]}
          /\ leaderLog' = [u \in DOMAIN leaderLog \cup {T} |->
                             IF u = T THEN log[n] ELSE leaderLog[u]]
          /\ role[n] = "CANDIDATE"
      BY <1>4 DEF CollectVote
    <2>2. T \notin DOMAIN leaderLog
      BY <1>1, <2>1, WonTermIsNew
    <2> HIDE DEF n, T, wins
    <2>3. /\ ReplicationTypes
          /\ \A m \in Nodes : log[m] \in Seq(LogEntry) /\ Len(log[m]) \in Nat /\ Len(log[m]) >= 1
          /\ nextIndex \in [Nodes -> [Nodes -> Nat]]
          /\ matchIndex \in [Nodes -> [Nodes -> Nat]]
      BY DEF LogInv, ReplicationTypes, MatchInv, Good
    <2>4. ReplicationTypes'
      BY <1>1, <1>2, <2>1, <2>3 DEF ReplicationTypes
    <2>5. \A u \in DOMAIN leaderLog : leaderLog'[u] = leaderLog[u] /\ leaderLog[u] \in Seq(LogEntry)
      BY <2>1, <2>2 DEF LogInv, MatchInv, Good
    <2>6. DOMAIN leaderLog' = DOMAIN leaderLog \cup {T} /\ leaderLog'[T] = log[n]
      BY <2>1
    <2>7. ASSUME NEW m \in Nodes, m # n
          PROVE  /\ role'[m] = role[m] /\ nextIndex'[m] = nextIndex[m]
                 /\ matchIndex'[m] = matchIndex[m]
      BY <1>1, <2>1, <2>3, <2>7
    <2>8. role'[n] = "LEADER" /\ T = currentTerm[n]
      BY <1>1, <2>1 DEF T
    <2>9. GrowTo(leaderLog, leaderLog') /\ Frame
      <3>1. GrowTo(leaderLog, leaderLog')
        BY <2>5, <2>6 DEF GrowTo, Agree
      <3> QED
        BY <1>1, <1>2, <2>1, <2>5, <3>1 DEF Frame
    <2>10. LeaderLogInv'
      <3>1. DOMAIN leaderLog' = {0} \cup {l.term : l \in leaders'}
        <4>1. DOMAIN leaderLog = {0} \cup {l.term : l \in leaders}
          BY DEF LogInv, LeaderLogInv
        <4>2. {l.term : l \in leaders'} = {l.term : l \in leaders} \cup {T}
          <5> DEFINE l0 == [node |-> n, term |-> T, voters |-> voters[n]]
          <5>1. leaders' = leaders \cup {l0} /\ l0.term = T
            BY <2>1
          <5> HIDE DEF l0
          <5> QED BY <5>1
        <4> QED BY <2>6, <4>1, <4>2
      <3>2. ASSUME NEW m \in Nodes, role'[m] = "LEADER" PROVE log[m] = leaderLog'[currentTerm[m]]
        <4>1. CASE m = n
          BY <2>6, <2>8, <4>1
        <4>2. CASE m # n
          <5>1. role[m] = "LEADER"
            BY <2>7, <3>2, <4>2
          <5> QED
            BY <2>5, <5>1, LeaderFacts
        <4> QED BY <4>1, <4>2
      <3>3. ASSUME NEW m \in Nodes, role'[m] = "CANDIDATE" PROVE currentTerm[m] > 0
        <4>1. m # n
          BY <2>8, <3>3
        <4> QED
          BY <2>7, <3>3, <4>1 DEF LogInv, LeaderLogInv
      <3> QED
        BY <1>2, <3>1, <3>2, <3>3 DEF LeaderLogInv
    <2>11. Good(log[n], leaderLog') /\ UpToTerm(log[n], T)
      <3>1. Good(log[n], leaderLog) /\ UpToTerm(log[n], T)
        BY <1>1, <2>8 DEF LogInv, MatchInv
      <3> QED
        BY <2>5, <2>9, <3>1, GoodKept
    <2>12. ProgressInv'
      <3> SUFFICES ASSUME NEW m \in Nodes, role'[m] = "LEADER", NEW p \in Peers(m)
                   PROVE  /\ nextIndex'[m][p] \in 1..Len(log'[m])
                          /\ \/ matchIndex'[m][p] = 0
                             \/ Holds(p, currentTerm[m], matchIndex[m][p] + 1)'
        BY DEF ProgressInv
      <3>1. CASE m = n
        <4>1. p \in Nodes
          BY DEF Peers
        <4>2. nextIndex'[m][p] = Len(log[m]) /\ matchIndex'[m][p] = 0
          BY <1>1, <2>1, <2>3, <3>1, <4>1
        <4> QED
          BY <1>2, <2>3, <4>2
      <3>2. CASE m # n
        <4>1. /\ role[m] = "LEADER" /\ nextIndex'[m] = nextIndex[m]
              /\ matchIndex'[m] = matchIndex[m] /\ Len(log'[m]) >= Len(log[m])
          BY <1>2, <2>3, <2>7, <3>2
        <4>2. /\ nextIndex[m][p] \in 1..Len(log'[m])
              /\ \/ matchIndex[m][p] = 0
                 \/ \A i : i = matchIndex[m][p] => Holds(p, currentTerm[m], i + 1)'
          BY <1>0, <1>2, <2>4, <2>9, <4>1, ProgressKept
        <4> QED
          BY <4>1, <4>2 DEF Holds
      <3> QED BY <3>1, <3>2
    <2>13. \A u \in DOMAIN leaderLog' :
             \/ u \in DOMAIN leaderLog /\ leaderLog'[u] = leaderLog[u]
             \/ Good(leaderLog'[u], leaderLog') /\ UpToTerm(leaderLog'[u], u)
      BY <2>5, <2>6, <2>11
    <2> QED
      BY <1>0, <1>2, <2>4, <2>9, <2>10, <2>12, <2>13, LogStep
  <1> QED
    BY <1>3, <1>4

LEMMA HostAppendStep ==
  ASSUME ElectionInv, ElectionInv', LogInv, NEW n \in Nodes, HostAppend(n)
  PROVE  LogInv'
PROOF
  <1> DEFINE T == currentTerm[n]
             e == [term |-> currentTerm[n], from |-> n]
             L == log[n]
             M == Append(log[n], e)
  <1>0. VoteTypes /\ VoteTypes'
    BY DEF ElectionInv
  <1>1. /\ role[n] = "LEADER"
        /\ log' = [log EXCEPT ![n] = M]
        /\ leaderLog' = [leaderLog EXCEPT ![T] = log'[n]]
        /\ UNCHANGED <<currentTerm, role, leaders, nextIndex, matchIndex, commitIndex, committed, msgs>>
    BY DEF HostAppend, electionVars
  <1>2. /\ T \in DOMAIN leaderLog /\ leaderLog[T] = L
        /\ \A m \in Nodes : role[m] = "LEADER" /\ currentTerm[m] = T => m = n
    BY <1>1, LeaderFacts
  <1>3. /\ log \in [Nodes -> Seq(LogEntry)] /\ L \in Seq(LogEntry) /\ T \in Nat /\ e \in LogEntry
        /\ e.term = T
    BY <1>0 DEF LogInv, ReplicationTypes, VoteTypes, LogEntry
  <1> HIDE DEF e
  <1>4. /\ M \in Seq(LogEntry) /\ Len(M) = Len(L) + 1 /\ Len(L) \in Nat
        /\ \A i \in 1..Len(L) : M[i] = L[i]
        /\ M[Len(L) + 1] = e
    BY <1>3, AppendProperties
  <1> HIDE DEF M
  <1>5. /\ DOMAIN leaderLog' = DOMAIN leaderLog /\ leaderLog'[T] = M /\ log'[n] = M
        /\ \A u \in DOMAIN leaderLog : u # T => leaderLog'[u] = leaderLog[u]
        /\ \A m \in Nodes : m # n => log'[m] = log[m]
        /\ log' \in [Nodes -> Seq(LogEntry)]
    BY <1>1, <1>2, <1>3, <1>4
  <1> HIDE DEF T, L
  <1>6. \A u \in DOMAIN leaderLog : leaderLog[u] \in Seq(LogEntry)
    BY DEF LogInv, MatchInv, Good
  <1>7. Agree(L, M, Len(L))
    BY <1>4 DEF Agree
  <1>8. GrowTo(leaderLog, leaderLog')
    <2>1. ASSUME NEW u \in DOMAIN leaderLog
          PROVE  leaderLog'[u] \in Seq(LogEntry) /\ Agree(leaderLog[u], leaderLog'[u], Len(leaderLog[u]))
      <3>1. CASE u = T
        BY <1>2, <1>4, <1>5, <1>7, <3>1
      <3>2. CASE u # T
        BY <1>5, <1>6, <3>2 DEF Agree
      <3> QED BY <3>1, <3>2
    <2> QED BY <1>5, <2>1 DEF GrowTo
  <1>9. T = currentTerm[n] /\ L = log[n]
    BY DEF T, L
  <1>10. Frame
    <2>1. ASSUME NEW m \in Nodes, currentTerm[m] \in DOMAIN leaderLog, NEW i \in Nat,
                 Agree(log[m], leaderLog[currentTerm[m]], i)
          PROVE  Agree(log'[m], leaderLog'[currentTerm[m]], i)
      <3>1. log[m] \in Seq(LogEntry) /\ Len(log[m]) \in Nat
        BY <1>3
      <3>2. CASE currentTerm[m] # T
        BY <1>5, <1>9, <2>1, <3>2
      <3>3. CASE currentTerm[m] = T
        <4>1. Agree(log[m], L, i)
          BY <1>2, <2>1, <3>3
        <4>2. Agree(log[m], M, i)
          BY <1>4, <4>1 DEF Agree
        <4>3. i <= Len(M)
          BY <4>2 DEF Agree
        <4>4. Agree(M, M, i)
          BY <4>3 DEF Agree
        <4> QED BY <1>5, <3>3, <4>2, <4>4
      <3> QED BY <3>2, <3>3
    <2>2. \A m \in Nodes : currentTerm'[m] >= currentTerm[m]
      BY <1>0, <1>1 DEF VoteTypes
    <2> QED
      BY <1>1, <1>8, <2>1, <2>2 DEF Frame
  <1>11. ReplicationTypes'
    BY <1>1, <1>5 DEF LogInv, ReplicationTypes
  <1>12. LeaderLogInv'
    <2>1. ASSUME NEW m \in Nodes, role[m] = "LEADER" PROVE log'[m] = leaderLog'[currentTerm[m]]
      <3>1. CASE m = n
        BY <1>5, <1>9, <3>1
      <3>2. CASE m # n
        <4>1. /\ currentTerm[m] # T /\ currentTerm[m] \in DOMAIN leaderLog
              /\ log[m] = leaderLog[currentTerm[m]]
          BY <1>2, <2>1, <3>2, LeaderFacts
        <4> QED BY <1>5, <3>2, <4>1
      <3> QED BY <3>1, <3>2
    <2> QED
      BY <1>1, <1>5, <2>1 DEF LogInv, LeaderLogInv
  <1>13. Good(M, leaderLog') /\ UpToTerm(M, T)
    <2>1. Good(L, leaderLog) /\ UpToTerm(L, T)
      BY <1>9 DEF LogInv, MatchInv
    <2>2. Good(L, leaderLog')
      BY <1>6, <1>8, <2>1, GoodKept
    <2>3. \A i \in 1..Len(L) : L[i].term \in Nat /\ L[i].term <= T /\ M[i].term = L[i].term
      <3>1. \A i \in 1..Len(L) : L[i] \in LogEntry
        BY <1>3, <1>9
      <3> QED
        BY <1>4, <2>1, <3>1 DEF UpToTerm, LogEntry
    <2>4. \A i \in 1..Len(M) : i \in 1..Len(L) \/ i = Len(L) + 1
      BY <1>4
    <2>5. UpToTerm(M, T)
      BY <1>3, <1>4, <2>3, <2>4 DEF UpToTerm
    <2>6. ASSUME NEW i \in 1..Len(M)
          PROVE  M[i].term \in DOMAIN leaderLog' /\ Agree(M, leaderLog'[M[i].term], i)
      <3>1. CASE i \in 1..Len(L)
        <4>1. L[i].term \in DOMAIN leaderLog' /\ Agree(L, leaderLog'[L[i].term], i)
          BY <2>2, <3>1 DEF Good
        <4>2. Agree(M, leaderLog'[L[i].term], i)
          BY <1>4, <3>1, <4>1 DEF Agree
        <4> QED BY <2>3, <3>1, <4>1, <4>2
      <3>2. CASE i = Len(L) + 1
        <4>1. Agree(M, M, i)
          BY <1>4 DEF Agree
        <4> QED
          BY <1>2, <1>3, <1>4, <1>5, <3>2, <4>1
      <3> QED BY <2>4, <3>1, <3>2
    <2>7. \A i, j \in 1..Len(M) : i <= j => M[i].term <= M[j].term
      <3>1. \A i, j \in 1..Len(L) : i <= j => L[i].term <= L[j].term
        BY <2>1 DEF Good
      <3> QED
        BY <1>3, <1>4, <2>3, <2>4, <3>1
    <2>8. Len(M) >= 1 /\ M[1] = BlankEntry
      BY <1>4, <2>1 DEF Good
    <2> QED
      BY <1>4, <2>5, <2>6, <2>7, <2>8 DEF Good
  <1>14. ProgressInv'
    <2> SUFFICES ASSUME NEW m \in Nodes, role'[m] = "LEADER", NEW p \in Peers(m)
                 PROVE  /\ nextIndex'[m][p] \in 1..Len(log'[m])
                        /\ \/ matchIndex'[m][p] = 0
                           \/ Holds(p, currentTerm[m], matchIndex[m][p] + 1)'
      BY DEF ProgressInv
    <2>1. /\ role[m] = "LEADER" /\ currentTerm'[m] = currentTerm[m]
          /\ Len(log'[m]) >= Len(log[m])
      <3>1. Len(log[m]) \in Nat
        BY <1>3
      <3> QED BY <1>1, <1>4, <1>5, <1>9, <3>1
    <2>2. /\ nextIndex[m][p] \in 1..Len(log'[m])
          /\ \/ matchIndex[m][p] = 0
             \/ \A i : i = matchIndex[m][p] => Holds(p, currentTerm[m], i + 1)'
      BY <1>0, <1>10, <1>11, <2>1, ProgressKept
    <2> QED
      BY <1>1, <2>2 DEF Holds
  <1>15. \A m \in Nodes : \/ log'[m] = log[m]
                          \/ Good(log'[m], leaderLog') /\ UpToTerm(log'[m], currentTerm'[m])
    BY <1>1, <1>5, <1>9, <1>13
  <1>16. \A u \in DOMAIN leaderLog' :
           \/ u \in DOMAIN leaderLog /\ leaderLog'[u] = leaderLog[u]
           \/ Good(leaderLog'[u], leaderLog') /\ UpToTerm(leaderLog'[u], u)
    BY <1>5, <1>13
  <1> QED
    BY <1>0, <1>1, <1>10, <1>11, <1>12, <1>14, <1>15, <1>16, LogStep

LEMMA SendHeartBeatsStep ==
  ASSUME ElectionInv, ElectionInv', LogInv, NEW n \in Nodes, SendHeartBeats(n)
  PROVE  LogInv'
PROOF
  <1>0. VoteTypes /\ VoteTypes'
    BY DEF ElectionInv
  <1>1. /\ role[n] = "LEADER"
        /\ UNCHANGED <<currentTerm, role, leaders, log, nextIndex, matchIndex, commitIndex,
                       leaderLog, committed>>
        /\ \A b \in msgs' : b \in msgs \/ \E m \in Peers(n) : b = AppendEntriesArgs(n, m)
    BY DEF SendHeartBeats, Send, electionVars, logVars
  <1>2. /\ currentTerm[n] \in DOMAIN leaderLog /\ leaderLog[currentTerm[n]] = log[n]
        /\ Led(n, currentTerm[n])
    BY <1>1, LeaderFacts
  <1>3. ASSUME NEW m \in Peers(n)
        PROVE  RequestOK(AppendEntriesArgs(n, m))
    <2> DEFINE a == AppendEntriesArgs(n, m)
               p == nextIndex[n][m] - 1
               L == log[n]
               e == SubSeq(L, p + 2, Len(L))
    <2>1. /\ nextIndex[n][m] \in 1..Len(L) /\ L \in Seq(LogEntry) /\ Len(L) \in Nat
          /\ commitIndex[n] \in Nat
      BY <1>1 DEF LogInv, ProgressInv, ReplicationTypes
    <2>2. p \in Nat /\ p + 1 <= Len(L)
      BY <2>1
    <2>3. /\ a.from = n /\ a.term = currentTerm[n] /\ a.prevlogindex = p
          /\ a.prevlogterm = L[p + 1].term /\ a.entries = e /\ a.leadercommit = commitIndex[n]
      BY DEF AppendEntriesArgs, Entry
    <2> HIDE DEF a, p
    <2>4. /\ e \in Seq(LogEntry) /\ Len(e) = Len(L) - p - 1
          /\ \A j \in 1..Len(e) : e[j] = L[p + 1 + j]
      <3>1. \A i \in p + 2 .. Len(L) : L[i] \in LogEntry
        BY <2>1, <2>2
      <3>2. /\ SubSeq(L, p + 2, Len(L)) \in Seq(LogEntry)
            /\ Len(SubSeq(L, p + 2, Len(L)))
                 = IF p + 2 <= Len(L) THEN Len(L) - (p + 2) + 1 ELSE 0
            /\ \A i \in 1 .. Len(L) - (p + 2) + 1 : SubSeq(L, p + 2, Len(L))[i] = L[p + 2 + i - 1]
        <4> HIDE DEF L
        <4>1. p + 2 \in Int /\ Len(L) \in Int
          BY <2>1, <2>2
        <4> QED BY <3>1, <4>1, SubSeqProperties
      <3>3. Len(e) = Len(L) - p - 1
        BY <2>1, <2>2, <3>2
      <3>4. ASSUME NEW j \in 1..Len(e) PROVE e[j] = L[p + 1 + j]
        <4>1. j \in 1 .. Len(L) - (p + 2) + 1 /\ p + 2 + j - 1 = p + 1 + j
          BY <2>1, <2>2, <3>3
        <4> QED BY <3>2, <4>1
      <3> QED BY <3>2, <3>3, <3>4
    <2> HIDE DEF e, L
    <2>5. PartOf(e, L, p)
      BY <2>1, <2>2, <2>4 DEF PartOf
    <2>6. L[p + 1].term \in Nat
      <3>1. L[p + 1] \in LogEntry
        BY <2>1, <2>2
      <3> QED BY <3>1 DEF LogEntry
    <2>7. leaderLog[a.term] = L
      BY <1>2, <2>3 DEF L
    <2>8. RequestOK(a)
      BY <1>2, <2>1, <2>2, <2>3, <2>5, <2>6, <2>7 DEF RequestOK
    <2> QED BY <2>8 DEF a
  <1>4. ASSUME NEW m \in Peers(n), NEW b, b = AppendEntriesArgs(n, m)
        PROVE  b.kind = "AppendEntries" /\ RequestOK(b)'
    <2>1. b.kind = "AppendEntries" /\ RequestOK(b)
      BY <1>3, <1>4 DEF AppendEntriesArgs
    <2> QED
      BY <1>1, <2>1 DEF RequestOK, Led
  <1>5. ReplicationTypes' /\ LeaderLogInv' /\ ProgressInv'
    BY <1>1 DEF LogInv, ReplicationTypes, LeaderLogInv, ProgressInv, Holds
  <1>6. \A t \in DOMAIN leaderLog : leaderLog[t] \in Seq(LogEntry)
    BY DEF LogInv, MatchInv, Good
  <1>7. Frame
    BY <1>0, <1>1, <1>6 DEF Frame, GrowTo, Agree, VoteTypes
  <1>8. \A b \in msgs' : b \in msgs \/ (b.kind = "AppendEntries" /\ RequestOK(b)')
    BY <1>1, <1>4
  <1> QED
    BY <1>0, <1>1, <1>5, <1>7, <1>8, LogStep

\* Where a follower sends a leader back to is not behind the request.
LEMMA XIndexInLog ==
  ASSUME NEW n \in Nodes, NEW p \in Nat, commitIndex[n] \in Nat
  PROVE  XIndex(n, p) \in 1..p + 1
PROOF
  <1> DEFINE S == {i \in 0..p : i <= commitIndex[n] \/ Entry(n, i).term # Entry(n, p).term}
  <1>1. S \in SUBSET (0..p) /\ 0 \in S
    OBVIOUS
  <1>2. XIndex(n, p) = 1 + Max(S)
    BY DEF XIndex
  <1> HIDE DEF S
  <1>3. Max(S) \in 0..p
    BY <1>1, GreatestNumber
  <1> QED BY <1>2, <1>3

(***************************************************************************)
(* The handler, for a request of a leader with the log X: its reply is     *)
(* true, and the log it leaves is again one that agrees with X.            *)
(***************************************************************************)
LEMMA AppendReplyOK ==
  ASSUME LogInv, NEW n \in Nodes, NEW a, RequestOK(a), a.term \in DOMAIN leaderLog
  PROVE  LET r == AppendReply(n, a)
             X == leaderLog[a.term]
         IN /\ r.success \in BOOLEAN /\ r.xterm \in Int
            /\ ~r.success => /\ r.xterm = -1 => r.xlen \in 1..Len(X)
                             /\ r.xterm # -1 => r.xindex \in 1..Len(X)
            /\ r.success => /\ a.prevlogindex + 1 <= Len(log[n])
                            /\ log[n][a.prevlogindex + 1].term = a.prevlogterm
PROOF
  <1> DEFINE r == AppendReply(n, a)
             X == leaderLog[a.term]
             p == a.prevlogindex
             L == log[n]
  <1>1. /\ L \in Seq(LogEntry) /\ Len(L) \in Nat /\ Len(L) >= 1
        /\ X \in Seq(LogEntry) /\ Len(X) \in Nat /\ commitIndex[n] \in Nat
    BY DEF LogInv, MatchInv, Good, ReplicationTypes
  <1>2. p \in Nat /\ p + 1 <= Len(X)
    <2>1. p \in Nat /\ Len(a.entries) \in Nat /\ p + 1 + Len(a.entries) <= Len(X)
      BY DEF RequestOK, PartOf
    <2> QED BY <1>1, <2>1
  <1>3. CASE p > LastIndex(n)
    <2>1. r = [success |-> FALSE, xterm |-> -1, xindex |-> 0, xlen |-> Len(L)]
      BY <1>3 DEF AppendReply
    <2>2. Len(L) \in 1..Len(X)
      BY <1>1, <1>2, <1>3 DEF LastIndex
    <2> QED BY <2>1, <2>2
  <1>4. CASE ~(p > LastIndex(n))
    <2>1. p + 1 <= Len(L) /\ Entry(n, p) = L[p + 1]
      BY <1>1, <1>2, <1>4 DEF LastIndex, Entry
    <2>2. L[p + 1].term \in Nat
      <3>1. L[p + 1] \in LogEntry
        BY <1>1, <1>2, <2>1
      <3> QED BY <3>1 DEF LogEntry
    <2>3. CASE Entry(n, p).term # a.prevlogterm
      <3>1. r = [success |-> FALSE, xterm |-> Entry(n, p).term, xindex |-> XIndex(n, p),
                 xlen |-> Len(L)]
        BY <1>4, <2>3 DEF AppendReply
      <3>2. XIndex(n, p) \in 1..p + 1
        BY <1>1, <1>2, XIndexInLog
      <3>3. XIndex(n, p) \in 1..Len(X)
        BY <1>1, <1>2, <3>2
      <3> QED BY <2>1, <2>2, <3>1, <3>3
    <2>4. CASE Entry(n, p).term = a.prevlogterm
      <3>1. r = [success |-> TRUE, xterm |-> 0, xindex |-> 0, xlen |-> 0]
        BY <1>4, <2>4 DEF AppendReply
      <3> QED BY <2>1, <2>4, <3>1
    <2> QED BY <2>3, <2>4
  <1> QED BY <1>3, <1>4

(***************************************************************************)
(* What AppendEntries does with request a: the log M, the commitIndex and  *)
(* the reply c that it leaves.                                             *)
(***************************************************************************)
AppendOutcome(n, a, M, commit, c) ==
  LET X == leaderLog[a.term]
      k == a.prevlogindex + 1 + Len(a.entries)
  IN /\ log' = [log EXCEPT ![n] = M] /\ commitIndex' = [commitIndex EXCEPT ![n] = commit]
     /\ msgs' = (msgs \ {a}) \cup {c}
     /\ c.kind = "AppendEntriesReply" /\ c.from = n /\ c.to = a.from /\ c.request = a.term
     /\ c.acked = a.prevlogindex + Len(a.entries) /\ c.term = currentTerm'[n]
     /\ c.reply.success \in BOOLEAN /\ c.reply.xterm \in Int
     /\ M \in Seq(LogEntry) /\ commit \in Nat
     /\ c.reply.success =>
          /\ ~(a.term < currentTerm[n]) /\ Agree(M, X, k)
          /\ M = log[n] \/ Len(M) = k
          /\ \A i \in Nat : Agree(log[n], X, i) => Agree(M, X, i)
          /\ a.leadercommit > commitIndex[n] => commit = Min({a.leadercommit, Len(M) - 1})
          /\ ~(a.leadercommit > commitIndex[n]) => commit = commitIndex[n]
     /\ ~c.reply.success => M = log[n] /\ commit = commitIndex[n]
     /\ ~c.reply.success /\ ~(a.term < currentTerm[n]) =>
          /\ c.reply.xterm = -1 => c.reply.xlen \in 1..Len(X)
          /\ c.reply.xterm # -1 => c.reply.xindex \in 1..Len(X)

LEMMA AppendEntriesFacts ==
  ASSUME ElectionInv, ElectionInv', LogInv, NEW n \in Nodes, NEW a \in msgs, AppendEntries(n, a)
  PROVE  \E M, commit, c : AppendOutcome(n, a, M, commit, c)
PROOF
  <1> DEFINE T == a.term
             X == leaderLog[a.term]
             old == a.term < currentTerm[n]
             reply == IF old THEN RefusedAsOld ELSE AppendReply(n, a)
             L == log[n]
             p == a.prevlogindex
             M == IF reply.success THEN Merged(log[n], a.prevlogindex, a.entries) ELSE log[n]
             k == a.prevlogindex + 1 + Len(a.entries)
             commit == IF reply.success /\ a.leadercommit > commitIndex[n]
                       THEN Min({a.leadercommit, Len(M) - 1}) ELSE commitIndex[n]
             b == [ kind |-> "AppendEntriesReply", from |-> n, to |-> a.from,
                    request |-> a.term, acked |-> a.prevlogindex + Len(a.entries),
                    term |-> currentTerm'[n], reply |-> reply ]
  <1>0. VoteTypes /\ VoteTypes'
    BY DEF ElectionInv
  <1>1. /\ currentTerm \in [Nodes -> Nat] /\ currentTerm' \in [Nodes -> Nat]
        /\ Header(a)
    BY <1>0 DEF VoteTypes
  <1>2. /\ a.kind = "AppendEntries" /\ a.to = n
        /\ log' = [log EXCEPT ![n] = M]
        /\ commitIndex' = [commitIndex EXCEPT ![n] = commit]
        /\ msgs' = (msgs \ {a}) \cup {b}
    BY DEF AppendEntries
  <1>3. /\ a.from \in Nodes /\ a.from # n /\ T \in Nat /\ currentTerm[n] \in Nat
    BY <1>1, <1>2 DEF Header
  <1>4. /\ RequestOK(a) /\ Led(a.from, T) /\ T \in DOMAIN leaderLog
    BY <1>2 DEF LogInv, MessageInv, RequestOK, LeaderLogInv, Led
  <1>5. /\ p \in Nat /\ Len(a.entries) \in Nat /\ a.leadercommit \in Nat /\ k \in Nat /\ k >= 1
        /\ k <= Len(X) /\ PartOf(a.entries, X, p)
    BY <1>4 DEF RequestOK, PartOf
  <1>6. /\ log \in [Nodes -> Seq(LogEntry)] /\ L \in Seq(LogEntry) /\ Len(L) \in Nat /\ Len(L) >= 1
        /\ commitIndex \in [Nodes -> Nat]
        /\ Good(L, leaderLog) /\ Good(X, leaderLog)
        /\ UpToTerm(L, currentTerm[n]) /\ UpToTerm(X, T)
        /\ X \in Seq(LogEntry) /\ Len(X) \in Nat
    <2>1. log \in [Nodes -> Seq(LogEntry)] /\ commitIndex \in [Nodes -> Nat]
      BY DEF LogInv, ReplicationTypes
    <2>2. /\ Good(L, leaderLog) /\ Good(X, leaderLog)
          /\ UpToTerm(L, currentTerm[n]) /\ UpToTerm(X, T)
      BY <1>4 DEF LogInv, MatchInv
    <2>3. L \in Seq(LogEntry) /\ Len(L) >= 1 /\ X \in Seq(LogEntry)
      BY <2>2 DEF Good
    <2> HIDE DEF L, X
    <2> QED BY <2>1, <2>2, <2>3
  <1>7. /\ reply.success \in BOOLEAN /\ reply.xterm \in Int
        /\ reply.success => /\ ~old /\ p + 1 <= Len(L)
                            /\ L[p + 1].term = a.prevlogterm
        /\ ~reply.success /\ ~old => /\ reply.xterm = -1 => reply.xlen \in 1..Len(X)
                                     /\ reply.xterm # -1 => reply.xindex \in 1..Len(X)
    <2>1. CASE old
      BY <2>1 DEF RefusedAsOld
    <2>2. CASE ~old
      <3>1. reply = AppendReply(n, a)
        BY <2>2
      <3> QED
        BY <1>4, <2>2, <3>1, AppendReplyOK
    <2> QED BY <2>1, <2>2
  <1>8. ASSUME reply.success
        PROVE  /\ M \in Seq(LogEntry) /\ Agree(M, X, k)
               /\ M = L \/ Len(M) = k
               /\ \A i \in Nat : Agree(L, X, i) => Agree(M, X, i)
    <2>1. M = Merged(L, p, a.entries)
      BY <1>8
    <2>2. L[p + 1].term = X[p + 1].term /\ p + 1 <= Len(L)
      BY <1>4, <1>7, <1>8 DEF RequestOK
    <2> HIDE DEF M, X, L, p
    <2>3. /\ Merged(L, p, a.entries) \in Seq(LogEntry) /\ Agree(Merged(L, p, a.entries), X, p + 1 + Len(a.entries))
          /\ Merged(L, p, a.entries) = L \/ Len(Merged(L, p, a.entries)) = p + 1 + Len(a.entries)
          /\ \A i \in Nat : Agree(L, X, i) => Agree(Merged(L, p, a.entries), X, i)
      BY <1>5, <1>6, <2>2, MergedAgrees
    <2> QED BY <2>1, <2>3 DEF p
  <1>9. ~reply.success => M = L
    OBVIOUS
  <1>10. commit \in Nat
    <2>1. CASE ~(reply.success /\ a.leadercommit > commitIndex[n])
      BY <1>6, <2>1
    <2>2. CASE reply.success /\ a.leadercommit > commitIndex[n]
      <3>1. M \in Seq(LogEntry) /\ Agree(M, X, k)
        BY <1>8, <2>2
      <3>2. Len(M) \in Nat /\ Len(M) >= 1
        <4> HIDE DEF M
        <4>1. Len(M) \in Nat
          BY <3>1
        <4>2. k <= Len(M)
          BY <3>1 DEF Agree
        <4> HIDE DEF k
        <4> QED BY <1>5, <4>1, <4>2
      <3>3. {a.leadercommit, Len(M) - 1} \in SUBSET Nat
        BY <1>5, <3>2
      <3>4. Min({a.leadercommit, Len(M) - 1}) \in {a.leadercommit, Len(M) - 1}
        BY <3>3, LeastNumber
      <3> QED BY <2>2, <3>3, <3>4
    <2> QED BY <2>1, <2>2
  <1>12. PICK c : /\ c = b /\ c.kind = "AppendEntriesReply" /\ c.from = n /\ c.to = a.from
                  /\ c.request = T /\ c.acked = p + Len(a.entries) /\ c.term = currentTerm'[n]
                  /\ c.reply = reply
    <2>1. /\ b.kind = "AppendEntriesReply" /\ b.from = n /\ b.to = a.from /\ b.request = T
          /\ b.acked = p + Len(a.entries) /\ b.term = currentTerm'[n] /\ b.reply = reply
      OBVIOUS
    <2> HIDE DEF b
    <2> QED BY <2>1
  <1>13. M \in Seq(LogEntry)
    BY <1>6, <1>7, <1>8, <1>9
  <1>14. /\ reply.success /\ a.leadercommit > commitIndex[n]
              => commit = Min({a.leadercommit, Len(M) - 1})
         /\ ~(reply.success /\ a.leadercommit > commitIndex[n]) => commit = commitIndex[n]
    OBVIOUS
  <1>15. log' = [log EXCEPT ![n] = M] /\ commitIndex' = [commitIndex EXCEPT ![n] = commit]
         /\ msgs' = (msgs \ {a}) \cup {c}
    BY <1>2, <1>12
  <1>16. AppendOutcome(n, a, M, commit, c)
    <2> HIDE DEF M, reply, commit, b
    <2> QED BY <1>7, <1>8, <1>9, <1>10, <1>12, <1>13, <1>14, <1>15 DEF AppendOutcome
  <1> QED
    BY <1>16

LEMMA AppendEntriesStep ==
  ASSUME ElectionInv, ElectionInv', LogInv, NEW n \in Nodes, NEW a \in msgs, AppendEntries(n, a)
  PROVE  LogInv'
PROOF
  <1> DEFINE T == a.term
             X == leaderLog[a.term]
             old == a.term < currentTerm[n]
             newer == a.term > currentTerm[n]
             L == log[n]
             p == a.prevlogindex
             k == a.prevlogindex + 1 + Len(a.entries)
  <1>0. VoteTypes /\ VoteTypes'
    BY DEF ElectionInv
  <1>1. /\ currentTerm \in [Nodes -> Nat] /\ currentTerm' \in [Nodes -> Nat]
        /\ role \in [Nodes -> {"FOLLOWER", "CANDIDATE", "LEADER"}]
        /\ Header(a)
    BY <1>0 DEF VoteTypes
  <1>2. /\ a.kind = "AppendEntries" /\ a.to = n
        /\ currentTerm' = [currentTerm EXCEPT ![n] = IF newer THEN a.term ELSE @]
        /\ role' = [role EXCEPT ![n] = IF newer THEN "FOLLOWER" ELSE @]
        /\ UNCHANGED <<leaders, nextIndex, matchIndex, leaderLog, committed>>
    BY DEF AppendEntries
  <1>3. /\ a.from \in Nodes /\ a.from # n /\ T \in Nat /\ currentTerm[n] \in Nat
        /\ currentTerm'[n] = IF newer THEN T ELSE currentTerm[n]
    BY <1>1, <1>2 DEF Header
  <1>4. /\ RequestOK(a) /\ Led(a.from, T) /\ T \in DOMAIN leaderLog
    BY <1>2 DEF LogInv, MessageInv, RequestOK, LeaderLogInv, Led
  <1>5. /\ p \in Nat /\ Len(a.entries) \in Nat /\ a.leadercommit \in Nat /\ k \in Nat /\ k >= 1
        /\ k <= Len(X) /\ PartOf(a.entries, X, p)
    BY <1>4 DEF RequestOK, PartOf
  <1>6. /\ log \in [Nodes -> Seq(LogEntry)] /\ L \in Seq(LogEntry) /\ Len(L) \in Nat /\ Len(L) >= 1
        /\ commitIndex \in [Nodes -> Nat]
        /\ Good(L, leaderLog) /\ Good(X, leaderLog)
        /\ UpToTerm(L, currentTerm[n]) /\ UpToTerm(X, T)
        /\ X \in Seq(LogEntry) /\ Len(X) \in Nat
    <2>1. log \in [Nodes -> Seq(LogEntry)] /\ commitIndex \in [Nodes -> Nat]
      BY DEF LogInv, ReplicationTypes
    <2>2. /\ Good(L, leaderLog) /\ Good(X, leaderLog)
          /\ UpToTerm(L, currentTerm[n]) /\ UpToTerm(X, T)
      BY <1>4 DEF LogInv, MatchInv
    <2>3. L \in Seq(LogEntry) /\ Len(L) >= 1 /\ X \in Seq(LogEntry)
      BY <2>2 DEF Good
    <2> HIDE DEF L, X
    <2> QED BY <2>1, <2>2, <2>3
  <1>7. PICK M, commit, c : AppendOutcome(n, a, M, commit, c)
    BY AppendEntriesFacts
  <1> DEFINE reply == c.reply
  <1>8. /\ log' = [log EXCEPT ![n] = M] /\ commitIndex' = [commitIndex EXCEPT ![n] = commit]
        /\ msgs' = (msgs \ {a}) \cup {c} /\ M \in Seq(LogEntry) /\ commit \in Nat
        /\ c.kind = "AppendEntriesReply" /\ c.from = n /\ c.to = a.from
        /\ c.request = T /\ c.acked = p + Len(a.entries) /\ c.term = currentTerm'[n]
    BY <1>7 DEF AppendOutcome
  <1>9. /\ reply.success \in BOOLEAN /\ reply.xterm \in Int
        /\ ~reply.success /\ ~old => /\ reply.xterm = -1 => reply.xlen \in 1..Len(X)
                                     /\ reply.xterm # -1 => reply.xindex \in 1..Len(X)
    BY <1>7 DEF AppendOutcome
  <1>10. reply.success => ~old /\ Agree(M, X, k)
    BY <1>7 DEF AppendOutcome
  <1>11. /\ ~reply.success => M = L
         /\ reply.success => \A i \in Nat : Agree(L, X, i) => Agree(M, X, i)
         /\ M = L \/ Len(M) = k
    BY <1>7 DEF AppendOutcome
  <1>12. /\ ~old => currentTerm'[n] = T
         /\ old => currentTerm'[n] > T
         /\ currentTerm'[n] >= currentTerm[n]
    BY <1>3
  <1>13. role[n] = "LEADER" => old \/ newer
    <2> SUFFICES ASSUME role[n] = "LEADER", T = currentTerm[n] PROVE FALSE
      BY <1>3
    <2>1. \A m \in Nodes : Led(m, currentTerm[n]) => m = n
      BY LeaderFacts
    <2> QED BY <1>3, <1>4, <2>1
  <1> HIDE DEF reply, old, newer, X, L, p, k
  <1>14. /\ log' \in [Nodes -> Seq(LogEntry)] /\ log'[n] = M
         /\ \A m \in Nodes : m # n => /\ log'[m] = log[m] /\ currentTerm'[m] = currentTerm[m]
                                      /\ role'[m] = role[m]
         /\ commitIndex' \in [Nodes -> Nat]
    BY <1>1, <1>2, <1>6, <1>8
  <1>15. L = log[n] /\ X = leaderLog[T] /\ k = p + Len(a.entries) + 1
    BY <1>5 DEF L, X, k, p
  <1>16. \A t \in DOMAIN leaderLog : leaderLog[t] \in Seq(LogEntry)
    BY DEF LogInv, MatchInv, Good
  <1>17. Frame
    <2>1. GrowTo(leaderLog, leaderLog')
      BY <1>2, <1>16 DEF GrowTo, Agree
    <2>2. ASSUME NEW m \in Nodes, currentTerm'[m] = currentTerm[m], NEW i \in Nat,
                 Agree(log[m], leaderLog[currentTerm[m]], i)
          PROVE  Agree(log'[m], leaderLog[currentTerm[m]], i)
      <3>1. CASE m = n /\ reply.success
        <4>1. currentTerm[n] = T
          BY <1>10, <1>12, <2>2, <3>1
        <4> QED BY <1>11, <1>14, <1>15, <2>2, <3>1, <4>1
      <3>2. CASE ~(m = n /\ reply.success)
        BY <1>11, <1>14, <1>15, <2>2, <3>2
      <3> QED BY <3>1, <3>2
    <2>3. ASSUME NEW m \in Nodes PROVE currentTerm'[m] >= currentTerm[m]
      <3>1. m # n => currentTerm'[m] = currentTerm[m]
        BY <1>14
      <3> QED BY <1>1, <1>12, <3>1
    <2> QED
      BY <1>2, <2>1, <2>2, <2>3 DEF Frame
  <1>18. ReplicationTypes'
    BY <1>2, <1>14 DEF LogInv, ReplicationTypes
  <1>19. ASSUME NEW m \in Nodes, role'[m] = "LEADER"
         PROVE  role[m] = "LEADER" /\ currentTerm'[m] = currentTerm[m] /\ log'[m] = log[m]
    <2>1. CASE m = n
      <3>1. role[n] = "LEADER" /\ ~newer
        BY <1>1, <1>2, <1>19, <2>1
      <3>2. old /\ ~reply.success
        BY <1>10, <1>13, <3>1
      <3> QED BY <1>3, <1>11, <1>14, <1>15, <2>1, <3>1, <3>2
    <2>2. CASE m # n
      BY <1>14, <1>19, <2>2
    <2> QED BY <2>1, <2>2
  <1>20. LeaderLogInv'
    <2>1. ASSUME NEW m \in Nodes, role'[m] = "CANDIDATE" PROVE currentTerm'[m] > 0
      <3>1. role[m] = "CANDIDATE"
        BY <1>1, <1>2, <2>1
      <3>2. currentTerm[m] > 0
        BY <3>1 DEF LogInv, LeaderLogInv
      <3>3. /\ currentTerm[m] \in Nat /\ currentTerm'[m] \in Nat
            /\ currentTerm'[m] >= currentTerm[m]
        BY <1>1, <1>17 DEF Frame
      <3> QED BY <3>2, <3>3
    <2> QED
      BY <1>2, <1>19, <2>1 DEF LogInv, LeaderLogInv
  <1>21. Good(M, leaderLog) /\ UpToTerm(M, currentTerm'[n])
    <2>1. CASE M = L
      <3>1. \A i \in 1..Len(L) : L[i] \in LogEntry
        BY <1>6
      <3>2. \A i \in 1..Len(L) : L[i].term \in Nat /\ L[i].term <= currentTerm[n]
        BY <1>6, <3>1 DEF LogEntry, UpToTerm
      <3>3. currentTerm'[n] \in Nat /\ currentTerm[n] \in Nat
        BY <1>1
      <3> QED
        BY <1>6, <1>12, <2>1, <3>2, <3>3 DEF UpToTerm
    <2>2. CASE M # L
      <3>1. /\ reply.success /\ M \in Seq(LogEntry) /\ Agree(M, X, Len(M)) /\ Len(M) = k
            /\ currentTerm'[n] = T
        BY <1>8, <1>10, <1>11, <1>12, <2>2
      <3>2. Good(M, leaderLog)
        BY <1>5, <1>6, <3>1, GoodPrefix
      <3>3. UpToTerm(M, T)
        <4>1. k \in Nat /\ Len(X) \in Nat /\ k <= Len(X)
          BY <1>5, <1>6 DEF X
        <4>2. UpToTerm(X, T) /\ Agree(M, X, k) /\ Len(M) = k
          BY <1>6, <3>1
        <4> QED
          BY <4>1, <4>2 DEF Agree, UpToTerm
      <3> QED BY <3>1, <3>2, <3>3
    <2> QED BY <2>1, <2>2
  <1>22. ReplyOK(c)'
    <2>1. Led(a.from, T)'
      BY <1>2, <1>4 DEF Led
    <2>2. reply.success => Holds(n, T, k)'
      <3> SUFFICES ASSUME reply.success PROVE Holds(n, T, k)'
        OBVIOUS
      <3>1. Agree(M, X, k) /\ currentTerm'[n] = T
        BY <1>10, <1>12
      <3> QED
        BY <1>2, <1>3, <1>4, <1>5, <1>14, <1>15, <3>1 DEF Holds
    <2>3. /\ c.to = a.from /\ c.request = T /\ c.from = n /\ c.acked + 1 = k
          /\ c.acked \in Nat /\ c.reply = reply /\ c.term = currentTerm'[n]
      BY <1>5, <1>8, <1>15 DEF reply
    <2>4. leaderLog'[T] = X
      BY <1>2, <1>15
    <2>5. ~reply.success /\ currentTerm'[n] = T
            => /\ reply.xterm = -1 => reply.xlen \in 1..Len(X)
               /\ reply.xterm # -1 => reply.xindex \in 1..Len(X)
      BY <1>1, <1>3, <1>9, <1>12
    <2>6. c.reply.success => Holds(c.from, c.request, c.acked + 1)'
      BY <1>2, <2>2, <2>3 DEF Holds
    <2> QED
      BY <1>2, <1>9, <2>1, <2>3, <2>4, <2>5, <2>6 DEF ReplyOK, Led
  <1>23. ProgressInv'
    <2> SUFFICES ASSUME NEW m \in Nodes, role'[m] = "LEADER", NEW q \in Peers(m)
                 PROVE  /\ nextIndex'[m][q] \in 1..Len(log'[m])
                        /\ \/ matchIndex'[m][q] = 0
                           \/ Holds(q, currentTerm[m], matchIndex[m][q] + 1)'
      BY DEF ProgressInv
    <2>1. /\ role[m] = "LEADER" /\ currentTerm'[m] = currentTerm[m]
          /\ Len(log'[m]) >= Len(log[m])
      <3>1. Len(log[m]) \in Nat
        BY <1>6
      <3> QED BY <1>19, <3>1
    <2>2. /\ nextIndex[m][q] \in 1..Len(log'[m])
          /\ \/ matchIndex[m][q] = 0
             \/ \A i : i = matchIndex[m][q] => Holds(q, currentTerm[m], i + 1)'
      BY <1>0, <1>17, <1>18, <2>1, ProgressKept
    <2> QED
      BY <1>2, <2>2 DEF Holds
  <1>24. \A m \in Nodes : \/ log'[m] = log[m]
                          \/ Good(log'[m], leaderLog') /\ UpToTerm(log'[m], currentTerm'[m])
    BY <1>2, <1>14, <1>21
  <1>25. \A d \in msgs' : d \in msgs \/ (d.kind = "AppendEntriesReply" /\ ReplyOK(d)')
    BY <1>8, <1>22
  <1> QED
    BY <1>0, <1>2, <1>17, <1>18, <1>20, <1>23, <1>24, <1>25, LogStep

\* The search for the new commitIndex ends in the log.
LEMMA NewCommitIndexInLog ==
  ASSUME NEW n \in Nodes, NEW match, commitIndex[n] \in Nat, LastIndex(n) \in Nat
  PROVE  /\ NewCommitIndex(n, match) \in 0..LastIndex(n)
         /\ \/ NewCommitIndex(n, match) = Min({commitIndex[n], LastIndex(n)})
            \/ NewCommitIndex(n, match) \in Committable(n, match)
         /\ Min({commitIndex[n], LastIndex(n)}) <= NewCommitIndex(n, match)
         /\ Min({commitIndex[n], LastIndex(n)}) \in {commitIndex[n], LastIndex(n)}
         /\ Min({commitIndex[n], LastIndex(n)}) <= commitIndex[n]
PROOF
  <1> DEFINE low == Min({commitIndex[n], LastIndex(n)})
             S == Committable(n, match) \cup {low}
  <1>1. low \in {commitIndex[n], LastIndex(n)} /\ low <= LastIndex(n) /\ low <= commitIndex[n]
    <2>1. {commitIndex[n], LastIndex(n)} \in SUBSET Nat
      OBVIOUS
    <2> QED BY <2>1, LeastNumber
  <1> HIDE DEF low
  <1>2. Committable(n, match) \subseteq 0..LastIndex(n)
    BY DEF Committable
  <1>3. S \in SUBSET (0..LastIndex(n)) /\ S # {} /\ low \in S
    BY <1>1, <1>2
  <1>4. NewCommitIndex(n, match) = Max(S)
    BY DEF NewCommitIndex, low
  <1>5. Max(S) \in S /\ \A y \in S : y <= Max(S)
    <2> HIDE DEF S
    <2> QED BY <1>3, GreatestNumber
  <1> QED BY <1>1, <1>3, <1>4, <1>5 DEF low

LEMMA handleAppendEntriesStep ==
  ASSUME ElectionInv, ElectionInv', LogInv, NEW n \in Nodes, NEW b \in msgs,
         handleAppendEntries(n, b)
  PROVE  LogInv'
PROOF
  <1> DEFINE m == b.from
             stale == role[n] # "LEADER" \/ b.request # currentTerm[n]
             match == [matchIndex[n] EXCEPT ![m] = Max({@, b.acked})]
             T == currentTerm[n]
             L == log[n]
  <1>0. VoteTypes /\ VoteTypes'
    BY DEF ElectionInv
  <1>1. /\ currentTerm \in [Nodes -> Nat] /\ role \in [Nodes -> {"FOLLOWER", "CANDIDATE", "LEADER"}]
        /\ Header(b)
    BY <1>0 DEF VoteTypes
  <1>2. b.kind = "AppendEntriesReply" /\ b.to = n /\ msgs' = msgs \ {b} /\ leaders' = leaders
    BY DEF handleAppendEntries
  <1>3. /\ m \in Nodes /\ m # n /\ b.term \in Nat /\ b.request \in Nat /\ ReplyOK(b)
        /\ b.acked \in Nat /\ m \in Peers(n)
    BY <1>1, <1>2 DEF Header, LogInv, MessageInv, ReplyOK, Peers
  <1>4. /\ log \in [Nodes -> Seq(LogEntry)]
        /\ nextIndex \in [Nodes -> [Nodes -> Nat]]
        /\ matchIndex \in [Nodes -> [Nodes -> Nat]]
        /\ commitIndex \in [Nodes -> Nat]
        /\ committed \subseteq [index : Nat, entry : LogEntry, term : Nat]
        /\ L \in Seq(LogEntry) /\ Len(L) \in Nat /\ matchIndex[n][m] \in Nat
    <2>1. ReplicationTypes
      BY DEF LogInv
    <2>2. matchIndex \in [Nodes -> [Nodes -> Nat]] /\ log \in [Nodes -> Seq(LogEntry)]
      BY <2>1 DEF ReplicationTypes
    <2>3. L \in Seq(LogEntry) /\ Len(L) \in Nat /\ matchIndex[n][m] \in Nat
      BY <1>3, <2>2
    <2> QED BY <2>1, <2>3 DEF ReplicationTypes
  <1>5. Len(L) >= 1
    BY DEF LogInv, MatchInv, Good
  <1>6. \A q \in Nodes : role[q] = "CANDIDATE" => currentTerm[q] > 0
    BY DEF LogInv, LeaderLogInv
  <1>7. CASE UNCHANGED <<currentTerm, role, votedFor, logVars>>
    BY <1>0, <1>1, <1>2, <1>6, <1>7, QuietLogStep
  <1>8. CASE /\ b.term > currentTerm[n] /\ StepDown(n, b.term) /\ UNCHANGED logVars
    <2>1. \A q \in Nodes :
            /\ currentTerm'[q] >= currentTerm[q]
            /\ role'[q] = "LEADER" => role[q] = "LEADER" /\ currentTerm'[q] = currentTerm[q]
            /\ role'[q] = "CANDIDATE" => currentTerm'[q] > 0
      BY <1>1, <1>3, <1>6, <1>8 DEF StepDown
    <2> QED
      BY <1>0, <1>2, <1>8, <2>1, QuietLogStep
  <1>9. ASSUME ~stale, UNCHANGED <<currentTerm, role, votedFor, log, leaderLog>>,
               ReplicationTypes', nextIndex'[n][m] \in 1..Len(L),
               \/ matchIndex'[n][m] = matchIndex[n][m]
               \/ matchIndex'[n][m] = b.acked /\ b.reply.success,
               \A q, o \in Nodes : q # n \/ o # m => /\ nextIndex'[q][o] = nextIndex[q][o]
                                                     /\ matchIndex'[q][o] = matchIndex[q][o]
        PROVE  LogInv'
    <2>1. LeaderLogInv'
      BY <1>2, <1>9 DEF LogInv, LeaderLogInv
    <2>2. \A t \in DOMAIN leaderLog : leaderLog[t] \in Seq(LogEntry)
      BY DEF LogInv, MatchInv, Good
    <2>3. Frame
      BY <1>1, <1>2, <1>9, <2>2 DEF Frame, GrowTo, Agree
    <2>4. ProgressInv'
      <3> SUFFICES ASSUME NEW q \in Nodes, role[q] = "LEADER", NEW o \in Peers(q)
                   PROVE  /\ nextIndex'[q][o] \in 1..Len(log[q])
                          /\ \/ matchIndex'[q][o] = 0
                             \/ Holds(o, currentTerm[q], matchIndex'[q][o] + 1)
        BY <1>9 DEF ProgressInv, Holds
      <3>1. /\ o \in Nodes /\ nextIndex[q][o] \in 1..Len(log[q])
            /\ matchIndex[q][o] = 0 \/ Holds(o, currentTerm[q], matchIndex[q][o] + 1)
        BY DEF LogInv, ProgressInv, Peers
      <3>2. CASE q = n /\ o = m
        <4>1. b.reply.success => Holds(m, currentTerm[n], b.acked + 1)
          BY <1>3, <1>9 DEF ReplyOK
        <4> QED BY <1>9, <3>1, <3>2, <4>1
      <3>3. CASE q # n \/ o # m
        BY <1>9, <3>1, <3>3
      <3> QED BY <3>2, <3>3
    <2> QED
      BY <1>0, <1>2, <1>9, <2>1, <2>3, <2>4, LogStep
  <1>10. CASE /\ ~stale /\ b.reply.success
              /\ matchIndex' = [matchIndex EXCEPT ![n] = match]
              /\ nextIndex' = [nextIndex EXCEPT ![n][m] = match[m] + 1]
              /\ commitIndex' = [commitIndex EXCEPT ![n] = NewCommitIndex(n, match)]
              /\ committed' = committed \cup
                   {[index |-> i, entry |-> Entry(n, i), term |-> currentTerm[n]] :
                      i \in commitIndex[n] + 1 .. commitIndex'[n]}
              /\ UNCHANGED <<currentTerm, role, votedFor, log, leaderLog>>
    <2>1. /\ leaderLog[T] = L /\ b.request = T /\ role[n] = "LEADER"
      BY <1>10, LeaderFacts
    <2>2. match[m] \in {matchIndex[n][m], b.acked} /\ match \in [Nodes -> Nat]
      <3>1. Max({matchIndex[n][m], b.acked}) \in {matchIndex[n][m], b.acked}
        <4>1. PICK x, y : x = matchIndex[n][m] /\ y = b.acked
          OBVIOUS
        <4>2. x \in Nat /\ y \in Nat
          BY <1>3, <1>4, <4>1
        <4>3. {x, y} \in SUBSET (0..(x + y)) /\ x + y \in Nat
          BY <4>2
        <4>4. Max({x, y}) \in {x, y}
          BY <4>3, GreatestNumber
        <4> QED BY <4>1, <4>4
      <3> QED BY <1>3, <1>4, <3>1
    <2> HIDE DEF match
    <2>3. /\ matchIndex'[n][m] = match[m] /\ nextIndex'[n][m] = match[m] + 1
          /\ matchIndex' \in [Nodes -> [Nodes -> Nat]] /\ nextIndex' \in [Nodes -> [Nodes -> Nat]]
      <3>1. match[m] \in Nat
        BY <1>3, <2>2
      <3>2. PICK k \in Nat : k = match[m] + 1
        BY <3>1
      <3>3. matchIndex' = [matchIndex EXCEPT ![n] = match] /\ nextIndex' = [nextIndex EXCEPT ![n][m] = k]
        BY <1>10, <3>2
      <3>4. matchIndex'[n] = match /\ matchIndex' \in [Nodes -> [Nodes -> Nat]]
        BY <1>4, <2>2, <3>3
      <3>5. nextIndex'[n][m] = k /\ nextIndex' \in [Nodes -> [Nodes -> Nat]]
        BY <1>3, <1>4, <3>3
      <3> QED BY <3>2, <3>4, <3>5
    <2>4. match[m] + 1 \in 1..Len(L)
      <3>1. b.acked + 1 <= Len(L)
        BY <1>3, <1>10, <2>1 DEF ReplyOK, Holds
      <3>2. matchIndex[n][m] = 0 \/ Holds(m, T, matchIndex[n][m] + 1)
        BY <1>3, <2>1 DEF LogInv, ProgressInv
      <3>3. matchIndex[n][m] + 1 <= Len(L)
        BY <1>4, <1>5, <2>1, <3>2 DEF Holds
      <3>4. match[m] = matchIndex[n][m] \/ match[m] = b.acked
        BY <2>2
      <3>5. PICK k : k = match[m]
        OBVIOUS
      <3>6. k \in Nat /\ k + 1 <= Len(L)
        BY <1>3, <1>4, <3>1, <3>3, <3>4, <3>5
      <3>7. k + 1 \in 1..Len(L)
        BY <1>4, <3>6
      <3> QED BY <3>5, <3>7
    <2>5. \A q, o \in Nodes : q # n \/ o # m => /\ nextIndex'[q][o] = nextIndex[q][o]
                                                /\ matchIndex'[q][o] = matchIndex[q][o]
      <3>1. \A o \in Nodes : o # m => match[o] = matchIndex[n][o]
        BY <1>4 DEF match
      <3> QED BY <1>3, <1>4, <1>10, <3>1
    <2>6. LastIndex(n) \in Nat /\ LastIndex(n) = Len(L) - 1
      BY <1>4, <1>5 DEF LastIndex
    <2>7. NewCommitIndex(n, match) \in 0..LastIndex(n)
      BY <1>4, <2>6, NewCommitIndexInLog
    <2>8. commitIndex' \in [Nodes -> Nat] /\ commitIndex'[n] \in 0..LastIndex(n)
      BY <1>4, <1>10, <2>6, <2>7
    <2>9. committed' \subseteq [index : Nat, entry : LogEntry, term : Nat]
      <3>1. ASSUME NEW i \in commitIndex[n] + 1 .. commitIndex'[n]
            PROVE  i \in Nat /\ Entry(n, i) \in LogEntry
        <4>1. i \in Nat /\ i + 1 \in 1..Len(L)
          BY <1>4, <2>6, <2>8
        <4> QED BY <1>4, <4>1 DEF Entry
      <3>2. T \in Nat
        BY <1>1
      <3> QED BY <1>4, <1>10, <3>1, <3>2
    <2>10. ReplicationTypes'
      BY <1>4, <1>10, <2>3, <2>8, <2>9 DEF ReplicationTypes
    <2> QED
      BY <1>9, <1>10, <2>2, <2>3, <2>4, <2>5, <2>10
  <1>11. CASE /\ ~stale /\ ~b.reply.success /\ b.term = currentTerm[n]
              /\ nextIndex' = [nextIndex EXCEPT ![n][m] = BackOff(n, m, b.reply)]
              /\ UNCHANGED <<currentTerm, role, votedFor, log, matchIndex,
                             commitIndex, leaderLog, committed>>
    <2>1. /\ leaderLog[T] = L /\ b.request = T /\ role[n] = "LEADER"
      BY <1>11, LeaderFacts
    <2>2. nextIndex[n][m] \in 1..Len(L)
      BY <1>3, <2>1 DEF LogInv, ProgressInv
    <2>3. /\ b.reply.xterm = -1 => b.reply.xlen \in 1..Len(L)
          /\ b.reply.xterm # -1 => b.reply.xindex \in 1..Len(L)
      BY <1>3, <1>11, <2>1 DEF ReplyOK
    <2>4. BackOff(n, m, b.reply) \in 1..Len(L)
      <3> DEFINE S == {j \in 0..nextIndex[n][m] - 1 : j = 0 \/ Entry(n, j).term <= b.reply.xterm}
      <3>1. S \in SUBSET (0..nextIndex[n][m] - 1) /\ 0 \in S /\ nextIndex[n][m] - 1 \in Nat
        BY <1>4, <2>2
      <3>2. Max(S) \in 0..nextIndex[n][m] - 1
        <4> HIDE DEF S
        <4> QED BY <3>1, GreatestNumber
      <3>3. BackOff(n, m, b.reply) \in {b.reply.xlen, b.reply.xindex, Max(S) + 1}
            /\ (b.reply.xterm = -1 => BackOff(n, m, b.reply) = b.reply.xlen)
            /\ (b.reply.xterm # -1 => BackOff(n, m, b.reply) \in {b.reply.xindex, Max(S) + 1})
        BY DEF BackOff
      <3> HIDE DEF S
      <3>4. Max(S) + 1 \in 1..Len(L)
        <4>1. PICK x, y, z : x = nextIndex[n][m] /\ y = Max(S) /\ z = Len(L)
          OBVIOUS
        <4>2. z \in Nat /\ x \in 1..z /\ y \in 0..x - 1
          BY <1>4, <2>2, <3>2, <4>1
        <4>3. y + 1 \in 1..z
          BY <4>2
        <4> QED BY <4>1, <4>3
      <3> QED BY <2>3, <3>3, <3>4
    <2>5. nextIndex' \in [Nodes -> [Nodes -> Nat]] /\ nextIndex'[n][m] \in 1..Len(L)
      BY <1>3, <1>4, <1>11, <2>4
    <2>6. ReplicationTypes'
      BY <1>4, <1>11, <2>5 DEF ReplicationTypes
    <2>7. \A q, o \in Nodes : q # n \/ o # m => /\ nextIndex'[q][o] = nextIndex[q][o]
                                                /\ matchIndex'[q][o] = matchIndex[q][o]
      BY <1>3, <1>4, <1>11
    <2> QED
      BY <1>9, <1>11, <2>5, <2>6, <2>7
  <1> QED
    BY <1>7, <1>8, <1>10, <1>11 DEF handleAppendEntries

LEMMA VoteSteps ==
  ASSUME ElectionInv, ElectionInv', LogInv, NEW n \in Nodes,
         \/ Elect(n)
         \/ \E b \in msgs : RequestVote(n, b) \/ GetVoteAnswer(n, b) \/ RpcFails(b)
         \/ UNCHANGED vars
  PROVE  LogInv'
PROOF
  <1>0. VoteTypes /\ VoteTypes'
    BY DEF ElectionInv
  <1>1. /\ currentTerm \in [Nodes -> Nat] /\ role \in [Nodes -> {"FOLLOWER", "CANDIDATE", "LEADER"}]
        /\ \A b \in msgs : Header(b)
    BY <1>0 DEF VoteTypes
  <1>2. \A q \in Nodes : role[q] = "CANDIDATE" => currentTerm[q] > 0
    BY DEF LogInv, LeaderLogInv
  <1> DEFINE Later == \A q \in Nodes :
           /\ currentTerm'[q] >= currentTerm[q]
           /\ role'[q] = "LEADER" => role[q] = "LEADER" /\ currentTerm'[q] = currentTerm[q]
           /\ role'[q] = "CANDIDATE" => currentTerm'[q] > 0
             NoNews == \A b \in msgs' : b \in msgs \/ b.kind \in {"RequestVote", "RequestVoteReply"}
  <1>3. CASE Elect(n)
    <2>1. UNCHANGED <<logVars, leaders>>
      BY <1>3 DEF Elect
    <2>2. Later
      BY <1>1, <1>2, <1>3 DEF Elect
    <2>3. NoNews
      BY <1>3 DEF Elect, Send
    <2> QED
      BY <1>0, <2>1, <2>2, <2>3, QuietLogStep
  <1>4. ASSUME NEW b \in msgs, RequestVote(n, b) PROVE LogInv'
    <2>1. UNCHANGED <<logVars, leaders>>
      BY <1>4 DEF RequestVote
    <2>2. b.term \in Nat
      BY <1>1 DEF Header
    <2>3. Later
      <3>1. /\ currentTerm' = [currentTerm EXCEPT ![n] = IF b.term > currentTerm[n] THEN b.term ELSE @]
            /\ \/ role' = [role EXCEPT ![n] = "FOLLOWER"]
               \/ role' = role /\ ~(b.term > currentTerm[n])
        BY <1>1, <1>4 DEF RequestVote
      <3> QED BY <1>1, <1>2, <2>2, <3>1
    <2>4. NoNews
      BY <1>4 DEF RequestVote
    <2> QED
      BY <1>0, <2>1, <2>3, <2>4, QuietLogStep
  <1>5. ASSUME NEW b \in msgs, GetVoteAnswer(n, b) PROVE LogInv'
    <2>1. UNCHANGED <<logVars, leaders>> /\ msgs' = msgs \ {b}
      BY <1>5 DEF GetVoteAnswer
    <2>2. b.term \in Nat
      BY <1>1 DEF Header
    <2>3. Later
      <3>1. \/ UNCHANGED <<currentTerm, role>>
            \/ /\ b.term > currentTerm[n]
               /\ currentTerm' = [currentTerm EXCEPT ![n] = b.term]
               /\ role' = [role EXCEPT ![n] = "FOLLOWER"]
        BY <1>5 DEF GetVoteAnswer, StepDown
      <3> QED BY <1>1, <1>2, <2>2, <3>1
    <2> QED
      BY <1>0, <2>1, <2>3, QuietLogStep
  <1>6. ASSUME UNCHANGED vars \/ \E b \in msgs : RpcFails(b) PROVE LogInv'
    <2>1. UNCHANGED <<currentTerm, role, logVars, leaders>> /\ msgs' \subseteq msgs
      BY <1>6 DEF RpcFails, vars, electionVars
    <2>2. Later
      BY <1>1, <1>2, <2>1
    <2> QED
      BY <1>0, <2>1, <2>2, QuietLogStep
  <1> QED
    BY <1>3, <1>4, <1>5, <1>6
-----------------------------------------------------------------------------
\* The invariant of the logs holds in every reachable state.
LEMMA LogInvariant == Spec => [](ElectionInv /\ LogInv)
PROOF
  <1>1. Init => LogInv
    <2> SUFFICES ASSUME Init PROVE LogInv
      OBVIOUS
    <2>1. /\ BlankEntry \in LogEntry /\ <<BlankEntry>> \in Seq(LogEntry)
          /\ Len(<<BlankEntry>>) = 1 /\ <<BlankEntry>>[1] = BlankEntry /\ BlankEntry.term = 0
      BY DEF BlankEntry, LogEntry
    <2>2. /\ leaderLog = [t \in {0} |-> <<BlankEntry>>] /\ leaders = {} /\ msgs = {}
          /\ log = [n \in Nodes |-> <<BlankEntry>>] /\ role = [n \in Nodes |-> "FOLLOWER"]
          /\ currentTerm = [n \in Nodes |-> 0]
      BY DEF Init
    <2>3. Good(<<BlankEntry>>, leaderLog) /\ UpToTerm(<<BlankEntry>>, 0)
      <3> DEFINE B == <<BlankEntry>>
      <3>1. /\ B \in Seq(LogEntry) /\ Len(B) = 1 /\ B[1] = BlankEntry
            /\ DOMAIN leaderLog = {0} /\ leaderLog[0] = B
        BY <2>1, <2>2
      <3> HIDE DEF B
      <3>2. Good(B, leaderLog) /\ UpToTerm(B, 0)
        BY <2>1, <3>1 DEF Good, UpToTerm, Agree
      <3> QED BY <3>2 DEF B
    <2>4. MatchInv
      BY <2>2, <2>3 DEF MatchInv
    <2>5. ReplicationTypes
      BY <2>1 DEF Init, ReplicationTypes
    <2>6. LeaderLogInv /\ MessageInv /\ ProgressInv
      BY <2>2 DEF LeaderLogInv, MessageInv, ProgressInv
    <2> QED BY <2>4, <2>5, <2>6 DEF LogInv
  <1>2. ElectionInv /\ ElectionInv' /\ LogInv /\ [Next]_vars => LogInv'
    <2> SUFFICES ASSUME ElectionInv, ElectionInv', LogInv, [Next]_vars PROVE LogInv'
      OBVIOUS
    <2>1. PICK n0 \in Nodes : TRUE
      BY RaftAssumption
    <2>2. ASSUME NEW n \in Nodes,
                 Elect(n) \/ \E b \in msgs : RequestVote(n, b) \/ GetVoteAnswer(n, b)
          PROVE  LogInv'
      BY <2>2, VoteSteps
    <2>3. ASSUME UNCHANGED vars \/ \E b \in msgs : RpcFails(b) PROVE LogInv'
      BY <2>1, <2>3, VoteSteps
    <2>4. ASSUME NEW t \in collecting, CollectVote(t) PROVE LogInv'
      BY <2>4, WinStep
    <2>5. ASSUME NEW n \in Nodes, HostAppend(n) PROVE LogInv'
      BY <2>5, HostAppendStep
    <2>6. ASSUME NEW n \in Nodes, SendHeartBeats(n) PROVE LogInv'
      BY <2>6, SendHeartBeatsStep
    <2>7. ASSUME NEW n \in Nodes, NEW b \in msgs, AppendEntries(n, b) PROVE LogInv'
      BY <2>7, AppendEntriesStep
    <2>8. ASSUME NEW n \in Nodes, NEW b \in msgs, handleAppendEntries(n, b) PROVE LogInv'
      BY <2>8, handleAppendEntriesStep
    <2> QED
      BY <2>2, <2>3, <2>4, <2>5, <2>6, <2>7, <2>8 DEF Next
  <1> QED
    BY <1>1, <1>2, ElectionInvariant, PTL DEF Spec

\* The types of all variables, in every reachable state.
THEOREM RaftTypeOK == Spec => []TypeOK
PROOF
  <1>1. ElectionInv /\ LogInv => TypeOK
    <2> SUFFICES ASSUME ElectionInv, LogInv PROVE TypeOK
      OBVIOUS
    <2>1. VoteTypes /\ ReplicationTypes
      BY DEF ElectionInv, LogInv
    <2>2. \A n \in Nodes : Len(log[n]) \in Nat /\ Len(log[n]) >= 1
      BY DEF LogInv, MatchInv, Good
    <2>3. \A t \in DOMAIN leaderLog : leaderLog[t] \in Seq(LogEntry)
      BY DEF LogInv, MatchInv, Good
    <2>4. DOMAIN leaderLog \subseteq Nat
      BY <2>1 DEF LogInv, LeaderLogInv, VoteTypes
    <2>5. \A n \in Nodes : Len(log[n]) > 0
      BY <2>2
    <2> QED
      BY <2>1, <2>3, <2>4, <2>5 DEF TypeOK, VoteTypes, ReplicationTypes
  <1> QED
    BY <1>1, LogInvariant, PTL

\* Logs that agree up to k have the same first k entries.
LEMMA AgreeSubSeq ==
  ASSUME NEW L \in Seq(LogEntry), NEW M \in Seq(LogEntry), NEW k \in Nat, Agree(L, M, k)
  PROVE  SubSeq(L, 1, k) = SubSeq(M, 1, k)
PROOF
  <1>1. k <= Len(L) /\ k <= Len(M) /\ \A i \in 1..k : L[i] = M[i]
    BY DEF Agree
  <1>2. /\ SubSeq(L, 1, k) \in Seq(LogEntry) /\ SubSeq(M, 1, k) \in Seq(LogEntry)
        /\ Len(SubSeq(L, 1, k)) = k /\ Len(SubSeq(M, 1, k)) = k
        /\ \A i \in 1..k : SubSeq(L, 1, k)[i] = L[i] /\ SubSeq(M, 1, k)[i] = M[i]
    BY <1>1
  <1> HIDE DEF Agree
  <1> QED
    BY <1>1, <1>2, SeqEqual

(***************************************************************************)
(* Two logs with an entry of one term at the same index are equal up to    *)
(* there, whatever requests were delayed, reordered or lost                *)
(* (raft_rpc.cpp:205, 238-259).                                            *)
(***************************************************************************)
THEOREM LogMatching == Spec => []LogsMatch
PROOF
  <1>1. ElectionInv /\ LogInv => LogsMatch
    <2> SUFFICES ASSUME LogInv, NEW n \in Nodes, NEW m \in Nodes,
                        NEW i \in 0 .. Min({LastIndex(n), LastIndex(m)}),
                        Entry(n, i).term = Entry(m, i).term
                 PROVE  SubSeq(log[n], 1, i + 1) = SubSeq(log[m], 1, i + 1)
      BY DEF LogsMatch
    <2>1. /\ Good(log[n], leaderLog) /\ Good(log[m], leaderLog)
          /\ log[n] \in Seq(LogEntry) /\ log[m] \in Seq(LogEntry)
          /\ Len(log[n]) \in Nat /\ Len(log[m]) \in Nat
          /\ Len(log[n]) >= 1 /\ Len(log[m]) >= 1
      BY DEF LogInv, MatchInv, Good
    <2>2. LastIndex(n) \in Nat /\ LastIndex(m) \in Nat
      BY <2>1 DEF LastIndex
    <2>3. /\ Min({LastIndex(n), LastIndex(m)}) \in {LastIndex(n), LastIndex(m)}
          /\ Min({LastIndex(n), LastIndex(m)}) <= LastIndex(n)
          /\ Min({LastIndex(n), LastIndex(m)}) <= LastIndex(m)
      <3>1. {LastIndex(n), LastIndex(m)} \in SUBSET Nat
        BY <2>2
      <3> QED BY <3>1, LeastNumber
    <2>4. i + 1 \in 1..Len(log[n]) /\ i + 1 <= Len(log[m]) /\ i + 1 \in Nat
      <3>1. i \in Nat /\ i <= LastIndex(n) /\ i <= LastIndex(m)
        BY <2>2, <2>3
      <3> QED BY <2>1, <3>1 DEF LastIndex
    <2>5. Agree(log[n], log[m], i + 1)
      BY <2>1, <2>4, SameTermAgree DEF Entry
    <2> QED
      BY <2>1, <2>4, <2>5, AgreeSubSeq
  <1> QED
    BY <1>1, LogInvariant, PTL

(***************************************************************************)
(* Backing off never moves nextIndex to 0 or past the end of the log, so   *)
(* that no heart beat trips assert(idx < entry_count_) of LogVec           *)
(* (raft.cpp:366-394, log_vec.cpp:164).                                    *)
(***************************************************************************)
THEOREM NextIndexStaysInLog == Spec => []NextIndexInLog
PROOF
  <1>1. LogInv => NextIndexInLog
    BY DEF LogInv, ProgressInv, NextIndexInLog
  <1> QED
    BY <1>1, LogInvariant, PTL

(***************************************************************************)
(* matchIndex of a leader is the truth about a follower that knows no      *)
(* later term, in whatever order the replies arrive (raft.cpp:228-234).    *)
(***************************************************************************)
THEOREM MatchIndexTrue == Spec => []MatchIndexIsTrue
PROOF
  <1>1. ElectionInv /\ LogInv => MatchIndexIsTrue
    <2> SUFFICES ASSUME ElectionInv, LogInv, NEW n \in Nodes, role[n] = "LEADER",
                        NEW m \in Peers(n), currentTerm[m] <= currentTerm[n]
                 PROVE  /\ matchIndex[n][m] <= LastIndex(m)
                        /\ SubSeq(log[m], 1, matchIndex[n][m] + 1)
                             = SubSeq(log[n], 1, matchIndex[n][m] + 1)
      BY DEF MatchIndexIsTrue
    <2>1. m \in Nodes /\ currentTerm[m] \in Nat /\ currentTerm[n] \in Nat
      BY DEF Peers, ElectionInv, VoteTypes
    <2>2. /\ Good(log[n], leaderLog) /\ Good(log[m], leaderLog)
          /\ log[n] \in Seq(LogEntry) /\ log[m] \in Seq(LogEntry)
          /\ Len(log[n]) \in Nat /\ Len(log[m]) \in Nat
          /\ Len(log[n]) >= 1 /\ Len(log[m]) >= 1
          /\ log[n][1] = BlankEntry /\ log[m][1] = BlankEntry
      <3>1. Good(log[n], leaderLog) /\ Good(log[m], leaderLog)
        BY <2>1 DEF LogInv, MatchInv
      <3> QED BY <3>1 DEF Good
    <2>3. PICK i \in Nat : i = matchIndex[n][m]
      <3>1. matchIndex \in [Nodes -> [Nodes -> Nat]]
        BY DEF LogInv, ReplicationTypes
      <3> QED BY <2>1, <3>1
    <2>4. Agree(log[m], log[n], i + 1)
      <3>1. CASE i = 0
        BY <2>2, <3>1 DEF Agree
      <3>2. CASE i # 0
        <4>1. Holds(m, currentTerm[n], i + 1)
          BY <2>3, <3>2 DEF LogInv, ProgressInv
        <4>2. currentTerm[m] = currentTerm[n]
          BY <2>1, <4>1 DEF Holds
        <4>3. leaderLog[currentTerm[n]] = log[n]
          BY LeaderFacts
        <4> QED BY <4>1, <4>2, <4>3 DEF Holds
      <3> QED BY <3>1, <3>2
    <2>5. SubSeq(log[m], 1, i + 1) = SubSeq(log[n], 1, i + 1)
      BY <2>2, <2>4, AgreeSubSeq
    <2>6. i <= LastIndex(m)
      BY <2>2, <2>4 DEF Agree, LastIndex
    <2> QED BY <2>3, <2>5, <2>6
  <1> QED
    BY <1>1, LogInvariant, PTL
=============================================================================
