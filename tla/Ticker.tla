------------------------------- MODULE Ticker -------------------------------
(***************************************************************************)
(* The threads of one Raft node and its two timers: start_ticker, ticker,  *)
(* the Elect threads it starts and the SendHeartBeats threads of its       *)
(* leaderships (raft.cpp, timer.cpp).  Raft.tla lets a tick come at any    *)
(* time; here it is the timers that say when, and the rest of the cluster  *)
(* that is arbitrary: it may elect this node, lead it or overtake it at    *)
(* any time, until it is cut off.                                          *)
(*                                                                         *)
(* Time is discrete.  A timer is the time left until its deadline: reset() *)
(* wakes wait(), which goes on to wait for the new deadline.  Threads are  *)
(* as slow as they like: time passes between any two of their steps.       *)
(* Nothing calls Timer::stop or sets notified, so that wait() ends at the  *)
(* deadline only.  Terms are left out, see Raft.tla.                       *)
(***************************************************************************)
EXTENDS Integers

CONSTANTS
  HeartBeatTimeOut, MinElectTimeOut, MaxElectTimeOut,   \* consts.h
  MaxThreads      \* bound: Elect threads, and SendHeartBeats threads

ASSUME TickerAssumption ==
  /\ {HeartBeatTimeOut, MinElectTimeOut, MaxElectTimeOut, MaxThreads} \subseteq Nat \ {0}
  /\ HeartBeatTimeOut < MinElectTimeOut
  /\ MinElectTimeOut <= MaxElectTimeOut

VARIABLES
  role,
  is_dead,
  timers,       \* time left of voteTimer and of heartTimer
  ticker,       \* where the ticker thread is
  electing,     \* Elect threads that have not run yet
  starting,     \* SendHeartBeats threads at their first test of killed()
  beating,      \* SendHeartBeats threads in their loop
  cutOff,       \* whether the other nodes are heard no more
  \* History, read by the properties only.
  quiet,        \* time since the node heeded a leader or a candidate
  led           \* whether it has led since

threads == <<ticker, electing, starting, beating>>
vars == <<role, is_dead, timers, threads, cutOff, quiet, led>>

\* A new deadline of 0 has passed: the clock's epoch, until a first reset.
Init ==
  /\ role = "FOLLOWER" /\ is_dead = FALSE
  /\ timers = [vote |-> 0, heart |-> 0]
  /\ ticker = "asleep" /\ electing = 0 /\ starting = 0 /\ beating = 0
  /\ cutOff = FALSE
  /\ quiet = MaxElectTimeOut /\ led = FALSE

GetRandomElectTimeOut == MinElectTimeOut .. MaxElectTimeOut

ResetVoteTimer == \E t \in GetRandomElectTimeOut : timers' = [timers EXCEPT !.vote = t]

\* Named for the timer it should reset: it is voteTimer that it resets.
ResetHeartTimer == timers' = [timers EXCEPT !.vote = HeartBeatTimeOut]
-----------------------------------------------------------------------------
Closer(left) == IF left > 0 THEN left - 1 ELSE 0

\* steady_clock advances.
Tick ==
  /\ timers' = [vote |-> Closer(timers.vote), heart |-> Closer(timers.heart)]
  /\ quiet' = IF quiet < MaxElectTimeOut THEN quiet + 1 ELSE quiet
  /\ UNCHANGED <<role, is_dead, threads, cutOff, led>>

\* start_ticker has slept for its second, and ticker tests killed().
StartTicker ==
  /\ ticker = "asleep"
  /\ ticker' = IF is_dead THEN "ended" ELSE "waiting"
  /\ UNCHANGED <<role, is_dead, timers, electing, starting, beating, cutOff, quiet, led>>

\* voteTimer.wait() returns; the lock is not yet taken.
WaitReturns ==
  /\ ticker = "waiting" /\ timers.vote = 0
  /\ ticker' = "expired"
  /\ UNCHANGED <<role, is_dead, timers, electing, starting, beating, cutOff, quiet, led>>

\* Mutant: a leader ends the loop.
TickerFiresLeaderEnds ==
  /\ ticker = "expired" /\ electing < MaxThreads
  /\ electing' = IF role # "LEADER" THEN electing + 1 ELSE electing
  /\ ResetVoteTimer
  /\ ticker' = IF is_dead \/ role = "LEADER" THEN "ended" ELSE "waiting"
  /\ UNCHANGED <<role, is_dead, starting, beating, cutOff, quiet, led>>

\* The rest of the loop: neither killed() nor the timer is looked at again.
TickerFires ==
  /\ ticker = "expired" /\ electing < MaxThreads
  /\ electing' = IF role # "LEADER" THEN electing + 1 ELSE electing
  /\ ResetVoteTimer
  /\ ticker' = IF is_dead THEN "ended" ELSE "waiting"
  /\ UNCHANGED <<role, is_dead, starting, beating, cutOff, quiet, led>>

\* A thread started by the ticker stands for election, whatever the node has
\* become meanwhile.
Elect ==
  /\ electing > 0
  /\ electing' = electing - 1
  /\ role' = "CANDIDATE"
  /\ UNCHANGED <<is_dead, timers, ticker, starting, beating, cutOff, quiet, led>>

\* Mutant: a thread of an earlier leadership is to do.
WinElectionReuses ==
  /\ role = "CANDIDATE" /\ starting + beating < MaxThreads
  /\ role' = "LEADER"
  /\ starting' = IF led THEN starting ELSE starting + 1
  /\ led' = TRUE
  /\ UNCHANGED <<is_dead, timers, ticker, electing, beating, cutOff, quiet>>

\* collectVote has the last vote it needed.
WinElection ==
  /\ role = "CANDIDATE" /\ starting + beating < MaxThreads
  /\ role' = "LEADER"
  /\ starting' = starting + 1
  /\ led' = TRUE
  /\ UNCHANGED <<is_dead, timers, ticker, electing, beating, cutOff, quiet>>

\* A SendHeartBeats thread tests killed() for the first time.
StartHeartBeats ==
  /\ starting > 0
  /\ starting' = starting - 1
  /\ beating' = IF is_dead THEN beating ELSE beating + 1
  /\ UNCHANGED <<role, is_dead, timers, ticker, electing, cutOff, quiet, led>>

\* Mutant: a killed node is not left.
BeatForever ==
  /\ beating > 0 /\ timers.heart = 0
  /\ IF role # "LEADER"
     THEN beating' = beating - 1 /\ UNCHANGED timers
     ELSE ResetHeartTimer /\ UNCHANGED beating
  /\ UNCHANGED <<role, is_dead, ticker, electing, starting, cutOff, quiet, led>>

\* One turn of its loop, to the next test of killed().  heartTimer is never
\* set, so that wait() does not wait.
Beat ==
  /\ beating > 0 /\ timers.heart = 0
  /\ IF role # "LEADER"
     THEN beating' = beating - 1 /\ UNCHANGED timers
     ELSE /\ ResetHeartTimer
          /\ beating' = IF is_dead THEN beating - 1 ELSE beating
  /\ UNCHANGED <<role, is_dead, ticker, electing, starting, cutOff, quiet, led>>

kill ==
  /\ ~is_dead
  /\ is_dead' = TRUE
  /\ UNCHANGED <<role, timers, threads, cutOff, quiet, led>>
-----------------------------------------------------------------------------
(* What the other nodes do to this one.  None of it looks at is_dead. *)

\* A leader or a candidate is heeded.
Heed ==
  /\ ~cutOff
  /\ ResetVoteTimer
  /\ quiet' = 0
  /\ UNCHANGED <<is_dead, threads, cutOff>>

\* Mutant: the timer is left alone.
AppendEntriesNoReset ==
  /\ ~cutOff
  /\ quiet' = 0
  /\ role' \in {"FOLLOWER"} \cup (IF role = "LEADER" THEN {} ELSE {role})
  /\ led' = FALSE
  /\ UNCHANGED <<is_dead, threads, cutOff, timers>>

\* A request of this term, which is not for its leader, or of a newer one.
AppendEntries ==
  /\ Heed
  /\ role' \in {"FOLLOWER"} \cup (IF role = "LEADER" THEN {} ELSE {role})
  /\ led' = FALSE

\* A vote is granted.
RequestVoteGranted ==
  /\ Heed
  /\ role' = "FOLLOWER"
  /\ led' = FALSE

\* A vote is refused in a newer term, or the reply to this node's own request
\* has one: the timer goes on.
NewerTerm ==
  /\ ~cutOff
  /\ role' = "FOLLOWER"
  /\ UNCHANGED <<is_dead, timers, threads, cutOff, quiet, led>>

\* The reply to a heart beat has a newer term.
handleAppendEntries ==
  /\ ~cutOff /\ role = "LEADER"
  /\ role' = "FOLLOWER"
  /\ ResetVoteTimer
  /\ UNCHANGED <<is_dead, threads, cutOff, quiet, led>>

\* The network fails for good.
CutOff ==
  /\ ~cutOff
  /\ cutOff' = TRUE
  /\ UNCHANGED <<role, is_dead, timers, threads, quiet, led>>

Peers == AppendEntries \/ RequestVoteGranted \/ NewerTerm \/ handleAppendEntries \/ CutOff

Next ==
  \/ Tick \/ StartTicker \/ WaitReturns \/ TickerFires
  \/ Elect \/ WinElection \/ StartHeartBeats \/ Beat \/ kill
  \/ Peers

\* Time passes, and the operating system runs every thread.
Fairness ==
  /\ WF_vars(Tick) /\ WF_vars(StartTicker) /\ WF_vars(WaitReturns)
  /\ WF_vars(TickerFires) /\ WF_vars(Elect)
  /\ WF_vars(StartHeartBeats) /\ WF_vars(Beat)

Spec == Init /\ [][Next]_vars /\ Fairness
-----------------------------------------------------------------------------
TypeOK ==
  /\ role \in {"FOLLOWER", "CANDIDATE", "LEADER"}
  /\ is_dead \in BOOLEAN /\ cutOff \in BOOLEAN /\ led \in BOOLEAN
  /\ timers \in [vote : 0..MaxElectTimeOut, heart : 0..MaxElectTimeOut]
  /\ ticker \in {"asleep", "waiting", "expired", "ended"}
  /\ {electing, starting, beating} \subseteq Nat
  /\ electing <= MaxThreads /\ starting + beating <= MaxThreads
  /\ quiet \in 0..MaxElectTimeOut

(***************************************************************************)
(* A leader that is not killed has a thread for its heart beats, however   *)
(* quickly it lost and regained its leadership and whichever of its        *)
(* threads noticed (raft.cpp:129, 346-354).                                *)
(***************************************************************************)
LeaderBeats == role = "LEADER" /\ ~is_dead => starting + beating > 0

(***************************************************************************)
(* The election timer runs out only when the node has heeded no leader and *)
(* no candidate for MinElectTimeOut, unless it has led since: a leader's   *)
(* heart beats leave it with HeartBeatTimeOut (raft.cpp:66-73, 167-177,    *)
(* raft_rpc.cpp:97, 156).                                                  *)
(***************************************************************************)
ExpiresInSilence ==
  [][ticker = "waiting" /\ ticker' = "expired" => led \/ quiet >= MinElectTimeOut]_vars

(***************************************************************************)
(* A node that hears no others stands for election, again and again, until *)
(* it leads or is killed (raft.cpp:167-177).                               *)
(***************************************************************************)
StandsInTheEnd ==
  cutOff /\ role # "LEADER" ~> electing > 0 \/ role = "LEADER" \/ is_dead

(***************************************************************************)
(* kill() ends all threads once no other node is heard, although nobody    *)
(* wakes the ticker and a killed node may stand and win once more          *)
(* (raft.cpp:167-177, 346-354, 408-409).                                   *)
(***************************************************************************)
KilledEnds ==
  is_dead /\ cutOff ~> ticker = "ended" /\ electing + starting + beating = 0
=============================================================================
