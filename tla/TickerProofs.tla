---------------------------- MODULE TickerProofs ----------------------------
(***************************************************************************)
(* The safety properties of Ticker, for all time outs and any number of    *)
(* threads.                                                                *)
(***************************************************************************)
EXTENDS Ticker, TLAPS

(***************************************************************************)
(* The variables keep their types: no thread ends twice and no timer is    *)
(* set beyond MaxElectTimeOut.                                             *)
(***************************************************************************)
THEOREM Typed == Spec => []TypeOK
<1>1. Init => TypeOK
  <2> SUFFICES ASSUME Init PROVE TypeOK
    OBVIOUS
  <2>1. is_dead \in BOOLEAN /\ cutOff \in BOOLEAN /\ led \in BOOLEAN
    BY Zenon DEF Init
  <2>2. /\ timers \in [vote : 0..MaxElectTimeOut, heart : 0..MaxElectTimeOut]
        /\ {electing, starting, beating} \subseteq Nat
        /\ electing <= MaxThreads /\ starting + beating <= MaxThreads
        /\ quiet \in 0..MaxElectTimeOut
    <3>1. timers = [vote |-> 0, heart |-> 0] /\ quiet = MaxElectTimeOut
      BY DEF Init
    <3>2. electing = 0 /\ starting = 0 /\ beating = 0
      BY DEF Init
    <3> QED
      BY <3>1, <3>2, TickerAssumption
  <2> QED
    BY <2>1, <2>2 DEF Init, TypeOK
<1>2. TypeOK /\ [Next]_vars => TypeOK'
  <2> SUFFICES ASSUME TypeOK, [Next]_vars PROVE TypeOK'
    OBVIOUS
  <2> USE TickerAssumption DEF TypeOK
  <2>1. CASE Tick
    BY <2>1 DEF Tick, Closer, threads
  <2>2. CASE StartTicker
    BY <2>2 DEF StartTicker
  <2>3. CASE WaitReturns
    BY <2>3 DEF WaitReturns
  <2>4. CASE TickerFires
    BY <2>4 DEF TickerFires, ResetVoteTimer, GetRandomElectTimeOut
  <2>5. CASE Elect
    BY <2>5 DEF Elect
  <2>6. CASE WinElection
    <3>1. led' \in BOOLEAN
      BY <2>6, Zenon DEF WinElection
    <3>2. starting' \in Nat /\ starting' + beating <= MaxThreads
      <4>1. starting' = starting + 1 /\ starting + beating < MaxThreads
        BY <2>6 DEF WinElection
      <4> QED
        BY <4>1
    <3>3. role' = "LEADER"
      BY <2>6 DEF WinElection
    <3>4. UNCHANGED <<is_dead, timers, ticker, electing, beating, cutOff, quiet>>
      BY <2>6 DEF WinElection
    <3> QED
      BY <3>1, <3>2, <3>3, <3>4, Zenon
  <2>7. CASE StartHeartBeats
    BY <2>7 DEF StartHeartBeats
  <2>8. CASE Beat
    BY <2>8 DEF Beat, ResetHeartTimer
  <2>9. CASE kill
    <3>1. is_dead' \in BOOLEAN
      BY <2>9, Zenon DEF kill
    <3>2. UNCHANGED <<role, timers, ticker, electing, starting, beating, cutOff, quiet, led>>
      BY <2>9 DEF kill, threads
    <3> QED
      BY <3>1, <3>2, Zenon
  <2>10. CASE Peers
    <3>1. role' \in {"FOLLOWER", "CANDIDATE", "LEADER"} /\ quiet' \in 0..MaxElectTimeOut
      BY <2>10 DEF Peers, AppendEntries, RequestVoteGranted, NewerTerm,
                   handleAppendEntries, CutOff, Heed
    <3>2. timers' \in [vote : 0..MaxElectTimeOut, heart : 0..MaxElectTimeOut]
      BY <2>10 DEF Peers, AppendEntries, RequestVoteGranted, NewerTerm,
                   handleAppendEntries, CutOff, Heed, ResetVoteTimer, GetRandomElectTimeOut
    <3>3. UNCHANGED <<is_dead, ticker, electing, starting, beating>>
      BY <2>10 DEF Peers, AppendEntries, RequestVoteGranted, NewerTerm,
                   handleAppendEntries, CutOff, Heed, threads
    <3>4. cutOff' \in BOOLEAN /\ led' \in BOOLEAN
      BY <2>10, Zenon DEF Peers, AppendEntries, RequestVoteGranted, NewerTerm,
                          handleAppendEntries, CutOff, Heed
    <3> QED
      BY <3>1, <3>2, <3>3, <3>4, Zenon
  <2>11. CASE UNCHANGED vars
    BY <2>11 DEF vars, threads
  <2> QED
    BY <2>1, <2>2, <2>3, <2>4, <2>5, <2>6, <2>7, <2>8, <2>9, <2>10, <2>11 DEF Next
<1> QED
  BY <1>1, <1>2, PTL DEF Spec

(***************************************************************************)
(* A leader that is not killed has a SendHeartBeats thread: a thread that  *)
(* ends has seen, under the lock, that the node does not lead, or that it  *)
(* is killed.                                                              *)
(***************************************************************************)
THEOREM LeaderAlwaysBeats == Spec => []LeaderBeats
<1>1. Init => LeaderBeats
  BY DEF Init, LeaderBeats
<1>2. TypeOK /\ LeaderBeats /\ [Next]_vars => LeaderBeats'
  <2> SUFFICES ASSUME TypeOK, LeaderBeats, [Next]_vars,
                      role' = "LEADER", ~is_dead'
               PROVE  starting' + beating' > 0
    BY DEF LeaderBeats
  <2>1. starting \in Nat /\ beating \in Nat
    BY DEF TypeOK
  <2>2. CASE role = "LEADER" /\ ~is_dead /\ UNCHANGED <<starting, beating>>
    BY <2>2 DEF LeaderBeats
  <2>3. CASE WinElection
    BY <2>1, <2>3 DEF WinElection
  <2>4. CASE StartHeartBeats
    BY <2>1, <2>4 DEF StartHeartBeats
  <2>5. CASE Beat
    <3>1. beating > 0 /\ starting' = starting /\ beating' = beating
      BY <2>5 DEF Beat
    <3> QED
      BY <2>1, <3>1
  <2>6. CASE Elect \/ kill
    BY <2>6 DEF Elect, kill
  <2>7. CASE Peers
    BY <2>2, <2>7 DEF Peers, AppendEntries, RequestVoteGranted, NewerTerm,
                      handleAppendEntries, CutOff, Heed, threads
  <2>8. CASE Tick \/ StartTicker \/ WaitReturns \/ TickerFires \/ UNCHANGED vars
    BY <2>2, <2>8 DEF Tick, StartTicker, WaitReturns, TickerFires, vars, threads
  <2> QED
    BY <2>3, <2>4, <2>5, <2>6, <2>7, <2>8 DEF Next
<1> QED
  BY Typed, <1>1, <1>2, PTL DEF Spec

\* Until a node leads, the time it has heeded nobody and the time left to its
\* election make up a time out.
Patience ==
  /\ role = "LEADER" => led
  /\ ~led => quiet + timers.vote >= MinElectTimeOut

(***************************************************************************)
(* The election timer of a node that has not led runs out in silence only. *)
(* Patience is what makes it inductive: only the heart beats of a leader   *)
(* shorten the timer, and whoever leads has led.                           *)
(***************************************************************************)
THEOREM ExpiresOnlyInSilence == Spec => ExpiresInSilence
<1>1. Init => Patience
  BY TickerAssumption DEF Init, Patience
<1>2. TypeOK /\ Patience /\ [Next]_vars => Patience'
  <2> SUFFICES ASSUME TypeOK, Patience, [Next]_vars PROVE Patience'
    OBVIOUS
  <2> USE TickerAssumption DEF Patience
  <2>1. /\ timers \in [vote : Nat, heart : Nat] /\ quiet \in Nat
        /\ quiet <= MaxElectTimeOut /\ MaxElectTimeOut \in Nat /\ MinElectTimeOut \in Nat
        /\ MinElectTimeOut <= MaxElectTimeOut
    BY DEF TypeOK
  <2>2. CASE Tick
    BY <2>1, <2>2 DEF Tick, Closer
  <2>3. CASE TickerFires
    BY <2>1, <2>3 DEF TickerFires, ResetVoteTimer, GetRandomElectTimeOut
  <2>4. CASE Beat
    BY <2>1, <2>4 DEF Beat, ResetHeartTimer
  <2>5. CASE WinElection
    BY <2>5 DEF WinElection
  <2>6. CASE AppendEntries \/ RequestVoteGranted
    BY <2>1, <2>6 DEF AppendEntries, RequestVoteGranted, Heed, ResetVoteTimer,
                      GetRandomElectTimeOut
  <2>7. CASE handleAppendEntries
    BY <2>1, <2>7 DEF handleAppendEntries, ResetVoteTimer, GetRandomElectTimeOut
  <2>8. CASE StartTicker \/ WaitReturns \/ Elect \/ StartHeartBeats \/ kill
               \/ NewerTerm \/ CutOff \/ UNCHANGED vars
    BY <2>8 DEF StartTicker, WaitReturns, Elect, StartHeartBeats, kill, NewerTerm,
                CutOff, vars
  <2> QED
    BY <2>2, <2>3, <2>4, <2>5, <2>6, <2>7, <2>8 DEF Next, Peers
<1>3. TypeOK /\ Patience /\ [Next]_vars
        => [ticker = "waiting" /\ ticker' = "expired"
              => led \/ quiet >= MinElectTimeOut]_vars
  <2> SUFFICES ASSUME TypeOK, Patience, Next, ticker = "waiting", ticker' = "expired"
               PROVE  led \/ quiet >= MinElectTimeOut
    OBVIOUS
  <2>1. timers.vote = 0
    BY DEF Next, Tick, StartTicker, WaitReturns, TickerFires, Elect, WinElection,
           StartHeartBeats, Beat, kill, Peers, AppendEntries, RequestVoteGranted,
           NewerTerm, handleAppendEntries, CutOff, Heed, threads
  <2> QED
    BY <2>1 DEF TypeOK, Patience
<1> QED
  BY Typed, <1>1, <1>2, <1>3, PTL DEF Spec, ExpiresInSilence
=============================================================================
