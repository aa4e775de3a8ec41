# TLA+ models of tiny-distributed-kv

The repository is a small replicated key-value store in C++: the CURP protocol
(speculative execution at a master, durability through witnesses) on top of a
Raft node with a file backed log, plus a harness for distributed tests.  This
directory holds TLA+ modules that model its core from the source, TLC
configurations that check them on small instances, and TLAPS proofs.

    tlc -workers 2 -config Witness.cfg MCWitness     # any run of PROJECT.json
    tlapm RaftCommitProofs.tla                       # the proofs of any module ...Proofs

`PROJECT.json` names, for every definition, the source lines it models.

## 1. The system

| Component | State | Operations | Talks to |
|---|---|---|---|
| Witness (`src/curp/witness.cpp`) | `records_` (one request per key), `rpc_ids_`, `master_id_`, atomic `accepting_`, `mtx_` | `record`, `garbage_collect`, `get_recovery_data`, `stop_accepting`, `get_status`, `reset` | called by its gRPC service, or directly by a master it is local to |
| Witness service and client (`src/grpc/witness_service_impl.cpp`) | none | six RPC handlers, the client's decoding of answers | clients and masters |
| CURP master (`src/curp/curp_master.cpp`) | `executed_ops_`, `unsynced_ops_`, `unsynced_keys_`, atomic `curp_state_`, `curp_mtx_`, worker thread | `propose`, `read`, `sync`, `sync_worker`/`do_sync`, `recover` | witnesses (reset, recovery data); inherits a Raft node |
| CURP client (`src/curp/curp_client.cpp`) | one `parallel_write` per call, rpc id counter | `write`, `deleteOp`, `read`, `sync` | master and every witness, in parallel |
| Raft election (`src/raft/raft.cpp`, `raft_rpc.cpp`) | `currentTerm`, `votedFor`, `role`, a vote counter per election | `ticker`, `Elect`, `RequestVote`, `GetVoteAnswer`, `collectVote` | the other nodes |
| Raft log replication (same files) | `log`, `commitIndex`, `nextIndex`, `matchIndex` | `SendHeartBeats`, `AppendEntries`, `handleAppendEntries` | the other nodes |
| LogVec (`src/storage/log_vec.cpp`) | a data file, an offset file, `entry_count_` | `push_back`, `operator[]`, `truncate_from`, `sync`, iterators | used by Raft |
| Timer (`src/utils/timer.cpp`) and the threads of a Raft node | `deadline`, `stopped`; `is_dead`, detached threads | `reset`, `wait`, `stop`; `start_ticker`, `ticker`, `SendHeartBeats`, `kill` | used by Raft |
| Network simulator (`src/test/network_simulator.cpp`) | a queue of delayed messages, partitions, loss, a clock, a worker thread | `send_message`, `partition`, `heal`, `isolate_node`, `advance_time`, ... | handlers of a test |
| Node controller (`src/test/node_controller.cpp`) | masters, witnesses, clients, their states | create, bind, start, stop, crash, recover, write, propose | masters, witnesses, clients |
| Consistency checker (`src/test/consistency_checker.cpp`) | a history of operations | `record_write_start`, `record_write_end`, `record_read`, `check_linearizability`, `reset` | called by a test |
| Generated protobuf and gRPC code (`proto/*.pb.*`), node service | message objects; one status per call | setters, parse, serialize, merge; stubs and services | every RPC above |
| Tracing | none that a decision depends on | | |

What is hard in this code:

* **Concurrency.** `stop_accepting()` and the tests of `curp_state_` do not take
  the mutex of what they guard; what is proposed to a master races the writes
  that are recorded at its witnesses; the sync worker drops its lock before it syncs; each Raft RPC is a
  detached thread that finds the node changed when its answer arrives.
* **Failure.** The master loses all tables in a crash and rebuilds them from a
  witness; RPCs fail before or after their handler ran; Raft persists its log
  but neither term nor vote; an append or a truncation of the log is two writes
  to two files, with no length and no checksum to tell a torn one.
* **Ordering.** Proposals arrive twice, the second time after the sync;
  collections arrive late; heart beats and their replies overtake each other.
* **Time.** A node stands when a timer runs out that heart beats, votes and its own
  former leadership reset to different times; `kill()` wakes nobody.
* **Limits.** A witness has `kMaxRecords` places; backing off computes an
  unsigned log index from three fields of a reply.

The `hazards` of `PROJECT.json` list these at their lines, with the properties
that watch them.

## 2. Modules

| Module | Models | Composition |
|---|---|---|
| `WitnessOps` | each method of `Witness` as an operator from state to state and answer, and the coding of answers in the service and its client | base of the next two |
| `Witness` | one witness called by several handler threads | extends `WitnessOps` |
| `CurpMaster` | the master with its witnesses | extends `WitnessOps` |
| `CurpSystem` | master and witnesses with their callers: writing clients, and those that propose to the master itself | extends `CurpMaster` |
| `Raft` | election and log replication of a cluster | |
| `RaftCrash` | the same with nodes that restart | extends `Raft` |
| `CommittedLog` | what Raft promises of commits: one append-only log of which every node knows a prefix | implemented by `Raft` |
| `Ticker` | the timers and threads of one Raft node | the time that `Raft` leaves open |
| `LogVec` | the log of a Raft node in its two files | |
| `EntryLog` | what LogVec promises: a sequence of entries, and what a crash may do to it | implemented by `LogVec` |
| `Wire` | the 32 messages of the proto files: schemas, setters, parsing, serializing, merging | base of `Rpc` and of the encoding in `MCLogVec` |
| `Rpc` | a unary call of each of the 14 methods, from the setters to what the caller reports | extends `Wire` |
| `NetworkSimulator`, `NodeController`, `ConsistencyChecker` | the three parts of the test harness | |
| `TestBase` | the test fixture with the three of them | extends the three |
| `WitnessProofs`, `CurpProofs` | theorems about `Witness` and `CurpSystem` | extend them |
| `RaftProofs`, `RaftCommitProofs` | theorems about `Raft`: election and log replication, commits | extend `Raft`, the second the first |
| `TickerProofs`, `LogVecProofs`, `RpcProofs`, `TestBaseProofs` | theorems about `Ticker`, `LogVec`, `Rpc` (with the lemmas about `Wire`) and `TestBase` | extend them |
| `MC...` | values for the constants | |

**Witness.** The record `w` holds the fields of the class; `records` maps a key
to the rpc id stored under it or to `NoRpc`.  Payloads, time stamps and
statistics are left out: nothing is decided by them.  All methods hold `mtx_`
from beginning to end and are one step each, except `record()`: it reads the
atomic `accepting_`, which `stop_accepting()` stores without the mutex, so
`RecordEnter` and `RecordFinish` are two steps around an explicit `mtx`.
The Stop handler is `StopAccepting` and `StopStatus`.  The answer of `record` goes
through the coding of the service and the decoding of `WitnessClient`, and the
RPC may fail after the record was stored.  Callers may leave the master id out
(`CallerIds`): proto3 reads it as the empty string then, which the witness takes for
any other id and which leaves it unbound.  The history variable `owner` keeps the id
under which the request of each key was stored.

**CurpMaster.** `propose` and `read` are two steps each, because the state is
tested before the lock.  `do_sync` and the wake-up test of the worker are
separate critical sections.  `recover` is a chain of steps; `mtx` is explicit
because `recover` calls `do_sync`, which locks the non-recursive `curp_mtx_`,
while it holds `curp_mtx_`: `RecoverEnterSync` has no successor in `recover`.
The entries `do_sync` builds for Raft are dropped by the code ("simulated");
the history variable `backup` keeps them, so that durable means "in `backup`".
`Restart` destroys the process and creates a new one with empty tables and the
same witnesses.  `syncing_` is always false when it is read and is left out.

**CurpSystem.** Master and clients meet at the witnesses only.  A client's write asks
its `CurpMasterClient` and records at all witnesses, one after the other, and decides
from the answers (`WriteDecide`).  `CurpMasterClient` is a stub in the repository that
reaches no master: `MasterClientPropose` and `MasterClientSync` are its constant
answers, so a write is fast if all witnesses accept and slow otherwise.  With
`RpcFails`, a record or its answer may be lost.  The master is proposed to and read
from by callers that have the object, as `NodeController::master_propose` and the tests
do; `Propose` is such a call, of an operation a client may be writing at the same time,
and may come twice.  `sync()` of the master locks and notifies the worker, which
wakes up without that too, and is left out.

**Raft.** A message is an RPC in flight or its reply in flight.  A handler is one
step, as it holds `mtx_` throughout; the sender's thread continues in
`GetVoteAnswer` and then, after an unlock, `CollectVote`, or in
`handleAppendEntries`.  Messages are delivered in any order and may be lost;
gRPC delivers none twice.  Timers may fire at any time.  `lastIncludedIndex` is
always 0 (there is no snapshot code), so the branches for a truncated prefix
are dead and left out.  Nothing in the repository appends client entries to
the log: `HostAppend` stands for the service that would.  Four variables are history
that no guard reads: `voters` (who voted for a node in its latest election), `leaders`
(who led which term, elected by whom), `leaderLog` (the log of the leader of each
term) and `committed` (what a leader committed, in which term).  The refinement mapping
to `CommittedLog` takes a node's log up to its `commitIndex` for what it knows and
the longest of these for what is chosen.

**Ticker.** Time is discrete, and a timer is the time left until its deadline:
`reset()` wakes `wait()`, whose predicate is false, and which goes on waiting for the
new deadline.  The ticker is at one of four places, among them the gap between
the return of `wait()` and the lock; `Elect` and `SendHeartBeats` threads are
counted.  The rest of the cluster may do at any time what the handlers let it do,
until `CutOff`.  `ResetHeartTimer` resets `voteTimer`, as in the code.

**LogVec.** Both files are sequences, `push_back` and `truncate_from` are two steps,
one for each file, and the process may die in between.  The files are external:
what was written survives the process.  In `MCLogVec` entries are encoded by `Wire`
as `raft.proto` says, so that a blank entry takes no bytes and bytes left by a torn
append parse as more fields of the entry before them.

**Wire and Rpc.** A message is a record of its fields and its unknown fields; its
bytes are a sequence of tags with their values.  Defaults are not written, the last
value of a scalar wins, 32 bit fields wrap, strings that are not UTF-8 can be
written but not read.  A call is followed through its phases; the connection may
fail before or after the handler, and `CurpService`, which no server registers, is
answered UNIMPLEMENTED.  Handlers answer arbitrarily: what they do is in the other
modules.

**TestBase.** The three parts share no state, so in each behaviour the test uses one
of them.  The worker of the simulator takes the lock for a turn, in which it hands
over everything due; the test thread calls everything else and waits in `stop()`.
The checker's records have uninitialised fields, which are arbitrary.  A master of the
controller is whether it was killed and whether it has unsynced operations.  Every call
holds the controller's mutex to its end, and the `recover()` of a master with unsynced
operations has no end (`RecoveryReturns`): then the mutex stays held (`hung`), the state
of the node is what it was, and no call returns any more.  `crash_and_recover` is two steps,
`Restart` and `RestartEnd`, with anything in its delay.

## 3. Runs

Passing runs:

| Run | Instance | Shows |
|---|---|---|
| `Witness` | 3 threads, 2 master ids and the empty one, 4 requests of which 2 share a key, capacity 2 | the two tables of the witness agree; a promise is kept until its own master collects it; no promise escapes the recovery data; the count answered by Stop is final; capacity; a request recorded for a master is given to the recovery of no other; no record is overwritten |
| `CurpNormal` | 3 operations, 2 of them on one key, one proposed twice, RPCs fail, one local witness | at-most-once execution; unsynced operations commute; a propose that succeeded was executed and is unsynced or synced as it was proposed; every executed operation is synced in the end; every write returns |
| `CurpRecovery` | 2 operations on one key, 2 witnesses of which one or none is local, reads, RPCs fail, 1 crash, 1 recovery | at-most-once within a process; nothing executed is forgotten before it is synced; what recovery fetched is synced when it ends; reads see only synced data, across a crash; without a local witness, a write done on the fast path is synced or in every witness |
| `RaftDelays` | 3 nodes, 2 candidates, 2 terms, 1 client entry, 2 messages in flight | one leader per term; the cluster implements `CommittedLog`; `matchIndex` never overstates a follower; terms, votes and commits are not taken back |
| `RaftBackOff` | 3 nodes, 2 candidates, 3 terms, 2 client entries, 1 message in flight | logs match; committed entries survive changes of leader; backing off keeps `nextIndex` inside the log |
| `Rpc` | every method, up to 3 setters, values that fit and that need 64 bits, integers of 2 bits for those of 32 | a handler sees what the caller has set or does not run; a caller reports an acceptance, data or a vote only if the handler ran once and said so; what was read can be written again |
| `LogVec` | 3 entries with 0, 1 and 2 fields, logs of up to 3, 2 crashes | the files implement `EntryLog`; sweeps of iterators meet every entry once, in order |
| `Ticker` | heart beat 2, election timeouts 4 and 5, 2 threads of a kind | a leader has a heart beat thread; the election timer runs out in silence only; a node that is cut off stands; a killed one ends all threads |
| `TestBase` | 2 peers, 2 messages, 1 cut; 1 id for all types of nodes; 2 clients, 3 operations on a key | messages in order and accounted for, none left behind; no overlap on record missed; `crash_and_recover` ends, unless the controller hangs in the recovery of a master with unsynced operations |

Runs that end in a violation, each a disagreement between the code and what a
comment, document or test of the repository says (quoted in `PROJECT.json`):

| Run | What the trace shows |
|---|---|
| `RecoveryReturns` | `recover()` with an unsynced operation locks `curp_mtx_` twice and never returns to NORMAL |
| `FastWriteLost` | a sync resets the local witness together with a request the master has not executed yet; the write then completes on the fast path, neither synced nor witnessed |
| `RaftRestart` | `persist()` is empty: a restarted node votes again in its term, which gets two leaders |

**Bounds.** Two requests on one key and one on another are the least in which a
conflict, its absence and a collection that names the wrong request occur; a
third thread lets a stop and a reset fall between the steps of a record.  One
crash and one recovery suffice for every phase of a recovery to be cut off and
begun again, and a proposal that is repeated arrives before and after each
phase.  Raft needs three terms for a leader to meet a follower whose log
conflicts with its own at the previous index, for a new leader starts behind
its own last entry; and two messages in flight for one to overtake another.
Both at once exceed a few minutes of checking, hence the two runs.  Letting two
nodes stand for election is enough for a split vote, and they are symmetric.
Three entries let a torn append meet an empty, a short and a spoilt neighbour, and
two crashes tear an operation behind an earlier tear.  The timeouts keep the order
of `consts.h`, with a choice of two for the random one; two heart beat threads are
the least in which one of an earlier leadership survives into the next.

**Master ids.** `CurpRecovery` records under the id that the master recovers under
(`ClientMasterId = "0"`).  A caller of the record RPC chooses the id; `CurpClient`
chooses another one, and with it every recovery is empty (section 5): the run
looks at what recovery does when it gets data.

**Deadlock.** `CHECK_DEADLOCK FALSE` in the CURP and Raft runs: clients finish
their bounded work, and a recovery may lock itself out; and in `TestBase`, where the
controller then hangs with it.

**Fairness.** `CurpSystem!Fairness` (`CurpNormal`, `RecoveryReturns`): weak fairness of
the worker, which waits with a timeout of 100 ms and so needs no notification; of
the records and the decision of a write that has started, since they are threads that
wait for nothing but RPCs, which end; and of a `recover()` that was called.  That a
client writes, anyone proposes, a master crashes or anyone calls `recover()` is not
assumed.
`Ticker!Fairness`: time passes, and the operating system runs every thread of the
node; nothing is assumed of the other nodes, of `kill()` or of winning an election.
`TestBase`: the worker of the simulator runs, and so does the thread of a
`crash_and_recover` when its delay is over; the test may do nothing.

## 4. Proofs

Each theorem holds for all values of the constants that satisfy the named
assumptions of the modules.  The bounds of the runs are such constants, so the
theorems hold for any number of operations, crashes, terms and messages.  All
inductive invariants were checked with TLC on the instances of section 3 before they
were proved.

**Witness** (`WitnessProofs`): any sets of threads, masters, requests and (finitely
many) keys, any `kMaxRecords`.

* `WitnessTypeOK`, `TablesAgree`, `CapacityRespected`, `NoForeignRecovery`,
  `StopAnswerIsFinal`: the invariants of the run, from `WitnessInvariant`;
* `PromisesKept`, `RecoveryMissesNothing`: if request ids are unique, an accepted
  request is held until it is collected or reset, and recovery data contains every
  promise;
* `KeysNeverOverwritten`: the action property of the run.

The inductive invariant `IInv` adds to the properties: `MutexInv` (the thread
between the steps of `record()` is the holder of `mtx`, and its argument is a
call), `HeldWereRequested`, `BoundToOwner` (what a bound witness holds was recorded
for its master or for none, which `NoForeignRecovery` rests on), and `StoppedInv`.  The last is the heart of it: once
recovery data or a Stop count was given out, the witness refuses **and no
record() is under way**; the second half is what a store of `accepting_` without
the mutex could break, and it holds because both answers are taken under
`mtx_`.  `WithinCapacity` and `StopCountIsFinal` need facts about cardinality from
`FiniteSetTheorems`.  Uniqueness of ids is an assumption of the two theorems about
promises only: the duplicate test of `record()` looks at the id alone, so with a
reused id it answers ACCEPTED to a request it does not store.

**CURP** (`CurpProofs`): any operations, keys and witnesses, any number of
proposals, crashes and recoveries.

* `CurpTypeOK`: the type invariant;
* `NoDoubleExecution`, `NothingExecutedIsForgotten`: from `TablesInv`, inductive with the
  types.  Every step that executes does so on ids not in `executed_ops`, and adds
  them to `executed_ops` and `unsynced_ops` in one critical section;
* `RecoverySyncs`: from `RecoveryInv`, which adds that what `recover()` fetched is
  executed before it looks at what to sync;
* `DurableReads`: the action property, from `TablesInv`: a read refuses a key with an
  unsynced operation, and what is executed and not unsynced is synced;
* `UnsyncedOpsCommute`: as long as no recovery has begun.  The condition is needed,
  `replay_ops` tests no conflict (section 5);
* `SuccessfulProposesAreExecuted`: as long as no recovery has begun and no master
  restarted; a new process does not know what an earlier one executed, and a replay
  changes the type.  `SuccessInv` says of everything executed that it is unsynced or
  synced as it was proposed, for the answer to a duplicate is taken from the ids alone;
* `RemoteFastWritesAreDurable`: a write done on the fast path is synced or in every
  witness, through crashes and recoveries, if no witness is local.  `FastInv` needs
  that without a local witness no witness loses a request (`WitnessesGrow`): a
  recovery only stops a witness, and `do_sync` resets the local one only.

**Raft, election** (`RaftProofs`): any finite cluster, messages delayed,
reordered and lost.

* `ElectionSafety`: a term has at most one leader.

`ElectionInv` follows a vote from the request through the reply to the thread that
counts it.  There is one message or thread at most for a candidate, voter and term
(`BallotInv`), so that `voteCount` counts nobody twice: it is at most the number of
voters whose vote is no longer under way.  A voter is bound to its candidate in
that term, the voters of rivals are disjoint, and two majorities meet.  Restarts
are excluded: with them the property fails (`RaftRestart`).

**Raft, log** (`RaftProofs`, on top of the former):

* `RaftTypeOK`, `LogMatching`, `NextIndexStaysInLog`, `MatchIndexTrue`.

`LogInv` relates everything to `leaderLog`: wherever an entry of term *t* stands, in the
log of a node or a leader, up to there that log is the one of the leader of *t*
(`Good`); a request in flight carries a part of the log of its sender, though that may
have lost its office or grown since (`RequestOK`); a positive reply is true until its
sender learns of a later term (`ReplyOK`), and a negative one names a place in the log of
the leader that asked, which is why backing off stays in it.

**Raft, commits** (`RaftCommitProofs`, on top of both):

* `LeaderCompleteness`: a leader has every entry committed in an earlier term;
* `NoneTakenBack`: the action property of the run;
* `RaftImplementsCommittedLog`: the refinement of `CommittedLog`, step by step.

`CommitInv` tracks an entry from the node that stored it: the node has it, and has passed
it on as a condition of its vote, unless a leader of a later term lost it
(`Tracked`, `Lost`).  If a majority tracks an entry of its leader's own term
(`Anchored`), no later leader lost it: the **first** to do so would have been elected
with the vote of a node that still had the entry.  Taking the least such leader replaces
the usual induction over terms.  What a node, or a request in flight, takes for
committed is backed by an anchored entry at or behind it (`Backed`), so two of these
agree, and the longest is the log of `CommittedLog`.

**LogVec** (`LogVecProofs`): any entries and encoding, logs of any length, any number of
crashes.

* `LogVecImplementsLog`: the refinement of `EntryLog` across appends, truncations, restarts
  and crashes between the two files.

It assumes of the encoding that what is read from the bytes of several entries, one
behind the other, is their merge (`MergesInReading`), as the format of protobuf has it.
`EntriesMergeInReading` of `RpcProofs` proves this of the encoding that `Wire` gives the
entries of Raft, whose keys are UTF-8, and `MCLogVec` has TLC evaluate it for up to three
entries in a row (`EncodingAssumption`).  `FilesInv` says that the bytes of every entry that is not
spoilt lie before those of the entries behind it, whatever garbage is between them, and
are one or more encoded entries.

* `IteratorsMeetAll`: the sweeps of the iterators, for logs of any length and whatever a
  crash has left in the files.

`Forth` and `Back` are the loops over `++` and `--`; what they collect is shown for the
loops in general, by induction on the number of turns left (`ForthMeetsAll`,
`BackMeetsAll`).  The library's induction rules cannot be instantiated, so the induction
is one for a *set* of numbers: the least one outside of it is neither 0 nor a successor of
one inside (`AllNumbers`).  Of the state only `SizeInv` is needed: `size()` is the number
of offsets and within its bound, which every operation keeps.

**Ticker** (`TickerProofs`): all timeouts in the order of `consts.h` and any number of
threads.

* `Typed`: the type invariant, with the bounds of the timers;
* `LeaderAlwaysBeats`: `LeaderBeats`, inductive together with the types: a step that
  ends a heart beat thread is one of a node that does not lead or is killed;
* `ExpiresOnlyInSilence`: the action property.  Its inductive invariant `Patience`
  says that a node that has not led since it heeded another one was quiet for so
  long, and has so much left on the election timer, that the two make
  `MinElectTimeOut`; and that a leader has led, which is what excuses the reset to
  the shorter `HeartBeatTimeOut`.

**Messages and calls** (`RpcProofs`): all 32 messages and 14 methods, any number of
setters, any sample values and any deployment of the services.

* `HandlersSeeRequests`, `OnlyAnswersAreReported`, `RelaysKeepBytes`;
* `EntriesMergeInReading`: any number of entries of a log, one behind the other, are read as
  their merge: no failed parse, the last value of every field that is not the default.

The base is `ReadsBack`: for every schema whose fields are numbered from 1 under different
names, the bytes of a message read as that message, with an unknown field behind them
kept, or, if a string is no UTF-8, not at all.  Parsing is a fold over the tags, so the
lemmas first unfold it tag by tag (`FoldExists`, `FoldUnique`, `ParseIsFold`,
`ParseMore`, with `AllNumbers` as above), then follow it through the elements of one field
(`ElementsReadBack`) and through the fields (`ReadElements`).  `Schemas` and
`EmbeddedSchemas` show that every message of the proto files is of that kind, and
`WritesAgain` that what was read is written as the same bytes.  `RpcInv` carries this through a call: the
objects at both ends are proper messages of the method's types, the bytes under way are
those of the object they were written from, and the status the caller sees is that of the
one handler that ran.  Beyond their types it is
assumed of the constants only that `Two32` exceeds 1, as 2^32 does: else the sample value
1 would not fit an `int32`.

**Test harness** (`TestBaseProofs`): any nodes, clients, delays and numbers of messages.

* `MessagesInOrder`: from `NetInv`, which adds that what was delivered last was due not
  later than the clock says, so that nothing sent now is due before it, and that no queued
  message has the id of the next one, so that sending one makes the queue longer;
* `NoOtherHang`: the controller hangs only in the recovery of a master with unsynced
  operations that it proposed itself (`HangsOnlyUnsynced`, the exception in `RestartsEnd`).
  `NodesInv` adds that what a master has not synced was counted as a fast operation of its
  id, also when the id was given to a new master;
* `NoOverlapMissed`: from `CheckerInv`: records stand in the order in which they began, and
  one that had not ended when another began does not end before that, a record whose end
  came under a reused id included.

**Only model-checked.**

* Liveness, which is out of the prover's reach: `EventuallySynced`, `WritesReturn`,
  `StandsInTheEnd`, `KilledEnds`, `QueueDrains`, `RestartsEnd`, and the violated `RecoveryReturns`.
* `RaftCrash`: with restarts there are two leaders in a term, and what is proved about
  `Raft` rests on there being one.

## 5. Observations without a run

Met while modelling; the models behave like the code in each.

* A full witness answers REJECTED_NO_SPACE to the retry of a request it holds:
  capacity is tested before duplicates (`witness.cpp:48`).
* `replay_ops` gives every record the type PUT with the serialized request as
  value, so a recorded delete comes back as a put (`curp_master.cpp:271`), and it
  tests no conflict, so two unsynced operations can share a key (`:260`).
* After a restart `executed_ops_` is empty, and a request synced before the crash
  is executed again from the witness (`:227`); hence `ExecutedAtMostOnce` speaks of
  one process.
* A recovery that finds nothing to sync does not reset the witness, which then
  refuses every record (`:205`).
* `recover()` leaves its loop after the first witness, and a failed RPC reads as
  no records (`:196`, `witness_service_impl.cpp:224`).
* No code calls `garbage_collect`, so remote witnesses fill up (`:399`).
* `CurpMasterClient` answers success to every propose, read and sync and reaches no
  master (`curp_client.cpp:419-430`): `CurpClient` reports a write done that no master has
  executed, and reads nothing.  Were it connected to `CurpMaster`, a key conflict would
  fail the write, for `parallel_write` tests `success` before `need_sync` (`:226`) and the
  master answers `{false, false, true}`; and a slow write would be done before it is
  synced, for `sync()` only notifies the worker (`curp_master.cpp:159`), unlike the
  diagram in `doc/curp-algorithm.md:139-145`.
* A request with an empty master id is stored in any witness that is unbound, leaves it
  unbound (`witness.cpp:84`), and is handed to whichever master binds the witness
  afterwards.  A repetition of it under the id of a master is answered ACCEPTED by
  the duplicate test before the witness is bound (`witness.cpp:57-63`).
* Clients record under the literal `"master"` (`curp_client.cpp:319`), the master
  recovers under its node id (`curp_master.cpp:246`) and gets nothing.
* `ResetHeartTimer` resets `voteTimer` (`raft.cpp:72`): `heartTimer` keeps the deadline
  it was built with, the heart beats of a leader follow each other without a pause,
  and a leader that becomes a follower may stand again after `HeartBeatTimeOut`.
* The ticker stands when `wait()` has returned, whatever arrives before it has the
  lock (`raft.cpp:169`); a killed node may stand once more.
* A torn append is not detected: its bytes are read as further fields of the entry
  before (`log_vec.cpp:154`); after a torn truncation the old offsets come back
  (`:208`).  The result of parsing is ignored (`:222`), so an entry whose key is not
  UTF-8 loses its value.  Postfix `++` and `--` of a reverse iterator move it the wrong
  way (`:85-113`); nothing uses them.
* A message sent before a partition is delivered through it
  (`network_simulator.cpp:81`); one for a node without a handler is in no counter.
* Operations within one millisecond count as overlapping, and `fast_path` of a read is
  never set, so the checker may report pairs that did not overlap or were reads
  (`consistency_checker.cpp:72-99`, `126-136`).  After a `reset()` a write that began
  before it ends the record that has its id by then.
* `crash_node` kills the Raft node of a master; the object keeps its tables and its sync
  worker and executes what is proposed to it, though `node_controller.h:95` and
  `doc/test-framework-design.md:57` say that a crash loses the memory.  `recover_node` counts
  the master as running and revives nothing, where `node_controller.h:105` ("kill and
  restart at once") and `doc/test-framework-design.md:58` ("recover from the persisted
  state") promise a restart.
* `recover_node` of a master with unsynced operations does not return and keeps the
  controller's mutex (`node_controller.cpp:106`); `dtest_framework.cpp:159-171` proposes
  five operations, expects all of them unsynced, and recovers the master, which
  returns only if the worker syncs in between.
* A candidate that hears the leader of its own term stays a candidate
  (`raft_rpc.cpp:158`); harmless for safety.
* The constructor of `RaftNode` appends a blank entry of term 0 to the log it
  finds (`raft.cpp:62`), so a restarted node has a last term of 0.

## 6. Plan

Modelled: everything but what is listed below.  Left, in this order:

1. A master that `CurpMasterClient` reaches and whose `do_sync` appends to the log of
   its Raft node, when the code has them: `CurpSystem` composed with `Raft`, and an
   abstract durable store that it implements.
2. The rpc id generator of the client, with 16 bit client ids.

Not modelled: tracing and logging; reflection, arenas, sizes and the asynchronous
and callback stubs of the generated code, which nothing in the repository uses;
`InstallSnapshot`, which is an empty stub; the vendored LSM engine, of which only
the file object is used (by LogVec, as an external file).
