# A TLA+ model of tsih

tsih is a task scheduler in C++: a few *masters* keep a replicated log of task
actions (submit, assign, finish) with a Raft-like protocol of their own,
*workers* run the tasks and report back, *clients* submit tasks and ask for
their state. Everything talks gRPC; nothing is written to disk. This directory
holds TLA+ modules that model the program, TLC configurations that check them
on small instances, and proofs for TLAPS.

Reading order: `Timer.tla`, `TimerSpec.tla`, `Deadliner.tla`; `RaftState.tla`;
`ReplicatedLog.tla`, `RaftStateLog.tla`; `MCRaftState.tla` and its `.cfg` files;
`TaskSchedule.tla`, `Pipeline.tla`, `PipelineLog.tla`, `MCPipeline.tla`; then the proofs
`DeadlinerProofs.tla`; `RaftStateProofs.tla`, `RaftElectionProofs.tla`, `RaftThreadProofs.tla`
and `RaftStableProofs.tla`; `PipelineProofs.tla`, `PipelineWorkerProofs.tla` and
`PipelineLogProofs.tla`.
`PROJECT.json` maps every definition to its source lines.

## 1. The system

| Part | State | Operations | Talks to |
|---|---|---|---|
| **RaftState** (`application/RaftState.*`), one per master | `role_`, `current_term_`, `voted_for_`, `log_`, `commit_index_`, `last_applied_`, `next_index_`, `request_queue_` with promises, four timers, one sync thread; one mutex `mux_` | `handleAppendEntries`, `handleVoteRequest`, `handleTaskSubmission`, `handleTaskCompletion`, the queries and `handlePing`; the callbacks of the timers; `syncWorker` | the other masters through the stubs, `TaskSchedule` through `applyLog` |
| **ElectionStub, AppendStub** (`stub/`) | none between calls | `elect`, `sendAppendEntriesRequest`: one asynchronous RPC per peer, then wait for all | other masters |
| **Deadliner** (`utility/Deadliner.*`) | `pending_`, `deadline_`, a detached notifier thread | `setDeadline`, `setRandomDeadline`, `notifyThread` | calls its task without any lock |
| **RaftServiceImpl** (`application/RaftApplication.*`) | the `RaftState` | gRPC entry points; `SubmitTask` and `FinishTask` block on a future | clients, workers, masters |
| **RaftLog** (`application/RaftLog.*`) | one log entry | `buildLogEntry`, `applyLog` | `TaskSchedule` |
| **TaskSchedule** (`application/TaskSchedule.*`), one per master | task contents, pending, running and finished tasks, living and pinged workers, loads | `addTask`, `assignTask`, `finishTask`, queries, `getTaskAssignment`, `workerPing`, `workerTimeoutCallback` | `assignTask` calls a worker and waits |
| **Worker** (`application/WorkerApplication.*`, `stub/ExecuteTaskStub.*`, `stub/PingStub.*`) | `running_task_ids_`, one thread per task | `ExecuteTask`, `taskExecutor`, `finishTask`, `pingTimeoutCallback` | all masters |
| **Client** (`node/client.cc`) | none | a command loop; each command is tried on the masters in turn | masters |
| Logger, PingHistory, demo, scripts | - | output, unused, examples | - |

### What is hard here

* **Timers.** `notifyThread` clears `pending_`, releases the mutex and only then
  calls the task. A `setDeadline` in between starts a second thread and does not
  stop the first, so a callback can run although its timer was just re-armed, and
  two callbacks of one timer can overlap.
* **Locks released in the middle.** `candidateTimeoutCallback` votes for itself,
  releases the lock for a whole round of RPCs, and then acts on the answer.
  `syncWorker` does the same for every round of `AppendEntries`.
  `leaderPeriodicCallback` holds the lock only to read `role_` and the log's size,
  and reads term, log and commit index afterwards without it.
* **Two senders.** Heartbeats and sync rounds leave by different threads and
  overtake each other; the receiver does not tell them apart.
* **A protocol that is not quite Raft.** Votes compare only the length of logs, a
  conflicting tail is never cut, a reply never carries `logsize`, a sync call
  announces every earlier entry as committed, also those whose round failed, and
  nothing survives a restart.
* **Promises.** A gRPC thread waits for the promise of its request without a
  limit; whoever drops a request must still answer it.
* **Every replica executes.** Each master that applies an assignment calls the
  worker, with `mux_` held. The worker tells a repeated call by its set of running
  ids only, and forgets an id when the run ends.
* **Assertions** are compiled in, and a failed one ends the master.

### What must hold

* RaftState: one winner of each term's election; terms and votes are never taken back; every
  role has a timer or a callback that ends it; every accepted request is answered
  once; each round counts its own replies only; no index is used outside the log;
  masters apply the same entries at the same index (while one master leads); an answered
  job id names the right task; a leader keeps sending heartbeats.
* Deadliner: a timer that is set calls its task, not before the last deadline
  set, once per expiry, and in the end.
* TaskSchedule: a task is in one of pending, running, finished; replicas that
  applied the same log agree; a task is finished only while it runs.
* Worker: a task it accepted runs, and its end reaches a leader.
* Client: every command ends; a task whose id was told is found by later queries
  and gets an outcome.

## 2. The modules

How they hang together: `RaftState` uses the operators of `Timer`; `TimerSpec` makes
them a specification and `Deadliner` implements it. `Pipeline` uses the operators of
`TaskSchedule` and stands on a log that behaves like `ReplicatedLog`; that it does, and that
`RaftState` does in a stable term, is `LogImplemented` of `PipelineLog` and of `RaftStateLog`.

### Timer, TimerSpec, Deadliner

`Timer` is what other parts can observe of one Deadliner when time is left out. A timer is a
record: `pending` is `pending_`; `due` counts notifier threads that have expired
and not yet called the task. `SetDeadline` is `setDeadline`; `Expired` is the
locked part of `notifyThread` that clears `pending_`; `Called(t)` is the set of
states the task may find the timer in. A pending timer may expire at any step,
so every relation of the deadlines 100, 200..2000, 500 and 1000 ms is covered.

`Deadliner` is the class itself. `remaining` is `deadline_` minus the time, so that the clock
needs no variable; `Tick` lets a unit of time pass for the deadline and for every sleeping
thread. `thread[n]` is where a `notifyThread` stands: *new* (created, no lock yet), *drowsy*
(lock released, not asleep yet: time may pass there), *asleep* for `left` units, *calling* (has
cleared `pending_`, is about to call the task).

| Operation | Actions |
|---|---|
| `setDeadline`, `setRandomDeadline` | `setDeadline(d)`, by any caller at any time |
| a critical section of `notifyThread` | `Expires`, or `GoesToSleep` with the computed `durationDiff` |
| `sleep_for` | `Sleeps`, then `Tick` until `left` is 0 |
| the call of the task | `CallsTask` (what the task does is the caller's) |

The refinement mapping forgets the clock: `pending` stays, `due` is the number of threads
in *calling*.

### RaftState

All masters in one module, indexed by `Server`. A critical section of the code is
one action, a wait or a release of the lock ends it, and a gRPC call is a
message that is delivered, lost on the way or back, or fails because its peer
is gone. Correspondence:

| In the code | In the model |
|---|---|
| `role_`, `current_term_`, `voted_for_` | `role`, `current_term`, `voted_for` (`Nil`: empty) |
| `log_` index k | `log[i][k + 1]`, a record of term and command |
| `last_applied_` and what `applyLog` got | `applied[i]`, the sequence of applied commands |
| `request_queue_`, `currentRequest` and `logSize` of `syncWorker` | `request_queue`, `sync` |
| the promise and future of a request | `promise[c]`: none, waiting, failed, done with a job id |
| a Deadliner | a `Timer` record |
| `elect` between its calls and its return | `<<i, term>>` in `electing`, its RPCs in `voteCalls`, `voteReplies` |
| `sendAppendEntriesRequest` | `appendCalls`, `appendReplies`; a heartbeat carries the name of its callback in `beat` |
| a callback of `leader_periodic_` in progress | `beats[i][b]` |
| a process that ended | `status[i]`: crashed, or the assertion that failed |

| Operation | Actions |
|---|---|
| `candidateTimeoutCallback`, `elect` | `candidateTimeoutCallback`, `candidateTimeoutReturns`, `BecomesLeader`, `NotElected` |
| `handleVoteRequest` | `handleVoteRequest`, `VoteCallFails` |
| `followerTimeoutCallback` | `followerTimeoutCallback`, `followerTimeoutAborts` |
| `handleTaskSubmission`, `handleTaskCompletion` | the same, through `TakeRequest` |
| `taskExecutionPeriodicCallback` | the same |
| `syncWorker` | `syncWorkerRejects`, `syncWorkerAppends`, then one action per exit of its loop: `SyncDeposed`, `SyncOutdated`, `SyncGivesUp`, `SyncCommits`, `SyncRetries`, `SyncAborts` |
| `handleAppendEntries`, `appendEntries`, `commitUpTo` | `AppendRefused`, `AppendMismatch`, `AppendAccepted`, `AppendAborts`, `AppendCallFails` |
| `leaderPeriodicCallback` | `leaderPeriodicCallback`, `leaderPeriodicPrepares` per peer, `leaderPeriodicEnds`, `leaderPeriodicReturns` |
| `notifyThread` | `ExpireTimer` |
| a process killed | `Crash` |

Abstractions. The content of an entry is a model value. `match_index_` is
written and never read and is left out, as are `leaderId` and `lastLogTerm`,
which the receiver ignores. `leaderPeriodicCallback` reads without the lock; each
request it prepares reads the state of one moment, and different requests those
of different moments (a torn read inside one request is not modelled).
`elected` is a history of who won which term. Definitions marked *faulty
variant* are not part of the model: each is a plausible mistake in the
definition that follows it, and the checks are known to notice it.

### ReplicatedLog

The abstract specification of what masters promise the schedule while one of them leads:
one log that only grows; each master has a prefix (`copy`) and has applied a prefix of
that (`applied`), only what a majority has; `answered` holds which request was told to
be which entry. `RaftStateLog` maps `RaftState` to it with the log of the elected leader (for
`MaxTerm = 1`; later terms break it, see `split_log`). `PipelineLog` maps `Pipeline` to it with
the entries a round was started for.

### TaskSchedule

The tables of one replica. Each method of the class is one operator on a record,
because each holds the class's mutex throughout (`assignTask` lets go of it only for
its call to the worker, which `Pipeline` models). Absent map keys are the values
`None`, `"none"` and 0. `getTaskAssignment` is the set of results the two hash
orders allow: the loop writes the same pending task again and again, so at most one
task is assigned per second whatever the bound in its `break`. The four counts are the
operators `handleServiceQuery` chooses from.

### Pipeline

A task from submission to outcome: clients, masters with a `TaskSchedule` each, and workers.
`RaftState` is seen from above, in a term whose leader stays: `log` holds the
leader's log (`logSize` entries) and its queue behind it; a round replicates one
entry, followers begin to apply what the round or a heartbeat announces. Masters and workers
may crash, a worker may restart and has then forgotten what it ran. `lossy` is chosen at
the start: a network that never loses an RPC between live processes, or one that may.

| In the code | In the model |
|---|---|
| `mux_` taken by `commitUpTo` | `MuxHeld(i)`: `commit_index[i] < applyEnd[i]` |
| the loop variable of `commitUpTo` | `applied[i]` |
| an `executeTask` call | `calling[i]`, answered when `sent` and returned |
| a `taskExecutor` thread | a record of `threads`, from its start to the end of its `finishTask` loop; `at` is the log size its request waits for |
| `running_task_ids_` | `running_task_ids` |
| a client in `submitTask` | `client[c]`: the master it asks, and `at`, the log size its request waits for (its job id + 1 once it is told) |

| Operation | Actions |
|---|---|
| the client's `submitTask` | `submitTask`, then `handleTaskSubmission` or `SubmitTaskFails` per master |
| the client's `queryTask` | `QueryTask`, the set of answers it may get; it changes nothing |
| `taskExecutionPeriodicCallback` | the same |
| a round of `syncWorker` | `RoundStarts`, `handleAppendEntries`, `AppendFails`, `RoundGivesUp`, `RoundSucceeds` |
| `leaderPeriodicCallback` | `Heartbeat` |
| `commitUpTo`, `applyLog` | `ApplySubmit`, `ApplyAssign`, `ApplyFinish`, `commitUpToEnds` |
| `executeTask`, `ExecuteTask` | `ExecuteTask`, `ExecuteTaskReturns` |
| `taskExecutor`, `WorkerServiceImpl::finishTask` | `taskExecutorStarts`, `taskExecutorEnds`, `handleTaskCompletion`, `FinishTaskFails` |
| pings and `workerTimeoutCallback` | `handlePing`, `WorkerTimeout` |
| a process that ends or is started again | `MasterCrash`, `WorkerCrash`, `WorkerRestart` |

Abstractions. A ping's snapshot and its arrival are one step (the load is stale for a
whole period anyway), and only the leader's tables of workers are kept, because only
the leader assigns. A heartbeat announces the leader's commit index; a peer that has less of the
log applies what it has (the `min` of RaftState.cc:107). A heartbeat that carries an older commit
index is left to `RaftState`. A peer that replied to a round and ended afterwards still counts
for it, one that ended before it replied counts as failed. A script ends with either result. An AppendEntries call that failed is not
delivered later.

## 3. The runs

`s1..s3` are masters, `c1` a submission, `f1` a completion, `a1` an assignment,
`b1` a heartbeat callback. Masters are symmetric in the runs without fairness.

| Run | Instance | Shows |
|---|---|---|
| `election` | 3 masters, terms to 2, loss, late timer threads | `ElectionSafety`, `TermAndVoteStable` |
| `stable` | 3 masters, term 1, 2 requests, a heartbeat, a crash | `StateMachineSafety`, `AnsweredDurable`, `IndicesInLog`, `RoundIntact`, and `LogImplemented`: the masters implement `ReplicatedLog` |
| `failover` | 2 masters, terms to 3, a completion that is sent again after false, an assignment, late follower timers, a crash | `TypeOK`, `RequestHeld`, `RoundIntact`, `IndicesInLog`, `NodeNeverStuck`, `TermAndVoteStable`: a leader deposed and elected again while its sync thread waits |
| `progress` | 2 masters, terms to 2, a heartbeat, loss, a crash, fairness | `RequestAnswered`, `LeaderBeats`, and `NodeNeverStuck`: no role without a timer or callback that ends or renews it |
| `pipeline` | 2 masters (the leader is the second a client or worker asks), 2 workers, a task assigned up to twice, one crash of any process, a worker restart | `PipelineTypeOK`, `StatusForward`, `OutcomeAgreed`, `OneWorkerPerTask`, `OutcomeEarned`, `TaskNotLost`, `TasksConserved` |
| `reports` | 2 masters, 1 worker, a task; a lossy network or one crash; fairness | `ReportEnds`, `SubmitEnds`: no worker, master or client waits for ever; `JobKnown`, `TaskCompletes`: what the code promises when no RPC is lost; `LogImplemented` |
| `deadliner` | one timer, 3 threads alive at once, delays to 3 units, fairness | `OneWaiter`, `NotEarly`, `Expiring`, `TypeOK` (no sleep of a wrapped duration), `ImplementsTimer` |

The bounds. Terms stop at `MaxTerm`: two terms are one change of leader, which
lets every late reply meet a newer term; three are needed to regain the
leadership. `MaxLog` counts log entries and queued requests together: two are the
least that lets an entry fail and be carried along by the next, and lets a
heartbeat be older than a commit. `MaxDue = 1` lets one thread of each timer wait
between its expiry and its call, which already lets callbacks overlap; with
`MaxDue = 0` expiry and call are one step. `failover` has the constraint `LateFollowerInTermOne`: only
threads of follower timers, and only in the first term, wait between expiry and call; the
other timers' late calls are in `election`. Its log of three lets the other leader commit more than
the entry a waiting sync thread is about. One crash is all that three
masters tolerate. Where a run leaves a feature out (no heartbeats in `failover`),
another has it, with these exceptions, where only a proof joins the two: heartbeats meet a
change of leader only in `progress`, whose properties are about answers and timers, so that the
indices `leaderPeriodicCallback` reads without the lock stay inside a log that another master
wrote meanwhile is theorem `IndicesStayInLog` (in `failover` no heartbeat is under way, in
`stable` no other master leads); and in `stable` a call fails only because its peer ended, and then
for good, so an entry whose round failed is not carried by a later one: this is in `reports`, where
`LogImplemented` is checked on the rounds of `Pipeline`. `CHECK_DEADLOCK FALSE` is set because the bounds let
a run stop, and so does a cluster whose masters have ended.

In `Pipeline` one task is enough for the questions asked, which are all about the
copies of one task: two calls, two runs, two completions, two assignments. Two
masters give two calls. `Task` also bounds the log index at which a task may be
submitted; completions are bounded by the calls. `LoadLimit` (4 in the code) is 1, so
that a worker that runs the task is full as far as its last ping tells. `MaxFault` bounds the
faults of one behaviour: each crash counts as one, and so does a lossy network.

In `Deadliner` three threads are one more than two late callers need; longer delays
only add ticks, because deadlines can be moved by any amount up to the longest at any tick.

`ElectionSafety` speaks of who won the election of a term, not of who leads under its number:
see *Two leaders of one term* in section 5. `NodeNeverStuck` is checked in `progress`, with
heartbeats and without late timer threads, and in `failover`, with late threads of follower timers.

`StateMachineSafety` and `AnsweredDurable` are checked in a stable term
(`MaxTerm = 1`). With failovers they do not hold, see `split_log`.

Fairness (`FairSpec`). A thread that can take a step takes one in the end: the
sync thread, the candidate's callback, a heartbeat callback. Every RPC answers or
fails. In `Pipeline` the same goes for the sync thread, `commitUpTo`, calls to workers, threads
of workers and clients that wait; timers fire (heartbeats, pings, the worker timeout), scripts
end; a lost RPC may happen but is never counted on. `taskExecutionPeriodicCallback` gets strong
fairness: a worker pings every 100 ms, `living_workers_` is renewed every 1000 ms, so in real
time a live worker stays in it, but without time it comes and goes, and the callback must
find it there in the end. Each of these needs `mux_` in the end; the bounds make the number
of its owners finite, a fair mutex is what the code relies on. In `Deadliner` time goes on
and threads run. Not assumed: that followers' timers fire in `RaftState`, that anybody
submits, that messages get through, that nobody crashes, that a worker restarts. No RPC of the code has a
deadline, so a peer that hangs without closing its connection is outside this assumption: it
would stop the heartbeats of the leader for ever (line 413 is reached only after
all peers replied) and its sync thread too.

`JobKnown` and `TaskCompletes` say what holds without lost RPCs, and name what may prevent
it: the leader or half of the masters ended; for `TaskCompletes` also that the worker that has the
task is down, or that all workers stay down. With two masters, one worker and one fault this is
mostly the fault-free case; the fault that is left is a worker that went down before it
was given the task and came back, whom pings have to bring back into `living_workers_`. With lost
RPCs neither holds: a completion that every master refused or missed is dropped by the worker.

`TaskNotLost` is about the way of a task and its report from hand to hand. It concedes what the
code loses: a task whose worker crashed (nothing assigns it again, and `executeTask` does not even
look whether its call arrived), and a report whose calls were lost. It counts a completion as
reported once it is in the leader's log or queue, committed or not.

`RequestAnswered` and `ReportEnds` show that a wait for a future ends. That gRPC has a thread left for
the handlers this depends on while others block theirs (RaftApplication.cc:67) is not modelled.

### Where the code departs from its comments and assertions

Each of these runs checks one statement found in the repository and TLC finds a
behaviour of the code that breaks it.

| Run | Statement | What happens |
|---|---|---|
| `follower_assert` | `assert(role_ == RaftRole::RAFT_FOLLOWER)`, RaftState.cc:368 | The follower timer expires; before its task runs, an `AppendEntries` sets it again and starts a second thread. The first call makes the master a candidate, the second fails the assertion. |
| `commit_assert` | `assert(commit_index_ <= endIndex)`, RaftState.cc:105 | A heartbeat prepared before a sync round arrives after it with a smaller commit index. |
| `false_answer` | "{true, job_id} on successful submission, {false, _} otherwise", RaftState.h:210 | Half of the masters fail, the client is told false, the entry stays in the log and is applied with the next one. |
| `split_log` | "Corresponds with requestVote in Raft Paper", RaftState.h:199 | Only lengths of logs are compared: a master without the committed entry is elected and overwrites it; two masters have applied different entries at one index. The constraint `BackAndForth` only selects the elections that lead there. |
| `finish_assert` | `assert(running_tasks_.count(taskId))`, TaskSchedule.cc:54 | Two masters have the worker execute a task, the second after the first run ended. The task runs twice, both completions are committed, and the second ends every master that applies it. |

## 4. What is proved

*The timer* (`DeadlinerProofs`), for any finite set of threads and any longest delay:

| Theorem | Statement |
|---|---|
| `DeadlinerTypes` | `Spec => []TypeOK` |
| `PendingHasOneWaiter` | `Spec => []OneWaiter` |
| `DeadlinesKept` | `Spec => NotEarly` |
| `DeadlinerImplementsTimer` | `Spec => ImplementsTimer` |

`OneWaiter` is inductive with the types. The refinement needs it for the expiry, which must
find `pending` set, and a count: one thread more or less in *calling* is one `due` more or
less. So what is proved of `RaftState` from `Timer` holds for the class with its clock.

*The masters.* For any finite set of masters, any commands and any bounds, from the named
assumptions of `RaftState` (`Nil` is no master and no heartbeat; submissions and
completions are not assignments; bounds are natural numbers):

| Theorem | Statement |
|---|---|
| `TypeCorrectness` | `Spec => []TypeOK` |
| `IndicesStayInLog` | `Spec => []IndicesInLog` |
| `TermsAndVotes` | `Spec => TermAndVoteStable` |
| `OneWinnerPerTerm` | `Spec => []ElectionSafety` |
| `RequestsAreHeld` | `Spec => []RequestHeld` |
| `RoundsAreIntact` | `Spec => []RoundIntact` |
| `NodesNeverStuck` | `Spec => []NodeNeverStuck` |
| `SafeUnderOneLeader` | `Spec => [](OneLeader => StateMachineSafety)` |
| `DurableUnderOneLeader` | `Spec => [](OneLeader => AnsweredDurable)` |
| `SafeInFirstTerm`, `DurableInFirstTerm` | `Spec => []StateMachineSafety` and `Spec => []AnsweredDurable` if `MaxTerm <= 1` |
| `LogUnderOneLeader` | `Spec /\ []OneLeader => LogImplemented`, for at most three masters |
| `LogInFirstTerm` | `Spec => LogImplemented` if `MaxTerm <= 1`, for at most three masters |

`OneLeader` says that no two masters have ever won an election (one master may win in
several terms, and at first nobody has).

*Types and indices* (`RaftStateProofs`). Neither is inductive alone: the term read
from `log[i][next_index]` is a term only if the index is in the log, and
`leaderCommit = Len(log) - 1` is a natural number only because the log is not
empty. `TypeInv` is the conjunction, with one lemma per action. The heart is
`MergedLog`: what `appendEntries` makes of a log is never shorter, so an index
taken before a lock was released is still inside when it is used. Correct Raft,
which cuts conflicting tails, would not have this property, and the unlocked
read in `leaderPeriodicCallback` relies on it.

*Elections* (`RaftElectionProofs`). A *pledge* is a vote that counts for a candidate
or still may: the one it gave itself while its `elect` runs, and a granted reply not
yet counted. The invariant `ElectInv` says that a pledging voter remembers the
vote or has left the term, that pledges of one voter and term agree, and that behind
each leader there is a majority that can pledge to nobody else in that term.
The last part is what makes it inductive: replies are forgotten when `elect`
returns and voters move on, but the majority stays closed. Two
majorities meet, so a second winner of the term would hold a contradicting
pledge. `TermsAndVotes` is the step property it rests on.

*Requests, rounds, timers* (`RaftThreadProofs`). `RequestHeld` counts places; `HeldInv` says
the same of places one by one (whoever holds a request lives and the request waits, no
request is held twice, a waiting one is held), so that a step has to show only what it does
to the master that takes it. `RoundIntact` becomes inductive with two facts about others'
messages: calls of heartbeats are marked before they are sent, and nobody sends to itself.
`NodeNeverStuck` is inductive with the types. Its proof is by master: a step of one master
leaves all that `TimedOf` of another depends on alone.

*One leader* (`RaftStableProofs`). While l is the only master that ever won,
`StableOf(l)` holds: every log is a prefix of l's and everything applied agrees with it;
every call under way or prepared carries a piece of it, that of a round all the rest of it;
the sync thread is about its last entry; who accepted the round has the whole log; and
what was answered stands at its index on a majority. `RuleInv` says that only winners lead,
append and send. `RoundIntact` is needed for the append: when l adds an entry, no call of
an earlier round is left, which would lack it, and no reply that would count for it. The condition cannot be dropped: `split_log` is a behaviour with two
winners whose state machines differ, because `handleVoteRequest` looks only at lengths. In
the first term it holds by `OneWinnerPerTerm` and a bound on the terms of elections.

*The masters implement ReplicatedLog* (the same module). `CommitInv` is about what masters
are told: the prefix anybody applied, the commit index of l, and that in every heartbeat,
are on a majority. The word of a round is not, as long as it is under way: `leader_commit`
is the log's size before the round's entry, whether or not the rounds before succeeded. It is
true once it arrives, because the receiver then has those entries, too, and two masters are more
than half of three. Hence the bound on masters: with four, TLC finds `LogImplemented` violated, see
section 5.
Appending is then a `Write`; committing a `Progress` of l with an `Answer`, where `HeldInv` says that
the request waited for it; accepting a call a `Progress` of the receiver; the rest stutters.

*The schedule.* For any number of masters, workers, tasks and clients and any bounds, from the
named assumptions of `Pipeline` and `TaskSchedule`:

| Theorem | Statement |
|---|---|
| `PipelineTypes` | `Spec => []PipelineTypeOK` |
| `TaskCounts` | `Spec => []TasksConserved` |
| `OutcomesAgree` | `Spec => []OutcomeAgreed` |
| `StatusesMoveForward` | `Spec => StatusForward` |
| `WorkerIsUnique` | `Spec => []OneWorkerPerTask` |
| `OutcomesAreEarned` | `Spec => []OutcomeEarned` |
| `NoTaskLost` | `Spec => []TaskNotLost` |
| `ScheduleLogImplemented` | `Spec => LogImplemented`, for at most three masters |

*Tables* (`PipelineProofs`). The types alone are not inductive: the positions of `commitUpTo` must be
known to be ordered, and the entries announced to be held. `TableInv(i, t)` ties a replica's tables to the
prefix of the log it applied: task t is in one table at most; it is in one exactly if its
submission was applied; while it is pending no assignment of it was; its outcome is that of
an applied completion, and all of them that were applied say the same (a second one ends the
master). Of two replicas one has applied a prefix of what the other has, so two that know an
outcome know the same, however far each has come, and the counts add up.

*Workers* (`PipelineWorkerProofs`). `FollowsLog` is what makes `OneWorkerPerTask` inductive: whoever has
to do with a task - a replica's running table, a call, a thread, a past run - names the worker
of the *first* assignment of it in the log, and the log only grows. `Earned` says that a completion in
the log, or a thread that asks for one, has a run behind it with that result. For
`TaskNotLost`, `ThreadsKept` ties what a worker remembers to its threads (a second call for the
same task is dropped only while the first runs) and says that a thread has not passed a living leader
without its completion being in the log; `NoneLost` is the property without calls that were sent.

*The schedule's log* (`PipelineLogProofs`). `CommitInv`: every position up to which a master may apply
is on a majority; `RoundInv`: the masters a round reached have all of the log; `WaitInv`: a
client waits for its own submission. The bound of three masters has the same reason as above.

The strengthened invariants were checked by TLC on instances like those of the runs before they
were proved. Proofs of steps go action by action, from lemmas that sort the disjuncts of
`Next` by what they do to the part of the state at hand (`NextSteps`, `QuietOrNot`,
`LogWriters`, `LogSteps`).

Only model-checked: the liveness properties `RequestAnswered`, `LeaderBeats`, `ReportEnds`,
`SubmitEnds`, `JobKnown`, `TaskCompletes` and `Expiring` (fairness is out of the prover's reach). Every
invariant, action property and refinement of a passing run is stated by a theorem, under the
conditions the tables name: one leader, and at most three masters for `ReplicatedLog`.

## 5. Not modelled, and why

* Restart of a master: nothing is persisted, a restarted master is an empty one
  with an old name. None of the properties above survives it.
* Two leaders of one term. This is in `RaftState`, but in none of the runs. An `elect` that
  returns elected takes over the newest term it heard of even if its master leads by now
  (RaftState.cc:163-165). With three masters and four terms TLC finds: A has B's vote in term 1
  while its call to C is open; B stands in term 2 and makes A a follower; A stands again and
  wins term 3; C stands in term 4 and only then answers the call of term 1, with 4; that
  `elect` returns elected, so A, leader, moves to term 4; C wins term 4 with B's vote. Both now
  lead under term 4, which the text at RaftState.cc:481 ("No two leader within the same term")
  rules out. The state is found without faults in an instance with `MaxTerm = 4`, `MaxLog = 0`
  and `MaxDue = 0`; a run of three masters that also has requests is too large with four terms.
  `elected` records the wins, 3 by A and 4 by C, so `ElectionSafety` is not concerned; `OneLeader`
  of section 4 excludes it, because two masters won.
* RPCs that never end, see fairness in section 3.
* The thread pool of gRPC, see section 3.
* `applyLog` of an assignment blocks `mux_` for the duration of an RPC to a worker.
  In `RaftState` applying is one step; `Pipeline` has the call and the lock.
* Elections and the schedule together: `Pipeline` keeps its leader.
* Four masters or more: there a follower applies an entry of a failed round that only
  two of them hold, because the next round announces it (RaftState.cc:235). TLC finds
  `LogImplemented` violated within seconds, of `Pipeline` with `RaftSize = 4` and of `RaftState` with
  four masters, so it is stated and proved for three at most.
* `findSuitableWorker` (no caller), the client's command splitter and output, the walk of
  `queryService` over the masters.
* Master process, Logger, PingHistory, demo, scripts and generated code: no behaviour of
  interest.

## 6. Plan

All but the last item are done.

1. `Timer`, `RaftState` with its runs, types, indices, votes and one winner per term.
2. `TaskSchedule` and `Pipeline` with their runs: clients, workers that restart, liveness.
3. `Deadliner` with its proofs, shown to implement `Timer`.
4. `ReplicatedLog`, and `RaftState` (stable term) and `Pipeline` shown to implement it by TLC.
5. Proofs about `Pipeline` for any number of masters, workers and tasks: all its invariants and
   `StatusForward`; its refinement of `ReplicatedLog` for three masters.
6. Proofs about `RaftState` for any number of masters: requests, rounds, timers, and what
   holds of logs and answers until a second master is elected; the refinement for three masters.
7. Left: what still holds of logs after a change of leader (they never shrink; which entries
   a winner has and which it overwrites), as properties to check first and prove then.
