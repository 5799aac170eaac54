------------------------------- MODULE Pipeline -------------------------------
(***************************************************************************)
(* A task from submission to completion: masters that apply one log, each  *)
(* with a TaskSchedule, and workers (application::WorkerServiceImpl).      *)
(*                                                                         *)
(* RaftState is seen from above, in a term whose leader stays: log is the  *)
(* leader's log_ (its first logSize entries) followed by its               *)
(* request_queue_; the sync thread replicates one entry per round, and     *)
(* heartbeats spread the leader's commit index.  What is kept of RaftState *)
(* is what the schedule depends on: who may apply which entry when, and    *)
(* that commitUpTo holds mux_ while assignTask waits for a worker.         *)
(* Only the leader's view of the workers is kept: nobody else reads his.   *)
(* A client submits one task and asks for it any number of times; asking   *)
(* changes nothing and is the operator QueryTask.                          *)
(***************************************************************************)
EXTENDS Integers, Sequences, TaskSchedule

CONSTANTS
  RaftSize,        \* masters 1 .. RaftSize, in the order workers try them
  Leader,
  Client,
  RpcLoss,         \* may there be a network that loses RPCs between live processes?
  MaxAssign,       \* bound: assignments that are queued
  MaxFault         \* bound: processes that crash; a lossy network counts as one

Master == 1..RaftSize
Followers == Master \ {Leader}

ASSUME LeaderAssumption == RaftSize \in Nat /\ Leader \in Master
ASSUME LossAssumption == RpcLoss \in BOOLEAN
ASSUME BoundAssumption == MaxAssign \in Nat /\ MaxFault \in Nat

VARIABLES
  status,            \* of a master: "running", "crashed", or "assert_finish"
  log,
  logSize,           \* log_.size() of the leader: one round per entry
  held,              \* log_.size() of each master
  round,             \* the AppendEntries calls of syncWorker's round
  commit_index, applyEnd, applied,   \* commitUpTo, from its call to its end
  schedule,          \* task_schedule_ of each master
  calling,           \* ExecuteTask call of a master that is under way
  workerUp, running_task_ids,
  crashed,           \* history: workers that crashed
  threads,           \* taskExecutor threads of the workers
  ran,               \* history: which worker ran what, with which result
  client,            \* submitTask of each client
  lossy              \* does this network lose RPCs?

masterVars == <<status, held, commit_index, applyEnd, applied, schedule, calling>>
logVars == <<log, logSize, round>>
workerVars == <<workerUp, running_task_ids, crashed, threads, ran>>
clientVars == <<client, lossy>>
vars == <<masterVars, logVars, workerVars, clientVars>>

-----------------------------------------------------------------------------
SubmitTaskLog == [kind |-> "submit"]
AssignTaskLog(t, w) == [kind |-> "assign", task |-> t, worker |-> w]
FinishTaskLog(t, success) == [kind |-> "finish", task |-> t, success |-> success]
Entry ==
  {SubmitTaskLog} \cup {AssignTaskLog(t, w) : t \in Task, w \in Worker}
    \cup {FinishTaskLog(t, s) : t \in Task, s \in BOOLEAN}

NoCall == [task |-> -1, worker |-> None, sent |-> FALSE]
Call == {NoCall} \cup [task : Task, worker : Worker, sent : BOOLEAN]
NoRound == [busy |-> FALSE, delivered |-> {}, failed |-> {}]
Round == [busy : BOOLEAN, delivered : SUBSET Followers, failed : SUBSET Followers]
(* from: the master whose call started the thread; master: the one it asks *)
(* to record the completion; at: the log size its request waits for.       *)
Thread == [worker : Worker, task : Task, from : Master, state : {"new", "running", "asking"},
           success : BOOLEAN, master : Master, at : Nat]
(* Of a client that was answered, at is one more than the job id.          *)
ClientState ==
  [state : {"idle", "asking", "submitted", "failed"}, master : Master, at : Nat]

PipelineTypeOK ==
  /\ status \in [Master -> {"running", "crashed", "assert_finish"}]
  /\ log \in Seq(Entry) /\ logSize \in 0..Len(log) /\ round \in Round
  /\ held \in [Master -> 0..logSize]
  /\ commit_index \in [Master -> Nat] /\ applyEnd \in [Master -> Nat]
  /\ applied \in [Master -> Nat]
  /\ \A i \in Master : /\ commit_index[i] <= applyEnd[i] /\ applyEnd[i] <= held[i]
                       /\ applied[i] \in commit_index[i]..applyEnd[i]
  /\ schedule \in [Master -> Schedule] /\ calling \in [Master -> Call]
  /\ workerUp \in [Worker -> BOOLEAN] /\ running_task_ids \in [Worker -> SUBSET Task]
  /\ crashed \subseteq Worker
  /\ threads \subseteq Thread /\ \A th \in threads : th.at \in 0..Len(log)
  /\ ran \subseteq [worker : Worker, task : Task, success : BOOLEAN]
  /\ client \in [Client -> ClientState] /\ \A c \in Client : client[c].at \in 0..Len(log)
  /\ lossy \in BOOLEAN

Init ==
  /\ status = [i \in Master |-> "running"]
  /\ log = <<>> /\ logSize = 0 /\ round = NoRound
  /\ held = [i \in Master |-> 0]
  /\ commit_index = [i \in Master |-> 0]
  /\ applyEnd = [i \in Master |-> 0]
  /\ applied = [i \in Master |-> 0]
  /\ schedule = [i \in Master |-> NewSchedule]
  /\ calling = [i \in Master |-> NoCall]
  /\ workerUp = [w \in Worker |-> TRUE]
  /\ running_task_ids = [w \in Worker |-> {}]
  /\ crashed = {} /\ threads = {} /\ ran = {}
  /\ client = [c \in Client |-> [state |-> "idle", master |-> 1, at |-> 0]]
  /\ lossy \in {FALSE, RpcLoss}

Running(i) == status[i] = "running"
(* commitUpTo has been entered and not left: mux_ of i is taken.           *)
MuxHeld(i) == commit_index[i] < applyEnd[i]
Free(i) == Running(i) /\ ~MuxHeld(i)
Put(f, i, v) == [f EXCEPT ![i] = v]
MinOf(a, b) == IF a <= b THEN a ELSE b

-----------------------------------------------------------------------------
(* Requests of the leader.                                                 *)

(* The master of caller x declined, or did not answer: the next one is     *)
(* asked.  Clients and workers try the masters in the same order.          *)
AsksNext(x) == [x EXCEPT !.master = @ + 1, !.at = 0]
Declined(x) == IF x.master < RaftSize THEN AsksNext(x) ELSE [x EXCEPT !.state = "failed", !.at = 0]

(* The user of c enters a task.                                            *)
submitTask(c) ==
  /\ client[c].state = "idle"
  /\ client' = Put(client, c, [state |-> "asking", master |-> 1, at |-> 0])
  /\ UNCHANGED <<masterVars, logVars, workerVars, lossy>>

(* SubmitTask of c reaches a master.  The task's id is the index of its    *)
(* entry.                                                                  *)
handleTaskSubmission(c) ==
  LET i == client[c].master IN
  /\ client[c].state = "asking" /\ client[c].at = 0
  /\ Free(i)
  /\ IF i = Leader
     THEN /\ Len(log) \in Task
          /\ log' = Append(log, SubmitTaskLog)
          /\ client' = [client EXCEPT ![c].at = Len(log) + 1]
     ELSE client' = [client EXCEPT ![c] = Declined(@)] /\ UNCHANGED log
  /\ UNCHANGED <<masterVars, logSize, round, workerVars, lossy>>

(* No answer: the master ended, or the RPC was lost on its way or back.    *)
SubmitTaskFails(c) ==
  /\ client[c].state = "asking"
  /\ lossy \/ ~Running(client[c].master)
  /\ client' = [client EXCEPT ![c] = Declined(@)]
  /\ UNCHANGED <<masterVars, logVars, workerVars, lossy>>

(* What queryTask may print now: what the first master that answers knows. *)
(* It does not wait for mux_.                                              *)
MayAnswer(i) == Running(i) /\ \A j \in 1..(i - 1) : lossy \/ ~Running(j)
QueryTask(t) == {queryTaskStatus(schedule[i], t) : i \in {x \in Master : MayAnswer(x)}}

Assignments == {k \in DOMAIN log : log[k].kind = "assign"}

(* Every second the leader queues what getTaskAssignment proposes, also    *)
(* for a task whose assignment is queued already.                          *)
taskExecutionPeriodicCallback ==
  /\ Free(Leader)
  /\ Cardinality(Assignments) < MaxAssign
  /\ \E a \in getTaskAssignment(schedule[Leader]) : log' = Append(log, AssignTaskLog(a[1], a[2]))
  /\ UNCHANGED <<masterVars, logSize, round, workerVars, clientVars>>

-----------------------------------------------------------------------------
(* Replication, as far as the schedule can tell.                           *)

(* A round: the next request becomes an entry and is sent to the peers.    *)
RoundStarts ==
  /\ Free(Leader) /\ ~round.busy
  /\ logSize < Len(log)
  /\ logSize' = logSize + 1
  /\ held' = Put(held, Leader, logSize + 1)
  /\ round' = [NoRound EXCEPT !.busy = TRUE]
  /\ UNCHANGED <<status, log, commit_index, applyEnd, applied, schedule, calling, workerVars,
                 clientVars>>

(* leadercommit of a round: all but the entry it is about.                 *)
Announced == logSize - 1

(* The peer has the leader's log and begins to apply what is announced; it *)
(* replies when it has.                                                    *)
handleAppendEntries(j) ==
  /\ round.busy /\ Free(j) /\ j \in Followers \ (round.delivered \cup round.failed)
  /\ held' = Put(held, j, logSize)
  /\ applyEnd' = Put(applyEnd, j, Announced)
  /\ round' = [round EXCEPT !.delivered = @ \cup {j}]
  /\ UNCHANGED <<status, log, logSize, commit_index, applied, schedule, calling, workerVars,
                 clientVars>>

(* No reply of j: it ended before it replied, or the RPC was lost.         *)
AppendFails(j) ==
  /\ round.busy /\ Running(Leader) /\ j \in Followers \ round.failed
  /\ lossy \/ ~Running(j)
  /\ round' = [round EXCEPT !.failed = @ \cup {j}]
  /\ UNCHANGED <<masterVars, log, logSize, workerVars, clientVars>>

(* Every peer failed or replied, which it does when commitUpTo is done;    *)
(* that it ends later does not take its reply back.                        *)
RoundOver ==
  /\ round.busy /\ Free(Leader)
  /\ \A j \in Followers : j \in round.failed \/ (j \in round.delivered /\ ~MuxHeld(j))

(* Faulty variant: only more than half are too many.                       *)
Refused_MoreThanHalf == Cardinality(round.failed) * 2 > RaftSize

Refused == Cardinality(round.failed) * 2 >= RaftSize

Waiting(size) == {th \in threads : th.state = "asking" /\ th.at = size}
IsWaiting(c, size) == client[c].state = "asking" /\ client[c].at = size

(* The threads after S were told no, or got no answer: after the last      *)
(* master the completion is dropped.                                       *)
Refusing(S) == (threads \ S) \cup {AsksNext(th) : th \in {x \in S : x.master < RaftSize}}

(* Faulty variant: the promise is dropped without a value.                 *)
Unsubmitted_Unanswered(c) == client[c]

(* What becomes of a client when the round fails, and when it succeeds.    *)
Unsubmitted(c) == IF IsWaiting(c, logSize) THEN Declined(client[c]) ELSE client[c]
Submitted(c) ==
  IF IsWaiting(c, logSize) THEN [client[c] EXCEPT !.state = "submitted"] ELSE client[c]

(* Half of the peers failed: the request is answered false, its entry      *)
(* stays in the log.                                                       *)
RoundGivesUp ==
  /\ RoundOver /\ Refused
  /\ threads' = Refusing(Waiting(logSize))
  /\ client' = [c \in Client |-> Unsubmitted(c)]
  /\ round' = NoRound
  /\ UNCHANGED <<masterVars, log, logSize, workerUp, running_task_ids, crashed, ran, lossy>>

(* The request is answered true, then the leader begins to apply.          *)
RoundSucceeds ==
  /\ RoundOver /\ ~Refused
  /\ threads' = threads \ Waiting(logSize)
  /\ client' = [c \in Client |-> Submitted(c)]
  /\ applyEnd' = Put(applyEnd, Leader, logSize)
  /\ round' = NoRound
  /\ UNCHANGED <<status, log, logSize, held, commit_index, applied, schedule, calling,
                 workerUp, running_task_ids, crashed, ran, lossy>>

(* Faulty variant: a heartbeat announces as little as a round does.        *)
BeatCommit_Announced == IF logSize = 0 THEN 0 ELSE Announced

(* leadercommit of a heartbeat.                                            *)
BeatCommit == commit_index[Leader]

(* A heartbeat carries no entries and is accepted by a peer that has what  *)
(* the leader's log held when its callback began, any while before it read *)
(* the commit index; so the peer may lack entries that are announced, and  *)
(* applies what it has of them.  Its commit_index_ is then ahead of its    *)
(* log; here it is counted as far as the log goes, and what was applied is *)
(* the same.  (A beat that brings an older commit index is the matter of   *)
(* RaftState.)                                                             *)
Heartbeat(j) ==
  LET end == MinOf(BeatCommit, held[j]) IN
  /\ Running(Leader) /\ Free(j) /\ j \in Followers
  /\ applyEnd[j] < end
  /\ applyEnd' = Put(applyEnd, j, end)
  /\ UNCHANGED <<status, held, commit_index, applied, schedule, calling, logVars, workerVars,
                 clientVars>>

-----------------------------------------------------------------------------
(* commitUpTo: applyLog for one entry after the other.                     *)

(* Faulty variant: what is in the log is applied, committed or not.        *)
NextApplied_Ahead(i, kind) ==
  /\ Running(i) /\ calling[i] = NoCall
  /\ applied[i] < held[i]
  /\ log[applied[i] + 1].kind = kind

(* The entry i applies next; none while assignTask waits for its worker.   *)
NextApplied(i, kind) ==
  /\ Running(i) /\ calling[i] = NoCall
  /\ applied[i] < applyEnd[i]
  /\ log[applied[i] + 1].kind = kind

Apply(i, s) ==
  /\ applied' = [applied EXCEPT ![i] = @ + 1]
  /\ schedule' = Put(schedule, i, s)

ApplySubmit(i) ==
  /\ NextApplied(i, "submit")
  /\ Apply(i, addTask(schedule[i], applied[i]))
  /\ UNCHANGED <<status, held, commit_index, applyEnd, calling, logVars, workerVars, clientVars>>

ApplyAssign(i) ==
  /\ NextApplied(i, "assign")
  /\ LET e == log[applied[i] + 1]
     IN IF IsPending(schedule[i], e.task)
        THEN /\ Apply(i, assignTask(schedule[i], e.task, e.worker))
             /\ calling' = Put(calling, i, [task |-> e.task, worker |-> e.worker, sent |-> FALSE])
        ELSE Apply(i, schedule[i]) /\ UNCHANGED calling
  /\ UNCHANGED <<status, held, commit_index, applyEnd, logVars, workerVars, clientVars>>

(* An assertion that fails ends the master.                                *)
ApplyFinish(i) ==
  /\ NextApplied(i, "finish")
  /\ LET e == log[applied[i] + 1]
     IN IF CanFinish(schedule[i], e.task)
        THEN Apply(i, finishTask(schedule[i], e.task, e.success)) /\ UNCHANGED status
        ELSE status' = Put(status, i, "assert_finish") /\ UNCHANGED <<applied, schedule>>
  /\ UNCHANGED <<held, commit_index, applyEnd, calling, logVars, workerVars, clientVars>>

commitUpToEnds(i) ==
  /\ Running(i) /\ MuxHeld(i) /\ calling[i] = NoCall
  /\ applied[i] = applyEnd[i]
  /\ commit_index' = Put(commit_index, i, applyEnd[i])
  /\ UNCHANGED <<status, held, applyEnd, applied, schedule, calling, logVars, workerVars,
                 clientVars>>

-----------------------------------------------------------------------------
(* Workers.                                                                *)

(* ExecuteTask starts a thread and answers at once.                        *)
ExecuteTask(i) ==
  /\ calling[i] # NoCall /\ ~calling[i].sent
  /\ workerUp[calling[i].worker]
  /\ threads' = threads \cup
       {[worker |-> calling[i].worker, task |-> calling[i].task, from |-> i, state |-> "new",
         success |-> FALSE, master |-> 1, at |-> 0]}
  /\ calling' = [calling EXCEPT ![i].sent = TRUE]
  /\ UNCHANGED <<status, held, commit_index, applyEnd, applied, schedule, logVars,
                 workerUp, running_task_ids, crashed, ran, clientVars>>

(* Faulty variant: the worker answers when the task is done.               *)
Executed_Done(i) ==
  calling[i].sent /\ ~ \E th \in threads : th.from = i /\ th.task = calling[i].task

(* The call is over: answered, lost, or its worker is gone.  executeTask   *)
(* returns true in each case.                                              *)
Executed(i) == calling[i].sent
ExecuteTaskReturns(i) ==
  /\ calling[i] # NoCall
  /\ Executed(i) \/ lossy \/ ~workerUp[calling[i].worker]
  /\ calling' = Put(calling, i, NoCall)
  /\ UNCHANGED <<status, held, commit_index, applyEnd, applied, schedule, logVars, workerVars,
                 clientVars>>

(* Faulty variant: a thread that finds its task running reports it done.   *)
Duplicate_Reports(th) == {[th EXCEPT !.state = "asking"]}

(* What becomes of a thread whose task is running already: it returns.     *)
Duplicate(th) == {}

taskExecutorStarts(th) ==
  /\ th.state = "new"
  /\ IF th.task \in running_task_ids[th.worker]
     THEN /\ threads' = (threads \ {th}) \cup Duplicate(th)
          /\ UNCHANGED running_task_ids
     ELSE /\ threads' = (threads \ {th}) \cup {[th EXCEPT !.state = "running"]}
          /\ running_task_ids' = [running_task_ids EXCEPT ![th.worker] = @ \cup {th.task}]
  /\ UNCHANGED <<masterVars, logVars, workerUp, crashed, ran, clientVars>>

(* The script ends, well or not; the worker forgets the task.              *)
taskExecutorEnds(th) ==
  /\ th.state = "running"
  /\ running_task_ids' = [running_task_ids EXCEPT ![th.worker] = @ \ {th.task}]
  /\ \E success \in BOOLEAN :
       /\ threads' = (threads \ {th}) \cup {[th EXCEPT !.state = "asking", !.success = success]}
       /\ ran' = ran \cup {[worker |-> th.worker, task |-> th.task, success |-> success]}
  /\ UNCHANGED <<masterVars, logVars, workerUp, crashed, clientVars>>

(* Faulty variant: any answer ends the loop over the masters.              *)
NotLeader_Stops(th) == threads \ {th}

(* A master that does not lead answers false.                              *)
NotLeader(th) == Refusing({th})

(* FinishTask reaches th.master and gets its mux_: handleTaskCompletion.   *)
handleTaskCompletion(th) ==
  /\ th.state = "asking" /\ th.at = 0
  /\ Free(th.master)
  /\ IF th.master = Leader
     THEN /\ log' = Append(log, FinishTaskLog(th.task, th.success))
          /\ threads' = (threads \ {th}) \cup {[th EXCEPT !.at = Len(log) + 1]}
     ELSE threads' = NotLeader(th) /\ UNCHANGED log
  /\ UNCHANGED <<masterVars, logSize, round, workerUp, running_task_ids, crashed, ran, clientVars>>

(* No answer: the master ended, or the RPC was lost on its way or back.    *)
FinishTaskFails(th) ==
  /\ th.state = "asking"
  /\ lossy \/ ~Running(th.master)
  /\ threads' = Refusing({th})
  /\ UNCHANGED <<masterVars, logVars, workerUp, running_task_ids, crashed, ran, clientVars>>

(* pingTimeoutCallback of w, and handlePing of the leader.                 *)
handlePing(w) ==
  /\ workerUp[w] /\ Running(Leader)
  /\ schedule' = [schedule EXCEPT ![Leader] = workerPing(@, w, Cardinality(running_task_ids[w]))]
  /\ UNCHANGED <<status, held, commit_index, applyEnd, applied, calling, logVars, workerVars,
                 clientVars>>

WorkerTimeout ==
  /\ Running(Leader)
  /\ schedule' = [schedule EXCEPT ![Leader] = workerTimeoutCallback(@)]
  /\ UNCHANGED <<status, held, commit_index, applyEnd, applied, calling, logVars, workerVars,
                 clientVars>>

Faults ==
  Cardinality(crashed) + Cardinality({i \in Master : status[i] = "crashed"})
    + (IF lossy THEN 1 ELSE 0)

WorkerCrash(w) ==
  /\ workerUp[w] /\ w \notin crashed
  /\ Faults < MaxFault
  /\ crashed' = crashed \cup {w}
  /\ workerUp' = Put(workerUp, w, FALSE)
  /\ running_task_ids' = Put(running_task_ids, w, {})
  /\ threads' = {th \in threads : th.worker # w}
  /\ UNCHANGED <<masterVars, logVars, ran, clientVars>>

(* It is started again, with the same port and knowing nothing.            *)
WorkerRestart(w) ==
  /\ ~workerUp[w]
  /\ workerUp' = Put(workerUp, w, TRUE)
  /\ UNCHANGED <<masterVars, logVars, running_task_ids, crashed, threads, ran, clientVars>>

MasterCrash(i) ==
  /\ Running(i) /\ Faults < MaxFault
  /\ status' = Put(status, i, "crashed")
  /\ UNCHANGED <<held, commit_index, applyEnd, applied, schedule, calling, logVars, workerVars,
                 clientVars>>

-----------------------------------------------------------------------------
commitUpTo(i) == ApplySubmit(i) \/ ApplyAssign(i) \/ ApplyFinish(i) \/ commitUpToEnds(i)
ExecuteTaskRpc(i) == ExecuteTask(i) \/ ExecuteTaskReturns(i)
AppendRpc(j) == handleAppendEntries(j) \/ AppendFails(j)
syncWorker == RoundStarts \/ RoundGivesUp \/ RoundSucceeds
SubmitTask(c) == handleTaskSubmission(c) \/ SubmitTaskFails(c)
taskExecutor(th) ==
  taskExecutorStarts(th) \/ taskExecutorEnds(th) \/ handleTaskCompletion(th) \/ FinishTaskFails(th)

Next ==
  \/ \E c \in Client : submitTask(c) \/ SubmitTask(c)
  \/ taskExecutionPeriodicCallback
  \/ syncWorker
  \/ \E j \in Followers : AppendRpc(j) \/ Heartbeat(j)
  \/ \E i \in Master : commitUpTo(i) \/ ExecuteTaskRpc(i) \/ MasterCrash(i)
  \/ \E th \in threads : taskExecutor(th)
  \/ \E w \in Worker : handlePing(w) \/ WorkerCrash(w) \/ WorkerRestart(w)
  \/ WorkerTimeout

Spec == Init /\ [][Next]_vars

(* The threads of a live process run, timers fire, scripts end; an RPC is  *)
(* answered in the end, or fails when its peer is gone.  That it is lost   *)
(* may happen, but nobody can count on it.  A worker pings ten times in    *)
(* the period of WorkerTimeout and of taskExecutionPeriodicCallback, so    *)
(* that the latter finds it alive in the end.                              *)
Submitting(c) ==
  handleTaskSubmission(c) \/ (SubmitTaskFails(c) /\ ~Running(client[c].master))
Answering(i) ==
  ExecuteTask(i) \/ (ExecuteTaskReturns(i) /\ (Executed(i) \/ ~workerUp[calling[i].worker]))
Appending(j) == handleAppendEntries(j) \/ (AppendFails(j) /\ ~Running(j))
Executing(t, m) ==
  \E th \in {x \in threads : x.task = t /\ x.from = m} :
    \/ taskExecutorStarts(th) \/ taskExecutorEnds(th) \/ handleTaskCompletion(th)
    \/ FinishTaskFails(th) /\ ~Running(th.master)
(* A heartbeat that is sent now.                                           *)
Beating(j) == Heartbeat(j) /\ held[j] = logSize
Fairness ==
  /\ WF_vars(syncWorker)
  /\ \A c \in Client : WF_vars(Submitting(c))
  /\ \A j \in Followers : WF_vars(Appending(j)) /\ WF_vars(Beating(j))
  /\ \A i \in Master : WF_vars(commitUpTo(i) \/ Answering(i))
  /\ \A t \in Task, m \in Master : WF_vars(Executing(t, m))
  /\ \A w \in Worker : WF_vars(handlePing(w))
  /\ WF_vars(WorkerTimeout) /\ SF_vars(taskExecutionPeriodicCallback)

FairSpec == Spec /\ Fairness

-----------------------------------------------------------------------------
(* Properties.                                                             *)

(* On every replica a task only moves forward, from unknown to pending to  *)
(* running to its outcome, and an outcome never changes: what a query was  *)
(* told stays true, though assignments and completions of one task are     *)
(* queued more than once.                                                  *)
Rank(state) ==
  CASE state = "none" -> 0 [] state = "pending" -> 1 [] state = "running" -> 2
    [] state \in Outcome -> 3
Forward(old, new) == Rank(old) <= Rank(new) /\ (old \in Outcome => new = old)
StatusForward ==
  [][\A i \in Master, t \in Task :
       Forward(queryTaskStatus(schedule[i], t), queryTaskStatus(schedule[i], t)')]_vars

(* Two replicas never tell different outcomes of one task, though each had *)
(* the task executed and the runs may end differently.                     *)
OutcomeAgreed ==
  \A i, j \in Master, t \in Task :
    LET a == schedule[i].finished[t]
        b == schedule[j].finished[t]
    IN a # "none" /\ b # "none" => a = b

(* All executions of a task, those of every replica's call, are by one     *)
(* worker, though its assignment may be queued for several.                *)
OneWorkerPerTask == \A a, b \in threads \cup ran : a.task = b.task => a.worker = b.worker

(* An outcome is the result of a run that ended, and no task is reported   *)
(* that did not run.                                                       *)
OutcomeEarned ==
  \A i \in Master, t \in Task : schedule[i].finished[t] # "none" =>
    \E e \in ran : e.task = t /\ OutcomeOf(e.success) = schedule[i].finished[t]

(* Without lost RPCs, a task that runs in the leader's eyes is on its way: *)
(* to its worker, on it, or back in the log - or its worker crashed.       *)
Reported(t) == \E k \in DOMAIN log : log[k].kind = "finish" /\ log[k].task = t
TaskNotLost ==
  ~lossy /\ Running(Leader) =>
    \A t \in Task : IsRunning(schedule[Leader], t) =>
      \/ calling[Leader].task = t
      \/ \E th \in threads : th.task = t
      \/ Reported(t)
      \/ schedule[Leader].running[t] \in crashed

(* What QueryService counts on a replica adds up to the submissions that   *)
(* replica applied: no task is in two tables, or in none.                  *)
SubmitsApplied(i) == Cardinality({k \in 1..applied[i] : log[k] = SubmitTaskLog})
TasksConserved ==
  \A i \in Master :
    SubmitsApplied(i) = handleServiceQuery(schedule[i], "pending")
      + handleServiceQuery(schedule[i], "running") + handleServiceQuery(schedule[i], "succeeded")

(* Reports of a task end: no worker waits for a master that waits for a    *)
(* worker, though commitUpTo calls workers with mux_ held.                 *)
IsReported(t) == \E th \in threads : th.task = t /\ th.state = "asking"
ReportEnds == \A t \in Task : IsReported(t) ~> ~IsReported(t)

(* A user is told in the end whether his task was taken, though the gRPC   *)
(* thread of its SubmitTask waits for a round without a limit.             *)
SubmitEnds == \A c \in Client : client[c].state = "asking" ~> client[c].state # "asking"

(* Without lost RPCs, whoever asks for a task whose id a client was told   *)
(* finds it in the end, though followers answer queries from their own     *)
(* tables and a round lets them apply only the entries before its own.     *)
HasJob(c, t) == client[c].state = "submitted" /\ client[c].at = t + 1
JobKnown ==
  \A c \in Client, t \in Task :
    HasJob(c, t) /\ ~lossy ~> ~Running(Leader) \/ "none" \notin QueryTask(t)

(* Without lost RPCs, a pending task gets its outcome in the end, unless   *)
(* the leader or half of the masters ended, its worker went down while the *)
(* leader counts on it, or all workers stay down: nothing assigns a task   *)
(* again.  A worker that comes back must be found by its pings.            *)
Stranded(t) ==
  \/ ~Running(Leader) \/ Cardinality({i \in Master : ~Running(i)}) * 2 >= RaftSize
  \/ IsRunning(schedule[Leader], t) /\ ~workerUp[schedule[Leader].running[t]]
TaskCompletes ==
  \A t \in Task :
    IsPending(schedule[Leader], t) /\ ~lossy ~>
      \/ schedule[Leader].finished[t] \in Outcome \/ Stranded(t)
      \/ [](\A w \in Worker : ~workerUp[w])
=============================================================================
