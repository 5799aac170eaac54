----------------------------- MODULE TaskSchedule -----------------------------
(***************************************************************************)
(* The tables of one replica: application::TaskSchedule.  Every method     *)
(* holds the schedule's own mutex from its first to its last access, so    *)
(* each is one operator on a record.                                       *)
(*                                                                         *)
(* The content of a task is left out, and with it task_info_, which holds  *)
(* every task that was ever pending.  A key missing from running_tasks_ is *)
(* None here, one missing from finished_tasks_ is "none", one missing from *)
(* worker_load_ is 0, the value operator[] gives it.                       *)
(***************************************************************************)
EXTENDS Naturals, FiniteSets

CONSTANTS
  Task,       \* ids of tasks: the log indices of their submissions
  Worker,
  None,       \* no worker
  LoadLimit   \* the 4 of getTaskAssignment

ASSUME TaskAssumption == Task \subseteq Nat
ASSUME WorkerAssumption == None \notin Worker
ASSUME LoadAssumption == LoadLimit \in Nat \ {0}

Outcome == {"succeeded", "failed"}
Schedule ==
  [pending  : SUBSET Task,
   running  : [Task -> Worker \cup {None}],
   finished : [Task -> Outcome \cup {"none"}],
   living   : SUBSET Worker,
   pinged   : SUBSET Worker,
   load     : [Worker -> Nat]]

NewSchedule ==
  [pending  |-> {},
   running  |-> [t \in Task |-> None],
   finished |-> [t \in Task |-> "none"],
   living   |-> {},
   pinged   |-> {},
   load     |-> [w \in Worker |-> 0]]

addTask(s, t) == [s EXCEPT !.pending = @ \cup {t}]

(* Faulty variant: a task is handed out whatever became of it.             *)
IsPending_Always(s, t) == TRUE

(* assignTask does nothing for a task that is not pending; else the task   *)
(* runs, and the caller sends it to the worker.                            *)
IsPending(s, t) == t \in s.pending
assignTask(s, t, w) == [s EXCEPT !.pending = @ \ {t}, !.running[t] = w]

IsRunning(s, t) == s.running[t] # None

(* Faulty variant: the assertion is gone, the later outcome wins.          *)
CanFinish_Always(s, t) == TRUE

(* The assertion of finishTask, and what follows it.                       *)
CanFinish(s, t) == IsRunning(s, t)
OutcomeOf(success) == IF success THEN "succeeded" ELSE "failed"
(* Faulty variant: the task stays in running_tasks_.                       *)
finishTask_StillRunning(s, t, success) == [s EXCEPT !.finished[t] = OutcomeOf(success)]

finishTask(s, t, success) ==
  [s EXCEPT !.running[t] = None, !.finished[t] = OutcomeOf(success)]

(* The tables are asked in this order.                                     *)
queryTaskStatus(s, t) ==
  CASE t \in s.pending -> "pending"
    [] t \notin s.pending /\ IsRunning(s, t) -> "running"
    [] OTHER -> s.finished[t]

getPendingTasks(s) == Cardinality(s.pending)
getRunningTasks(s) == Cardinality({t \in Task : IsRunning(s, t)})
getFinishedTasks(s) == Cardinality({t \in Task : s.finished[t] # "none"})
getWorkerCount(s) == Cardinality(s.living)

(* The count a client asks for by a status; failed tasks are counted with  *)
(* the finished ones, and UNKNOWN stands for the workers.                  *)
handleServiceQuery(s, state) ==
  CASE state = "pending" -> getPendingTasks(s)
    [] state = "running" -> getRunningTasks(s)
    [] state \in Outcome -> getFinishedTasks(s)
    [] state = "none" -> getWorkerCount(s)

(* getTaskAssignment walks the living workers and writes, for each that    *)
(* has capacity, the first pending task: always the same one, so that at   *)
(* most one assignment comes out, to the last of them.  Both orders are    *)
(* those of a hash set.  The set of its possible results.                  *)
getTaskAssignment(s) ==
  {<<t, w>> : t \in s.pending, w \in {x \in s.living : s.load[x] < LoadLimit}}

workerPing(s, w, load) == [s EXCEPT !.pinged = @ \cup {w}, !.load[w] = load]

workerTimeoutCallback(s) == [s EXCEPT !.living = s.pinged, !.pinged = {}]
=============================================================================
