------------------------- MODULE PipelineWorkerProofs -------------------------
(***************************************************************************)
(* Theorems about the workers of Pipeline: one worker per task, outcomes   *)
(* that were earned, and no task lost without a fault.                     *)
(***************************************************************************)
EXTENDS PipelineProofs

-----------------------------------------------------------------------------
(* One worker per task.  Every replica takes the worker of the first       *)
(* assignment of a task in the log, whenever it gets there: the log is     *)
(* what the calls, threads and runs of a task have in common.              *)
FirstAssigned(t, w) ==
  \E k \in 1..Len(log) : /\ IsAssignOf(log[k], t) /\ log[k].worker = w
                         /\ \A m \in 1..(k - 1) : ~IsAssignOf(log[m], t)

FollowsLog ==
  /\ \A i \in Master, t \in Task :
       IsRunning(schedule[i], t) => FirstAssigned(t, schedule[i].running[t])
  /\ \A i \in Master : calling[i] # NoCall => FirstAssigned(calling[i].task, calling[i].worker)
  /\ \A th \in threads : FirstAssigned(th.task, th.worker)
  /\ \A e \in ran : FirstAssigned(e.task, e.worker)

LEMMA OneFirstWorker ==
  ASSUME NEW t, NEW v, NEW w, FirstAssigned(t, v), FirstAssigned(t, w), TypeInv
  PROVE  v = w
<1>1. PICK k \in 1..Len(log) : /\ IsAssignOf(log[k], t) /\ log[k].worker = v
                               /\ \A m \in 1..(k - 1) : ~IsAssignOf(log[m], t)
  BY DEF FirstAssigned
<1>2. PICK n \in 1..Len(log) : /\ IsAssignOf(log[n], t) /\ log[n].worker = w
                               /\ \A m \in 1..(n - 1) : ~IsAssignOf(log[m], t)
  BY DEF FirstAssigned
<1>3. ~(k < n) /\ ~(n < k)
  BY <1>1, <1>2, LenProperties DEF TypeInv, LogTypes
<1> QED
  BY <1>1, <1>2, <1>3

LEMMA FirstStays ==
  ASSUME TypeInv, [Next]_vars, NEW t, NEW w, FirstAssigned(t, w) PROVE FirstAssigned(t, w)'
<1>1. PICK k \in 1..Len(log) : /\ IsAssignOf(log[k], t) /\ log[k].worker = w
                               /\ \A m \in 1..(k - 1) : ~IsAssignOf(log[m], t)
  BY DEF FirstAssigned
<1>2. \A m \in 1..k : m \in 1..Len(log) /\ log'[m] = log[m]
  BY LogExtended
<1>3. k \in 1..Len(log') /\ k \in 1..k /\ \A m \in 1..(k - 1) : m \in 1..k
  BY LogExtended
<1> QED
  BY <1>1, <1>2, <1>3 DEF FirstAssigned, IsAssignOf

(* An assignment that makes a task run is the first of that task.          *)
LEMMA AssignIsFirst ==
  ASSUME TypeInv, TablesInv, NEW i \in Master, ApplyAssign(i),
         IsPending(schedule[i], log[applied[i] + 1].task)
  PROVE  FirstAssigned(log[applied[i] + 1].task, log[applied[i] + 1].worker)
<1> DEFINE n == applied[i] + 1
<1>1. log[n].kind = "assign" /\ applied[i] < applyEnd[i]
  BY DEF ApplyAssign, NextApplied
<1>2. n \in 1..Len(log) /\ log[n].task \in Task /\ n - 1 = applied[i]
  BY <1>1, NextEntry, EntryShapes
<1>3. \A m \in 1..(n - 1) : ~IsAssignOf(log[m], log[n].task)
  BY <1>2 DEF TablesInv, TableInv, PendingUnassigned, IsPending
<1> QED
  BY <1>1, <1>2, <1>3 DEF FirstAssigned, IsAssignOf

(* How running_tasks_ of a replica changes.                                *)
LEMMA RunningChanges ==
  ASSUME TypeInv, [Next]_vars, NEW i \in Master, NEW t \in Task
  PROVE  \/ schedule'[i].running[t] \in {schedule[i].running[t], None}
         \/ /\ ApplyAssign(i) /\ IsPending(schedule[i], t)
            /\ log[applied[i] + 1].task = t
            /\ schedule'[i].running[t] = log[applied[i] + 1].worker
<1> DEFINE e == log[applied[i] + 1]
           old == schedule[i]
<1>1. old \in Schedule
  BY DEF TypeInv, TableTypes
<1>2. CASE \A j \in Master : ~Applies(j)
  BY <1>2, TablesChangeByApplying DEF SameTables
<1>3. ASSUME NEW j \in Master, Applies(j), j # i PROVE schedule'[i] = old
  <2>1. UNCHANGED schedule \/ \E s : Apply(j, s)
    BY <1>3 DEF Applies, ApplySubmit, ApplyAssign, ApplyFinish
  <2> QED
    BY <1>3, <2>1, ApplyChangesOne
<1>4. CASE ApplySubmit(i)
  BY <1>1, <1>4, ApplyChangesOne DEF ApplySubmit, addTask, Schedule
<1>5. CASE ApplyAssign(i)
  <2>1. schedule'[i] \in {old, assignTask(old, e.task, e.worker)}
        /\ (schedule'[i] # old => IsPending(old, e.task))
    BY <1>5, ApplyChangesOne DEF ApplyAssign
  <2> HIDE DEF e
  <2>2. CASE schedule'[i] = assignTask(old, e.task, e.worker) /\ schedule'[i] # old
    <3>1. schedule'[i].running = [old.running EXCEPT ![e.task] = e.worker]
      BY <1>1, <2>2 DEF assignTask, Schedule
    <3>2. CASE t # e.task
      BY <1>1, <3>1, <3>2 DEF Schedule
    <3>3. CASE t = e.task
      BY <1>1, <1>5, <2>1, <2>2, <3>1, <3>3 DEF Schedule, e
    <3> QED
      BY <3>2, <3>3
  <2> QED
    BY <2>1, <2>2
<1>6. CASE ApplyFinish(i)
  <2>1. schedule'[i] \in {old, finishTask(old, e.task, e.success)}
    BY <1>6, ApplyChangesOne DEF ApplyFinish
  <2> HIDE DEF e
  <2>2. CASE schedule'[i] = finishTask(old, e.task, e.success)
    <3>1. schedule'[i].running = [old.running EXCEPT ![e.task] = None]
      BY <1>1, <2>2 DEF finishTask, Schedule
    <3> QED
      BY <1>1, <3>1 DEF Schedule
  <2> QED
    BY <2>1, <2>2
<1> QED
  BY <1>2, <1>3, <1>4, <1>5, <1>6 DEF Applies

LEMMA CallChanges ==
  ASSUME TypeInv, [Next]_vars, NEW i \in Master
  PROVE  \/ calling'[i] \in {calling[i], NoCall}
         \/ /\ calling[i] # NoCall /\ calling'[i].task = calling[i].task
            /\ calling'[i].worker = calling[i].worker
         \/ /\ ApplyAssign(i) /\ IsPending(schedule[i], log[applied[i] + 1].task)
            /\ calling'[i].task = log[applied[i] + 1].task
            /\ calling'[i].worker = log[applied[i] + 1].worker
<1>1. calling \in [Master -> Call]
  BY DEF TypeInv, TableTypes
<1>2. \/ UNCHANGED calling
      \/ \E j \in Master : ApplyAssign(j) \/ ExecuteTask(j) \/ ExecuteTaskReturns(j)
  BY DEF Next, vars, masterVars, submitTask, SubmitTask, handleTaskSubmission,
         SubmitTaskFails, taskExecutionPeriodicCallback, syncWorker, RoundStarts,
         RoundGivesUp, RoundSucceeds, AppendRpc, handleAppendEntries, AppendFails, Heartbeat,
         commitUpTo, ApplySubmit, ApplyFinish, commitUpToEnds, ExecuteTaskRpc, MasterCrash,
         taskExecutor, taskExecutorStarts, taskExecutorEnds, handleTaskCompletion, FinishTaskFails,
         handlePing, WorkerTimeout, WorkerCrash, WorkerRestart
<1>3. ASSUME NEW j \in Master, ApplyAssign(j) \/ ExecuteTask(j) \/ ExecuteTaskReturns(j), j # i
      PROVE  calling'[i] = calling[i]
  BY <1>1, <1>3 DEF ApplyAssign, ExecuteTask, ExecuteTaskReturns, Put
<1>4. CASE ApplyAssign(i)
  BY <1>1, <1>4 DEF ApplyAssign, Put
<1>5. CASE ExecuteTask(i)
  BY <1>1, <1>5 DEF ExecuteTask, Call
<1>6. CASE ExecuteTaskReturns(i)
  BY <1>1, <1>6 DEF ExecuteTaskReturns, Put
<1> QED
  BY <1>2, <1>3, <1>4, <1>5, <1>6

(* Where threads and runs come from: a call, or a thread.                  *)
LEMMA ThreadOrigins ==
  ASSUME TypeInv, [Next]_vars
  PROVE  /\ \A th \in threads' :
              \/ \E x \in threads : th.task = x.task /\ th.worker = x.worker
              \/ \E i \in Master : calling[i] # NoCall /\ th.task = calling[i].task
                                                       /\ th.worker = calling[i].worker
         /\ \A e \in ran' :
              e \in ran \/ \E x \in threads : e.task = x.task /\ e.worker = x.worker
<1>1. \A x \in threads : x \in Thread
  BY DEF TypeInv, ThreadTypes
<1>2. CASE UNCHANGED <<threads, ran>>
  BY <1>2
<1>3. ASSUME NEW i \in Master, ExecuteTask(i)
      PROVE  /\ ran' = ran
             /\ \A th \in threads' :
                  \/ th \in threads
                  \/ calling[i] # NoCall /\ th.task = calling[i].task /\ th.worker = calling[i].worker
  BY <1>3 DEF ExecuteTask
<1>4. \A S : \A th \in Refusing(S) \cup (threads \ S) :
        S \subseteq threads => \E x \in threads : th.task = x.task /\ th.worker = x.worker
  <2>1. \A x \in threads : AsksNext(x).task = x.task /\ AsksNext(x).worker = x.worker
    BY <1>1 DEF AsksNext, Thread
  <2> QED
    BY <2>1 DEF Refusing
<1>5. CASE RoundGivesUp \/ RoundSucceeds
  BY <1>4, <1>5 DEF RoundGivesUp, RoundSucceeds, Waiting
<1>6. ASSUME NEW x \in threads, handleTaskCompletion(x) \/ FinishTaskFails(x)
      PROVE  ran' = ran /\ \A th \in threads' : \E y \in threads : th.task = y.task /\ th.worker = y.worker
  <2>1. \A n : [x EXCEPT !.at = n].task = x.task /\ [x EXCEPT !.at = n].worker = x.worker
    BY <1>1 DEF Thread
  <2> QED
    <3>1. CASE threads' = Refusing({x})
      BY <1>4, <1>6, <3>1 DEF handleTaskCompletion, FinishTaskFails
    <3>2. CASE \E n : threads' = (threads \ {x}) \cup {[x EXCEPT !.at = n]}
      BY <1>6, <2>1, <3>2 DEF handleTaskCompletion, FinishTaskFails
    <3> QED
      BY <1>6, <3>1, <3>2 DEF handleTaskCompletion, FinishTaskFails, NotLeader
<1>7. ASSUME NEW x \in threads, taskExecutorStarts(x)
      PROVE  ran' = ran /\ \A th \in threads' : \E y \in threads : th.task = y.task /\ th.worker = y.worker
  <2>1. [x EXCEPT !.state = "running"].task = x.task /\ [x EXCEPT !.state = "running"].worker = x.worker
    BY <1>1 DEF Thread
  <2> QED
    BY <1>7, <2>1 DEF taskExecutorStarts, Duplicate
<1>8. ASSUME NEW x \in threads, taskExecutorEnds(x)
      PROVE  /\ \A th \in threads' : \E y \in threads : th.task = y.task /\ th.worker = y.worker
             /\ \A e \in ran' : e \in ran \/ (e.task = x.task /\ e.worker = x.worker)
  <2>1. PICK b \in BOOLEAN :
          /\ threads' = (threads \ {x}) \cup {[x EXCEPT !.state = "asking", !.success = b]}
          /\ ran' = ran \cup {[worker |-> x.worker, task |-> x.task, success |-> b]}
    BY <1>8 DEF taskExecutorEnds
  <2> DEFINE y == [x EXCEPT !.state = "asking", !.success = b]
             r == [worker |-> x.worker, task |-> x.task, success |-> b]
  <2>2. y.task = x.task /\ y.worker = x.worker /\ r.task = x.task /\ r.worker = x.worker
    BY <1>1 DEF Thread
  <2>3. threads' = (threads \ {x}) \cup {y} /\ ran' = ran \cup {r}
    BY <2>1
  <2> HIDE DEF y, r
  <2> QED
    BY <2>2, <2>3
<1>9. CASE \E w \in Worker : WorkerCrash(w) \/ WorkerRestart(w)
  BY <1>9 DEF WorkerCrash, WorkerRestart
<1>10. \/ UNCHANGED <<threads, ran>>
       \/ \E i \in Master : ExecuteTask(i)
       \/ RoundGivesUp \/ RoundSucceeds
       \/ \E x \in threads : taskExecutor(x)
       \/ \E w \in Worker : WorkerCrash(w) \/ WorkerRestart(w)
  BY DEF Next, vars, workerVars, submitTask, SubmitTask, handleTaskSubmission, SubmitTaskFails,
         taskExecutionPeriodicCallback, syncWorker, RoundStarts, AppendRpc, handleAppendEntries,
         AppendFails, Heartbeat, commitUpTo, ApplySubmit, ApplyAssign, ApplyFinish, commitUpToEnds,
         ExecuteTaskRpc, ExecuteTaskReturns, MasterCrash, handlePing, WorkerTimeout
<1> QED
  BY <1>2, <1>3, <1>5, <1>6, <1>7, <1>8, <1>9, <1>10 DEF taskExecutor

LEMMA NextFollowsLog ==
  ASSUME TypeInv, TablesInv, FollowsLog, [Next]_vars PROVE FollowsLog'
<1>1. \A t, w : FirstAssigned(t, w) => FirstAssigned(t, w)'
  BY FirstStays
<1>2. ASSUME NEW i \in Master, NEW t \in Task, IsRunning(schedule'[i], t)
      PROVE  FirstAssigned(t, schedule'[i].running[t])
  BY <1>2, RunningChanges, AssignIsFirst DEF FollowsLog, IsRunning
<1>3. ASSUME NEW i \in Master, calling'[i] # NoCall
      PROVE  FirstAssigned(calling'[i].task, calling'[i].worker)
  BY <1>3, CallChanges, AssignIsFirst DEF FollowsLog
<1>4. \A th \in threads' : FirstAssigned(th.task, th.worker)
  BY ThreadOrigins DEF FollowsLog
<1>5. \A e \in ran' : FirstAssigned(e.task, e.worker)
  BY ThreadOrigins DEF FollowsLog
<1> QED
  BY <1>1, <1>2, <1>3, <1>4, <1>5 DEF FollowsLog

LEMMA FollowsLogInvariant == Spec => []FollowsLog
<1>1. Init => FollowsLog
  BY DEF Init, FollowsLog, NewSchedule, IsRunning
<1>2. TypeInv /\ TablesInv /\ FollowsLog /\ [Next]_vars => FollowsLog'
  BY NextFollowsLog
<1> QED
  BY <1>1, <1>2, TypeInvariant, TablesInvariant, PTL DEF Spec

(* All executions of a task, those of every replica's call, are by one     *)
(* worker, though its assignment may be queued for several.                *)
THEOREM WorkerIsUnique == Spec => []OneWorkerPerTask
<1>1. TypeInv /\ FollowsLog => OneWorkerPerTask
  BY OneFirstWorker DEF FollowsLog, OneWorkerPerTask
<1> QED
  BY <1>1, TypeInvariant, FollowsLogInvariant, PTL

-----------------------------------------------------------------------------
(* Outcomes are earned: a completion is in the log only behind a run.      *)
RanWith(t, success) == \E e \in ran : e.task = t /\ e.success = success

Earned ==
  /\ \A th \in threads : th.state = "asking" => RanWith(th.task, th.success)
  /\ \A k \in 1..Len(log) : log[k].kind = "finish" => RanWith(log[k].task, log[k].success)

(* Runs are never forgotten.                                               *)
LEMMA RunsStay == ASSUME [Next]_vars PROVE ran \subseteq ran'
  BY DEF Next, vars, workerVars, submitTask, SubmitTask, handleTaskSubmission, SubmitTaskFails,
         taskExecutionPeriodicCallback, syncWorker, RoundStarts, RoundGivesUp, RoundSucceeds,
         AppendRpc, handleAppendEntries, AppendFails, Heartbeat, commitUpTo, ApplySubmit,
         ApplyAssign, ApplyFinish, commitUpToEnds, ExecuteTaskRpc, ExecuteTask, ExecuteTaskReturns,
         MasterCrash, taskExecutor, taskExecutorStarts, taskExecutorEnds, handleTaskCompletion,
         FinishTaskFails, handlePing, WorkerTimeout, WorkerCrash, WorkerRestart

(* A thread that asks has asked before, or its script has just ended.      *)
LEMMA AskersRan ==
  ASSUME TypeInv, [Next]_vars
  PROVE  \A th \in threads' : th.state = "asking" =>
           \/ \E x \in threads : /\ x.state = "asking"
                                 /\ th.task = x.task /\ th.success = x.success
           \/ \E e \in ran' : e.task = th.task /\ e.success = th.success
<1> DEFINE Asker(th) ==
             \/ \E x \in threads : /\ x.state = "asking"
                                   /\ th.task = x.task /\ th.success = x.success
             \/ \E e \in ran' : e.task = th.task /\ e.success = th.success
<1>1. \A x \in threads : x \in Thread
  BY DEF TypeInv, ThreadTypes
<1>2. CASE threads' \subseteq threads
  BY <1>2
<1>3. ASSUME NEW i \in Master, ExecuteTask(i), NEW th \in threads', th.state = "asking" PROVE Asker(th)
  BY <1>3 DEF ExecuteTask
<1>4. ASSUME NEW S, S \subseteq {x \in threads : x.state = "asking"}, threads' = Refusing(S)
      PROVE  \A th \in threads' : th.state = "asking" => Asker(th)
  <2>1. \A x \in threads : /\ AsksNext(x).task = x.task /\ AsksNext(x).success = x.success
    BY <1>1 DEF AsksNext, Thread
  <2> QED
    BY <1>4, <2>1 DEF Refusing
<1>5. CASE RoundGivesUp
  BY <1>4, <1>5 DEF RoundGivesUp, Waiting
<1>6. ASSUME NEW x \in threads, handleTaskCompletion(x) \/ FinishTaskFails(x)
      PROVE  \A th \in threads' : th.state = "asking" => Asker(th)
  <2>1. \A n : [x EXCEPT !.at = n].task = x.task /\ [x EXCEPT !.at = n].success = x.success
    BY <1>1 DEF Thread
  <2>2. x.state = "asking"
    BY <1>6 DEF handleTaskCompletion, FinishTaskFails
  <2>3. CASE threads' = Refusing({x})
    BY <1>4, <2>2, <2>3
  <2>4. CASE \E n : threads' = (threads \ {x}) \cup {[x EXCEPT !.at = n]}
    BY <2>1, <2>2, <2>4
  <2> QED
    BY <1>6, <2>3, <2>4 DEF handleTaskCompletion, FinishTaskFails, NotLeader
<1>7. ASSUME NEW x \in threads, taskExecutorStarts(x)
      PROVE  \A th \in threads' : th.state = "asking" => Asker(th)
  <2>1. [x EXCEPT !.state = "running"].state = "running"
    BY <1>1 DEF Thread
  <2> QED
    BY <1>7, <2>1 DEF taskExecutorStarts, Duplicate
<1>8. ASSUME NEW x \in threads, taskExecutorEnds(x)
      PROVE  \A th \in threads' : th.state = "asking" => Asker(th)
  <2>1. PICK b \in BOOLEAN :
          /\ threads' = (threads \ {x}) \cup {[x EXCEPT !.state = "asking", !.success = b]}
          /\ ran' = ran \cup {[worker |-> x.worker, task |-> x.task, success |-> b]}
    BY <1>8 DEF taskExecutorEnds
  <2> DEFINE y == [x EXCEPT !.state = "asking", !.success = b]
             r == [worker |-> x.worker, task |-> x.task, success |-> b]
  <2>2. y.task = r.task /\ y.success = r.success
    BY <1>1 DEF Thread
  <2>3. threads' = (threads \ {x}) \cup {y} /\ r \in ran'
    BY <2>1
  <2> HIDE DEF y, r
  <2> QED
    BY <2>2, <2>3
<1>9. \/ threads' \subseteq threads
      \/ \E i \in Master : ExecuteTask(i)
      \/ RoundGivesUp
      \/ \E x \in threads : taskExecutor(x)
  BY DEF Next, vars, workerVars, submitTask, SubmitTask, handleTaskSubmission, SubmitTaskFails,
         taskExecutionPeriodicCallback, syncWorker, RoundStarts, RoundSucceeds, AppendRpc,
         handleAppendEntries, AppendFails, Heartbeat, commitUpTo, ApplySubmit, ApplyAssign,
         ApplyFinish, commitUpToEnds, ExecuteTaskRpc, ExecuteTaskReturns, MasterCrash, handlePing,
         WorkerTimeout, WorkerCrash, WorkerRestart
<1> QED
  BY <1>2, <1>3, <1>5, <1>6, <1>7, <1>8, <1>9 DEF taskExecutor

LEMMA NextEarned == ASSUME TypeInv, Earned, [Next]_vars PROVE Earned'
<1> USE DEF RanWith
<1>1. ran \subseteq ran'
  BY RunsStay
<1>2. \A th \in threads' : th.state = "asking" => \E e \in ran' : e.task = th.task /\ e.success = th.success
  BY <1>1, AskersRan DEF Earned
<1>3. Len(log) \in Nat /\ \A k \in 1..Len(log) : log'[k] = log[k]
  BY LogExtended
<1>4. ASSUME NEW e \in Entry, log' = Append(log, e), e.kind = "finish" => RanWith(e.task, e.success)
      PROVE  Earned'
  <2>1. Len(log') = Len(log) + 1 /\ log'[Len(log) + 1] = e
    BY <1>4, LogGrows DEF TypeInv, LogTypes
  <2>2. \A k \in 1..Len(log') : k \in 1..Len(log) \/ k = Len(log) + 1
    BY <1>3, <2>1
  <2>3. ASSUME NEW k \in 1..Len(log'), log'[k].kind = "finish"
        PROVE  \E r \in ran' : r.task = log'[k].task /\ r.success = log'[k].success
    BY <1>1, <1>3, <1>4, <2>1, <2>2, <2>3 DEF Earned
  <2> QED
    BY <1>2, <2>3 DEF Earned
<1>5. CASE UNCHANGED log
  BY <1>1, <1>2, <1>5 DEF Earned
<1>6. ASSUME NEW c \in Client, handleTaskSubmission(c) PROVE Earned'
  BY <1>4, <1>5, <1>6, EntriesMade DEF handleTaskSubmission, SubmitTaskLog
<1>7. CASE taskExecutionPeriodicCallback
  <2>1. PICK a \in getTaskAssignment(schedule[Leader]) : log' = Append(log, AssignTaskLog(a[1], a[2]))
    BY <1>7 DEF taskExecutionPeriodicCallback
  <2>2. schedule[Leader] \in Schedule
    BY MasterNumbers DEF TypeInv, TableTypes
  <2>3. a[1] \in Task /\ a[2] \in Worker
    BY <2>1, <2>2 DEF getTaskAssignment, Schedule
  <2>4. AssignTaskLog(a[1], a[2]) \in Entry /\ AssignTaskLog(a[1], a[2]).kind = "assign"
    BY <2>3, EntriesMade DEF AssignTaskLog
  <2> QED
    BY <1>4, <2>1, <2>4
<1>8. ASSUME NEW th \in threads, handleTaskCompletion(th) PROVE Earned'
  <2>1. th.task \in Task /\ th.success \in BOOLEAN
    BY DEF TypeInv, ThreadTypes, Thread
  <2>2. RanWith(th.task, th.success)
    BY <1>8 DEF handleTaskCompletion, Earned
  <2>3. /\ FinishTaskLog(th.task, th.success) \in Entry
        /\ FinishTaskLog(th.task, th.success).task = th.task
        /\ FinishTaskLog(th.task, th.success).success = th.success
    BY <2>1, EntriesMade DEF FinishTaskLog
  <2> QED
    BY <1>4, <1>5, <1>8, <2>2, <2>3 DEF handleTaskCompletion
<1> QED
  BY <1>5, <1>6, <1>7, <1>8, LogWriters

LEMMA EarnedInvariant == Spec => []Earned
<1>1. Init => Earned
  BY EmptySeq DEF Init, Earned
<1>2. TypeInv /\ Earned /\ [Next]_vars => Earned'
  BY NextEarned
<1> QED
  BY <1>1, <1>2, TypeInvariant, PTL DEF Spec

(* An outcome a replica tells is that of a run that ended so: none is told *)
(* of a task that did not run.                                             *)
THEOREM OutcomesAreEarned == Spec => []OutcomeEarned
<1>1. TypeInv /\ TablesInv /\ Earned => OutcomeEarned
  <2> SUFFICES ASSUME TypeInv, TablesInv, Earned, NEW i \in Master, NEW t \in Task,
                      schedule[i].finished[t] # "none"
               PROVE  \E e \in ran : e.task = t /\ OutcomeOf(e.success) = schedule[i].finished[t]
    BY DEF OutcomeEarned
  <2>1. PICK k \in 1..applied[i] :
          IsFinishOf(log[k], t) /\ schedule[i].finished[t] = OutcomeOf(log[k].success)
    BY DEF TablesInv, TableInv, OutcomeLogged
  <2>2. k \in 1..Len(log)
    BY <2>1, LenProperties DEF TypeInv, LogTypes, IndexTypes
  <2> QED
    BY <2>1, <2>2 DEF Earned, RanWith, IsFinishOf
<1> QED
  BY <1>1, TypeInvariant, TablesInvariant, EarnedInvariant, PTL

-----------------------------------------------------------------------------
(* No task is lost.  A worker's memory of a task goes with the thread that *)
(* runs it, a thread that waits for a round has its completion in the log, *)
(* and without lost RPCs no thread passes a leader that lives: it does not *)
(* run out of masters before it reached him.                               *)
ThreadsKept ==
  /\ \A w \in Worker : ~workerUp[w] => w \in crashed
  /\ \A w \in Worker : \A t \in running_task_ids[w] :
       \E th \in threads : th.worker = w /\ th.task = t /\ th.state = "running"
  /\ \A th \in threads : th.at > 0 => Reported(th.task)
  /\ ~lossy /\ Running(Leader) =>
       \A th \in threads : th.master <= Leader \/ Reported(th.task)

OnItsWay(t) ==
  \/ calling[Leader].task = t /\ ~calling[Leader].sent
  \/ \E th \in threads : th.task = t
  \/ Reported(t)
  \/ schedule[Leader].running[t] \in crashed
NoneLost ==
  ~lossy /\ Running(Leader) => \A t \in Task : IsRunning(schedule[Leader], t) => OnItsWay(t)

LEMMA ReportedStays ==
  ASSUME TypeInv, [Next]_vars, NEW t, Reported(t) PROVE Reported(t)'
<1>1. DOMAIN log = 1..Len(log) /\ DOMAIN log' = 1..Len(log') /\ Len(log') \in Nat
  <2>1. TypeInv'
    BY NextTypeInv
  <2> QED
    BY <2>1, LenProperties DEF TypeInv, LogTypes
<1>2. PICK k \in 1..Len(log) : log[k].kind = "finish" /\ log[k].task = t
  BY <1>1 DEF Reported
<1>3. k \in DOMAIN log' /\ log'[k] = log[k]
  BY <1>1, LogExtended
<1> QED
  BY <1>2, <1>3 DEF Reported

(* Faults are not taken back: a master that ended stays so, and whether    *)
(* RPCs are lost is settled at the start.                                  *)
LEMMA FaultsStay ==
  ASSUME TypeInv, [Next]_vars
  PROVE  /\ lossy' = lossy /\ crashed \subseteq crashed'
         /\ \A i \in Master : Running(i)' => Running(i)
<1>1. lossy' = lossy /\ crashed \subseteq crashed'
  BY DEF Next, vars, workerVars, clientVars, submitTask, SubmitTask, handleTaskSubmission,
         SubmitTaskFails, taskExecutionPeriodicCallback, syncWorker, RoundStarts, RoundGivesUp,
         RoundSucceeds, AppendRpc, handleAppendEntries, AppendFails, Heartbeat, commitUpTo,
         ApplySubmit, ApplyAssign, ApplyFinish, commitUpToEnds, ExecuteTaskRpc, ExecuteTask,
         ExecuteTaskReturns, MasterCrash, taskExecutor, taskExecutorStarts, taskExecutorEnds,
         handleTaskCompletion, FinishTaskFails, handlePing, WorkerTimeout, WorkerCrash, WorkerRestart
<1>2. \/ UNCHANGED status
      \/ \E i \in Master : ApplyFinish(i) \/ MasterCrash(i)
  BY DEF Next, vars, masterVars, submitTask, SubmitTask, handleTaskSubmission,
         SubmitTaskFails, taskExecutionPeriodicCallback, syncWorker, RoundStarts, RoundGivesUp,
         RoundSucceeds, AppendRpc, handleAppendEntries, AppendFails, Heartbeat, commitUpTo,
         ApplySubmit, ApplyAssign, commitUpToEnds, ExecuteTaskRpc, ExecuteTask,
         ExecuteTaskReturns, taskExecutor, taskExecutorStarts, taskExecutorEnds,
         handleTaskCompletion, FinishTaskFails, handlePing, WorkerTimeout, WorkerCrash, WorkerRestart
<1>3. ASSUME NEW i \in Master, ApplyFinish(i) \/ MasterCrash(i), NEW j \in Master, status'[j] = "running"
      PROVE  status[j] = "running"
  BY <1>3 DEF ApplyFinish, MasterCrash, Put, TypeInv, TableTypes
<1> QED
  BY <1>1, <1>2, <1>3 DEF Running

(* The steps that touch what the workers hold.                             *)
LEMMA WorkerWriters ==
  ASSUME [Next]_vars
  PROVE  \/ UNCHANGED <<workerUp, crashed, threads, running_task_ids>>
         \/ \E i \in Master : ExecuteTask(i)
         \/ RoundGivesUp \/ RoundSucceeds
         \/ \E x \in threads : taskExecutor(x)
         \/ \E w \in Worker : WorkerCrash(w) \/ WorkerRestart(w)
  BY DEF Next, vars, workerVars, submitTask, SubmitTask, handleTaskSubmission, SubmitTaskFails,
         taskExecutionPeriodicCallback, syncWorker, RoundStarts, AppendRpc, handleAppendEntries,
         AppendFails, Heartbeat, commitUpTo, ApplySubmit, ApplyAssign, ApplyFinish, commitUpToEnds,
         ExecuteTaskRpc, ExecuteTaskReturns, MasterCrash, handlePing, WorkerTimeout

LEMMA RoundHasEntry == TypeInv /\ round.busy => logSize > 0
  BY MasterNumbers DEF TypeInv, IndexTypes, LogTypes

(* A thread is gone only with its worker, with its task still held by      *)
(* another one, or with its completion in the log.                         *)
LEMMA ThreadFates ==
  ASSUME TypeInv, ThreadsKept, [Next]_vars, ~lossy, Running(Leader), NEW th \in threads
  PROVE  \/ \E x \in threads' : x.task = th.task
         \/ Reported(th.task)
         \/ WorkerCrash(th.worker)
<1>1. \A x \in threads : x \in Thread
  BY DEF TypeInv, ThreadTypes
<1>2. CASE th \in threads'
  BY <1>2
<1>3. CASE \E i \in Master : ExecuteTask(i)
  BY <1>2, <1>3 DEF ExecuteTask
<1>4. CASE RoundGivesUp \/ RoundSucceeds
  <2>1. logSize > 0
    BY <1>4, RoundHasEntry DEF RoundGivesUp, RoundSucceeds, RoundOver
  <2>2. th \in threads' \/ th \in Waiting(logSize)
    BY <1>4 DEF RoundGivesUp, RoundSucceeds, Refusing
  <2> QED
    BY <2>1, <2>2 DEF Waiting, ThreadsKept
<1>5. ASSUME NEW x \in threads, handleTaskCompletion(x) \/ FinishTaskFails(x)
      PROVE  \/ \E y \in threads' : y.task = th.task
             \/ Reported(th.task)
  <2>1. CASE th # x
    <3>1. th \in threads'
      BY <1>5, <2>1 DEF handleTaskCompletion, FinishTaskFails, NotLeader, Refusing
    <3> QED
      BY <3>1
  <2>2. CASE \E n : threads' = (threads \ {x}) \cup {[x EXCEPT !.at = n]} /\ th = x
    <3>1. \A n : [x EXCEPT !.at = n].task = x.task
      BY <1>1 DEF Thread
    <3> QED
      BY <2>2, <3>1
  <2>3. CASE threads' = Refusing({x}) /\ x.master # Leader /\ th = x
    <3>1. AsksNext(x).task = x.task
      BY <1>1 DEF AsksNext, Thread
    <3>2. x.master \in 1..RaftSize /\ Leader \in 1..RaftSize /\ RaftSize \in Nat
      BY <1>1, MasterNumbers DEF Thread, Master
    <3>3. x.master <= Leader => x.master < RaftSize
      BY <2>3, <3>2
    <3>4. x.master < RaftSize => AsksNext(x) \in threads'
      BY <2>3 DEF Refusing
    <3> QED
      BY <2>3, <3>1, <3>3, <3>4 DEF ThreadsKept
  <2> QED
    BY <1>5, <2>1, <2>2, <2>3 DEF handleTaskCompletion, FinishTaskFails, NotLeader
<1>6. ASSUME NEW x \in threads, taskExecutorStarts(x)
      PROVE  \E y \in threads' : y.task = th.task
  <2>1. CASE th # x
    BY <1>6, <2>1 DEF taskExecutorStarts
  <2>2. CASE x.task \notin running_task_ids[x.worker] /\ th = x
    <3>1. [x EXCEPT !.state = "running"].task = x.task
      BY <1>1 DEF Thread
    <3> QED
      BY <1>6, <2>2, <3>1 DEF taskExecutorStarts
  <2>3. CASE x.task \in running_task_ids[x.worker] /\ th = x
    <3>1. PICK y \in threads : y.task = x.task /\ y.state = "running"
      BY <1>1, <2>3 DEF ThreadsKept, Thread
    <3>2. y \in threads'
      BY <1>6, <2>3, <3>1 DEF taskExecutorStarts
    <3> QED
      BY <2>3, <3>1, <3>2
  <2> QED
    BY <2>1, <2>2, <2>3
<1>7. ASSUME NEW x \in threads, taskExecutorEnds(x)
      PROVE  \E y \in threads' : y.task = th.task
  <2>1. PICK b \in BOOLEAN : threads' = (threads \ {x}) \cup {[x EXCEPT !.state = "asking", !.success = b]}
    BY <1>7 DEF taskExecutorEnds
  <2>2. [x EXCEPT !.state = "asking", !.success = b].task = x.task
    BY <1>1 DEF Thread
  <2> QED
    BY <2>1, <2>2
<1>8. ASSUME NEW w \in Worker, WorkerCrash(w) \/ WorkerRestart(w)
      PROVE  th \in threads' \/ WorkerCrash(th.worker)
  BY <1>8 DEF WorkerCrash, WorkerRestart
<1> QED
  BY <1>2, <1>3, <1>4, <1>5, <1>6, <1>7, <1>8, WorkerWriters DEF taskExecutor

(* Which master a thread asks, and what it waits for.                      *)
LEMMA ThreadTurns ==
  ASSUME TypeInv, [Next]_vars, NEW th \in threads'
  PROVE  \/ th.master = 1 /\ th.at = 0
         \/ \E x \in threads : th.task = x.task /\ th.master = x.master /\ th.at = x.at
         \/ \E x \in threads : /\ th.task = x.task /\ th.master = x.master + 1 /\ th.at = 0
                               /\ x.at > 0 \/ x.master # Leader \/ lossy \/ ~Running(Leader)
         \/ Reported(th.task)'
<1>1. \A x \in threads : x \in Thread
  BY DEF TypeInv, ThreadTypes
<1>2. CASE th \in threads
  BY <1>2
<1>3. ASSUME NEW i \in Master, ExecuteTask(i), th \notin threads PROVE th.master = 1 /\ th.at = 0
  BY <1>3 DEF ExecuteTask
<1>4. \A x \in threads : AsksNext(x).task = x.task /\ AsksNext(x).master = x.master + 1 /\ AsksNext(x).at = 0
  BY <1>1 DEF AsksNext, Thread
<1>5. CASE RoundGivesUp /\ th \notin threads
  <2>1. logSize > 0
    BY <1>5, RoundHasEntry DEF RoundGivesUp, RoundOver
  <2>2. PICK x \in Waiting(logSize) : th = AsksNext(x)
    BY <1>5 DEF RoundGivesUp, Refusing
  <2> QED
    BY <1>4, <2>1, <2>2 DEF Waiting
<1>6. ASSUME NEW x \in threads, handleTaskCompletion(x) \/ FinishTaskFails(x), th \notin threads
      PROVE  \/ th.task = x.task /\ th.master = x.master + 1 /\ th.at = 0
                /\ (x.master # Leader \/ lossy \/ ~Running(Leader))
             \/ Reported(th.task)'
  <2>1. CASE threads' = Refusing({x}) /\ (x.master # Leader \/ lossy \/ ~Running(Leader))
    BY <1>4, <1>6, <2>1 DEF Refusing
  <2>2. CASE /\ log' = Append(log, FinishTaskLog(x.task, x.success))
             /\ threads' = (threads \ {x}) \cup {[x EXCEPT !.at = Len(log) + 1]}
    <3>1. th.task = x.task
      BY <1>1, <1>6, <2>2 DEF Thread
    <3>2. FinishTaskLog(x.task, x.success) \in Entry
      BY <1>1, EntriesMade DEF Thread
    <3>3. /\ Len(log) + 1 \in DOMAIN log'
          /\ log'[Len(log) + 1] = FinishTaskLog(x.task, x.success)
      BY <2>2, <3>2, LogGrows DEF TypeInv, LogTypes
    <3> QED
      BY <3>1, <3>3 DEF Reported, FinishTaskLog
  <2> QED
    BY <1>6, <2>1, <2>2 DEF handleTaskCompletion, FinishTaskFails, NotLeader
<1>7. ASSUME NEW x \in threads, taskExecutorStarts(x) \/ taskExecutorEnds(x), th \notin threads
      PROVE  th.task = x.task /\ th.master = x.master /\ th.at = x.at
  <2>1. \A b : /\ [x EXCEPT !.state = "asking", !.success = b].task = x.task
               /\ [x EXCEPT !.state = "asking", !.success = b].master = x.master
               /\ [x EXCEPT !.state = "asking", !.success = b].at = x.at
    BY <1>1 DEF Thread
  <2>2. /\ [x EXCEPT !.state = "running"].task = x.task
        /\ [x EXCEPT !.state = "running"].master = x.master
        /\ [x EXCEPT !.state = "running"].at = x.at
    BY <1>1 DEF Thread
  <2>3. th = [x EXCEPT !.state = "running"] \/ \E b : th = [x EXCEPT !.state = "asking", !.success = b]
    BY <1>7 DEF taskExecutorStarts, taskExecutorEnds, Duplicate
  <2> QED
    BY <2>1, <2>2, <2>3
<1>8. CASE RoundSucceeds \/ \E w \in Worker : WorkerCrash(w) \/ WorkerRestart(w)
  BY <1>2, <1>8 DEF RoundSucceeds, WorkerCrash, WorkerRestart
<1> QED
  BY <1>2, <1>3, <1>5, <1>6, <1>7, <1>8, WorkerWriters DEF taskExecutor

(* Every task a worker remembers is run by a thread of it.                 *)
LEMMA MemoryKept ==
  ASSUME TypeInv, ThreadsKept, [Next]_vars, NEW w \in Worker, NEW t \in running_task_ids'[w]
  PROVE  \E th \in threads' : th.worker = w /\ th.task = t /\ th.state = "running"
<1> DEFINE Runner(th) == th.worker = w /\ th.task = t /\ th.state = "running"
<1>1. \A x \in threads : x \in Thread
  BY DEF TypeInv, ThreadTypes
<1>2. running_task_ids \in [Worker -> SUBSET Task]
  BY DEF TypeInv, WorkerTypes
<1>3. t \in running_task_ids[w] => \E th \in threads : Runner(th)
  BY DEF ThreadsKept
<1> HIDE DEF Runner
<1>4. ASSUME running_task_ids' = running_task_ids,
             \A th \in threads : th.state = "running" => th \in threads'
      PROVE  \E th \in threads' : Runner(th)
  BY <1>3, <1>4 DEF Runner
<1>5. ASSUME NEW i \in Master, ExecuteTask(i) PROVE \E th \in threads' : Runner(th)
  BY <1>4, <1>5 DEF ExecuteTask
<1>6. CASE RoundGivesUp \/ RoundSucceeds
  BY <1>4, <1>6 DEF RoundGivesUp, RoundSucceeds, Refusing, Waiting, Runner
<1>7. ASSUME NEW x \in threads, handleTaskCompletion(x) \/ FinishTaskFails(x)
      PROVE  \E th \in threads' : Runner(th)
  <2>1. x.state # "running"
    BY <1>7 DEF handleTaskCompletion, FinishTaskFails
  <2> QED
    BY <1>4, <1>7, <2>1 DEF handleTaskCompletion, FinishTaskFails, NotLeader, Refusing
<1>8. ASSUME NEW x \in threads, taskExecutorStarts(x) PROVE \E th \in threads' : Runner(th)
  <2>1. \A th \in threads : th.state = "running" => th \in threads'
    BY <1>8 DEF taskExecutorStarts
  <2>2. CASE t \in running_task_ids[w]
    BY <1>3, <2>1, <2>2 DEF Runner
  <2>3. CASE t \notin running_task_ids[w]
    <3> DEFINE y == [x EXCEPT !.state = "running"]
    <3>1. /\ running_task_ids' = [running_task_ids EXCEPT ![x.worker] = @ \cup {x.task}]
          /\ threads' = (threads \ {x}) \cup {y}
      BY <1>8, <2>3 DEF taskExecutorStarts
    <3>2. x.worker = w /\ x.task = t
      BY <1>1, <1>2, <2>3, <3>1 DEF Thread
    <3>3. y.worker = x.worker /\ y.task = x.task /\ y.state = "running"
      BY <1>1 DEF Thread
    <3> HIDE DEF y
    <3> QED
      BY <3>1, <3>2, <3>3 DEF Runner
  <2> QED
    BY <2>2, <2>3
<1>9. ASSUME NEW x \in threads, taskExecutorEnds(x) PROVE \E th \in threads' : Runner(th)
  <2>1. running_task_ids' = [running_task_ids EXCEPT ![x.worker] = @ \ {x.task}]
    BY <1>9 DEF taskExecutorEnds
  <2>2. t \in running_task_ids[w] /\ ~(x.worker = w /\ x.task = t)
    BY <1>2, <2>1
  <2>3. PICK th \in threads : Runner(th)
    BY <1>3, <2>2
  <2>4. th # x
    BY <2>2, <2>3 DEF Runner
  <2>5. th \in threads'
    BY <1>9, <2>4 DEF taskExecutorEnds
  <2> QED
    BY <2>3, <2>5
<1>10. ASSUME NEW v \in Worker, WorkerCrash(v) PROVE \E th \in threads' : Runner(th)
  <2>1. v # w /\ t \in running_task_ids[w]
    BY <1>2, <1>10 DEF WorkerCrash, Put
  <2> QED
    BY <1>3, <1>10, <2>1 DEF WorkerCrash, Runner
<1>11. CASE UNCHANGED <<threads, running_task_ids>>
  BY <1>4, <1>11 DEF Runner
<1>12. ASSUME NEW v \in Worker, WorkerRestart(v) PROVE \E th \in threads' : Runner(th)
  BY <1>4, <1>12 DEF WorkerRestart
<1> QED
  BY <1>5, <1>6, <1>7, <1>8, <1>9, <1>10, <1>11, <1>12, WorkerWriters DEF taskExecutor, Runner

LEMMA NextThreadsKept == ASSUME TypeInv, ThreadsKept, [Next]_vars PROVE ThreadsKept'
<1>1. ASSUME NEW w \in Worker, ~workerUp'[w] PROVE w \in crashed'
  <2>1. ASSUME NEW v \in Worker, WorkerCrash(v) \/ WorkerRestart(v) PROVE w \in crashed'
    BY <1>1, <2>1 DEF WorkerCrash, WorkerRestart, Put, ThreadsKept, TypeInv, WorkerTypes
  <2>2. CASE UNCHANGED <<workerUp, crashed>>
    BY <1>1, <2>2 DEF ThreadsKept
  <2> QED
    BY <2>1, <2>2, WorkerWriters
    DEF ExecuteTask, RoundGivesUp, RoundSucceeds, taskExecutor, taskExecutorStarts,
        taskExecutorEnds, handleTaskCompletion, FinishTaskFails
<1>2. \A w \in Worker : \A t \in running_task_ids'[w] :
        \E th \in threads' : th.worker = w /\ th.task = t /\ th.state = "running"
  BY MemoryKept
<1>3. \A t : Reported(t) => Reported(t)'
  BY ReportedStays
<1>4. lossy' = lossy /\ (Running(Leader)' => Running(Leader))
  BY FaultsStay, MasterNumbers
<1>5. \A x \in threads : x.at \in Nat /\ x.master \in Nat
  BY MasterNumbers DEF TypeInv, ThreadTypes, Thread
<1>6. ASSUME NEW th \in threads', th.at > 0 PROVE Reported(th.task)'
  BY <1>3, <1>5, <1>6, ThreadTurns DEF ThreadsKept
<1>7. ASSUME NEW th \in threads', ~lossy', Running(Leader)'
      PROVE  th.master <= Leader \/ Reported(th.task)'
  <2>1. 1 <= Leader /\ Leader \in Nat
    BY LeaderAssumption DEF Master
  <2>2. \A x \in threads : x.master <= Leader \/ Reported(x.task)
    BY <1>4, <1>7 DEF ThreadsKept
  <2>3. \A x \in threads : x.at > 0 => Reported(x.task)
    BY DEF ThreadsKept
  <2>4. ASSUME NEW x \in threads, th.task = x.task, th.master = x.master + 1,
               x.at > 0 \/ x.master # Leader
        PROVE  th.master <= Leader \/ Reported(th.task)'
    BY <1>3, <1>5, <2>1, <2>2, <2>3, <2>4
  <2>5. ASSUME NEW x \in threads, th.task = x.task, th.master = x.master
        PROVE  th.master <= Leader \/ Reported(th.task)'
    BY <1>3, <2>2, <2>5
  <2> QED
    BY <1>4, <1>7, <2>1, <2>4, <2>5, ThreadTurns
<1> QED
  BY <1>1, <1>2, <1>6, <1>7 DEF ThreadsKept

(* A call is changed only by the replica that makes it; while one is under *)
(* way, by the worker that gets it and by its end.                         *)
LEMMA CallWriters ==
  ASSUME TypeInv, [Next]_vars, NEW i \in Master, calling[i] # NoCall
  PROVE  calling'[i] = calling[i] \/ ExecuteTask(i) \/ ExecuteTaskReturns(i)
<1>1. \/ UNCHANGED calling
      \/ \E j \in Master : ApplyAssign(j) \/ ExecuteTask(j) \/ ExecuteTaskReturns(j)
  BY DEF Next, vars, masterVars, submitTask, SubmitTask, handleTaskSubmission,
         SubmitTaskFails, taskExecutionPeriodicCallback, syncWorker, RoundStarts,
         RoundGivesUp, RoundSucceeds, AppendRpc, handleAppendEntries, AppendFails, Heartbeat,
         commitUpTo, ApplySubmit, ApplyFinish, commitUpToEnds, ExecuteTaskRpc, MasterCrash,
         taskExecutor, taskExecutorStarts, taskExecutorEnds, handleTaskCompletion, FinishTaskFails,
         handlePing, WorkerTimeout, WorkerCrash, WorkerRestart
<1>2. ASSUME NEW j \in Master, ApplyAssign(j) \/ ExecuteTask(j) \/ ExecuteTaskReturns(j), j # i
      PROVE  calling'[i] = calling[i]
  BY <1>2 DEF ApplyAssign, ExecuteTask, ExecuteTaskReturns, Put, TypeInv, TableTypes
<1>3. ~ApplyAssign(i)
  BY DEF ApplyAssign, NextApplied
<1> QED
  BY <1>1, <1>2, <1>3

LEMMA NextNoneLost ==
  ASSUME TypeInv, TablesInv, FollowsLog, ThreadsKept, NoneLost, [Next]_vars PROVE NoneLost'
<1> SUFFICES ASSUME ~lossy', Running(Leader)', NEW t \in Task, IsRunning(schedule'[Leader], t)
             PROVE  \/ calling'[Leader].task = t /\ ~calling'[Leader].sent
                    \/ \E th \in threads' : th.task = t
                    \/ Reported(t)'
                    \/ schedule'[Leader].running[t] \in crashed'
  BY DEF NoneLost, OnItsWay
<1>1. ~lossy /\ Running(Leader) /\ crashed \subseteq crashed' /\ Leader \in Master
  BY FaultsStay, MasterNumbers
<1>2. Reported(t) => Reported(t)'
  BY ReportedStays
<1>3. calling \in [Master -> Call]
  BY DEF TypeInv, TableTypes
<1>4. CASE /\ ApplyAssign(Leader) /\ IsPending(schedule[Leader], t)
           /\ log[applied[Leader] + 1].task = t
  <2>1. calling' = Put(calling, Leader, [task |-> t, worker |-> log[applied[Leader] + 1].worker,
                                         sent |-> FALSE])
    BY <1>4 DEF ApplyAssign
  <2> QED
    BY <1>1, <1>3, <2>1 DEF Put
<1>5. CASE schedule'[Leader].running[t] \in {schedule[Leader].running[t], None}
  <2> DEFINE w == schedule[Leader].running[t]
  <2>1. w # None /\ w = schedule'[Leader].running[t]
    BY <1>5 DEF IsRunning
  <2>2. FirstAssigned(t, w) /\ OnItsWay(t)
    BY <1>1, <2>1 DEF FollowsLog, NoneLost, IsRunning
  <2>3. CASE Reported(t) \/ w \in crashed
    BY <1>1, <1>2, <2>1, <2>3
  <2>4. CASE \E th \in threads : th.task = t
    <3>1. PICK th \in threads : th.task = t
      BY <2>4
    <3>2. th.worker = w
      BY <2>2, <3>1, OneFirstWorker DEF FollowsLog
    <3>3. WorkerCrash(w) => w \in crashed'
      BY DEF WorkerCrash
    <3> QED
      BY <1>1, <1>2, <2>1, <3>1, <3>2, <3>3, ThreadFates
  <2>5. CASE calling[Leader].task = t /\ ~calling[Leader].sent
    <3>1. calling[Leader] # NoCall /\ calling[Leader].worker = w
      <4>1. t # -1
        BY TaskAssumption
      <4>2. calling[Leader] # NoCall
        BY <2>5, <4>1 DEF NoCall
      <4> QED
        BY <1>1, <2>2, <2>5, <4>2, OneFirstWorker DEF FollowsLog
    <3>2. CASE ExecuteTask(Leader)
      <4> DEFINE x == [worker |-> calling[Leader].worker, task |-> calling[Leader].task,
                       from |-> Leader, state |-> "new", success |-> FALSE, master |-> 1, at |-> 0]
      <4>1. x \in threads' /\ x.task = t
        BY <2>5, <3>2 DEF ExecuteTask
      <4> QED
        BY <4>1
    <3>3. CASE ExecuteTaskReturns(Leader)
      <4>1. ~workerUp[w] /\ w \in Worker
        <5>1. ~workerUp[w]
          BY <1>1, <2>5, <3>1, <3>3 DEF ExecuteTaskReturns, Executed
        <5>2. w \in Worker
          BY <1>1, <1>3, <3>1 DEF Call
        <5> QED
          BY <5>1, <5>2
      <4> QED
        BY <1>1, <2>1, <4>1 DEF ThreadsKept
    <3>4. CASE calling'[Leader] = calling[Leader]
      BY <2>5, <3>4
    <3> QED
      BY <3>1, <3>2, <3>3, <3>4, CallWriters, <1>1
  <2> QED
    BY <2>2, <2>3, <2>4, <2>5 DEF OnItsWay
<1> QED
  BY <1>1, <1>4, <1>5, RunningChanges

LEMMA NoneLostInvariant == Spec => [](ThreadsKept /\ NoneLost)
<1>1. Init => ThreadsKept /\ NoneLost
  BY MasterNumbers DEF Init, ThreadsKept, NoneLost, NewSchedule, IsRunning
<1>2. /\ TypeInv /\ ThreadsKept /\ [Next]_vars => ThreadsKept'
      /\ TypeInv /\ TablesInv /\ FollowsLog /\ ThreadsKept /\ NoneLost /\ [Next]_vars => NoneLost'
  BY NextThreadsKept, NextNoneLost
<1> QED
  BY <1>1, <1>2, TypeInvariant, TablesInvariant, FollowsLogInvariant, PTL DEF Spec

(* Without lost RPCs a task that runs in the leader's eyes is on its way,  *)
(* to its worker, on it, or back in the log, unless its worker crashed.    *)
THEOREM NoTaskLost == Spec => []TaskNotLost
<1>1. NoneLost => TaskNotLost
  BY DEF NoneLost, OnItsWay, TaskNotLost
<1> QED
  BY <1>1, NoneLostInvariant, PTL
=============================================================================
