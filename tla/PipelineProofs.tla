---------------------------- MODULE PipelineProofs ----------------------------
(***************************************************************************)
(* Theorems about Pipeline, for any number of masters, workers, tasks and  *)
(* clients and any bounds: its types, and what the tables of the replicas  *)
(* have to do with the log.                                                *)
(***************************************************************************)
EXTENDS Pipeline, FiniteSetTheorems, SequenceTheorems, TLAPS

-----------------------------------------------------------------------------
(* The log.                                                                *)

LEMMA EntryShapes ==
  ASSUME NEW e \in Entry
  PROVE  /\ e.kind \in {"submit", "assign", "finish"}
         /\ e.kind = "submit" => e = SubmitTaskLog
         /\ e.kind = "assign" => e.task \in Task /\ e.worker \in Worker
         /\ e.kind = "finish" => e.task \in Task /\ e.success \in BOOLEAN
  BY DEF Entry, SubmitTaskLog, AssignTaskLog, FinishTaskLog

LEMMA EntriesMade ==
  /\ SubmitTaskLog \in Entry
  /\ \A t \in Task, w \in Worker : AssignTaskLog(t, w) \in Entry
  /\ \A t \in Task, s \in BOOLEAN : FinishTaskLog(t, s) \in Entry
  BY DEF Entry

(* What Append does to a log.                                              *)
LEMMA LogGrows ==
  ASSUME NEW lg \in Seq(Entry), NEW e \in Entry
  PROVE  /\ Append(lg, e) \in Seq(Entry)
         /\ Len(lg) \in Nat /\ Len(Append(lg, e)) = Len(lg) + 1
         /\ DOMAIN lg = 1..Len(lg) /\ DOMAIN Append(lg, e) = 1..(Len(lg) + 1)
         /\ \A k \in 1..Len(lg) : Append(lg, e)[k] = lg[k]
         /\ Append(lg, e)[Len(lg) + 1] = e
  BY AppendProperties, LenProperties

-----------------------------------------------------------------------------
(* Types.  A task is typed by the length of the log at its submission, and *)
(* a position of commitUpTo by the round that announced it, so that the    *)
(* types are inductive only with these.                                    *)
LogTypes ==
  /\ log \in Seq(Entry) /\ logSize \in 0..Len(log) /\ round \in Round
  /\ \A k \in 1..Len(log) : log[k].kind = "submit" => k - 1 \in Task

IndexTypes ==
  /\ held \in [Master -> 0..logSize] /\ held[Leader] = logSize
  /\ commit_index \in [Master -> Nat] /\ applyEnd \in [Master -> Nat] /\ applied \in [Master -> Nat]
  /\ \A i \in Master : /\ commit_index[i] <= applyEnd[i] /\ applyEnd[i] <= held[i]
                       /\ commit_index[i] <= applied[i] /\ applied[i] <= applyEnd[i]
  /\ round.busy => \A i \in Master : applyEnd[i] < logSize

TableTypes ==
  /\ status \in [Master -> {"running", "crashed", "assert_finish"}]
  /\ schedule \in [Master -> Schedule] /\ calling \in [Master -> Call]

WorkerTypes ==
  /\ workerUp \in [Worker -> BOOLEAN] /\ running_task_ids \in [Worker -> SUBSET Task]
  /\ \A w \in Worker : IsFiniteSet(running_task_ids[w])
  /\ crashed \subseteq Worker
  /\ ran \subseteq [worker : Worker, task : Task, success : BOOLEAN]

ThreadTypes == threads \subseteq Thread /\ \A th \in threads : th.at <= Len(log)

ClientTypes ==
  /\ client \in [Client -> ClientState] /\ \A c \in Client : client[c].at <= Len(log)
  /\ lossy \in BOOLEAN

TypeInv == LogTypes /\ IndexTypes /\ TableTypes /\ WorkerTypes /\ ThreadTypes /\ ClientTypes

LEMMA TypeInvIsTypeOK == TypeInv => PipelineTypeOK
<1> SUFFICES ASSUME TypeInv PROVE PipelineTypeOK
  OBVIOUS
<1>1. \A i \in Master : applied[i] \in commit_index[i]..applyEnd[i]
  BY DEF TypeInv, IndexTypes
<1>2. Len(log) \in Nat
  BY LenProperties DEF TypeInv, LogTypes
<1>3. \A th \in threads : th.at \in 0..Len(log)
  BY <1>2 DEF TypeInv, ThreadTypes, Thread
<1>4. \A c \in Client : client[c].at \in 0..Len(log)
  BY <1>2 DEF TypeInv, ClientTypes, ClientState
<1> QED
  BY <1>1, <1>3, <1>4
  DEF TypeInv, LogTypes, IndexTypes, TableTypes, WorkerTypes, ThreadTypes, ClientTypes, PipelineTypeOK

LEMMA MasterNumbers ==
  /\ RaftSize \in Nat /\ Leader \in Master /\ 1 \in Master
  /\ \A i \in Master : i \in Nat /\ (i < RaftSize => i + 1 \in Master)
  BY LeaderAssumption DEF Master

LEMMA InitTypeInv == Init => TypeInv
<1> SUFFICES ASSUME Init PROVE TypeInv
  OBVIOUS
<1>1. LogTypes
  BY EmptySeq DEF Init, LogTypes, Round, NoRound
<1>2. IndexTypes
  BY MasterNumbers DEF Init, IndexTypes, NoRound
<1>3. TableTypes
  BY DEF Init, TableTypes, Call, Schedule, NewSchedule
<1>4. WorkerTypes
  BY FS_EmptySet DEF Init, WorkerTypes
<1>5. ThreadTypes /\ ClientTypes
  <2>1. lossy \in BOOLEAN
    BY LossAssumption DEF Init
  <2>2. client \in [Client -> ClientState] /\ \A c \in Client : client[c].at <= Len(log)
    BY MasterNumbers, EmptySeq DEF Init, ClientState
  <2> QED
    BY <2>1, <2>2 DEF Init, ThreadTypes, ClientTypes
<1> QED
  BY <1>1, <1>2, <1>3, <1>4, <1>5 DEF TypeInv

(* A part whose variables a step leaves alone keeps its type.              *)
LEMMA TypeFrames ==
  ASSUME TypeInv
  PROVE  /\ UNCHANGED <<log, logSize, round>> => LogTypes'
         /\ UNCHANGED <<held, commit_index, applyEnd, applied, logSize, round>> => IndexTypes'
         /\ UNCHANGED <<status, schedule, calling>> => TableTypes'
         /\ UNCHANGED <<workerUp, running_task_ids, crashed, ran>> => WorkerTypes'
         /\ UNCHANGED <<log, threads>> => ThreadTypes'
         /\ UNCHANGED <<log, client, lossy>> => ClientTypes'
<1> USE DEF TypeInv
<1>1. UNCHANGED <<log, logSize, round>> => LogTypes'
  BY DEF LogTypes
<1>2. UNCHANGED <<held, commit_index, applyEnd, applied, logSize, round>> => IndexTypes'
  BY DEF IndexTypes
<1>3. UNCHANGED <<status, schedule, calling>> => TableTypes'
  BY DEF TableTypes
<1>4. UNCHANGED <<workerUp, running_task_ids, crashed, ran>> => WorkerTypes'
  BY DEF WorkerTypes
<1>5. UNCHANGED <<log, threads>> => ThreadTypes'
  BY DEF ThreadTypes
<1>6. UNCHANGED <<log, client, lossy>> => ClientTypes'
  BY DEF ClientTypes
<1> QED
  BY <1>1, <1>2, <1>3, <1>4, <1>5, <1>6

(* One more entry: of a task's submission, the next index is the task.     *)
LEMMA AppendTypes ==
  ASSUME TypeInv, NEW e \in Entry, e.kind = "submit" => Len(log) \in Task,
         log' = Append(log, e), UNCHANGED <<logSize, round>>
  PROVE  /\ LogTypes'
         /\ UNCHANGED threads => ThreadTypes'
         /\ UNCHANGED <<client, lossy>> => ClientTypes'
<1> USE LogGrows DEF TypeInv
<1>1. LogTypes'
  <2>1. log' \in Seq(Entry) /\ logSize' \in 0..Len(log') /\ round' \in Round
    BY DEF LogTypes
  <2>2. ASSUME NEW k \in 1..Len(log'), log'[k].kind = "submit" PROVE k - 1 \in Task
    <3>1. CASE k \in 1..Len(log)
      BY <2>2, <3>1 DEF LogTypes
    <3>2. CASE k = Len(log) + 1
      BY <2>2, <3>2 DEF LogTypes
    <3> QED
      BY <3>1, <3>2 DEF LogTypes
  <2> QED
    BY <2>1, <2>2 DEF LogTypes
<1>2. UNCHANGED threads => ThreadTypes'
  BY DEF LogTypes, ThreadTypes, Thread
<1>3. UNCHANGED <<client, lossy>> => ClientTypes'
  BY DEF LogTypes, ClientTypes, ClientState
<1> QED
  BY <1>1, <1>2, <1>3

(* What a declined caller turns into.                                      *)
LEMMA DeclinedTypes ==
  /\ \A x \in ClientState : Declined(x) \in ClientState /\ Declined(x).at = 0
  /\ \A x \in Thread : x.master < RaftSize => AsksNext(x) \in Thread /\ AsksNext(x).at = 0
<1>1. ASSUME NEW x \in ClientState PROVE Declined(x) \in ClientState /\ Declined(x).at = 0
  BY MasterNumbers DEF Declined, AsksNext, ClientState
<1>2. ASSUME NEW x \in Thread, x.master < RaftSize PROVE AsksNext(x) \in Thread /\ AsksNext(x).at = 0
  BY <1>2, MasterNumbers DEF AsksNext, Thread
<1> QED
  BY <1>1, <1>2

LEMMA RefusingTypes ==
  ASSUME TypeInv, NEW S, S \subseteq threads, threads' = Refusing(S), UNCHANGED log
  PROVE  ThreadTypes'
<1>1. \A th \in Refusing(S) : th \in Thread /\ th.at <= Len(log)
  BY DeclinedTypes, LenProperties DEF TypeInv, LogTypes, ThreadTypes, Refusing
<1> QED
  BY <1>1 DEF ThreadTypes

(* Requests: clients, the assignment timer, and workers that report.       *)
LEMMA ClientTypeInv ==
  ASSUME TypeInv, NEW c \in Client,
         submitTask(c) \/ handleTaskSubmission(c) \/ SubmitTaskFails(c)
  PROVE  TypeInv'
<1> USE DEF masterVars, logVars, workerVars
<1>1. client[c] \in ClientState /\ DOMAIN client = Client
  BY DEF TypeInv, ClientTypes
<1>2. CASE UNCHANGED log /\ \E x \in ClientState : client' = [client EXCEPT ![c] = x] /\ x.at = 0
  <2>1. ClientTypes'
    BY <1>2, LenProperties DEF TypeInv, LogTypes, ClientTypes, submitTask, handleTaskSubmission, SubmitTaskFails
  <2> QED
    BY <1>2, <2>1, TypeFrames DEF submitTask, handleTaskSubmission, SubmitTaskFails, TypeInv
<1>3. CASE submitTask(c)
  <2> DEFINE x == [state |-> "asking", master |-> 1, at |-> 0]
  <2>1. x \in ClientState /\ x.at = 0
    BY MasterNumbers DEF ClientState
  <2>2. client' = [client EXCEPT ![c] = x] /\ UNCHANGED log
    BY <1>3 DEF submitTask, Put
  <2> QED
    BY <1>2, <2>1, <2>2
<1>4. CASE SubmitTaskFails(c)
  BY <1>1, <1>2, <1>4, DeclinedTypes DEF SubmitTaskFails
<1>5. CASE handleTaskSubmission(c) /\ client[c].master # Leader
  BY <1>1, <1>2, <1>5, DeclinedTypes DEF handleTaskSubmission
<1>6. CASE handleTaskSubmission(c) /\ client[c].master = Leader
  <2>1. /\ Len(log) \in Task /\ log' = Append(log, SubmitTaskLog) /\ UNCHANGED <<logSize, round>>
        /\ client' = [client EXCEPT ![c].at = Len(log) + 1]
    BY <1>6 DEF handleTaskSubmission
  <2>2. LogTypes' /\ (UNCHANGED threads => ThreadTypes')
    BY <2>1, EntriesMade, AppendTypes
  <2>3. Len(log') = Len(log) + 1 /\ Len(log) \in Nat
    BY <2>1, EntriesMade, LogGrows DEF TypeInv, LogTypes
  <2>4. ClientTypes'
    BY <1>6, <2>1, <2>3 DEF TypeInv, ClientTypes, ClientState, handleTaskSubmission
  <2> QED
    BY <1>6, <2>2, <2>4, TypeFrames DEF handleTaskSubmission, TypeInv
<1> QED
  BY <1>3, <1>4, <1>5, <1>6

LEMMA AssignTypeInv == ASSUME TypeInv, taskExecutionPeriodicCallback PROVE TypeInv'
<1>1. PICK a \in getTaskAssignment(schedule[Leader]) : log' = Append(log, AssignTaskLog(a[1], a[2]))
  BY DEF taskExecutionPeriodicCallback
<1>2. schedule[Leader] \in Schedule
  BY MasterNumbers DEF TypeInv, TableTypes
<1>3. a[1] \in Task /\ a[2] \in Worker
  BY <1>2 DEF getTaskAssignment, Schedule
<1>4. AssignTaskLog(a[1], a[2]) \in Entry /\ AssignTaskLog(a[1], a[2]).kind # "submit"
  BY <1>3, EntriesMade DEF AssignTaskLog
<1>5. UNCHANGED <<masterVars, logSize, round, workerVars, clientVars>>
  BY DEF taskExecutionPeriodicCallback
<1>6. LogTypes' /\ ThreadTypes' /\ ClientTypes'
  BY <1>1, <1>4, <1>5, AppendTypes DEF workerVars, clientVars
<1> QED
  BY <1>5, <1>6, TypeFrames DEF TypeInv, masterVars, workerVars, clientVars

LEMMA CompletionTypeInv ==
  ASSUME TypeInv, NEW th \in threads, handleTaskCompletion(th) \/ FinishTaskFails(th)
  PROVE  TypeInv'
<1> USE DEF masterVars, logVars, workerVars, clientVars
<1>1. CASE threads' = Refusing({th}) /\ UNCHANGED log
  <2>1. ThreadTypes'
    BY <1>1, RefusingTypes
  <2> QED
    BY <1>1, <2>1, TypeFrames DEF TypeInv, handleTaskCompletion, FinishTaskFails
<1>2. CASE handleTaskCompletion(th) /\ th.master = Leader
  <2>1. /\ log' = Append(log, FinishTaskLog(th.task, th.success)) /\ UNCHANGED <<logSize, round>>
        /\ threads' = (threads \ {th}) \cup {[th EXCEPT !.at = Len(log) + 1]}
    BY <1>2 DEF handleTaskCompletion
  <2>2. th \in Thread
    BY DEF TypeInv, ThreadTypes
  <2>3. FinishTaskLog(th.task, th.success) \in Entry /\ FinishTaskLog(th.task, th.success).kind # "submit"
    BY <2>2, EntriesMade DEF Thread, FinishTaskLog
  <2>4. LogTypes' /\ (UNCHANGED <<client, lossy>> => ClientTypes')
    BY <2>1, <2>3, AppendTypes
  <2>5. Len(log') = Len(log) + 1 /\ Len(log) \in Nat
    BY <2>1, <2>3, LogGrows DEF TypeInv, LogTypes
  <2>6. ThreadTypes'
    BY <2>1, <2>2, <2>5 DEF TypeInv, ThreadTypes, Thread
  <2> QED
    BY <1>2, <2>4, <2>6, TypeFrames DEF TypeInv, handleTaskCompletion
<1> QED
  BY <1>1, <1>2 DEF handleTaskCompletion, FinishTaskFails, NotLeader

(* Rounds.                                                                 *)
LEMMA RoundStartsTypeInv == ASSUME TypeInv, RoundStarts PROVE TypeInv'
<1>1. Len(log) \in Nat /\ Leader \in Master
  BY LenProperties, MasterNumbers DEF TypeInv, LogTypes
<1>2. LogTypes'
  <2>1. round' \in Round
    BY DEF RoundStarts, Round, NoRound
  <2>2. logSize' \in 0..Len(log') /\ UNCHANGED log
    BY <1>1 DEF RoundStarts, TypeInv, LogTypes
  <2> QED
    BY <2>1, <2>2 DEF TypeInv, LogTypes
<1>3. IndexTypes'
  BY <1>1 DEF RoundStarts, TypeInv, LogTypes, IndexTypes, Put, NoRound
<1> QED
  BY <1>2, <1>3, TypeFrames DEF RoundStarts, TypeInv, workerVars, clientVars

LEMMA RoundAppendsTypeInv ==
  ASSUME TypeInv, NEW j \in Followers, handleAppendEntries(j) \/ AppendFails(j) PROVE TypeInv'
<1>1. j \in Master /\ j # Leader /\ Len(log) \in Nat
  BY LenProperties DEF Followers, TypeInv, LogTypes
<1>2. LogTypes'
  BY <1>1 DEF handleAppendEntries, AppendFails, TypeInv, LogTypes, Round, masterVars, logVars, workerVars, clientVars
<1>3. CASE handleAppendEntries(j)
  <2>1. IndexTypes'
    BY <1>1, <1>3 DEF handleAppendEntries, TypeInv, LogTypes, IndexTypes, Put, Announced, Free, MuxHeld
  <2> QED
    BY <1>2, <1>3, <2>1, TypeFrames DEF handleAppendEntries, TypeInv, workerVars, clientVars
<1>4. CASE AppendFails(j)
  <2>1. round'.busy = round.busy
    BY <1>4 DEF AppendFails, TypeInv, LogTypes, Round
  <2>2. IndexTypes'
    BY <1>4, <2>1 DEF AppendFails, TypeInv, IndexTypes, masterVars
  <2> QED
    BY <1>2, <1>4, <2>2, TypeFrames DEF AppendFails, TypeInv, masterVars, workerVars, clientVars
<1> QED
  BY <1>3, <1>4

LEMMA RoundEndsTypeInv == ASSUME TypeInv, RoundGivesUp \/ RoundSucceeds PROVE TypeInv'
<1> USE DEF masterVars, logVars, workerVars, clientVars
<1>1. round.busy /\ ~round'.busy /\ Leader \in Master /\ ~MuxHeld(Leader) /\ UNCHANGED <<log, logSize, held>>
  BY MasterNumbers DEF RoundGivesUp, RoundSucceeds, RoundOver, NoRound, Free
<1>2. LogTypes'
  <2>1. NoRound \in Round
    BY DEF NoRound, Round
  <2> QED
    BY <1>1, <2>1 DEF RoundGivesUp, RoundSucceeds, TypeInv, LogTypes
<1>3. IndexTypes'
  <2>1. CASE RoundGivesUp
    BY <1>1, <2>1 DEF RoundGivesUp, TypeInv, IndexTypes
  <2>2. CASE RoundSucceeds
    BY <1>1, <2>2, LenProperties DEF RoundSucceeds, TypeInv, LogTypes, IndexTypes, Put, MuxHeld
  <2> QED
    BY <2>1, <2>2
<1>4. ThreadTypes'
  <2>1. CASE RoundGivesUp
    BY <2>1, RefusingTypes DEF RoundGivesUp, Waiting
  <2>2. CASE RoundSucceeds
    BY <2>2 DEF RoundSucceeds, TypeInv, ThreadTypes
  <2> QED
    BY <2>1, <2>2
<1>5. ClientTypes'
  <2>1. \A c \in Client : Unsubmitted(c) \in ClientState /\ Unsubmitted(c).at <= Len(log)
    BY DeclinedTypes, LenProperties DEF Unsubmitted, TypeInv, LogTypes, ClientTypes
  <2>2. \A c \in Client : Submitted(c) \in ClientState /\ Submitted(c).at <= Len(log)
    BY DEF Submitted, TypeInv, ClientTypes, ClientState
  <2> QED
    BY <1>1, <2>1, <2>2 DEF RoundGivesUp, RoundSucceeds, TypeInv, ClientTypes
<1> QED
  BY <1>2, <1>3, <1>4, <1>5, TypeFrames DEF RoundGivesUp, RoundSucceeds, TypeInv

LEMMA HeartbeatTypeInv == ASSUME TypeInv, NEW j \in Followers, Heartbeat(j) PROVE TypeInv'
<1>1. j \in Master /\ Leader \in Master
  BY MasterNumbers DEF Followers
<1>2. IndexTypes'
  BY <1>1 DEF Heartbeat, BeatCommit, MinOf, TypeInv, LogTypes, IndexTypes, Put, Free, MuxHeld, logVars
<1> QED
  BY <1>2, TypeFrames DEF Heartbeat, TypeInv, logVars, workerVars, clientVars

-----------------------------------------------------------------------------
(* The tables keep their types.                                            *)
LEMMA ScheduleTypes ==
  ASSUME NEW s \in Schedule
  PROVE  /\ \A t \in Task : addTask(s, t) \in Schedule
         /\ \A t \in Task, w \in Worker : assignTask(s, t, w) \in Schedule
         /\ \A t \in Task, b \in BOOLEAN : finishTask(s, t, b) \in Schedule
         /\ \A w \in Worker, n \in Nat : workerPing(s, w, n) \in Schedule
         /\ workerTimeoutCallback(s) \in Schedule
<1>1. \A t \in Task : addTask(s, t) \in Schedule
  BY DEF Schedule, addTask
<1>2. \A t \in Task, w \in Worker : assignTask(s, t, w) \in Schedule
  BY DEF Schedule, assignTask
<1>3. \A t \in Task, b \in BOOLEAN : finishTask(s, t, b) \in Schedule
  BY DEF Schedule, finishTask, OutcomeOf, Outcome
<1>4. \A w \in Worker, n \in Nat : workerPing(s, w, n) \in Schedule
  BY DEF Schedule, workerPing
<1>5. workerTimeoutCallback(s) \in Schedule
  BY DEF Schedule, workerTimeoutCallback
<1> QED
  BY <1>1, <1>2, <1>3, <1>4, <1>5

(* The entry a master applies next is in the log, and typed.               *)
LEMMA NextEntry ==
  ASSUME TypeInv, NEW i \in Master, applied[i] < applyEnd[i]
  PROVE  /\ applied[i] \in Nat /\ applied[i] + 1 \in 1..Len(log)
         /\ log[applied[i] + 1] \in Entry
         /\ log[applied[i] + 1].kind = "submit" => applied[i] \in Task
<1>1. applied[i] \in Nat /\ applied[i] + 1 \in 1..Len(log)
  BY LenProperties DEF TypeInv, LogTypes, IndexTypes
<1>2. log[applied[i] + 1] \in Entry
  BY <1>1, ElementOfSeq DEF TypeInv, LogTypes
<1>3. log[applied[i] + 1].kind = "submit" => (applied[i] + 1) - 1 \in Task
  BY <1>1 DEF TypeInv, LogTypes
<1> QED
  BY <1>1, <1>2, <1>3

LEMMA ApplyTypeInv ==
  ASSUME TypeInv, NEW i \in Master, ApplySubmit(i) \/ ApplyAssign(i) \/ ApplyFinish(i)
  PROVE  TypeInv'
<1> DEFINE e == log[applied[i] + 1]
<1>1. applied[i] < applyEnd[i] /\ schedule[i] \in Schedule /\ calling[i] = NoCall
  BY DEF ApplySubmit, ApplyAssign, ApplyFinish, NextApplied, TypeInv, TableTypes
<1>2. applied[i] \in Nat /\ e \in Entry /\ (e.kind = "submit" => applied[i] \in Task)
  BY <1>1, NextEntry
<1> HIDE DEF e
<1>3. UNCHANGED <<held, commit_index, applyEnd, logVars, workerVars, clientVars>>
  BY DEF ApplySubmit, ApplyAssign, ApplyFinish
<1>4. CASE UNCHANGED <<applied, schedule, calling>> /\ status' = Put(status, i, "assert_finish")
  <2>1. TableTypes'
    BY <1>4 DEF TypeInv, TableTypes, Put
  <2> QED
    BY <1>3, <1>4, <2>1, TypeFrames DEF TypeInv, logVars, workerVars, clientVars
<1>5. ASSUME NEW s \in Schedule, Apply(i, s), UNCHANGED status,
             UNCHANGED calling \/ \E t \in Task, w \in Worker :
               calling' = Put(calling, i, [task |-> t, worker |-> w, sent |-> FALSE])
      PROVE  TypeInv'
  <2>1. IndexTypes'
    BY <1>1, <1>2, <1>3, <1>5 DEF TypeInv, IndexTypes, Apply, logVars
  <2>2. calling' \in [Master -> Call]
    <3>1. \A t \in Task, w \in Worker : [task |-> t, worker |-> w, sent |-> FALSE] \in Call
      BY DEF Call
    <3>2. calling \in [Master -> Call]
      BY DEF TypeInv, TableTypes
    <3> QED
      BY <1>5, <3>1, <3>2 DEF Put
  <2>3. TableTypes'
    BY <1>5, <2>2 DEF TypeInv, TableTypes, Apply, Put
  <2> QED
    BY <1>3, <2>1, <2>3, TypeFrames DEF TypeInv, logVars, workerVars, clientVars
<1>6. CASE ApplySubmit(i)
  <2>1. addTask(schedule[i], applied[i]) \in Schedule
    BY <1>1, <1>2, <1>6, ScheduleTypes DEF ApplySubmit, NextApplied, e
  <2> QED
    BY <1>5, <1>6, <2>1 DEF ApplySubmit
<1>7. CASE ApplyAssign(i)
  <2>1. e.task \in Task /\ e.worker \in Worker
    BY <1>2, <1>7, EntryShapes DEF ApplyAssign, NextApplied, e
  <2>2. assignTask(schedule[i], e.task, e.worker) \in Schedule
    BY <1>1, <2>1, ScheduleTypes
  <2> QED
    BY <1>1, <1>5, <1>7, <2>1, <2>2 DEF ApplyAssign, e
<1>8. CASE ApplyFinish(i)
  <2>1. e.task \in Task /\ e.success \in BOOLEAN
    BY <1>2, <1>8, EntryShapes DEF ApplyFinish, NextApplied, e
  <2>2. finishTask(schedule[i], e.task, e.success) \in Schedule
    BY <1>1, <2>1, ScheduleTypes
  <2> QED
    BY <1>1, <1>4, <1>5, <1>8, <2>1, <2>2 DEF ApplyFinish, e
<1> QED
  BY <1>6, <1>7, <1>8

LEMMA CommitEndsTypeInv == ASSUME TypeInv, NEW i \in Master, commitUpToEnds(i) PROVE TypeInv'
<1>1. IndexTypes'
  BY DEF commitUpToEnds, TypeInv, IndexTypes, Put, logVars
<1> QED
  BY <1>1, TypeFrames DEF commitUpToEnds, TypeInv, logVars, workerVars, clientVars

(* Workers.                                                                *)
LEMMA ExecuteTypeInv ==
  ASSUME TypeInv, NEW i \in Master, ExecuteTask(i) \/ ExecuteTaskReturns(i) PROVE TypeInv'
<1> USE DEF logVars, workerVars, clientVars
<1>1. calling[i] \in [task : Task, worker : Worker, sent : BOOLEAN]
  BY DEF ExecuteTask, ExecuteTaskReturns, TypeInv, TableTypes, Call
<1>2. CASE ExecuteTask(i)
  <2>1. TableTypes'
    BY <1>1, <1>2 DEF ExecuteTask, TypeInv, TableTypes, Call
  <2> DEFINE new == [worker |-> calling[i].worker, task |-> calling[i].task, from |-> i,
                     state |-> "new", success |-> FALSE, master |-> 1, at |-> 0]
  <2>2. new \in Thread /\ new.at = 0 /\ threads' = threads \cup {new} /\ UNCHANGED log
    BY <1>1, <1>2, MasterNumbers DEF Thread, ExecuteTask
  <2>3. 0 <= Len(log)
    BY LenProperties DEF TypeInv, LogTypes
  <2> HIDE DEF new
  <2>4. ThreadTypes'
    BY <2>2, <2>3 DEF TypeInv, ThreadTypes
  <2> QED
    BY <1>2, <2>1, <2>4, TypeFrames DEF ExecuteTask, TypeInv
<1>3. CASE ExecuteTaskReturns(i)
  <2>1. TableTypes'
    BY <1>3 DEF ExecuteTaskReturns, TypeInv, TableTypes, Call, Put
  <2> QED
    BY <1>3, <2>1, TypeFrames DEF ExecuteTaskReturns, TypeInv
<1> QED
  BY <1>2, <1>3

LEMMA ExecutorTypeInv ==
  ASSUME TypeInv, NEW th \in threads, taskExecutorStarts(th) \/ taskExecutorEnds(th)
  PROVE  TypeInv'
<1> USE DEF masterVars, logVars, clientVars
<1>1. th \in Thread /\ th.worker \in Worker /\ th.task \in Task
  BY DEF TypeInv, ThreadTypes, Thread
<1>2. ThreadTypes'
  <2>1. CASE taskExecutorStarts(th)
    BY <1>1, <2>1 DEF taskExecutorStarts, Duplicate, TypeInv, ThreadTypes, Thread
  <2>2. CASE taskExecutorEnds(th)
    <3> DEFINE asking(success) == [th EXCEPT !.state = "asking", !.success = success]
    <3>1. \A success \in BOOLEAN : asking(success) \in Thread /\ asking(success).at = th.at
      BY <1>1 DEF Thread
    <3>2. threads \subseteq Thread /\ \A x \in threads : x.at <= Len(log)
      BY DEF TypeInv, ThreadTypes
    <3>3. PICK success \in BOOLEAN : threads' = (threads \ {th}) \cup {asking(success)}
      BY <2>2 DEF taskExecutorEnds
    <3>4. UNCHANGED log
      BY <2>2 DEF taskExecutorEnds
    <3> HIDE DEF asking
    <3> QED
      BY <3>1, <3>2, <3>3, <3>4 DEF ThreadTypes
  <2> QED
    BY <2>1, <2>2
<1>3. \A w \in Worker : running_task_ids'[w] \in SUBSET Task /\ IsFiniteSet(running_task_ids'[w])
  <2> TAKE w \in Worker
  <2>1. running_task_ids[w] \in SUBSET Task /\ IsFiniteSet(running_task_ids[w])
    BY DEF TypeInv, WorkerTypes
  <2>2. /\ IsFiniteSet(running_task_ids[w] \cup {th.task})
        /\ IsFiniteSet(running_task_ids[w] \ {th.task})
    BY <2>1, FS_AddElement, FS_RemoveElement
  <2>3. running_task_ids'[w] \in {running_task_ids[w], running_task_ids[w] \cup {th.task},
                                 running_task_ids[w] \ {th.task}}
    BY DEF taskExecutorStarts, taskExecutorEnds, TypeInv, WorkerTypes
  <2> QED
    BY <1>1, <2>1, <2>2, <2>3
<1>4. WorkerTypes'
  <2>1. running_task_ids' \in [Worker -> SUBSET Task]
    BY <1>3 DEF taskExecutorStarts, taskExecutorEnds, TypeInv, WorkerTypes
  <2>2. UNCHANGED <<workerUp, crashed>>
    BY DEF taskExecutorStarts, taskExecutorEnds
  <2>3. ran' \subseteq [worker : Worker, task : Task, success : BOOLEAN]
    <3>1. \A b \in BOOLEAN : [worker |-> th.worker, task |-> th.task, success |-> b]
                               \in [worker : Worker, task : Task, success : BOOLEAN]
      BY <1>1
    <3>2. ran' = ran \/ \E b \in BOOLEAN :
            ran' = ran \cup {[worker |-> th.worker, task |-> th.task, success |-> b]}
      BY DEF taskExecutorStarts, taskExecutorEnds
    <3> QED
      BY <3>1, <3>2 DEF TypeInv, WorkerTypes
  <2> QED
    BY <1>3, <2>1, <2>2, <2>3 DEF TypeInv, WorkerTypes
<1> QED
  BY <1>2, <1>4, TypeFrames DEF taskExecutorStarts, taskExecutorEnds, TypeInv

LEMMA PingTypeInv ==
  ASSUME TypeInv, WorkerTimeout \/ \E w \in Worker : handlePing(w) PROVE TypeInv'
<1>1. schedule[Leader] \in Schedule
  BY MasterNumbers DEF TypeInv, TableTypes
<1>2. \A w \in Worker : Cardinality(running_task_ids[w]) \in Nat
  BY FS_CardinalityType DEF TypeInv, WorkerTypes
<1>3. TableTypes'
  <2>1. \E s \in Schedule : schedule' = [schedule EXCEPT ![Leader] = s]
    BY <1>1, <1>2, ScheduleTypes DEF WorkerTimeout, handlePing
  <2>2. UNCHANGED <<status, calling>>
    BY DEF WorkerTimeout, handlePing
  <2> QED
    BY <2>1, <2>2 DEF TypeInv, TableTypes
<1> QED
  BY <1>3, TypeFrames DEF WorkerTimeout, handlePing, TypeInv, logVars, workerVars, clientVars

LEMMA FaultTypeInv ==
  ASSUME TypeInv,
         (\E w \in Worker : WorkerCrash(w) \/ WorkerRestart(w)) \/ \E i \in Master : MasterCrash(i)
  PROVE  TypeInv'
<1> USE DEF masterVars, logVars, workerVars, clientVars
<1>1. ASSUME NEW w \in Worker, WorkerCrash(w) \/ WorkerRestart(w) PROVE TypeInv'
  <2>1. WorkerTypes' /\ ThreadTypes'
    BY <1>1, FS_EmptySet DEF WorkerCrash, WorkerRestart, TypeInv, WorkerTypes, ThreadTypes, Put
  <2> QED
    BY <1>1, <2>1, TypeFrames DEF WorkerCrash, WorkerRestart, TypeInv
<1>2. ASSUME NEW i \in Master, MasterCrash(i) PROVE TypeInv'
  <2>1. TableTypes'
    BY <1>2 DEF MasterCrash, TypeInv, TableTypes, Put
  <2> QED
    BY <1>2, <2>1, TypeFrames DEF MasterCrash, TypeInv
<1> QED
  BY <1>1, <1>2

LEMMA NextTypeInv == TypeInv /\ [Next]_vars => TypeInv'
<1> SUFFICES ASSUME TypeInv, [Next]_vars PROVE TypeInv'
  OBVIOUS
<1>1. ASSUME NEW c \in Client, submitTask(c) \/ SubmitTask(c) PROVE TypeInv'
  BY <1>1, ClientTypeInv DEF SubmitTask
<1>2. CASE syncWorker
  BY <1>2, RoundStartsTypeInv, RoundEndsTypeInv DEF syncWorker
<1>3. ASSUME NEW j \in Followers, AppendRpc(j) \/ Heartbeat(j) PROVE TypeInv'
  BY <1>3, RoundAppendsTypeInv, HeartbeatTypeInv DEF AppendRpc
<1>4. ASSUME NEW i \in Master, commitUpTo(i) \/ ExecuteTaskRpc(i) PROVE TypeInv'
  BY <1>4, ApplyTypeInv, CommitEndsTypeInv, ExecuteTypeInv DEF commitUpTo, ExecuteTaskRpc
<1>5. ASSUME NEW th \in threads, taskExecutor(th) PROVE TypeInv'
  BY <1>5, ExecutorTypeInv, CompletionTypeInv DEF taskExecutor
<1>6. CASE UNCHANGED vars
  BY <1>6, TypeFrames DEF vars, masterVars, logVars, workerVars, clientVars, TypeInv
<1> QED
  BY <1>1, <1>2, <1>3, <1>4, <1>5, <1>6, AssignTypeInv, PingTypeInv, FaultTypeInv DEF Next

LEMMA TypeInvariant == Spec => []TypeInv
  BY InitTypeInv, NextTypeInv, PTL DEF Spec

(* Every position in the log, of rounds, masters, threads and clients, and *)
(* every table of every process stays in its range.                        *)
THEOREM PipelineTypes == Spec => []PipelineTypeOK
  BY TypeInvariant, TypeInvIsTypeOK, PTL

-----------------------------------------------------------------------------
(* The tables of a replica and the part of the log it applied.  They are   *)
(* not said to be a function of each other; what is said is enough to      *)
(* compare two replicas.                                                   *)
IsAssignOf(e, t) == e.kind = "assign" /\ e.task = t
IsFinishOf(e, t) == e.kind = "finish" /\ e.task = t

OneTable(i, t) ==
  /\ t \in schedule[i].pending => ~IsRunning(schedule[i], t)
  /\ t \in schedule[i].pending \/ IsRunning(schedule[i], t) => schedule[i].finished[t] = "none"

Known(s, t) == t \in s.pending \/ IsRunning(s, t) \/ s.finished[t] # "none"
KnownIffSubmitted(i, t) ==
  Known(schedule[i], t) <=> t < applied[i] /\ log[t + 1].kind = "submit"

PendingUnassigned(i, t) ==
  t \in schedule[i].pending => \A k \in 1..applied[i] : ~IsAssignOf(log[k], t)

(* All completions of t that were applied say the same, and its outcome is *)
(* what they say.                                                          *)
OutcomeLogged(i, t) ==
  /\ \A k \in 1..applied[i] :
       IsFinishOf(log[k], t) => schedule[i].finished[t] = OutcomeOf(log[k].success)
  /\ schedule[i].finished[t] # "none" =>
       \E k \in 1..applied[i] :
         IsFinishOf(log[k], t) /\ schedule[i].finished[t] = OutcomeOf(log[k].success)

TableInv(i, t) ==
  OneTable(i, t) /\ KnownIffSubmitted(i, t) /\ PendingUnassigned(i, t) /\ OutcomeLogged(i, t)

(* A task is assigned only after its own entry.                            *)
AssignedLater == \A k \in 1..Len(log) : log[k].kind = "assign" => log[k].task + 1 < k

TablesInv == AssignedLater /\ \A i \in Master, t \in Task : TableInv(i, t)

(* Three steps write to the log.                                           *)
LEMMA LogWriters ==
  ASSUME [Next]_vars
  PROVE  \/ UNCHANGED log
         \/ \E c \in Client : handleTaskSubmission(c)
         \/ taskExecutionPeriodicCallback
         \/ \E th \in threads : handleTaskCompletion(th)
  BY DEF Next, vars, logVars, submitTask, SubmitTask, SubmitTaskFails, syncWorker, RoundStarts,
         RoundGivesUp, RoundSucceeds, AppendRpc, handleAppendEntries, AppendFails, Heartbeat,
         commitUpTo, ApplySubmit, ApplyAssign, ApplyFinish, commitUpToEnds, ExecuteTaskRpc,
         ExecuteTask, ExecuteTaskReturns, MasterCrash, taskExecutor, taskExecutorStarts,
         taskExecutorEnds, FinishTaskFails, handlePing, WorkerCrash, WorkerRestart, WorkerTimeout

(* No step changes an entry of the log: it only grows.                     *)
LEMMA LogExtended ==
  ASSUME TypeInv, [Next]_vars
  PROVE  Len(log) \in Nat /\ Len(log) <= Len(log') /\ \A k \in 1..Len(log) : log'[k] = log[k]
<1>1. Len(log) \in Nat
  BY LenProperties DEF TypeInv, LogTypes
<1>2. ASSUME NEW e \in Entry, log' = Append(log, e)
      PROVE  Len(log) <= Len(log') /\ \A k \in 1..Len(log) : log'[k] = log[k]
  BY <1>1, <1>2, LogGrows DEF TypeInv, LogTypes
<1>3. CASE UNCHANGED log
  BY <1>1, <1>3
<1>4. ASSUME NEW c \in Client, handleTaskSubmission(c)
      PROVE  UNCHANGED log \/ \E e \in Entry : log' = Append(log, e)
  BY <1>4, EntriesMade DEF handleTaskSubmission
<1>5. CASE taskExecutionPeriodicCallback
  <2>1. schedule[Leader] \in Schedule
    BY MasterNumbers DEF TypeInv, TableTypes
  <2> QED
    BY <1>2, <1>5, <2>1, EntriesMade, <1>1 DEF taskExecutionPeriodicCallback, getTaskAssignment, Schedule
<1>6. ASSUME NEW th \in threads, handleTaskCompletion(th)
      PROVE  UNCHANGED log \/ \E e \in Entry : log' = Append(log, e)
  BY <1>6, EntriesMade DEF handleTaskCompletion, TypeInv, ThreadTypes, Thread
<1> QED
  BY <1>1, <1>2, <1>3, <1>4, <1>5, <1>6, LogWriters

(* What a replica knows of tasks, without what it knows of workers.        *)
SameTables(s, r) == s.pending = r.pending /\ s.running = r.running /\ s.finished = r.finished
Applies(i) == ApplySubmit(i) \/ ApplyAssign(i) \/ ApplyFinish(i)

(* Only applyLog touches the tables.                                       *)
LEMMA TablesChangeByApplying ==
  ASSUME TypeInv, [Next]_vars, \A i \in Master : ~Applies(i)
  PROVE  applied' = applied /\ \A i \in Master : SameTables(schedule'[i], schedule[i])
<1>1. \/ UNCHANGED <<applied, schedule>>
      \/ \E w \in Worker : handlePing(w)
      \/ WorkerTimeout
  BY DEF Applies, Next, vars, masterVars, submitTask, SubmitTask, handleTaskSubmission,
         SubmitTaskFails, taskExecutionPeriodicCallback, syncWorker, RoundStarts,
         RoundGivesUp, RoundSucceeds, AppendRpc, handleAppendEntries, AppendFails, Heartbeat,
         commitUpTo, commitUpToEnds, ExecuteTaskRpc, ExecuteTask, ExecuteTaskReturns, MasterCrash,
         taskExecutor, taskExecutorStarts, taskExecutorEnds, handleTaskCompletion, FinishTaskFails,
         WorkerCrash, WorkerRestart
<1>2. CASE UNCHANGED <<applied, schedule>>
  BY <1>2 DEF SameTables
<1>3. ASSUME NEW s, schedule' = [schedule EXCEPT ![Leader] = s], SameTables(s, schedule[Leader])
      PROVE  \A i \in Master : SameTables(schedule'[i], schedule[i])
  BY <1>3 DEF SameTables, TypeInv, TableTypes
<1>4. schedule[Leader] \in Schedule
  BY MasterNumbers DEF TypeInv, TableTypes
<1>5. ASSUME NEW w \in Worker, handlePing(w)
      PROVE  applied' = applied /\ \A i \in Master : SameTables(schedule'[i], schedule[i])
  <2>1. \A n : SameTables(workerPing(schedule[Leader], w, n), schedule[Leader])
    BY <1>4 DEF workerPing, SameTables, Schedule
  <2> QED
    BY <1>3, <1>5, <2>1 DEF handlePing
<1>6. CASE WorkerTimeout
  <2>1. SameTables(workerTimeoutCallback(schedule[Leader]), schedule[Leader])
    BY <1>4 DEF workerTimeoutCallback, SameTables, Schedule
  <2> QED
    BY <1>3, <1>6, <2>1 DEF WorkerTimeout
<1> QED
  BY <1>1, <1>2, <1>5, <1>6

(* applyLog of one entry changes the tables of one replica.                *)
LEMMA ApplyChangesOne ==
  ASSUME TypeInv, NEW i \in Master, NEW s, Apply(i, s)
  PROVE  /\ \A j \in Master \ {i} : schedule'[j] = schedule[j] /\ applied'[j] = applied[j]
         /\ schedule'[i] = s /\ applied'[i] = applied[i] + 1
  BY DEF Apply, Put, TypeInv, TableTypes, IndexTypes

LEMMA TableInvKept ==
  ASSUME TypeInv, [Next]_vars, NEW i \in Master, NEW t \in Task, TableInv(i, t),
         applied'[i] = applied[i], SameTables(schedule'[i], schedule[i])
  PROVE  TableInv(i, t)'
<1>1. \A k \in 1..applied[i] : log'[k] = log[k]
  BY LogExtended DEF TypeInv, LogTypes, IndexTypes
<1>2. t \in Nat
  BY TaskAssumption
<1>3. applied[i] \in Nat
  BY DEF TypeInv, IndexTypes
<1>4. t < applied[i] => log'[t + 1] = log[t + 1]
  BY <1>1, <1>2, <1>3
<1> USE DEF TableInv, SameTables, IsRunning
<1>5. OneTable(i, t)'
  BY DEF OneTable
<1>6. KnownIffSubmitted(i, t)'
  BY <1>4 DEF KnownIffSubmitted, Known
<1>7. PendingUnassigned(i, t)'
  BY <1>1 DEF PendingUnassigned, IsAssignOf
<1>8. OutcomeLogged(i, t)'
  BY <1>1 DEF OutcomeLogged, IsFinishOf
<1> QED
  BY <1>5, <1>6, <1>7, <1>8

LEMMA SubmitTables ==
  ASSUME TypeInv, TablesInv, NEW i \in Master, ApplySubmit(i), NEW t \in Task
  PROVE  TableInv(i, t)'
<1> DEFINE n == applied[i]
           old == schedule[i]
<1>1. /\ log[n + 1].kind = "submit" /\ n < applyEnd[i] /\ UNCHANGED log
      /\ Apply(i, addTask(old, n))
  BY DEF ApplySubmit, NextApplied, logVars
<1>2. n \in Task /\ n \in Nat /\ n + 1 \in 1..Len(log) /\ t \in Nat
  BY <1>1, NextEntry, TaskAssumption
<1>3. schedule'[i] = addTask(old, n) /\ applied'[i] = n + 1 /\ old \in Schedule
  BY <1>1, ApplyChangesOne DEF TypeInv, TableTypes
<1>4. /\ schedule'[i].pending = old.pending \cup {n}
      /\ schedule'[i].running = old.running /\ schedule'[i].finished = old.finished
  BY <1>3 DEF addTask, Schedule
<1>5. TableInv(i, t) /\ TableInv(i, n)
  BY <1>2 DEF TablesInv
<1>6. ~Known(old, n)
  BY <1>2, <1>5 DEF TableInv, KnownIffSubmitted
<1>7. OneTable(i, t)'
  BY <1>4, <1>5, <1>6 DEF TableInv, OneTable, Known, IsRunning
<1>8. KnownIffSubmitted(i, t)'
  BY <1>1, <1>2, <1>3, <1>4, <1>5 DEF TableInv, KnownIffSubmitted, Known, IsRunning
<1>9. PendingUnassigned(i, t)'
  <2>1. \A k \in 1..(n + 1) : t = n => ~IsAssignOf(log[k], t)
    BY <1>1, <1>2 DEF TablesInv, AssignedLater, IsAssignOf
  <2>2. \A k \in 1..(n + 1) : t \in old.pending => ~IsAssignOf(log[k], t)
    BY <1>1, <1>2, <1>5 DEF TableInv, PendingUnassigned, IsAssignOf
  <2> QED
    BY <1>1, <1>3, <1>4, <2>1, <2>2 DEF PendingUnassigned, IsAssignOf
<1>10. OutcomeLogged(i, t)'
  BY <1>1, <1>2, <1>3, <1>4, <1>5 DEF TableInv, OutcomeLogged, IsFinishOf
<1> QED
  BY <1>7, <1>8, <1>9, <1>10 DEF TableInv

LEMMA AssignTables ==
  ASSUME TypeInv, TablesInv, NEW i \in Master, ApplyAssign(i), NEW t \in Task
  PROVE  TableInv(i, t)'
<1> DEFINE n == applied[i]
           e == log[n + 1]
           old == schedule[i]
<1>1. e.kind = "assign" /\ n < applyEnd[i] /\ UNCHANGED log
  BY DEF ApplyAssign, NextApplied, logVars
<1>2. n \in Nat /\ e \in Entry /\ t \in Nat /\ old \in Schedule
  BY <1>1, NextEntry, TaskAssumption DEF TypeInv, TableTypes
<1>3. e.task \in Task /\ e.worker \in Worker /\ e.worker # None
  BY <1>1, <1>2, EntryShapes, WorkerAssumption
<1>4. TableInv(i, t) /\ TableInv(i, e.task)
  BY <1>3 DEF TablesInv
<1>5. t < n + 1 /\ log[t + 1].kind = "submit" <=> t < n /\ log[t + 1].kind = "submit"
  BY <1>1, <1>2
<1> HIDE DEF e
<1>6. CASE ~IsPending(old, e.task)
  <2>1. schedule'[i] = old /\ applied'[i] = n + 1
    BY <1>6, ApplyChangesOne DEF ApplyAssign, e
  <2>2. OneTable(i, t)'
    BY <1>4, <2>1 DEF TableInv, OneTable, IsRunning
  <2>3. KnownIffSubmitted(i, t)'
    BY <1>1, <1>4, <1>5, <2>1 DEF TableInv, KnownIffSubmitted, Known, IsRunning
  <2>4. PendingUnassigned(i, t)'
    BY <1>1, <1>2, <1>4, <1>6, <2>1 DEF TableInv, PendingUnassigned, IsPending, IsAssignOf, e
  <2>5. OutcomeLogged(i, t)'
    BY <1>1, <1>2, <1>4, <2>1 DEF TableInv, OutcomeLogged, IsFinishOf, e
  <2> QED
    BY <2>2, <2>3, <2>4, <2>5 DEF TableInv
<1>7. CASE IsPending(old, e.task)
  <2>1. schedule'[i] = assignTask(old, e.task, e.worker) /\ applied'[i] = n + 1
    BY <1>7, ApplyChangesOne DEF ApplyAssign, e
  <2>2. /\ schedule'[i].pending = old.pending \ {e.task}
        /\ schedule'[i].running = [old.running EXCEPT ![e.task] = e.worker]
        /\ schedule'[i].finished = old.finished
    BY <1>2, <2>1 DEF assignTask, Schedule
  <2>3. /\ e.task \in old.pending /\ IsRunning(schedule'[i], e.task)
        /\ t # e.task => IsRunning(schedule'[i], t) = IsRunning(old, t)
    BY <1>2, <1>3, <1>7, <2>2 DEF IsPending, IsRunning, Schedule
  <2>4. OneTable(i, t)'
    BY <1>4, <2>2, <2>3 DEF TableInv, OneTable, IsRunning
  <2>5. KnownIffSubmitted(i, t)'
    BY <1>1, <1>4, <1>5, <2>1, <2>2, <2>3 DEF TableInv, KnownIffSubmitted, Known, IsRunning
  <2>6. PendingUnassigned(i, t)'
    BY <1>1, <1>2, <1>4, <2>1, <2>2 DEF TableInv, PendingUnassigned, IsAssignOf, e
  <2>7. \A k \in 1..(n + 1) : IsFinishOf(log'[k], t) => k \in 1..n /\ log'[k] = log[k]
    BY <1>1, <1>2 DEF IsFinishOf, e
  <2>8. \A k \in 1..n : k \in 1..(n + 1) /\ log'[k] = log[k]
    BY <1>1, <1>2
  <2>9. OutcomeLogged(i, t)
    BY <1>4 DEF TableInv
  <2>10. OutcomeLogged(i, t)'
    BY <2>1, <2>2, <2>7, <2>8, <2>9 DEF OutcomeLogged, IsFinishOf
  <2> QED
    BY <2>4, <2>5, <2>6, <2>10 DEF TableInv
<1> QED
  BY <1>6, <1>7

LEMMA FinishTables ==
  ASSUME TypeInv, TablesInv, NEW i \in Master, ApplyFinish(i),
         CanFinish(schedule[i], log[applied[i] + 1].task), NEW t \in Task
  PROVE  TableInv(i, t)'
<1> DEFINE n == applied[i]
           e == log[n + 1]
           old == schedule[i]
<1>1. /\ e.kind = "finish" /\ n < applyEnd[i] /\ UNCHANGED log
      /\ Apply(i, finishTask(old, e.task, e.success))
  BY DEF ApplyFinish, NextApplied, logVars
<1>2. n \in Nat /\ e \in Entry /\ t \in Nat /\ old \in Schedule
  BY <1>1, NextEntry, TaskAssumption DEF TypeInv, TableTypes
<1>3. e.task \in Task /\ e.success \in BOOLEAN
  BY <1>1, <1>2, EntryShapes
<1>4. TableInv(i, t) /\ TableInv(i, e.task)
  BY <1>3 DEF TablesInv
<1>5. t < n + 1 /\ log[t + 1].kind = "submit" <=> t < n /\ log[t + 1].kind = "submit"
  BY <1>1, <1>2
<1>6. schedule'[i] = finishTask(old, e.task, e.success) /\ applied'[i] = n + 1
  BY <1>1, ApplyChangesOne
<1>7. IsRunning(old, e.task)
  BY DEF CanFinish
<1> HIDE DEF e
<1>8. /\ schedule'[i].pending = old.pending
      /\ schedule'[i].running = [old.running EXCEPT ![e.task] = None]
      /\ schedule'[i].finished = [old.finished EXCEPT ![e.task] = OutcomeOf(e.success)]
  BY <1>2, <1>6 DEF finishTask, Schedule
<1>9. /\ ~IsRunning(schedule'[i], e.task)
      /\ schedule'[i].finished[e.task] = OutcomeOf(e.success) /\ OutcomeOf(e.success) # "none"
      /\ t # e.task => /\ IsRunning(schedule'[i], t) = IsRunning(old, t)
                       /\ schedule'[i].finished[t] = old.finished[t]
  BY <1>2, <1>3, <1>8 DEF IsRunning, Schedule, OutcomeOf
<1>10. e.task \notin old.pending /\ old.finished[e.task] = "none"
  BY <1>4, <1>7 DEF TableInv, OneTable, IsRunning
<1>11. OneTable(i, t)'
  BY <1>4, <1>8, <1>9, <1>10 DEF TableInv, OneTable, IsRunning
<1>12. KnownIffSubmitted(i, t)'
  BY <1>1, <1>4, <1>5, <1>6, <1>7, <1>8, <1>9 DEF TableInv, KnownIffSubmitted, Known, IsRunning
<1>13. PendingUnassigned(i, t)'
  BY <1>1, <1>2, <1>4, <1>6, <1>8 DEF TableInv, PendingUnassigned, IsAssignOf, e
<1>14. OutcomeLogged(i, t)'
  <2>1. CASE t # e.task
    <3>1. \A k \in 1..(n + 1) : IsFinishOf(log[k], t) <=> k \in 1..n /\ IsFinishOf(log[k], t)
      BY <1>2, <2>1 DEF IsFinishOf, e
    <3> QED
      BY <1>1, <1>2, <1>4, <1>6, <1>9, <2>1, <3>1 DEF TableInv, OutcomeLogged, IsFinishOf
  <2>2. CASE t = e.task
    <3>1. \A k \in 1..n : ~IsFinishOf(log[k], t)
      BY <1>4, <1>10, <2>2 DEF TableInv, OutcomeLogged, OutcomeOf
    <3>2. IsFinishOf(e, t) /\ n + 1 \in 1..(n + 1)
      BY <1>1, <1>2, <2>2 DEF IsFinishOf
    <3>3. \A k \in 1..(n + 1) : IsFinishOf(log[k], t) => k = n + 1
      BY <1>2, <3>1
    <3> QED
      BY <1>1, <1>6, <1>9, <2>2, <3>2, <3>3 DEF OutcomeLogged, IsFinishOf, e
  <2> QED
    BY <2>1, <2>2
<1> QED
  BY <1>11, <1>12, <1>13, <1>14 DEF TableInv

LEMMA InitTablesInv == Init => TablesInv
<1> SUFFICES ASSUME Init PROVE TablesInv
  OBVIOUS
<1>1. AssignedLater
  BY EmptySeq DEF Init, AssignedLater
<1>2. ASSUME NEW i \in Master, NEW t \in Task PROVE TableInv(i, t)
  <2>1. schedule[i] = NewSchedule /\ applied[i] = 0 /\ t \in Nat
    BY TaskAssumption DEF Init
  <2>2. t \notin schedule[i].pending /\ ~IsRunning(schedule[i], t) /\ schedule[i].finished[t] = "none"
    BY <2>1 DEF NewSchedule, IsRunning
  <2> QED
    BY <2>1, <2>2
    DEF TableInv, OneTable, KnownIffSubmitted, Known, PendingUnassigned, OutcomeLogged
<1> QED
  BY <1>1, <1>2 DEF TablesInv

(* The leader assigns only tasks whose submission it has applied.          *)
LEMMA NextAssignedLater ==
  ASSUME TypeInv, TablesInv, [Next]_vars PROVE AssignedLater'
<1>1. Len(log) \in Nat /\ Len(log) <= Len(log') /\ \A k \in 1..Len(log) : log'[k] = log[k]
  BY LogExtended
<1>2. CASE UNCHANGED log
  BY <1>2 DEF TablesInv, AssignedLater
<1>3. ASSUME NEW e \in Entry, log' = Append(log, e), e.kind = "assign" => e.task < Len(log)
      PROVE  AssignedLater'
  <2>1. Len(log') = Len(log) + 1 /\ log'[Len(log) + 1] = e
    BY <1>3, LogGrows DEF TypeInv, LogTypes
  <2>2. \A k \in 1..Len(log') : k \in 1..Len(log) \/ k = Len(log) + 1
    BY <1>1, <2>1
  <2>3. e.kind = "assign" => e.task \in Nat
    BY EntryShapes, TaskAssumption
  <2>4. e.kind = "assign" => e.task + 1 < Len(log) + 1
    BY <1>1, <1>3, <2>3
  <2> QED
    BY <1>1, <2>1, <2>2, <2>4 DEF TablesInv, AssignedLater
<1>4. CASE taskExecutionPeriodicCallback
  <2>1. PICK a \in getTaskAssignment(schedule[Leader]) : log' = Append(log, AssignTaskLog(a[1], a[2]))
    BY <1>4 DEF taskExecutionPeriodicCallback
  <2>2. Leader \in Master /\ schedule[Leader] \in Schedule
    BY MasterNumbers DEF TypeInv, TableTypes
  <2>3. a[1] \in schedule[Leader].pending /\ a[1] \in Task /\ a[2] \in Worker
    BY <2>1, <2>2 DEF getTaskAssignment, Schedule
  <2>4. a[1] < applied[Leader]
    BY <2>2, <2>3 DEF TablesInv, TableInv, KnownIffSubmitted, Known
  <2>5. applied[Leader] <= Len(log) /\ applied[Leader] \in Nat
    BY <1>1, <2>2 DEF TypeInv, IndexTypes, LogTypes
  <2>6. a[1] < Len(log)
    <3>1. \A x, y, z \in Nat : x < y /\ y <= z => x < z
      OBVIOUS
    <3>2. a[1] \in Nat
      BY <2>3, TaskAssumption
    <3> QED
      BY <1>1, <2>4, <2>5, <3>1, <3>2, Zenon
  <2>7. AssignTaskLog(a[1], a[2]) \in Entry /\ AssignTaskLog(a[1], a[2]).task = a[1]
    BY <2>3, EntriesMade DEF AssignTaskLog
  <2> QED
    BY <1>3, <2>1, <2>6, <2>7
<1>5. ASSUME NEW c \in Client, handleTaskSubmission(c) PROVE AssignedLater'
  BY <1>2, <1>3, <1>5, EntriesMade DEF handleTaskSubmission, SubmitTaskLog
<1>6. ASSUME NEW th \in threads, handleTaskCompletion(th) PROVE AssignedLater'
  <2>1. th.task \in Task /\ th.success \in BOOLEAN
    BY DEF TypeInv, ThreadTypes, Thread
  <2>2. FinishTaskLog(th.task, th.success) \in Entry /\ FinishTaskLog(th.task, th.success).kind = "finish"
    BY <2>1, EntriesMade DEF FinishTaskLog
  <2> QED
    BY <1>2, <1>3, <1>6, <2>2 DEF handleTaskCompletion
<1> QED
  BY <1>2, <1>4, <1>5, <1>6, LogWriters

LEMMA NextTablesInv == TypeInv /\ TablesInv /\ [Next]_vars => TablesInv'
<1> SUFFICES ASSUME TypeInv, TablesInv, [Next]_vars, NEW i \in Master, NEW t \in Task
             PROVE  TableInv(i, t)'
  BY NextAssignedLater DEF TablesInv
<1>1. TableInv(i, t)
  BY DEF TablesInv
<1>2. CASE \A j \in Master : ~Applies(j)
  BY <1>1, <1>2, TablesChangeByApplying, TableInvKept
<1>3. ASSUME NEW j \in Master, Applies(j), j # i PROVE TableInv(i, t)'
  <2>1. UNCHANGED <<applied, schedule>> \/ \E s : Apply(j, s)
    BY <1>3 DEF Applies, ApplySubmit, ApplyAssign, ApplyFinish
  <2>2. applied'[i] = applied[i] /\ SameTables(schedule'[i], schedule[i])
    BY <1>3, <2>1, ApplyChangesOne DEF SameTables
  <2> QED
    BY <1>1, <2>2, TableInvKept
<1>4. CASE ApplyFinish(i) /\ ~CanFinish(schedule[i], log[applied[i] + 1].task)
  <2>1. UNCHANGED <<applied, schedule>>
    BY <1>4 DEF ApplyFinish
  <2> QED
    BY <1>1, <2>1, TableInvKept DEF SameTables
<1>5. CASE Applies(i)
  BY <1>4, <1>5, SubmitTables, AssignTables, FinishTables DEF Applies
<1> QED
  BY <1>2, <1>3, <1>5

LEMMA TablesInvariant == Spec => []TablesInv
<1>1. TypeInv /\ TablesInv /\ [Next]_vars => TablesInv'
  BY NextTablesInv
<1> QED
  BY <1>1, InitTablesInv, TypeInvariant, PTL DEF Spec

-----------------------------------------------------------------------------
(* Two replicas never tell different outcomes: of the completions that     *)
(* gave them their outcomes, the one that applied more has applied both.   *)
LEMMA TablesAgree == TypeInv /\ TablesInv => OutcomeAgreed
<1> SUFFICES ASSUME TypeInv, TablesInv, NEW i \in Master, NEW j \in Master, NEW t \in Task,
                    schedule[i].finished[t] # "none", schedule[j].finished[t] # "none"
             PROVE  schedule[i].finished[t] = schedule[j].finished[t]
  BY DEF OutcomeAgreed
<1>1. OutcomeLogged(i, t) /\ OutcomeLogged(j, t)
  BY DEF TablesInv, TableInv
<1>2. applied[i] \in Nat /\ applied[j] \in Nat
  BY DEF TypeInv, IndexTypes
<1>3. CASE applied[i] <= applied[j]
  BY <1>1, <1>2, <1>3 DEF OutcomeLogged
<1>4. CASE applied[j] <= applied[i]
  BY <1>1, <1>2, <1>4 DEF OutcomeLogged
<1> QED
  BY <1>2, <1>3, <1>4

(* Though every replica has a task executed, and the runs may end          *)
(* differently, all replicas that know its outcome know the same.          *)
THEOREM OutcomesAgree == Spec => []OutcomeAgreed
  BY TablesAgree, TypeInvariant, TablesInvariant, PTL

-----------------------------------------------------------------------------
(* What a step may do to a task on a replica.                              *)
Unmoved(i, t) ==
  /\ t \in schedule'[i].pending <=> t \in schedule[i].pending
  /\ IsRunning(schedule'[i], t) <=> IsRunning(schedule[i], t)
  /\ schedule'[i].finished[t] = schedule[i].finished[t]
Added(i, t) == ~Known(schedule[i], t) /\ t \in schedule'[i].pending
Assigned(i, t) ==
  /\ t \in schedule[i].pending /\ t \notin schedule'[i].pending
  /\ IsRunning(schedule'[i], t)
Ended(i, t) ==
  /\ IsRunning(schedule[i], t) /\ t \notin schedule[i].pending
  /\ t \notin schedule'[i].pending /\ ~IsRunning(schedule'[i], t)
  /\ schedule'[i].finished[t] \in Outcome

LEMMA TaskMoves ==
  ASSUME TypeInv, TablesInv, [Next]_vars, NEW i \in Master, NEW t \in Task
  PROVE  Unmoved(i, t) \/ Added(i, t) \/ Assigned(i, t) \/ Ended(i, t)
<1> DEFINE n == applied[i]
           e == log[n + 1]
           old == schedule[i]
<1> USE DEF IsRunning
<1>1. old \in Schedule /\ TableInv(i, t)
  BY DEF TypeInv, TableTypes, TablesInv
<1>2. SameTables(schedule'[i], old) => Unmoved(i, t)
  BY DEF SameTables, Unmoved
<1>3. CASE \A j \in Master : ~Applies(j)
  BY <1>2, <1>3, TablesChangeByApplying
<1>4. ASSUME NEW j \in Master, Applies(j), j # i PROVE Unmoved(i, t)
  <2>1. UNCHANGED schedule \/ \E s : Apply(j, s)
    BY <1>4 DEF Applies, ApplySubmit, ApplyAssign, ApplyFinish
  <2>2. schedule'[i] = old
    BY <1>4, <2>1, ApplyChangesOne
  <2>3. SameTables(schedule'[i], old)
    BY <2>2 DEF SameTables
  <2> QED
    BY <1>2, <2>3
<1>5. CASE ApplySubmit(i)
  <2>1. schedule'[i] = addTask(old, n) /\ n < applyEnd[i] /\ e.kind = "submit"
    BY <1>5, ApplyChangesOne DEF ApplySubmit, NextApplied
  <2>2. n \in Task /\ n \in Nat
    BY <2>1, NextEntry
  <2>3. /\ schedule'[i].pending = old.pending \cup {n}
        /\ schedule'[i].running = old.running /\ schedule'[i].finished = old.finished
    BY <1>1, <2>1 DEF addTask, Schedule
  <2>4. ~Known(old, n)
    BY <2>2 DEF TablesInv, TableInv, KnownIffSubmitted
  <2> QED
    BY <2>3, <2>4 DEF Unmoved, Added
<1>6. CASE ApplyAssign(i) /\ IsPending(old, e.task)
  <2>1. schedule'[i] = assignTask(old, e.task, e.worker) /\ n < applyEnd[i] /\ e.kind = "assign"
    BY <1>6, ApplyChangesOne DEF ApplyAssign, NextApplied
  <2>2. e.task \in Task /\ e.worker \in Worker /\ e.worker # None
    BY <2>1, NextEntry, EntryShapes, WorkerAssumption
  <2> HIDE DEF e
  <2>3. /\ schedule'[i].pending = old.pending \ {e.task}
        /\ schedule'[i].running = [old.running EXCEPT ![e.task] = e.worker]
        /\ schedule'[i].finished = old.finished
    BY <1>1, <2>1 DEF assignTask, Schedule
  <2>4. CASE t # e.task
    BY <1>1, <2>3, <2>4 DEF Unmoved, Schedule
  <2>5. CASE t = e.task
    BY <1>1, <1>6, <2>2, <2>3, <2>5 DEF Assigned, Schedule, IsPending, e
  <2> QED
    BY <2>4, <2>5
<1>7. CASE ApplyAssign(i) /\ ~IsPending(old, e.task)
  BY <1>2, <1>7, ApplyChangesOne DEF ApplyAssign, SameTables
<1>8. CASE ApplyFinish(i) /\ CanFinish(old, e.task)
  <2>1. /\ schedule'[i] = finishTask(old, e.task, e.success) /\ n < applyEnd[i] /\ e.kind = "finish"
        /\ old.running[e.task] # None
    BY <1>8, ApplyChangesOne DEF ApplyFinish, NextApplied, CanFinish
  <2>2. e.task \in Task
    BY <2>1, NextEntry, EntryShapes
  <2> HIDE DEF e
  <2>3. /\ schedule'[i].pending = old.pending
        /\ schedule'[i].running = [old.running EXCEPT ![e.task] = None]
        /\ schedule'[i].finished = [old.finished EXCEPT ![e.task] = OutcomeOf(e.success)]
    BY <1>1, <2>1 DEF finishTask, Schedule
  <2>4. CASE t # e.task
    BY <1>1, <2>3, <2>4 DEF Unmoved, Schedule
  <2>5. CASE t = e.task
    <3>1. t \notin old.pending
      BY <1>1, <2>1, <2>5 DEF TableInv, OneTable
    <3> QED
      BY <1>1, <2>1, <2>3, <2>5, <3>1 DEF Ended, Schedule, OutcomeOf, Outcome
  <2> QED
    BY <2>4, <2>5
<1>9. CASE ApplyFinish(i) /\ ~CanFinish(old, e.task)
  BY <1>2, <1>9 DEF ApplyFinish, SameTables
<1>10. CASE Applies(i)
  BY <1>5, <1>6, <1>7, <1>8, <1>9, <1>10 DEF Applies
<1> QED
  BY <1>3, <1>4, <1>10

(* What a query is told, and its place on a task's way.                    *)
LEMMA QueryResults ==
  ASSUME NEW s \in Schedule, NEW t \in Task
  PROVE  /\ t \in s.pending => queryTaskStatus(s, t) = "pending"
         /\ t \notin s.pending /\ IsRunning(s, t) => queryTaskStatus(s, t) = "running"
         /\ t \notin s.pending /\ ~IsRunning(s, t) => queryTaskStatus(s, t) = s.finished[t]
         /\ s.finished[t] \in Outcome \cup {"none"}
         /\ queryTaskStatus(s, t) \in {"pending", "running", "none"} \cup Outcome
  BY DEF Schedule, queryTaskStatus, Outcome

LEMMA Ranks ==
  /\ Rank("none") = 0 /\ Rank("pending") = 1 /\ Rank("running") = 2
  /\ \A x \in Outcome : Rank(x) = 3
  BY DEF Rank, Outcome

LEMMA ForwardStep ==
  ASSUME TypeInv, TypeInv', TablesInv, [Next]_vars, NEW i \in Master, NEW t \in Task
  PROVE  Forward(queryTaskStatus(schedule[i], t), queryTaskStatus(schedule'[i], t))
<1>1. schedule[i] \in Schedule /\ schedule'[i] \in Schedule
  BY DEF TypeInv, TableTypes
<1>2. CASE Unmoved(i, t)
  <2>1. queryTaskStatus(schedule'[i], t) = queryTaskStatus(schedule[i], t)
    BY <1>1, <1>2, QueryResults DEF Unmoved
  <2> QED
    BY <1>1, <2>1, QueryResults, Ranks DEF Forward
<1>3. CASE Added(i, t)
  BY <1>1, <1>3, QueryResults, Ranks DEF Added, Known, Forward, Outcome
<1>4. CASE Assigned(i, t)
  BY <1>1, <1>4, QueryResults, Ranks DEF Assigned, Forward, Outcome
<1>5. CASE Ended(i, t)
  BY <1>1, <1>5, QueryResults, Ranks DEF Ended, Forward, Outcome
<1> QED
  BY <1>2, <1>3, <1>4, <1>5, TaskMoves

(* What a query was told stays true: on every replica a task only moves    *)
(* forward and keeps its outcome, in whatever order its assignments and    *)
(* completions, each possibly many, come in the log.                       *)
THEOREM StatusesMoveForward == Spec => StatusForward
<1>1. TypeInv /\ TypeInv' /\ TablesInv /\ [Next]_vars =>
        [\A i \in Master, t \in Task :
           Forward(queryTaskStatus(schedule[i], t), queryTaskStatus(schedule[i], t)')]_vars
  BY ForwardStep DEF vars, masterVars
<1> QED
  BY <1>1, TypeInvariant, TablesInvariant, PTL DEF Spec, StatusForward

-----------------------------------------------------------------------------
(* What QueryService counts.                                               *)

(* The three tables are disjoint, and each task in one of them is named by *)
(* an entry that was applied.                                              *)
LEMMA TablesSplitSubmissions ==
  ASSUME TypeInv, TablesInv, NEW i \in Master
  PROVE  LET P == schedule[i].pending
             R == {t \in Task : IsRunning(schedule[i], t)}
             F == {t \in Task : schedule[i].finished[t] # "none"}
         IN /\ P \cap R = {} /\ (P \cup R) \cap F = {}
            /\ P \cup R \cup F \subseteq 0..(applied[i] - 1)
            /\ {k \in 1..applied[i] : log[k] = SubmitTaskLog} = {t + 1 : t \in P \cup R \cup F}
<1> DEFINE P == schedule[i].pending
           R == {t \in Task : IsRunning(schedule[i], t)}
           F == {t \in Task : schedule[i].finished[t] # "none"}
           All == P \cup R \cup F
           Entries == {k \in 1..applied[i] : log[k] = SubmitTaskLog}
<1>1. \A t \in Task : OneTable(i, t) /\ (t \in All <=> t < applied[i] /\ log[t + 1].kind = "submit")
  BY DEF TablesInv, TableInv, KnownIffSubmitted, Known
<1>2. P \subseteq Task /\ Task \subseteq Nat /\ applied[i] \in Nat /\ applied[i] <= Len(log)
  BY TaskAssumption DEF TypeInv, TableTypes, IndexTypes, LogTypes, Schedule
<1>3. P \cap R = {} /\ (P \cup R) \cap F = {}
  BY <1>1, <1>2 DEF OneTable
<1>4. All \subseteq Task /\ \A t \in All : t \in Nat /\ t < applied[i] /\ log[t + 1].kind = "submit"
  BY <1>1, <1>2
<1>5. \A k \in 1..applied[i] : log[k] \in Entry /\ (log[k].kind = "submit" => k - 1 \in Task)
  BY <1>2, ElementOfSeq DEF TypeInv, LogTypes
<1>6. \A k \in 1..applied[i] : log[k] = SubmitTaskLog <=> log[k].kind = "submit"
  BY <1>5, EntryShapes DEF SubmitTaskLog
<1> HIDE DEF All
<1>7. ASSUME NEW k \in Entries PROVE k \in {t + 1 : t \in All}
  <2>1. k - 1 \in Task /\ k - 1 < applied[i] /\ (k - 1) + 1 = k /\ log[k].kind = "submit"
    BY <1>2, <1>5, <1>6
  <2>2. k - 1 \in All
    BY <1>1, <2>1
  <2> QED
    BY <2>1, <2>2
<1>8. ASSUME NEW t \in All PROVE t + 1 \in Entries
  BY <1>2, <1>4, <1>6
<1>9. All \subseteq 0..(applied[i] - 1)
  BY <1>2, <1>4
<1> QED
  BY <1>3, <1>7, <1>8, <1>9 DEF All

LEMMA DisjointUnion ==
  ASSUME NEW S, NEW T, IsFiniteSet(S), IsFiniteSet(T), S \cap T = {}
  PROVE  IsFiniteSet(S \cup T) /\ Cardinality(S \cup T) = Cardinality(S) + Cardinality(T)
<1>1. Cardinality(S) \in Nat /\ Cardinality(T) \in Nat /\ Cardinality(S \cap T) = 0
  BY FS_CardinalityType, FS_EmptySet
<1>2. /\ IsFiniteSet(S \cup T)
      /\ Cardinality(S \cup T) = Cardinality(S) + Cardinality(T) - Cardinality(S \cap T)
  BY FS_Union
<1> QED
  BY <1>1, <1>2

LEMMA Shifted ==
  ASSUME NEW S, S \subseteq Nat, IsFiniteSet(S)
  PROVE  Cardinality({t + 1 : t \in S}) = Cardinality(S)
<1> DEFINE up == [t \in S |-> t + 1]
           T == {t + 1 : t \in S}
<1>1. up \in Bijection(S, T)
  BY DEF Bijection, Injection, Surjection, IsInjective
<1> QED
  BY <1>1, FS_Bijection DEF ExistsBijection

(* QueryService never counts a task twice or forgets one: on every replica *)
(* its counts add up to the submissions applied there.                     *)
THEOREM TaskCounts == Spec => []TasksConserved
<1>1. TypeInv /\ TablesInv => TasksConserved
  <2> SUFFICES ASSUME TypeInv, TablesInv, NEW i \in Master
               PROVE  SubmitsApplied(i) = handleServiceQuery(schedule[i], "pending")
                        + handleServiceQuery(schedule[i], "running")
                        + handleServiceQuery(schedule[i], "succeeded")
    BY DEF TasksConserved
  <2> DEFINE P == schedule[i].pending
             R == {t \in Task : IsRunning(schedule[i], t)}
             F == {t \in Task : schedule[i].finished[t] # "none"}
  <2>1. /\ P \cap R = {} /\ (P \cup R) \cap F = {}
        /\ P \cup R \cup F \subseteq 0..(applied[i] - 1)
        /\ {k \in 1..applied[i] : log[k] = SubmitTaskLog} = {t + 1 : t \in P \cup R \cup F}
    BY TablesSplitSubmissions
  <2>2. handleServiceQuery(schedule[i], "pending") = Cardinality(P)
    BY DEF handleServiceQuery, getPendingTasks, Outcome
  <2>3. handleServiceQuery(schedule[i], "running") = Cardinality(R)
    BY DEF handleServiceQuery, getRunningTasks, Outcome
  <2>4. handleServiceQuery(schedule[i], "succeeded") = Cardinality(F)
    BY DEF handleServiceQuery, getFinishedTasks, Outcome
  <2> HIDE DEF P, R, F
  <2>5. applied[i] \in Nat
    BY DEF TypeInv, IndexTypes
  <2>6. IsFiniteSet(0..(applied[i] - 1))
    BY <2>5, FS_Interval
  <2>7. IsFiniteSet(P) /\ IsFiniteSet(R) /\ IsFiniteSet(F) /\ IsFiniteSet(P \cup R)
    BY <2>1, <2>6, FS_Subset
  <2>8. Cardinality(P \cup R) = Cardinality(P) + Cardinality(R)
    BY <2>1, <2>7, DisjointUnion
  <2>9. /\ IsFiniteSet((P \cup R) \cup F)
        /\ Cardinality((P \cup R) \cup F) = Cardinality(P \cup R) + Cardinality(F)
    BY <2>1, <2>7, DisjointUnion
  <2>10. P \cup R \cup F \subseteq Nat
    BY <2>1, <2>5
  <2>11. SubmitsApplied(i) = Cardinality(P \cup R \cup F)
    BY <2>1, <2>9, <2>10, Shifted DEF SubmitsApplied
  <2> QED
    BY <2>2, <2>3, <2>4, <2>8, <2>9, <2>11
<1> QED
  BY <1>1, TypeInvariant, TablesInvariant, PTL
=============================================================================
