-------------------------- MODULE PipelineLogProofs --------------------------
(***************************************************************************)
(* Pipeline implements ReplicatedLog, for any number of workers, tasks and *)
(* clients and any bounds, with up to three masters: a follower takes a    *)
(* round's word that the entries before its own are committed, and it and  *)
(* the leader are a majority of three but not of four.                     *)
(***************************************************************************)
EXTENDS PipelineLog, PipelineProofs

-----------------------------------------------------------------------------
(* Majorities.                                                             *)

HoldersIn(sizes, n) == {i \in Master : sizes[i] >= n}
Majority(sizes, n) == 2 * Cardinality(HoldersIn(sizes, n)) > RaftSize

LEMMA MasterCount == IsFiniteSet(Master) /\ Cardinality(Master) = RaftSize
  BY FS_Interval, LeaderAssumption DEF Master

LEMMA HoldersFinite ==
  ASSUME NEW sizes, NEW n
  PROVE  IsFiniteSet(HoldersIn(sizes, n)) /\ Cardinality(HoldersIn(sizes, n)) \in Nat
  BY MasterCount, FS_Subset, FS_CardinalityType DEF HoldersIn

(* Who has more has less, and nobody loses what he has.                    *)
LEMMA MajorityKept ==
  ASSUME NEW old \in [Master -> Nat], NEW new \in [Master -> Nat],
         \A i \in Master : old[i] <= new[i],
         NEW n \in Nat, NEW m \in Nat, m <= n, Majority(old, n)
  PROVE  Majority(new, m)
<1>1. HoldersIn(old, n) \subseteq HoldersIn(new, m)
  BY DEF HoldersIn
<1>2. Cardinality(HoldersIn(old, n)) <= Cardinality(HoldersIn(new, m))
  BY <1>1, HoldersFinite, FS_Subset
<1> QED
  BY <1>2, HoldersFinite, LeaderAssumption DEF Majority

(* What the masters hold are numbers.                                      *)
LEMMA SizesAreNat ==
  ASSUME NEW lg \in Seq(Entry), NEW n \in 0..Len(lg), NEW sizes \in [Master -> 0..n]
  PROVE  n \in Nat /\ sizes \in [Master -> Nat]
<1>1. n \in Nat
  BY LenProperties
<1> QED
  BY <1>1

(* A round that was not refused brought its entry to more than half.       *)
LEMMA RoundReached ==
  ASSUME TypeInv, RoundSucceeds, \A j \in round.delivered : held[j] = logSize
  PROVE  Majority(held, logSize)
<1>1. round.failed \subseteq Master /\ Leader \in Master
  BY MasterNumbers DEF TypeInv, LogTypes, Round, Followers
<1>2. Master \ round.failed \subseteq HoldersIn(held, logSize)
  <2> SUFFICES ASSUME NEW i \in Master, i \notin round.failed PROVE held[i] >= logSize
    BY DEF HoldersIn
  <2>1. i = Leader \/ i \in round.delivered
    BY DEF RoundSucceeds, RoundOver, Followers
  <2>2. held[i] = logSize /\ logSize \in Nat
    BY <2>1 DEF TypeInv, IndexTypes, LogTypes
  <2> QED
    BY <2>2
<1>3. Cardinality(Master \ round.failed) = RaftSize - Cardinality(round.failed)
  <2>1. Master \cap round.failed = round.failed
    BY <1>1
  <2>2. Cardinality(Master \ round.failed)
          = Cardinality(Master) - Cardinality(Master \cap round.failed)
    BY MasterCount, FS_Difference, Zenon
  <2> QED
    BY <2>1, <2>2, MasterCount
<1>4. Cardinality(Master \ round.failed) <= Cardinality(HoldersIn(held, logSize))
  BY <1>2, HoldersFinite, FS_Subset
<1>5. Cardinality(round.failed) \in Nat
  BY <1>1, MasterCount, FS_Subset, FS_CardinalityType
<1>6. ~(Cardinality(round.failed) * 2 >= RaftSize)
  BY DEF RoundSucceeds, Refused
<1> QED
  BY <1>3, <1>4, <1>5, <1>6, HoldersFinite, LeaderAssumption DEF Majority

(* Two masters are more than half of three.                                *)
LEMMA TwoSuffice ==
  ASSUME RaftSize <= 3, NEW sizes, NEW n, NEW i \in Master, NEW j \in Master, i # j,
         sizes[i] >= n, sizes[j] >= n
  PROVE  Majority(sizes, n)
<1>1. {i} \cup {j} \subseteq HoldersIn(sizes, n) /\ j \notin {i}
  BY DEF HoldersIn
<1>2. IsFiniteSet({i}) /\ Cardinality({i}) = 1
  BY FS_Singleton
<1>3. Cardinality({i} \cup {j}) = Cardinality({i}) + 1
  BY <1>1, <1>2, FS_AddElement
<1>4. Cardinality({i} \cup {j}) <= Cardinality(HoldersIn(sizes, n))
  BY <1>1, HoldersFinite, FS_Subset
<1> QED
  BY <1>2, <1>3, <1>4, HoldersFinite, LeaderAssumption DEF Majority

-----------------------------------------------------------------------------
(* What is applied is committed, in this term and for good.  A client      *)
(* waits only for the entry of its own submission.                         *)
CommitInv == \A i \in Master : applyEnd[i] > 0 => Majority(held, applyEnd[i])
RoundInv == round.busy => \A j \in round.delivered : held[j] = logSize
WaitInv ==
  \A c \in Client : client[c].state = "asking" /\ client[c].at > 0 =>
    client[c].at \in 1..Len(log) /\ log[client[c].at] = SubmitTaskLog
StableInv == CommitInv /\ RoundInv /\ WaitInv

(* What the steps do to the log as ReplicatedLog sees it.                  *)
SameRound == UNCHANGED <<logSize, round>>
SameLogs == UNCHANGED <<logSize, held>>
SamePositions == UNCHANGED <<applyEnd, applied>>
LEMMA LogSteps ==
  ASSUME [Next]_vars
  PROVE  \/ SameRound /\ SameLogs /\ SamePositions
         \/ RoundStarts
         \/ RoundGivesUp
         \/ RoundSucceeds
         \/ \E j \in Followers : handleAppendEntries(j) \/ AppendFails(j) \/ Heartbeat(j)
         \/ \E i \in Master : Applies(i)
  BY DEF Next, vars, masterVars, logVars, SameRound, SameLogs, SamePositions, submitTask, SubmitTask,
         handleTaskSubmission, SubmitTaskFails, taskExecutionPeriodicCallback, syncWorker,
         AppendRpc, commitUpTo, commitUpToEnds, Applies, ExecuteTaskRpc, ExecuteTask,
         ExecuteTaskReturns, MasterCrash, taskExecutor, taskExecutorStarts, taskExecutorEnds,
         handleTaskCompletion, FinishTaskFails, handlePing, WorkerCrash, WorkerRestart, WorkerTimeout

LEMMA HeldGrows ==
  ASSUME TypeInv, TypeInv', [Next]_vars
  PROVE  \A i \in Master : held[i] <= held'[i]
<1>1. /\ held \in [Master -> Nat] /\ logSize \in Nat /\ Leader \in Master
      /\ \A i \in Master : held[i] <= logSize
  <2>1. log \in Seq(Entry) /\ logSize \in 0..Len(log) /\ held \in [Master -> 0..logSize]
    BY DEF TypeInv, LogTypes, IndexTypes
  <2>2. held \in [Master -> Nat] /\ logSize \in Nat
    BY <2>1, SizesAreNat
  <2> QED
    BY <2>1, <2>2, MasterNumbers
<1>2. CASE RoundStarts
  <2>1. held' = [held EXCEPT ![Leader] = logSize + 1]
    BY <1>2 DEF RoundStarts, Put
  <2> QED
    BY <1>1, <2>1
<1>3. ASSUME NEW j \in Followers, handleAppendEntries(j) PROVE \A i \in Master : held[i] <= held'[i]
  <2>1. held' = [held EXCEPT ![j] = logSize]
    BY <1>3 DEF handleAppendEntries, Put
  <2> QED
    BY <1>1, <2>1
<1>4. CASE UNCHANGED held
  BY <1>1, <1>4
<1>5. ASSUME NEW j \in Followers, AppendFails(j) \/ Heartbeat(j) PROVE UNCHANGED held
  BY <1>5 DEF AppendFails, Heartbeat, masterVars
<1>6. ASSUME NEW i \in Master, Applies(i) PROVE UNCHANGED held
  BY <1>6 DEF Applies, ApplySubmit, ApplyAssign, ApplyFinish
<1>7. RoundGivesUp \/ RoundSucceeds \/ SameLogs => UNCHANGED held
  BY DEF RoundGivesUp, RoundSucceeds, masterVars, SameLogs
<1> QED
  BY <1>2, <1>3, <1>4, <1>5, <1>6, <1>7, LogSteps

LEMMA NextCommitInv ==
  ASSUME RaftSize <= 3, TypeInv, TypeInv', StableInv, [Next]_vars
  PROVE  CommitInv'
<1>1. /\ held \in [Master -> Nat] /\ held' \in [Master -> Nat]
      /\ \A i \in Master : held[i] <= held'[i]
  <2>1. log \in Seq(Entry) /\ logSize \in 0..Len(log) /\ held \in [Master -> 0..logSize]
    BY DEF TypeInv, LogTypes, IndexTypes
  <2>2. log' \in Seq(Entry) /\ logSize' \in 0..Len(log') /\ held' \in [Master -> 0..logSize']
    BY DEF TypeInv, LogTypes, IndexTypes
  <2> QED
    BY <2>1, <2>2, SizesAreNat, HeldGrows
<1>2. applyEnd \in [Master -> Nat] /\ applyEnd' \in [Master -> Nat]
  BY DEF TypeInv, IndexTypes
<1>3. logSize \in Nat /\ Leader \in Master
  BY MasterNumbers DEF TypeInv, LogTypes
<1>4. ASSUME NEW i \in Master, applyEnd'[i] > 0,
             NEW j \in Master, applyEnd'[i] <= applyEnd[j]
      PROVE  Majority(held', applyEnd'[i])
  <2>1. Majority(held, applyEnd[j])
    BY <1>2, <1>4 DEF StableInv, CommitInv
  <2> QED
    BY <1>1, <1>2, <1>4, <2>1, MajorityKept
<1>5. CASE UNCHANGED applyEnd
  <2>1. ASSUME NEW i \in Master, applyEnd'[i] > 0 PROVE Majority(held', applyEnd'[i])
    <3>1. applyEnd'[i] <= applyEnd[i]
      BY <1>2, <1>5
    <3> QED
      BY <1>4, <2>1, <3>1
  <2> QED
    BY <2>1 DEF CommitInv
<1>6. ASSUME NEW k \in Master, NEW n \in Nat, applyEnd' = [applyEnd EXCEPT ![k] = n],
             n > 0 => Majority(held', n)
      PROVE  CommitInv'
  <2> SUFFICES ASSUME NEW i \in Master, applyEnd'[i] > 0 PROVE Majority(held', applyEnd'[i])
    BY DEF CommitInv
  <2>1. CASE i = k
    BY <1>2, <1>6, <2>1
  <2>2. CASE i # k
    BY <1>2, <1>4, <1>6, <2>2
  <2> QED
    BY <2>1, <2>2
<1>7. CASE RoundSucceeds
  <2>1. Majority(held, logSize)
    BY <1>7, RoundReached DEF RoundSucceeds, RoundOver, StableInv, RoundInv
  <2>2. Majority(held', logSize)
    BY <1>1, <1>3, <2>1, MajorityKept
  <2> QED
    BY <1>3, <1>6, <1>7, <2>2 DEF RoundSucceeds, Put
<1>8. ASSUME NEW j \in Followers, handleAppendEntries(j) PROVE CommitInv'
  <2>1. j \in Master /\ j # Leader /\ held' = [held EXCEPT ![j] = logSize]
    BY <1>8 DEF handleAppendEntries, Followers, Put
  <2>2. held'[j] = logSize /\ held'[Leader] = logSize
    BY <1>1, <2>1 DEF TypeInv, IndexTypes
  <2>3. Majority(held', logSize - 1)
    <3>1. held'[j] >= logSize - 1 /\ held'[Leader] >= logSize - 1
      BY <1>3, <2>2
    <3> QED
      BY <1>3, <2>1, <3>1, TwoSuffice, Zenon
  <2>4. logSize - 1 \in Nat
    BY <1>2, <1>3, <1>8, <2>1 DEF handleAppendEntries, TypeInv, IndexTypes
  <2> QED
    BY <1>6, <1>8, <2>1, <2>3, <2>4 DEF handleAppendEntries, Put, Announced
<1>9. ASSUME NEW j \in Followers, Heartbeat(j) PROVE CommitInv'
  <2>1. j \in Master /\ commit_index[Leader] \in Nat /\ commit_index[Leader] <= applyEnd[Leader]
    BY <1>3 DEF Followers, TypeInv, IndexTypes
  <2> DEFINE end == MinOf(commit_index[Leader], held[j])
  <2>2. end \in Nat /\ end <= commit_index[Leader]
    BY <1>2, <2>1 DEF MinOf, TypeInv, IndexTypes
  <2>3. ASSUME end > 0 PROVE Majority(held', end)
    <3>1. applyEnd[Leader] \in Nat /\ end <= applyEnd[Leader] /\ applyEnd[Leader] > 0
      BY <1>3, <2>1, <2>2, <2>3 DEF TypeInv, IndexTypes, Followers
    <3>2. Majority(held, applyEnd[Leader])
      BY <1>2, <1>3, <3>1 DEF StableInv, CommitInv
    <3> HIDE DEF end
    <3> QED
      BY <1>1, <1>2, <1>3, <2>2, <3>1, <3>2, MajorityKept
  <2> HIDE DEF end
  <2>4. applyEnd' = [applyEnd EXCEPT ![j] = end]
    BY <1>9 DEF Heartbeat, Put, BeatCommit, end
  <2> QED
    BY <1>6, <2>1, <2>2, <2>3, <2>4
<1>10. ASSUME NEW i \in Master, Applies(i) PROVE UNCHANGED applyEnd
  BY <1>10 DEF Applies, ApplySubmit, ApplyAssign, ApplyFinish
<1>11. ASSUME NEW j \in Followers, AppendFails(j) PROVE UNCHANGED applyEnd
  BY <1>11 DEF AppendFails, masterVars
<1>12. RoundStarts \/ RoundGivesUp => UNCHANGED applyEnd
  BY DEF RoundStarts, RoundGivesUp, masterVars
<1> QED
  BY <1>5, <1>7, <1>8, <1>9, <1>10, <1>11, <1>12, LogSteps DEF SamePositions

LEMMA NextRoundInv ==
  ASSUME TypeInv, StableInv, [Next]_vars
  PROVE  RoundInv'
<1> USE DEF StableInv, RoundInv
<1>1. CASE SameRound /\ SameLogs
  BY <1>1 DEF SameRound, SameLogs
<1>2. CASE RoundStarts \/ RoundGivesUp \/ RoundSucceeds
  BY <1>2 DEF RoundStarts, RoundGivesUp, RoundSucceeds, NoRound
<1>3. ASSUME NEW j \in Followers, handleAppendEntries(j) PROVE RoundInv'
  BY <1>3 DEF handleAppendEntries, Put, TypeInv, IndexTypes, LogTypes, Round, Followers
<1>4. ASSUME NEW j \in Followers, AppendFails(j) PROVE RoundInv'
  BY <1>4 DEF AppendFails, masterVars, TypeInv, LogTypes, Round
<1>5. ASSUME NEW j \in Followers, Heartbeat(j) PROVE SameRound /\ SameLogs
  BY <1>5 DEF Heartbeat, logVars, SameRound, SameLogs
<1>6. ASSUME NEW i \in Master, Applies(i) PROVE SameRound /\ SameLogs
  BY <1>6 DEF Applies, ApplySubmit, ApplyAssign, ApplyFinish, logVars, SameRound, SameLogs
<1> QED
  BY <1>1, <1>2, <1>3, <1>4, <1>5, <1>6, LogSteps


LEMMA NextWaitInv ==
  ASSUME TypeInv, TypeInv', StableInv, [Next]_vars
  PROVE  WaitInv'
<1> DEFINE Kept(c) == client'[c].at = 0 \/ client'[c].state # "asking" \/ client'[c] = client[c]
<1>1. /\ client \in [Client -> ClientState] /\ client' \in [Client -> ClientState]
      /\ log \in Seq(Entry) /\ Len(log') \in Nat
  BY LenProperties DEF TypeInv, ClientTypes, LogTypes
<1>2. Len(log) \in Nat /\ Len(log) <= Len(log') /\ \A k \in 1..Len(log) : log'[k] = log[k]
  BY LogExtended
<1>3. ASSUME NEW c \in Client, Kept(c)
      PROVE  client'[c].state = "asking" /\ client'[c].at > 0 =>
               client'[c].at \in 1..Len(log') /\ log'[client'[c].at] = SubmitTaskLog
  BY <1>1, <1>2, <1>3 DEF StableInv, WaitInv, ClientState
<1>4. CASE UNCHANGED client
  BY <1>3, <1>4 DEF WaitInv
<1>5. ASSUME NEW c \in Client, submitTask(c) \/ SubmitTaskFails(c) PROVE WaitInv'
  <2>1. \A d \in Client : Kept(d)
    BY <1>1, <1>5, DeclinedTypes DEF submitTask, SubmitTaskFails, Put
  <2> QED
    BY <1>3, <2>1 DEF WaitInv
<1>6. ASSUME NEW c \in Client, handleTaskSubmission(c) PROVE WaitInv'
  <2>1. CASE client[c].master # Leader
    <3>1. \A d \in Client : Kept(d)
      BY <1>1, <1>6, <2>1, DeclinedTypes DEF handleTaskSubmission
    <3> QED
      BY <1>3, <3>1 DEF WaitInv
  <2>2. CASE client[c].master = Leader
    <3>1. log' = Append(log, SubmitTaskLog) /\ client' = [client EXCEPT ![c].at = Len(log) + 1]
      BY <1>6, <2>2 DEF handleTaskSubmission
    <3>2. client'[c].at = Len(log) + 1 /\ \A d \in Client : d # c => Kept(d)
      BY <1>1, <3>1 DEF ClientState
    <3>3. Len(log') = Len(log) + 1 /\ log'[Len(log) + 1] = SubmitTaskLog
      BY <1>1, <3>1, EntriesMade, LogGrows
    <3> QED
      BY <1>2, <1>3, <3>2, <3>3 DEF WaitInv
  <2> QED
    BY <2>1, <2>2
<1>7. CASE RoundGivesUp \/ RoundSucceeds
  <2>1. \A d \in Client : Kept(d)
    BY <1>1, <1>7, DeclinedTypes DEF RoundGivesUp, RoundSucceeds, Unsubmitted, Submitted, ClientState
  <2> QED
    BY <1>3, <2>1 DEF WaitInv
<1>8. \/ UNCHANGED client
      \/ \E c \in Client : submitTask(c) \/ SubmitTaskFails(c) \/ handleTaskSubmission(c)
      \/ RoundGivesUp \/ RoundSucceeds
  BY DEF Next, vars, clientVars, SubmitTask, taskExecutionPeriodicCallback, syncWorker, RoundStarts,
         AppendRpc, handleAppendEntries, AppendFails, Heartbeat, commitUpTo, ApplySubmit, ApplyAssign,
         ApplyFinish, commitUpToEnds, ExecuteTaskRpc, ExecuteTask, ExecuteTaskReturns, MasterCrash,
         taskExecutor, taskExecutorStarts, taskExecutorEnds, handleTaskCompletion, FinishTaskFails,
         handlePing, WorkerCrash, WorkerRestart, WorkerTimeout
<1> QED
  BY <1>4, <1>5, <1>6, <1>7, <1>8

LEMMA StableInvariant == ASSUME RaftSize <= 3 PROVE Spec => []StableInv
<1>1. Init => StableInv
  BY DEF Init, StableInv, CommitInv, RoundInv, WaitInv, NoRound
<1>2. TypeInv /\ TypeInv' /\ StableInv /\ [Next]_vars => StableInv'
  BY NextCommitInv, NextRoundInv, NextWaitInv DEF StableInv
<1> QED
  BY <1>1, <1>2, TypeInvariant, PTL DEF Spec

-----------------------------------------------------------------------------
(* The log as ReplicatedLog sees it: prefixes of Pipeline's.               *)
Upto(lg, n) == SubSeq(lg, 1, n)

LEMMA Prefixes ==
  ASSUME NEW lg \in Seq(Entry), NEW n \in 0..Len(lg)
  PROVE  /\ Upto(lg, n) \in Seq(Entry) /\ Len(Upto(lg, n)) = n
         /\ DOMAIN Upto(lg, n) = 1..n
         /\ \A k \in 1..n : Upto(lg, n)[k] = lg[k]
<1>1. Len(lg) \in Nat /\ \A k \in 1..n : lg[k] \in Entry
  BY LenProperties, ElementOfSeq
<1>2. n \in Int /\ 1 \in Int
  BY <1>1
<1>3. /\ SubSeq(lg, 1, n) \in Seq(Entry)
      /\ Len(SubSeq(lg, 1, n)) = IF 1 <= n THEN n - 1 + 1 ELSE 0
      /\ \A k \in 1..(n - 1 + 1) : SubSeq(lg, 1, n)[k] = lg[1 + k - 1]
  BY <1>1, <1>2, SubSeqProperties
<1>4. Len(SubSeq(lg, 1, n)) = n
  BY <1>1, <1>3
<1>5. \A k \in 1..n : SubSeq(lg, 1, n)[k] = lg[k]
  BY <1>1, <1>3
<1>6. DOMAIN SubSeq(lg, 1, n) = 1..n
  BY <1>3, <1>4, LenProperties
<1> QED
  BY <1>3, <1>4, <1>5, <1>6 DEF Upto

(* Logs that agree on the first n entries have the same prefix.            *)
LEMMA SamePrefix ==
  ASSUME NEW lg \in Seq(Entry), NEW mg \in Seq(Entry),
         NEW n \in 0..Len(lg), n <= Len(mg), \A k \in 1..n : lg[k] = mg[k]
  PROVE  Upto(lg, n) = Upto(mg, n)
<1>1. Len(lg) \in Nat /\ Len(mg) \in Nat
  BY LenProperties
<1>2. n \in 0..Len(mg)
  BY <1>1
<1>3. /\ Upto(lg, n) \in Seq(Entry) /\ Len(Upto(lg, n)) = n
      /\ \A k \in 1..n : Upto(lg, n)[k] = lg[k]
  BY Prefixes
<1>4. /\ Upto(mg, n) \in Seq(Entry) /\ Len(Upto(mg, n)) = n
      /\ \A k \in 1..n : Upto(mg, n)[k] = mg[k]
  BY <1>2, Prefixes
<1> QED
  BY <1>3, <1>4, SeqEqual

LEMMA PrefixOfPrefix ==
  ASSUME NEW lg \in Seq(Entry), NEW n \in 0..Len(lg), NEW m \in 0..n
  PROVE  SubSeq(Upto(lg, n), 1, m) = Upto(lg, m)
<1>1. Upto(lg, n) \in Seq(Entry) /\ Len(Upto(lg, n)) = n /\ \A k \in 1..n : Upto(lg, n)[k] = lg[k]
  BY Prefixes
<1>2. m \in 0..Len(Upto(lg, n)) /\ m <= Len(lg) /\ \A k \in 1..m : Upto(lg, n)[k] = lg[k]
  BY <1>1, LenProperties
<1>3. Upto(Upto(lg, n), m) = Upto(lg, m)
  BY <1>1, <1>2, SamePrefix
<1> QED
  BY <1>3 DEF Upto

LEMMA LongerPrefix ==
  ASSUME NEW lg \in Seq(Entry), NEW n \in Nat, n + 1 <= Len(lg)
  PROVE  lg[n + 1] \in Entry /\ Upto(lg, n + 1) = Append(Upto(lg, n), lg[n + 1])
<1>1. Len(lg) \in Nat
  BY LenProperties
<1>2. n \in 0..Len(lg) /\ n + 1 \in 0..Len(lg) /\ n + 1 \in 1..Len(lg)
  BY <1>1
<1>3. lg[n + 1] \in Entry
  BY <1>2, ElementOfSeq
<1>4. /\ Upto(lg, n) \in Seq(Entry) /\ Len(Upto(lg, n)) = n
      /\ \A k \in 1..n : Upto(lg, n)[k] = lg[k]
  BY <1>2, Prefixes
<1>5. /\ Upto(lg, n + 1) \in Seq(Entry) /\ Len(Upto(lg, n + 1)) = n + 1
      /\ \A k \in 1..(n + 1) : Upto(lg, n + 1)[k] = lg[k]
  BY <1>2, Prefixes
<1>6. /\ Append(Upto(lg, n), lg[n + 1]) \in Seq(Entry)
      /\ Len(Append(Upto(lg, n), lg[n + 1])) = n + 1
      /\ \A k \in 1..n : Append(Upto(lg, n), lg[n + 1])[k] = lg[k]
      /\ Append(Upto(lg, n), lg[n + 1])[n + 1] = lg[n + 1]
  BY <1>3, <1>4, LogGrows
<1>7. \A k \in 1..(n + 1) : Append(Upto(lg, n), lg[n + 1])[k] = Upto(lg, n + 1)[k]
  BY <1>5, <1>6
<1> QED
  BY <1>3, <1>5, <1>6, <1>7, SeqEqual


(* No step changes the prefix that anybody holds.                          *)
LEMMA PrefixesStay ==
  ASSUME TypeInv, TypeInv', [Next]_vars, NEW n \in 0..logSize
  PROVE  Upto(log', n) = Upto(log, n)
<1>1. log \in Seq(Entry) /\ log' \in Seq(Entry) /\ logSize \in 0..Len(log)
  BY DEF TypeInv, LogTypes
<1>2. /\ Len(log) \in Nat /\ Len(log) <= Len(log')
      /\ \A k \in 1..Len(log) : log'[k] = log[k]
  BY LogExtended
<1>3. n \in 0..Len(log) /\ n <= Len(log') /\ \A k \in 1..n : log[k] = log'[k]
  <2>1. Len(log') \in Nat
    BY <1>1, LenProperties
  <2> QED
    BY <1>1, <1>2, <2>1
<1> QED
  BY <1>1, <1>3, SamePrefix

Copies(lg, sizes) == [i \in Master |-> Upto(lg, sizes[i])]
Told(cs) == {<<cs[c].at, SubmitTaskLog>> : c \in {x \in Client : cs[x].state = "submitted"}}

LEMMA SameCount == ASSUME NEW S PROVE RL!Cardinality(S) = Cardinality(S)
  BY DEF RL!Cardinality, Cardinality

(* A majority has the prefix of that length.                               *)
LEMMA MajorityCommits ==
  ASSUME NEW lg \in Seq(Entry), NEW sizes \in [Master -> 0..Len(lg)], NEW n \in Nat, Majority(sizes, n)
  PROVE  RL!IsCommitted(Copies(lg, sizes), n)
<1>1. \A i \in Master : Len(Copies(lg, sizes)[i]) = sizes[i]
  BY Prefixes DEF Copies
<1>2. RL!Holders(Copies(lg, sizes), n) = HoldersIn(sizes, n)
  BY <1>1 DEF RL!Holders, HoldersIn
<1> QED
  BY <1>2, MasterCount, SameCount DEF RL!IsCommitted, Majority

(* A step at one master that leaves the log alone is Progress.             *)
LEMMA ProgressStep ==
  ASSUME TypeInv, TypeInv', [Next]_vars, logSize' = logSize,
         NEW i \in Master,
         \A j \in Master \ {i} : held'[j] = held[j] /\ applied'[j] = applied[j],
         held[i] <= held'[i], applied[i] <= applied'[i],
         applied[i] < applied'[i] => Majority(held', applied'[i]),
         \/ Told(client') = Told(client)
         \/ \E k \in 1..logSize : /\ Majority(held', k)
                                  /\ Told(client') = Told(client) \cup {<<k, log[k]>>}
  PROVE  RL!Progress(i)
<1>1. /\ log \in Seq(Entry) /\ log' \in Seq(Entry) /\ logSize \in 0..Len(log) /\ Len(log) \in Nat
      /\ Len(log') \in Nat /\ logSize \in 0..Len(log')
  BY LenProperties DEF TypeInv, LogTypes
<1>2. /\ held \in [Master -> 0..logSize] /\ held' \in [Master -> 0..logSize]
      /\ applied \in [Master -> 0..logSize] /\ applied' \in [Master -> 0..logSize]
      /\ \A j \in Master : applied'[j] <= held'[j]
  <2>1. held \in [Master -> 0..logSize] /\ held' \in [Master -> 0..logSize]
    BY DEF TypeInv, IndexTypes
  <2>2. applied \in [Master -> Nat] /\ applied' \in [Master -> Nat]
    BY DEF TypeInv, IndexTypes
  <2>3. \A j \in Master : applied[j] <= held[j] /\ applied'[j] <= held'[j]
    <3> TAKE j \in Master
    <3>1. applyEnd[j] \in Nat /\ applied[j] <= applyEnd[j] /\ applyEnd[j] <= held[j]
      BY DEF TypeInv, IndexTypes
    <3>2. applyEnd'[j] \in Nat /\ applied'[j] <= applyEnd'[j] /\ applyEnd'[j] <= held'[j]
      BY DEF TypeInv, IndexTypes
    <3>3. held[j] \in Nat /\ held'[j] \in Nat /\ applied[j] \in Nat /\ applied'[j] \in Nat
      <4>1. logSize \in Nat
        BY <1>1
      <4> QED
        BY <2>1, <2>2, <4>1
    <3> QED
      BY <3>1, <3>2, <3>3
  <2>4. \A j \in Master : applied[j] \in 0..logSize /\ applied'[j] \in 0..logSize
    BY <1>1, <2>1, <2>2, <2>3
  <2> QED
    BY <2>1, <2>2, <2>3, <2>4
<1>3. \A n \in 0..logSize : /\ Upto(log', n) = Upto(log, n) /\ Len(Upto(log, n)) = n
                            /\ SubSeq(Upto(log, logSize), 1, n) = Upto(log, n)
  <2> SUFFICES ASSUME NEW n \in 0..logSize
               PROVE  /\ Upto(log', n) = Upto(log, n) /\ Len(Upto(log, n)) = n
                      /\ SubSeq(Upto(log, logSize), 1, n) = Upto(log, n)
    OBVIOUS
  <2>1. n \in 0..Len(log)
    BY <1>1
  <2> QED
    BY <1>1, <2>1, PrefixesStay, Prefixes, PrefixOfPrefix
<1>4. Upto(log', logSize') = Upto(log, logSize)
  <2>1. logSize \in 0..logSize
    BY <1>1
  <2> QED
    BY <1>3, <2>1
<1>5. Copies(log', held') = [Copies(log, held) EXCEPT ![i] = SubSeq(Upto(log, logSize), 1, held'[i])]
  BY <1>2, <1>3 DEF Copies
<1>6. Copies(log', applied')
        = [Copies(log, applied) EXCEPT ![i] = SubSeq(Upto(log, logSize), 1, applied'[i])]
  BY <1>2, <1>3 DEF Copies
<1>7. /\ held'[i] \in Len(Copies(log, held)[i])..Len(Upto(log, logSize))
      /\ applied'[i] \in Len(Copies(log, applied)[i])..Len(Copies(log', held')[i])
      /\ Len(Copies(log, applied)[i]) = applied[i]
  BY <1>1, <1>2, <1>3 DEF Copies
<1>8. applied'[i] > Len(Copies(log, applied)[i]) => RL!IsCommitted(Copies(log', held'), applied'[i])
  <2>1. held' \in [Master -> 0..Len(log')] /\ applied'[i] \in Nat /\ applied[i] \in Nat
    BY <1>1, <1>2
  <2> QED
    BY <1>1, <1>7, <2>1, MajorityCommits
<1>9. \/ Told(client') = Told(client)
      \/ \E k \in DOMAIN Upto(log, logSize) :
           /\ RL!IsCommitted(Copies(log', held'), k)
           /\ Told(client') = Told(client) \cup {<<k, Upto(log, logSize)[k]>>}
  <2>1. /\ DOMAIN Upto(log, logSize) = 1..logSize
        /\ \A k \in 1..logSize : Upto(log, logSize)[k] = log[k]
    BY <1>1, Prefixes
  <2>2. held' \in [Master -> 0..Len(log')] /\ \A k \in 1..logSize : k \in Nat
    BY <1>1, <1>2
  <2>3. \A k \in 1..logSize : Majority(held', k) => RL!IsCommitted(Copies(log', held'), k)
    BY <1>1, <2>2, MajorityCommits
  <2> QED
    BY <2>1, <2>3
<1> QED
  BY <1>4, <1>5, <1>6, <1>7, <1>8, <1>9, Zenon DEF RL!Progress, RL!Answer, Upto, Copies, Told


(* Only a round that succeeds tells clients anything, and the one thing it *)
(* tells is the place of its entry.                                        *)
LEMMA ClientsTold ==
  ASSUME TypeInv, StableInv, [Next]_vars
  PROVE  \/ Told(client') = Told(client)
         \/ /\ RoundSucceeds /\ logSize \in 1..Len(log)
            /\ Told(client') = Told(client) \cup {<<logSize, log[logSize]>>}
<1>1. client \in [Client -> ClientState]
  BY DEF TypeInv, ClientTypes
<1>2. ASSUME \A c \in Client : client'[c] = client[c] \/
               (client[c].state # "submitted" /\ client'[c].state # "submitted")
      PROVE  Told(client') = Told(client)
  BY <1>2 DEF Told
<1>3. \A x \in ClientState : x.state = "asking" => Declined(x).state # "submitted"
  BY DEF Declined, AsksNext, ClientState
<1>4. CASE RoundSucceeds
  <2>1. \A c \in Client : client'[c] = Submitted(c)
    BY <1>4 DEF RoundSucceeds
  <2>2. CASE \A c \in Client : ~IsWaiting(c, logSize)
    <3>1. \A c \in Client : client'[c] = client[c]
      BY <2>1, <2>2 DEF Submitted
    <3> QED
      BY <1>2, <3>1
  <2>3. ASSUME NEW d \in Client, IsWaiting(d, logSize)
        PROVE  logSize \in 1..Len(log) /\ Told(client') = Told(client) \cup {<<logSize, log[logSize]>>}
    <3>1. logSize > 0
      BY <1>4, MasterNumbers DEF RoundSucceeds, RoundOver, TypeInv, IndexTypes, LogTypes
    <3>2. logSize \in 1..Len(log) /\ log[logSize] = SubmitTaskLog
      BY <2>3, <3>1 DEF IsWaiting, StableInv, WaitInv
    <3>3. \A c \in Client : IsWaiting(c, logSize) =>
            client'[c].state = "submitted" /\ client'[c].at = logSize /\ client[c].state # "submitted"
      BY <1>1, <2>1 DEF Submitted, IsWaiting, ClientState
    <3>4. \A c \in Client : ~IsWaiting(c, logSize) => client'[c] = client[c]
      BY <2>1 DEF Submitted
    <3>5. Told(client') \subseteq Told(client) \cup {<<logSize, SubmitTaskLog>>}
      BY <3>3, <3>4 DEF Told
    <3>6. Told(client) \subseteq Told(client')
      BY <3>3, <3>4 DEF Told
    <3>7. <<logSize, SubmitTaskLog>> \in Told(client')
      BY <2>3, <3>3 DEF Told
    <3> QED
      BY <3>2, <3>5, <3>6, <3>7
  <2> QED
    BY <1>4, <2>2, <2>3
<1>5. CASE UNCHANGED client
  BY <1>5
<1>6. ASSUME NEW c \in Client, submitTask(c) \/ SubmitTask(c) PROVE Told(client') = Told(client)
  <2>1. \A d \in Client : d # c => client'[d] = client[d]
    BY <1>1, <1>6 DEF submitTask, SubmitTask, handleTaskSubmission, SubmitTaskFails, Put
  <2>2. client[c].state # "submitted"
    BY <1>6 DEF submitTask, SubmitTask, handleTaskSubmission, SubmitTaskFails
  <2>3. client'[c].state # "submitted"
    <3>1. client[c] \in ClientState
      BY <1>1
    <3>2. CASE submitTask(c)
      BY <1>1, <3>2 DEF submitTask, Put
    <3>3. CASE client[c].state = "asking" /\ client' = [client EXCEPT ![c] = Declined(@)]
      BY <1>1, <1>3, <3>1, <3>3
    <3>4. CASE client' = [client EXCEPT ![c].at = Len(log) + 1]
      BY <1>1, <2>2, <3>1, <3>4 DEF ClientState
    <3> QED
      BY <1>6, <3>2, <3>3, <3>4 DEF SubmitTask, handleTaskSubmission, SubmitTaskFails
  <2> QED
    BY <1>2, <2>1, <2>2, <2>3
<1>7. CASE RoundGivesUp
  <2>1. \A c \in Client : client'[c] = Unsubmitted(c)
    BY <1>7 DEF RoundGivesUp
  <2>2. \A c \in Client : client'[c] = client[c] \/
          (client[c].state # "submitted" /\ client'[c].state # "submitted")
    BY <1>1, <1>3, <2>1 DEF Unsubmitted, IsWaiting
  <2> QED
    BY <1>2, <2>2
<1>8. \/ UNCHANGED client
      \/ \E c \in Client : submitTask(c) \/ SubmitTask(c)
      \/ RoundGivesUp \/ RoundSucceeds
  BY DEF Next, vars, clientVars, taskExecutionPeriodicCallback, syncWorker, RoundStarts,
         AppendRpc, handleAppendEntries, AppendFails, Heartbeat, commitUpTo, ApplySubmit, ApplyAssign,
         ApplyFinish, commitUpToEnds, ExecuteTaskRpc, ExecuteTask, ExecuteTaskReturns, MasterCrash,
         taskExecutor, taskExecutorStarts, taskExecutorEnds, handleTaskCompletion, FinishTaskFails,
         handlePing, WorkerCrash, WorkerRestart, WorkerTimeout
<1> QED
  BY <1>4, <1>5, <1>6, <1>7, <1>8

(* The next request becomes an entry: the leader writes.                   *)
LEMMA RoundWrites ==
  ASSUME TypeInv, TypeInv', StableInv, [Next]_vars, RoundStarts
  PROVE  \E v \in Entry : RL!Write(Leader, v)
<1>1. /\ log \in Seq(Entry) /\ log' = log /\ logSize' = logSize + 1 /\ logSize \in Nat
      /\ logSize + 1 <= Len(log) /\ Leader \in Master
      /\ held' = [held EXCEPT ![Leader] = logSize + 1] /\ applied' = applied /\ client' = client
      /\ held \in [Master -> 0..logSize] /\ held[Leader] = logSize
  BY LenProperties, MasterNumbers DEF RoundStarts, Put, TypeInv, LogTypes, IndexTypes, clientVars
<1>2. PICK v \in Entry : Upto(log', logSize') = Append(Upto(log, logSize), v)
  BY <1>1, LongerPrefix
<1>3. Copies(log, held)[Leader] = Upto(log, logSize)
  BY <1>1 DEF Copies
<1>4. Copies(log', held')
        = [Copies(log, held) EXCEPT ![Leader] = Append(Upto(log, logSize), v)]
  BY <1>1, <1>2 DEF Copies
<1>5. /\ Copies(log', applied') = Copies(log, applied)
      /\ Told(client') = Told(client)
  BY <1>1
<1>6. [Copies(log, held) EXCEPT ![Leader] = Append(@, v)]
        = [Copies(log, held) EXCEPT ![Leader] = Append(Upto(log, logSize), v)]
  BY <1>3
<1>7. RL!Write(Leader, v)
  BY <1>2, <1>3, <1>4, <1>5, <1>6, Zenon DEF RL!Write, Upto, Copies, Told
<1> QED
  BY <1>2, <1>7

LEMMA LogStep ==
  ASSUME RaftSize <= 3, TypeInv, TypeInv', StableInv, StableInv', [Next]_vars
  PROVE  [RL!Next]_(RL!vars)
<1> SUFFICES \/ \E i \in Master : RL!Progress(i) \/ \E v \in Entry : RL!Write(i, v)
             \/ RL!vars' = RL!vars
  BY DEF RL!Next, RL!vars
<1>1. /\ held \in [Master -> Nat] /\ applied \in [Master -> Nat] /\ logSize \in Nat
      /\ Leader \in Master
  <2>1. log \in Seq(Entry) /\ logSize \in 0..Len(log)
    BY DEF TypeInv, LogTypes
  <2>2. held \in [Master -> 0..logSize] /\ applied \in [Master -> Nat]
    BY DEF TypeInv, IndexTypes
  <2> QED
    BY <2>1, <2>2, SizesAreNat, MasterNumbers
<1>2. CASE RoundStarts
  BY <1>1, <1>2, RoundWrites
<1>3. ASSUME logSize' = logSize, held' = held, applied' = applied, ~RoundSucceeds
      PROVE  \E i \in Master : RL!Progress(i)
  <2>1. held[Leader] <= held'[Leader] /\ applied[Leader] <= applied'[Leader]
        /\ ~(applied[Leader] < applied'[Leader])
    BY <1>1, <1>3
  <2> QED
    BY <1>1, <1>3, <2>1, ClientsTold, ProgressStep
<1>4. CASE RoundSucceeds
  <2>1. logSize' = logSize /\ held' = held /\ applied' = applied
    BY <1>4 DEF RoundSucceeds
  <2>2. held[Leader] <= held'[Leader] /\ applied[Leader] <= applied'[Leader]
        /\ ~(applied[Leader] < applied'[Leader])
    BY <1>1, <2>1
  <2>3. Majority(held', logSize)
    BY <1>4, <2>1, RoundReached DEF RoundSucceeds, RoundOver, StableInv, RoundInv
  <2>4. logSize \in 1..Len(log) => logSize \in 1..logSize
    BY <1>1
  <2>5. \/ Told(client') = Told(client)
        \/ \E k \in 1..logSize : /\ Majority(held', k)
                                 /\ Told(client') = Told(client) \cup {<<k, log[k]>>}
    BY <2>3, <2>4, ClientsTold
  <2> QED
    BY <1>1, <2>1, <2>2, <2>5, ProgressStep
<1>5. ASSUME NEW j \in Followers, handleAppendEntries(j) PROVE \E i \in Master : RL!Progress(i)
  <2>1. j \in Master /\ logSize' = logSize /\ held' = [held EXCEPT ![j] = logSize] /\ applied' = applied
    BY <1>5 DEF handleAppendEntries, Followers, Put
  <2>2. held[j] <= held'[j] /\ applied[j] <= applied'[j] /\ ~(applied[j] < applied'[j])
    BY <1>1, <2>1, HeldGrows
  <2>3. ~RoundSucceeds
    BY <1>5 DEF handleAppendEntries, RoundSucceeds, NoRound
  <2>4. \A i \in Master \ {j} : held'[i] = held[i] /\ applied'[i] = applied[i]
    BY <1>1, <2>1
  <2> QED
    BY <2>1, <2>2, <2>3, <2>4, ClientsTold, ProgressStep
<1>6. ASSUME NEW i \in Master, Applies(i) PROVE \E k \in Master : RL!Progress(k)
  <2>1. logSize' = logSize /\ held' = held /\ applyEnd' = applyEnd
    BY <1>6 DEF Applies, ApplySubmit, ApplyAssign, ApplyFinish, logVars
  <2>2. ~RoundSucceeds
    BY <1>6 DEF Applies, ApplySubmit, ApplyAssign, ApplyFinish, NextApplied, RoundSucceeds,
                RoundOver, Free, MuxHeld, logVars, NoRound
  <2>3. applied' = applied \/ applied' = [applied EXCEPT ![i] = @ + 1]
    BY <1>6 DEF Applies, ApplySubmit, ApplyAssign, ApplyFinish, Apply
  <2>4. held[i] <= held'[i] /\ applied[i] <= applied'[i]
    BY <1>1, <2>1, <2>3
  <2>5. \A k \in Master \ {i} : held'[k] = held[k] /\ applied'[k] = applied[k]
    BY <1>1, <2>1, <2>3
  <2>6. applied[i] < applied'[i] => Majority(held', applied'[i])
    <3>1. applyEnd \in [Master -> Nat] /\ applied' \in [Master -> Nat] /\ applied'[i] <= applyEnd'[i]
      BY DEF TypeInv, IndexTypes
    <3>2. applied[i] < applied'[i] => Majority(held, applyEnd[i])
      BY <1>1, <2>1, <3>1 DEF StableInv, CommitInv
    <3> QED
      BY <1>1, <2>1, <3>1, <3>2, MajorityKept
  <2> QED
    BY <2>1, <2>2, <2>4, <2>5, <2>6, ClientsTold, ProgressStep
<1>7. ASSUME NEW j \in Followers, AppendFails(j) \/ Heartbeat(j) PROVE \E i \in Master : RL!Progress(i)
  <2>1. logSize' = logSize /\ held' = held /\ applied' = applied
    BY <1>7 DEF AppendFails, Heartbeat, masterVars, logVars
  <2>2. ~RoundSucceeds
    BY <1>7 DEF AppendFails, Heartbeat, RoundSucceeds, RoundOver, NoRound, logVars, TypeInv, LogTypes, Round
  <2> QED
    BY <1>3, <2>1, <2>2
<1>8. CASE RoundGivesUp
  <2>1. logSize' = logSize /\ held' = held /\ applied' = applied
    BY <1>8 DEF RoundGivesUp, masterVars
  <2>2. ~RoundSucceeds
    BY <1>8 DEF RoundGivesUp, RoundSucceeds
  <2> QED
    BY <1>3, <2>1, <2>2
<1>9. CASE SameRound /\ SameLogs /\ SamePositions
  <2>1. logSize' = logSize /\ held' = held /\ applied' = applied
    BY <1>9 DEF SameLogs, SamePositions
  <2>2. ~RoundSucceeds
    BY <1>9 DEF SameRound, RoundSucceeds, RoundOver, NoRound
  <2> QED
    BY <1>3, <2>1, <2>2
<1> QED
  BY <1>2, <1>4, <1>5, <1>6, <1>7, <1>8, <1>9, LogSteps

LEMMA LogStart == ASSUME Init PROVE RL!Init
<1>1. SubSeq(<<>>, 1, 0) = <<>>
  BY SubSeqEmpty
<1>2. /\ SubSeq(log, 1, logSize) = <<>>
      /\ \A i \in Master : SubSeq(log, 1, held[i]) = <<>> /\ SubSeq(log, 1, applied[i]) = <<>>
  BY <1>1 DEF Init
<1>3. {c \in Client : client[c].state = "submitted"} = {}
  BY DEF Init
<1> QED
  BY <1>2, <1>3 DEF RL!Init

(* Whatever rounds fail, whichever RPCs are lost and whoever crashes: the  *)
(* masters apply, in the order of one log, only what a majority of them    *)
(* has, and a client is told the id of such an entry.  handleAppendEntries *)
(* takes leadercommit on trust, so this is about three masters at most.    *)
THEOREM ScheduleLogImplemented == ASSUME RaftSize <= 3 PROVE Spec => LogImplemented
<1>1. Init => RL!Init
  BY LogStart
<1>2. TypeInv /\ TypeInv' /\ StableInv /\ StableInv' /\ [Next]_vars => [RL!Next]_(RL!vars)
  BY LogStep
<1> QED
  BY <1>1, <1>2, TypeInvariant, StableInvariant, PTL DEF Spec, LogImplemented, RL!Spec

=============================================================================
