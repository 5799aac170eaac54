--------------------------- MODULE RaftStateProofs ---------------------------
(***************************************************************************)
(* Theorems about RaftState, for any number of masters and any bounds.     *)
(***************************************************************************)
EXTENDS RaftState, TLAPS, SequenceTheorems, FiniteSetTheorems

-----------------------------------------------------------------------------
(* Sequences.                                                              *)

(* A piece of a log is a log, as long as it starts inside or just behind.  *)
LEMMA PieceOfLog ==
  ASSUME NEW S, NEW s \in Seq(S), NEW m \in Nat \ {0}, NEW n \in Nat, n <= Len(s)
  PROVE  /\ SubSeq(s, m, n) \in Seq(S)
         /\ m <= n => Len(SubSeq(s, m, n)) = n - m + 1
         /\ m > n => Len(SubSeq(s, m, n)) = 0
  BY SubSeqProperties, LenProperties

(* What appendEntries makes of a log: a log that is not shorter and holds  *)
(* all the new entries.                                                    *)
LEMMA MergedLog ==
  ASSUME NEW lg \in Seq(Entry), NEW es \in Seq(Entry), NEW prev \in LogIndex, prev < Len(lg)
  PROVE  /\ Merged(lg, prev, es) \in Seq(Entry)
         /\ Len(Merged(lg, prev, es)) >= Len(lg)
<1> DEFINE front == SubSeq(lg, 1, prev + 1)
           back == SubSeq(lg, prev + Len(es) + 2, Len(lg))
<1>1. /\ Len(lg) \in Nat /\ Len(es) \in Nat
      /\ prev \in Int /\ prev >= -1 /\ prev + 1 <= Len(lg)
      /\ prev + 1 \in Nat /\ prev + Len(es) + 2 \in Nat \ {0}
  BY LenProperties DEF LogIndex
<1>2. front \in Seq(Entry) /\ Len(front) = prev + 1
  BY <1>1, PieceOfLog
<1>3. /\ back \in Seq(Entry)
      /\ Len(back) \in Nat
      /\ prev + Len(es) + 2 <= Len(lg) => Len(back) = Len(lg) - prev - Len(es) - 1
  BY <1>1, PieceOfLog, LenProperties
<1>4. front \o es \in Seq(Entry) /\ Len(front \o es) = prev + 1 + Len(es)
  BY <1>1, <1>2, ConcatProperties
<1>5. /\ (front \o es) \o back \in Seq(Entry)
      /\ Len((front \o es) \o back) = prev + 1 + Len(es) + Len(back)
  BY <1>3, <1>4, ConcatProperties
<1>6. Merged(lg, prev, es) = (front \o es) \o back
  BY DEF Merged
<1> HIDE DEF front, back
<1>7. prev + 1 + Len(es) + Len(back) >= Len(lg)
  BY <1>1, <1>3
<1>8. QED
  BY <1>5, <1>6, <1>7

(* commitUpTo leaves last_applied_ within the log and the commit index.    *)
LEMMA AppliedAfterCommit ==
  ASSUME NEW done \in Seq(Cmd \cup AssignCmd), NEW lg \in Seq(Entry), NEW end \in Nat,
         Len(done) <= Len(lg), Len(done) <= end
  PROVE  LET new == done \o Content(SubSeq(lg, Len(done) + 1, MinOf(end, Len(lg))))
         IN /\ new \in Seq(Cmd \cup AssignCmd)
            /\ Len(new) <= Len(lg) /\ Len(new) <= end
<1> DEFINE piece == SubSeq(lg, Len(done) + 1, MinOf(end, Len(lg)))
<1>1. Len(lg) \in Nat /\ Len(done) \in Nat
  BY LenProperties
<1>2. MinOf(end, Len(lg)) \in Nat /\ MinOf(end, Len(lg)) <= Len(lg) /\ MinOf(end, Len(lg)) <= end
      /\ Len(done) <= MinOf(end, Len(lg))
  BY <1>1 DEF MinOf
<1>3. piece \in Seq(Entry) /\ Len(piece) = MinOf(end, Len(lg)) - Len(done)
  BY <1>1, <1>2, PieceOfLog
<1> HIDE DEF piece
<1>4. Content(piece) \in Seq(Cmd \cup AssignCmd) /\ Len(Content(piece)) = Len(piece)
  <2>1. DOMAIN piece = 1..Len(piece) /\ Len(piece) \in Nat
    BY <1>3, LenProperties
  <2>2. \A k \in 1..Len(piece) : piece[k].cmd \in Cmd \cup AssignCmd
    <3> TAKE k \in 1..Len(piece)
    <3>1. piece[k] \in Entry
      BY <1>3, ElementOfSeq
    <3>2. QED
      BY <3>1 DEF Entry
  <2>3. Content(piece) \in [1..Len(piece) -> Cmd \cup AssignCmd]
    BY <2>1, <2>2 DEF Content
  <2>4. QED
    BY <2>1, <2>3, IsASeq, LenProperties
<1>5. done \o Content(piece) \in Seq(Cmd \cup AssignCmd)
      /\ Len(done \o Content(piece)) = Len(done) + Len(Content(piece))
  BY <1>4, ConcatProperties
<1>6. QED
  BY <1>1, <1>2, <1>3, <1>4, <1>5 DEF piece

-----------------------------------------------------------------------------
(* Types.  Some values are typed only because the indices behind them are  *)
(* in the log, so the two are one inductive invariant.                     *)
TypeInv == TypeOK /\ IndicesInLog

LEMMA TimerTypes ==
  ASSUME NEW t \in TimerState
  PROVE  /\ SetDeadline(t) \in TimerState
         /\ Expired(t) \in TimerState
         /\ Called(t) \subseteq TimerState
<1>1. t.pending \in BOOLEAN /\ t.due \in Nat
  BY DEF TimerState
<1>2. SetDeadline(t) \in TimerState /\ Expired(t) \in TimerState
  BY <1>1 DEF TimerState, SetDeadline, Expired
<1>3. ASSUME NEW u \in Called(t) PROVE u \in TimerState
  <2>1. CASE t.due > 0 /\ u = [pending |-> t.pending, due |-> t.due - 1]
    BY <1>1, <2>1 DEF TimerState
  <2>2. CASE u = [pending |-> FALSE, due |-> t.due]
    BY <1>1, <2>2 DEF TimerState
  <2>3. QED
    BY <1>3, <2>1, <2>2 DEF Called
<1>4. QED
  BY <1>2, <1>3

LEMMA InitTypeInv == Init => TypeInv
<1> SUFFICES ASSUME Init PROVE TypeInv
  OBVIOUS
<1>1. SetDeadline(NewTimer) \in TimerState /\ NewTimer \in TimerState
  BY DEF SetDeadline, NewTimer, TimerState
<1>2. ServerTypeOK /\ TimerTypeOK /\ ElectTypeOK
  BY <1>1 DEF Init, ServerTypeOK, TimerTypeOK, ElectTypeOK, Status, Role
<1>3. LogTypeOK
  BY EmptySeq DEF Init, LogTypeOK
<1>4. SyncTypeOK
  BY EmptySeq DEF Init, SyncTypeOK, Sync, NoSync, Promise, Answered
<1>5. AppendTypeOK
  BY DEF Init, AppendTypeOK, BeatState, NoBeat
<1>6. IndicesInLog
  BY EmptySeq DEF Init, IndicesInLog, NextInLog, SyncInLog, BeatsInLog, AppliedInLog, NoSync, NoBeat
<1>7. QED
  BY <1>2, <1>3, <1>4, <1>5, <1>6 DEF TypeInv, TypeOK

(* The end of a process leaves nothing of it to be typed.                  *)
LEMMA DieTypeInv ==
  ASSUME TypeInv, NEW i \in Server, NEW how \in Status \ {"running"}, Die(i, how)
  PROVE  TypeInv'
<1> USE DEF TypeInv, TypeOK
<1>1. ServerTypeOK'
  BY DEF Die, ServerTypeOK, serverVars, Put, Status
<1>2. LogTypeOK'
  BY DEF Die, LogTypeOK, logVars
<1>3. SyncTypeOK'
  <2>1. \A S : Failed(S) \in [Cmd -> Promise]
    BY DEF Failed, SyncTypeOK, Answered, Promise
  <2>2. QED
    BY <2>1, EmptySeq DEF Die, SyncTypeOK, Put, NoSync, Sync
<1>4. TimerTypeOK'
  BY DEF Die, TimerTypeOK, timerVars
<1>5. ElectTypeOK'
  BY DEF Die, ElectTypeOK
<1>6. AppendTypeOK'
  BY DEF Die, AppendTypeOK, Put, NoBeat, BeatState
<1>7. IndicesInLog'
  BY DEF Die, IndicesInLog, Running, NextInLog, SyncInLog, BeatsInLog, AppliedInLog, Put, ServerTypeOK, SyncTypeOK, AppendTypeOK, serverVars, logVars
<1>8. QED
  BY <1>1, <1>2, <1>3, <1>4, <1>5, <1>6, <1>7

(* Frames: what is not touched keeps its type.                             *)
LEMMA Frames ==
  ASSUME TypeOK
  PROVE  /\ UNCHANGED <<status, serverVars>> => ServerTypeOK'
         /\ UNCHANGED logVars => LogTypeOK'
         /\ UNCHANGED syncVars => SyncTypeOK'
         /\ UNCHANGED timerVars => TimerTypeOK'
         /\ UNCHANGED electVars => ElectTypeOK'
         /\ UNCHANGED appendVars => AppendTypeOK'
<1> USE DEF TypeOK
<1>1. UNCHANGED <<status, serverVars>> => ServerTypeOK'
  BY DEF serverVars, ServerTypeOK
<1>2. UNCHANGED logVars => LogTypeOK'
  BY DEF logVars, LogTypeOK
<1>3. UNCHANGED syncVars => SyncTypeOK'
  BY DEF syncVars, SyncTypeOK
<1>4. UNCHANGED timerVars => TimerTypeOK'
  BY DEF timerVars, TimerTypeOK
<1>5. UNCHANGED electVars => ElectTypeOK'
  BY DEF electVars, ElectTypeOK
<1>6. UNCHANGED appendVars => AppendTypeOK'
  BY DEF appendVars, AppendTypeOK
<1>7. QED
  BY <1>1, <1>2, <1>3, <1>4, <1>5, <1>6

(* The indices stay in the logs if no log shrinks, nobody gets new indices *)
(* and nothing is applied.                                                 *)
LEMMA IndicesKept ==
  ASSUME TypeInv,
         \A i \in Server : Running(i)' => Running(i),
         \A i \in Server : Len(log'[i]) = Len(log[i]),
         \A i \in Server : role'[i] = "leader" => role[i] = "leader" /\ next_index'[i] = next_index[i],
         \A i \in Server : sync'[i].busy => sync'[i] = sync[i],
         \A i \in Server : \A b \in Beat : beats'[i][b].logSize \in {0, beats[i][b].logSize},
         applied' = applied, commit_index' = commit_index
  PROVE  IndicesInLog'
<1> SUFFICES ASSUME NEW i \in Server, Running(i)'
             PROVE  (NextInLog(i) /\ SyncInLog(i) /\ BeatsInLog(i) /\ AppliedInLog(i))'
  BY DEF IndicesInLog
<1>1. NextInLog(i) /\ SyncInLog(i) /\ BeatsInLog(i) /\ AppliedInLog(i)
  BY DEF TypeInv, IndicesInLog
<1>2. Len(log'[i]) = Len(log[i]) /\ Len(log[i]) \in Nat
  BY LenProperties DEF TypeInv, TypeOK, LogTypeOK
<1>3. NextInLog(i)'
  BY <1>1, <1>2 DEF NextInLog
<1>4. SyncInLog(i)'
  BY <1>1, <1>2 DEF SyncInLog
<1>5. BeatsInLog(i)'
  <2> SUFFICES ASSUME NEW b \in Beat PROVE beats'[i][b].logSize <= Len(log[i])
    BY <1>2 DEF BeatsInLog
  <2>1. beats[i][b].logSize <= Len(log[i])
    BY <1>1 DEF BeatsInLog
  <2>2. QED
    BY <1>2, <2>1
<1>6. AppliedInLog(i)'
  BY <1>1, <1>2 DEF AppliedInLog
<1>7. QED
  BY <1>3, <1>4, <1>5, <1>6

-----------------------------------------------------------------------------
(* Elections.                                                              *)
LEMMA CandidateTimeoutTypeInv ==
  ASSUME TypeInv, NEW i \in Server, candidateTimeoutCallback(i)
  PROVE  TypeInv'
<1> USE DEF TypeInv, TypeOK
<1>1. ServerTypeOK'
  BY DEF candidateTimeoutCallback, ServerTypeOK, Put
<1>2. LogTypeOK' /\ SyncTypeOK' /\ AppendTypeOK'
  BY Frames DEF candidateTimeoutCallback
<1>3. TimerTypeOK'
  BY TimerTypes DEF candidateTimeoutCallback, TimerTypeOK, Put
<1>4. ElectTypeOK'
  <2>1. Len(log[i]) - 1 \in LogIndex
    BY LenProperties DEF LogTypeOK, LogIndex
  <2>2. current_term[i] + 1 \in Nat
    BY DEF ServerTypeOK
  <2>3. {[cand |-> i, voter |-> j, term |-> current_term[i] + 1, lastLogIndex |-> Len(log[i]) - 1] :
           j \in Peers(i)} \subseteq VoteCall
    BY <2>1, <2>2 DEF VoteCall, Peers
  <2>4. QED
    BY <2>2, <2>3 DEF candidateTimeoutCallback, ElectTypeOK
<1>5. IndicesInLog'
  BY IndicesKept DEF candidateTimeoutCallback, Running, logVars, syncVars, appendVars
<1>6. QED
  BY <1>1, <1>2, <1>3, <1>4, <1>5

LEMMA CandidateReturnsTypeInv ==
  ASSUME TypeInv, NEW i \in Server, candidateTimeoutReturns(i)
  PROVE  TypeInv'
<1> USE DEF TypeInv, TypeOK
<1>1. ServerTypeOK' /\ LogTypeOK' /\ SyncTypeOK' /\ ElectTypeOK' /\ AppendTypeOK'
  BY Frames DEF candidateTimeoutReturns
<1>2. TimerTypeOK'
  BY TimerTypes DEF candidateTimeoutReturns, TimerTypeOK, Put
<1>3. IndicesInLog'
  BY IndicesKept DEF candidateTimeoutReturns, Running, serverVars, logVars, syncVars, appendVars
<1>4. QED
  BY <1>1, <1>2, <1>3

LEMMA VoteAnswerTypes ==
  ASSUME TypeOK, NEW m \in VoteCall, NEW granted \in BOOLEAN, NEW replyTerm \in Nat,
         VoteAnswer(m, granted, replyTerm), UNCHANGED <<electing, elected>>
  PROVE  ElectTypeOK'
<1>1. [cand |-> m.cand, voter |-> m.voter, term |-> m.term,
       granted |-> granted, replyTerm |-> replyTerm] \in VoteReply
  BY DEF VoteCall, VoteReply
<1>2. QED
  BY <1>1 DEF VoteAnswer, TypeOK, ElectTypeOK

LEMMA HandleVoteTypeInv ==
  ASSUME TypeInv, NEW m \in voteCalls, handleVoteRequest(m)
  PROVE  TypeInv'
<1> USE DEF TypeInv, TypeOK
<1>1. m \in VoteCall /\ m.voter \in Server /\ m.cand \in Server /\ m.term \in Nat
  BY DEF ElectTypeOK, VoteCall
<1>2. ServerTypeOK'
  BY <1>1 DEF handleVoteRequest, ServerTypeOK, serverVars, switchToFollower, Put, Role
<1>3. LogTypeOK' /\ SyncTypeOK' /\ AppendTypeOK'
  BY Frames DEF handleVoteRequest
<1>4. TimerTypeOK'
  BY <1>1, TimerTypes DEF handleVoteRequest, TimerTypeOK, switchToFollower, Arm
<1>5. ElectTypeOK'
  <2>1. Grants(m.voter, m) \in BOOLEAN
    BY DEF Grants, LongEnough
  <2>2. current_term[m.voter] \in Nat
    BY <1>1 DEF ServerTypeOK
  <2>3. \E g \in BOOLEAN, t \in Nat : VoteAnswer(m, g, t)
    BY <1>1, <2>1, <2>2 DEF handleVoteRequest
  <2>4. QED
    BY <1>1, <2>3, VoteAnswerTypes DEF handleVoteRequest
<1>6. IndicesInLog'
  BY IndicesKept DEF handleVoteRequest, Running, serverVars, switchToFollower, Put, ServerTypeOK, logVars, syncVars, appendVars
<1>7. QED
  BY <1>2, <1>3, <1>4, <1>5, <1>6

LEMMA VoteFailsTypeInv ==
  ASSUME TypeInv, NEW m \in voteCalls, VoteCallFails(m)
  PROVE  TypeInv'
<1> USE DEF TypeInv, TypeOK
<1>1. ServerTypeOK' /\ LogTypeOK' /\ SyncTypeOK' /\ TimerTypeOK' /\ AppendTypeOK'
  BY Frames DEF VoteCallFails
<1>2. ElectTypeOK'
  BY VoteAnswerTypes DEF VoteCallFails, ElectTypeOK
<1>3. IndicesInLog'
  BY IndicesKept DEF VoteCallFails, Running, serverVars, logVars, syncVars, appendVars
<1>4. QED
  BY <1>1, <1>2, <1>3

LEMMA BecomesLeaderTypeInv ==
  ASSUME TypeInv, NEW i \in Server, NEW t, <<i, t>> \in electing, BecomesLeader(i, t)
  PROVE  TypeInv'
<1> USE DEF TypeInv, TypeOK
<1>1. t \in Nat
  BY DEF ElectTypeOK
<1>2. ServerTypeOK'
  BY DEF BecomesLeader, ServerTypeOK, switchToLeader, Put, Role
<1>3. LogTypeOK' /\ AppendTypeOK'
  BY Frames DEF BecomesLeader
<1>4. Len(log[i]) \in Nat
  BY LenProperties DEF LogTypeOK
<1>5. SyncTypeOK'
  <2>1. \/ next_index' = next_index
        \/ next_index' = [next_index EXCEPT ![i] = [j \in Server |-> Len(log[i])]]
    BY DEF BecomesLeader, switchToLeader, Put
  <2>2. next_index' \in [Server -> [Server -> Nat]]
    BY <1>4, <2>1 DEF SyncTypeOK
  <2>3. UNCHANGED <<request_queue, sync, promise>>
    BY DEF BecomesLeader
  <2>4. QED
    BY <2>2, <2>3 DEF SyncTypeOK
<1>6. TimerTypeOK'
  <2>1. /\ \/ UNCHANGED <<leader_periodic, task_execution_periodic>>
           \/ Arm(leader_periodic, i) /\ Arm(task_execution_periodic, i)
        /\ UNCHANGED <<candidate_timeout, follower_timeout>>
    BY DEF BecomesLeader, switchToLeader
  <2>2. QED
    BY <2>1, TimerTypes DEF TimerTypeOK, Arm
<1>7. ElectTypeOK'
  BY <1>1 DEF BecomesLeader, ElectReturns, ElectTypeOK
<1>8. IndicesInLog'
  <2> SUFFICES ASSUME NEW k \in Server, Running(k)'
               PROVE  (NextInLog(k) /\ SyncInLog(k) /\ BeatsInLog(k) /\ AppliedInLog(k))'
    BY DEF IndicesInLog
  <2>1. NextInLog(k) /\ SyncInLog(k) /\ BeatsInLog(k) /\ AppliedInLog(k)
    BY DEF IndicesInLog, Running, BecomesLeader
  <2>2. NextInLog(k)'
    <3>1. log' = log
      BY DEF BecomesLeader, logVars
    <3>2. CASE k = i /\ role[i] # "leader"
      <4>1. next_index'[i] = [j \in Server |-> Len(log[i])]
        BY <3>2 DEF BecomesLeader, switchToLeader, Put, SyncTypeOK
      <4>2. QED
        BY <1>4, <3>1, <3>2, <4>1 DEF NextInLog
    <3>3. CASE ~(k = i /\ role[i] # "leader")
      <4>1. role'[k] = role[k] /\ next_index'[k] = next_index[k]
        BY <3>3 DEF BecomesLeader, switchToLeader, Put, ServerTypeOK, SyncTypeOK
      <4>2. QED
        BY <2>1, <3>1, <4>1 DEF NextInLog
    <3>4. QED
      BY <3>2, <3>3
  <2>3. QED
    BY <2>1, <2>2 DEF SyncInLog, BeatsInLog, AppliedInLog, BecomesLeader, logVars, appendVars
<1>9. QED
  BY <1>2, <1>3, <1>5, <1>6, <1>7, <1>8

LEMMA NotElectedTypeInv ==
  ASSUME TypeInv, NEW i \in Server, NEW t, <<i, t>> \in electing, NotElected(i, t)
  PROVE  TypeInv'
<1> USE DEF TypeInv, TypeOK
<1>1. ReplyTerms(i, t) \subseteq Nat
  BY DEF ReplyTerms, Replies, ElectTypeOK, VoteReply
<1>2. ServerTypeOK'
  BY <1>1 DEF NotElected, ServerTypeOK, updateTerm, Put
<1>3. LogTypeOK' /\ SyncTypeOK' /\ AppendTypeOK'
  BY Frames DEF NotElected
<1>4. TimerTypeOK'
  BY TimerTypes DEF NotElected, TimerTypeOK, Arm
<1>5. ElectTypeOK'
  BY DEF NotElected, ElectReturns, ElectTypeOK
<1>6. IndicesInLog'
  BY IndicesKept DEF NotElected, Running, logVars, syncVars, appendVars
<1>7. QED
  BY <1>2, <1>3, <1>4, <1>5, <1>6

LEMMA FollowerTimeoutTypeInv ==
  ASSUME TypeInv, NEW i \in Server, followerTimeoutCallback(i)
  PROVE  TypeInv'
<1> USE DEF TypeInv, TypeOK
<1>1. ServerTypeOK'
  BY DEF followerTimeoutCallback, ServerTypeOK, switchToCandidate, Put, Role
<1>2. LogTypeOK' /\ SyncTypeOK' /\ ElectTypeOK' /\ AppendTypeOK'
  BY Frames DEF followerTimeoutCallback
<1>3. TimerTypeOK'
  BY TimerTypes DEF followerTimeoutCallback, TimerTypeOK, switchToCandidate, Put, Arm
<1>4. IndicesInLog'
  BY IndicesKept DEF followerTimeoutCallback, Running, switchToCandidate, Put, ServerTypeOK, logVars, syncVars, appendVars
<1>5. QED
  BY <1>1, <1>2, <1>3, <1>4

-----------------------------------------------------------------------------
(* Requests and the sync thread.                                           *)
LEMMA TakeRequestTypeInv ==
  ASSUME TypeInv, NEW i \in Server, NEW c \in Cmd, TakeRequest(i, c)
  PROVE  TypeInv'
<1> USE DEF TypeInv, TypeOK
<1>1. ServerTypeOK' /\ LogTypeOK' /\ TimerTypeOK' /\ ElectTypeOK' /\ AppendTypeOK'
  BY Frames DEF TakeRequest
<1>2. SyncTypeOK'
  <2>1. Append(request_queue[i], c) \in Seq(Cmd \cup AssignCmd)
    BY AppendProperties DEF SyncTypeOK
  <2>2. \A s \in {"waiting", "failed"} : Answered(s, 0) \in Promise
    BY DEF Answered, Promise
  <2>3. QED
    BY <2>1, <2>2 DEF TakeRequest, SyncTypeOK, Put
<1>3. IndicesInLog'
  BY IndicesKept DEF TakeRequest, Running, serverVars, logVars, appendVars
<1>4. QED
  BY <1>1, <1>2, <1>3

LEMMA TaskExecutionTypeInv ==
  ASSUME TypeInv, NEW i \in Server, taskExecutionPeriodicCallback(i)
  PROVE  TypeInv'
<1> USE DEF TypeInv, TypeOK
<1>1. ServerTypeOK' /\ LogTypeOK' /\ ElectTypeOK' /\ AppendTypeOK'
  BY Frames DEF taskExecutionPeriodicCallback
<1>2. SyncTypeOK'
  <2>1. \A a \in AssignCmd : Append(request_queue[i], a) \in Seq(Cmd \cup AssignCmd)
    BY AppendProperties DEF SyncTypeOK
  <2>2. QED
    BY <2>1 DEF taskExecutionPeriodicCallback, SyncTypeOK, Put
<1>3. TimerTypeOK'
  BY TimerTypes DEF taskExecutionPeriodicCallback, TimerTypeOK, Put
<1>4. IndicesInLog'
  BY IndicesKept DEF taskExecutionPeriodicCallback, Running, serverVars, logVars, appendVars
<1>5. QED
  BY <1>1, <1>2, <1>3, <1>4

(* The answers of the sync thread.                                         *)
LEMMA PromiseTypes ==
  ASSUME SyncTypeOK
  PROVE  /\ \A S : Failed(S) \in [Cmd -> Promise]
         /\ \A i \in Server, s \in {"failed", "done"}, id \in Nat : Answer(i, s, id) \in [Cmd -> Promise]
<1>1. \A s \in {"failed", "done"}, id \in Nat : Answered(s, id) \in Promise
  BY DEF Answered, Promise
<1>2. QED
  BY <1>1 DEF Failed, Answer, SyncTypeOK, Put

LEMMA SyncRejectsTypeInv ==
  ASSUME TypeInv, NEW i \in Server, syncWorkerRejects(i)
  PROVE  TypeInv'
<1> USE DEF TypeInv, TypeOK
<1>1. ServerTypeOK' /\ LogTypeOK' /\ TimerTypeOK' /\ ElectTypeOK' /\ AppendTypeOK'
  BY Frames DEF syncWorkerRejects
<1>2. SyncTypeOK'
  BY PromiseTypes, EmptySeq DEF syncWorkerRejects, SyncTypeOK, Put
<1>3. IndicesInLog'
  BY IndicesKept DEF syncWorkerRejects, Running, serverVars, logVars, appendVars
<1>4. QED
  BY <1>1, <1>2, <1>3

(* An AppendEntries call made from a log and an index inside it.           *)
LEMMA SyncCallTypes ==
  ASSUME NEW i \in Server, NEW j \in Server, NEW lg \in Seq(Entry), lg # <<>>,
         NEW next \in Nat, next <= Len(lg), current_term[i] \in Nat
  PROVE  SyncCall(i, j, lg, next) \in AppendCall
<1>1. Len(lg) \in Nat /\ Len(lg) > 0
  BY LenProperties, EmptySeq
<1>2. next - 1 \in LogIndex /\ Len(lg) - 1 \in Nat
  BY <1>1 DEF LogIndex
<1>3. LastTerm(lg, next) \in Nat
  <2>1. CASE next = 0
    BY <2>1 DEF LastTerm
  <2>2. CASE next # 0
    <3>1. lg[next] \in Entry
      BY <1>1, <2>2, ElementOfSeq
    <3>2. QED
      BY <2>2, <3>1 DEF LastTerm, Entry
  <2>3. QED
    BY <2>1, <2>2
<1>4. SubSeq(lg, next + 1, Len(lg)) \in Seq(Entry)
  BY <1>1, PieceOfLog
<1>5. QED
  BY <1>2, <1>3, <1>4 DEF SyncCall, AppendCall

LEMMA SyncAppendsTypeInv ==
  ASSUME TypeInv, NEW i \in Server, syncWorkerAppends(i)
  PROVE  TypeInv'
<1> USE DEF TypeInv, TypeOK
<1> DEFINE c == Head(request_queue[i])
           lg == Append(log[i], [term |-> current_term[i], cmd |-> c])
<1>1. c \in Cmd \cup AssignCmd /\ Tail(request_queue[i]) \in Seq(Cmd \cup AssignCmd)
  BY HeadTailProperties DEF syncWorkerAppends, Idle, SyncTypeOK
<1>2. /\ log[i] \in Seq(Entry) /\ Len(log[i]) \in Nat
      /\ lg \in Seq(Entry) /\ Len(lg) = Len(log[i]) + 1 /\ lg # <<>>
  <2>1. [term |-> current_term[i], cmd |-> c] \in Entry
    BY <1>1 DEF ServerTypeOK, Entry
  <2>2. log[i] \in Seq(Entry) /\ Len(log[i]) \in Nat
    BY LenProperties DEF LogTypeOK
  <2>3. lg \in Seq(Entry) /\ Len(lg) = Len(log[i]) + 1
    BY <2>1, <2>2, AppendProperties
  <2>4. QED
    BY <2>2, <2>3, EmptySeq
<1>3. /\ log' = Put(log, i, lg)
      /\ sync' = Put(sync, i, [busy |-> TRUE, cmd |-> c, logSize |-> Len(lg)])
      /\ SyncRound(i, lg, next_index[i])
  BY DEF syncWorkerAppends
<1> HIDE DEF lg, c
<1>4. ServerTypeOK' /\ TimerTypeOK' /\ ElectTypeOK'
  BY Frames DEF syncWorkerAppends
<1>5. LogTypeOK'
  BY <1>2, <1>3 DEF syncWorkerAppends, LogTypeOK, Put
<1>6. SyncTypeOK'
  BY <1>1, <1>2, <1>3 DEF syncWorkerAppends, SyncTypeOK, Sync, Put
<1>7. AppendTypeOK'
  <2>1. \A j \in Server : next_index[i][j] \in Nat /\ next_index[i][j] <= Len(log[i])
    BY DEF syncWorkerAppends, Idle, IndicesInLog, NextInLog, SyncTypeOK
  <2>2. \A j \in Peers(i) : SyncCall(i, j, lg, next_index[i][j]) \in AppendCall
    BY <1>2, <2>1, SyncCallTypes DEF Peers, ServerTypeOK
  <2>3. QED
    BY <1>3, <2>2 DEF syncWorkerAppends, SyncRound, AppendTypeOK
<1>8. IndicesInLog'
  <2> SUFFICES ASSUME NEW k \in Server, Running(k)'
               PROVE  (NextInLog(k) /\ SyncInLog(k) /\ BeatsInLog(k) /\ AppliedInLog(k))'
    BY DEF IndicesInLog
  <2>1. NextInLog(k) /\ SyncInLog(k) /\ BeatsInLog(k) /\ AppliedInLog(k)
    BY DEF IndicesInLog, Running, syncWorkerAppends
  <2>2. /\ Len(log[k]) \in Nat /\ Len(log'[k]) \in Nat /\ Len(log'[k]) >= Len(log[k])
        /\ k # i => log'[k] = log[k] /\ sync'[k] = sync[k]
        /\ sync'[i].logSize = Len(lg) /\ log'[i] = lg
    BY <1>2, <1>3, LenProperties DEF LogTypeOK, SyncTypeOK, Put
  <2>3. NextInLog(k)'
    <3>1. role' = role /\ next_index' = next_index
      BY DEF syncWorkerAppends, serverVars
    <3>2. \A j \in Server : next_index[k][j] \in Nat
      BY DEF SyncTypeOK
    <3>3. QED
      BY <2>1, <2>2, <3>1, <3>2 DEF NextInLog
  <2>4. SyncInLog(k)'
    BY <1>2, <2>1, <2>2 DEF SyncInLog
  <2>5. BeatsInLog(k)'
    <3>1. beats' = beats /\ \A b \in Beat : beats[k][b].logSize \in Nat
      BY DEF syncWorkerAppends, AppendTypeOK, BeatState
    <3>2. QED
      BY <2>1, <2>2, <3>1 DEF BeatsInLog
  <2>6. AppliedInLog(k)'
    <3>1. applied' = applied /\ commit_index' = commit_index /\ Len(applied[k]) \in Nat
      BY LenProperties DEF syncWorkerAppends, LogTypeOK
    <3>2. QED
      BY <2>1, <2>2, <3>1 DEF AppliedInLog
  <2>7. QED
    BY <2>3, <2>4, <2>5, <2>6
<1>9. QED
  BY <1>4, <1>5, <1>6, <1>7, <1>8

LEMMA SyncDeposedTypeInv ==
  ASSUME TypeInv, NEW i \in Server, SyncDeposed(i)
  PROVE  TypeInv'
<1> USE DEF TypeInv, TypeOK
<1>1. ServerTypeOK' /\ LogTypeOK' /\ TimerTypeOK' /\ ElectTypeOK'
  BY Frames DEF SyncDeposed
<1>2. SyncTypeOK'
  BY PromiseTypes, EmptySeq DEF SyncDeposed, SyncTypeOK, Put, NoSync, Sync
<1>3. AppendTypeOK'
  BY DEF SyncDeposed, AppendTypeOK
<1>4. IndicesInLog'
  BY IndicesKept DEF SyncDeposed, Running, serverVars, logVars, Put, NoSync, SyncTypeOK
<1>5. QED
  BY <1>1, <1>2, <1>3, <1>4

LEMMA SyncOutdatedTypeInv ==
  ASSUME TypeInv, NEW i \in Server, SyncOutdated(i)
  PROVE  TypeInv'
<1> USE DEF TypeInv, TypeOK
<1>1. ServerTypeOK'
  BY DEF SyncOutdated, switchToFollower, ServerTypeOK, Put, Role
<1>2. LogTypeOK' /\ ElectTypeOK'
  BY Frames DEF SyncOutdated
<1>3. SyncTypeOK'
  BY PromiseTypes, EmptySeq DEF SyncOutdated, SyncTypeOK, Put, NoSync, Sync
<1>4. TimerTypeOK'
  BY TimerTypes DEF SyncOutdated, switchToFollower, TimerTypeOK, Arm
<1>5. AppendTypeOK'
  BY DEF SyncOutdated, AppendTypeOK
<1>6. IndicesInLog'
  BY IndicesKept DEF SyncOutdated, switchToFollower, Running, logVars, Put, NoSync, SyncTypeOK, ServerTypeOK
<1>7. QED
  BY <1>1, <1>2, <1>3, <1>4, <1>5, <1>6

(* What the loop over the replies leaves in next_index_.                   *)
LEMMA RoundCountedIndices ==
  ASSUME TypeInv, NEW i \in Server, RoundCounted(i)
  PROVE  /\ next_index' \in [Server -> [Server -> Nat]]
         /\ \A k \in Server \ {i} : next_index'[k] = next_index[k]
         /\ next_index'[i] = NextIndex(i)
         /\ \A j \in Server : NextIndex(i)[j] \in Nat /\ NextIndex(i)[j] <= Len(log[i])
         /\ log[i] \in Seq(Entry) /\ log[i] # <<>>
         /\ sync[i].logSize \in Nat /\ 0 < sync[i].logSize /\ sync[i].logSize <= Len(log[i])
         /\ appendReplies' \subseteq AppendReply
<1> USE DEF TypeInv, TypeOK
<1>1. Running(i) /\ role[i] = "leader" /\ sync[i].busy
  BY DEF RoundCounted, RoundOver
<1>2. log[i] \in Seq(Entry) /\ Len(log[i]) \in Nat
  BY LenProperties DEF LogTypeOK
<1>3. sync[i].logSize \in 1..Len(log[i])
  BY <1>1 DEF IndicesInLog, SyncInLog
<1>4. sync[i].logSize \in Nat /\ 0 < sync[i].logSize /\ sync[i].logSize <= Len(log[i]) /\ log[i] # <<>>
  BY <1>2, <1>3, EmptySeq
<1>5. \A j \in Server : next_index[i][j] \in Nat /\ next_index[i][j] <= Len(log[i])
  BY <1>1 DEF IndicesInLog, NextInLog, SyncTypeOK
<1>6. ASSUME NEW j \in Server PROVE NextIndex(i)[j] \in Nat /\ NextIndex(i)[j] <= Len(log[i])
  <2>1. NextIndex(i)[j] \in {sync[i].logSize, 0, next_index[i][j]}
    BY DEF NextIndex
  <2>2. QED
    BY <1>2, <1>4, <1>5, <2>1
<1>7. next_index' = Put(next_index, i, NextIndex(i)) /\ NextIndex(i) \in [Server -> Nat]
  <2>1. NextIndex(i) = [j \in Server |-> NextIndex(i)[j]]
    BY DEF NextIndex
  <2>2. QED
    BY <1>6, <2>1 DEF RoundCounted
<1>8. appendReplies' \subseteq AppendReply
  BY DEF RoundCounted, AppendTypeOK
<1>9. QED
  BY <1>2, <1>4, <1>6, <1>7, <1>8 DEF Put, SyncTypeOK

LEMMA SyncGivesUpTypeInv ==
  ASSUME TypeInv, NEW i \in Server, SyncGivesUp(i)
  PROVE  TypeInv'
<1> USE DEF TypeInv, TypeOK
<1>1. ServerTypeOK' /\ LogTypeOK' /\ TimerTypeOK' /\ ElectTypeOK'
  BY Frames DEF SyncGivesUp
<1>2. SyncTypeOK'
  BY PromiseTypes, RoundCountedIndices DEF SyncGivesUp, SyncTypeOK, Put, NoSync, Sync
<1>3. AppendTypeOK'
  BY RoundCountedIndices DEF SyncGivesUp, AppendTypeOK
<1>4. IndicesInLog'
  <2> SUFFICES ASSUME NEW k \in Server, Running(k)'
               PROVE  (NextInLog(k) /\ SyncInLog(k) /\ BeatsInLog(k) /\ AppliedInLog(k))'
    BY DEF IndicesInLog
  <2>1. NextInLog(k) /\ SyncInLog(k) /\ BeatsInLog(k) /\ AppliedInLog(k)
    BY DEF IndicesInLog, Running, SyncGivesUp
  <2>2. NextInLog(k)'
    BY <2>1, RoundCountedIndices DEF NextInLog, SyncGivesUp, serverVars, logVars
  <2>3. SyncInLog(k)'
    BY <2>1 DEF SyncInLog, SyncGivesUp, Put, NoSync, SyncTypeOK, logVars
  <2>4. QED
    BY <2>1, <2>2, <2>3 DEF BeatsInLog, AppliedInLog, SyncGivesUp, RoundCounted, logVars
<1>5. QED
  BY <1>1, <1>2, <1>3, <1>4

LEMMA SyncRetriesTypeInv ==
  ASSUME TypeInv, NEW i \in Server, SyncRetries(i)
  PROVE  TypeInv'
<1> USE DEF TypeInv, TypeOK
<1>1. ServerTypeOK' /\ LogTypeOK' /\ TimerTypeOK' /\ ElectTypeOK'
  BY Frames DEF SyncRetries
<1>2. SyncTypeOK'
  BY RoundCountedIndices DEF SyncRetries, SyncTypeOK
<1>3. AppendTypeOK'
  <2>1. RoundCounted(i)
    BY DEF SyncRetries
  <2>2. \A j \in Peers(i) : SyncCall(i, j, log[i], NextIndex(i)[j]) \in AppendCall
    BY <2>1, RoundCountedIndices, SyncCallTypes DEF Peers, ServerTypeOK
  <2>3. QED
    BY <2>1, <2>2, RoundCountedIndices DEF SyncRetries, SyncRound, AppendTypeOK
<1>4. IndicesInLog'
  <2> SUFFICES ASSUME NEW k \in Server, Running(k)'
               PROVE  (NextInLog(k) /\ SyncInLog(k) /\ BeatsInLog(k) /\ AppliedInLog(k))'
    BY DEF IndicesInLog
  <2>1. NextInLog(k) /\ SyncInLog(k) /\ BeatsInLog(k) /\ AppliedInLog(k)
    BY DEF IndicesInLog, Running, SyncRetries
  <2>2. NextInLog(k)'
    BY <2>1, RoundCountedIndices DEF NextInLog, SyncRetries, serverVars, logVars
  <2>3. QED
    BY <2>1, <2>2 DEF SyncInLog, BeatsInLog, AppliedInLog, SyncRetries, logVars
<1>5. QED
  BY <1>1, <1>2, <1>3, <1>4

(* A commit on master i, whose log becomes lg.                             *)
LEMMA CommitIndices ==
  ASSUME TypeInv, NEW i \in Server, NEW lg \in Seq(Entry), Len(lg) >= Len(log[i]),
         NEW end \in Nat, commit_index[i] <= end, Running(i), commitUpTo(i, lg, end)
  PROVE  /\ commit_index' \in [Server -> Nat]
         /\ applied' \in [Server -> Seq(Cmd \cup AssignCmd)]
         /\ Len(applied'[i]) <= Len(lg) /\ Len(applied'[i]) <= commit_index'[i]
         /\ \A k \in Server \ {i} : applied'[k] = applied[k] /\ commit_index'[k] = commit_index[k]
<1> USE DEF TypeInv, TypeOK
<1> DEFINE new == applied[i] \o Content(SubSeq(lg, Len(applied[i]) + 1, MinOf(end, Len(lg))))
<1>1. /\ Len(applied[i]) <= Len(log[i]) /\ Len(applied[i]) <= commit_index[i]
      /\ Len(applied[i]) \in Nat /\ Len(log[i]) \in Nat /\ Len(lg) \in Nat /\ commit_index[i] \in Nat
  BY LenProperties DEF IndicesInLog, AppliedInLog, LogTypeOK
<1>2. Len(applied[i]) <= Len(lg) /\ Len(applied[i]) <= end
  BY <1>1
<1>3. new \in Seq(Cmd \cup AssignCmd) /\ Len(new) <= Len(lg) /\ Len(new) <= end
  BY <1>2, AppliedAfterCommit DEF LogTypeOK
<1>4. applied' = [applied EXCEPT ![i] = new] /\ commit_index' = [commit_index EXCEPT ![i] = end]
  BY DEF commitUpTo, Put
<1> HIDE DEF new
<1>5. QED
  BY <1>3, <1>4 DEF LogTypeOK

LEMMA SyncCommitsTypeInv ==
  ASSUME TypeInv, NEW i \in Server, SyncCommits(i)
  PROVE  TypeInv'
<1> USE DEF TypeInv, TypeOK
<1>1. ServerTypeOK' /\ TimerTypeOK' /\ ElectTypeOK'
  BY Frames DEF SyncCommits
<1>2. RoundCounted(i) /\ Running(i) /\ log' = log
  BY DEF SyncCommits, RoundCounted, RoundOver
<1>3. sync[i].logSize \in Nat /\ sync[i].logSize - 1 \in Nat
  BY <1>2, RoundCountedIndices
<1>4. /\ commit_index' \in [Server -> Nat]
      /\ applied' \in [Server -> Seq(Cmd \cup AssignCmd)]
      /\ Len(applied'[i]) <= Len(log[i]) /\ Len(applied'[i]) <= commit_index'[i]
      /\ \A k \in Server \ {i} : applied'[k] = applied[k] /\ commit_index'[k] = commit_index[k]
  <2>1. log[i] \in Seq(Entry) /\ Len(log[i]) >= Len(log[i])
    BY LenProperties DEF LogTypeOK
  <2>2. QED
    BY <1>2, <1>3, <2>1, CommitIndices DEF SyncCommits
<1>5. LogTypeOK'
  BY <1>2, <1>4 DEF LogTypeOK
<1>6. SyncTypeOK'
  BY <1>2, <1>3, PromiseTypes, RoundCountedIndices DEF SyncCommits, SyncTypeOK, Put, NoSync, Sync
<1>7. AppendTypeOK'
  BY <1>2, RoundCountedIndices DEF SyncCommits, AppendTypeOK
<1>8. IndicesInLog'
  <2> SUFFICES ASSUME NEW k \in Server, Running(k)'
               PROVE  (NextInLog(k) /\ SyncInLog(k) /\ BeatsInLog(k) /\ AppliedInLog(k))'
    BY DEF IndicesInLog
  <2>1. NextInLog(k) /\ SyncInLog(k) /\ BeatsInLog(k) /\ AppliedInLog(k)
    BY DEF IndicesInLog, Running, SyncCommits
  <2>2. NextInLog(k)'
    BY <1>2, <2>1, RoundCountedIndices DEF NextInLog, SyncCommits, serverVars
  <2>3. SyncInLog(k)'
    BY <1>2, <2>1 DEF SyncInLog, SyncCommits, Put, NoSync, SyncTypeOK
  <2>4. AppliedInLog(k)'
    BY <1>2, <1>4, <2>1 DEF AppliedInLog
  <2>5. QED
    BY <1>2, <2>1, <2>2, <2>3, <2>4 DEF BeatsInLog, SyncCommits
<1>9. QED
  BY <1>1, <1>5, <1>6, <1>7, <1>8

-----------------------------------------------------------------------------
(* AppendEntries at the receiver.                                          *)
LEMMA AppendAnswerTypes ==
  ASSUME TypeOK, NEW m \in AppendCall, NEW ok \in BOOLEAN, NEW term \in Nat, NEW success \in BOOLEAN,
         AppendAnswer(m, ok, term, success), UNCHANGED beats
  PROVE  AppendTypeOK'
<1>1. [from |-> m.to, to |-> m.from, ok |-> ok, term |-> term, success |-> success] \in AppendReply
  BY DEF AppendCall, AppendReply
<1>2. QED
  BY <1>1 DEF AppendAnswer, TypeOK, AppendTypeOK

LEMMA AppendRefusedTypeInv ==
  ASSUME TypeInv, NEW m \in appendCalls, AppendRefused(m)
  PROVE  TypeInv'
<1> USE DEF TypeInv, TypeOK
<1>1. m \in AppendCall /\ current_term[m.to] \in Nat
  BY DEF AppendTypeOK, AppendCall, ServerTypeOK
<1>2. ServerTypeOK' /\ LogTypeOK' /\ SyncTypeOK' /\ TimerTypeOK' /\ ElectTypeOK'
  BY Frames DEF AppendRefused
<1>3. AppendTypeOK'
  BY <1>1, AppendAnswerTypes DEF AppendRefused
<1>4. IndicesInLog'
  BY IndicesKept DEF AppendRefused, Running, serverVars, logVars, syncVars
<1>5. QED
  BY <1>2, <1>3, <1>4

LEMMA AppendFailsTypeInv ==
  ASSUME TypeInv, NEW m \in appendCalls, AppendCallFails(m)
  PROVE  TypeInv'
<1> USE DEF TypeInv, TypeOK
<1>1. m \in AppendCall
  BY DEF AppendTypeOK
<1>2. ServerTypeOK' /\ LogTypeOK' /\ SyncTypeOK' /\ TimerTypeOK' /\ ElectTypeOK'
  BY Frames DEF AppendCallFails
<1>3. AppendTypeOK'
  BY <1>1, AppendAnswerTypes DEF AppendCallFails
<1>4. IndicesInLog'
  BY IndicesKept DEF AppendCallFails, Running, serverVars, logVars, syncVars
<1>5. QED
  BY <1>2, <1>3, <1>4

LEMMA FollowsTypes ==
  ASSUME TypeOK, NEW m \in AppendCall, Follows(m)
  PROVE  ServerTypeOK' /\ SyncTypeOK' /\ TimerTypeOK' /\ ElectTypeOK'
<1> USE DEF TypeOK
<1>1. m.to \in Server /\ m.term \in Nat
  BY DEF AppendCall
<1>2. ServerTypeOK'
  BY <1>1 DEF Follows, ServerTypeOK, updateTerm, Put, Role
<1>3. SyncTypeOK' /\ ElectTypeOK'
  BY Frames DEF Follows
<1>4. TimerTypeOK'
  BY <1>1, TimerTypes DEF Follows, TimerTypeOK, Arm
<1>5. QED
  BY <1>2, <1>3, <1>4

LEMMA AppendMismatchTypeInv ==
  ASSUME TypeInv, NEW m \in appendCalls, AppendMismatch(m)
  PROVE  TypeInv'
<1> USE DEF TypeInv, TypeOK
<1>1. m \in AppendCall /\ m.to \in Server /\ m.term \in Nat
  BY DEF AppendTypeOK, AppendCall
<1>2. ServerTypeOK' /\ SyncTypeOK' /\ TimerTypeOK' /\ ElectTypeOK'
  BY <1>1, FollowsTypes DEF AppendMismatch
<1>3. LogTypeOK'
  BY Frames DEF AppendMismatch
<1>4. AppendTypeOK'
  BY <1>1, AppendAnswerTypes DEF AppendMismatch, Follows
<1>5. IndicesInLog'
  BY <1>1, IndicesKept DEF AppendMismatch, Follows, Put, ServerTypeOK, Running, logVars, syncVars
<1>6. QED
  BY <1>2, <1>3, <1>4, <1>5

LEMMA AppendAcceptedTypeInv ==
  ASSUME TypeInv, NEW m \in appendCalls, AppendAccepted(m)
  PROVE  TypeInv'
<1> USE DEF TypeInv, TypeOK
<1> DEFINE i == m.to
           lg == Merged(log[i], m.prevLogIndex, m.entries)
<1>1. /\ m \in AppendCall /\ i \in Server /\ m.term \in Nat /\ m.leaderCommit \in Nat
      /\ m.prevLogIndex \in LogIndex /\ m.entries \in Seq(Entry)
  BY DEF AppendTypeOK, AppendCall
<1>2. ServerTypeOK' /\ SyncTypeOK' /\ TimerTypeOK' /\ ElectTypeOK'
  BY <1>1, FollowsTypes DEF AppendAccepted
<1>3. log[i] \in Seq(Entry) /\ Len(log[i]) \in Nat
  BY <1>1, LenProperties DEF LogTypeOK
<1>4. m.prevLogIndex < Len(log[i])
  BY <1>1, <1>3 DEF AppendAccepted, MatchesAt, Matches, LogIndex
<1>5. lg \in Seq(Entry) /\ Len(lg) >= Len(log[i]) /\ Len(lg) \in Nat
  BY <1>1, <1>3, <1>4, MergedLog, LenProperties
<1>6. /\ commit_index' \in [Server -> Nat]
      /\ applied' \in [Server -> Seq(Cmd \cup AssignCmd)]
      /\ Len(applied'[i]) <= Len(lg) /\ Len(applied'[i]) <= commit_index'[i]
      /\ \A k \in Server \ {i} : applied'[k] = applied[k] /\ commit_index'[k] = commit_index[k]
  BY <1>1, <1>5, CommitIndices DEF AppendAccepted, CanFollow
<1>7. log' = Put(log, i, lg)
  BY DEF AppendAccepted
<1>8. LogTypeOK'
  BY <1>5, <1>6, <1>7 DEF LogTypeOK, Put
<1>9. AppendTypeOK'
  BY <1>1, AppendAnswerTypes DEF AppendAccepted, Follows
<1>10. IndicesInLog'
  <2> SUFFICES ASSUME NEW k \in Server, Running(k)'
               PROVE  (NextInLog(k) /\ SyncInLog(k) /\ BeatsInLog(k) /\ AppliedInLog(k))'
    BY DEF IndicesInLog
  <2>1. NextInLog(k) /\ SyncInLog(k) /\ BeatsInLog(k) /\ AppliedInLog(k)
    BY DEF IndicesInLog, Running, AppendAccepted, Follows
  <2> HIDE DEF lg
  <2>2. /\ Len(log[k]) \in Nat /\ Len(log'[k]) \in Nat /\ Len(log'[k]) >= Len(log[k])
        /\ k # i => log'[k] = log[k]
        /\ log'[i] = lg
    BY <1>1, <1>5, <1>7, LenProperties DEF LogTypeOK, Put
  <2>3. NextInLog(k)'
    <3>1. role'[k] = "leader" => role[k] = "leader"
      BY <1>1 DEF AppendAccepted, Follows, Put, ServerTypeOK
    <3>2. next_index' = next_index
      BY DEF AppendAccepted, Follows, syncVars
    <3>3. QED
      BY <2>1, <2>2, <3>1, <3>2 DEF NextInLog, SyncTypeOK
  <2>4. SyncInLog(k)'
    <3>1. sync' = sync /\ sync[k].logSize \in Nat
      BY DEF AppendAccepted, Follows, syncVars, SyncTypeOK, Sync
    <3>2. QED
      BY <2>1, <2>2, <3>1 DEF SyncInLog
  <2>5. BeatsInLog(k)'
    <3>1. beats' = beats /\ \A b \in Beat : beats[k][b].logSize \in Nat
      BY DEF AppendAccepted, Follows, AppendTypeOK, BeatState
    <3>2. QED
      BY <2>1, <2>2, <3>1 DEF BeatsInLog
  <2>6. AppliedInLog(k)'
    BY <1>6, <2>1, <2>2 DEF AppliedInLog
  <2>7. QED
    BY <2>3, <2>4, <2>5, <2>6
<1>11. QED
  BY <1>2, <1>8, <1>9, <1>10

-----------------------------------------------------------------------------
(* Heartbeats and timers.                                                  *)
LEMMA BeatStartsTypeInv ==
  ASSUME TypeInv, NEW i \in Server, NEW b \in Beat, leaderPeriodicCallback(i, b)
  PROVE  TypeInv'
<1> USE DEF TypeInv, TypeOK
<1>1. ServerTypeOK' /\ LogTypeOK' /\ SyncTypeOK' /\ ElectTypeOK'
  BY Frames DEF leaderPeriodicCallback
<1>2. TimerTypeOK'
  BY TimerTypes DEF leaderPeriodicCallback, TimerTypeOK, Put
<1>3. \A k \in Server : Len(log[k]) \in Nat
  BY LenProperties DEF LogTypeOK
<1>4. AppendTypeOK'
  <2>1. ActiveBeat(Peers(i) = {}, Len(log[i]), {}) \in BeatState
    BY <1>3 DEF ActiveBeat, BeatState
  <2>2. QED
    BY <2>1 DEF leaderPeriodicCallback, AppendTypeOK
<1>5. IndicesInLog'
  <2> SUFFICES ASSUME NEW k \in Server, Running(k)'
               PROVE  (NextInLog(k) /\ SyncInLog(k) /\ BeatsInLog(k) /\ AppliedInLog(k))'
    BY DEF IndicesInLog
  <2>1. NextInLog(k) /\ SyncInLog(k) /\ BeatsInLog(k) /\ AppliedInLog(k)
    BY DEF IndicesInLog, Running, leaderPeriodicCallback
  <2>2. BeatsInLog(k)'
    <3> SUFFICES ASSUME NEW x \in Beat PROVE beats'[k][x].logSize <= Len(log[k])
      BY DEF BeatsInLog, leaderPeriodicCallback, logVars
    <3>1. beats'[k][x].logSize \in {beats[k][x].logSize, Len(log[k])}
      BY DEF leaderPeriodicCallback, ActiveBeat, AppendTypeOK
    <3>2. QED
      BY <1>3, <2>1, <3>1 DEF BeatsInLog
  <2>3. QED
    BY <2>1, <2>2 DEF NextInLog, SyncInLog, AppliedInLog, leaderPeriodicCallback, serverVars, syncVars, logVars
<1>6. QED
  BY <1>1, <1>2, <1>4, <1>5

LEMMA BeatReturnsTypeInv ==
  ASSUME TypeInv, NEW i \in Server, leaderPeriodicReturns(i)
  PROVE  TypeInv'
<1> USE DEF TypeInv, TypeOK
<1>1. ServerTypeOK' /\ LogTypeOK' /\ SyncTypeOK' /\ ElectTypeOK' /\ AppendTypeOK'
  BY Frames DEF leaderPeriodicReturns
<1>2. TimerTypeOK'
  BY TimerTypes DEF leaderPeriodicReturns, TimerTypeOK, Put
<1>3. IndicesInLog'
  BY IndicesKept DEF leaderPeriodicReturns, Running, serverVars, logVars, syncVars, appendVars
<1>4. QED
  BY <1>1, <1>2, <1>3

LEMMA BeatCallTypes ==
  ASSUME TypeInv, NEW i \in Server, Running(i), NEW b \in Beat, NEW j \in Server
  PROVE  BeatCall(i, b, j) \in AppendCall
<1> USE DEF TypeInv, TypeOK
<1>1. beats[i][b].logSize \in Nat /\ beats[i][b].logSize <= Len(log[i])
  BY DEF IndicesInLog, BeatsInLog, AppendTypeOK, BeatState
<1>2. log[i] \in Seq(Entry) /\ Len(log[i]) \in Nat
  BY LenProperties DEF LogTypeOK
<1>3. beats[i][b].logSize - 1 \in LogIndex
  BY <1>1 DEF LogIndex
<1>4. LastTerm(log[i], beats[i][b].logSize) \in Nat
  <2>1. CASE beats[i][b].logSize = 0
    BY <2>1 DEF LastTerm
  <2>2. CASE beats[i][b].logSize # 0
    <3>1. log[i][beats[i][b].logSize] \in Entry
      BY <1>1, <1>2, <2>2, ElementOfSeq
    <3>2. QED
      BY <2>2, <3>1 DEF LastTerm, Entry
  <2>3. QED
    BY <2>1, <2>2
<1>5. <<>> \in Seq(Entry)
  BY EmptySeq
<1>6. QED
  BY <1>3, <1>4, <1>5 DEF BeatCall, AppendCall, ServerTypeOK, LogTypeOK

LEMMA BeatPreparesTypeInv ==
  ASSUME TypeInv, NEW i \in Server, NEW b \in Beat, NEW j \in Peers(i), leaderPeriodicPrepares(i, b, j)
  PROVE  TypeInv'
<1> USE DEF TypeInv, TypeOK
<1> DEFINE requests == beats[i][b].requests \cup {BeatCall(i, b, j)}
<1>1. ServerTypeOK' /\ LogTypeOK' /\ SyncTypeOK' /\ TimerTypeOK' /\ ElectTypeOK'
  BY Frames DEF leaderPeriodicPrepares
<1>2. requests \subseteq AppendCall /\ beats[i][b].logSize \in Nat
  BY BeatCallTypes DEF leaderPeriodicPrepares, Peers, AppendTypeOK, BeatState
<1>3. PICK next \in BeatState :
        /\ next.logSize = beats[i][b].logSize
        /\ beats' = [beats EXCEPT ![i][b] = next]
  <2>1. /\ ActiveBeat(TRUE, beats[i][b].logSize, {}) \in BeatState
        /\ ActiveBeat(FALSE, beats[i][b].logSize, requests) \in BeatState
        /\ ActiveBeat(TRUE, beats[i][b].logSize, {}).logSize = beats[i][b].logSize
        /\ ActiveBeat(FALSE, beats[i][b].logSize, requests).logSize = beats[i][b].logSize
    BY <1>2 DEF ActiveBeat, BeatState
  <2>2. \/ beats' = [beats EXCEPT ![i][b] = ActiveBeat(TRUE, beats[i][b].logSize, {})]
        \/ beats' = [beats EXCEPT ![i][b] = ActiveBeat(FALSE, beats[i][b].logSize, requests)]
    BY DEF leaderPeriodicPrepares, AppendTypeOK
  <2>3. QED
    BY <2>1, <2>2
<1>4. AppendTypeOK'
  <2>1. beats' \in [Server -> [Beat -> BeatState]]
    BY <1>3 DEF AppendTypeOK
  <2>2. appendCalls' \subseteq appendCalls \cup requests
    BY DEF leaderPeriodicPrepares
  <2>3. QED
    BY <1>2, <2>1, <2>2 DEF leaderPeriodicPrepares, AppendTypeOK
<1>5. IndicesInLog'
  <2>1. \A k \in Server : \A x \in Beat : beats'[k][x].logSize = beats[k][x].logSize
    BY <1>3 DEF AppendTypeOK
  <2>2. QED
    BY <2>1, IndicesKept DEF leaderPeriodicPrepares, Running, serverVars, logVars, syncVars
<1>6. QED
  BY <1>1, <1>4, <1>5

LEMMA BeatEndsTypeInv ==
  ASSUME TypeInv, NEW i \in Server, NEW b \in Beat, leaderPeriodicEnds(i, b)
  PROVE  TypeInv'
<1> USE DEF TypeInv, TypeOK
<1>1. ServerTypeOK' /\ LogTypeOK' /\ SyncTypeOK' /\ ElectTypeOK'
  BY Frames DEF leaderPeriodicEnds
<1>2. TimerTypeOK'
  BY TimerTypes DEF leaderPeriodicEnds, TimerTypeOK, Arm
<1>3. NoBeat \in BeatState
  BY DEF NoBeat, BeatState
<1>4. AppendTypeOK'
  BY <1>3 DEF leaderPeriodicEnds, AppendTypeOK
<1>5. IndicesInLog'
  <2>1. \A k \in Server : \A x \in Beat : beats'[k][x].logSize \in {0, beats[k][x].logSize}
    BY DEF leaderPeriodicEnds, AppendTypeOK, NoBeat
  <2>2. QED
    BY <2>1, IndicesKept DEF leaderPeriodicEnds, Running, serverVars, logVars, syncVars
<1>6. QED
  BY <1>1, <1>2, <1>4, <1>5

LEMMA ExpireTypeInv ==
  ASSUME TypeInv, NEW i \in Server, ExpireTimer(i)
  PROVE  TypeInv'
<1> USE DEF TypeInv, TypeOK
<1>1. ServerTypeOK' /\ LogTypeOK' /\ SyncTypeOK' /\ ElectTypeOK' /\ AppendTypeOK'
  BY Frames DEF ExpireTimer
<1>2. TimerTypeOK'
  BY TimerTypes DEF ExpireTimer, Expire, TimerTypeOK
<1>3. IndicesInLog'
  BY IndicesKept DEF ExpireTimer, Running, serverVars, logVars, syncVars, appendVars
<1>4. QED
  BY <1>1, <1>2, <1>3

-----------------------------------------------------------------------------
(* The actions of Next, one case each, and the ways a process ends.        *)
LEMMA DeathsTypeInv ==
  ASSUME TypeInv,
         NEW i \in Server, \/ followerTimeoutAborts(i) \/ SyncAborts(i) \/ Crash(i)
                           \/ \E m \in appendCalls : m.to = i /\ AppendAborts(m)
  PROVE  TypeInv'
<1>1. FailedAssertions(i) \subseteq Status \ {"running"}
  BY DEF FailedAssertions, Status
<1>2. \E how \in Status \ {"running"} : Die(i, how)
  BY <1>1 DEF followerTimeoutAborts, SyncAborts, Crash, AppendAborts, Status
<1>3. QED
  BY <1>2, DieTypeInv

LEMMA NextTypeInv == TypeInv /\ [Next]_vars => TypeInv'
<1> SUFFICES ASSUME TypeInv, [Next]_vars PROVE TypeInv'
  OBVIOUS
<1>1. CASE UNCHANGED vars
  <2>1. TypeOK'
    BY <1>1, Frames DEF TypeInv, TypeOK, vars
  <2>2. IndicesInLog'
    BY <1>1, IndicesKept DEF vars, Running, serverVars, logVars, syncVars, appendVars
  <2>3. QED
    BY <2>1, <2>2 DEF TypeInv
<1>2. CASE Next
  <2>1. PICK i \in Server :
          \/ ExpireTimer(i)
          \/ CandidateThread(i)
          \/ FollowerThread(i)
          \/ leaderPeriodicReturns(i)
          \/ \E b \in Beat : BeatThread(i, b)
          \/ taskExecutionPeriodicCallback(i)
          \/ syncWorker(i)
          \/ RequestThread(i)
          \/ Crash(i)
          \/ \E j \in Server : VoteRpc(i, j) \/ \E b \in Beat \cup {Nil} : AppendRpc(i, j, b)
    BY <1>2 DEF Next
  <2>2. CASE ExpireTimer(i)
    BY <2>2, ExpireTypeInv
  <2>3. CASE CandidateThread(i)
    <3>1. CASE candidateTimeoutCallback(i)
      BY <3>1, CandidateTimeoutTypeInv
    <3>2. CASE candidateTimeoutReturns(i)
      BY <3>2, CandidateReturnsTypeInv
    <3>3. CASE \E t : <<i, t>> \in electing /\ (BecomesLeader(i, t) \/ NotElected(i, t))
      BY <3>3, BecomesLeaderTypeInv, NotElectedTypeInv
    <3>4. \A t : BecomesLeader(i, t) \/ NotElected(i, t) => <<i, t>> \in electing
      BY DEF BecomesLeader, NotElected, ElectReturns
    <3>5. QED
      BY <2>3, <3>1, <3>2, <3>3, <3>4 DEF CandidateThread
  <2>4. CASE FollowerThread(i)
    BY <2>4, FollowerTimeoutTypeInv, DeathsTypeInv DEF FollowerThread
  <2>5. CASE leaderPeriodicReturns(i)
    BY <2>5, BeatReturnsTypeInv
  <2>6. CASE \E b \in Beat : BeatThread(i, b)
    BY <2>6, BeatStartsTypeInv, BeatPreparesTypeInv, BeatEndsTypeInv DEF BeatThread
  <2>7. CASE taskExecutionPeriodicCallback(i)
    BY <2>7, TaskExecutionTypeInv
  <2>8. CASE syncWorker(i)
    BY <2>8, SyncRejectsTypeInv, SyncAppendsTypeInv, SyncDeposedTypeInv, SyncOutdatedTypeInv,
       SyncGivesUpTypeInv, SyncCommitsTypeInv, SyncRetriesTypeInv, DeathsTypeInv DEF syncWorker
  <2>9. CASE RequestThread(i)
    BY <2>9, TakeRequestTypeInv DEF RequestThread, handleTaskSubmission, handleTaskCompletion
  <2>10. CASE Crash(i)
    BY <2>10, DeathsTypeInv
  <2>11. CASE \E j \in Server : VoteRpc(i, j)
    BY <2>11, HandleVoteTypeInv, VoteFailsTypeInv DEF VoteRpc
  <2>12. CASE \E j \in Server, b \in Beat \cup {Nil} : AppendRpc(i, j, b)
    <3>1. PICK m \in appendCalls : m.to \in Server /\ (handleAppendEntries(m) \/ AppendCallFails(m))
      BY <2>12 DEF AppendRpc
    <3>2. QED
      BY <3>1, AppendRefusedTypeInv, AppendMismatchTypeInv, AppendAcceptedTypeInv, AppendFailsTypeInv,
         DeathsTypeInv DEF handleAppendEntries
  <2>13. QED
    BY <2>1, <2>2, <2>3, <2>4, <2>5, <2>6, <2>7, <2>8, <2>9, <2>10, <2>11, <2>12
<1>3. QED
  BY <1>1, <1>2

(* Types and indices, for any number of masters and any bounds.            *)
THEOREM TypeInvariant == Spec => []TypeInv
<1>1. Init => TypeInv
  BY InitTypeInv
<1>2. TypeInv /\ [Next]_vars => TypeInv'
  BY NextTypeInv
<1>3. QED
  BY <1>1, <1>2, PTL DEF Spec

(* Every value the model stores has its type: an index or a commit index   *)
(* never becomes what the unsigned arithmetic of syncWorker would wrap.    *)
THEOREM TypeCorrectness == Spec => []TypeOK
<1>1. TypeInv => TypeOK
  BY DEF TypeInv
<1>2. QED
  BY <1>1, TypeInvariant, PTL

(* No master reads its log outside its bounds, though the heartbeat uses   *)
(* logSize without the lock and a deposed leader may lead again while its  *)
(* sync thread waits: no log ever shrinks.                                 *)
THEOREM IndicesStayInLog == Spec => []IndicesInLog
<1>1. TypeInv => IndicesInLog
  BY DEF TypeInv
<1>2. QED
  BY <1>1, TypeInvariant, PTL
=============================================================================
