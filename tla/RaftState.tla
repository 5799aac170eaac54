------------------------------ MODULE RaftState ------------------------------
(***************************************************************************)
(* The masters: application::RaftState with its stubs and timers, one      *)
(* instance per element of Server.  Each handler, callback and critical    *)
(* section of RaftState.cc is one action; an RPC is a call and a reply     *)
(* that travel on their own, so calls overtake each other freely.          *)
(*                                                                         *)
(* Log indices are those of the code: index k of log_ is log[k + 1].       *)
(* match_index_ is written and never read, and is left out.                *)
(* The content of the log is applied to task_schedule_ (module             *)
(* TaskSchedule); here applied is the sequence of the entries it got, and  *)
(* Len(applied) is last_applied_.                                          *)
(***************************************************************************)
EXTENDS Integers, Sequences, FiniteSets, Timer

CONSTANTS
  Server,      \* the masters
  SubmitCmd,   \* requests of clients (SubmitTask)
  FinishCmd,   \* requests of workers (FinishTask)
  AssignCmd,   \* what getTaskAssignment proposes
  Beat,        \* heartbeat callbacks that may overlap on one master (a bound)
  Nil,         \* an empty voted_for_; in an AppendEntries call: not a heartbeat
  RpcLoss,     \* may the RPC between two live masters fail?
  MaxTerm,     \* bound: no election is started beyond this term
  MaxLog,      \* bound: no request is queued beyond this log size
  MaxDue,      \* bound: timer threads of one timer between expiry and call
  MaxCrash     \* bound: masters that crash without an assertion

ASSUME ServerAssumption == IsFiniteSet(Server) /\ Server # {} /\ Nil \notin Server
ASSUME CmdAssumption == (SubmitCmd \cup FinishCmd) \cap AssignCmd = {}
ASSUME BeatAssumption == Nil \notin Beat
ASSUME BoundAssumption ==
  /\ RpcLoss \in BOOLEAN
  /\ {MaxTerm, MaxLog, MaxDue, MaxCrash} \subseteq Nat

VARIABLES
  status,            \* "running", or how the process ended
  role, current_term, voted_for,
  log, commit_index, applied,
  next_index, request_queue,
  sync,              \* syncWorker between appending an entry and answering it
  promise,           \* the answer each client or worker request got
  candidate_timeout, follower_timeout, leader_periodic, task_execution_periodic,
  electing,          \* <<i, t>>: elect() of i for term t has not returned
  voteCalls, voteReplies,
  elected,           \* history: <<t, i>> when i became the leader of term t
  appendCalls, appendReplies,
  beats              \* leaderPeriodicCallback of a master, while it runs

serverVars == <<role, current_term, voted_for>>
logVars == <<log, commit_index, applied>>
syncVars == <<next_index, request_queue, sync, promise>>
timerVars == <<candidate_timeout, follower_timeout, leader_periodic, task_execution_periodic>>
electVars == <<electing, voteCalls, voteReplies, elected>>
appendVars == <<appendCalls, appendReplies, beats>>
vars == <<status, serverVars, logVars, syncVars, timerVars, electVars, appendVars>>

-----------------------------------------------------------------------------
(* Values.                                                                 *)
Cmd == SubmitCmd \cup FinishCmd
LogIndex == Nat \cup {-1}
Entry == [term : Nat, cmd : Cmd \cup AssignCmd]
Status == {"running", "crashed", "assert_follower", "assert_commit", "assert_next_index"}
Role == {"candidate", "follower", "leader"}
VoteCall == [cand : Server, voter : Server, term : Nat, lastLogIndex : LogIndex]
VoteReply == [cand : Server, voter : Server, term : Nat, granted : BOOLEAN, replyTerm : Nat]
AppendCall == [from : Server, to : Server, beat : Beat \cup {Nil}, term : Nat,
               prevLogIndex : LogIndex, prevLogTerm : Nat, entries : Seq(Entry), leaderCommit : Nat]
AppendReply == [from : Server, to : Server, ok : BOOLEAN, term : Nat, success : BOOLEAN]
Sync == [busy : BOOLEAN, cmd : Cmd \cup AssignCmd \cup {Nil}, logSize : Nat]
BeatState == [active : BOOLEAN, sent : BOOLEAN, logSize : Nat, requests : SUBSET AppendCall]
Promise == [state : {"none", "waiting", "failed", "done"}, jobId : Nat]

NoSync == [busy |-> FALSE, cmd |-> Nil, logSize |-> 0]
NoBeat == [active |-> FALSE, sent |-> FALSE, logSize |-> 0, requests |-> {}]
ActiveBeat(sent, logSize, requests) ==
  [active |-> TRUE, sent |-> sent, logSize |-> logSize, requests |-> requests]
Answered(s, id) == [state |-> s, jobId |-> id]

ServerTypeOK ==
  /\ status \in [Server -> Status]
  /\ role \in [Server -> Role]
  /\ current_term \in [Server -> Nat]
  /\ voted_for \in [Server -> Server \cup {Nil}]

LogTypeOK ==
  /\ log \in [Server -> Seq(Entry)]
  /\ commit_index \in [Server -> Nat]
  /\ applied \in [Server -> Seq(Cmd \cup AssignCmd)]

SyncTypeOK ==
  /\ next_index \in [Server -> [Server -> Nat]]
  /\ request_queue \in [Server -> Seq(Cmd \cup AssignCmd)]
  /\ sync \in [Server -> Sync]
  /\ promise \in [Cmd -> Promise]

TimerTypeOK ==
  /\ candidate_timeout \in [Server -> TimerState]
  /\ follower_timeout \in [Server -> TimerState]
  /\ leader_periodic \in [Server -> TimerState]
  /\ task_execution_periodic \in [Server -> TimerState]

ElectTypeOK ==
  /\ electing \subseteq Server \X Nat
  /\ voteCalls \subseteq VoteCall
  /\ voteReplies \subseteq VoteReply
  /\ elected \subseteq Nat \X Server

AppendTypeOK ==
  /\ appendCalls \subseteq AppendCall
  /\ appendReplies \subseteq AppendReply
  /\ beats \in [Server -> [Beat -> BeatState]]

TypeOK ==
  ServerTypeOK /\ LogTypeOK /\ SyncTypeOK /\ TimerTypeOK /\ ElectTypeOK /\ AppendTypeOK

Init ==
  /\ status = [i \in Server |-> "running"]
  /\ role = [i \in Server |-> "candidate"]
  /\ current_term = [i \in Server |-> 0]
  /\ voted_for = [i \in Server |-> Nil]
  /\ log = [i \in Server |-> <<>>]
  /\ commit_index = [i \in Server |-> 0]
  /\ applied = [i \in Server |-> <<>>]
  /\ next_index = [i \in Server |-> [j \in Server |-> 0]]
  /\ request_queue = [i \in Server |-> <<>>]
  /\ sync = [i \in Server |-> NoSync]
  /\ promise = [c \in Cmd |-> Answered("none", 0)]
  /\ candidate_timeout = [i \in Server |-> SetDeadline(NewTimer)]
  /\ follower_timeout = [i \in Server |-> NewTimer]
  /\ leader_periodic = [i \in Server |-> NewTimer]
  /\ task_execution_periodic = [i \in Server |-> NewTimer]
  /\ electing = {}
  /\ voteCalls = {}
  /\ voteReplies = {}
  /\ elected = {}
  /\ appendCalls = {}
  /\ appendReplies = {}
  /\ beats = [i \in Server |-> [b \in Beat |-> NoBeat]]

-----------------------------------------------------------------------------
(* Helpers.                                                                *)
Running(i) == status[i] = "running"
Peers(i) == Server \ {i}
Majority(n) == n * 2 > Cardinality(Server)
LastTerm(lg, size) == IF size = 0 THEN 0 ELSE lg[size].term

Put(f, i, v) == [f EXCEPT ![i] = v]
Arm(timer, i) == timer' = [timer EXCEPT ![i] = SetDeadline(@)]

(* A timer thread of i finds its deadline passed.                          *)
Expire(timer, i) ==
  /\ Running(i)
  /\ timer[i].pending
  /\ timer[i].due < MaxDue
  /\ timer' = [timer EXCEPT ![i] = Expired(@)]

(* The requests i still has to answer.                                     *)
Queued(i) == {request_queue[i][k] : k \in DOMAIN request_queue[i]}
(* Faulty variant: the request being synchronised is forgotten.            *)
InSync_Forgotten(i) == {}

InSync(i) == IF sync[i].busy THEN {sync[i].cmd} ELSE {}

(* clearRequestQueue and set_value({false, _}): the requests of S fail.    *)
(* The promise of an AssignCmd has no reader.                              *)
Failed(S) == [c \in Cmd |-> IF c \in S THEN Answered("failed", 0) ELSE promise[c]]

(* The process of i ends: threads, queue and open calls go with it.  What  *)
(* it sent may still arrive.                                               *)
Die(i, how) ==
  /\ status' = Put(status, i, how)
  /\ promise' = Failed(Queued(i) \cup InSync(i))
  /\ request_queue' = Put(request_queue, i, <<>>)
  /\ sync' = Put(sync, i, NoSync)
  /\ electing' = {e \in electing : e[1] # i}
  /\ voteReplies' = {r \in voteReplies : r.cand # i}
  /\ appendReplies' = {r \in appendReplies : r.to # i}
  /\ beats' = Put(beats, i, [b \in Beat |-> NoBeat])
  /\ UNCHANGED <<serverVars, logVars, next_index, timerVars, voteCalls, elected, appendCalls>>

Crash(i) ==
  /\ Running(i)
  /\ Cardinality({j \in Server : status[j] = "crashed"}) < MaxCrash
  /\ Die(i, "crashed")

-----------------------------------------------------------------------------
(* Faulty variant: only the task timer is set.                             *)
switchToLeader_NoHeartbeat(i) ==
  /\ role' = Put(role, i, "leader")
  /\ UNCHANGED leader_periodic
  /\ IF role[i] = "leader"
     THEN UNCHANGED <<next_index, task_execution_periodic>>
     ELSE /\ next_index' = Put(next_index, i, [j \in Server |-> Len(log[i])])
          /\ Arm(task_execution_periodic, i)

(* Roles and log.                                                          *)
switchToLeader(i) ==
  /\ role' = Put(role, i, "leader")
  /\ IF role[i] = "leader"
     THEN UNCHANGED <<next_index, leader_periodic, task_execution_periodic>>
     ELSE /\ next_index' = Put(next_index, i, [j \in Server |-> Len(log[i])])
          /\ Arm(leader_periodic, i)
          /\ Arm(task_execution_periodic, i)

(* Faulty variant: the role changes and no timer is set.                   *)
switchToFollower_NoTimer(i) == role' = Put(role, i, "follower") /\ UNCHANGED follower_timeout

switchToFollower(i) ==
  /\ role' = Put(role, i, "follower")
  /\ IF role[i] = "follower" THEN UNCHANGED follower_timeout ELSE Arm(follower_timeout, i)

(* Faulty variant: the role changes and no timer is set.                   *)
switchToCandidate_NoTimer(i) == role' = Put(role, i, "candidate") /\ UNCHANGED candidate_timeout

switchToCandidate(i) ==
  /\ role' = Put(role, i, "candidate")
  /\ IF role[i] = "candidate" THEN UNCHANGED candidate_timeout ELSE Arm(candidate_timeout, i)

(* Faulty variant: a message of the current term resets the vote, too.     *)
updateTerm_SameTerm(i, term) ==
  IF term >= current_term[i]
  THEN current_term' = Put(current_term, i, term) /\ voted_for' = Put(voted_for, i, Nil)
  ELSE UNCHANGED <<current_term, voted_for>>

(* updateTerm, when the term is newer than i's own: the vote is reset.     *)
updateTerm(i, term) ==
  IF term > current_term[i]
  THEN /\ current_term' = Put(current_term, i, term)
       /\ voted_for' = Put(voted_for, i, Nil)
  ELSE UNCHANGED <<current_term, voted_for>>

(* The check of appendEntries: is the entry before the new ones there?     *)
Matches(lg, prevLogIndex, prevLogTerm) ==
  prevLogIndex # -1 => prevLogIndex < Len(lg) /\ lg[prevLogIndex + 1].term = prevLogTerm

(* Faulty variant: the log is cut behind the new entries.                  *)
Merged_Truncates(lg, prevLogIndex, entries) == SubSeq(lg, 1, prevLogIndex + 1) \o entries

(* Its loop: new entries overwrite or extend; what lies behind them stays. *)
Merged(lg, prevLogIndex, entries) ==
  SubSeq(lg, 1, prevLogIndex + 1) \o entries
    \o SubSeq(lg, prevLogIndex + Len(entries) + 2, Len(lg))

MinOf(a, b) == IF a <= b THEN a ELSE b

Content(lg) == [k \in DOMAIN lg |-> lg[k].cmd]

(* commitUpTo on the log lg, its assertion apart.                          *)
commitUpTo(i, lg, endIndex) ==
  /\ commit_index' = Put(commit_index, i, endIndex)
  /\ applied' = [applied EXCEPT ![i] =
       @ \o Content(SubSeq(lg, Len(@) + 1, MinOf(endIndex, Len(lg))))]

-----------------------------------------------------------------------------
(* Elections.                                                              *)

(* candidateTimeoutCallback up to the call of elect: the new term, the     *)
(* vote for itself, and a RequestVote to every peer.                       *)
candidateTimeoutCallback(i) ==
  /\ Running(i)
  /\ role[i] = "candidate"
  /\ current_term[i] < MaxTerm
  /\ \E t \in Called(candidate_timeout[i]) : candidate_timeout' = Put(candidate_timeout, i, t)
  /\ LET term == current_term[i] + 1
     IN /\ current_term' = Put(current_term, i, term)
        /\ voted_for' = Put(voted_for, i, i)
        /\ electing' = electing \cup {<<i, term>>}
        /\ voteCalls' = voteCalls \cup
             {[cand |-> i, voter |-> j, term |-> term, lastLogIndex |-> Len(log[i]) - 1] :
                j \in Peers(i)}
  /\ UNCHANGED <<status, role, logVars, syncVars, follower_timeout, leader_periodic,
                 task_execution_periodic, voteReplies, elected, appendVars>>

(* The same callback when i is no candidate any more: it does not re-arm.  *)
candidateTimeoutReturns(i) ==
  /\ Running(i)
  /\ role[i] # "candidate"
  /\ \E t \in Called(candidate_timeout[i]) : candidate_timeout' = Put(candidate_timeout, i, t)
  /\ UNCHANGED <<status, serverVars, logVars, syncVars, follower_timeout, leader_periodic,
                 task_execution_periodic, electVars, appendVars>>

(* A reply on its way to candidate m.cand; nobody waits for it in a        *)
(* process that ended.                                                     *)
VoteAnswer(m, granted, replyTerm) ==
  /\ voteCalls' = voteCalls \ {m}
  /\ voteReplies' = voteReplies \cup
       (IF Running(m.cand)
        THEN {[cand |-> m.cand, voter |-> m.voter, term |-> m.term,
               granted |-> granted, replyTerm |-> replyTerm]}
        ELSE {})

(* The only test of the candidate's log: lastLogTerm is not looked at.     *)
LongEnough(lg, lastLogIndex) == lastLogIndex + 1 >= Len(lg)

(* Faulty variant: any candidate with a long log gets the vote.            *)
Grants_Again(i, m) ==
  /\ m.term = current_term[i] => role[i] # "leader"
  /\ LongEnough(log[i], m.lastLogIndex)

(* A vote request of i's own term or a newer one is granted: by no leader  *)
(* of that term, and to one candidate per term.                            *)
Grants(i, m) ==
  /\ m.term = current_term[i] => role[i] # "leader" /\ voted_for[i] \in {Nil, m.cand}
  /\ LongEnough(log[i], m.lastLogIndex)

(* handleVoteRequest, and its reply, which the network may lose.           *)
handleVoteRequest(m) ==
  LET i == m.voter IN
  /\ Running(i)
  /\ IF m.term < current_term[i]
     THEN /\ VoteAnswer(m, FALSE, current_term[i])
          /\ UNCHANGED <<serverVars, follower_timeout>>
     ELSE /\ IF m.term > current_term[i]
             THEN switchToFollower(i)
             ELSE UNCHANGED <<role, follower_timeout>>
          /\ current_term' = Put(current_term, i, m.term)
          /\ voted_for' = Put(voted_for, i,
               IF Grants(i, m) THEN m.cand
               ELSE IF m.term > current_term[i] THEN Nil ELSE voted_for[i])
          /\ \/ VoteAnswer(m, Grants(i, m), m.term)
             \/ RpcLoss /\ VoteAnswer(m, FALSE, 0)
  /\ UNCHANGED <<status, logVars, syncVars, candidate_timeout, leader_periodic,
                 task_execution_periodic, electing, elected, appendVars>>

(* RequestVote fails without reaching the peer: no vote, and term 0.       *)
VoteCallFails(m) ==
  /\ RpcLoss \/ ~Running(m.voter)
  /\ VoteAnswer(m, FALSE, 0)
  /\ UNCHANGED <<status, serverVars, logVars, syncVars, timerVars, electing, elected, appendVars>>

(* ElectionStub::elect returns once every peer answered or failed.         *)
Replies(i, t) == {r \in voteReplies : r.cand = i /\ r.term = t}
AllReplied(i, t) == {r.voter : r \in Replies(i, t)} = Peers(i)
Elected(i, t) == Majority(Cardinality({r.voter : r \in {q \in Replies(i, t) : q.granted}}) + 1)
ReplyTerms(i, t) == {t} \cup {r.replyTerm : r \in Replies(i, t)}
IsMaxTerm(m, i, t) == m \in ReplyTerms(i, t) /\ \A x \in ReplyTerms(i, t) : x <= m

ElectReturns(i, t) ==
  /\ Running(i)
  /\ <<i, t>> \in electing
  /\ AllReplied(i, t)
  /\ electing' = electing \ {<<i, t>>}
  /\ voteReplies' = voteReplies \ Replies(i, t)

(* candidateTimeoutCallback after elect: elected, and still in that term.  *)
BecomesLeader(i, t) ==
  /\ ElectReturns(i, t)
  /\ Elected(i, t) /\ current_term[i] = t /\ IsMaxTerm(t, i, t)
  /\ switchToLeader(i)
  /\ elected' = elected \cup {<<t, i>>}
  /\ UNCHANGED <<status, current_term, voted_for, logVars, request_queue, sync, promise,
                 candidate_timeout, follower_timeout, voteCalls, appendVars>>

(* Otherwise it re-arms; only an elected candidate looks at newer terms,   *)
(* and it takes them over whatever its role is by now.                     *)
NotElected(i, t) ==
  /\ ElectReturns(i, t)
  /\ ~(Elected(i, t) /\ current_term[i] = t /\ IsMaxTerm(t, i, t))
  /\ IF Elected(i, t)
     THEN \E m \in ReplyTerms(i, t) : IsMaxTerm(m, i, t) /\ updateTerm(i, m)
     ELSE UNCHANGED <<current_term, voted_for>>
  /\ Arm(candidate_timeout, i)
  /\ UNCHANGED <<status, role, logVars, syncVars, follower_timeout, leader_periodic,
                 task_execution_periodic, voteCalls, elected, appendVars>>

(* followerTimeoutCallback.                                                *)
followerTimeoutCallback(i) ==
  /\ Running(i)
  /\ role[i] = "follower"
  /\ \E t \in Called(follower_timeout[i]) : follower_timeout' = Put(follower_timeout, i, t)
  /\ switchToCandidate(i)
  /\ UNCHANGED <<status, current_term, voted_for, logVars, syncVars, leader_periodic,
                 task_execution_periodic, electVars, appendVars>>

(* Its assertion that i is a follower fails.                               *)
followerTimeoutAborts(i) ==
  /\ Running(i)
  /\ role[i] # "follower"
  /\ Called(follower_timeout[i]) # {}
  /\ Die(i, "assert_follower")

-----------------------------------------------------------------------------
(* The requests of clients and workers.                                    *)

(* handleTaskSubmission and handleTaskCompletion: a leader queues the      *)
(* request for its sync thread, anyone else answers false at once.  After  *)
(* a false the caller comes back, with this master or another.             *)
TakeRequest(i, c) ==
  /\ Running(i)
  /\ promise[c].state \in {"none", "failed"}
  /\ IF role[i] = "leader"
     THEN /\ Len(log[i]) + Len(request_queue[i]) < MaxLog
          /\ request_queue' = Put(request_queue, i, Append(request_queue[i], c))
          /\ promise' = Put(promise, c, Answered("waiting", 0))
     ELSE /\ promise' = Put(promise, c, Answered("failed", 0))
          /\ UNCHANGED request_queue
  /\ UNCHANGED <<status, serverVars, logVars, next_index, sync, timerVars, electVars, appendVars>>

handleTaskSubmission(i, c) == c \in SubmitCmd /\ TakeRequest(i, c)
handleTaskCompletion(i, c) == c \in FinishCmd /\ TakeRequest(i, c)

(* taskExecutionPeriodicCallback: a leader queues what getTaskAssignment   *)
(* proposes (at most one assignment, see TaskSchedule) and re-arms.        *)
taskExecutionPeriodicCallback(i) ==
  /\ Running(i)
  /\ \E t \in Called(task_execution_periodic[i]) :
       task_execution_periodic' =
         Put(task_execution_periodic, i, IF role[i] = "leader" THEN SetDeadline(t) ELSE t)
  /\ \/ UNCHANGED request_queue
     \/ /\ role[i] = "leader"
        /\ Len(log[i]) + Len(request_queue[i]) < MaxLog
        /\ \E a \in AssignCmd : request_queue' = Put(request_queue, i, Append(request_queue[i], a))
  /\ UNCHANGED <<status, serverVars, logVars, next_index, sync, promise, candidate_timeout,
                 follower_timeout, leader_periodic, electVars, appendVars>>

-----------------------------------------------------------------------------
(* The sync thread.                                                        *)

(* Faulty variants: copying starts one entry too late; the commit index is *)
(* taken from next_index_.                                                 *)
SyncCall_SkipsOne(i, j, lg, next) ==
  [from |-> i, to |-> j, beat |-> Nil, term |-> current_term[i],
   prevLogIndex |-> next - 1, prevLogTerm |-> LastTerm(lg, next),
   entries |-> SubSeq(lg, next + 2, Len(lg)), leaderCommit |-> Len(lg) - 1]
SyncCall_CommitsPrev(i, j, lg, next) ==
  [from |-> i, to |-> j, beat |-> Nil, term |-> current_term[i],
   prevLogIndex |-> next - 1, prevLogTerm |-> LastTerm(lg, next),
   entries |-> SubSeq(lg, next + 1, Len(lg)), leaderCommit |-> next - 1]

(* The AppendEntries call of one round to peer j, of a log lg.             *)
SyncCall(i, j, lg, next) ==
  [from |-> i, to |-> j, beat |-> Nil, term |-> current_term[i],
   prevLogIndex |-> next - 1, prevLogTerm |-> LastTerm(lg, next),
   entries |-> SubSeq(lg, next + 1, Len(lg)), leaderCommit |-> Len(lg) - 1]

SyncRound(i, lg, next) ==
  appendCalls' = appendCalls \cup {SyncCall(i, j, lg, next[j]) : j \in Peers(i)}

Idle(i) == Running(i) /\ ~sync[i].busy /\ request_queue[i] # <<>>

(* syncWorker, woken on a master that does not lead: all requests fail.    *)
syncWorkerRejects(i) ==
  /\ Idle(i)
  /\ role[i] # "leader"
  /\ promise' = Failed(Queued(i))
  /\ request_queue' = Put(request_queue, i, <<>>)
  /\ UNCHANGED <<status, serverVars, logVars, next_index, sync, timerVars, electVars, appendVars>>

(* syncWorker on a leader: append the next request, send the first round.  *)
syncWorkerAppends(i) ==
  /\ Idle(i)
  /\ role[i] = "leader"
  /\ LET c == Head(request_queue[i])
         lg == Append(log[i], [term |-> current_term[i], cmd |-> c])
     IN /\ log' = Put(log, i, lg)
        /\ sync' = Put(sync, i, [busy |-> TRUE, cmd |-> c, logSize |-> Len(lg)])
        /\ SyncRound(i, lg, next_index[i])
  /\ request_queue' = Put(request_queue, i, Tail(request_queue[i]))
  /\ UNCHANGED <<status, serverVars, commit_index, applied, next_index, promise, timerVars,
                 electVars, appendReplies, beats>>

(* sendAppendEntriesRequest returns once every peer answered or failed.    *)
SyncReplies(i) == {r \in appendReplies : r.to = i}
RoundOver(i) ==
  /\ Running(i)
  /\ sync[i].busy
  /\ {r.from : r \in SyncReplies(i)} = Peers(i)

Refused(i) == {r \in SyncReplies(i) : r.ok /\ r.term <= current_term[i] /\ ~r.success}
Accepted(i) == {r.from : r \in {q \in SyncReplies(i) : q.ok /\ q.success}}
Outdated(i) == \E r \in SyncReplies(i) : r.ok /\ r.term > current_term[i]
FailedNum(i) == Cardinality({r.from : r \in {q \in SyncReplies(i) : ~q.ok}})

(* The assertion on next_index_ in the loop over the replies.              *)
NextIndexAsserts(i) == \E r \in Refused(i) : next_index[i][r.from] = 0

(* Faulty variant: the index behind the next one.                          *)
NextIndex_OnePast(i) ==
  [j \in Server |-> IF j \in Accepted(i) THEN sync[i].logSize + 1
                    ELSE IF j \in {r.from : r \in Refused(i)} THEN 0 ELSE next_index[i][j]]

(* What the loop leaves in next_index_: a reply carries no logsize, so the *)
(* minimum with it is 0.                                                   *)
NextIndex(i) ==
  [j \in Server |-> IF j \in Accepted(i) THEN sync[i].logSize
                    ELSE IF j \in {r.from : r \in Refused(i)} THEN 0 ELSE next_index[i][j]]

(* Faulty variant: the size of the log is answered for the index.          *)
Answer_Size(i, state, id) ==
  IF sync[i].cmd \in Cmd THEN Put(promise, sync[i].cmd, Answered(state, sync[i].logSize)) ELSE promise

Answer(i, state, id) ==
  IF sync[i].cmd \in Cmd THEN Put(promise, sync[i].cmd, Answered(state, id)) ELSE promise

(* i was deposed while its lock was released.                              *)
SyncDeposed(i) ==
  /\ RoundOver(i)
  /\ role[i] # "leader"
  /\ appendReplies' = appendReplies \ SyncReplies(i)
  /\ promise' = Failed(Queued(i) \cup InSync(i))
  /\ request_queue' = Put(request_queue, i, <<>>)
  /\ sync' = Put(sync, i, NoSync)
  /\ UNCHANGED <<status, serverVars, logVars, next_index, timerVars, electVars, appendCalls, beats>>

(* A peer has a newer term: i steps down and keeps its term.  The entries  *)
(* of next_index_ set before the break are set again by switchToLeader     *)
(* before they are read.                                                   *)
SyncOutdated(i) ==
  /\ RoundOver(i)
  /\ role[i] = "leader"
  /\ Outdated(i)
  /\ appendReplies' = appendReplies \ SyncReplies(i)
  /\ promise' = Failed(Queued(i) \cup InSync(i))
  /\ request_queue' = Put(request_queue, i, <<>>)
  /\ sync' = Put(sync, i, NoSync)
  /\ switchToFollower(i)
  /\ UNCHANGED <<status, current_term, voted_for, logVars, next_index, candidate_timeout,
                 leader_periodic, task_execution_periodic, electVars, appendCalls, beats>>

(* The other replies are in: what follows looks at their numbers.          *)
RoundCounted(i) ==
  /\ RoundOver(i)
  /\ role[i] = "leader"
  /\ ~Outdated(i) /\ ~NextIndexAsserts(i)
  /\ appendReplies' = appendReplies \ SyncReplies(i)
  /\ next_index' = Put(next_index, i, NextIndex(i))

(* Faulty variant: off by one, half of the masters is not enough.          *)
TooManyFailed_MoreThanHalf(i) == FailedNum(i) * 2 > Cardinality(Server)

(* Half of the masters failed: false, though the entry stays in the log.   *)
TooManyFailed(i) == FailedNum(i) * 2 >= Cardinality(Server)
Replicated(i) == Majority(Cardinality(Accepted(i)) + 1)

SyncGivesUp(i) ==
  /\ RoundCounted(i)
  /\ TooManyFailed(i)
  /\ promise' = Answer(i, "failed", 0)
  /\ sync' = Put(sync, i, NoSync)
  /\ UNCHANGED <<status, serverVars, logVars, request_queue, timerVars, electVars, appendCalls, beats>>

(* A majority has the entry: answer with its index, commit and apply.      *)
SyncCommits(i) ==
  /\ RoundCounted(i)
  /\ ~TooManyFailed(i)
  /\ Replicated(i)
  /\ commit_index[i] <= sync[i].logSize
  /\ promise' = Answer(i, "done", sync[i].logSize - 1)
  /\ commitUpTo(i, log[i], sync[i].logSize)
  /\ sync' = Put(sync, i, NoSync)
  /\ UNCHANGED <<status, serverVars, log, request_queue, timerVars, electVars, appendCalls, beats>>

(* An assertion of the sync thread fails: a peer refused the whole log (it *)
(* comes in the loop before one with a newer term, if there is one), or    *)
(* the commit index is beyond the entry (the answer may get lost).         *)
FailedAssertions(i) ==
  (IF NextIndexAsserts(i) THEN {"assert_next_index"} ELSE {})
  \cup (IF /\ ~Outdated(i) /\ ~NextIndexAsserts(i) /\ ~TooManyFailed(i)
           /\ Replicated(i) /\ commit_index[i] > sync[i].logSize
        THEN {"assert_commit"} ELSE {})

SyncAborts(i) ==
  /\ RoundOver(i)
  /\ role[i] = "leader"
  /\ \E how \in FailedAssertions(i) : Die(i, how)

(* Neither: another round to all peers, from the new next_index_.          *)
SyncRetries(i) ==
  /\ RoundCounted(i)
  /\ ~TooManyFailed(i)
  /\ ~Replicated(i)
  /\ SyncRound(i, log[i], NextIndex(i))
  /\ UNCHANGED <<status, serverVars, logVars, request_queue, sync, promise, timerVars,
                 electVars, beats>>

-----------------------------------------------------------------------------
(* AppendEntries at the receiver.                                          *)

(* Faulty variant: a failed RPC is not reported.                           *)
AppendAnswer_NoFailure(m, ok, term, success) ==
  /\ appendCalls' = appendCalls \ {m}
  /\ appendReplies' = appendReplies \cup
       (IF ok /\ m.beat = Nil /\ Running(m.from)
        THEN {[from |-> m.to, to |-> m.from, ok |-> ok, term |-> term, success |-> success]}
        ELSE {})

(* The reply to the sync round of m.from; the replies to heartbeats are    *)
(* not looked at.                                                          *)
AppendAnswer(m, ok, term, success) ==
  /\ appendCalls' = appendCalls \ {m}
  /\ appendReplies' = appendReplies \cup
       (IF m.beat = Nil /\ Running(m.from)
        THEN {[from |-> m.to, to |-> m.from, ok |-> ok, term |-> term, success |-> success]}
        ELSE {})

(* handleAppendEntries of an older term.                                   *)
AppendRefused(m) ==
  /\ Running(m.to)
  /\ m.term < current_term[m.to]
  /\ AppendAnswer(m, TRUE, current_term[m.to], FALSE)
  /\ UNCHANGED <<status, serverVars, logVars, syncVars, timerVars, electVars, beats>>

(* Of this term or a newer one: i follows, whatever it was, and restarts   *)
(* its timer.                                                              *)
Follows(m) ==
  LET i == m.to IN
  /\ updateTerm(i, m.term)
  /\ role' = Put(role, i, "follower")
  /\ Arm(follower_timeout, i)
  /\ UNCHANGED <<status, syncVars, candidate_timeout, leader_periodic,
                 task_execution_periodic, electVars, beats>>

CanFollow(m) == Running(m.to) /\ m.term >= current_term[m.to]
MatchesAt(m) == Matches(log[m.to], m.prevLogIndex, m.prevLogTerm)

AppendMismatch(m) ==
  /\ CanFollow(m)
  /\ ~MatchesAt(m)
  /\ Follows(m)
  /\ \/ AppendAnswer(m, TRUE, m.term, FALSE)
     \/ RpcLoss /\ AppendAnswer(m, FALSE, 0, FALSE)
  /\ UNCHANGED logVars

AppendAccepted(m) ==
  LET lg == Merged(log[m.to], m.prevLogIndex, m.entries) IN
  /\ CanFollow(m)
  /\ MatchesAt(m)
  /\ commit_index[m.to] <= m.leaderCommit
  /\ Follows(m)
  /\ log' = Put(log, m.to, lg)
  /\ commitUpTo(m.to, lg, m.leaderCommit)
  /\ \/ AppendAnswer(m, TRUE, m.term, TRUE)
     \/ RpcLoss /\ AppendAnswer(m, FALSE, 0, FALSE)

(* The assertion of commitUpTo: a commit index behind the receiver's.      *)
AppendAborts(m) ==
  /\ CanFollow(m)
  /\ MatchesAt(m)
  /\ commit_index[m.to] > m.leaderCommit
  /\ Die(m.to, "assert_commit")

handleAppendEntries(m) ==
  AppendRefused(m) \/ AppendMismatch(m) \/ AppendAccepted(m) \/ AppendAborts(m)

(* The RPC fails without reaching the peer.                                *)
AppendCallFails(m) ==
  /\ RpcLoss \/ ~Running(m.to)
  /\ AppendAnswer(m, FALSE, 0, FALSE)
  /\ UNCHANGED <<status, serverVars, logVars, syncVars, timerVars, electVars, beats>>

-----------------------------------------------------------------------------
(* Heartbeats.                                                             *)

(* leaderPeriodicCallback takes the lock only to see that i leads and how  *)
(* long its log is.                                                        *)
leaderPeriodicCallback(i, b) ==
  /\ Running(i)
  /\ role[i] = "leader"
  /\ ~beats[i][b].active
  /\ \E t \in Called(leader_periodic[i]) : leader_periodic' = Put(leader_periodic, i, t)
  /\ beats' = [beats EXCEPT ![i][b] = ActiveBeat(Peers(i) = {}, Len(log[i]), {})]
  /\ UNCHANGED <<status, serverVars, logVars, syncVars, candidate_timeout, follower_timeout,
                 task_execution_periodic, electVars, appendCalls, appendReplies>>

leaderPeriodicReturns(i) ==
  /\ Running(i)
  /\ role[i] # "leader"
  /\ \E t \in Called(leader_periodic[i]) : leader_periodic' = Put(leader_periodic, i, t)
  /\ UNCHANGED <<status, serverVars, logVars, syncVars, candidate_timeout, follower_timeout,
                 task_execution_periodic, electVars, appendVars>>

(* It prepares one request after the other with no lock held: term, log    *)
(* and commit index are those of the moment.                               *)
BeatCall(i, b, j) ==
  [from |-> i, to |-> j, beat |-> b, term |-> current_term[i],
   prevLogIndex |-> beats[i][b].logSize - 1, prevLogTerm |-> LastTerm(log[i], beats[i][b].logSize),
   entries |-> <<>>, leaderCommit |-> commit_index[i]]

(* The request to j; with the last of them all are sent.                   *)
leaderPeriodicPrepares(i, b, j) ==
  /\ Running(i)
  /\ beats[i][b].active /\ ~beats[i][b].sent
  /\ j \in Peers(i) \ {r.to : r \in beats[i][b].requests}
  /\ LET requests == beats[i][b].requests \cup {BeatCall(i, b, j)}
     IN IF {r.to : r \in requests} = Peers(i)
        THEN /\ beats' = [beats EXCEPT ![i][b] = ActiveBeat(TRUE, @.logSize, {})]
             /\ appendCalls' = appendCalls \cup requests
        ELSE /\ beats' = [beats EXCEPT ![i][b] = ActiveBeat(FALSE, @.logSize, requests)]
             /\ UNCHANGED appendCalls
  /\ UNCHANGED <<status, serverVars, logVars, syncVars, timerVars, electVars, appendReplies>>

(* All peers answered or failed: it re-arms, whatever i is by now.         *)
leaderPeriodicEnds(i, b) ==
  /\ Running(i)
  /\ beats[i][b].sent
  /\ \A m \in appendCalls : ~(m.from = i /\ m.beat = b)
  /\ beats' = [beats EXCEPT ![i][b] = NoBeat]
  /\ Arm(leader_periodic, i)
  /\ UNCHANGED <<status, serverVars, logVars, syncVars, candidate_timeout, follower_timeout,
                 task_execution_periodic, electVars, appendCalls, appendReplies>>

-----------------------------------------------------------------------------
ExpireTimer(i) ==
  /\ \/ /\ Expire(candidate_timeout, i)
        /\ UNCHANGED <<follower_timeout, leader_periodic, task_execution_periodic>>
     \/ /\ Expire(follower_timeout, i)
        /\ UNCHANGED <<candidate_timeout, leader_periodic, task_execution_periodic>>
     \/ /\ Expire(leader_periodic, i)
        /\ UNCHANGED <<candidate_timeout, follower_timeout, task_execution_periodic>>
     \/ /\ Expire(task_execution_periodic, i)
        /\ UNCHANGED <<candidate_timeout, follower_timeout, leader_periodic>>
  /\ UNCHANGED <<status, serverVars, logVars, syncVars, electVars, appendVars>>

(* One entry per thread of a master.                                       *)
CandidateThread(i) ==
  \/ candidateTimeoutCallback(i)
  \/ candidateTimeoutReturns(i)
  \/ \E t \in {e[2] : e \in {x \in electing : x[1] = i}} : BecomesLeader(i, t) \/ NotElected(i, t)

FollowerThread(i) == followerTimeoutCallback(i) \/ followerTimeoutAborts(i)

BeatThread(i, b) ==
  \/ leaderPeriodicCallback(i, b)
  \/ \E j \in Peers(i) : leaderPeriodicPrepares(i, b, j)
  \/ leaderPeriodicEnds(i, b)

syncWorker(i) ==
  \/ syncWorkerRejects(i) \/ syncWorkerAppends(i)
  \/ SyncDeposed(i) \/ SyncOutdated(i) \/ SyncAborts(i)
  \/ SyncGivesUp(i) \/ SyncCommits(i) \/ SyncRetries(i)

RequestThread(i) ==
  \E c \in Cmd : handleTaskSubmission(i, c) \/ handleTaskCompletion(i, c)

(* The RequestVote calls from i to j, and the AppendEntries calls of one   *)
(* sender thread to j.                                                     *)
VoteRpc(i, j) ==
  \E m \in {x \in voteCalls : x.cand = i /\ x.voter = j} : handleVoteRequest(m) \/ VoteCallFails(m)
AppendRpc(i, j, b) ==
  \E m \in {x \in appendCalls : x.from = i /\ x.to = j /\ x.beat = b} :
    handleAppendEntries(m) \/ AppendCallFails(m)

Next ==
  \E i \in Server :
    \/ ExpireTimer(i)
    \/ CandidateThread(i)
    \/ FollowerThread(i)
    \/ leaderPeriodicReturns(i)
    \/ \E b \in Beat : BeatThread(i, b)
    \/ taskExecutionPeriodicCallback(i)
    \/ syncWorker(i)
    \/ RequestThread(i)
    \/ Crash(i)
    \/ \E j \in Server : VoteRpc(i, j) \/ \E b \in Beat \cup {Nil} : AppendRpc(i, j, b)

Spec == Init /\ [][Next]_vars

(* What a running process and gRPC do guarantee: every thread is scheduled *)
(* in the end, and every RPC answers or fails.  Neither the timer threads  *)
(* of followers nor callers are assumed to do anything.                    *)
Fairness ==
  /\ \A i \in Server : WF_vars(syncWorker(i)) /\ WF_vars(CandidateThread(i))
  /\ \A i \in Server : \A b \in Beat : WF_vars(BeatThread(i, b))
  /\ \A i, j \in Server : WF_vars(VoteRpc(i, j))
  /\ \A i, j \in Server : \A b \in Beat \cup {Nil} : WF_vars(AppendRpc(i, j, b))

FairSpec == Spec /\ Fairness

-----------------------------------------------------------------------------
(* Properties that hold whatever happens.                                  *)

(* At most one master wins the election of a term, though callbacks of     *)
(* candidateTimeoutCallback overlap and replies come late.  (It may lead   *)
(* under another's term later: NotElected moves a leader's term, too.)     *)
ElectionSafety == \A e, f \in elected : e[1] = f[1] => e[2] = f[2]

(* A term never goes back and a vote is never changed within its term, in  *)
(* any of the places that write current_term_ and voted_for_.              *)
VoteKept(i) ==
  /\ current_term'[i] >= current_term[i]
  /\ current_term'[i] = current_term[i] /\ voted_for[i] # Nil => voted_for'[i] = voted_for[i]
TermAndVoteStable == [][\A i \in Server : VoteKept(i)]_vars

(* Every role of a live master has a way out: the timer that ends it, or   *)
(* the callback that will set that timer again.  The switchTo functions    *)
(* and the callbacks share the job of keeping this true.                   *)
Armed(t) == t.pending \/ t.due > 0
FollowerTimed(i) == role[i] = "follower" => Armed(follower_timeout[i])
CandidateTimed(i) ==
  role[i] = "candidate" => Armed(candidate_timeout[i]) \/ \E e \in electing : e[1] = i
LeaderTimed(i) ==
  role[i] = "leader" => /\ Armed(leader_periodic[i]) \/ \E b \in Beat : beats[i][b].active
                        /\ Armed(task_execution_periodic[i])
NodeNeverStuck ==
  \A i \in Server : Running(i) => FollowerTimed(i) /\ CandidateTimed(i) /\ LeaderTimed(i)

(* No gRPC thread waits for a future nobody will set: a request without an *)
(* answer is in exactly one place of one live master.                      *)
Places(c) ==
  {<<i, 0>> : i \in {x \in Server : sync[x].busy /\ sync[x].cmd = c}}
  \cup UNION {{<<i, k>> : k \in {x \in DOMAIN request_queue[i] : request_queue[i][x] = c}} : i \in Server}
RequestHeld ==
  \A c \in Cmd : /\ promise[c].state = "waiting" => \E p \in Places(c) : Places(c) = {p} /\ Running(p[1])
                  /\ promise[c].state # "waiting" => Places(c) = {}

(* The replies a sync thread counts are those of its current round: from   *)
(* each peer exactly one call or reply is under way, and none otherwise.   *)
SyncCalls(i) == {m \in appendCalls : m.from = i /\ m.beat = Nil}
RoundIntact ==
  \A i \in Server : Running(i) =>
    IF sync[i].busy
    THEN \A j \in Peers(i) : Cardinality({m \in SyncCalls(i) : m.to = j})
                              + Cardinality({r \in SyncReplies(i) : r.from = j}) = 1
    ELSE SyncCalls(i) = {} /\ SyncReplies(i) = {}

(* Every index read without a check is inside the log: the heartbeat reads *)
(* log_[logSize - 1] with no lock, long after it took logSize; syncWorker  *)
(* reads log_[next_index_ - 1] and answers and commits logSize.            *)
NextInLog(i) == role[i] = "leader" => \A j \in Server : next_index[i][j] <= Len(log[i])
SyncInLog(i) == sync[i].busy => sync[i].logSize \in 1..Len(log[i])
BeatsInLog(i) == \A b \in Beat : beats[i][b].logSize <= Len(log[i])
AppliedInLog(i) == Len(applied[i]) <= Len(log[i]) /\ Len(applied[i]) <= commit_index[i]
IndicesInLog ==
  \A i \in Server : Running(i) => NextInLog(i) /\ SyncInLog(i) /\ BeatsInLog(i) /\ AppliedInLog(i)

-----------------------------------------------------------------------------
(* Properties of a stable term: they hold as long as nobody but the first  *)
(* leader is elected (MaxTerm = 1).                                        *)

(* Masters apply the same entries in the same order.                       *)
SameUpTo(s, t) == \A k \in DOMAIN s \cap DOMAIN t : s[k] = t[k]
StateMachineSafety == \A i, j \in Server : SameUpTo(applied[i], applied[j])

(* A request answered with a job id is in the log of a majority at that    *)
(* index (masters that ended since included), and whoever applied that     *)
(* index applied the request: the job id is the task id queries use.       *)
HoldsAt(i, c, id) == id < Len(log[i]) /\ log[i][id + 1].cmd = c
AnsweredDurable ==
  \A c \in Cmd : promise[c].state = "done" =>
    /\ Majority(Cardinality({i \in Server : HoldsAt(i, c, promise[c].jobId)}))
    /\ \A i \in Server : Len(applied[i]) > promise[c].jobId => applied[i][promise[c].jobId + 1] = c

-----------------------------------------------------------------------------
(* Liveness.                                                               *)

(* Every request a leader accepted is answered, or its master ends.        *)
RequestAnswered ==
  \A c \in Cmd : promise[c].state = "waiting" ~> promise[c].state # "waiting"

(* A leader keeps sending heartbeats for as long as it leads.              *)
Beating(i) == \E b \in Beat : beats[i][b].sent
LeaderBeats ==
  \A i \in Server : []<>(Running(i) /\ role[i] = "leader" => Beating(i))

=============================================================================
