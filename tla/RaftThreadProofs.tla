--------------------------- MODULE RaftThreadProofs ---------------------------
(***************************************************************************)
(* Theorems about the threads of the masters of RaftState: requests are    *)
(* answered by the one that holds them, a round counts its own replies,    *)
(* and no role is left without a timer.                                    *)
(***************************************************************************)
EXTENDS RaftStateProofs

-----------------------------------------------------------------------------
(* The steps of Next, by what they do to requests and rounds.              *)
Dies(i) == \E how \in Status \ {"running"} : Die(i, how)

(* Steps of the timers, elections and heartbeats of i.                     *)
Timed(i) ==
  \/ ExpireTimer(i) \/ candidateTimeoutCallback(i) \/ candidateTimeoutReturns(i)
  \/ \E t \in Nat : BecomesLeader(i, t) \/ NotElected(i, t)
  \/ followerTimeoutCallback(i) \/ leaderPeriodicReturns(i)
  \/ \E b \in Beat : leaderPeriodicCallback(i, b) \/ leaderPeriodicEnds(i, b)
Synced(i) ==
  \/ syncWorkerRejects(i) \/ syncWorkerAppends(i) \/ SyncDeposed(i) \/ SyncOutdated(i)
  \/ SyncGivesUp(i) \/ SyncCommits(i) \/ SyncRetries(i)
VoteDelivered(m) == handleVoteRequest(m) \/ VoteCallFails(m)
AppendDelivered(m) ==
  AppendRefused(m) \/ AppendMismatch(m) \/ AppendAccepted(m) \/ AppendCallFails(m)

LEMMA NextSteps ==
  ASSUME TypeInv, [Next]_vars
  PROVE  \/ UNCHANGED vars
         \/ \E i \in Server : Timed(i) \/ Synced(i) \/ Dies(i) \/ taskExecutionPeriodicCallback(i)
         \/ \E i \in Server, c \in Cmd : TakeRequest(i, c)
         \/ \E i \in Server : \E b \in Beat, j \in Peers(i) : leaderPeriodicPrepares(i, b, j)
         \/ \E m \in voteCalls : VoteDelivered(m)
         \/ \E m \in appendCalls : AppendDelivered(m)
<1> SUFFICES ASSUME NEW i \in Server,
                    \/ ExpireTimer(i)
                    \/ CandidateThread(i)
                    \/ FollowerThread(i)
                    \/ leaderPeriodicReturns(i)
                    \/ \E b \in Beat : BeatThread(i, b)
                    \/ taskExecutionPeriodicCallback(i)
                    \/ syncWorker(i)
                    \/ RequestThread(i)
                    \/ Crash(i)
                    \/ \E j \in Server : VoteRpc(i, j) \/ \E b \in Beat \cup {Nil} : AppendRpc(i, j, b)
             PROVE  \/ Timed(i) \/ Synced(i) \/ taskExecutionPeriodicCallback(i)
                    \/ \E j \in Server : Dies(j)
                    \/ \E c \in Cmd : TakeRequest(i, c)
                    \/ \E b \in Beat, j \in Peers(i) : leaderPeriodicPrepares(i, b, j)
                    \/ \E m \in voteCalls : VoteDelivered(m)
                    \/ \E m \in appendCalls : AppendDelivered(m)
  BY DEF Next
<1>1. CASE CandidateThread(i)
  <2>1. \A t : BecomesLeader(i, t) \/ NotElected(i, t) => t \in Nat
    BY DEF BecomesLeader, NotElected, ElectReturns, TypeInv, TypeOK, ElectTypeOK
  <2> QED
    BY <1>1, <2>1 DEF CandidateThread, Timed
<1>2. CASE FollowerThread(i)
  BY <1>2 DEF FollowerThread, followerTimeoutAborts, Timed, Dies, Status
<1>3. CASE \E b \in Beat : BeatThread(i, b)
  BY <1>3 DEF BeatThread, Timed
<1>4. CASE syncWorker(i)
  <2>1. FailedAssertions(i) \subseteq Status \ {"running"}
    BY DEF FailedAssertions, Status
  <2> QED
    BY <1>4, <2>1 DEF syncWorker, SyncAborts, Synced, Dies
<1>5. CASE RequestThread(i)
  BY <1>5 DEF RequestThread, handleTaskSubmission, handleTaskCompletion
<1>6. CASE Crash(i)
  BY <1>6 DEF Crash, Dies, Status
<1>7. CASE \E j \in Server : VoteRpc(i, j)
  BY <1>7 DEF VoteRpc, VoteDelivered
<1>8. CASE \E j \in Server, b \in Beat \cup {Nil} : AppendRpc(i, j, b)
  <2>1. PICK m \in appendCalls : m.to \in Server /\ (handleAppendEntries(m) \/ AppendCallFails(m))
    BY <1>8 DEF AppendRpc
  <2>2. AppendAborts(m) => Dies(m.to)
    BY DEF AppendAborts, Dies, Status
  <2> QED
    BY <2>1, <2>2 DEF handleAppendEntries, AppendDelivered
<1> QED
  BY <1>1, <1>2, <1>3, <1>4, <1>5, <1>6, <1>7, <1>8 DEF Timed

-----------------------------------------------------------------------------
(* Requests.  Place 0 of a master is its sync thread, place k > 0 is k in  *)
(* its queue.                                                              *)
Holds(i, k, c) ==
  \/ k = 0 /\ sync[i].busy /\ sync[i].cmd = c
  \/ k \in DOMAIN request_queue[i] /\ request_queue[i][k] = c

HeldAlive(c) ==
  \A i \in Server, k \in Nat : Holds(i, k, c) => Running(i) /\ promise[c].state = "waiting"
HeldOnce(c) ==
  \A i, j \in Server, k, n \in Nat : Holds(i, k, c) /\ Holds(j, n, c) => i = j /\ k = n
HeldSomewhere(c) ==
  promise[c].state = "waiting" => \E i \in Server, k \in Nat : Holds(i, k, c)
HeldInv == \A c \in Cmd : HeldAlive(c) /\ HeldOnce(c) /\ HeldSomewhere(c)

LEMMA QueueTypes ==
  ASSUME TypeInv, NEW i \in Server
  PROVE  /\ request_queue[i] \in Seq(Cmd \cup AssignCmd)
         /\ Len(request_queue[i]) \in Nat
         /\ DOMAIN request_queue[i] = 1..Len(request_queue[i])
  BY LenProperties DEF TypeInv, TypeOK, SyncTypeOK

LEMMA HeldIsRequestHeld == TypeInv /\ HeldInv => RequestHeld
<1> SUFFICES ASSUME TypeInv, HeldInv, NEW c \in Cmd
             PROVE  /\ promise[c].state = "waiting" =>
                         \E p \in Places(c) : Places(c) = {p} /\ Running(p[1])
                    /\ promise[c].state # "waiting" => Places(c) = {}
  BY DEF RequestHeld
<1>1. \A p : p \in Places(c) <=> \E i \in Server, k \in Nat : p = <<i, k>> /\ Holds(i, k, c)
  <2>1. ASSUME NEW p \in Places(c) PROVE \E i \in Server, k \in Nat : p = <<i, k>> /\ Holds(i, k, c)
    <3>1. CASE p \in {<<i, 0>> : i \in {x \in Server : sync[x].busy /\ sync[x].cmd = c}}
      BY <3>1 DEF Holds
    <3>2. CASE \E i \in Server : p \in {<<i, k>> : k \in {x \in DOMAIN request_queue[i] : request_queue[i][x] = c}}
      BY <3>2, QueueTypes DEF Holds
    <3> QED
      BY <2>1, <3>1, <3>2 DEF Places
  <2>2. ASSUME NEW i \in Server, NEW k \in Nat, Holds(i, k, c) PROVE <<i, k>> \in Places(c)
    BY <2>2 DEF Places, Holds
  <2> QED
    BY <2>1, <2>2
<1>2. HeldAlive(c) /\ HeldOnce(c) /\ HeldSomewhere(c)
  BY DEF HeldInv
<1>3. ASSUME promise[c].state = "waiting"
      PROVE  \E p \in Places(c) : Places(c) = {p} /\ Running(p[1])
  <2>1. PICK i \in Server, k \in Nat : Holds(i, k, c)
    BY <1>2, <1>3 DEF HeldSomewhere
  <2>2. <<i, k>> \in Places(c)
    BY <1>1, <2>1
  <2>3. ASSUME NEW p \in Places(c) PROVE p = <<i, k>>
    BY <1>1, <1>2, <2>1 DEF HeldOnce
  <2>4. Running(i)
    BY <1>2, <2>1 DEF HeldAlive
  <2> QED
    BY <2>2, <2>3, <2>4
<1>4. ASSUME promise[c].state # "waiting" PROVE Places(c) = {}
  BY <1>1, <1>2, <1>4 DEF HeldAlive
<1> QED
  BY <1>3, <1>4

LEMMA HoldsUnchanged ==
  ASSUME NEW i, request_queue'[i] = request_queue[i], sync'[i] = sync[i]
  PROVE  \A k, c : Holds(i, k, c)' <=> Holds(i, k, c)
  BY DEF Holds

LEMMA HeldKept ==
  ASSUME HeldInv, UNCHANGED <<status, promise, request_queue, sync>> PROVE HeldInv'
<1>1. \A i, k, c : Holds(i, k, c)' <=> Holds(i, k, c)
  BY HoldsUnchanged
<1> QED
  BY <1>1 DEF HeldInv, HeldAlive, HeldOnce, HeldSomewhere, Running

(* The steps that leave every request where it is.                         *)
LEMMA QuietSteps ==
  /\ \A i \in Server : Timed(i) \/ SyncRetries(i) => UNCHANGED <<status, promise, request_queue, sync>>
  /\ \A i, j \in Server, b \in Beat :
       leaderPeriodicPrepares(i, b, j) => UNCHANGED <<status, promise, request_queue, sync>>
  /\ \A m \in voteCalls : VoteDelivered(m) => UNCHANGED <<status, promise, request_queue, sync>>
  /\ \A m \in appendCalls : AppendDelivered(m) => UNCHANGED <<status, promise, request_queue, sync>>
<1>1. \A i \in Server : Timed(i) => UNCHANGED <<status, promise, request_queue, sync>>
  BY DEF Timed, ExpireTimer, candidateTimeoutCallback, candidateTimeoutReturns, BecomesLeader,
         NotElected, followerTimeoutCallback, leaderPeriodicReturns, leaderPeriodicCallback,
         leaderPeriodicEnds, syncVars
<1>2. \A i \in Server : SyncRetries(i) => UNCHANGED <<status, promise, request_queue, sync>>
  BY DEF SyncRetries
<1>3. \A i, j \in Server, b \in Beat :
        leaderPeriodicPrepares(i, b, j) => UNCHANGED <<status, promise, request_queue, sync>>
  BY DEF leaderPeriodicPrepares, syncVars
<1>4. \A m \in voteCalls : VoteDelivered(m) => UNCHANGED <<status, promise, request_queue, sync>>
  BY DEF VoteDelivered, handleVoteRequest, VoteCallFails, syncVars
<1>5. \A m \in appendCalls : AppendDelivered(m) => UNCHANGED <<status, promise, request_queue, sync>>
  BY DEF AppendDelivered, AppendRefused, AppendMismatch, AppendAccepted, AppendCallFails, Follows, syncVars
<1> QED
  BY <1>1, <1>2, <1>3, <1>4, <1>5

(* A leader queues a request nobody held.                                  *)
LEMMA TakeRequestHeld ==
  ASSUME TypeInv, HeldInv, NEW i \in Server, NEW c \in Cmd, TakeRequest(i, c) PROVE HeldInv'
<1> DEFINE q == request_queue[i]
           n == Len(request_queue[i]) + 1
<1>1. promise \in [Cmd -> Promise] /\ request_queue \in [Server -> Seq(Cmd \cup AssignCmd)]
  BY DEF TypeInv, TypeOK, SyncTypeOK
<1>2. /\ promise[c].state # "waiting" /\ Running(i) /\ UNCHANGED <<sync, status>>
      /\ \A d \in Cmd \ {c} : promise'[d] = promise[d]
  BY <1>1 DEF TakeRequest, Put
<1>3. \A j \in Server, k \in Nat : ~Holds(j, k, c)
  BY <1>2 DEF HeldInv, HeldAlive
<1>4. CASE UNCHANGED request_queue /\ promise'[c].state # "waiting"
  <2>1. \A j, k, d : Holds(j, k, d)' <=> Holds(j, k, d)
    BY <1>2, <1>4, HoldsUnchanged
  <2> QED
    BY <1>2, <1>3, <1>4, <2>1 DEF HeldInv, HeldAlive, HeldOnce, HeldSomewhere, Running
<1>5. CASE request_queue' = Put(request_queue, i, Append(q, c)) /\ promise'[c].state = "waiting"
  <2>1. /\ Len(q) \in Nat /\ DOMAIN q = 1..Len(q)
        /\ request_queue'[i] = Append(q, c) /\ n \in Nat
        /\ \A j \in Server \ {i} : request_queue'[j] = request_queue[j]
    BY <1>1, <1>5, QueueTypes DEF Put
  <2>2. /\ DOMAIN Append(q, c) = 1..n /\ Append(q, c)[n] = c
        /\ \A k \in 1..Len(q) : Append(q, c)[k] = q[k]
    BY <1>1, <2>1, AppendProperties, LenProperties
  <2>3. \A k \in Nat, d \in Cmd : Holds(i, k, d)' <=> Holds(i, k, d) \/ (k = n /\ d = c)
    BY <1>2, <2>1, <2>2 DEF Holds
  <2>4. \A j \in Server \ {i} : \A k, d : Holds(j, k, d)' <=> Holds(j, k, d)
    BY <1>2, <2>1, HoldsUnchanged
  <2>5. \A j \in Server, k \in Nat, d \in Cmd :
          Holds(j, k, d)' <=> Holds(j, k, d) \/ (j = i /\ k = n /\ d = c)
    BY <2>3, <2>4
  <2>6. \A j : Running(j)' <=> Running(j)
    BY <1>2 DEF Running
  <2> HIDE DEF n, q
  <2>7. ASSUME NEW d \in Cmd PROVE HeldAlive(d)' /\ HeldOnce(d)' /\ HeldSomewhere(d)'
    <3>1. CASE d = c
      BY <1>2, <1>3, <1>5, <2>1, <2>5, <2>6, <3>1 DEF HeldAlive, HeldOnce, HeldSomewhere
    <3>2. CASE d # c
      BY <1>2, <2>5, <2>6, <3>2 DEF HeldInv, HeldAlive, HeldOnce, HeldSomewhere
    <3> QED
      BY <3>1, <3>2
  <2> QED
    BY <2>7 DEF HeldInv
<1>6. CASE role[i] = "leader"
  <2>1. promise'[c] = Answered("waiting", 0) /\ request_queue' = Put(request_queue, i, Append(q, c))
    BY <1>1, <1>6 DEF TakeRequest, Put
  <2> QED
    BY <1>5, <2>1 DEF Answered
<1>7. CASE role[i] # "leader"
  <2>1. promise'[c] = Answered("failed", 0) /\ UNCHANGED request_queue
    BY <1>1, <1>7 DEF TakeRequest, Put
  <2> QED
    BY <1>4, <2>1 DEF Answered
<1> QED
  BY <1>6, <1>7

(* An assignment joins a queue; no request moves.                          *)
LEMMA AssignmentHeld ==
  ASSUME TypeInv, HeldInv, NEW i \in Server, taskExecutionPeriodicCallback(i) PROVE HeldInv'
<1>1. UNCHANGED <<status, promise, sync>>
  BY DEF taskExecutionPeriodicCallback
<1>2. CASE UNCHANGED request_queue
  BY <1>1, <1>2, HeldKept
<1>3. ASSUME NEW a \in AssignCmd, request_queue' = Put(request_queue, i, Append(request_queue[i], a))
      PROVE  HeldInv'
  <2> DEFINE q == request_queue[i]
  <2>1. /\ Len(q) \in Nat /\ DOMAIN q = 1..Len(q) /\ q \in Seq(Cmd \cup AssignCmd)
        /\ request_queue'[i] = Append(q, a)
        /\ \A j \in Server \ {i} : request_queue'[j] = request_queue[j]
    BY <1>3, QueueTypes DEF Put, TypeInv, TypeOK, SyncTypeOK
  <2>2. /\ DOMAIN Append(q, a) = 1..(Len(q) + 1) /\ Append(q, a)[Len(q) + 1] = a
        /\ \A k \in 1..Len(q) : Append(q, a)[k] = q[k]
    BY <2>1, AppendProperties, LenProperties
  <2>3. a \notin Cmd
    BY CmdAssumption DEF Cmd
  <2>4. \A k \in Nat, d \in Cmd : Holds(i, k, d)' <=> Holds(i, k, d)
    BY <1>1, <2>1, <2>2, <2>3 DEF Holds
  <2>5. \A j \in Server, k \in Nat, d \in Cmd : Holds(j, k, d)' <=> Holds(j, k, d)
    BY <1>1, <2>1, <2>4, HoldsUnchanged
  <2> QED
    BY <1>1, <2>5 DEF HeldInv, HeldAlive, HeldOnce, HeldSomewhere, Running
<1> QED
  BY <1>2, <1>3 DEF taskExecutionPeriodicCallback

(* The next request goes from the queue to the sync thread.                *)
LEMMA SyncAppendsHeld ==
  ASSUME TypeInv, HeldInv, NEW i \in Server, syncWorkerAppends(i) PROVE HeldInv'
<1> DEFINE q == request_queue[i]
<1>1. /\ UNCHANGED <<status, promise>> /\ ~sync[i].busy /\ q # <<>>
      /\ request_queue' = Put(request_queue, i, Tail(q))
  BY DEF syncWorkerAppends, Idle
<1>2. /\ q \in Seq(Cmd \cup AssignCmd) /\ Len(q) \in Nat /\ DOMAIN q = 1..Len(q)
      /\ request_queue'[i] = Tail(q)
      /\ \A j \in Server \ {i} : request_queue'[j] = request_queue[j]
  BY <1>1, QueueTypes DEF Put, TypeInv, TypeOK, SyncTypeOK
<1>3. /\ sync'[i].busy /\ sync'[i].cmd = Head(q)
      /\ \A j \in Server \ {i} : sync'[j] = sync[j]
  <2>1. \E n : sync' = Put(sync, i, [busy |-> TRUE, cmd |-> Head(q), logSize |-> n])
    BY DEF syncWorkerAppends
  <2> QED
    BY <2>1 DEF Put, TypeInv, TypeOK, SyncTypeOK
<1>4. /\ Len(q) > 0 /\ Head(q) = q[1] /\ DOMAIN Tail(q) = 1..(Len(q) - 1)
      /\ \A k \in 1..(Len(q) - 1) : Tail(q)[k] = q[k + 1]
  BY <1>1, <1>2, EmptySeq, HeadTailProperties, LenProperties
<1>5. \A j \in Server \ {i} : \A k, d : Holds(j, k, d)' <=> Holds(j, k, d)
  BY <1>2, <1>3, HoldsUnchanged
<1> HIDE DEF q
<1>6. \A k \in Nat : \A d : Holds(i, k, d)' <=> Holds(i, k + 1, d)
  <2>1. ASSUME NEW d PROVE Holds(i, 0, d)' <=> Holds(i, 1, d)
    <3>1. 1 \in DOMAIN q /\ 0 \notin DOMAIN Tail(q)
      BY <1>2, <1>4
    <3> QED
      BY <1>2, <1>3, <1>4, <3>1 DEF Holds, q
  <2>2. ASSUME NEW d, NEW k \in Nat \ {0} PROVE Holds(i, k, d)' <=> Holds(i, k + 1, d)
    <3>1. k \in 1..(Len(q) - 1) <=> k + 1 \in 1..Len(q)
      BY <1>2
    <3>2. k # 0 /\ k + 1 # 0
      OBVIOUS
    <3> QED
      BY <1>1, <1>2, <1>3, <1>4, <3>1, <3>2 DEF Holds, q
  <2> QED
    BY <2>1, <2>2
<1>7. \A d : ~Holds(i, 0, d)
  BY <1>1, <1>2 DEF Holds, q
<1>8. ASSUME NEW d \in Cmd PROVE HeldAlive(d)' /\ HeldOnce(d)' /\ HeldSomewhere(d)'
  <2>1. HeldAlive(d) /\ HeldOnce(d) /\ HeldSomewhere(d)
    BY DEF HeldInv
  <2>2. HeldAlive(d)'
    BY <1>1, <1>5, <1>6, <2>1 DEF HeldAlive, Running
  <2>3. HeldOnce(d)'
    <3> SUFFICES ASSUME NEW j \in Server, NEW m \in Server, NEW k \in Nat, NEW n \in Nat,
                        Holds(j, k, d)', Holds(m, n, d)'
                 PROVE  j = m /\ k = n
      BY DEF HeldOnce
    <3>1. PICK a \in Nat : Holds(j, a, d) /\ a = (IF j = i THEN k + 1 ELSE k)
      BY <1>5, <1>6
    <3>2. PICK b \in Nat : Holds(m, b, d) /\ b = (IF m = i THEN n + 1 ELSE n)
      BY <1>5, <1>6
    <3>3. j = m /\ a = b
      BY <2>1, <3>1, <3>2 DEF HeldOnce
    <3> QED
      BY <3>1, <3>2, <3>3
  <2>4. HeldSomewhere(d)'
    <3> SUFFICES ASSUME promise[d].state = "waiting"
                 PROVE  \E j \in Server, k \in Nat : Holds(j, k, d)'
      BY <1>1 DEF HeldSomewhere
    <3>1. PICK j \in Server, k \in Nat : Holds(j, k, d)
      BY <2>1 DEF HeldSomewhere
    <3>2. CASE j # i
      BY <1>5, <3>1, <3>2
    <3>3. CASE j = i
      <4>1. k # 0 /\ k - 1 \in Nat /\ (k - 1) + 1 = k
        BY <1>7, <3>1, <3>3
      <4> QED
        BY <1>6, <3>1, <3>3, <4>1
    <3> QED
      BY <3>2, <3>3
  <2> QED
    BY <2>2, <2>3, <2>4
<1> QED
  BY <1>8 DEF HeldInv

(* A step after which i holds no request, and none that it held waits.     *)
LEMMA ReleasedHeld ==
  ASSUME HeldInv, NEW i \in Server,
         \A j \in Server \ {i} : /\ request_queue'[j] = request_queue[j] /\ sync'[j] = sync[j]
                                 /\ status'[j] = status[j],
         \A k \in Nat, c \in Cmd : Holds(i, k, c)' => Holds(i, k, c) /\ status'[i] = status[i],
         \A c \in Cmd : \/ promise'[c] = promise[c]
                        \/ /\ promise'[c].state # "waiting"
                           /\ \E k \in Nat : Holds(i, k, c)
                           /\ \A k \in Nat : ~Holds(i, k, c)',
         \A k \in Nat, c \in Cmd : Holds(i, k, c) /\ promise'[c] = promise[c] => Holds(i, k, c)'
  PROVE  HeldInv'
<1>1. \A j \in Server \ {i} : \A k, d : Holds(j, k, d)' <=> Holds(j, k, d)
  BY HoldsUnchanged
<1>2. ASSUME NEW c \in Cmd PROVE HeldAlive(c)' /\ HeldOnce(c)' /\ HeldSomewhere(c)'
  <2>1. HeldAlive(c) /\ HeldOnce(c) /\ HeldSomewhere(c)
    BY DEF HeldInv
  <2>2. HeldOnce(c)'
    BY <1>1, <2>1 DEF HeldOnce
  <2>3. CASE promise'[c] = promise[c]
    <3>1. HeldAlive(c)'
      BY <1>1, <2>1, <2>3 DEF HeldAlive, Running
    <3>2. HeldSomewhere(c)'
      BY <1>1, <2>1, <2>3 DEF HeldSomewhere
    <3> QED
      BY <2>2, <3>1, <3>2
  <2>4. CASE /\ promise'[c].state # "waiting"
             /\ \E k \in Nat : Holds(i, k, c) /\ \A n \in Nat : ~Holds(i, n, c)'
    <3>1. \A j \in Server, k \in Nat : ~Holds(j, k, c)'
      BY <1>1, <2>1, <2>4 DEF HeldOnce
    <3> QED
      BY <2>2, <2>4, <3>1 DEF HeldAlive, HeldSomewhere
  <2> QED
    BY <2>3, <2>4
<1> QED
  BY <1>2 DEF HeldInv

(* All requests of i are answered false.                                   *)
LEMMA ClearedHeld ==
  ASSUME TypeInv, HeldInv, NEW i \in Server,
         promise' = Failed(Queued(i) \cup InSync(i)), request_queue' = Put(request_queue, i, <<>>),
         ~sync'[i].busy,
         \A j \in Server \ {i} : sync'[j] = sync[j] /\ status'[j] = status[j]
  PROVE  HeldInv'
<1>1. request_queue'[i] = <<>> /\ \A j \in Server \ {i} : request_queue'[j] = request_queue[j]
  BY DEF Put, TypeInv, TypeOK, SyncTypeOK
<1>2. \A k, c : ~Holds(i, k, c)'
  BY <1>1, EmptySeq DEF Holds
<1>3. \A c : c \in Queued(i) \cup InSync(i) <=> \E k \in Nat : Holds(i, k, c)
  BY QueueTypes DEF Queued, InSync, Holds
<1>4. \A c \in Cmd : IF \E k \in Nat : Holds(i, k, c) THEN promise'[c].state = "failed"
                                                      ELSE promise'[c] = promise[c]
  BY <1>3 DEF Failed, Answered
<1>5. \A k \in Nat, c \in Cmd : ~(Holds(i, k, c) /\ promise'[c] = promise[c])
  BY <1>4 DEF HeldInv, HeldAlive
<1> QED
  BY <1>1, <1>2, <1>4, <1>5, ReleasedHeld

(* The request of a round is answered, the queue waits.                    *)
LEMMA AnsweredHeld ==
  ASSUME TypeInv, HeldInv, NEW i \in Server, sync[i].busy,
         NEW state \in {"failed", "done"}, NEW id, promise' = Answer(i, state, id),
         sync' = Put(sync, i, NoSync), UNCHANGED <<status, request_queue>>
  PROVE  HeldInv'
<1> DEFINE x == sync[i].cmd
<1>1. ~sync'[i].busy /\ \A j \in Server \ {i} : sync'[j] = sync[j]
  BY DEF Put, NoSync, TypeInv, TypeOK, SyncTypeOK
<1>2. \A k \in Nat \ {0} : \A c : Holds(i, k, c)' <=> Holds(i, k, c)
  BY DEF Holds
<1>3. \A c : ~Holds(i, 0, c)' /\ (Holds(i, 0, c) <=> c = x)
  BY <1>1, QueueTypes DEF Holds
<1>4. \A k \in Nat : k = 0 \/ k \in Nat \ {0}
  OBVIOUS
<1>5. \A c \in Cmd : IF c = x THEN promise'[c].state = state ELSE promise'[c] = promise[c]
  BY DEF Answer, Put, Answered, TypeInv, TypeOK, SyncTypeOK
<1>6. \A k \in Nat, c \in Cmd : Holds(i, k, c)' => Holds(i, k, c)
  BY <1>2, <1>3, <1>4
<1>7. \A c \in Cmd : c = x => \A k \in Nat : ~Holds(i, k, c)'
  BY <1>2, <1>3, <1>4 DEF HeldInv, HeldOnce
<1>8. x \in Cmd => promise[x].state = "waiting"
  BY <1>3 DEF HeldInv, HeldAlive
<1> HIDE DEF x
<1>9. \A c \in Cmd : \/ promise'[c] = promise[c]
                     \/ /\ promise'[c].state # "waiting"
                        /\ \E k \in Nat : Holds(i, k, c)
                        /\ \A k \in Nat : ~Holds(i, k, c)'
  BY <1>3, <1>5, <1>7
<1>10. \A k \in Nat, c \in Cmd : Holds(i, k, c) /\ promise'[c] = promise[c] => Holds(i, k, c)'
  <2> SUFFICES ASSUME NEW k \in Nat, NEW c \in Cmd, Holds(i, k, c), promise'[c] = promise[c]
               PROVE  Holds(i, k, c)'
    OBVIOUS
  <2>1. c # x
    BY <1>5, <1>8
  <2> QED
    BY <1>2, <1>3, <1>4, <2>1
<1> QED
  BY <1>1, <1>6, <1>9, <1>10, ReleasedHeld

LEMMA SyncHeld ==
  ASSUME TypeInv, HeldInv, NEW i \in Server, Synced(i) PROVE HeldInv'
<1>1. CASE syncWorkerRejects(i)
  <2>1. InSync(i) = {} /\ ~sync[i].busy
    BY <1>1 DEF syncWorkerRejects, Idle, InSync
  <2>2. promise' = Failed(Queued(i) \cup InSync(i))
    BY <1>1, <2>1 DEF syncWorkerRejects, Failed
  <2> QED
    BY <1>1, <2>1, <2>2, ClearedHeld DEF syncWorkerRejects
<1>2. CASE SyncDeposed(i) \/ SyncOutdated(i)
  <2>1. ~sync'[i].busy /\ \A j \in Server \ {i} : sync'[j] = sync[j]
    BY <1>2 DEF SyncDeposed, SyncOutdated, Put, NoSync, TypeInv, TypeOK, SyncTypeOK
  <2> QED
    BY <1>2, <2>1, ClearedHeld DEF SyncDeposed, SyncOutdated
<1>3. CASE SyncGivesUp(i) \/ SyncCommits(i)
  BY <1>3, AnsweredHeld DEF SyncGivesUp, SyncCommits, RoundCounted, RoundOver
<1>4. CASE syncWorkerAppends(i)
  BY <1>4, SyncAppendsHeld
<1>5. CASE SyncRetries(i)
  BY <1>5, QuietSteps, HeldKept
<1> QED
  BY <1>1, <1>2, <1>3, <1>4, <1>5 DEF Synced

LEMMA NextHeldInv == TypeInv /\ HeldInv /\ [Next]_vars => HeldInv'
<1> SUFFICES ASSUME TypeInv, HeldInv, [Next]_vars PROVE HeldInv'
  OBVIOUS
<1>1. CASE UNCHANGED vars
  BY <1>1, HeldKept DEF vars, syncVars
<1>2. ASSUME NEW i \in Server, Dies(i) PROVE HeldInv'
  <2>1. /\ ~sync'[i].busy
        /\ \A j \in Server \ {i} : sync'[j] = sync[j] /\ status'[j] = status[j]
    BY <1>2 DEF Dies, Die, Put, NoSync, TypeInv, TypeOK, SyncTypeOK, ServerTypeOK
  <2> QED
    BY <1>2, <2>1, ClearedHeld DEF Dies, Die
<1>3. ASSUME NEW i \in Server, Timed(i) PROVE HeldInv'
  BY <1>3, QuietSteps, HeldKept
<1>4. CASE \E i \in Server : \E b \in Beat, j \in Peers(i) : leaderPeriodicPrepares(i, b, j)
  BY <1>4, QuietSteps, HeldKept DEF Peers
<1>5. CASE \/ \E m \in voteCalls : VoteDelivered(m)
           \/ \E m \in appendCalls : AppendDelivered(m)
  BY <1>5, QuietSteps, HeldKept
<1> QED
  BY <1>1, <1>2, <1>3, <1>4, <1>5, NextSteps, SyncHeld, TakeRequestHeld, AssignmentHeld

(* No gRPC thread waits for a future nobody will set: a request without an *)
(* answer is in one place of one live master, whatever that master does    *)
(* with its role, its round and its queue, and however it ends.            *)
THEOREM RequestsAreHeld == Spec => []RequestHeld
<1>1. Init => HeldInv
  BY EmptySeq DEF Init, HeldInv, HeldAlive, HeldOnce, HeldSomewhere, Holds, NoSync, Answered
<1>2. TypeInv /\ HeldInv /\ [Next]_vars => HeldInv'
  BY NextHeldInv
<1>3. TypeInv /\ HeldInv => RequestHeld
  BY HeldIsRequestHeld
<1> QED
  BY <1>1, <1>2, <1>3, TypeInvariant, PTL DEF Spec

-----------------------------------------------------------------------------
(* Rounds.  Calls of heartbeats are marked, nobody sends to itself, and    *)
(* while a master waits for its round one call or reply of it is under way *)
(* per peer.                                                               *)
Asked(i, j) == {m \in SyncCalls(i) : m.to = j}
Replied(i, j) == {r \in SyncReplies(i) : r.from = j}
OneUnderWay(i, j) ==
  \/ (\E m : Asked(i, j) = {m}) /\ Replied(i, j) = {}
  \/ Asked(i, j) = {} /\ \E r : Replied(i, j) = {r}
NoneUnderWay(i) == SyncCalls(i) = {} /\ SyncReplies(i) = {}

BeatsMarked == \A i \in Server, b \in Beat : \A m \in beats[i][b].requests : m.beat # Nil
NoneToSelf ==
  /\ \A m \in appendCalls : m.beat = Nil => m.to # m.from
  /\ \A r \in appendReplies : r.from # r.to
RoundOf(i) ==
  Running(i) => IF sync[i].busy THEN \A j \in Peers(i) : OneUnderWay(i, j) ELSE NoneUnderWay(i)
RoundInv == BeatsMarked /\ NoneToSelf /\ \A i \in Server : RoundOf(i)

LEMMA RoundInvIsIntact == RoundInv => RoundIntact
<1> SUFFICES ASSUME RoundInv, NEW i \in Server, Running(i)
             PROVE  IF sync[i].busy
                    THEN \A j \in Peers(i) : Cardinality(Asked(i, j)) + Cardinality(Replied(i, j)) = 1
                    ELSE SyncCalls(i) = {} /\ SyncReplies(i) = {}
  BY DEF RoundIntact, Asked, Replied
<1>1. Cardinality({}) = 0 /\ \A x : Cardinality({x}) = 1
  BY FS_EmptySet, FS_Singleton
<1>2. RoundOf(i)
  BY DEF RoundInv
<1>3. ASSUME NEW j, OneUnderWay(i, j) PROVE Cardinality(Asked(i, j)) + Cardinality(Replied(i, j)) = 1
  <2>1. \/ Cardinality(Asked(i, j)) = 1 /\ Cardinality(Replied(i, j)) = 0
        \/ Cardinality(Asked(i, j)) = 0 /\ Cardinality(Replied(i, j)) = 1
    BY <1>1, <1>3 DEF OneUnderWay
  <2> QED
    BY <2>1
<1> QED
  BY <1>2, <1>3 DEF RoundOf, NoneUnderWay

LEMMA RoundKept ==
  ASSUME NEW i, status'[i] = status[i], sync'[i] = sync[i], SyncCalls(i)' = SyncCalls(i),
         SyncReplies(i)' = SyncReplies(i), RoundOf(i)
  PROVE  RoundOf(i)'
<1>1. \A j : Asked(i, j)' = Asked(i, j) /\ Replied(i, j)' = Replied(i, j)
  BY DEF Asked, Replied
<1> QED
  BY <1>1 DEF RoundOf, OneUnderWay, NoneUnderWay, Running

(* The calls of heartbeats are marked before they are sent, and nobody     *)
(* sends to itself.                                                        *)
LEMMA NextMarks ==
  ASSUME TypeInv, BeatsMarked, NoneToSelf, [Next]_vars PROVE BeatsMarked' /\ NoneToSelf'
<1>1. beats \in [Server -> [Beat -> BeatState]]
  BY DEF TypeInv, TypeOK, AppendTypeOK
<1>2. CASE UNCHANGED <<beats, appendCalls, appendReplies>>
  BY <1>2 DEF BeatsMarked, NoneToSelf
<1>3. ASSUME NEW i \in Server, Timed(i) PROVE BeatsMarked' /\ NoneToSelf'
  <2>1. UNCHANGED <<appendCalls, appendReplies>>
    BY <1>3 DEF Timed, ExpireTimer, candidateTimeoutCallback, candidateTimeoutReturns, BecomesLeader,
         NotElected, followerTimeoutCallback, leaderPeriodicReturns, leaderPeriodicCallback,
         leaderPeriodicEnds, appendVars
  <2>2. \/ UNCHANGED beats
        \/ \E b \in Beat : leaderPeriodicCallback(i, b) \/ leaderPeriodicEnds(i, b)
    BY <1>3 DEF Timed, ExpireTimer, candidateTimeoutCallback, candidateTimeoutReturns, BecomesLeader,
         NotElected, followerTimeoutCallback, leaderPeriodicReturns, appendVars
  <2>3. ASSUME NEW b \in Beat, NEW x, beats' = [beats EXCEPT ![i][b] = x], x.requests = {}
        PROVE  BeatsMarked'
    BY <1>1, <2>3 DEF BeatsMarked
  <2>4. NoBeat.requests = {} /\ \A sent, n : ActiveBeat(sent, n, {}).requests = {}
    BY DEF NoBeat, ActiveBeat
  <2> QED
    BY <1>2, <2>1, <2>2, <2>3, <2>4 DEF leaderPeriodicCallback, leaderPeriodicEnds, NoneToSelf
<1>4. ASSUME NEW i \in Server, NEW b \in Beat, NEW j \in Peers(i), leaderPeriodicPrepares(i, b, j)
      PROVE  BeatsMarked' /\ NoneToSelf'
  <2> DEFINE requests == beats[i][b].requests \cup {BeatCall(i, b, j)}
  <2>1. \A m \in requests : m.beat # Nil
    BY BeatAssumption DEF BeatsMarked, BeatCall
  <2>2. /\ UNCHANGED appendReplies
        /\ UNCHANGED appendCalls \/ appendCalls' = appendCalls \cup requests
        /\ \/ beats' = [beats EXCEPT ![i][b] = ActiveBeat(TRUE, beats[i][b].logSize, {})]
           \/ beats' = [beats EXCEPT ![i][b] = ActiveBeat(FALSE, beats[i][b].logSize, requests)]
    BY <1>4 DEF leaderPeriodicPrepares
  <2> HIDE DEF requests
  <2>3. NoneToSelf'
    BY <2>1, <2>2 DEF NoneToSelf
  <2> DEFINE sent == ActiveBeat(TRUE, beats[i][b].logSize, {})
             unsent == ActiveBeat(FALSE, beats[i][b].logSize, requests)
  <2>4. sent.requests = {} /\ unsent.requests = requests
    BY DEF ActiveBeat
  <2>5. beats' = [beats EXCEPT ![i][b] = sent] \/ beats' = [beats EXCEPT ![i][b] = unsent]
    BY <2>2
  <2> HIDE DEF sent, unsent
  <2>6. BeatsMarked'
    <3>1. ASSUME NEW x, beats' = [beats EXCEPT ![i][b] = x], \A m \in x.requests : m.beat # Nil
          PROVE  BeatsMarked'
      BY <1>1, <3>1 DEF BeatsMarked
    <3> QED
      BY <2>1, <2>4, <2>5, <3>1
  <2> QED
    BY <2>3, <2>6
<1>5. ASSUME NEW i \in Server, Synced(i) PROVE BeatsMarked' /\ NoneToSelf'
  <2>1. UNCHANGED beats /\ appendReplies' \subseteq appendReplies
    BY <1>5 DEF Synced, syncWorkerRejects, syncWorkerAppends, SyncDeposed, SyncOutdated, SyncGivesUp,
       SyncCommits, SyncRetries, RoundCounted, appendVars
  <2>2. UNCHANGED appendCalls \/ \E lg, next : SyncRound(i, lg, next)
    BY <1>5 DEF Synced, syncWorkerRejects, syncWorkerAppends, SyncDeposed, SyncOutdated, SyncGivesUp,
       SyncCommits, SyncRetries, appendVars
  <2>3. \A m \in appendCalls' : m \in appendCalls \/ m.to \in Peers(m.from)
    BY <2>2 DEF SyncRound, SyncCall
  <2> QED
    BY <2>1, <2>3 DEF BeatsMarked, NoneToSelf, Peers
<1>6. ASSUME NEW i \in Server, Dies(i) PROVE BeatsMarked' /\ NoneToSelf'
  <2>1. /\ beats' = Put(beats, i, [b \in Beat |-> NoBeat])
        /\ appendReplies' \subseteq appendReplies /\ UNCHANGED appendCalls
    BY <1>6 DEF Dies, Die
  <2> QED
    BY <1>1, <2>1 DEF BeatsMarked, NoneToSelf, Put, NoBeat
<1>7. ASSUME NEW m \in appendCalls, AppendDelivered(m) PROVE BeatsMarked' /\ NoneToSelf'
  <2>1. UNCHANGED beats /\ \E ok, term, success : AppendAnswer(m, ok, term, success)
    BY <1>7 DEF AppendDelivered, AppendRefused, AppendMismatch, AppendAccepted, AppendCallFails, Follows
  <2>2. /\ appendCalls' \subseteq appendCalls
        /\ \A r \in appendReplies' : r \in appendReplies \/ (m.beat = Nil /\ r.from = m.to /\ r.to = m.from)
    BY <2>1 DEF AppendAnswer
  <2> QED
    BY <2>1, <2>2 DEF BeatsMarked, NoneToSelf
<1>8. CASE \E m \in voteCalls : VoteDelivered(m)
  BY <1>2, <1>8 DEF VoteDelivered, handleVoteRequest, VoteCallFails, appendVars
<1>9. ASSUME NEW i \in Server,
             taskExecutionPeriodicCallback(i) \/ \E c \in Cmd : TakeRequest(i, c)
      PROVE  BeatsMarked' /\ NoneToSelf'
  BY <1>2, <1>9 DEF taskExecutionPeriodicCallback, TakeRequest, appendVars
<1>10. CASE UNCHANGED vars
  BY <1>2, <1>10 DEF vars, appendVars
<1> QED
  BY <1>3, <1>4, <1>5, <1>6, <1>7, <1>8, <1>9, <1>10, NextSteps

(* When every peer replied no call is left.                                *)
LEMMA RoundOverNoCalls ==
  ASSUME TypeInv, RoundInv, NEW i \in Server, RoundOver(i) PROVE SyncCalls(i) = {}
<1> SUFFICES ASSUME NEW m \in SyncCalls(i) PROVE FALSE
  OBVIOUS
<1>1. m \in appendCalls /\ m.from = i /\ m.beat = Nil
  BY DEF SyncCalls
<1>2. m.to \in Peers(i)
  BY <1>1 DEF RoundInv, NoneToSelf, Peers, TypeInv, TypeOK, AppendTypeOK, AppendCall
<1>3. OneUnderWay(i, m.to)
  BY <1>2 DEF RoundInv, RoundOf, RoundOver
<1>4. m \in Asked(i, m.to)
  BY DEF Asked
<1>5. \E r \in SyncReplies(i) : r.from = m.to
  BY <1>2 DEF RoundOver
<1>6. \E r : r \in Replied(i, m.to)
  BY <1>5 DEF Replied
<1> QED
  BY <1>3, <1>4, <1>6 DEF OneUnderWay

(* A round sends one call to each peer.                                    *)
LEMMA RoundStarts ==
  ASSUME NEW i \in Server, SyncCalls(i) = {}, SyncReplies(i)' = {}, NEW lg, NEW next, SyncRound(i, lg, next)
  PROVE  \A j \in Peers(i) : OneUnderWay(i, j)'
<1> SUFFICES ASSUME NEW j \in Peers(i) PROVE OneUnderWay(i, j)'
  OBVIOUS
<1> DEFINE call(p) == SyncCall(i, p, lg, next[p])
<1>1. \A p : call(p).from = i /\ call(p).to = p /\ call(p).beat = Nil
  BY DEF SyncCall
<1>2. appendCalls' = appendCalls \cup {call(p) : p \in Peers(i)}
  BY DEF SyncRound
<1> HIDE DEF call
<1>3. SyncCalls(i)' = {m \in appendCalls' : m.from = i /\ m.beat = Nil}
  BY DEF SyncCalls
<1>4. SyncCalls(i)' = {call(p) : p \in Peers(i)}
  BY <1>1, <1>2, <1>3 DEF SyncCalls
<1>5. Asked(i, j)' = {call(j)}
  BY <1>1, <1>4 DEF Asked
<1>6. Replied(i, j)' = {}
  BY DEF Replied
<1> QED
  BY <1>5, <1>6 DEF OneUnderWay

(* A call becomes its reply: that of a heartbeat is dropped, and so is one *)
(* to a process that ended.                                                *)
LEMMA AnswerRound ==
  ASSUME TypeInv, RoundInv, NEW m \in appendCalls, NEW ok, NEW term, NEW success,
         AppendAnswer(m, ok, term, success), UNCHANGED <<status, sync>>, NEW k \in Server
  PROVE  RoundOf(k)'
<1> DEFINE reply == [from |-> m.to, to |-> m.from, ok |-> ok, term |-> term, success |-> success]
<1>1. /\ appendCalls' = appendCalls \ {m}
      /\ appendReplies' = appendReplies \cup
           (IF m.beat = Nil /\ Running(m.from) THEN {reply} ELSE {})
  BY DEF AppendAnswer
<1>2. reply.to = m.from /\ reply.from = m.to
  OBVIOUS
<1> HIDE DEF reply
<1>3. RoundOf(k) /\ status'[k] = status[k] /\ sync'[k] = sync[k]
  BY DEF RoundInv
<1>4. CASE ~Running(k)
  BY <1>3, <1>4 DEF RoundOf, Running
<1>5. CASE Running(k) /\ ~(m.beat = Nil /\ m.from = k)
  <2>1. SyncCalls(k)' = {x \in appendCalls' : x.from = k /\ x.beat = Nil}
        /\ SyncReplies(k)' = {r \in appendReplies' : r.to = k}
    BY DEF SyncCalls, SyncReplies
  <2>2. SyncCalls(k)' = SyncCalls(k)
    BY <1>1, <1>5, <2>1 DEF SyncCalls
  <2>3. SyncReplies(k)' = SyncReplies(k)
    BY <1>1, <1>2, <1>5, <2>1 DEF SyncReplies
  <2> QED
    BY <1>3, <2>2, <2>3, RoundKept
<1>6. CASE Running(k) /\ m.beat = Nil /\ m.from = k
  <2>1. m \in SyncCalls(k) /\ m \in Asked(k, m.to)
    BY <1>6 DEF SyncCalls, Asked
  <2>2. m.to \in Peers(k)
    BY <1>6 DEF RoundInv, NoneToSelf, Peers, TypeInv, TypeOK, AppendTypeOK, AppendCall
  <2>3. sync[k].busy /\ \A j \in Peers(k) : OneUnderWay(k, j)
    BY <1>3, <1>6, <2>1 DEF RoundOf, NoneUnderWay
  <2>4. Asked(k, m.to) = {m} /\ Replied(k, m.to) = {}
    BY <2>1, <2>2, <2>3 DEF OneUnderWay
  <2>5. \A j : /\ Asked(k, j)' = {x \in appendCalls' : x.from = k /\ x.beat = Nil /\ x.to = j}
               /\ Replied(k, j)' = {r \in appendReplies' : r.to = k /\ r.from = j}
    BY DEF Asked, Replied, SyncCalls, SyncReplies
  <2>6. \A j : /\ Asked(k, j) = {x \in appendCalls : x.from = k /\ x.beat = Nil /\ x.to = j}
               /\ Replied(k, j) = {r \in appendReplies : r.to = k /\ r.from = j}
    BY DEF Asked, Replied, SyncCalls, SyncReplies
  <2>7. appendReplies' = appendReplies \cup {reply}
    BY <1>1, <1>6
  <2>8. ASSUME NEW j, j = m.to PROVE Asked(k, j)' = {} /\ Replied(k, j)' = {reply}
    BY <1>1, <1>2, <1>6, <2>4, <2>5, <2>6, <2>7, <2>8
  <2>9. ASSUME NEW j, j # m.to PROVE Asked(k, j)' = Asked(k, j) /\ Replied(k, j)' = Replied(k, j)
    <3>1. {x \in appendCalls' : x.from = k /\ x.beat = Nil /\ x.to = j} = Asked(k, j)
      BY <1>1, <2>6, <2>9
    <3>2. {r \in appendReplies' : r.to = k /\ r.from = j} = Replied(k, j)
      BY <1>2, <2>6, <2>7, <2>9
    <3> QED
      BY <2>5, <3>1, <3>2
  <2>10. \A j \in Peers(k) : OneUnderWay(k, j)'
    BY <2>3, <2>8, <2>9 DEF OneUnderWay
  <2> QED
    BY <1>3, <2>3, <2>10 DEF RoundOf
<1> QED
  BY <1>4, <1>5, <1>6

(* What the sync thread of i does is no business of other masters.         *)
LEMMA SyncRounds ==
  ASSUME TypeInv, RoundInv, NEW i \in Server, Synced(i), NEW k \in Server PROVE RoundOf(k)'
<1>1. sync \in [Server -> Sync]
  BY DEF TypeInv, TypeOK, SyncTypeOK
<1>2. UNCHANGED status /\ \A j \in Server \ {i} : sync'[j] = sync[j]
  BY <1>1 DEF Synced, syncWorkerRejects, syncWorkerAppends, SyncDeposed, SyncOutdated, SyncGivesUp,
         SyncCommits, SyncRetries, Put
<1>3. UNCHANGED appendCalls \/ \E lg, next : SyncRound(i, lg, next)
  BY DEF Synced, syncWorkerRejects, syncWorkerAppends, SyncDeposed, SyncOutdated, SyncGivesUp,
         SyncCommits, SyncRetries, appendVars
<1>4. UNCHANGED appendReplies \/ appendReplies' = appendReplies \ SyncReplies(i)
  BY DEF Synced, syncWorkerRejects, syncWorkerAppends, SyncDeposed, SyncOutdated, SyncGivesUp,
         SyncCommits, SyncRetries, RoundCounted, appendVars
<1>5. RoundOf(k)
  BY DEF RoundInv
<1>6. /\ SyncCalls(k)' = {m \in appendCalls' : m.from = k /\ m.beat = Nil}
      /\ SyncReplies(k)' = {r \in appendReplies' : r.to = k}
  BY DEF SyncCalls, SyncReplies
<1>7. CASE k # i
  <2>1. \A m \in appendCalls' : m \in appendCalls \/ m.from = i
    BY <1>3 DEF SyncRound, SyncCall
  <2>2. appendCalls \subseteq appendCalls'
    BY <1>3 DEF SyncRound
  <2>3. SyncCalls(k)' = SyncCalls(k)
    BY <1>6, <1>7, <2>1, <2>2 DEF SyncCalls
  <2>4. SyncReplies(k)' = SyncReplies(k)
    BY <1>4, <1>6, <1>7 DEF SyncReplies
  <2> QED
    BY <1>2, <1>5, <1>7, <2>3, <2>4, RoundKept
<1>8. CASE k = i /\ syncWorkerRejects(i)
  BY <1>5, <1>8, RoundKept DEF syncWorkerRejects, SyncCalls, SyncReplies, appendVars
<1>9. CASE k = i /\ syncWorkerAppends(i)
  <2>1. NoneUnderWay(k)
    BY <1>5, <1>9 DEF syncWorkerAppends, Idle, RoundOf
  <2>2. SyncReplies(i)' = {} /\ SyncCalls(i) = {}
    BY <1>6, <1>9, <2>1 DEF syncWorkerAppends, NoneUnderWay, SyncReplies
  <2>3. \E lg, next : SyncRound(i, lg, next)
    BY <1>9 DEF syncWorkerAppends
  <2>4. \A j \in Peers(i) : OneUnderWay(i, j)'
    BY <2>2, <2>3, RoundStarts
  <2>5. sync'[i].busy
    <3>1. \E c, n : sync' = Put(sync, i, [busy |-> TRUE, cmd |-> c, logSize |-> n])
      BY <1>9 DEF syncWorkerAppends
    <3> QED
      BY <1>1, <3>1 DEF Put
  <2> QED
    BY <1>9, <2>4, <2>5 DEF RoundOf
<1>10. CASE k = i /\ SyncRetries(i)
  <2>1. SyncCalls(i) = {} /\ sync[i].busy
    BY <1>10, RoundOverNoCalls DEF SyncRetries, RoundCounted, RoundOver
  <2>2. SyncReplies(i)' = {}
    BY <1>6, <1>10 DEF SyncRetries, RoundCounted, SyncReplies
  <2>3. \A j \in Peers(i) : OneUnderWay(i, j)'
    BY <1>10, <2>1, <2>2, RoundStarts DEF SyncRetries
  <2> QED
    BY <1>10, <2>1, <2>3 DEF RoundOf, SyncRetries
<1>11. CASE k = i /\ (SyncDeposed(i) \/ SyncOutdated(i) \/ SyncGivesUp(i) \/ SyncCommits(i))
  <2>1. SyncCalls(i) = {} /\ UNCHANGED appendCalls
    BY <1>11, RoundOverNoCalls
    DEF SyncDeposed, SyncOutdated, SyncGivesUp, SyncCommits, RoundCounted
  <2>2. SyncReplies(i)' = {} /\ SyncCalls(i)' = {}
    BY <1>6, <1>11, <2>1
    DEF SyncDeposed, SyncOutdated, SyncGivesUp, SyncCommits, RoundCounted, SyncReplies, SyncCalls
  <2>3. ~sync'[i].busy
    BY <1>1, <1>11 DEF SyncDeposed, SyncOutdated, SyncGivesUp, SyncCommits, Put, NoSync
  <2> QED
    BY <1>11, <2>2, <2>3 DEF RoundOf, NoneUnderWay
<1> QED
  BY <1>7, <1>8, <1>9, <1>10, <1>11 DEF Synced

LEMMA NextRoundInv == TypeInv /\ RoundInv /\ [Next]_vars => RoundInv'
<1> SUFFICES ASSUME TypeInv, RoundInv, [Next]_vars, NEW k \in Server PROVE RoundOf(k)'
  BY NextMarks DEF RoundInv
<1>1. /\ SyncCalls(k)' = {m \in appendCalls' : m.from = k /\ m.beat = Nil}
      /\ SyncReplies(k)' = {r \in appendReplies' : r.to = k}
  BY DEF SyncCalls, SyncReplies
<1>2. ASSUME UNCHANGED <<status, sync, appendReplies>>,
             \A m : m.beat = Nil => (m \in appendCalls' <=> m \in appendCalls)
      PROVE  RoundOf(k)'
  BY <1>1, <1>2, RoundKept DEF RoundInv, SyncCalls, SyncReplies
<1>3. CASE UNCHANGED vars
  BY <1>2, <1>3 DEF vars, syncVars, appendVars
<1>4. ASSUME NEW i \in Server,
             Timed(i) \/ taskExecutionPeriodicCallback(i) \/ \E c \in Cmd : TakeRequest(i, c)
      PROVE  RoundOf(k)'
  <2>1. Timed(i) => UNCHANGED <<appendCalls, appendReplies>>
    BY DEF Timed, ExpireTimer, candidateTimeoutCallback, candidateTimeoutReturns, BecomesLeader,
         NotElected, followerTimeoutCallback, leaderPeriodicReturns, leaderPeriodicCallback,
         leaderPeriodicEnds, appendVars
  <2> QED
    BY <1>2, <1>4, <2>1, QuietSteps DEF taskExecutionPeriodicCallback, TakeRequest, appendVars
<1>5. ASSUME NEW i \in Server, NEW b \in Beat, NEW j \in Peers(i), leaderPeriodicPrepares(i, b, j)
      PROVE  RoundOf(k)'
  <2> DEFINE requests == beats[i][b].requests \cup {BeatCall(i, b, j)}
  <2>1. \A m \in requests : m.beat # Nil
    BY BeatAssumption DEF RoundInv, BeatsMarked, BeatCall
  <2>2. UNCHANGED appendCalls \/ appendCalls' = appendCalls \cup requests
    BY <1>5 DEF leaderPeriodicPrepares
  <2>3. UNCHANGED <<status, sync, appendReplies>>
    BY <1>5 DEF leaderPeriodicPrepares, syncVars
  <2> HIDE DEF requests
  <2> QED
    BY <1>2, <2>1, <2>2, <2>3
<1>6. ASSUME NEW i \in Server, Dies(i) PROVE RoundOf(k)'
  <2>1. PICK how \in Status \ {"running"} : Die(i, how)
    BY <1>6 DEF Dies
  <2>2. CASE k = i
    BY <2>1, <2>2 DEF Die, Put, RoundOf, Running, TypeInv, TypeOK, ServerTypeOK
  <2>3. CASE k # i
    <3>1. status'[k] = status[k] /\ sync'[k] = sync[k]
      BY <2>1, <2>3 DEF Die, Put, TypeInv, TypeOK, ServerTypeOK, SyncTypeOK
    <3>2. SyncCalls(k)' = SyncCalls(k) /\ SyncReplies(k)' = SyncReplies(k)
      BY <1>1, <2>1, <2>3 DEF Die, SyncCalls, SyncReplies
    <3> QED
      BY <3>1, <3>2, RoundKept DEF RoundInv
  <2> QED
    BY <2>2, <2>3
<1>7. ASSUME NEW m \in appendCalls, AppendDelivered(m) PROVE RoundOf(k)'
  <2>1. \E ok, term, success : AppendAnswer(m, ok, term, success)
    BY <1>7 DEF AppendDelivered, AppendRefused, AppendMismatch, AppendAccepted, AppendCallFails
  <2> QED
    BY <1>7, <2>1, QuietSteps, AnswerRound
<1>8. CASE \E m \in voteCalls : VoteDelivered(m)
  BY <1>2, <1>8 DEF VoteDelivered, handleVoteRequest, VoteCallFails, appendVars, syncVars
<1> QED
  BY <1>3, <1>4, <1>5, <1>6, <1>7, <1>8, NextSteps, SyncRounds

(* The replies a sync thread counts are those of its current round: one    *)
(* call or reply per peer while it waits, none otherwise, though it may be *)
(* deposed and lead again meanwhile and heartbeats use the same stub.      *)
THEOREM RoundsAreIntact == Spec => []RoundIntact
<1>1. Init => RoundInv
  BY DEF Init, RoundInv, BeatsMarked, NoneToSelf, RoundOf, NoneUnderWay, SyncCalls, SyncReplies,
         NoBeat, NoSync
<1>2. TypeInv /\ RoundInv /\ [Next]_vars => RoundInv'
  BY NextRoundInv
<1>3. RoundInv => RoundIntact
  BY RoundInvIsIntact
<1> QED
  BY <1>1, <1>2, <1>3, TypeInvariant, PTL DEF Spec

-----------------------------------------------------------------------------
(* Timers.  TimedOf is NodeNeverStuck of one master; a step of another one *)
(* leaves all it depends on alone.                                         *)
TimedOf(i) == Running(i) => FollowerTimed(i) /\ CandidateTimed(i) /\ LeaderTimed(i)

SameTimers(i) ==
  /\ status'[i] = status[i] /\ role'[i] = role[i]
  /\ candidate_timeout'[i] = candidate_timeout[i] /\ follower_timeout'[i] = follower_timeout[i]
  /\ leader_periodic'[i] = leader_periodic[i]
  /\ task_execution_periodic'[i] = task_execution_periodic[i]
  /\ beats'[i] = beats[i] /\ \A e \in electing : e[1] = i => e \in electing'

LEMMA TimedKept == ASSUME NEW i, TimedOf(i), SameTimers(i) PROVE TimedOf(i)'
  BY DEF TimedOf, SameTimers, Running, FollowerTimed, CandidateTimed, LeaderTimed

LEMMA OthersTimed ==
  ASSUME TypeInv, NEW i \in Server, NEW k \in Server \ {i},
         \/ Timed(i) \/ Synced(i) \/ Dies(i) \/ taskExecutionPeriodicCallback(i)
         \/ \E c \in Cmd : TakeRequest(i, c)
         \/ \E b \in Beat, j \in Peers(i) : leaderPeriodicPrepares(i, b, j)
         \/ \E m \in voteCalls : m.voter = i /\ VoteDelivered(m)
         \/ \E m \in appendCalls : m.to = i /\ AppendDelivered(m)
  PROVE  SameTimers(k)
<1> USE DEF SameTimers, TypeInv, TypeOK, ServerTypeOK, TimerTypeOK, AppendTypeOK, serverVars, timerVars,
            electVars, appendVars, Put
<1>1. /\ Arm(candidate_timeout, i) => candidate_timeout'[k] = candidate_timeout[k]
      /\ Arm(follower_timeout, i) => follower_timeout'[k] = follower_timeout[k]
      /\ Arm(leader_periodic, i) => leader_periodic'[k] = leader_periodic[k]
      /\ Arm(task_execution_periodic, i) => task_execution_periodic'[k] = task_execution_periodic[k]
  BY DEF Arm
<1>2. /\ Expire(candidate_timeout, i) => candidate_timeout'[k] = candidate_timeout[k]
      /\ Expire(follower_timeout, i) => follower_timeout'[k] = follower_timeout[k]
      /\ Expire(leader_periodic, i) => leader_periodic'[k] = leader_periodic[k]
      /\ Expire(task_execution_periodic, i) => task_execution_periodic'[k] = task_execution_periodic[k]
  BY DEF Expire
<1>3. CASE Timed(i)
  <2>1. CASE ExpireTimer(i)
    BY <1>2, <2>1 DEF ExpireTimer
  <2>2. CASE candidateTimeoutCallback(i) \/ candidateTimeoutReturns(i) \/ leaderPeriodicReturns(i)
    BY <2>2 DEF candidateTimeoutCallback, candidateTimeoutReturns, leaderPeriodicReturns
  <2>3. ASSUME NEW t \in Nat, BecomesLeader(i, t) PROVE SameTimers(k)
    BY <1>1, <2>3 DEF BecomesLeader, ElectReturns, switchToLeader
  <2>4. ASSUME NEW t \in Nat, NotElected(i, t) PROVE SameTimers(k)
    BY <1>1, <2>4 DEF NotElected, ElectReturns
  <2>5. CASE followerTimeoutCallback(i)
    BY <1>1, <2>5 DEF followerTimeoutCallback, switchToCandidate
  <2>6. ASSUME NEW b \in Beat, leaderPeriodicCallback(i, b) PROVE SameTimers(k)
    BY <2>6 DEF leaderPeriodicCallback
  <2>7. ASSUME NEW b \in Beat, leaderPeriodicEnds(i, b) PROVE SameTimers(k)
    BY <1>1, <2>7 DEF leaderPeriodicEnds
  <2> QED
    BY <1>3, <2>1, <2>2, <2>3, <2>4, <2>5, <2>6, <2>7 DEF Timed
<1>4. CASE Synced(i)
  <2>1. CASE SyncOutdated(i)
    BY <1>1, <2>1 DEF SyncOutdated, switchToFollower
  <2>2. CASE ~SyncOutdated(i)
    BY <1>4, <2>2 DEF Synced, syncWorkerRejects, syncWorkerAppends, SyncDeposed, SyncGivesUp, SyncCommits, SyncRetries
  <2> QED
    BY <2>1, <2>2
<1>5. CASE Dies(i)
  BY <1>5 DEF Dies, Die
<1>6. CASE taskExecutionPeriodicCallback(i) \/ \E c \in Cmd : TakeRequest(i, c)
  BY <1>6 DEF taskExecutionPeriodicCallback, TakeRequest
<1>7. ASSUME NEW b \in Beat, NEW j \in Peers(i), leaderPeriodicPrepares(i, b, j) PROVE SameTimers(k)
  <2>1. \E x : beats' = [beats EXCEPT ![i][b] = x]
    <3> DEFINE requests == beats[i][b].requests \cup {BeatCall(i, b, j)}
    <3>1. \/ beats' = [beats EXCEPT ![i][b] = ActiveBeat(TRUE, beats[i][b].logSize, {})]
          \/ beats' = [beats EXCEPT ![i][b] = ActiveBeat(FALSE, beats[i][b].logSize, requests)]
      BY <1>7 DEF leaderPeriodicPrepares
    <3> HIDE DEF requests
    <3> QED
      BY <3>1
  <2> QED
    BY <1>7, <2>1 DEF leaderPeriodicPrepares
<1>8. ASSUME NEW m \in voteCalls, m.voter = i, VoteDelivered(m) PROVE SameTimers(k)
  BY <1>1, <1>8 DEF VoteDelivered, handleVoteRequest, VoteCallFails, switchToFollower
<1>9. ASSUME NEW m \in appendCalls, m.to = i, AppendDelivered(m) PROVE SameTimers(k)
  BY <1>1, <1>9 DEF AppendDelivered, AppendRefused, AppendMismatch, AppendAccepted, AppendCallFails, Follows
<1> QED
  BY <1>3, <1>4, <1>5, <1>6, <1>7, <1>8, <1>9

LEMMA TimerFacts ==
  ASSUME NEW t
  PROVE  Armed(SetDeadline(t)) /\ (t \in TimerState => Armed(Expired(t)))
  BY DEF Armed, SetDeadline, Expired, TimerState

(* The timers and elections of i itself.                                   *)
LEMMA OwnTimers ==
  ASSUME TypeInv, NEW i \in Server, TimedOf(i), Timed(i) PROVE TimedOf(i)'
<1> USE DEF TypeInv, TypeOK, ServerTypeOK, TimerTypeOK, AppendTypeOK, serverVars, timerVars, electVars,
            appendVars
<1> USE DEF TimedOf, Running, FollowerTimed, CandidateTimed, LeaderTimed
<1>1. ASSUME ExpireTimer(i) PROVE TimedOf(i)'
  <2>1. /\ Expire(candidate_timeout, i) => Armed(candidate_timeout'[i])
        /\ Expire(follower_timeout, i) => Armed(follower_timeout'[i])
        /\ Expire(leader_periodic, i) => Armed(leader_periodic'[i])
        /\ Expire(task_execution_periodic, i) => Armed(task_execution_periodic'[i])
    BY TimerFacts DEF Expire
  <2> QED
    BY <1>1, <2>1 DEF ExpireTimer
<1>2. ASSUME candidateTimeoutCallback(i) PROVE TimedOf(i)'
  <2>1. role'[i] = "candidate" /\ <<i, current_term[i] + 1>> \in electing'
    BY <1>2 DEF candidateTimeoutCallback
  <2>2. \E e \in electing' : e[1] = i
    BY <2>1
  <2> QED
    BY <2>1, <2>2
<1>3. ASSUME candidateTimeoutReturns(i) PROVE TimedOf(i)'
  BY <1>3 DEF candidateTimeoutReturns
<1>4. ASSUME NEW t \in Nat, BecomesLeader(i, t) PROVE TimedOf(i)'
  <2>1. role'[i] = "leader" /\ status'[i] = status[i] /\ beats' = beats
    BY <1>4 DEF BecomesLeader, switchToLeader, Put
  <2>2. CASE role[i] = "leader"
    BY <1>4, <2>1, <2>2 DEF BecomesLeader, switchToLeader
  <2>3. CASE role[i] # "leader"
    <3>1. Armed(leader_periodic'[i]) /\ Armed(task_execution_periodic'[i])
      BY <1>4, <2>3, TimerFacts DEF BecomesLeader, switchToLeader, Arm
    <3> QED
      BY <2>1, <3>1
  <2> QED
    BY <2>2, <2>3
<1>5. ASSUME NEW t \in Nat, NotElected(i, t) PROVE TimedOf(i)'
  <2>1. Armed(candidate_timeout'[i])
    BY <1>5, TimerFacts DEF NotElected, Arm
  <2> QED
    BY <1>5, <2>1 DEF NotElected
<1>6. ASSUME followerTimeoutCallback(i) PROVE TimedOf(i)'
  <2>1. role'[i] = "candidate" /\ Armed(candidate_timeout'[i])
    BY <1>6, TimerFacts DEF followerTimeoutCallback, switchToCandidate, Arm, Put
  <2> QED
    BY <2>1
<1>7. ASSUME leaderPeriodicReturns(i) PROVE TimedOf(i)'
  BY <1>7 DEF leaderPeriodicReturns
<1>8. ASSUME NEW b \in Beat, leaderPeriodicCallback(i, b) PROVE TimedOf(i)'
  <2> DEFINE x == ActiveBeat(Peers(i) = {}, Len(log[i]), {})
  <2>1. x.active /\ beats' = [beats EXCEPT ![i][b] = x]
    BY <1>8 DEF leaderPeriodicCallback, ActiveBeat
  <2> HIDE DEF x
  <2>2. beats'[i][b].active
    BY <2>1
  <2> QED
    BY <1>8, <2>2 DEF leaderPeriodicCallback
<1>9. ASSUME NEW b \in Beat, leaderPeriodicEnds(i, b) PROVE TimedOf(i)'
  <2>1. Armed(leader_periodic'[i])
    BY <1>9, TimerFacts DEF leaderPeriodicEnds, Arm
  <2> QED
    BY <1>9, <2>1 DEF leaderPeriodicEnds
<1> QED
  BY <1>1, <1>2, <1>3, <1>4, <1>5, <1>6, <1>7, <1>8, <1>9 DEF Timed

(* Its other steps.                                                        *)
LEMMA OwnSteps ==
  ASSUME TypeInv, NEW i \in Server, TimedOf(i),
         \/ Synced(i) \/ Dies(i) \/ taskExecutionPeriodicCallback(i)
         \/ \E c \in Cmd : TakeRequest(i, c)
         \/ \E b \in Beat, j \in Peers(i) : leaderPeriodicPrepares(i, b, j)
         \/ \E m \in voteCalls : m.voter = i /\ VoteDelivered(m)
         \/ \E m \in appendCalls : m.to = i /\ AppendDelivered(m)
  PROVE  TimedOf(i)'
<1> USE DEF TypeInv, TypeOK, ServerTypeOK, TimerTypeOK, AppendTypeOK, serverVars, timerVars, electVars,
            appendVars
<1>1. ASSUME role'[i] = "follower", Armed(follower_timeout'[i]) PROVE TimedOf(i)'
  BY <1>1 DEF TimedOf, FollowerTimed, CandidateTimed, LeaderTimed
<1>2. ASSUME switchToFollower(i), TimedOf(i), Running(i) PROVE TimedOf(i)'
  <2>1. role'[i] = "follower"
    BY <1>2 DEF switchToFollower, Put
  <2>2. Armed(follower_timeout'[i])
    BY <1>2, TimerFacts DEF switchToFollower, Arm, TimedOf, FollowerTimed
  <2> QED
    BY <1>1, <2>1, <2>2
<1>3. CASE Synced(i)
  <2>1. CASE SyncOutdated(i)
    BY <1>2, <2>1 DEF SyncOutdated, RoundOver
  <2>2. CASE ~SyncOutdated(i)
    <3>1. SameTimers(i)
      BY <1>3, <2>2 DEF Synced, syncWorkerRejects, syncWorkerAppends, SyncDeposed, SyncGivesUp,
         SyncCommits, SyncRetries, SameTimers
    <3> QED
      BY <3>1, TimedKept
  <2> QED
    BY <2>1, <2>2
<1>4. CASE Dies(i)
  <2>1. ~Running(i)'
    BY <1>4 DEF Dies, Die, Put, Running
  <2> QED
    BY <2>1 DEF TimedOf
<1>5. CASE taskExecutionPeriodicCallback(i)
  <2>1. role[i] = "leader" => Armed(task_execution_periodic'[i])
    BY <1>5, TimerFacts DEF taskExecutionPeriodicCallback, Put
  <2> QED
    BY <1>5, <2>1 DEF taskExecutionPeriodicCallback, TimedOf, Running, FollowerTimed, CandidateTimed, LeaderTimed
<1>6. CASE \E c \in Cmd : TakeRequest(i, c)
  <2>1. SameTimers(i)
    BY <1>6 DEF TakeRequest, SameTimers
  <2> QED
    BY <2>1, TimedKept
<1>7. ASSUME NEW b \in Beat, NEW j \in Peers(i), leaderPeriodicPrepares(i, b, j) PROVE TimedOf(i)'
  <2> DEFINE requests == beats[i][b].requests \cup {BeatCall(i, b, j)}
             sent == ActiveBeat(TRUE, beats[i][b].logSize, {})
             unsent == ActiveBeat(FALSE, beats[i][b].logSize, requests)
  <2>1. sent.active /\ unsent.active
    BY DEF ActiveBeat
  <2>2. beats' = [beats EXCEPT ![i][b] = sent] \/ beats' = [beats EXCEPT ![i][b] = unsent]
    BY <1>7 DEF leaderPeriodicPrepares
  <2> HIDE DEF sent, unsent
  <2>3. beats'[i][b].active
    BY <2>1, <2>2
  <2> QED
    BY <1>7, <2>3 DEF leaderPeriodicPrepares, TimedOf, Running, FollowerTimed, CandidateTimed, LeaderTimed
<1>8. ASSUME NEW m \in voteCalls, m.voter = i, VoteDelivered(m) PROVE TimedOf(i)'
  <2>1. CASE switchToFollower(i) /\ Running(i)
    BY <1>2, <2>1
  <2>2. CASE UNCHANGED <<role, follower_timeout>>
    <3>1. SameTimers(i)
      BY <1>8, <2>2 DEF VoteDelivered, handleVoteRequest, VoteCallFails, SameTimers
    <3> QED
      BY <3>1, TimedKept
  <2> QED
    BY <1>8, <2>1, <2>2 DEF VoteDelivered, handleVoteRequest, VoteCallFails
<1>9. ASSUME NEW m \in appendCalls, m.to = i, AppendDelivered(m) PROVE TimedOf(i)'
  <2>1. CASE Follows(m)
    <3>1. role'[i] = "follower" /\ Armed(follower_timeout'[i])
      BY <1>9, <2>1, TimerFacts DEF Follows, Arm, Put
    <3> QED
      BY <1>1, <3>1
  <2>2. CASE AppendRefused(m) \/ AppendCallFails(m)
    <3>1. SameTimers(i)
      BY <2>2 DEF AppendRefused, AppendCallFails, SameTimers
    <3> QED
      BY <3>1, TimedKept
  <2> QED
    BY <1>9, <2>1, <2>2 DEF AppendDelivered, AppendMismatch, AppendAccepted
<1> QED
  BY <1>3, <1>4, <1>5, <1>6, <1>7, <1>8, <1>9

LEMMA NextTimed ==
  ASSUME TypeInv, \A i \in Server : TimedOf(i), [Next]_vars, NEW k \in Server PROVE TimedOf(k)'
<1>1. CASE UNCHANGED vars
  <2>1. SameTimers(k)
    BY <1>1 DEF vars, SameTimers, serverVars, timerVars, electVars, appendVars
  <2> QED
    BY <2>1, TimedKept
<1>2. ASSUME NEW i \in Server,
             \/ Timed(i) \/ Synced(i) \/ Dies(i) \/ taskExecutionPeriodicCallback(i)
             \/ \E c \in Cmd : TakeRequest(i, c)
             \/ \E b \in Beat, j \in Peers(i) : leaderPeriodicPrepares(i, b, j)
             \/ \E m \in voteCalls : m.voter = i /\ VoteDelivered(m)
             \/ \E m \in appendCalls : m.to = i /\ AppendDelivered(m)
      PROVE  TimedOf(k)'
  <2>1. CASE k = i
    BY <1>2, <2>1, OwnTimers, OwnSteps
  <2>2. CASE k # i
    <3>1. SameTimers(k)
      BY <1>2, <2>2, OthersTimed
    <3> QED
      BY <3>1, TimedKept
  <2> QED
    BY <2>1, <2>2
<1>3. /\ \A m \in voteCalls : m.voter \in Server
      /\ \A m \in appendCalls : m.to \in Server
  BY DEF TypeInv, TypeOK, ElectTypeOK, AppendTypeOK, VoteCall, AppendCall
<1>4. CASE Next
  <2>1. \/ \E i \in Server : Timed(i) \/ Synced(i) \/ Dies(i) \/ taskExecutionPeriodicCallback(i)
        \/ \E i \in Server, c \in Cmd : TakeRequest(i, c)
        \/ \E i \in Server : \E b \in Beat, j \in Peers(i) : leaderPeriodicPrepares(i, b, j)
        \/ \E m \in voteCalls : VoteDelivered(m)
        \/ \E m \in appendCalls : AppendDelivered(m)
        \/ UNCHANGED vars
    BY <1>4, NextSteps
  <2> QED
    BY <1>1, <1>2, <1>3, <2>1
<1> QED
  BY <1>1, <1>4

(* Every role of a live master has a way out: the timer that ends it, or   *)
(* the callback that will set that timer again, through all changes of     *)
(* role by elections, messages and the sync thread.                        *)
THEOREM NodesNeverStuck == Spec => []NodeNeverStuck
<1> DEFINE AllTimed == \A i \in Server : TimedOf(i)
<1>1. Init => AllTimed
  BY TimerFacts DEF Init, TimedOf, FollowerTimed, CandidateTimed, LeaderTimed
<1>2. TypeInv /\ AllTimed /\ [Next]_vars => AllTimed'
  BY NextTimed
<1>3. AllTimed => NodeNeverStuck
  BY DEF TimedOf, NodeNeverStuck
<1> HIDE DEF AllTimed
<1> QED
  BY <1>1, <1>2, <1>3, TypeInvariant, PTL DEF Spec
=============================================================================
