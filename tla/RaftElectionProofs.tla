-------------------------- MODULE RaftElectionProofs --------------------------
(***************************************************************************)
(* One winner per term, for any number of masters: the elections of        *)
(* RaftState, whose callbacks overlap and whose replies come late.         *)
(***************************************************************************)
EXTENDS RaftStateProofs

-----------------------------------------------------------------------------
(* Terms and votes, action by action.                                      *)
VotesKept == \A i \in Server : VoteKept(i)

LEMMA VotesUnchanged ==
  ASSUME TypeInv, UNCHANGED <<current_term, voted_for>>
  PROVE  VotesKept
BY DEF VotesKept, VoteKept, TypeInv, TypeOK, ServerTypeOK

LEMMA UpdateTermKeepsVotes ==
  ASSUME TypeInv, NEW i \in Server, NEW t \in Nat, updateTerm(i, t)
  PROVE  VotesKept
BY DEF updateTerm, Put, VotesKept, VoteKept, TypeInv, TypeOK, ServerTypeOK

LEMMA CandidateKeepsVotes ==
  ASSUME TypeInv, NEW i \in Server, candidateTimeoutCallback(i)
  PROVE  VotesKept
BY DEF candidateTimeoutCallback, Put, VotesKept, VoteKept, TypeInv, TypeOK, ServerTypeOK

(* A vote goes to a newer term, or to nobody else in the same one.         *)
LEMMA VoterKeepsVotes ==
  ASSUME TypeInv, NEW m \in voteCalls, handleVoteRequest(m)
  PROVE  VotesKept
<1>1. m.voter \in Server /\ m.cand \in Server /\ m.term \in Nat
  BY DEF TypeInv, TypeOK, ElectTypeOK, VoteCall
<1>2. \A k \in Server : k # m.voter => current_term'[k] = current_term[k] /\ voted_for'[k] = voted_for[k]
  BY <1>1 DEF handleVoteRequest, serverVars, Put, TypeInv, TypeOK, ServerTypeOK
<1>3. CASE m.term < current_term[m.voter]
  BY <1>3, VotesUnchanged DEF handleVoteRequest, serverVars
<1>4. CASE ~(m.term < current_term[m.voter])
  <2>1. /\ current_term'[m.voter] = m.term
        /\ voted_for'[m.voter] = IF Grants(m.voter, m) THEN m.cand
                                 ELSE IF m.term > current_term[m.voter] THEN Nil ELSE voted_for[m.voter]
    BY <1>1, <1>4 DEF handleVoteRequest, Put, TypeInv, TypeOK, ServerTypeOK
  <2>2. m.term = current_term[m.voter] /\ voted_for[m.voter] # Nil
          => voted_for'[m.voter] = voted_for[m.voter]
    BY <1>1, <2>1 DEF Grants, TypeInv, TypeOK, ServerTypeOK
  <2>3. QED
    BY <1>1, <1>2, <1>4, <2>1, <2>2 DEF VotesKept, VoteKept, TypeInv, TypeOK, ServerTypeOK
<1>5. QED
  BY <1>3, <1>4

-----------------------------------------------------------------------------
(* Pledges: the vote of p[1] for p[3] in term p[2] that counts for p[3],   *)
(* or will: the vote a candidate gave itself, and a granted reply.         *)
Granted == {r \in voteReplies : r.granted}
Pledges == {<<r.voter, r.term, r.cand>> : r \in Granted} \cup {<<e[1], e[2], e[1]>> : e \in electing}

(* A voter never takes a vote back: it remembers it, or the term is over.  *)
Voted(v, t, c) == current_term[v] > t \/ (current_term[v] = t /\ voted_for[v] = c)
PledgesHold == \A p \in Pledges : Voted(p[1], p[2], p[3])
PledgesAgree == \A p, q \in Pledges : p[1] = q[1] /\ p[2] = q[2] => p[3] = q[3]

(* Behind every leader is a majority that voted for it and that can give   *)
(* no vote of that term to anyone else any more.                           *)
Supports(Q, e) ==
  \A v \in Q : Voted(v, e[1], e[2]) /\ \A p \in Pledges : p[1] = v /\ p[2] = e[1] => p[3] = e[2]
LeadersSupported ==
  \A e \in elected : \E Q \in SUBSET Server : Majority(Cardinality(Q)) /\ Supports(Q, e)

ElectInv == PledgesHold /\ PledgesAgree /\ LeadersSupported /\ ElectionSafety

(* A pledge that this step makes: of the voter's new vote.                 *)
Fresh(p) ==
  /\ current_term[p[1]] <= p[2]
  /\ current_term'[p[1]] = p[2]
  /\ voted_for'[p[1]] = p[3]
PledgeStep == \A p \in Pledges' : p \in Pledges \/ Fresh(p)

LEMMA PledgeTypes == TypeInv => Pledges \subseteq Server \X Nat \X Server
BY DEF TypeInv, TypeOK, ElectTypeOK, VoteReply, Pledges, Granted

LEMMA NoNewPledges ==
  ASSUME voteReplies' \subseteq voteReplies, electing' \subseteq electing
  PROVE  PledgeStep
BY DEF PledgeStep, Pledges, Granted

LEMMA VotedStays ==
  ASSUME TypeInv, TypeInv', VotesKept, NEW v \in Server, NEW t \in Nat, NEW c \in Server, Voted(v, t, c)
  PROVE  Voted(v, t, c)'
<1>1. /\ current_term[v] \in Nat /\ current_term'[v] \in Nat
      /\ current_term'[v] >= current_term[v]
      /\ current_term'[v] = current_term[v] /\ voted_for[v] # Nil => voted_for'[v] = voted_for[v]
  BY DEF TypeInv, TypeOK, ServerTypeOK, VotesKept, VoteKept
<1>2. c # Nil
  BY ServerAssumption
<1>3. QED
  BY <1>1, <1>2 DEF Voted

(* The new vote of a voter that had voted in this term is the old one.     *)
LEMMA FreshAgrees ==
  ASSUME TypeInv, VotesKept, NEW v \in Server, NEW t \in Nat, NEW c \in Server, NEW d \in Server,
         Voted(v, t, c), Fresh(<<v, t, d>>)
  PROVE  c = d
<1>1. current_term[v] \in Nat /\ current_term[v] <= t /\ current_term'[v] = t /\ voted_for'[v] = d
  BY DEF TypeInv, TypeOK, ServerTypeOK, Fresh
<1>2. current_term[v] = t /\ voted_for[v] = c
  BY <1>1 DEF Voted
<1>3. c # Nil
  BY ServerAssumption
<1>4. QED
  BY <1>1, <1>2, <1>3 DEF VotesKept, VoteKept

(* A step that keeps the votes and pledges only these keeps the invariant. *)
LEMMA PledgesKept ==
  ASSUME TypeInv, TypeInv', ElectInv, VotesKept, PledgeStep
  PROVE  /\ PledgesHold' /\ PledgesAgree'
         /\ \A e \in elected : \E Q \in SUBSET Server : Majority(Cardinality(Q)) /\ Supports(Q, e)'
<1>1. Pledges \subseteq Server \X Nat \X Server /\ Pledges' \subseteq Server \X Nat \X Server
  <2>1. TypeInv' => (Pledges \subseteq Server \X Nat \X Server)'
    BY PledgeTypes, PTL
  <2>2. QED
    BY <2>1, PledgeTypes
<1>2. PledgesHold'
  <2> SUFFICES ASSUME NEW p \in Pledges' PROVE Voted(p[1], p[2], p[3])'
    BY DEF PledgesHold
  <2>1. p[1] \in Server /\ p[2] \in Nat /\ p[3] \in Server
    BY <1>1
  <2>2. CASE p \in Pledges
    BY <2>1, <2>2, VotedStays DEF ElectInv, PledgesHold
  <2>3. CASE Fresh(p)
    BY <2>3 DEF Fresh, Voted
  <2>4. QED
    BY <2>2, <2>3 DEF PledgeStep
<1>3. PledgesAgree'
  <2> SUFFICES ASSUME NEW p \in Pledges', NEW q \in Pledges', p[1] = q[1], p[2] = q[2]
               PROVE  p[3] = q[3]
    BY DEF PledgesAgree
  <2>1. /\ p[1] \in Server /\ p[2] \in Nat /\ p[3] \in Server /\ q[3] \in Server
        /\ p = <<p[1], p[2], p[3]>> /\ q = <<p[1], p[2], q[3]>>
    BY <1>1
  <2>2. CASE p \in Pledges /\ q \in Pledges
    BY <2>2 DEF ElectInv, PledgesAgree
  <2>3. CASE p \in Pledges /\ Fresh(q)
    <3>1. Voted(p[1], p[2], p[3])
      BY <2>3 DEF ElectInv, PledgesHold
    <3>2. QED
      BY <2>1, <2>3, <3>1, FreshAgrees
  <2>4. CASE q \in Pledges /\ Fresh(p)
    <3>1. Voted(p[1], p[2], q[3])
      BY <2>4 DEF ElectInv, PledgesHold
    <3>2. QED
      BY <2>1, <2>4, <3>1, FreshAgrees
  <2>5. CASE Fresh(p) /\ Fresh(q)
    BY <2>5 DEF Fresh
  <2>6. QED
    BY <2>2, <2>3, <2>4, <2>5 DEF PledgeStep
<1>4. ASSUME NEW e \in elected
      PROVE  \E Q \in SUBSET Server : Majority(Cardinality(Q)) /\ Supports(Q, e)'
  <2>1. PICK Q \in SUBSET Server : Majority(Cardinality(Q)) /\ Supports(Q, e)
    BY DEF ElectInv, LeadersSupported
  <2>2. e[1] \in Nat /\ e[2] \in Server
    BY DEF TypeInv, TypeOK, ElectTypeOK
  <2>3. ASSUME NEW v \in Q PROVE Voted(v, e[1], e[2])'
    BY <2>1, <2>2, VotedStays DEF Supports
  <2>4. ASSUME NEW v \in Q, NEW p \in Pledges', p[1] = v, p[2] = e[1] PROVE p[3] = e[2]
    <3>1. p[3] \in Server /\ p = <<v, e[1], p[3]>>
      BY <1>1, <2>4
    <3>2. CASE p \in Pledges
      BY <2>1, <2>4, <3>2 DEF Supports
    <3>3. CASE Fresh(p)
      <4>1. Voted(v, e[1], e[2])
        BY <2>1 DEF Supports
      <4>2. QED
        BY <2>2, <3>1, <3>3, <4>1, FreshAgrees
    <3>4. QED
      BY <3>2, <3>3 DEF PledgeStep
  <2>5. Supports(Q, e)'
    BY <2>3, <2>4 DEF Supports
  <2>6. QED
    BY <2>1, <2>5
<1>5. QED
  BY <1>2, <1>3, <1>4

(* ... and then only an election can be wrong.                             *)
LEMMA ElectInvKept ==
  ASSUME TypeInv, TypeInv', ElectInv, VotesKept, PledgeStep, elected' = elected
  PROVE  ElectInv'
BY PledgesKept DEF ElectInv, LeadersSupported, ElectionSafety

-----------------------------------------------------------------------------
(* The steps of an election.                                               *)
LEMMA CandidatePledges ==
  ASSUME TypeInv, NEW i \in Server, candidateTimeoutCallback(i)
  PROVE  PledgeStep
<1>1. /\ voteReplies' = voteReplies
      /\ electing' = electing \cup {<<i, current_term[i] + 1>>}
      /\ current_term' = [current_term EXCEPT ![i] = current_term[i] + 1]
      /\ voted_for' = [voted_for EXCEPT ![i] = i]
  BY DEF candidateTimeoutCallback, Put
<1>2. Fresh(<<i, current_term[i] + 1, i>>)
  BY <1>1 DEF Fresh, TypeInv, TypeOK, ServerTypeOK
<1>3. Pledges' \subseteq Pledges \cup {<<i, current_term[i] + 1, i>>}
  BY <1>1 DEF Pledges, Granted
<1>4. QED
  BY <1>2, <1>3 DEF PledgeStep

LEMMA VoterPledges ==
  ASSUME TypeInv, NEW m \in voteCalls, handleVoteRequest(m)
  PROVE  PledgeStep
<1>1. m.voter \in Server /\ m.cand \in Server /\ m.term \in Nat
  BY DEF TypeInv, TypeOK, ElectTypeOK, VoteCall
<1>2. PICK g \in BOOLEAN, t \in Nat :
        /\ VoteAnswer(m, g, t)
        /\ g => Grants(m.voter, m) /\ ~(m.term < current_term[m.voter])
  <2>1. current_term[m.voter] \in Nat /\ Grants(m.voter, m) \in BOOLEAN
    BY <1>1 DEF TypeInv, TypeOK, ServerTypeOK, Grants, LongEnough
  <2>2. QED
    BY <1>1, <2>1 DEF handleVoteRequest
<1>3. electing' = electing
  BY DEF handleVoteRequest
<1>4. CASE ~g
  <2>1. Granted' \subseteq Granted
    BY <1>2, <1>4 DEF VoteAnswer, Granted
  <2>2. QED
    BY <1>3, <2>1 DEF PledgeStep, Pledges
<1>5. CASE g
  <2>1. Fresh(<<m.voter, m.term, m.cand>>)
    <3>1. current_term'[m.voter] = m.term /\ voted_for'[m.voter] = m.cand
      BY <1>1, <1>2, <1>5 DEF handleVoteRequest, Put, TypeInv, TypeOK, ServerTypeOK
    <3>2. QED
      BY <1>1, <1>2, <1>5, <3>1 DEF Fresh, TypeInv, TypeOK, ServerTypeOK
  <2>2. Pledges' \subseteq Pledges \cup {<<m.voter, m.term, m.cand>>}
    BY <1>2, <1>3 DEF VoteAnswer, Pledges, Granted
  <2>3. QED
    BY <2>1, <2>2 DEF PledgeStep
<1>6. QED
  BY <1>4, <1>5

(* The new leader's majority: itself and all who granted it the vote.      *)
LEMMA LeaderElectInv ==
  ASSUME TypeInv, TypeInv', ElectInv, NEW i \in Server, NEW t, <<i, t>> \in electing, BecomesLeader(i, t)
  PROVE  ElectInv'
<1>1. t \in Nat
  BY DEF TypeInv, TypeOK, ElectTypeOK
<1>2. VotesKept /\ PledgeStep
  <2>1. UNCHANGED <<current_term, voted_for>>
    BY DEF BecomesLeader
  <2>2. voteReplies' \subseteq voteReplies /\ electing' \subseteq electing
    BY DEF BecomesLeader, ElectReturns
  <2>3. QED
    BY <2>1, <2>2, VotesUnchanged, NoNewPledges
<1>3. PICK Q \in SUBSET Server : Majority(Cardinality(Q)) /\ \A v \in Q : <<v, t, i>> \in Pledges
  <2> DEFINE voters == {r.voter : r \in {q \in Replies(i, t) : q.granted}}
  <2>1. voters \subseteq Server \ {i}
    BY DEF BecomesLeader, ElectReturns, AllReplied, Peers
  <2>2. IsFiniteSet(voters)
    BY <2>1, FS_Subset, ServerAssumption
  <2>3. Cardinality(voters \cup {i}) = Cardinality(voters) + 1
    BY <2>1, <2>2, FS_AddElement
  <2>4. Majority(Cardinality(voters) + 1)
    BY DEF BecomesLeader, Elected
  <2>5. \A v \in voters \cup {i} : <<v, t, i>> \in Pledges
    BY DEF Replies, Pledges, Granted
  <2>6. voters \cup {i} \in SUBSET Server
    BY <2>1
  <2> HIDE DEF voters
  <2>7. QED
    BY <2>3, <2>4, <2>5, <2>6
<1>4. \A v \in Q : <<v, t, i>> \in Pledges
  BY <1>3
<1>5. Supports(Q, <<t, i>>)
  BY <1>4 DEF Supports, ElectInv, PledgesHold, PledgesAgree
<1>6. elected' = elected \cup {<<t, i>>}
  BY DEF BecomesLeader
<1>7. ASSUME NEW e \in elected, e[1] = t PROVE e[2] = i
  <2>1. PICK R \in SUBSET Server : Majority(Cardinality(R)) /\ Supports(R, e)
    BY DEF ElectInv, LeadersSupported
  <2>2. Q \cap R # {}
    <3>1. IsFiniteSet(Q) /\ IsFiniteSet(R)
      BY <1>3, FS_Subset, ServerAssumption
    <3>2. Cardinality(Q) \in Nat /\ Cardinality(R) \in Nat /\ Cardinality(Server) \in Nat
      BY <3>1, FS_CardinalityType, ServerAssumption
    <3>3. Cardinality(Q) + Cardinality(R) > Cardinality(Server)
      BY <1>3, <2>1, <3>2 DEF Majority
    <3>4. QED
      BY <1>3, <3>3, FS_MajoritiesIntersect, ServerAssumption
  <2>3. PICK v \in Q \cap R : TRUE
    BY <2>2
  <2>4. QED
    BY <1>4, <1>7, <2>1, <2>3 DEF Supports
<1>8. ElectionSafety'
  BY <1>6, <1>7 DEF ElectInv, ElectionSafety
<1>9. PledgesHold' /\ PledgesAgree'
  BY <1>2, PledgesKept
<1>10. LeadersSupported'
  <2>1. Supports(Q, <<t, i>>)'
    <3>1. Pledges' \subseteq Pledges
      BY DEF BecomesLeader, ElectReturns, Pledges, Granted
    <3>2. UNCHANGED <<current_term, voted_for>>
      BY DEF BecomesLeader
    <3>3. QED
      BY <1>5, <3>1, <3>2 DEF Supports, Voted
  <2>2. QED
    BY <1>2, <1>3, <1>6, <2>1, PledgesKept DEF LeadersSupported
<1>11. QED
  BY <1>8, <1>9, <1>10 DEF ElectInv

-----------------------------------------------------------------------------
(* All steps.                                                              *)
LEMMA InitElectInv == Init => ElectInv
  BY DEF Init, ElectInv, PledgesHold, PledgesAgree, Pledges, Granted, LeadersSupported, ElectionSafety

(* Every step keeps the votes; all but BecomesLeader pledge only those.    *)
LEMMA NextVotes ==
  ASSUME TypeInv, [Next]_vars
  PROVE  /\ VotesKept
         /\ \/ PledgeStep /\ elected' = elected
            \/ \E i \in Server : \E t \in Nat : <<i, t>> \in electing /\ BecomesLeader(i, t)
<1> DEFINE Steady == UNCHANGED <<current_term, voted_for>> /\ elected' = elected
                      /\ voteReplies' \subseteq voteReplies /\ electing' \subseteq electing
           Goal == /\ VotesKept
                   /\ \/ PledgeStep /\ elected' = elected
                      \/ \E i \in Server : \E t \in Nat : <<i, t>> \in electing /\ BecomesLeader(i, t)
<1> SUFFICES Goal
  OBVIOUS
<1>1. Steady => Goal
  BY VotesUnchanged, NoNewPledges
<1> HIDE DEF Goal
<1>2. CASE UNCHANGED vars
  <2>1. Steady
    BY <1>2 DEF vars, serverVars, electVars
  <2>2. QED
    BY <1>1, <2>1
<1>3. ASSUME NEW i \in Server, NEW how, Die(i, how) PROVE Steady
  BY <1>3 DEF Die, serverVars
<1>4. CASE Next
  <2>1. PICK i \in Server :
          \/ ExpireTimer(i)
          \/ CandidateThread(i)
          \/ FollowerThread(i)
          \/ leaderPeriodicReturns(i)
          \/ \E b \in Beat : BeatThread(i, b)
          \/ taskExecutionPeriodicCallback(i)
          \/ syncWorker(i)
          \/ RequestThread(i)
          \/ Crash(i)
          \/ \E j \in Server : VoteRpc(i, j) \/ \E b \in Beat \cup {Nil} : AppendRpc(i, j, b)
    BY <1>4 DEF Next
  <2>2. CASE ExpireTimer(i) \/ leaderPeriodicReturns(i) \/ taskExecutionPeriodicCallback(i)
    <3>1. Steady
      BY <2>2 DEF ExpireTimer, leaderPeriodicReturns, taskExecutionPeriodicCallback, serverVars, electVars
    <3>2. QED
      BY <1>1, <3>1
  <2>3. CASE CandidateThread(i)
    <3>1. CASE candidateTimeoutCallback(i)
      BY <3>1, CandidateKeepsVotes, CandidatePledges DEF candidateTimeoutCallback, Goal
    <3>2. CASE candidateTimeoutReturns(i)
      <4>1. Steady
        BY <3>2 DEF candidateTimeoutReturns, serverVars, electVars
      <4>2. QED
        BY <1>1, <4>1
    <3>3. ASSUME NEW t, BecomesLeader(i, t) PROVE Goal
      <4>1. <<i, t>> \in electing
        BY <3>3 DEF BecomesLeader, ElectReturns
      <4>2. t \in Nat /\ VotesKept
        BY <3>3, <4>1, VotesUnchanged DEF BecomesLeader, TypeInv, TypeOK, ElectTypeOK
      <4>3. QED
        BY <3>3, <4>1, <4>2 DEF Goal
    <3>4. ASSUME NEW t, NotElected(i, t) PROVE Goal
      <4>1. ReplyTerms(i, t) \subseteq Nat
        BY <3>4 DEF NotElected, ElectReturns, ReplyTerms, Replies, TypeInv, TypeOK, ElectTypeOK, VoteReply
      <4>2. VotesKept
        BY <3>4, <4>1, UpdateTermKeepsVotes, VotesUnchanged DEF NotElected
      <4>3. QED
        BY <3>4, <4>2, NoNewPledges DEF NotElected, ElectReturns, Goal
    <3>5. QED
      BY <2>3, <3>1, <3>2, <3>3, <3>4 DEF CandidateThread
  <2>4. CASE FollowerThread(i)
    <3>1. Steady
      BY <1>3, <2>4 DEF FollowerThread, followerTimeoutCallback, followerTimeoutAborts, electVars
    <3>2. QED
      BY <1>1, <3>1
  <2>5. CASE \E b \in Beat : BeatThread(i, b)
    <3>1. Steady
      BY <2>5 DEF BeatThread, leaderPeriodicCallback, leaderPeriodicPrepares, leaderPeriodicEnds, serverVars, electVars
    <3>2. QED
      BY <1>1, <3>1
  <2>6. CASE syncWorker(i)
    <3>1. CASE SyncAborts(i)
      BY <1>1, <1>3, <3>1 DEF SyncAborts
    <3>2. CASE ~SyncAborts(i)
      <4>1. Steady
        BY <2>6, <3>2 DEF syncWorker, syncWorkerRejects, syncWorkerAppends, SyncDeposed, SyncOutdated,
           SyncGivesUp, SyncCommits, SyncRetries, serverVars, electVars
      <4>2. QED
        BY <1>1, <4>1
    <3>3. QED
      BY <3>1, <3>2
  <2>7. CASE RequestThread(i)
    <3>1. Steady
      BY <2>7 DEF RequestThread, handleTaskSubmission, handleTaskCompletion, TakeRequest, serverVars, electVars
    <3>2. QED
      BY <1>1, <3>1
  <2>8. CASE Crash(i)
    BY <1>1, <1>3, <2>8 DEF Crash
  <2>9. CASE \E j \in Server : VoteRpc(i, j)
    <3>1. PICK m \in voteCalls : handleVoteRequest(m) \/ VoteCallFails(m)
      BY <2>9 DEF VoteRpc
    <3>2. CASE handleVoteRequest(m)
      BY <3>2, VoterKeepsVotes, VoterPledges DEF handleVoteRequest, Goal
    <3>3. CASE VoteCallFails(m)
      <4>1. Granted' \subseteq Granted /\ electing' = electing
        BY <3>3 DEF VoteCallFails, VoteAnswer, Granted
      <4>2. PledgeStep
        BY <4>1 DEF PledgeStep, Pledges
      <4>3. QED
        BY <3>3, <4>2, VotesUnchanged DEF VoteCallFails, serverVars, Goal
    <3>4. QED
      BY <3>1, <3>2, <3>3
  <2>10. CASE \E j \in Server, b \in Beat \cup {Nil} : AppendRpc(i, j, b)
    <3>1. PICK m \in appendCalls : handleAppendEntries(m) \/ AppendCallFails(m)
      BY <2>10 DEF AppendRpc
    <3>2. m.to \in Server /\ m.term \in Nat
      BY DEF TypeInv, TypeOK, AppendTypeOK, AppendCall
    <3>3. CASE AppendMismatch(m) \/ AppendAccepted(m)
      <4>1. Follows(m)
        BY <3>3 DEF AppendMismatch, AppendAccepted
      <4>2. QED
        BY <3>2, <4>1, UpdateTermKeepsVotes, NoNewPledges DEF Follows, electVars, Goal
    <3>4. CASE AppendAborts(m)
      BY <1>1, <1>3, <3>2, <3>4 DEF AppendAborts
    <3>5. CASE AppendRefused(m) \/ AppendCallFails(m)
      <4>1. Steady
        BY <3>5 DEF AppendRefused, AppendCallFails, serverVars, electVars
      <4>2. QED
        BY <1>1, <4>1
    <3>6. QED
      BY <3>1, <3>3, <3>4, <3>5 DEF handleAppendEntries
  <2>11. QED
    BY <2>1, <2>2, <2>3, <2>4, <2>5, <2>6, <2>7, <2>8, <2>9, <2>10
<1>5. QED
  BY <1>2, <1>4

LEMMA NextElectInv == TypeInv /\ TypeInv' /\ ElectInv /\ [Next]_vars => ElectInv'
  BY NextVotes, ElectInvKept, LeaderElectInv

(* Votes and terms: a term never goes back and a vote is never changed     *)
(* within its term, for any number of masters and any bounds.              *)
THEOREM TermsAndVotes == Spec => TermAndVoteStable
<1>1. TypeInv /\ [Next]_vars => [VotesKept]_vars
  BY NextVotes
<1>2. Spec => [][VotesKept]_vars
  BY <1>1, TypeInvariant, PTL DEF Spec
<1>3. QED
  BY <1>2 DEF TermAndVoteStable, VotesKept

(* One winner per term: no interleaving of the callbacks of                *)
(* candidateTimeoutCallback, of late or lost replies, deaths and           *)
(* AppendEntries lets two masters win the election of one term, in a       *)
(* cluster of any size.                                                    *)
THEOREM OneWinnerPerTerm == Spec => []ElectionSafety
<1>1. Init => ElectInv
  BY InitElectInv
<1>2. TypeInv /\ TypeInv' /\ ElectInv /\ [Next]_vars => ElectInv'
  BY NextElectInv
<1>3. ElectInv => ElectionSafety
  BY DEF ElectInv
<1>4. QED
  BY <1>1, <1>2, <1>3, TypeInvariant, PTL DEF Spec
===============================================================================
