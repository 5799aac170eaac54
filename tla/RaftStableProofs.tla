--------------------------- MODULE RaftStableProofs ---------------------------
(***************************************************************************)
(* What the masters of RaftState agree on for as long as no second master  *)
(* has won an election, for any bounds: state machines and answers, for    *)
(* any number of masters, and that they implement ReplicatedLog, for up to *)
(* three.  Later winners may lack committed entries and overwrite others:  *)
(* RaftState.cc compares lengths of logs only.                             *)
(***************************************************************************)
EXTENDS RaftStateLog, RaftElectionProofs, RaftThreadProofs

-----------------------------------------------------------------------------
(* Logs.  Begins(s, t): s is a prefix of t.                                *)
Begins(s, t) == Len(s) <= Len(t) /\ \A k \in 1..Len(s) : s[k] = t[k]

(* new is a piece of a log lg that begins behind the entry prev.           *)
IsPiece(new, prev, lg) ==
  /\ prev + 1 + Len(new) <= Len(lg)
  /\ \A k \in 1..Len(new) : new[k] = lg[prev + 1 + k]

LEMMA PieceEntries ==
  ASSUME NEW S, NEW s \in Seq(S), NEW m \in Nat \ {0}, NEW n \in Nat, n <= Len(s)
  PROVE  \A k \in 1..(n - m + 1) : SubSeq(s, m, n)[k] = s[m + k - 1]
<1>1. \A k \in m..n : s[k] \in S
  BY ElementOfSeq, LenProperties
<1> QED
  BY <1>1, SubSeqProperties

(* appendEntries on a prefix of a log, given a piece of it: still a        *)
(* prefix, now with all of the piece.                                      *)
LEMMA MergedBegins ==
  ASSUME NEW lg \in Seq(Entry), NEW top \in Seq(Entry), NEW es \in Seq(Entry),
         NEW prev \in LogIndex, prev < Len(lg), Begins(lg, top), IsPiece(es, prev, top)
  PROVE  /\ Begins(Merged(lg, prev, es), top)
         /\ Len(Merged(lg, prev, es)) >= prev + 1 + Len(es)
<1> DEFINE front == SubSeq(lg, 1, prev + 1)
           back == SubSeq(lg, prev + Len(es) + 2, Len(lg))
<1>1. /\ Len(lg) \in Nat /\ Len(es) \in Nat /\ Len(top) \in Nat
      /\ prev \in Int /\ prev >= -1 /\ prev + 1 <= Len(lg)
      /\ prev + 1 \in Nat /\ prev + Len(es) + 2 \in Nat \ {0}
  BY LenProperties DEF LogIndex
<1>2. /\ front \in Seq(Entry) /\ Len(front) = prev + 1
      /\ \A k \in 1..(prev + 1) : front[k] = lg[k]
  <2>1. front \in Seq(Entry) /\ Len(front) = prev + 1
    BY <1>1, PieceOfLog
  <2>2. \A k \in 1..((prev + 1) - 1 + 1) : front[k] = lg[1 + k - 1]
    BY <1>1, PieceEntries
  <2> QED
    BY <1>1, <2>1, <2>2
<1>3. /\ back \in Seq(Entry) /\ Len(back) \in Nat
      /\ prev + Len(es) + 2 <= Len(lg) => Len(back) = Len(lg) - prev - Len(es) - 1
      /\ prev + Len(es) + 2 > Len(lg) => Len(back) = 0
      /\ \A k \in 1..Len(back) : back[k] = lg[prev + Len(es) + 1 + k]
  <2>1. /\ back \in Seq(Entry) /\ Len(back) \in Nat
        /\ prev + Len(es) + 2 <= Len(lg) => Len(back) = Len(lg) - prev - Len(es) - 1
        /\ prev + Len(es) + 2 > Len(lg) => Len(back) = 0
    BY <1>1, PieceOfLog, LenProperties
  <2>2. ASSUME NEW k \in 1..Len(back) PROVE back[k] = lg[prev + Len(es) + 1 + k]
    <3>1. k \in 1..(Len(lg) - (prev + Len(es) + 2) + 1)
      BY <1>1, <2>1
    <3>2. back[k] = lg[(prev + Len(es) + 2) + k - 1]
      BY <1>1, <3>1, PieceEntries
    <3> QED
      BY <1>1, <3>2
  <2> QED
    BY <2>1, <2>2
<1> HIDE DEF front, back
<1>4. /\ front \o es \in Seq(Entry) /\ Len(front \o es) = prev + 1 + Len(es)
      /\ \A k \in 1..(prev + 1 + Len(es)) :
           (front \o es)[k] = IF k <= prev + 1 THEN front[k] ELSE es[k - (prev + 1)]
  <2>1. /\ front \o es \in Seq(Entry) /\ Len(front \o es) = Len(front) + Len(es)
        /\ \A k \in 1..(Len(front) + Len(es)) :
             (front \o es)[k] = IF k <= Len(front) THEN front[k] ELSE es[k - Len(front)]
    BY <1>2, ConcatProperties
  <2> QED
    BY <1>2, <2>1
<1>5. /\ Len((front \o es) \o back) = prev + 1 + Len(es) + Len(back)
      /\ \A k \in 1..(prev + 1 + Len(es) + Len(back)) :
           ((front \o es) \o back)[k] = IF k <= prev + 1 + Len(es) THEN (front \o es)[k]
                                        ELSE back[k - (prev + 1 + Len(es))]
  <2> DEFINE most == front \o es
  <2>1. /\ Len(most \o back) = Len(most) + Len(back)
        /\ \A k \in 1..(Len(most) + Len(back)) :
             (most \o back)[k] = IF k <= Len(most) THEN most[k] ELSE back[k - Len(most)]
    BY <1>3, <1>4, ConcatProperties
  <2> QED
    BY <1>4, <2>1
<1>6. Merged(lg, prev, es) = (front \o es) \o back
  BY DEF Merged, front, back
<1>7. prev + 1 + Len(es) + Len(back) <= Len(top)
  BY <1>1, <1>3 DEF Begins, IsPiece
<1>8. ASSUME NEW k \in 1..(prev + 1 + Len(es) + Len(back))
      PROVE  ((front \o es) \o back)[k] = top[k]
  <2>0. k \in Int /\ k >= 1 /\ Len(back) \in Nat /\ k <= prev + 1 + Len(es) + Len(back)
    BY <1>1, <1>3
  <2>1. CASE k <= prev + 1
    <3>1. k \in 1..(prev + 1) /\ k \in 1..(prev + 1 + Len(es)) /\ k \in 1..Len(lg)
      BY <1>1, <2>1
    <3>2. ((front \o es) \o back)[k] = (front \o es)[k]
      BY <1>1, <1>5, <2>1, <3>1
    <3>3. (front \o es)[k] = lg[k]
      BY <1>2, <1>4, <2>1, <3>1
    <3> QED
      BY <3>1, <3>2, <3>3 DEF Begins
  <2>2. CASE prev + 1 < k /\ k <= prev + 1 + Len(es)
    <3>1. k - (prev + 1) \in 1..Len(es) /\ k \in 1..(prev + 1 + Len(es)) /\ ~(k <= prev + 1)
          /\ prev + 1 + (k - (prev + 1)) = k
      BY <1>1, <2>2
    <3>2. ((front \o es) \o back)[k] = es[k - (prev + 1)]
      BY <1>4, <1>5, <2>2, <3>1
    <3>3. es[k - (prev + 1)] = top[prev + 1 + (k - (prev + 1))]
      BY <3>1 DEF IsPiece
    <3> QED
      BY <3>1, <3>2, <3>3
  <2>3. CASE k > prev + 1 + Len(es)
    <3>1. /\ k - (prev + 1 + Len(es)) \in 1..Len(back) /\ ~(k <= prev + 1 + Len(es))
          /\ prev + Len(es) + 1 + (k - (prev + 1 + Len(es))) = k
          /\ k \in 1..Len(lg)
      BY <1>1, <1>3, <2>3
    <3>2. ((front \o es) \o back)[k] = back[k - (prev + 1 + Len(es))]
      BY <1>5, <3>1
    <3>3. back[k - (prev + 1 + Len(es))] = lg[prev + Len(es) + 1 + (k - (prev + 1 + Len(es)))]
      BY <1>3, <3>1
    <3> QED
      BY <3>1, <3>2, <3>3 DEF Begins
  <2>4. k <= prev + 1 \/ (prev + 1 < k /\ k <= prev + 1 + Len(es)) \/ k > prev + 1 + Len(es)
    BY <1>1, <2>0
  <2> QED
    BY <2>1, <2>2, <2>3, <2>4
<1>9. prev + 1 + Len(es) + Len(back) >= prev + 1 + Len(es)
  BY <1>1, <1>3
<1> QED
  BY <1>5, <1>6, <1>7, <1>8, <1>9 DEF Begins

(* commitUpTo applies entries of the log, in its order.                    *)
LEMMA AppliedFromLog ==
  ASSUME NEW done \in Seq(Cmd \cup AssignCmd), NEW lg \in Seq(Entry), NEW end \in Nat,
         Len(done) <= Len(lg), Len(done) <= end,
         \A k \in 1..Len(done) : done[k] = lg[k].cmd
  PROVE  LET new == done \o Content(SubSeq(lg, Len(done) + 1, MinOf(end, Len(lg))))
         IN Len(new) = MinOf(end, Len(lg)) /\ \A k \in 1..Len(new) : new[k] = lg[k].cmd
<1> DEFINE m == MinOf(end, Len(lg))
           piece == SubSeq(lg, Len(done) + 1, m)
           new == done \o Content(piece)
<1>1. Len(lg) \in Nat /\ Len(done) \in Nat
  BY LenProperties
<1>2. m \in Nat /\ m <= Len(lg) /\ Len(done) <= m
  BY <1>1 DEF MinOf
<1> HIDE DEF m
<1>3. /\ piece \in Seq(Entry) /\ Len(piece) = m - Len(done)
      /\ \A k \in 1..(m - Len(done)) : piece[k] = lg[Len(done) + k]
  <2>1. piece \in Seq(Entry) /\ Len(piece) = m - Len(done)
    BY <1>1, <1>2, PieceOfLog
  <2>2. ASSUME NEW k \in 1..(m - Len(done)) PROVE piece[k] = lg[Len(done) + k]
    <3>1. k \in 1..(m - (Len(done) + 1) + 1) /\ Len(done) + 1 \in 1..(Len(lg) + 1) /\ m \in 0..Len(lg)
          /\ (Len(done) + 1) + k - 1 = Len(done) + k
      BY <1>1, <1>2
    <3>2. piece[k] = lg[(Len(done) + 1) + k - 1]
      BY <1>1, <1>2, <3>1, PieceEntries
    <3> QED
      BY <3>1, <3>2
  <2> QED
    BY <2>1, <2>2
<1> HIDE DEF piece
<1>4. /\ Content(piece) \in Seq(Cmd \cup AssignCmd) /\ Len(Content(piece)) = m - Len(done)
      /\ \A k \in 1..(m - Len(done)) : Content(piece)[k] = lg[Len(done) + k].cmd
  <2>1. DOMAIN piece = 1..(m - Len(done)) /\ m - Len(done) \in Nat
    BY <1>1, <1>2, <1>3, LenProperties
  <2>2. \A k \in 1..(m - Len(done)) : piece[k].cmd \in Cmd \cup AssignCmd
    <3> TAKE k \in 1..(m - Len(done))
    <3>1. piece[k] \in Entry
      BY <1>3, ElementOfSeq
    <3> QED
      BY <3>1 DEF Entry
  <2>3. Content(piece) \in [1..(m - Len(done)) -> Cmd \cup AssignCmd]
    BY <2>1, <2>2 DEF Content
  <2>4. \A k \in 1..(m - Len(done)) : Content(piece)[k] = lg[Len(done) + k].cmd
    BY <1>3, <2>1 DEF Content
  <2>5. Content(piece) \in Seq(Cmd \cup AssignCmd)
    BY <2>1, <2>3, IsASeq
  <2>6. Len(Content(piece)) = m - Len(done)
    BY <2>1, <2>3, <2>5, LenProperties
  <2> QED
    BY <2>4, <2>5, <2>6
<1>5. /\ Len(new) = Len(done) + Len(Content(piece))
      /\ \A k \in 1..(Len(done) + Len(Content(piece))) :
           new[k] = IF k <= Len(done) THEN done[k] ELSE Content(piece)[k - Len(done)]
  BY <1>4, ConcatProperties
<1> HIDE DEF new
<1>6. Len(new) = m
  BY <1>1, <1>2, <1>4, <1>5
<1>7. ASSUME NEW k \in 1..m PROVE new[k] = lg[k].cmd
  <2>1. CASE k <= Len(done)
    <3>1. k \in 1..Len(done) /\ k \in 1..(Len(done) + Len(Content(piece)))
      BY <1>1, <1>2, <1>4, <2>1
    <3> QED
      BY <1>5, <2>1, <3>1
  <2>2. CASE k > Len(done)
    <3>1. k - Len(done) \in 1..(m - Len(done)) /\ Len(done) + (k - Len(done)) = k
          /\ ~(k <= Len(done)) /\ k \in 1..(Len(done) + Len(Content(piece)))
      BY <1>1, <1>2, <1>4, <2>2
    <3>2. new[k] = Content(piece)[k - Len(done)]
      BY <1>5, <3>1
    <3>3. Content(piece)[k - Len(done)] = lg[Len(done) + (k - Len(done))].cmd
      BY <1>4, <3>1
    <3> QED
      BY <3>1, <3>2, <3>3
  <2> QED
    BY <1>1, <1>2, <2>1, <2>2
<1> QED
  BY <1>6, <1>7 DEF new, piece, m

-----------------------------------------------------------------------------
(* Majorities of masters whose log is that long.                           *)
HaveOf(logs, n) == {i \in Server : Len(logs[i]) >= n}
Spread(logs, n) == Majority(Cardinality(HaveOf(logs, n)))

LEMMA HaveFinite ==
  ASSUME NEW logs, NEW n
  PROVE  IsFiniteSet(HaveOf(logs, n)) /\ Cardinality(HaveOf(logs, n)) \in Nat
  BY ServerAssumption, FS_Subset, FS_CardinalityType DEF HaveOf

LEMMA SpreadOver ==
  ASSUME NEW S, S \subseteq Server, Majority(Cardinality(S)), NEW logs, NEW n,
         \A i \in S : Len(logs[i]) >= n
  PROVE  Spread(logs, n)
<1>1. S \subseteq HaveOf(logs, n)
  BY DEF HaveOf
<1>2. Cardinality(S) <= Cardinality(HaveOf(logs, n))
  BY <1>1, HaveFinite, FS_Subset
<1>3. Cardinality(Server) \in Nat /\ Cardinality(S) \in Nat
  BY ServerAssumption, FS_Subset, FS_CardinalityType
<1> QED
  BY <1>2, <1>3, HaveFinite DEF Spread, Majority

(* Logs that do not shrink stay spread.                                    *)
LEMMA SpreadKept ==
  ASSUME NEW old \in [Server -> Seq(Entry)], NEW new \in [Server -> Seq(Entry)],
         \A i \in Server : Len(old[i]) <= Len(new[i]),
         NEW n \in Nat, NEW m \in Nat, m <= n, Spread(old, n)
  PROVE  Spread(new, m)
<1>1. \A i \in HaveOf(old, n) : Len(new[i]) >= m
  BY LenProperties DEF HaveOf
<1>2. HaveOf(old, n) \subseteq Server
  BY DEF HaveOf
<1> QED
  BY <1>1, <1>2, SpreadOver DEF Spread
-----------------------------------------------------------------------------
(* The invariant.  Only masters that won an election lead, and only they   *)
(* send, wait or are replied to.                                           *)
Rules(l) == \E e \in elected : e[2] = l
OneLeader == \A e, f \in elected : e[2] = f[2]

LeadersRule == \A i \in Server : role[i] = "leader" \/ sync[i].busy => Rules(i)
BeatsRule ==
  \A i \in Server, b \in Beat :
    /\ beats[i][b].active => Rules(i)
    /\ \A m \in beats[i][b].requests : Rules(i) /\ m.from = i /\ m.to # i
CallsRule ==
  /\ \A m \in appendCalls : Rules(m.from) /\ m.to # m.from
  /\ \A r \in appendReplies : Rules(r.to)
RuleInv == LeadersRule /\ BeatsRule /\ CallsRule

LEMMA RulesGrow ==
  ASSUME [Next]_vars, TypeInv
  PROVE  /\ elected \subseteq elected'
         /\ elected' = elected \/ \E i \in Server : \E t \in Nat : BecomesLeader(i, t)
<1>1. elected' = elected \/ \E i \in Server : \E t \in Nat : BecomesLeader(i, t)
  BY NextVotes
<1> QED
  BY <1>1 DEF BecomesLeader

(* Who leads, waits or beats won an election before.                       *)
LEMMA NextLeadersRule ==
  ASSUME TypeInv, RuleInv, [Next]_vars, NEW k \in Server,
         role'[k] = "leader" \/ sync'[k].busy
  PROVE  Rules(k)'
<1>1. ASSUME role[k] = "leader" \/ sync[k].busy PROVE Rules(k)'
  BY <1>1, RulesGrow DEF RuleInv, LeadersRule, Rules
<1> USE DEF TypeInv, TypeOK, ServerTypeOK, SyncTypeOK, Sync, serverVars, syncVars, Put
<1>2. CASE UNCHANGED <<role, sync>>
  BY <1>1, <1>2
<1>3. ASSUME NEW i \in Server, NEW t \in Nat, BecomesLeader(i, t) PROVE Rules(k)'
  <2>1. CASE k = i
    <3>1. <<t, k>> \in elected' /\ <<t, k>>[2] = k
      BY <1>3, <2>1 DEF BecomesLeader
    <3> QED
      BY <3>1 DEF Rules
  <2>2. CASE k # i
    BY <1>1, <1>3, <2>2 DEF BecomesLeader, switchToLeader
  <2> QED
    BY <2>1, <2>2
<1>4. ASSUME NEW i \in Server, Timed(i) PROVE Rules(k)'
  <2>1. CASE followerTimeoutCallback(i)
    BY <1>1, <2>1 DEF followerTimeoutCallback, switchToCandidate
  <2>2. ASSUME ~followerTimeoutCallback(i), \A t \in Nat : ~BecomesLeader(i, t) PROVE Rules(k)'
    <3>1. UNCHANGED <<role, sync>>
      BY <1>4, <2>2 DEF Timed, ExpireTimer, candidateTimeoutCallback, candidateTimeoutReturns, NotElected,
         leaderPeriodicReturns, leaderPeriodicCallback, leaderPeriodicEnds
    <3> QED
      BY <1>2, <3>1
  <2> QED
    BY <1>3, <2>1, <2>2
<1>5. ASSUME NEW i \in Server, Synced(i) PROVE Rules(k)'
  <2>1. role'[k] = "leader" => role[k] = "leader"
    BY <1>5 DEF Synced, syncWorkerRejects, syncWorkerAppends, SyncDeposed, SyncOutdated, SyncGivesUp,
         SyncCommits, SyncRetries, switchToFollower
  <2>2. CASE syncWorkerAppends(i)
    <3>1. role[i] = "leader"
      BY <2>2 DEF syncWorkerAppends
    <3>2. k # i => sync'[k] = sync[k]
      BY <2>2 DEF syncWorkerAppends
    <3> QED
      BY <1>1, <2>1, <3>1, <3>2
  <2>3. CASE ~syncWorkerAppends(i)
    <3>1. UNCHANGED sync \/ sync' = [sync EXCEPT ![i] = NoSync]
      BY <1>5, <2>3 DEF Synced, syncWorkerRejects, SyncDeposed, SyncOutdated, SyncGivesUp,
         SyncCommits, SyncRetries
    <3>2. (sync'[k] = sync[k] \/ sync'[k] = NoSync) /\ ~NoSync.busy
      BY <3>1 DEF NoSync
    <3> QED
      BY <1>1, <2>1, <3>2
  <2> QED
    BY <2>2, <2>3
<1>6. ASSUME NEW i \in Server, Dies(i) PROVE Rules(k)'
  BY <1>1, <1>6 DEF Dies, Die, NoSync
<1>7. ASSUME NEW m \in voteCalls, VoteDelivered(m) PROVE Rules(k)'
  <2>1. m.voter \in Server
    BY DEF ElectTypeOK, VoteCall
  <2> QED
    BY <1>1, <1>7, <2>1 DEF VoteDelivered, handleVoteRequest, VoteCallFails, switchToFollower
<1>8. ASSUME NEW m \in appendCalls, AppendDelivered(m) PROVE Rules(k)'
  <2>1. m.to \in Server
    BY DEF AppendTypeOK, AppendCall
  <2> QED
    BY <1>1, <1>8, <2>1 DEF AppendDelivered, AppendRefused, AppendMismatch, AppendAccepted,
         AppendCallFails, Follows
<1>9. ASSUME NEW i \in Server, \/ taskExecutionPeriodicCallback(i)
                               \/ \E c \in Cmd : TakeRequest(i, c)
                               \/ \E b \in Beat, j \in Peers(i) : leaderPeriodicPrepares(i, b, j)
      PROVE  Rules(k)'
  BY <1>2, <1>9 DEF taskExecutionPeriodicCallback, TakeRequest, leaderPeriodicPrepares
<1>10. CASE UNCHANGED vars
  BY <1>2, <1>10 DEF vars
<1> QED
  BY <1>4, <1>5, <1>6, <1>7, <1>8, <1>9, <1>10, NextSteps
(* Heartbeats are prepared by callbacks of leaders.                        *)
LEMMA NextBeatsRule ==
  ASSUME TypeInv, RuleInv, [Next]_vars
  PROVE  BeatsRule'
<1>1. beats \in [Server -> [Beat -> BeatState]]
  BY DEF TypeInv, TypeOK, AppendTypeOK
<1>2. \A i \in Server : Rules(i) => Rules(i)'
  BY RulesGrow DEF Rules
<1>3. ASSUME NEW i \in Server, NEW b \in Beat, NEW x, beats' = [beats EXCEPT ![i][b] = x],
             x.active => Rules(i),
             \A m \in x.requests : Rules(i) /\ m.from = i /\ m.to # i
      PROVE  BeatsRule'
  <2> SUFFICES ASSUME NEW k \in Server, NEW c \in Beat
               PROVE  /\ beats'[k][c].active => Rules(k)'
                      /\ \A m \in beats'[k][c].requests : Rules(k)' /\ m.from = k /\ m.to # k
    BY DEF BeatsRule
  <2>1. CASE k = i /\ c = b
    BY <1>1, <1>2, <1>3, <2>1
  <2>2. CASE ~(k = i /\ c = b)
    BY <1>1, <1>2, <1>3, <2>2 DEF RuleInv, BeatsRule
  <2> QED
    BY <2>1, <2>2
<1>4. CASE UNCHANGED beats
  BY <1>2, <1>4 DEF RuleInv, BeatsRule
<1>5. ASSUME NEW i \in Server, Timed(i) PROVE BeatsRule'
  <2>1. \/ UNCHANGED beats
        \/ \E b \in Beat : leaderPeriodicCallback(i, b) \/ leaderPeriodicEnds(i, b)
    BY <1>5 DEF Timed, ExpireTimer, candidateTimeoutCallback, candidateTimeoutReturns, BecomesLeader,
         NotElected, followerTimeoutCallback, leaderPeriodicReturns, appendVars
  <2>2. ASSUME NEW b \in Beat, leaderPeriodicCallback(i, b) PROVE BeatsRule'
    <3> DEFINE x == ActiveBeat(Peers(i) = {}, Len(log[i]), {})
    <3>1. x.requests = {} /\ beats' = [beats EXCEPT ![i][b] = x] /\ Rules(i)
      BY <2>2 DEF leaderPeriodicCallback, ActiveBeat, RuleInv, LeadersRule
    <3> HIDE DEF x
    <3> QED
      BY <1>3, <3>1
  <2>3. ASSUME NEW b \in Beat, leaderPeriodicEnds(i, b) PROVE BeatsRule'
    <3>1. NoBeat.requests = {} /\ ~NoBeat.active /\ beats' = [beats EXCEPT ![i][b] = NoBeat]
      BY <2>3 DEF leaderPeriodicEnds, NoBeat
    <3> QED
      BY <1>3, <3>1
  <2> QED
    BY <1>4, <2>1, <2>2, <2>3
<1>6. ASSUME NEW i \in Server, NEW b \in Beat, NEW j \in Peers(i), leaderPeriodicPrepares(i, b, j)
      PROVE  BeatsRule'
  <2> DEFINE requests == beats[i][b].requests \cup {BeatCall(i, b, j)}
             sent == ActiveBeat(TRUE, beats[i][b].logSize, {})
             unsent == ActiveBeat(FALSE, beats[i][b].logSize, requests)
  <2>1. /\ Rules(i)
        /\ \A m \in requests : m.from = i /\ m.to # i
    BY <1>6 DEF leaderPeriodicPrepares, RuleInv, BeatsRule, BeatCall, Peers
  <2>2. sent.requests = {} /\ unsent.requests = requests
    BY DEF ActiveBeat
  <2>3. beats' = [beats EXCEPT ![i][b] = sent] \/ beats' = [beats EXCEPT ![i][b] = unsent]
    BY <1>6 DEF leaderPeriodicPrepares
  <2> HIDE DEF sent, unsent, requests
  <2> QED
    BY <1>3, <2>1, <2>2, <2>3
<1>7. ASSUME NEW i \in Server, Synced(i) PROVE UNCHANGED beats
  BY <1>7 DEF Synced, syncWorkerRejects, syncWorkerAppends, SyncDeposed, SyncOutdated, SyncGivesUp,
       SyncCommits, SyncRetries, appendVars
<1>8. ASSUME NEW i \in Server, Dies(i) PROVE BeatsRule'
  <2>1. beats' = [beats EXCEPT ![i] = [b \in Beat |-> NoBeat]]
    BY <1>8 DEF Dies, Die, Put
  <2>2. \A k \in Server, b \in Beat : beats'[k][b] = beats[k][b] \/ beats'[k][b] = NoBeat
    BY <1>1, <2>1
  <2>3. NoBeat.requests = {} /\ ~NoBeat.active
    BY DEF NoBeat
  <2> QED
    BY <1>2, <2>2, <2>3 DEF RuleInv, BeatsRule
<1>9. ASSUME NEW m \in voteCalls, VoteDelivered(m) PROVE UNCHANGED beats
  BY <1>9 DEF VoteDelivered, handleVoteRequest, VoteCallFails, appendVars
<1>10. ASSUME NEW m \in appendCalls, AppendDelivered(m) PROVE UNCHANGED beats
  BY <1>10 DEF AppendDelivered, AppendRefused, AppendMismatch, AppendAccepted, AppendCallFails, Follows
<1>11. ASSUME NEW i \in Server, taskExecutionPeriodicCallback(i) \/ \E c \in Cmd : TakeRequest(i, c)
       PROVE  UNCHANGED beats
  BY <1>11 DEF taskExecutionPeriodicCallback, TakeRequest, appendVars
<1>12. CASE UNCHANGED vars
  BY <1>4, <1>12 DEF vars, appendVars
<1> QED
  BY <1>4, <1>5, <1>6, <1>7, <1>8, <1>9, <1>10, <1>11, <1>12, NextSteps

(* Calls are sent by sync threads and callbacks of leaders, replies go     *)
(* back to them.                                                           *)
LEMMA NextCallsRule ==
  ASSUME TypeInv, RuleInv, [Next]_vars
  PROVE  CallsRule'
<1>1. \A i \in Server : Rules(i) => Rules(i)'
  BY RulesGrow DEF Rules
<1>2. /\ \A m \in appendCalls : m.from \in Server
      /\ \A r \in appendReplies : r.to \in Server
  BY DEF TypeInv, TypeOK, AppendTypeOK, AppendCall, AppendReply
<1>3. ASSUME \A m \in appendCalls' : m \in appendCalls \/ (Rules(m.from) /\ m.from \in Server /\ m.to # m.from),
             \A r \in appendReplies' : r \in appendReplies \/ (Rules(r.to) /\ r.to \in Server)
      PROVE  CallsRule'
  BY <1>1, <1>2, <1>3 DEF RuleInv, CallsRule
<1>4. CASE appendCalls' \subseteq appendCalls /\ appendReplies' \subseteq appendReplies
  BY <1>3, <1>4
<1>5. ASSUME NEW i \in Server, Timed(i) PROVE UNCHANGED <<appendCalls, appendReplies>>
  BY <1>5 DEF Timed, ExpireTimer, candidateTimeoutCallback, candidateTimeoutReturns, BecomesLeader,
         NotElected, followerTimeoutCallback, leaderPeriodicReturns, leaderPeriodicCallback,
         leaderPeriodicEnds, appendVars
<1>6. ASSUME NEW i \in Server, NEW b \in Beat, NEW j \in Peers(i), leaderPeriodicPrepares(i, b, j)
      PROVE  CallsRule'
  <2> DEFINE requests == beats[i][b].requests \cup {BeatCall(i, b, j)}
  <2>1. Rules(i) /\ \A m \in requests : m.from = i /\ m.to # i
    BY <1>6 DEF leaderPeriodicPrepares, RuleInv, BeatsRule, BeatCall, Peers
  <2>2. appendReplies' = appendReplies /\ appendCalls' \subseteq appendCalls \cup requests
    BY <1>6 DEF leaderPeriodicPrepares
  <2> HIDE DEF requests
  <2> QED
    BY <1>3, <2>1, <2>2
<1>7. ASSUME NEW i \in Server, Synced(i) PROVE CallsRule'
  <2>1. appendReplies' \subseteq appendReplies
    BY <1>7 DEF Synced, syncWorkerRejects, syncWorkerAppends, SyncDeposed, SyncOutdated, SyncGivesUp,
       SyncCommits, SyncRetries, RoundCounted, appendVars
  <2>2. CASE UNCHANGED appendCalls
    BY <1>4, <2>1, <2>2
  <2>3. CASE syncWorkerAppends(i) \/ SyncRetries(i)
    <3>1. Rules(i)
      BY <2>3 DEF syncWorkerAppends, SyncRetries, RoundCounted, RuleInv, LeadersRule
    <3>2. \E lg, next : SyncRound(i, lg, next)
      BY <2>3 DEF syncWorkerAppends, SyncRetries
    <3>3. \A m \in appendCalls' : m \in appendCalls \/ (m.from = i /\ m.to # i)
      BY <3>2 DEF SyncRound, SyncCall, Peers
    <3> QED
      BY <1>3, <2>1, <3>1, <3>3
  <2>4. UNCHANGED appendCalls \/ syncWorkerAppends(i) \/ SyncRetries(i)
    BY <1>7 DEF Synced, syncWorkerRejects, SyncDeposed, SyncOutdated, SyncGivesUp,
       SyncCommits, appendVars
  <2> QED
    BY <2>2, <2>3, <2>4
<1>8. ASSUME NEW i \in Server, Dies(i)
      PROVE  appendCalls' \subseteq appendCalls /\ appendReplies' \subseteq appendReplies
  BY <1>8 DEF Dies, Die
<1>9. ASSUME NEW m \in voteCalls, VoteDelivered(m) PROVE UNCHANGED <<appendCalls, appendReplies>>
  BY <1>9 DEF VoteDelivered, handleVoteRequest, VoteCallFails, appendVars
<1>10. ASSUME NEW m \in appendCalls, AppendDelivered(m) PROVE CallsRule'
  <2>1. \E ok, term, success : AppendAnswer(m, ok, term, success)
    BY <1>10 DEF AppendDelivered, AppendRefused, AppendMismatch, AppendAccepted, AppendCallFails
  <2>2. /\ appendCalls' \subseteq appendCalls
        /\ \A r \in appendReplies' : r \in appendReplies \/ r.to = m.from
    BY <2>1 DEF AppendAnswer
  <2>3. Rules(m.from) /\ m.from \in Server
    BY <1>2 DEF RuleInv, CallsRule
  <2> QED
    BY <1>3, <2>2, <2>3
<1>11. ASSUME NEW i \in Server, taskExecutionPeriodicCallback(i) \/ \E c \in Cmd : TakeRequest(i, c)
       PROVE  UNCHANGED <<appendCalls, appendReplies>>
  BY <1>11 DEF taskExecutionPeriodicCallback, TakeRequest, appendVars
<1>12. CASE UNCHANGED vars
  BY <1>4, <1>12 DEF vars, appendVars
<1> QED
  BY <1>4, <1>5, <1>6, <1>7, <1>8, <1>9, <1>10, <1>11, <1>12, NextSteps

LEMMA NextRuleInv == TypeInv /\ RuleInv /\ [Next]_vars => RuleInv'
  BY NextLeadersRule, NextBeatsRule, NextCallsRule DEF RuleInv, LeadersRule
-----------------------------------------------------------------------------
(* What holds while l is the only master that won an election.  Every log  *)
(* is a prefix of its log, and so is what was applied, sent, or answered.  *)
LogsFollow(l) == \A i \in Server : Begins(log[i], log[l])
AppliedFollow(l) ==
  \A i \in Server : /\ Len(applied[i]) <= Len(log[i])
                     /\ \A k \in 1..Len(applied[i]) : applied[i][k] = log[l][k].cmd

(* A call carries a piece of the log, that of a round the rest of it.      *)
Carries(m, lg) ==
  /\ IsPiece(m.entries, m.prevLogIndex, lg)
  /\ m.beat = Nil => m.prevLogIndex + 1 + Len(m.entries) = Len(lg)
CallsCarry(l) == \A m \in appendCalls : Carries(m, log[l])
BeatsCarry(l) ==
  \A i \in Server, b \in Beat : \A m \in beats[i][b].requests : Carries(m, log[l])

(* A round is about the last entry, and who accepted it has all of the log. *)
EntryOf(lg, c, id) == id < Len(lg) /\ lg[id + 1].cmd = c
SyncAtEnd(l) ==
  sync[l].busy => sync[l].logSize = Len(log[l]) /\ EntryOf(log[l], sync[l].cmd, Len(log[l]) - 1)
RepliesHold(l) == \A r \in appendReplies : r.ok /\ r.success => Len(log[r.from]) >= Len(log[l])
DoneHeld(l) ==
  \A c \in Cmd : promise[c].state = "done" =>
    EntryOf(log[l], c, promise[c].jobId) /\ Spread(log, promise[c].jobId + 1)

StableOf(l) ==
  /\ LogsFollow(l) /\ AppliedFollow(l) /\ CallsCarry(l) /\ BeatsCarry(l)
  /\ SyncAtEnd(l) /\ RepliesHold(l) /\ DoneHeld(l)

(* Before the first election nothing happened at all.                      *)
Before ==
  elected = {} => /\ \A i \in Server : log[i] = <<>> /\ applied[i] = <<>>
                  /\ \A c \in Cmd : promise[c].state # "done"
StableInv == Before /\ (OneLeader => \A l \in Server : Rules(l) => StableOf(l))

(* A step that neither writes a log nor sends anything.                    *)
Quiet ==
  /\ UNCHANGED <<log, commit_index, applied>>
  /\ appendCalls' \subseteq appendCalls
  /\ \A i \in Server, b \in Beat : beats'[i][b].requests \subseteq beats[i][b].requests
  /\ \A i \in Server : sync'[i] = sync[i] \/ ~sync'[i].busy
  /\ \A r \in appendReplies' : r \in appendReplies \/ ~(r.ok /\ r.success)
  /\ \A c \in Cmd : promise'[c] = promise[c] \/ promise'[c].state # "done"

LEMMA QuietKeeps ==
  ASSUME NEW l \in Server, StableOf(l), Quiet
  PROVE  StableOf(l)'
<1> USE DEF StableOf, Quiet
<1>1. LogsFollow(l)' /\ AppliedFollow(l)'
  BY DEF LogsFollow, AppliedFollow
<1>2. CallsCarry(l)' /\ BeatsCarry(l)'
  BY DEF CallsCarry, BeatsCarry
<1>3. SyncAtEnd(l)'
  BY DEF SyncAtEnd
<1>4. RepliesHold(l)'
  BY DEF RepliesHold
<1>5. DoneHeld(l)'
  BY DEF DoneHeld
<1> QED
  BY <1>1, <1>2, <1>3, <1>4, <1>5
(* The steps that are not quiet.                                           *)
LEMMA QuietSync ==
  ASSUME TypeInv, NEW i \in Server, Synced(i)
  PROVE  Quiet \/ syncWorkerAppends(i) \/ SyncCommits(i) \/ SyncRetries(i)
<1> SUFFICES ASSUME \/ syncWorkerRejects(i) \/ SyncDeposed(i) \/ SyncOutdated(i) \/ SyncGivesUp(i)
             PROVE  Quiet
  BY DEF Synced
<1>1. UNCHANGED <<log, commit_index, applied, appendCalls, beats>>
  BY DEF syncWorkerRejects, SyncDeposed, SyncOutdated, SyncGivesUp, logVars, appendVars
<1>2. appendReplies' \subseteq appendReplies
  BY DEF syncWorkerRejects, SyncDeposed, SyncOutdated, SyncGivesUp, RoundCounted, appendVars
<1>3. \A k \in Server : sync'[k] = sync[k] \/ ~sync'[k].busy
  <2>1. sync' = sync \/ sync' = [sync EXCEPT ![i] = NoSync]
    BY DEF syncWorkerRejects, SyncDeposed, SyncOutdated, SyncGivesUp, Put
  <2>2. sync \in [Server -> Sync] /\ ~NoSync.busy
    BY DEF TypeInv, TypeOK, SyncTypeOK, NoSync
  <2> QED
    BY <2>1, <2>2
<1>4. \A c \in Cmd : promise'[c] = promise[c] \/ promise'[c].state # "done"
  <2>1. \A S : \A c \in Cmd : Failed(S)[c] = promise[c] \/ Failed(S)[c].state # "done"
    BY DEF Failed, Answered
  <2>2. \A c \in Cmd : Answer(i, "failed", 0)[c] = promise[c] \/ Answer(i, "failed", 0)[c].state # "done"
    BY DEF Answer, Answered, Put, TypeInv, TypeOK, SyncTypeOK
  <2>3. promise' = Answer(i, "failed", 0) \/ \E S : promise' = Failed(S)
    BY DEF syncWorkerRejects, SyncDeposed, SyncOutdated, SyncGivesUp
  <2> QED
    BY <2>1, <2>2, <2>3
<1> QED
  BY <1>1, <1>2, <1>3, <1>4 DEF Quiet

LEMMA QuietOrNot ==
  ASSUME TypeInv, [Next]_vars
  PROVE  \/ Quiet
         \/ \E i \in Server : syncWorkerAppends(i) \/ SyncCommits(i) \/ SyncRetries(i)
         \/ \E i \in Server : \E b \in Beat, j \in Peers(i) : leaderPeriodicPrepares(i, b, j)
         \/ \E m \in appendCalls : AppendAccepted(m)
<1>1. beats \in [Server -> [Beat -> BeatState]] /\ sync \in [Server -> Sync] /\ promise \in [Cmd -> Promise]
  BY DEF TypeInv, TypeOK, AppendTypeOK, SyncTypeOK
<1>2. ASSUME UNCHANGED <<log, commit_index, applied, appendCalls, beats, appendReplies, sync, promise>> PROVE Quiet
  BY <1>2 DEF Quiet
<1>3. ASSUME NEW i \in Server, Timed(i) PROVE Quiet
  <2>1. UNCHANGED <<appendCalls, appendReplies, sync, promise, log, commit_index, applied>>
    BY <1>3, QuietSteps DEF Timed, ExpireTimer, candidateTimeoutCallback, candidateTimeoutReturns, BecomesLeader,
         NotElected, followerTimeoutCallback, leaderPeriodicReturns, leaderPeriodicCallback,
         leaderPeriodicEnds, appendVars, logVars
  <2>2. \/ UNCHANGED beats
        \/ \E b \in Beat : leaderPeriodicCallback(i, b) \/ leaderPeriodicEnds(i, b)
    BY <1>3 DEF Timed, ExpireTimer, candidateTimeoutCallback, candidateTimeoutReturns, BecomesLeader,
         NotElected, followerTimeoutCallback, leaderPeriodicReturns, appendVars
  <2>3. ASSUME NEW b \in Beat, NEW x, beats' = [beats EXCEPT ![i][b] = x], x.requests = {}
        PROVE  \A k \in Server, c \in Beat : beats'[k][c].requests \subseteq beats[k][c].requests
    BY <1>1, <2>3
  <2>4. NoBeat.requests = {} /\ \A sent, n : ActiveBeat(sent, n, {}).requests = {}
    BY DEF NoBeat, ActiveBeat
  <2>5. \A k \in Server, c \in Beat : beats'[k][c].requests \subseteq beats[k][c].requests
    BY <2>2, <2>3, <2>4 DEF leaderPeriodicCallback, leaderPeriodicEnds
  <2> QED
    BY <2>1, <2>5 DEF Quiet
<1>4. ASSUME NEW i \in Server, Dies(i) PROVE Quiet
  <2>1. UNCHANGED <<log, commit_index, applied, appendCalls>> /\ appendReplies' \subseteq appendReplies
    BY <1>4 DEF Dies, Die, logVars
  <2>2. beats' = [beats EXCEPT ![i] = [b \in Beat |-> NoBeat]] /\ sync' = [sync EXCEPT ![i] = NoSync]
    BY <1>4 DEF Dies, Die, Put
  <2>3. NoBeat.requests = {} /\ ~NoSync.busy
    BY DEF NoBeat, NoSync
  <2>4. \A k \in Server, b \in Beat : beats'[k][b] = beats[k][b] \/ beats'[k][b] = NoBeat
    BY <1>1, <2>2
  <2>5. \A k \in Server : sync'[k] = sync[k] \/ sync'[k] = NoSync
    BY <1>1, <2>2
  <2>6. \A c \in Cmd : promise'[c] = promise[c] \/ promise'[c].state # "done"
    <3>1. \A S : \A c \in Cmd : Failed(S)[c] = promise[c] \/ Failed(S)[c].state # "done"
      BY DEF Failed, Answered
    <3> QED
      BY <1>4, <3>1 DEF Dies, Die
  <2> QED
    BY <2>1, <2>3, <2>4, <2>5, <2>6 DEF Quiet
<1>5. ASSUME NEW i \in Server, NEW c \in Cmd, TakeRequest(i, c) PROVE Quiet
  <2>1. UNCHANGED <<log, commit_index, applied, appendCalls, beats, appendReplies, sync>>
    BY <1>5 DEF TakeRequest, logVars, appendVars
  <2>2. \E s \in {"waiting", "failed"} : promise' = [promise EXCEPT ![c] = Answered(s, 0)]
    BY <1>5 DEF TakeRequest, Put
  <2>3. \A d \in Cmd : promise'[d] = promise[d] \/ promise'[d].state # "done"
    BY <1>1, <2>2 DEF Answered
  <2> QED
    BY <2>1, <2>3 DEF Quiet
<1>6. ASSUME NEW i \in Server, taskExecutionPeriodicCallback(i) PROVE Quiet
  BY <1>2, <1>6 DEF taskExecutionPeriodicCallback, logVars, appendVars
<1>7. ASSUME NEW m \in voteCalls, VoteDelivered(m) PROVE Quiet
  BY <1>2, <1>7 DEF VoteDelivered, handleVoteRequest, VoteCallFails, logVars, appendVars, syncVars
<1>8. ASSUME NEW m \in appendCalls, AppendDelivered(m), ~AppendAccepted(m) PROVE Quiet
  <2>1. UNCHANGED <<log, commit_index, applied, beats, sync, promise>>
    BY <1>8 DEF AppendDelivered, AppendRefused, AppendMismatch, AppendCallFails, Follows, logVars, syncVars
  <2>2. \E ok, term : AppendAnswer(m, ok, term, FALSE)
    BY <1>8 DEF AppendDelivered, AppendRefused, AppendMismatch, AppendCallFails
  <2>3. /\ appendCalls' \subseteq appendCalls
        /\ \A r \in appendReplies' : r \in appendReplies \/ ~r.success
    BY <2>2 DEF AppendAnswer
  <2> QED
    BY <2>1, <2>3 DEF Quiet
<1>9. CASE UNCHANGED vars
  BY <1>2, <1>9 DEF vars, logVars, appendVars, syncVars
<1> QED
  BY <1>3, <1>4, <1>5, <1>6, <1>7, <1>8, <1>9, NextSteps, QuietSync
-----------------------------------------------------------------------------
(* The other steps.  Nobody but l leads, so only l appends and sends.      *)
LEMMA OnlyOne ==
  ASSUME OneLeader, NEW l, Rules(l), NEW i, Rules(i) PROVE i = l
  BY DEF OneLeader, Rules

(* Prepared heartbeats refer to entries of the log.                        *)
LEMMA PreparesKeeps ==
  ASSUME TypeInv, RuleInv, OneLeader, NEW l \in Server, Rules(l), StableOf(l),
         NEW i \in Server, NEW b \in Beat, NEW j \in Peers(i), leaderPeriodicPrepares(i, b, j)
  PROVE  StableOf(l)'
<1> DEFINE requests == beats[i][b].requests \cup {BeatCall(i, b, j)}
           sent == ActiveBeat(TRUE, beats[i][b].logSize, {})
           unsent == ActiveBeat(FALSE, beats[i][b].logSize, requests)
<1>1. UNCHANGED <<log, applied, sync, promise, appendReplies>>
  BY DEF leaderPeriodicPrepares, logVars, syncVars
<1>2. i = l /\ Running(i)
  BY OnlyOne DEF leaderPeriodicPrepares, RuleInv, BeatsRule
<1>3. Carries(BeatCall(i, b, j), log[l])
  <2>1. /\ beats[i][b].logSize \in Nat /\ beats[i][b].logSize <= Len(log[i])
        /\ Len(log[i]) \in Nat
    BY <1>2, LenProperties DEF TypeInv, IndicesInLog, BeatsInLog, TypeOK, AppendTypeOK, BeatState, LogTypeOK
  <2>2. /\ BeatCall(i, b, j).entries = <<>> /\ BeatCall(i, b, j).prevLogIndex = beats[i][b].logSize - 1
        /\ BeatCall(i, b, j).beat # Nil
    BY BeatAssumption DEF BeatCall
  <2>3. Len(<<>>) = 0
    BY EmptySeq
  <2> QED
    BY <1>2, <2>1, <2>2, <2>3 DEF Carries, IsPiece
<1>4. \A m \in requests : Carries(m, log[l])
  BY <1>3 DEF StableOf, BeatsCarry
<1>5. /\ appendCalls' \subseteq appendCalls \cup requests
      /\ beats' = [beats EXCEPT ![i][b] = sent] \/ beats' = [beats EXCEPT ![i][b] = unsent]
  BY DEF leaderPeriodicPrepares
<1>6. sent.requests \subseteq requests /\ unsent.requests \subseteq requests
  BY DEF ActiveBeat
<1> HIDE DEF requests, sent, unsent
<1>7. CallsCarry(l)'
  BY <1>1, <1>4, <1>5 DEF CallsCarry, StableOf
<1>8. BeatsCarry(l)'
  <2>1. ASSUME NEW x, x.requests \subseteq requests, beats' = [beats EXCEPT ![i][b] = x]
        PROVE  BeatsCarry(l)'
    <3>1. \A k \in Server, c \in Beat : beats'[k][c].requests \subseteq beats[k][c].requests \cup requests
      BY <2>1 DEF TypeInv, TypeOK, AppendTypeOK
    <3> QED
      BY <1>1, <1>4, <3>1 DEF BeatsCarry, StableOf
  <2> QED
    BY <1>5, <1>6, <2>1
<1>9. LogsFollow(l)' /\ AppliedFollow(l)' /\ SyncAtEnd(l)' /\ RepliesHold(l)' /\ DoneHeld(l)'
  BY <1>1 DEF StableOf, LogsFollow, AppliedFollow, SyncAtEnd, RepliesHold, DoneHeld
<1> QED
  BY <1>7, <1>8, <1>9 DEF StableOf

(* The calls of a round carry the log from next_index_ on.                 *)
LEMMA SyncCarries ==
  ASSUME NEW i, NEW j, NEW lg \in Seq(Entry), NEW next \in Nat, next <= Len(lg)
  PROVE  Carries(SyncCall(i, j, lg, next), lg)
<1> DEFINE es == SubSeq(lg, next + 1, Len(lg))
<1>1. Len(lg) \in Nat /\ next + 1 \in Nat \ {0}
  BY LenProperties
<1>2. /\ es \in Seq(Entry)
      /\ next + 1 <= Len(lg) => Len(es) = Len(lg) - (next + 1) + 1
      /\ next + 1 > Len(lg) => Len(es) = 0
  BY <1>1, PieceOfLog
<1>3. Len(es) = Len(lg) - next
  BY <1>1, <1>2
<1>4. \A k \in 1..(Len(lg) - (next + 1) + 1) : es[k] = lg[(next + 1) + k - 1]
  BY <1>1, PieceEntries
<1>5. SyncCall(i, j, lg, next).entries = es /\ SyncCall(i, j, lg, next).prevLogIndex = next - 1
  BY DEF SyncCall
<1> HIDE DEF es
<1>6. (next - 1) + 1 + Len(es) = Len(lg)
  BY <1>1, <1>3
<1>7. ASSUME NEW k \in 1..Len(es) PROVE es[k] = lg[(next - 1) + 1 + k]
  <2>1. k \in 1..(Len(lg) - (next + 1) + 1) /\ (next + 1) + k - 1 = (next - 1) + 1 + k
    BY <1>1, <1>3
  <2>2. es[k] = lg[(next + 1) + k - 1]
    BY <1>4, <2>1
  <2> QED
    BY <2>1, <2>2
<1> QED
  BY <1>1, <1>5, <1>6, <1>7 DEF Carries, IsPiece

(* A new round for the same entry.                                         *)
LEMMA RetriesKeeps ==
  ASSUME TypeInv, RuleInv, OneLeader, NEW l \in Server, Rules(l), StableOf(l),
         NEW i \in Server, SyncRetries(i)
  PROVE  StableOf(l)'
<1>1. UNCHANGED <<log, applied, sync, promise, beats>> /\ RoundCounted(i)
  BY DEF SyncRetries, logVars
<1>2. i = l
  BY <1>1, OnlyOne DEF RoundCounted, RuleInv, LeadersRule
<1>3. appendReplies' \subseteq appendReplies
  BY <1>1 DEF RoundCounted
<1>4. \A j \in Server : Carries(SyncCall(i, j, log[i], NextIndex(i)[j]), log[i])
  BY <1>1, RoundCountedIndices, SyncCarries
<1>5. \A m \in appendCalls' : m \in appendCalls \/ Carries(m, log[i])
  BY <1>4 DEF SyncRetries, SyncRound, Peers
<1>6. CallsCarry(l)'
  BY <1>1, <1>2, <1>5 DEF CallsCarry, StableOf
<1>7. RepliesHold(l)'
  BY <1>1, <1>3 DEF RepliesHold, StableOf
<1>8. LogsFollow(l)' /\ AppliedFollow(l)' /\ BeatsCarry(l)' /\ SyncAtEnd(l)' /\ DoneHeld(l)'
  BY <1>1 DEF StableOf, LogsFollow, AppliedFollow, BeatsCarry, SyncAtEnd, DoneHeld
<1> QED
  BY <1>6, <1>7, <1>8 DEF StableOf
(* The master appends when nothing of an earlier round is under way.       *)
LEMMA AppendsKeeps ==
  ASSUME TypeInv, RuleInv, RoundInv, OneLeader, NEW l \in Server, Rules(l), StableOf(l),
         NEW i \in Server, syncWorkerAppends(i)
  PROVE  StableOf(l)'
<1> DEFINE c == Head(request_queue[l])
           e == [term |-> current_term[l], cmd |-> c]
           old == log[l]
           lg == Append(old, e)
<1>1. i = l
  BY OnlyOne DEF syncWorkerAppends, RuleInv, LeadersRule
<1>2. /\ UNCHANGED <<applied, promise, appendReplies, beats, next_index, role>>
      /\ Running(l) /\ ~sync[l].busy /\ role[l] = "leader" /\ request_queue[l] # <<>>
  BY <1>1 DEF syncWorkerAppends, Idle, serverVars
<1>3. /\ log' = Put(log, l, lg)
      /\ sync' = Put(sync, l, [busy |-> TRUE, cmd |-> c, logSize |-> Len(lg)])
      /\ SyncRound(l, lg, next_index[l])
  BY <1>1 DEF syncWorkerAppends
<1>4. old \in Seq(Entry) /\ e \in Entry
  <2>1. c \in Cmd \cup AssignCmd
    BY <1>2, HeadTailProperties DEF TypeInv, TypeOK, SyncTypeOK
  <2> QED
    BY <2>1 DEF TypeInv, TypeOK, ServerTypeOK, LogTypeOK, Entry
<1>5. e.cmd = c
  OBVIOUS
<1> HIDE DEF e, c
<1>6. /\ lg \in Seq(Entry) /\ Len(old) \in Nat /\ Len(lg) = Len(old) + 1
      /\ \A k \in 1..Len(old) : lg[k] = old[k]
      /\ lg[Len(old) + 1] = e
  BY <1>4, AppendProperties, LenProperties
<1> HIDE DEF lg
<1>7. log'[l] = lg /\ (\A j \in Server \ {l} : log'[j] = log[j]) /\ log' \in [Server -> Seq(Entry)]
  BY <1>3, <1>6 DEF TypeInv, TypeOK, LogTypeOK, Put
<1>8. Begins(old, lg)
  BY <1>6 DEF Begins
<1>9. ASSUME NEW s \in Seq(Entry), Begins(s, old) PROVE Begins(s, lg)
  <2>1. Len(s) \in Nat
    BY <1>9, LenProperties
  <2>2. Len(s) <= Len(old) /\ \A k \in 1..Len(s) : s[k] = old[k]
    BY <1>9 DEF Begins
  <2>3. Len(old) <= Len(lg)
    BY <1>6
  <2>4. Len(s) <= Len(lg) /\ \A k \in 1..Len(s) : k \in 1..Len(old)
    BY <1>6, <2>1, <2>2, <2>3
  <2>5. \A k \in 1..Len(s) : s[k] = lg[k]
    BY <1>6, <2>2, <2>4
  <2> QED
    BY <2>4, <2>5 DEF Begins
<1>10. /\ \A j \in Server : log[j] \in Seq(Entry) /\ Len(log[j]) \in Nat /\ Len(log'[j]) \in Nat
       /\ \A j \in Server : Len(log[j]) <= Len(log'[j])
  <2>1. \A j \in Server : log[j] \in Seq(Entry) /\ Len(log[j]) \in Nat
    BY LenProperties DEF TypeInv, TypeOK, LogTypeOK
  <2>2. \A j \in Server : log'[j] \in Seq(Entry) /\ Len(log'[j]) \in Nat
    BY <1>7, LenProperties
  <2>3. Len(log[l]) <= Len(log'[l])
    <3>1. Len(old) <= Len(lg)
      BY <1>6
    <3> QED
      BY <1>7, <3>1
  <2>4. ASSUME NEW j \in Server \ {l} PROVE Len(log[j]) <= Len(log'[j])
    <3>1. log'[j] = log[j] /\ Len(log[j]) \in Nat
      BY <1>7, <2>1
    <3> QED
      BY <3>1
  <2>5. \A j \in Server : j = l \/ j \in Server \ {l}
    OBVIOUS
  <2> QED
    BY <2>1, <2>2, <2>3, <2>4, <2>5
<1>11. LogsFollow(l)'
  <2>1. ASSUME NEW j \in Server PROVE Begins(log'[j], log'[l])
    <3>1. CASE j = l
      BY <1>7, <1>10, <3>1 DEF Begins
    <3>2. CASE j # l
      BY <1>7, <1>9, <1>10, <3>2 DEF StableOf, LogsFollow
    <3> QED
      BY <3>1, <3>2
  <2> QED
    BY <2>1 DEF LogsFollow
<1>12. AppliedFollow(l)'
  <2>1. ASSUME NEW j \in Server
        PROVE  Len(applied[j]) <= Len(log'[j]) /\ \A k \in 1..Len(applied[j]) : applied[j][k] = lg[k].cmd
    <3>1. /\ Len(applied[j]) <= Len(log[j]) /\ Len(log[j]) <= Len(old)
          /\ \A k \in 1..Len(applied[j]) : applied[j][k] = old[k].cmd
      BY DEF StableOf, AppliedFollow, LogsFollow, Begins
    <3>2. Len(applied[j]) \in Nat
      BY LenProperties DEF TypeInv, TypeOK, LogTypeOK
    <3>3. Len(log[j]) <= Len(log'[j]) /\ Len(log[j]) \in Nat /\ Len(log'[j]) \in Nat
      BY <1>10
    <3>4. Len(applied[j]) <= Len(log'[j])
      BY <3>1, <3>2, <3>3
    <3>5. \A k \in 1..Len(applied[j]) : k \in 1..Len(old)
      <4>1. Len(old) \in Nat
        BY <1>6
      <4> QED
        BY <3>1, <3>2, <3>3, <4>1
    <3>6. \A k \in 1..Len(applied[j]) : applied[j][k] = lg[k].cmd
      BY <1>6, <3>1, <3>5
    <3> QED
      BY <3>4, <3>6
  <2> QED
    BY <1>2, <1>7, <2>1 DEF AppliedFollow
<1>13. SyncCalls(l) = {} /\ SyncReplies(l) = {}
  BY <1>2 DEF RoundInv, RoundOf, NoneUnderWay
<1>14. ASSUME NEW m \in AppendCall, m.beat # Nil, Carries(m, old) PROVE Carries(m, lg)
  <2>1. /\ Len(m.entries) \in Nat /\ m.prevLogIndex \in Int /\ m.prevLogIndex >= -1
        /\ m.prevLogIndex + 1 + Len(m.entries) <= Len(old)
    BY <1>14, LenProperties DEF AppendCall, LogIndex, Carries, IsPiece
  <2>2. \A k \in 1..Len(m.entries) : m.prevLogIndex + 1 + k \in 1..Len(old)
    <3>1. Len(old) \in Nat
      BY <1>6
    <3> QED
      BY <2>1, <3>1
  <2>3. \A k \in 1..Len(m.entries) : m.entries[k] = lg[m.prevLogIndex + 1 + k]
    BY <1>6, <1>14, <2>2 DEF Carries, IsPiece
  <2>4. m.prevLogIndex + 1 + Len(m.entries) <= Len(lg)
    BY <1>6, <2>1
  <2> QED
    BY <1>14, <2>3, <2>4 DEF Carries, IsPiece
<1>15. CallsCarry(l)'
  <2>1. \A m \in appendCalls : Carries(m, lg)
    <3> TAKE m \in appendCalls
    <3>1. m.from = l /\ m \in AppendCall
      BY OnlyOne DEF RuleInv, CallsRule, TypeInv, TypeOK, AppendTypeOK
    <3>2. m.beat # Nil
      BY <1>13, <3>1 DEF SyncCalls
    <3> QED
      BY <1>14, <3>1, <3>2 DEF StableOf, CallsCarry
  <2>2. \A j \in Peers(l) : Carries(SyncCall(l, j, lg, next_index[l][j]), lg)
    <3> TAKE j \in Peers(l)
    <3>1. j \in Server /\ next_index[l][j] \in Nat /\ next_index[l][j] <= Len(old)
      BY <1>2 DEF Peers, TypeInv, TypeOK, SyncTypeOK, IndicesInLog, NextInLog
    <3>2. next_index[l][j] <= Len(lg)
      BY <1>6, <3>1
    <3> QED
      BY <1>6, <3>1, <3>2, SyncCarries
  <2>3. \A m \in appendCalls' : Carries(m, lg)
    BY <1>3, <2>1, <2>2 DEF SyncRound
  <2> QED
    BY <1>7, <2>3 DEF CallsCarry
<1>16. BeatsCarry(l)'
  <2>1. ASSUME NEW j \in Server, NEW b \in Beat, NEW m \in beats[j][b].requests PROVE Carries(m, lg)
    <3>1. m.beat # Nil /\ Carries(m, old)
      BY DEF RoundInv, BeatsMarked, StableOf, BeatsCarry
    <3>2. m \in AppendCall
      BY DEF TypeInv, TypeOK, AppendTypeOK, BeatState
    <3> QED
      BY <1>14, <3>1, <3>2
  <2> QED
    BY <1>2, <1>7, <2>1 DEF BeatsCarry
<1>17. SyncAtEnd(l)'
  <2>1. sync'[l] = [busy |-> TRUE, cmd |-> c, logSize |-> Len(lg)]
    BY <1>3 DEF TypeInv, TypeOK, SyncTypeOK, Put
  <2>2. sync'[l].logSize = Len(lg) /\ sync'[l].cmd = c
    BY <2>1
  <2>3. Len(lg) - 1 < Len(lg) /\ (Len(lg) - 1) + 1 = Len(old) + 1
    BY <1>6
  <2>4. EntryOf(lg, c, Len(lg) - 1)
    BY <1>5, <1>6, <2>3 DEF EntryOf
  <2> QED
    BY <1>7, <2>2, <2>4 DEF SyncAtEnd
<1>18. RepliesHold(l)'
  <2>1. appendReplies = {}
    BY <1>13, OnlyOne DEF SyncReplies, RuleInv, CallsRule, TypeInv, TypeOK, AppendTypeOK, AppendReply
  <2> QED
    BY <1>2, <2>1 DEF RepliesHold
<1>19. DoneHeld(l)'
  <2>1. ASSUME NEW d \in Cmd, promise[d].state = "done"
        PROVE  EntryOf(lg, d, promise[d].jobId) /\ Spread(log', promise[d].jobId + 1)
    <3>1. EntryOf(old, d, promise[d].jobId) /\ Spread(log, promise[d].jobId + 1)
      BY <2>1 DEF StableOf, DoneHeld
    <3>2. promise[d].jobId \in Nat
      BY DEF TypeInv, TypeOK, SyncTypeOK, Promise
    <3>3. promise[d].jobId + 1 \in 1..Len(old) /\ promise[d].jobId < Len(lg)
      BY <1>6, <3>1, <3>2 DEF EntryOf
    <3>4. EntryOf(lg, d, promise[d].jobId)
      BY <1>6, <3>1, <3>3 DEF EntryOf
    <3>5. log \in [Server -> Seq(Entry)]
      BY DEF TypeInv, TypeOK, LogTypeOK
    <3>6. promise[d].jobId + 1 \in Nat /\ promise[d].jobId + 1 <= promise[d].jobId + 1
      BY <3>2
    <3> DEFINE n == promise[d].jobId + 1
    <3>7. Spread(log, n) /\ n \in Nat /\ n <= n
      BY <3>1, <3>6
    <3> HIDE DEF n
    <3>8. Spread(log', n)
      BY <1>7, <1>10, <3>5, <3>7, SpreadKept
    <3> QED
      BY <3>4, <3>8 DEF n
  <2> QED
    BY <1>2, <1>7, <2>1 DEF DoneHeld
<1> QED
  BY <1>11, <1>12, <1>15, <1>16, <1>17, <1>18, <1>19 DEF StableOf
(* A majority that accepted the round has all of the log.                  *)
LEMMA AcceptedSpread ==
  ASSUME TypeInv, RoundInv, NEW l \in Server, RepliesHold(l), Replicated(l)
  PROVE  Spread(log, Len(log[l]))
<1>1. Accepted(l) \subseteq Server /\ l \notin Accepted(l)
  <2>1. \A r \in appendReplies : r.from \in Server /\ r.from # r.to
    BY DEF TypeInv, TypeOK, AppendTypeOK, AppendReply, RoundInv, NoneToSelf
  <2> QED
    BY <2>1 DEF Accepted, SyncReplies
<1>2. IsFiniteSet(Accepted(l))
  BY <1>1, ServerAssumption, FS_Subset
<1>3. Cardinality(Accepted(l) \cup {l}) = Cardinality(Accepted(l)) + 1
  BY <1>1, <1>2, FS_AddElement
<1>4. Majority(Cardinality(Accepted(l) \cup {l}))
  BY <1>3 DEF Replicated
<1>5. \A j \in Accepted(l) \cup {l} : Len(log[j]) >= Len(log[l])
  <2>1. \A j \in Accepted(l) : Len(log[j]) >= Len(log[l])
    BY DEF Accepted, SyncReplies, RepliesHold
  <2>2. Len(log[l]) \in Nat
    BY LenProperties DEF TypeInv, TypeOK, LogTypeOK
  <2> QED
    BY <2>1, <2>2
<1> QED
  BY <1>1, <1>4, <1>5, SpreadOver

(* The master commits, applies and answers with all of its log.            *)
LEMMA CommitsEffect ==
  ASSUME TypeInv, RuleInv, RoundInv, OneLeader, NEW l \in Server, Rules(l), StableOf(l),
         NEW i \in Server, SyncCommits(i)
  PROVE  /\ i = l /\ UNCHANGED <<log, appendCalls, beats>> /\ appendReplies' \subseteq appendReplies
         /\ sync[l].busy /\ sync' = Put(sync, l, NoSync)
         /\ promise' = Answer(l, "done", Len(log[l]) - 1) /\ EntryOf(log[l], sync[l].cmd, Len(log[l]) - 1)
         /\ Spread(log, Len(log[l])) /\ commit_index' = Put(commit_index, l, Len(log[l]))
         /\ \A j \in Server \ {l} : applied'[j] = applied[j]
         /\ Len(applied'[l]) = Len(log[l])
         /\ \A k \in 1..Len(applied'[l]) : applied'[l][k] = log[l][k].cmd
<1> DEFINE size == sync[l].logSize
           lg == log[l]
           new == applied[l] \o Content(SubSeq(lg, Len(applied[l]) + 1, MinOf(size, Len(lg))))
<1>1. /\ UNCHANGED <<log, appendCalls, beats>> /\ RoundCounted(i)
      /\ appendReplies' \subseteq appendReplies
  BY DEF SyncCommits, RoundCounted
<1>2. i = l
  BY <1>1, OnlyOne DEF RoundCounted, RuleInv, LeadersRule
<1>3. /\ Running(l) /\ sync[l].busy /\ Replicated(l) /\ commit_index[l] <= size
      /\ sync' = Put(sync, l, NoSync) /\ promise' = Answer(l, "done", size - 1)
      /\ applied' = [applied EXCEPT ![l] = new] /\ commit_index' = Put(commit_index, l, size)
  BY <1>1, <1>2 DEF SyncCommits, RoundCounted, RoundOver, commitUpTo
<1>4. /\ size = Len(lg) /\ EntryOf(lg, sync[l].cmd, size - 1)
      /\ lg \in Seq(Entry) /\ Len(lg) \in Nat /\ applied \in [Server -> Seq(Cmd \cup AssignCmd)]
  BY <1>3, LenProperties DEF StableOf, SyncAtEnd, TypeInv, TypeOK, LogTypeOK
<1>5. Spread(log, size)
  BY <1>3, <1>4, AcceptedSpread DEF StableOf
<1>6. Len(new) = Len(lg) /\ \A k \in 1..Len(new) : new[k] = lg[k].cmd
  <2>1. /\ Len(applied[l]) <= Len(lg)
        /\ \A k \in 1..Len(applied[l]) : applied[l][k] = lg[k].cmd
    BY DEF StableOf, AppliedFollow
  <2>2. MinOf(size, Len(lg)) = Len(lg)
    BY <1>4 DEF MinOf
  <2>3. Len(applied[l]) <= size
    BY <1>4, <2>1
  <2>4. applied[l] \in Seq(Cmd \cup AssignCmd) /\ size \in Nat
    BY <1>4
  <2> QED
    BY <1>4, <2>1, <2>2, <2>3, <2>4, AppliedFromLog
<1> HIDE DEF new
<1>7. applied'[l] = new /\ \A j \in Server \ {l} : applied'[j] = applied[j]
  BY <1>3, <1>4
<1> QED
  BY <1>1, <1>2, <1>3, <1>4, <1>5, <1>6, <1>7

LEMMA CommitsKeeps ==
  ASSUME TypeInv, RuleInv, RoundInv, OneLeader, NEW l \in Server, Rules(l), StableOf(l),
         NEW i \in Server, SyncCommits(i)
  PROVE  StableOf(l)'
<1> DEFINE lg == log[l]
<1>1. /\ UNCHANGED <<log, appendCalls, beats>> /\ appendReplies' \subseteq appendReplies
      /\ sync' = Put(sync, l, NoSync) /\ promise' = Answer(l, "done", Len(lg) - 1)
      /\ EntryOf(lg, sync[l].cmd, Len(lg) - 1) /\ Spread(log, Len(lg)) /\ Len(lg) \in Nat
  BY CommitsEffect, LenProperties DEF TypeInv, TypeOK, LogTypeOK
<1>2. AppliedFollow(l)'
  <2>1. ASSUME NEW j \in Server
        PROVE  Len(applied'[j]) <= Len(log[j]) /\ \A k \in 1..Len(applied'[j]) : applied'[j][k] = lg[k].cmd
    <3>1. CASE j = l
      BY <1>1, <3>1, CommitsEffect
    <3>2. CASE j # l
      BY <3>2, CommitsEffect DEF StableOf, AppliedFollow
    <3> QED
      BY <3>1, <3>2
  <2> QED
    BY <1>1, <2>1 DEF AppliedFollow
<1>3. SyncAtEnd(l)'
  <2>1. sync'[l] = NoSync /\ ~NoSync.busy
    BY <1>1 DEF TypeInv, TypeOK, SyncTypeOK, Put, NoSync
  <2> QED
    BY <2>1 DEF SyncAtEnd
<1>4. DoneHeld(l)'
  <2>1. ASSUME NEW c \in Cmd, promise'[c].state = "done"
        PROVE  EntryOf(lg, c, promise'[c].jobId) /\ Spread(log, promise'[c].jobId + 1)
    <3>1. CASE c = sync[l].cmd
      <4>1. promise'[c].jobId = Len(lg) - 1
        BY <1>1, <3>1 DEF Answer, Answered, Put, TypeInv, TypeOK, SyncTypeOK
      <4>2. promise'[c].jobId + 1 = Len(lg)
        BY <1>1, <4>1
      <4> QED
        BY <1>1, <3>1, <4>1, <4>2
    <3>2. CASE c # sync[l].cmd
      <4>1. promise'[c] = promise[c]
        BY <1>1, <3>2 DEF Answer, Put, TypeInv, TypeOK, SyncTypeOK
      <4> QED
        BY <2>1, <4>1 DEF StableOf, DoneHeld
    <3> QED
      BY <3>1, <3>2
  <2> QED
    BY <1>1, <2>1 DEF DoneHeld
<1>5. LogsFollow(l)' /\ CallsCarry(l)' /\ BeatsCarry(l)'
  BY <1>1 DEF StableOf, LogsFollow, CallsCarry, BeatsCarry
<1>6. RepliesHold(l)'
  BY <1>1 DEF StableOf, RepliesHold
<1> QED
  BY <1>2, <1>3, <1>4, <1>5, <1>6 DEF StableOf

(* A follower that accepts a piece of the log has a prefix of it still.    *)
LEMMA AcceptedEffect ==
  ASSUME TypeInv, RuleInv, OneLeader, NEW l \in Server, Rules(l), StableOf(l),
         NEW m \in appendCalls, AppendAccepted(m)
  PROVE  /\ m \in AppendCall /\ m.to \in Server /\ m.to # l /\ UNCHANGED <<sync, promise, beats>>
         /\ log' \in [Server -> Seq(Entry)]
         /\ \A j \in Server \ {m.to} : /\ log'[j] = log[j] /\ applied'[j] = applied[j]
                                       /\ commit_index'[j] = commit_index[j]
         /\ Begins(log'[m.to], log[l]) /\ Len(log[m.to]) <= Len(log'[m.to])
         /\ m.beat = Nil => Len(log[l]) <= Len(log'[m.to])
         /\ Len(applied[m.to]) <= Len(applied'[m.to])
         /\ Len(applied'[m.to]) = MinOf(m.leaderCommit, Len(log'[m.to]))
         /\ \A k \in 1..Len(applied'[m.to]) : applied'[m.to][k] = log[l][k].cmd
<1> DEFINE i == m.to
           lg == Merged(log[i], m.prevLogIndex, m.entries)
           top == log[l]
           new == applied[i] \o Content(SubSeq(lg, Len(applied[i]) + 1, MinOf(m.leaderCommit, Len(lg))))
<1>1. /\ m \in AppendCall /\ i \in Server /\ m.leaderCommit \in Nat
      /\ m.prevLogIndex \in LogIndex /\ m.entries \in Seq(Entry)
      /\ log \in [Server -> Seq(Entry)] /\ applied \in [Server -> Seq(Cmd \cup AssignCmd)]
  BY DEF TypeInv, TypeOK, AppendTypeOK, AppendCall, LogTypeOK
<1>2. i # l
  BY <1>1, OnlyOne DEF RuleInv, CallsRule
<1>3. /\ UNCHANGED <<sync, promise, beats>> /\ Running(i)
      /\ log' = Put(log, i, lg) /\ applied' = [applied EXCEPT ![i] = new]
      /\ commit_index' = Put(commit_index, i, m.leaderCommit)
      /\ commit_index[i] <= m.leaderCommit
  BY DEF AppendAccepted, Follows, CanFollow, commitUpTo, syncVars
<1>4. log[i] \in Seq(Entry) /\ Len(log[i]) \in Nat /\ top \in Seq(Entry) /\ Len(top) \in Nat
  BY <1>1, LenProperties
<1>5. m.prevLogIndex < Len(log[i])
  BY <1>1, <1>4 DEF AppendAccepted, MatchesAt, Matches, LogIndex
<1>6. Begins(log[i], top) /\ Carries(m, top)
  BY <1>1 DEF StableOf, LogsFollow, CallsCarry
<1>7. Begins(lg, top) /\ Len(lg) >= m.prevLogIndex + 1 + Len(m.entries)
  BY <1>1, <1>4, <1>5, <1>6, MergedBegins DEF Carries
<1>8. lg \in Seq(Entry) /\ Len(lg) >= Len(log[i]) /\ Len(lg) \in Nat
  BY <1>1, <1>4, <1>5, MergedLog, LenProperties
<1> HIDE DEF lg
<1>9. /\ log' \in [Server -> Seq(Entry)] /\ log'[i] = lg
      /\ \A j \in Server \ {i} : log'[j] = log[j] /\ commit_index'[j] = commit_index[j]
  BY <1>1, <1>3, <1>8 DEF Put, TypeInv, TypeOK, LogTypeOK
<1>10. /\ Len(new) = MinOf(m.leaderCommit, Len(lg)) /\ Len(applied[i]) <= Len(new)
       /\ \A k \in 1..Len(new) : new[k] = top[k].cmd
  <2>1. /\ Len(applied[i]) <= Len(log[i]) /\ Len(applied[i]) \in Nat
        /\ \A k \in 1..Len(applied[i]) : applied[i][k] = top[k].cmd
    BY <1>1, LenProperties DEF StableOf, AppliedFollow
  <2>2. Len(applied[i]) <= m.leaderCommit
    <3>1. Len(applied[i]) <= commit_index[i] /\ commit_index[i] \in Nat
      BY <1>1, <1>3 DEF TypeInv, IndicesInLog, AppliedInLog, TypeOK, LogTypeOK
    <3> QED
      BY <1>1, <1>3, <2>1, <3>1
  <2>3. Len(applied[i]) <= Len(lg) /\ \A k \in 1..Len(lg) : lg[k] = top[k]
    BY <1>4, <1>7, <1>8, <2>1 DEF Begins
  <2>4. \A k \in 1..Len(applied[i]) : k \in 1..Len(lg)
    BY <1>8, <2>1, <2>3
  <2>5. \A k \in 1..Len(applied[i]) : applied[i][k] = lg[k].cmd
    BY <2>1, <2>3, <2>4
  <2>6. Len(new) = MinOf(m.leaderCommit, Len(lg)) /\ \A k \in 1..Len(new) : new[k] = lg[k].cmd
    <3>1. applied[i] \in Seq(Cmd \cup AssignCmd)
      BY <1>1
    <3> QED
      BY <1>1, <1>8, <2>2, <2>3, <2>5, <3>1, AppliedFromLog
  <2> HIDE DEF new
  <2>7. Len(new) \in Nat /\ Len(new) <= Len(lg) /\ Len(applied[i]) <= Len(new)
    BY <1>1, <1>8, <2>2, <2>3, <2>6 DEF MinOf
  <2>8. \A k \in 1..Len(new) : k \in 1..Len(lg)
    BY <1>8, <2>7
  <2> QED
    BY <2>3, <2>6, <2>7, <2>8
<1> HIDE DEF new
<1>11. applied'[i] = new /\ \A j \in Server \ {i} : applied'[j] = applied[j]
  BY <1>1, <1>3
<1>12. m.beat = Nil => Len(top) <= Len(lg)
  BY <1>6, <1>7 DEF Carries
<1> QED
  BY <1>1, <1>2, <1>3, <1>7, <1>8, <1>9, <1>10, <1>11, <1>12

LEMMA AcceptedKeeps ==
  ASSUME TypeInv, RuleInv, OneLeader, NEW l \in Server, Rules(l), StableOf(l),
         NEW m \in appendCalls, AppendAccepted(m)
  PROVE  StableOf(l)'
<1> DEFINE i == m.to
           top == log[l]
<1>1. /\ i \in Server /\ i # l /\ UNCHANGED <<sync, promise, beats>>
      /\ log \in [Server -> Seq(Entry)] /\ log' \in [Server -> Seq(Entry)] /\ log'[l] = top
      /\ \A j \in Server \ {i} : log'[j] = log[j] /\ applied'[j] = applied[j]
      /\ Begins(log'[i], top) /\ Len(log[i]) <= Len(log'[i])
      /\ m.beat = Nil => Len(top) <= Len(log'[i])
  BY AcceptedEffect DEF TypeInv, TypeOK, LogTypeOK
<1>2. \A j \in Server : Len(log[j]) \in Nat /\ Len(log'[j]) \in Nat
  BY <1>1, LenProperties
<1>3. \A j \in Server : Len(log[j]) <= Len(log'[j])
  <2> TAKE j \in Server
  <2>1. CASE j = i
    BY <1>1, <2>1
  <2>2. CASE j # i
    BY <1>1, <1>2, <2>2
  <2> QED
    BY <2>1, <2>2
<1>4. LogsFollow(l)'
  BY <1>1 DEF StableOf, LogsFollow
<1>5. AppliedFollow(l)'
  <2>1. ASSUME NEW j \in Server
        PROVE  Len(applied'[j]) <= Len(log'[j]) /\ \A k \in 1..Len(applied'[j]) : applied'[j][k] = top[k].cmd
    <3>1. CASE j = i
      <4>1. Len(applied'[i]) = MinOf(m.leaderCommit, Len(log'[i])) /\ m.leaderCommit \in Nat
        BY AcceptedEffect DEF AppendCall
      <4>2. Len(applied'[i]) <= Len(log'[i])
        BY <1>1, <1>2, <4>1 DEF MinOf
      <4> QED
        BY <3>1, <4>2, AcceptedEffect
    <3>2. CASE j # i
      BY <1>1, <3>2 DEF StableOf, AppliedFollow
    <3> QED
      BY <3>1, <3>2
  <2> QED
    BY <1>1, <2>1 DEF AppliedFollow
<1>6. PICK ok, term, success :
         AppendAnswer(m, ok, term, success)
  BY DEF AppendAccepted
<1>7. CallsCarry(l)' /\ BeatsCarry(l)' /\ SyncAtEnd(l)'
  BY <1>1, <1>6 DEF AppendAnswer, StableOf, CallsCarry, BeatsCarry, SyncAtEnd
<1>8. RepliesHold(l)'
  <2>1. ASSUME NEW r \in appendReplies', r.ok, r.success PROVE Len(log'[r.from]) >= Len(top)
    <3>1. CASE r \in appendReplies
      <4>1. r.from \in Server /\ Len(log[r.from]) >= Len(top)
        BY <2>1, <3>1 DEF StableOf, RepliesHold, TypeInv, TypeOK, AppendTypeOK, AppendReply
      <4> QED
        BY <1>2, <1>3, <4>1
    <3>2. CASE r \notin appendReplies
      <4>1. m.beat = Nil /\ r.from = i
        BY <1>6, <3>2 DEF AppendAnswer
      <4> QED
        BY <1>1, <1>2, <4>1
    <3> QED
      BY <3>1, <3>2
  <2> QED
    BY <1>1, <2>1 DEF RepliesHold
<1>9. DoneHeld(l)'
  <2>1. ASSUME NEW c \in Cmd, promise[c].state = "done"
        PROVE  EntryOf(top, c, promise[c].jobId) /\ Spread(log', promise[c].jobId + 1)
    <3>1. EntryOf(top, c, promise[c].jobId) /\ Spread(log, promise[c].jobId + 1)
      BY <2>1 DEF StableOf, DoneHeld
    <3>2. promise[c].jobId + 1 \in Nat /\ promise[c].jobId + 1 <= promise[c].jobId + 1
      BY DEF TypeInv, TypeOK, SyncTypeOK, Promise
    <3> DEFINE n == promise[c].jobId + 1
    <3>3. n \in Nat /\ n <= n /\ Spread(log, n)
      BY <3>1, <3>2
    <3> HIDE DEF n
    <3>4. Spread(log', n)
      BY <1>1, <1>3, <3>3, SpreadKept
    <3> QED
      BY <3>1, <3>4 DEF n
  <2> QED
    BY <1>1, <2>1 DEF DoneHeld
<1> QED
  BY <1>4, <1>5, <1>7, <1>8, <1>9 DEF StableOf

(* Before the first election every step is quiet.                          *)
LEMMA NothingYet ==
  ASSUME TypeInv, RuleInv, elected = {}
  PROVE  /\ \A i : ~Rules(i)
         /\ \A i \in Server : role[i] # "leader" /\ ~sync[i].busy
         /\ \A i \in Server, b \in Beat : ~beats[i][b].active /\ beats[i][b].requests = {}
         /\ appendCalls = {} /\ appendReplies = {}
         /\ [Next]_vars => Quiet
<1>1. /\ \A i : ~Rules(i)
      /\ \A i \in Server : role[i] # "leader" /\ ~sync[i].busy
      /\ \A i \in Server, b \in Beat : ~beats[i][b].active /\ beats[i][b].requests = {}
      /\ appendCalls = {} /\ appendReplies = {}
  BY DEF Rules, RuleInv, LeadersRule, BeatsRule, CallsRule
<1>2. [Next]_vars => Quiet
  BY <1>1, QuietOrNot DEF syncWorkerAppends, SyncCommits, SyncRetries, RoundCounted, leaderPeriodicPrepares
<1> QED
  BY <1>1, <1>2

LEMMA NextStableInv ==
  ASSUME TypeInv, RuleInv, RoundInv, StableInv, [Next]_vars
  PROVE  StableInv'
<1>1. elected \subseteq elected'
  BY RulesGrow
<1>2. CASE elected = {}
  <2>1. /\ \A i \in Server : ~sync[i].busy
        /\ \A i \in Server, b \in Beat : beats[i][b].requests = {}
        /\ appendCalls = {} /\ appendReplies = {}
    BY <1>2, NothingYet
  <2>2. Quiet
    BY <1>2, NothingYet
  <2>3. /\ \A i \in Server : log[i] = <<>> /\ applied[i] = <<>>
        /\ \A c \in Cmd : promise[c].state # "done"
    BY <1>2 DEF StableInv, Before
  <2>4. Before'
    BY <2>2, <2>3 DEF Before, Quiet
  <2>5. ASSUME NEW l \in Server PROVE StableOf(l)'
    <3>1. Len(<<>>) = 0
      BY EmptySeq
    <3>2. LogsFollow(l) /\ AppliedFollow(l)
      BY <2>3, <3>1 DEF LogsFollow, AppliedFollow, Begins
    <3>3. CallsCarry(l) /\ BeatsCarry(l) /\ SyncAtEnd(l) /\ RepliesHold(l) /\ DoneHeld(l)
      BY <2>1, <2>3 DEF CallsCarry, BeatsCarry, SyncAtEnd, RepliesHold, DoneHeld
    <3> QED
      BY <2>2, <3>2, <3>3, QuietKeeps DEF StableOf
  <2> QED
    BY <2>4, <2>5 DEF StableInv
<1>3. CASE elected # {}
  <2>1. Before'
    BY <1>1, <1>3 DEF Before
  <2>2. ASSUME OneLeader', NEW l \in Server, Rules(l)' PROVE StableOf(l)'
    <3>1. OneLeader /\ Rules(l)
      BY <1>1, <1>3, <2>2 DEF OneLeader, Rules
    <3>2. StableOf(l)
      BY <3>1 DEF StableInv
    <3> QED
      BY <3>1, <3>2, QuietOrNot, QuietKeeps, AppendsKeeps, CommitsKeeps, RetriesKeeps, PreparesKeeps,
         AcceptedKeeps
  <2> QED
    BY <2>1, <2>2 DEF StableInv
<1> QED
  BY <1>2, <1>3

LEMMA InitStable == Init => RuleInv /\ RoundInv /\ StableInv
<1> SUFFICES ASSUME Init PROVE RuleInv /\ RoundInv /\ StableInv
  OBVIOUS
<1>1. RuleInv
  BY DEF Init, RuleInv, LeadersRule, BeatsRule, CallsRule, NoBeat, NoSync
<1>2. RoundInv
  BY DEF Init, RoundInv, BeatsMarked, NoneToSelf, RoundOf, NoneUnderWay, SyncCalls, SyncReplies, NoBeat, NoSync
<1>3. StableInv
  BY DEF Init, StableInv, Before, Rules, Answered
<1> QED
  BY <1>1, <1>2, <1>3

LEMMA StableInvariant == Spec => [](RuleInv /\ RoundInv /\ StableInv)
<1>1. TypeInv /\ RuleInv /\ RoundInv /\ StableInv /\ [Next]_vars => RuleInv' /\ RoundInv' /\ StableInv'
  BY NextRuleInv, NextRoundInv, NextStableInv
<1> QED
  BY <1>1, InitStable, TypeInvariant, PTL DEF Spec

(* What the invariant says of the state machines and of the answers.       *)
LEMMA StableClaims ==
  ASSUME TypeInv, StableInv, OneLeader
  PROVE  StateMachineSafety /\ AnsweredDurable
<1>1. CASE elected = {}
  <2>1. /\ \A i \in Server : applied[i] = <<>>
        /\ \A c \in Cmd : promise[c].state # "done"
    BY <1>1 DEF StableInv, Before
  <2>2. DOMAIN <<>> = {}
    OBVIOUS
  <2> QED
    BY <2>1, <2>2 DEF StateMachineSafety, SameUpTo, AnsweredDurable
<1>2. CASE elected # {}
  <2>1. PICK l \in Server : Rules(l)
    BY <1>2 DEF Rules, TypeInv, TypeOK, ElectTypeOK
  <2>2. StableOf(l)
    BY <2>1 DEF StableInv
  <2>3. \A i \in Server : /\ DOMAIN applied[i] = 1..Len(applied[i]) /\ Len(applied[i]) \in Nat
                          /\ Len(log[i]) \in Nat
    <3>1. \A i \in Server : DOMAIN applied[i] = 1..Len(applied[i]) /\ Len(applied[i]) \in Nat
      BY LenProperties DEF TypeInv, TypeOK, LogTypeOK
    <3>2. \A i \in Server : Len(log[i]) \in Nat
      BY LenProperties DEF TypeInv, TypeOK, LogTypeOK
    <3> QED
      BY <3>1, <3>2
  <2>4. StateMachineSafety
    <3> SUFFICES ASSUME NEW i \in Server, NEW j \in Server, NEW k \in DOMAIN applied[i] \cap DOMAIN applied[j]
                 PROVE  applied[i][k] = applied[j][k]
      BY DEF StateMachineSafety, SameUpTo
    <3>1. k \in 1..Len(applied[i]) /\ k \in 1..Len(applied[j])
      BY <2>3
    <3>2. applied[i][k] = log[l][k].cmd /\ applied[j][k] = log[l][k].cmd
      BY <2>2, <3>1 DEF StableOf, AppliedFollow
    <3> QED
      BY <3>2
  <2>5. ASSUME NEW c \in Cmd, promise[c].state = "done"
        PROVE  /\ Majority(Cardinality({i \in Server : HoldsAt(i, c, promise[c].jobId)}))
               /\ \A i \in Server : Len(applied[i]) > promise[c].jobId =>
                                      applied[i][promise[c].jobId + 1] = c
    <3> DEFINE id == promise[c].jobId
               holders == {i \in Server : HoldsAt(i, c, id)}
    <3>1. id \in Nat
      BY DEF TypeInv, TypeOK, SyncTypeOK, Promise
    <3>2. EntryOf(log[l], c, id) /\ Spread(log, id + 1)
      BY <2>2, <2>5 DEF StableOf, DoneHeld
    <3> HIDE DEF id
    <3>3. ASSUME NEW i \in HaveOf(log, id + 1) PROVE i \in holders
      <4>1. i \in Server /\ Len(log[i]) >= id + 1 /\ Begins(log[i], log[l])
        BY <2>2, <3>3 DEF HaveOf, StableOf, LogsFollow
      <4>2. id + 1 \in 1..Len(log[i]) /\ id < Len(log[i])
        BY <2>3, <3>1, <4>1
      <4>3. log[i][id + 1] = log[l][id + 1]
        BY <4>1, <4>2 DEF Begins
      <4> QED
        BY <3>2, <4>1, <4>2, <4>3 DEF HoldsAt, EntryOf
    <3>4. HaveOf(log, id + 1) \subseteq holders /\ IsFiniteSet(holders)
      BY <3>3, ServerAssumption, FS_Subset
    <3>5. Cardinality(HaveOf(log, id + 1)) <= Cardinality(holders) /\ Cardinality(holders) \in Nat
      BY <3>4, FS_Subset, FS_CardinalityType
    <3>6. Cardinality(HaveOf(log, id + 1)) \in Nat /\ Cardinality(Server) \in Nat
      BY HaveFinite, ServerAssumption, FS_CardinalityType
    <3>7. Majority(Cardinality(holders))
      BY <3>2, <3>5, <3>6 DEF Majority, Spread
    <3>8. ASSUME NEW i \in Server, Len(applied[i]) > id PROVE applied[i][id + 1] = c
      <4>1. id + 1 \in 1..Len(applied[i])
        BY <2>3, <3>1, <3>8
      <4> QED
        BY <2>2, <3>2, <4>1 DEF StableOf, AppliedFollow, EntryOf
    <3> QED
      BY <3>7, <3>8 DEF id
  <2> QED
    BY <2>4, <2>5 DEF AnsweredDurable
<1> QED
  BY <1>1, <1>2

-----------------------------------------------------------------------------
(* As long as no second master was elected, in however many terms the      *)
(* first was, commitUpTo applies the same entries in the same order on all *)
(* masters.                                                                *)
THEOREM SafeUnderOneLeader == Spec => [](OneLeader => StateMachineSafety)
<1>1. TypeInv /\ StableInv => (OneLeader => StateMachineSafety)
  BY StableClaims
<1> QED
  BY <1>1, StableInvariant, TypeInvariant, PTL

(* And what syncWorker answered a client is on a majority of masters, at   *)
(* the index of the answer.                                                *)
THEOREM DurableUnderOneLeader == Spec => [](OneLeader => AnsweredDurable)
<1>1. TypeInv /\ StableInv => (OneLeader => AnsweredDurable)
  BY StableClaims
<1> QED
  BY <1>1, StableInvariant, TypeInvariant, PTL

(* Elections are of terms up to MaxTerm; with one term there is one leader. *)
TermsBounded ==
  /\ \A e \in electing : e[2] \in 1..MaxTerm
  /\ \A e \in elected : e[1] \in 1..MaxTerm

LEMMA NextTermsBounded == TypeInv /\ TermsBounded /\ [Next]_vars => TermsBounded'
<1> SUFFICES ASSUME TypeInv, TermsBounded, [Next]_vars PROVE TermsBounded'
  OBVIOUS
<1>1. ASSUME electing' \subseteq electing, elected' = elected PROVE TermsBounded'
  BY <1>1 DEF TermsBounded
<1>2. ASSUME NEW i \in Server, candidateTimeoutCallback(i) PROVE TermsBounded'
  <2>1. current_term[i] \in Nat /\ MaxTerm \in Nat /\ current_term[i] < MaxTerm
    BY <1>2, BoundAssumption DEF candidateTimeoutCallback, TypeInv, TypeOK, ServerTypeOK
  <2>2. electing' = electing \cup {<<i, current_term[i] + 1>>} /\ elected' = elected
    BY <1>2 DEF candidateTimeoutCallback
  <2> QED
    BY <2>1, <2>2 DEF TermsBounded
<1>3. ASSUME NEW i \in Server, NEW t \in Nat, BecomesLeader(i, t) PROVE TermsBounded'
  <2>1. <<i, t>> \in electing /\ electing' \subseteq electing /\ elected' = elected \cup {<<t, i>>}
    BY <1>3 DEF BecomesLeader, ElectReturns
  <2> QED
    BY <2>1 DEF TermsBounded
<1>4. ASSUME NEW i \in Server, Timed(i) PROVE TermsBounded'
  <2>1. CASE \E t \in Nat : NotElected(i, t)
    BY <1>1, <2>1 DEF NotElected, ElectReturns
  <2>2. CASE \/ ExpireTimer(i) \/ candidateTimeoutReturns(i) \/ followerTimeoutCallback(i)
             \/ leaderPeriodicReturns(i)
             \/ \E b \in Beat : leaderPeriodicCallback(i, b) \/ leaderPeriodicEnds(i, b)
    BY <1>1, <2>2 DEF ExpireTimer, candidateTimeoutReturns, followerTimeoutCallback, leaderPeriodicReturns,
       leaderPeriodicCallback, leaderPeriodicEnds, electVars
  <2> QED
    BY <1>2, <1>3, <1>4, <2>1, <2>2 DEF Timed
<1>5. ASSUME NEW i \in Server, Synced(i) PROVE TermsBounded'
  BY <1>1, <1>5 DEF Synced, syncWorkerRejects, syncWorkerAppends, SyncDeposed, SyncOutdated, SyncGivesUp,
     SyncCommits, SyncRetries, electVars
<1>6. ASSUME NEW i \in Server, \/ Dies(i) \/ taskExecutionPeriodicCallback(i)
                               \/ \E c \in Cmd : TakeRequest(i, c)
                               \/ \E b \in Beat, j \in Peers(i) : leaderPeriodicPrepares(i, b, j)
      PROVE  TermsBounded'
  BY <1>1, <1>6 DEF Dies, Die, taskExecutionPeriodicCallback, TakeRequest, leaderPeriodicPrepares, electVars
<1>7. ASSUME NEW m \in voteCalls, VoteDelivered(m) PROVE TermsBounded'
  BY <1>1, <1>7 DEF VoteDelivered, handleVoteRequest, VoteCallFails
<1>8. ASSUME NEW m \in appendCalls, AppendDelivered(m) PROVE TermsBounded'
  BY <1>1, <1>8 DEF AppendDelivered, AppendRefused, AppendMismatch, AppendAccepted, AppendCallFails, Follows,
     electVars
<1>9. CASE UNCHANGED vars
  BY <1>1, <1>9 DEF vars, electVars
<1> QED
  BY <1>4, <1>5, <1>6, <1>7, <1>8, <1>9, NextSteps

LEMMA OneLeaderInOneTerm == ASSUME MaxTerm <= 1 PROVE Spec => []OneLeader
<1>1. Init => TermsBounded
  BY DEF Init, TermsBounded
<1>2. TermsBounded /\ ElectionSafety => OneLeader
  BY BoundAssumption DEF TermsBounded, ElectionSafety, OneLeader
<1> QED
  BY <1>1, <1>2, NextTermsBounded, TypeInvariant, OneWinnerPerTerm, PTL DEF Spec

(* So masters apply the same entries in the first term, whatever is lost,  *)
(* delayed or fails in it.                                                 *)
THEOREM SafeInFirstTerm == ASSUME MaxTerm <= 1 PROVE Spec => []StateMachineSafety
  BY OneLeaderInOneTerm, SafeUnderOneLeader, PTL

(* And no answer syncWorker gave in it is lost.                            *)
THEOREM DurableInFirstTerm == ASSUME MaxTerm <= 1 PROVE Spec => []AnsweredDurable
  BY OneLeaderInOneTerm, DurableUnderOneLeader, PTL
-----------------------------------------------------------------------------
(* Commitment.  A follower commits what the master tells it: a heartbeat   *)
(* the commit index of the master, a round all entries but its own.  The   *)
(* round does not wait for the rounds before it to succeed, so its word is *)
(* good only because it arrived: two masters then have those entries.      *)
CommitTold(l, m) ==
  IF m.beat = Nil THEN m.leaderCommit = Len(log[l]) - 1
  ELSE m.leaderCommit > 0 => Spread(log, m.leaderCommit)
CommitOf(l) ==
  /\ \A i \in Server : Len(applied[i]) > 0 => Spread(log, Len(applied[i]))
  /\ commit_index[l] > 0 => Spread(log, commit_index[l])
  /\ \A m \in appendCalls : CommitTold(l, m)
  /\ \A i \in Server, b \in Beat : \A m \in beats[i][b].requests :
       m.leaderCommit > 0 => Spread(log, m.leaderCommit)
CommitInv ==
  /\ elected = {} => \A i \in Server : commit_index[i] = 0
  /\ OneLeader => \A l \in Server : Rules(l) => CommitOf(l)

(* Two masters are more than half of three.                                *)
LEMMA TwoSuffice ==
  ASSUME Cardinality(Server) <= 3, NEW i \in Server, NEW j \in Server, i # j,
         NEW logs, NEW n, Len(logs[i]) >= n, Len(logs[j]) >= n
  PROVE  Spread(logs, n)
<1>1. IsFiniteSet({i}) /\ Cardinality({i}) = 1
  BY FS_Singleton
<1>2. Cardinality({i} \cup {j}) = Cardinality({i}) + 1
  BY <1>1, FS_AddElement
<1>3. Majority(Cardinality({i} \cup {j}))
  <2>1. Cardinality(Server) \in Nat
    BY ServerAssumption, FS_CardinalityType
  <2>2. Cardinality({i} \cup {j}) = 2
    BY <1>1, <1>2
  <2>3. Majority(2)
    BY <2>1 DEF Majority
  <2> QED
    BY <2>2, <2>3
<1>4. \A k \in {i} \cup {j} : k \in Server /\ Len(logs[k]) >= n
  OBVIOUS
<1> QED
  BY <1>3, <1>4, SpreadOver

(* While nobody waits for a round, only heartbeats are under way.          *)
LEMMA NoRoundCalls ==
  ASSUME TypeInv, RuleInv, RoundInv, OneLeader, NEW l \in Server, Rules(l), Running(l), ~sync[l].busy,
         NEW m \in appendCalls
  PROVE  m.beat # Nil
<1>1. m.from = l
  BY OnlyOne DEF RuleInv, CallsRule
<1> QED
  BY <1>1 DEF RoundInv, RoundOf, NoneUnderWay, SyncCalls

(* The next request becomes an entry of the log of the master.             *)
LEMMA AppendsEffect ==
  ASSUME TypeInv, RuleInv, OneLeader, NEW l \in Server, Rules(l), NEW i \in Server, syncWorkerAppends(i)
  PROVE  /\ i = l /\ Running(l) /\ ~sync[l].busy /\ UNCHANGED <<commit_index, applied, promise, beats>>
         /\ log' \in [Server -> Seq(Entry)]
         /\ \A j \in Server \ {l} : log'[j] = log[j]
         /\ \E e \in Entry : log'[l] = Append(log[l], e)
         /\ SyncRound(l, log'[l], next_index[l])
<1>1. i = l
  BY OnlyOne DEF syncWorkerAppends, RuleInv, LeadersRule
<1> DEFINE e == [term |-> current_term[l], cmd |-> Head(request_queue[l])]
<1>2. /\ UNCHANGED <<commit_index, applied, promise, beats>>
      /\ Running(l) /\ ~sync[l].busy /\ request_queue[l] # <<>>
      /\ log' = Put(log, l, Append(log[l], e)) /\ SyncRound(l, Append(log[l], e), next_index[l])
  BY <1>1 DEF syncWorkerAppends, Idle
<1>3. e \in Entry
  <2>1. Head(request_queue[l]) \in Cmd \cup AssignCmd
    BY <1>2, HeadTailProperties DEF TypeInv, TypeOK, SyncTypeOK
  <2> QED
    BY <2>1 DEF TypeInv, TypeOK, ServerTypeOK, Entry
<1> HIDE DEF e
<1>4. Append(log[l], e) \in Seq(Entry)
  BY <1>3, AppendProperties DEF TypeInv, TypeOK, LogTypeOK
<1>5. /\ log' \in [Server -> Seq(Entry)] /\ log'[l] = Append(log[l], e)
      /\ \A j \in Server \ {l} : log'[j] = log[j]
  BY <1>2, <1>4 DEF TypeInv, TypeOK, LogTypeOK, Put
<1> QED
  BY <1>1, <1>2, <1>3, <1>5

(* No log shrinks, so what is spread stays so.                             *)
LEMMA SpreadStays ==
  ASSUME TypeInv, RuleInv, RoundInv, OneLeader, NEW l \in Server, Rules(l), StableOf(l), [Next]_vars
  PROVE  \A n \in Nat : Spread(log, n) => Spread(log', n)
<1>1. log \in [Server -> Seq(Entry)] /\ \A j \in Server : Len(log[j]) \in Nat
  BY LenProperties DEF TypeInv, TypeOK, LogTypeOK
<1>2. ASSUME log' \in [Server -> Seq(Entry)], \A j \in Server : Len(log[j]) <= Len(log'[j])
      PROVE  \A n \in Nat : Spread(log, n) => Spread(log', n)
  <2> SUFFICES ASSUME NEW n \in Nat, Spread(log, n) PROVE Spread(log', n)
    OBVIOUS
  <2>1. n <= n
    OBVIOUS
  <2> QED
    BY <1>1, <1>2, <2>1, SpreadKept
<1>3. CASE UNCHANGED log
  BY <1>3
<1>4. ASSUME NEW i \in Server, syncWorkerAppends(i) PROVE \A n \in Nat : Spread(log, n) => Spread(log', n)
  <2>1. PICK e \in Entry : log'[l] = Append(log[l], e)
    BY <1>4, AppendsEffect
  <2>2. Len(log'[l]) = Len(log[l]) + 1
    BY <1>1, <2>1, AppendProperties
  <2>3. Len(log[l]) <= Len(log'[l])
    BY <1>1, <2>2
  <2>4. \A j \in Server \ {l} : log'[j] = log[j]
    BY <1>4, AppendsEffect
  <2>5. \A j \in Server : Len(log[j]) <= Len(log'[j])
    <3> TAKE j \in Server
    <3>1. CASE j = l
      BY <2>3, <3>1
    <3>2. CASE j # l
      BY <1>1, <2>4, <3>2
    <3> QED
      BY <3>1, <3>2
  <2> QED
    BY <1>2, <1>4, <2>5, AppendsEffect
<1>5. ASSUME NEW m \in appendCalls, AppendAccepted(m) PROVE \A n \in Nat : Spread(log, n) => Spread(log', n)
  <2>1. /\ \A j \in Server \ {m.to} : log'[j] = log[j]
        /\ Len(log[m.to]) <= Len(log'[m.to])
    BY <1>5, AcceptedEffect
  <2>2. \A j \in Server : Len(log[j]) <= Len(log'[j])
    <3> TAKE j \in Server
    <3>1. CASE j = m.to
      BY <2>1, <3>1
    <3>2. CASE j # m.to
      BY <1>1, <2>1, <3>2
    <3> QED
      BY <3>1, <3>2
  <2> QED
    BY <1>2, <1>5, <2>2, AcceptedEffect
<1>6. \A i \in Server : SyncCommits(i) \/ SyncRetries(i) => UNCHANGED log
  BY DEF SyncCommits, SyncRetries, logVars
<1>7. \A i \in Server, b \in Beat : \A j \in Peers(i) : leaderPeriodicPrepares(i, b, j) => UNCHANGED log
  BY DEF leaderPeriodicPrepares, logVars
<1> QED
  BY <1>3, <1>4, <1>5, <1>6, <1>7, QuietOrNot DEF Quiet
(* What a step has to show: its news only.                                 *)
LEMMA CommitFrame ==
  ASSUME TypeInv, RuleInv, RoundInv, OneLeader, NEW l \in Server, Rules(l), StableOf(l), CommitOf(l),
         [Next]_vars,
         \A i \in Server : \/ applied'[i] = applied[i]
                           \/ Len(applied'[i]) > 0 => Spread(log', Len(applied'[i])),
         commit_index'[l] = commit_index[l] \/ Spread(log', commit_index'[l]),
         \A m \in appendCalls' : \/ m \in appendCalls /\ (log'[l] = log[l] \/ m.beat # Nil)
                                 \/ CommitTold(l, m)',
         \A i \in Server, b \in Beat : \A m \in beats'[i][b].requests :
           m \in beats[i][b].requests \/ (m.leaderCommit > 0 => Spread(log', m.leaderCommit))
  PROVE  CommitOf(l)'
<1>1. \A n \in Nat : Spread(log, n) => Spread(log', n)
  BY SpreadStays
<1>2. /\ \A i \in Server : Len(applied[i]) \in Nat
      /\ commit_index[l] \in Nat
      /\ \A m \in appendCalls : m.leaderCommit \in Nat
      /\ \A i \in Server, b \in Beat : \A m \in beats[i][b].requests : m.leaderCommit \in Nat
  BY LenProperties DEF TypeInv, TypeOK, LogTypeOK, AppendTypeOK, AppendCall, BeatState
<1>3. \A i \in Server : Len(applied'[i]) > 0 => Spread(log', Len(applied'[i]))
  BY <1>1, <1>2 DEF CommitOf
<1>4. commit_index'[l] > 0 => Spread(log', commit_index'[l])
  BY <1>1, <1>2 DEF CommitOf
<1>5. ASSUME NEW m \in appendCalls' PROVE CommitTold(l, m)'
  <2>1. CASE m \in appendCalls /\ (log'[l] = log[l] \/ m.beat # Nil)
    BY <1>1, <1>2, <2>1 DEF CommitOf, CommitTold
  <2> QED
    BY <2>1
<1>6. \A i \in Server, b \in Beat : \A m \in beats'[i][b].requests :
        m.leaderCommit > 0 => Spread(log', m.leaderCommit)
  BY <1>1, <1>2 DEF CommitOf
<1> QED
  BY <1>3, <1>4, <1>5, <1>6 DEF CommitOf

LEMMA CommitKept ==
  ASSUME Cardinality(Server) <= 3, TypeInv, RuleInv, RoundInv, OneLeader,
         NEW l \in Server, Rules(l), StableOf(l), CommitOf(l), [Next]_vars
  PROVE  CommitOf(l)'
<1>1. CASE Quiet
  BY <1>1, CommitFrame DEF Quiet
<1>2. ASSUME NEW i \in Server, syncWorkerAppends(i) PROVE CommitOf(l)'
  <2>1. /\ UNCHANGED <<commit_index, applied, beats>> /\ SyncRound(l, log'[l], next_index[l])
        /\ Running(l) /\ ~sync[l].busy
    BY <1>2, AppendsEffect
  <2>2. \A m \in appendCalls : m.beat # Nil
    BY <2>1, NoRoundCalls
  <2>3. ASSUME NEW m \in appendCalls', m \notin appendCalls PROVE CommitTold(l, m)'
    <3>1. m.beat = Nil /\ m.leaderCommit = Len(log'[l]) - 1
      BY <2>1, <2>3 DEF SyncRound, SyncCall
    <3> QED
      BY <3>1 DEF CommitTold
  <2> QED
    BY <2>1, <2>2, <2>3, CommitFrame
<1>3. ASSUME NEW i \in Server, SyncCommits(i) PROVE CommitOf(l)'
  <2>1. /\ UNCHANGED <<log, appendCalls, beats>> /\ Spread(log, Len(log[l]))
        /\ commit_index' = Put(commit_index, l, Len(log[l]))
        /\ Len(applied'[l]) = Len(log[l]) /\ \A j \in Server \ {l} : applied'[j] = applied[j]
    BY <1>3, CommitsEffect
  <2>2. commit_index'[l] = Len(log[l])
    BY <2>1 DEF Put, TypeInv, TypeOK, LogTypeOK
  <2>3. Spread(log', commit_index'[l]) /\ Spread(log', Len(applied'[l]))
    BY <2>1, <2>2
  <2>4. \A j \in Server : applied'[j] = applied[j] \/ (Len(applied'[j]) > 0 => Spread(log', Len(applied'[j])))
    BY <2>1, <2>3
  <2> QED
    BY <2>1, <2>3, <2>4, CommitFrame
<1>4. ASSUME NEW i \in Server, SyncRetries(i) PROVE CommitOf(l)'
  <2>1. UNCHANGED <<log, commit_index, applied, beats>> /\ SyncRound(i, log[i], NextIndex(i)) /\ i = l
    BY <1>4, OnlyOne DEF SyncRetries, RoundCounted, logVars, RuleInv, LeadersRule
  <2>2. ASSUME NEW m \in appendCalls', m \notin appendCalls PROVE CommitTold(l, m)'
    <3>1. m.beat = Nil /\ m.leaderCommit = Len(log'[l]) - 1
      BY <2>1, <2>2 DEF SyncRound, SyncCall
    <3> QED
      BY <3>1 DEF CommitTold
  <2> QED
    BY <2>1, <2>2, CommitFrame
<1>5. ASSUME NEW i \in Server, NEW b \in Beat, NEW j \in Peers(i), leaderPeriodicPrepares(i, b, j)
      PROVE  CommitOf(l)'
  <2> DEFINE requests == beats[i][b].requests \cup {BeatCall(i, b, j)}
             sent == ActiveBeat(TRUE, beats[i][b].logSize, {})
             unsent == ActiveBeat(FALSE, beats[i][b].logSize, requests)
  <2>1. UNCHANGED <<log, commit_index, applied>> /\ i = l
    BY <1>5, OnlyOne DEF leaderPeriodicPrepares, logVars, RuleInv, BeatsRule
  <2>2. BeatCall(i, b, j).beat # Nil /\ BeatCall(i, b, j).leaderCommit = commit_index[l]
    BY <2>1, BeatAssumption DEF BeatCall
  <2>3. \A m \in requests : m.beat # Nil /\ (m.leaderCommit > 0 => Spread(log, m.leaderCommit))
    BY <2>2 DEF CommitOf, RoundInv, BeatsMarked
  <2>4. /\ appendCalls' \subseteq appendCalls \cup requests
        /\ beats' = [beats EXCEPT ![i][b] = sent] \/ beats' = [beats EXCEPT ![i][b] = unsent]
    BY <1>5 DEF leaderPeriodicPrepares
  <2>5. sent.requests \subseteq requests /\ unsent.requests \subseteq requests
    BY DEF ActiveBeat
  <2> HIDE DEF requests, sent, unsent
  <2>6. ASSUME NEW x, x.requests \subseteq requests, beats' = [beats EXCEPT ![i][b] = x]
        PROVE  \A k \in Server, c \in Beat : beats'[k][c].requests \subseteq beats[k][c].requests \cup requests
    BY <2>6 DEF TypeInv, TypeOK, AppendTypeOK
  <2>7. \A k \in Server, c \in Beat : beats'[k][c].requests \subseteq beats[k][c].requests \cup requests
    BY <2>4, <2>5, <2>6
  <2>8. \A m \in requests : CommitTold(l, m)'
    BY <2>1, <2>3 DEF CommitTold
  <2> QED
    BY <2>1, <2>3, <2>4, <2>7, <2>8, CommitFrame
<1>6. ASSUME NEW m \in appendCalls, AppendAccepted(m) PROVE CommitOf(l)'
  <2> DEFINE i == m.to
             size == Len(log'[i])
             n == Len(applied'[i])
  <2>1. /\ i \in Server /\ i # l /\ UNCHANGED beats /\ log' \in [Server -> Seq(Entry)]
        /\ \A j \in Server \ {i} : log'[j] = log[j] /\ applied'[j] = applied[j]
                                   /\ commit_index'[j] = commit_index[j]
        /\ m.beat = Nil => Len(log[l]) <= size
        /\ n = MinOf(m.leaderCommit, size) /\ m.leaderCommit \in Nat
    BY <1>6, AcceptedEffect DEF AppendCall
  <2>2. /\ appendCalls' \subseteq appendCalls /\ log'[l] = log[l] /\ commit_index'[l] = commit_index[l]
        /\ size \in Nat /\ Len(log'[l]) \in Nat
    BY <1>6, <2>1, LenProperties DEF AppendAccepted, AppendAnswer
  <2>3. n > 0 => Spread(log', n)
    <3>1. CASE m.beat = Nil
      <4>1. m.leaderCommit = Len(log[l]) - 1
        BY <3>1 DEF CommitOf, CommitTold
      <4>2. n <= size /\ n <= Len(log'[l])
        BY <2>1, <2>2, <4>1 DEF MinOf
      <4> QED
        BY <2>1, <4>2, TwoSuffice
    <3>2. CASE m.beat # Nil /\ n > 0
      <4>1. n \in Nat /\ n <= m.leaderCommit /\ m.leaderCommit > 0
        BY <2>1, <2>2, <3>2 DEF MinOf
      <4>2. Spread(log', m.leaderCommit)
        BY <2>1, <3>2, <4>1, SpreadStays DEF CommitOf, CommitTold
      <4>3. \A j \in Server : Len(log'[j]) <= Len(log'[j])
        BY <2>1, LenProperties
      <4> HIDE DEF n, i
      <4> QED
        BY <2>1, <4>1, <4>2, <4>3, SpreadKept
    <3> QED
      BY <3>1, <3>2
  <2>4. \A j \in Server : applied'[j] = applied[j] \/ (Len(applied'[j]) > 0 => Spread(log', Len(applied'[j])))
    BY <2>1, <2>3
  <2> HIDE DEF i, n, size
  <2> QED
    BY <2>1, <2>2, <2>4, CommitFrame
<1> QED
  BY <1>1, <1>2, <1>3, <1>4, <1>5, <1>6, QuietOrNot

LEMMA NextCommitInv ==
  ASSUME Cardinality(Server) <= 3, TypeInv, RuleInv, RoundInv, StableInv, CommitInv, [Next]_vars
  PROVE  CommitInv'
<1>1. elected \subseteq elected'
  BY RulesGrow
<1>2. CASE elected = {}
  <2>1. /\ \A i \in Server, b \in Beat : beats[i][b].requests = {}
        /\ appendCalls = {} /\ Quiet
    BY <1>2, NothingYet
  <2>2. \A i \in Server : commit_index'[i] = 0
    BY <1>2, <2>1 DEF CommitInv, Quiet
  <2>3. /\ \A i \in Server : applied'[i] = <<>>
        /\ \A i \in Server, b \in Beat : beats'[i][b].requests = {}
        /\ appendCalls' = {}
    BY <1>2, <2>1 DEF StableInv, Before, Quiet
  <2>4. Len(<<>>) = 0
    BY EmptySeq
  <2>5. \A l \in Server : CommitOf(l)'
    BY <2>2, <2>3, <2>4 DEF CommitOf
  <2> QED
    BY <2>2, <2>5 DEF CommitInv
<1>3. CASE elected # {}
  <2>1. elected' # {}
    BY <1>1, <1>3
  <2>2. ASSUME OneLeader', NEW l \in Server, Rules(l)' PROVE CommitOf(l)'
    <3>1. OneLeader /\ Rules(l)
      BY <1>1, <1>3, <2>2 DEF OneLeader, Rules
    <3>2. StableOf(l) /\ CommitOf(l)
      BY <3>1 DEF StableInv, CommitInv
    <3> QED
      BY <3>1, <3>2, CommitKept
  <2> QED
    BY <2>1, <2>2 DEF CommitInv
<1> QED
  BY <1>2, <1>3
-----------------------------------------------------------------------------
(* The refinement.  Contents of logs.                                      *)
LEMMA ContentTypes ==
  ASSUME NEW lg \in Seq(Entry)
  PROVE  /\ Content(lg) \in Seq(Cmd \cup AssignCmd) /\ Len(Content(lg)) = Len(lg) /\ Len(lg) \in Nat
         /\ \A k \in 1..Len(lg) : Content(lg)[k] = lg[k].cmd
<1>1. DOMAIN lg = 1..Len(lg) /\ Len(lg) \in Nat
  BY LenProperties
<1>2. \A k \in 1..Len(lg) : lg[k].cmd \in Cmd \cup AssignCmd
  <2> TAKE k \in 1..Len(lg)
  <2>1. lg[k] \in Entry
    BY ElementOfSeq
  <2> QED
    BY <2>1 DEF Entry
<1>3. Content(lg) \in [1..Len(lg) -> Cmd \cup AssignCmd]
  BY <1>1, <1>2 DEF Content
<1>4. Content(lg) \in Seq(Cmd \cup AssignCmd)
  BY <1>1, <1>3, IsASeq
<1>5. Len(Content(lg)) = Len(lg)
  BY <1>1, <1>3, <1>4, LenProperties
<1> QED
  BY <1>1, <1>4, <1>5 DEF Content

(* Whoever follows a log entry by entry has a prefix of its content.       *)
LEMMA FollowsContent ==
  ASSUME NEW top \in Seq(Entry), NEW s \in Seq(Cmd \cup AssignCmd), Len(s) <= Len(top),
         \A k \in 1..Len(s) : s[k] = top[k].cmd
  PROVE  s = SubSeq(Content(top), 1, Len(s))
<1> DEFINE t == Content(top)
           front == SubSeq(t, 1, Len(s))
<1>1. /\ t \in Seq(Cmd \cup AssignCmd) /\ Len(t) = Len(top) /\ Len(top) \in Nat /\ Len(s) \in Nat
      /\ \A k \in 1..Len(top) : t[k] = top[k].cmd
  BY ContentTypes, LenProperties
<1> HIDE DEF t
<1>2. \A k \in 1..Len(t) : t[k] \in Cmd \cup AssignCmd
  BY <1>1, ElementOfSeq
<1>3. \A k \in 1..Len(s) : t[k] \in Cmd \cup AssignCmd /\ k \in 1..Len(top)
  BY <1>1, <1>2
<1>4. /\ front \in Seq(Cmd \cup AssignCmd) /\ Len(front) = Len(s)
      /\ \A k \in 1..Len(s) : front[k] = t[k]
  <2>1. front \in Seq(Cmd \cup AssignCmd) /\ Len(front) = Len(s)
    <3>1. 1 \in 1..(Len(t) + 1) /\ Len(s) \in 0..Len(t) /\ \A k \in 1..Len(s) : t[k] \in Cmd \cup AssignCmd
      BY <1>1, <1>3
    <3>2. front \in Seq(Cmd \cup AssignCmd)
      BY <1>1, <3>1, SubSeqProperties
    <3>3. Len(front) = IF 1 <= Len(s) THEN Len(s) - 1 + 1 ELSE 0
      BY <1>1, <3>1, SubSeqProperties
    <3> QED
      BY <1>1, <3>2, <3>3
  <2>2. \A k \in 1..(Len(s) - 1 + 1) : front[k] = t[1 + k - 1]
    BY <1>1, <1>3, SubSeqProperties
  <2> QED
    BY <1>1, <2>1, <2>2
<1> HIDE DEF front
<1>5. \A k \in 1..Len(s) : s[k] = front[k]
  BY <1>1, <1>3, <1>4
<1> QED
  BY <1>4, <1>5, SeqEqual DEF front, t

LEMMA ContentAppend ==
  ASSUME NEW lg \in Seq(Entry), NEW e \in Entry
  PROVE  Content(Append(lg, e)) = Append(Content(lg), e.cmd) /\ e.cmd \in Cmd \cup AssignCmd
<1>1. /\ Append(lg, e) \in Seq(Entry) /\ Len(Append(lg, e)) = Len(lg) + 1 /\ Len(lg) \in Nat
      /\ \A k \in 1..Len(lg) : Append(lg, e)[k] = lg[k]
      /\ Append(lg, e)[Len(lg) + 1] = e
  BY AppendProperties, LenProperties
<1>2. e.cmd \in Cmd \cup AssignCmd
  BY DEF Entry
<1>3. /\ Content(lg) \in Seq(Cmd \cup AssignCmd) /\ Len(Content(lg)) = Len(lg)
      /\ \A k \in 1..Len(lg) : Content(lg)[k] = lg[k].cmd
  BY ContentTypes
<1>4. /\ Append(Content(lg), e.cmd) \in Seq(Cmd \cup AssignCmd)
      /\ Len(Append(Content(lg), e.cmd)) = Len(lg) + 1
      /\ \A k \in 1..Len(lg) : Append(Content(lg), e.cmd)[k] = Content(lg)[k]
      /\ Append(Content(lg), e.cmd)[Len(lg) + 1] = e.cmd
  BY <1>2, <1>3, AppendProperties
<1>5. /\ Content(Append(lg, e)) \in Seq(Cmd \cup AssignCmd) /\ Len(Content(Append(lg, e))) = Len(lg) + 1
      /\ \A k \in 1..(Len(lg) + 1) : Content(Append(lg, e))[k] = Append(lg, e)[k].cmd
  BY <1>1, ContentTypes
<1>6. ASSUME NEW k \in 1..(Len(lg) + 1) PROVE Content(Append(lg, e))[k] = Append(Content(lg), e.cmd)[k]
  <2>1. CASE k = Len(lg) + 1
    BY <1>1, <1>4, <1>5, <2>1
  <2>2. CASE k \in 1..Len(lg)
    BY <1>1, <1>3, <1>4, <1>5, <2>2
  <2>3. k = Len(lg) + 1 \/ k \in 1..Len(lg)
    BY <1>1
  <2> QED
    BY <2>1, <2>2, <2>3
<1> QED
  BY <1>2, <1>4, <1>5, <1>6, SeqEqual

-----------------------------------------------------------------------------
(* The parts of the mapping, of any logs, elections and answers.           *)
LogOf(elections, logs) ==
  IF elections = {} THEN <<>>
  ELSE Content(logs[CHOOSE i \in Server : \E e \in elections : e[2] = i])
Copies(logs) == [i \in Server |-> Content(logs[i])]
Told(answers) == {<<answers[c].jobId + 1, c>> : c \in {x \in Cmd : answers[x].state = "done"}}

LEMMA LogOfRuler ==
  ASSUME NEW elections, \A e, f \in elections : e[2] = f[2], NEW l \in Server,
         NEW e \in elections, e[2] = l, NEW logs
  PROVE  LogOf(elections, logs) = Content(logs[l])
<1> DEFINE i == CHOOSE i \in Server : \E x \in elections : x[2] = i
<1>1. \E j \in Server : \E x \in elections : x[2] = j
  OBVIOUS
<1>2. \E x \in elections : x[2] = i
  BY <1>1
<1>3. i = l
  BY <1>2
<1> QED
  BY <1>3 DEF LogOf

LEMMA SameCount == ASSUME NEW S PROVE RL!Cardinality(S) = Cardinality(S)
  BY DEF RL!Cardinality, Cardinality

LEMMA SpreadCommits ==
  ASSUME NEW logs \in [Server -> Seq(Entry)], NEW n, Spread(logs, n)
  PROVE  RL!IsCommitted(Copies(logs), n)
<1>1. \A i \in Server : Len(Copies(logs)[i]) = Len(logs[i])
  BY ContentTypes DEF Copies
<1>2. RL!Holders(Copies(logs), n) = HaveOf(logs, n)
  BY <1>1 DEF RL!Holders, HaveOf
<1>3. Cardinality(HaveOf(logs, n)) * 2 > Cardinality(Server)
  BY DEF Spread, Majority
<1>4. 2 * Cardinality(HaveOf(logs, n)) > Cardinality(Server)
  BY <1>3, HaveFinite
<1> QED
  BY <1>2, <1>4, SameCount DEF RL!IsCommitted

-----------------------------------------------------------------------------
(* What was answered stays: the request is in no queue any more.           *)
LEMMA DoneStays ==
  ASSUME TypeInv, HeldInv, [Next]_vars, NEW c \in Cmd, promise[c].state = "done"
  PROVE  promise'[c] = promise[c]
<1>1. \A i \in Server : c \notin Queued(i) \cup InSync(i) /\ ~(sync[i].busy /\ sync[i].cmd = c)
  <2> TAKE i \in Server
  <2>1. \A k \in Nat : ~Holds(i, k, c)
    BY DEF HeldInv, HeldAlive
  <2>2. ~(sync[i].busy /\ sync[i].cmd = c)
    BY <2>1 DEF Holds
  <2>3. \A k \in DOMAIN request_queue[i] : k \in Nat
    BY QueueTypes
  <2> QED
    BY <2>1, <2>2, <2>3 DEF Holds, Queued, InSync
<1>2. \A S : c \notin S => Failed(S)[c] = promise[c]
  BY DEF Failed
<1>3. \A i, s, id : sync[i].cmd # c => Answer(i, s, id)[c] = promise[c]
  BY DEF Answer, Put, TypeInv, TypeOK, SyncTypeOK
<1>4. CASE UNCHANGED promise
  BY <1>4
<1>5. ASSUME NEW i \in Server, Synced(i) PROVE promise'[c] = promise[c]
  <2>1. CASE syncWorkerRejects(i)
    BY <1>1, <1>2, <2>1 DEF syncWorkerRejects
  <2>2. CASE SyncDeposed(i) \/ SyncOutdated(i)
    BY <1>1, <1>2, <2>2 DEF SyncDeposed, SyncOutdated
  <2>3. CASE SyncGivesUp(i) \/ SyncCommits(i)
    <3>1. sync[i].busy /\ \E s, id : promise' = Answer(i, s, id)
      BY <2>3 DEF SyncGivesUp, SyncCommits, RoundCounted, RoundOver
    <3> QED
      BY <1>1, <1>3, <3>1
  <2>4. syncWorkerAppends(i) \/ SyncRetries(i) => UNCHANGED promise
    BY DEF syncWorkerAppends, SyncRetries
  <2> QED
    BY <1>4, <1>5, <2>1, <2>2, <2>3, <2>4 DEF Synced
<1>6. ASSUME NEW i \in Server, Dies(i) PROVE promise'[c] = promise[c]
  BY <1>1, <1>2, <1>6 DEF Dies, Die
<1>7. ASSUME NEW i \in Server, NEW d \in Cmd, TakeRequest(i, d) PROVE promise'[c] = promise[c]
  BY <1>7 DEF TakeRequest, Put, TypeInv, TypeOK, SyncTypeOK
<1>8. ASSUME NEW i \in Server, taskExecutionPeriodicCallback(i) PROVE UNCHANGED promise
  BY <1>8 DEF taskExecutionPeriodicCallback
<1>9. UNCHANGED vars => UNCHANGED promise
  BY DEF vars, syncVars
<1>10. /\ \A i \in Server : Timed(i) => UNCHANGED promise
       /\ \A i \in Server : \A b \in Beat, j \in Peers(i) : leaderPeriodicPrepares(i, b, j) => UNCHANGED promise
       /\ \A m \in voteCalls : VoteDelivered(m) => UNCHANGED promise
       /\ \A m \in appendCalls : AppendDelivered(m) => UNCHANGED promise
  BY QuietSteps DEF Peers
<1> QED
  BY <1>4, <1>5, <1>6, <1>7, <1>8, <1>9, <1>10, NextSteps

LEMMA ToldSame ==
  ASSUME TypeInv, HeldInv, [Next]_vars,
         \A c \in Cmd : promise'[c] = promise[c] \/ promise'[c].state # "done"
  PROVE  Told(promise') = Told(promise)
<1>1. \A c \in Cmd : promise[c].state = "done" => promise'[c] = promise[c]
  BY DoneStays
<1> QED
  BY <1>1 DEF Told

LEMMA Stutters ==
  ASSUME UNCHANGED <<log, applied, TheLog>>, Told(promise') = Told(promise)
  PROVE  RL!vars' = RL!vars
  BY DEF RL!vars, Told
-----------------------------------------------------------------------------
(* The steps.                                                              *)
LEMMA ProgressStep ==
  ASSUME NEW t \in Seq(Cmd \cup AssignCmd), TheLog = t, TheLog' = t, NEW i \in Server,
         log \in [Server -> Seq(Entry)], log' \in [Server -> Seq(Entry)],
         applied \in [Server -> Seq(Cmd \cup AssignCmd)], applied' \in [Server -> Seq(Cmd \cup AssignCmd)],
         \A j \in Server \ {i} : log'[j] = log[j] /\ applied'[j] = applied[j],
         Content(log'[i]) = SubSeq(t, 1, Len(log'[i])),
         Len(log[i]) <= Len(log'[i]), Len(log'[i]) <= Len(t),
         applied'[i] = SubSeq(t, 1, Len(applied'[i])),
         Len(applied[i]) <= Len(applied'[i]), Len(applied'[i]) <= Len(log'[i]),
         Len(applied[i]) < Len(applied'[i]) => Spread(log', Len(applied'[i])),
         \/ Told(promise') = Told(promise)
         \/ \E k \in DOMAIN t : Spread(log', k) /\ Told(promise') = Told(promise) \cup {<<k, t[k]>>}
  PROVE  RL!Progress(i)
<1>1. /\ Len(log[i]) \in Nat /\ Len(log'[i]) \in Nat /\ Len(t) \in Nat
      /\ Len(applied[i]) \in Nat /\ Len(applied'[i]) \in Nat
  BY LenProperties
<1>2. Len(Copies(log)[i]) = Len(log[i]) /\ Len(Copies(log')[i]) = Len(log'[i])
  BY ContentTypes DEF Copies
<1>3. Copies(log') = [Copies(log) EXCEPT ![i] = SubSeq(t, 1, Len(log'[i]))]
  BY DEF Copies
<1>4. applied' = [applied EXCEPT ![i] = SubSeq(t, 1, Len(applied'[i]))]
  BY DEF Copies
<1>5. Len(log'[i]) \in Len(Copies(log)[i])..Len(t)
  BY <1>1, <1>2
<1>6. Len(applied'[i]) \in Len(applied[i])..Len(Copies(log')[i])
  BY <1>1, <1>2
<1>7. Len(applied'[i]) > Len(applied[i]) => RL!IsCommitted(Copies(log'), Len(applied'[i]))
  BY <1>1, SpreadCommits
<1>8. \/ Told(promise') = Told(promise)
      \/ \E k \in DOMAIN t : /\ RL!IsCommitted(Copies(log'), k)
                             /\ Told(promise') = Told(promise) \cup {<<k, t[k]>>}
  BY SpreadCommits
<1> QED
  BY <1>3, <1>4, <1>5, <1>6, <1>7, <1>8, Zenon DEF RL!Progress, RL!Answer, Copies, Told

(* What every step shares while l alone was elected.                       *)
LEMMA RuledLog ==
  ASSUME TypeInv, TypeInv', OneLeader', NEW l \in Server, Rules(l), [Next]_vars
  PROVE  /\ OneLeader /\ Rules(l)' /\ TheLog = Content(log[l]) /\ TheLog' = Content(log'[l])
         /\ log \in [Server -> Seq(Entry)] /\ log' \in [Server -> Seq(Entry)]
         /\ applied \in [Server -> Seq(Cmd \cup AssignCmd)] /\ applied' \in [Server -> Seq(Cmd \cup AssignCmd)]
         /\ Content(log[l]) \in Seq(Cmd \cup AssignCmd) /\ Len(Content(log[l])) = Len(log[l])
<1>1. elected \subseteq elected' /\ OneLeader /\ Rules(l)'
  BY RulesGrow DEF OneLeader, Rules
<1>2. PICK e \in elected : e[2] = l
  BY DEF Rules
<1>3. LogOf(elected, log) = Content(log[l])
  BY <1>1, <1>2, LogOfRuler DEF OneLeader
<1>4. e \in elected' /\ \A f, g \in elected' : f[2] = g[2]
  BY <1>1, <1>2 DEF OneLeader
<1>5. LogOf(elected', log') = Content(log'[l])
  BY <1>2, <1>4, LogOfRuler
<1>6. TheLog = LogOf(elected, log) /\ TheLog' = LogOf(elected', log')
  BY DEF TheLog, LogOf
<1>7. log[l] \in Seq(Entry)
  BY DEF TypeInv, TypeOK, LogTypeOK
<1> QED
  BY <1>1, <1>3, <1>5, <1>6, <1>7, ContentTypes DEF TypeInv, TypeOK, LogTypeOK

LEMMA AppendsWrite ==
  ASSUME TypeInv, TypeInv', RuleInv, HeldInv, OneLeader', NEW l \in Server, Rules(l), [Next]_vars,
         NEW i \in Server, syncWorkerAppends(i)
  PROVE  \E v \in Cmd \cup AssignCmd : RL!Write(l, v)
<1>1. OneLeader /\ TheLog = Content(log[l]) /\ TheLog' = Content(log'[l])
      /\ log \in [Server -> Seq(Entry)] /\ log' \in [Server -> Seq(Entry)]
  BY RuledLog
<1>2. /\ UNCHANGED <<applied, promise>> /\ \A j \in Server \ {l} : log'[j] = log[j]
  BY <1>1, AppendsEffect
<1>3. PICK e \in Entry : log'[l] = Append(log[l], e)
  BY <1>1, AppendsEffect
<1>4. e.cmd \in Cmd \cup AssignCmd /\ Content(log'[l]) = Append(Content(log[l]), e.cmd)
  BY <1>1, <1>3, ContentAppend
<1>5. Copies(log)[l] = TheLog /\ TheLog' = Append(TheLog, e.cmd)
  BY <1>1, <1>4 DEF Copies
<1>6. Copies(log') = [Copies(log) EXCEPT ![l] = Append(@, e.cmd)]
  BY <1>1, <1>2, <1>4 DEF Copies
<1>7. Told(promise') = Told(promise)
  BY <1>2
<1>8. RL!Write(l, e.cmd)
  BY <1>2, <1>5, <1>6, <1>7, Zenon DEF RL!Write, Copies, Told
<1> QED
  BY <1>4, <1>8
(* The master that commits tells the request the place of its entry.       *)
LEMMA CommitsTell ==
  ASSUME TypeInv, RuleInv, RoundInv, HeldInv, OneLeader, NEW l \in Server, Rules(l), StableOf(l),
         [Next]_vars, NEW i \in Server, SyncCommits(i)
  PROVE  \/ Told(promise') = Told(promise)
         \/ /\ Len(log[l]) > 0 /\ log[l][Len(log[l])].cmd \in Cmd
            /\ Told(promise') = Told(promise) \cup {<<Len(log[l]), log[l][Len(log[l])].cmd>>}
<1> DEFINE c == sync[l].cmd
           n == Len(log[l])
<1>1. /\ sync[l].busy /\ promise' = Answer(l, "done", n - 1) /\ EntryOf(log[l], c, n - 1)
      /\ n \in Nat /\ promise \in [Cmd -> Promise]
  BY CommitsEffect, LenProperties DEF TypeInv, TypeOK, LogTypeOK, SyncTypeOK
<1>2. n > 0 /\ log[l][n].cmd = c
  <2>1. (n - 1) + 1 = n
    BY <1>1
  <2>2. n > 0
    <3>1. Running(l)
      BY CommitsEffect DEF SyncCommits, RoundCounted, RoundOver
    <3>2. sync[l].logSize \in 1..Len(log[l])
      BY <1>1, <3>1 DEF TypeInv, IndicesInLog, SyncInLog
    <3> QED
      BY <1>1, <3>2
  <2> QED
    BY <1>1, <2>1, <2>2 DEF EntryOf
<1> HIDE DEF n
<1>3. CASE c \notin Cmd
  BY <1>1, <1>3 DEF Answer, Put
<1>4. CASE c \in Cmd
  <2>1. promise[c].state = "waiting"
    <3>1. Holds(l, 0, c)
      BY <1>1 DEF Holds
    <3> QED
      BY <1>4, <3>1 DEF HeldInv, HeldAlive
  <2>2. /\ promise'[c] = Answered("done", n - 1)
        /\ \A d \in Cmd \ {c} : promise'[d] = promise[d]
    BY <1>1, <1>4 DEF Answer, Put
  <2>3. promise'[c].state = "done" /\ promise'[c].jobId + 1 = n
    BY <1>1, <2>2 DEF Answered
  <2>4. Told(promise') \subseteq Told(promise) \cup {<<n, c>>}
    BY <2>2, <2>3 DEF Told
  <2>5. Told(promise) \subseteq Told(promise')
    BY <2>1, <2>2 DEF Told
  <2>6. <<n, c>> \in Told(promise')
    BY <1>4, <2>3 DEF Told
  <2>7. Told(promise') = Told(promise) \cup {<<n, c>>}
    BY <2>4, <2>5, <2>6
  <2> QED
    BY <1>2, <1>4, <2>7 DEF n
<1> QED
  BY <1>3, <1>4

LEMMA CommitsProgress ==
  ASSUME TypeInv, TypeInv', RuleInv, RoundInv, HeldInv, OneLeader', NEW l \in Server, Rules(l), StableOf(l),
         [Next]_vars, NEW i \in Server, SyncCommits(i)
  PROVE  RL!Progress(l)
<1> DEFINE t == Content(log[l])
           n == Len(log[l])
<1>1. /\ OneLeader /\ TheLog = t /\ TheLog' = Content(log'[l])
      /\ log \in [Server -> Seq(Entry)] /\ log' \in [Server -> Seq(Entry)]
      /\ applied \in [Server -> Seq(Cmd \cup AssignCmd)] /\ applied' \in [Server -> Seq(Cmd \cup AssignCmd)]
      /\ t \in Seq(Cmd \cup AssignCmd) /\ Len(t) = n
  BY RuledLog
<1>2. /\ log' = log /\ Spread(log, n) /\ \A j \in Server \ {l} : applied'[j] = applied[j]
      /\ Len(applied'[l]) = n /\ \A k \in 1..n : applied'[l][k] = log[l][k].cmd
  BY <1>1, CommitsEffect
<1>3. n \in Nat /\ Len(applied[l]) <= n /\ n <= n
  BY <1>1, LenProperties DEF StableOf, AppliedFollow
<1>4. t = SubSeq(t, 1, n)
  <2>1. \A k \in 1..Len(t) : t[k] = log[l][k].cmd
    BY <1>1, ContentTypes
  <2> QED
    BY <1>1, <1>3, <2>1, FollowsContent
<1>5. applied'[l] = SubSeq(t, 1, n)
  <2>1. /\ applied'[l] \in Seq(Cmd \cup AssignCmd) /\ log[l] \in Seq(Entry)
        /\ Len(applied'[l]) <= Len(log[l])
        /\ \A k \in 1..Len(applied'[l]) : applied'[l][k] = log[l][k].cmd
    BY <1>1, <1>2, <1>3
  <2>2. applied'[l] = SubSeq(t, 1, Len(applied'[l]))
    BY <2>1, FollowsContent
  <2> QED
    BY <1>2, <2>2
<1>6. \/ Told(promise') = Told(promise)
      \/ \E k \in DOMAIN t : Spread(log, k) /\ Told(promise') = Told(promise) \cup {<<k, t[k]>>}
  <2>1. DOMAIN t = 1..n
    BY <1>1, LenProperties
  <2>2. \A k \in 1..n : t[k] = log[l][k].cmd
    BY <1>1, ContentTypes
  <2>3. n > 0 => n \in DOMAIN t /\ t[n] = log[l][n].cmd
    BY <1>3, <2>1, <2>2
  <2> QED
    BY <1>1, <1>2, <2>3, CommitsTell
<1> HIDE DEF t, n
<1>7. TheLog' = t
  BY <1>1, <1>2 DEF t
<1>8. Content(log'[l]) = t /\ Len(log'[l]) = n /\ Len(log[l]) = n
  BY <1>2 DEF t, n
<1> QED
  BY <1>1, <1>2, <1>3, <1>4, <1>5, <1>6, <1>7, <1>8, ProgressStep

LEMMA AcceptedProgress ==
  ASSUME TypeInv, TypeInv', RuleInv, RoundInv, OneLeader', NEW l \in Server, Rules(l), StableOf(l),
         CommitOf(l)', [Next]_vars, NEW m \in appendCalls, AppendAccepted(m)
  PROVE  m.to \in Server /\ RL!Progress(m.to)
<1> DEFINE t == Content(log[l])
           i == m.to
<1>1. /\ OneLeader /\ TheLog = t /\ TheLog' = Content(log'[l])
      /\ log \in [Server -> Seq(Entry)] /\ log' \in [Server -> Seq(Entry)]
      /\ applied \in [Server -> Seq(Cmd \cup AssignCmd)] /\ applied' \in [Server -> Seq(Cmd \cup AssignCmd)]
      /\ t \in Seq(Cmd \cup AssignCmd) /\ Len(t) = Len(log[l]) /\ log[l] \in Seq(Entry)
  BY RuledLog
<1>2. /\ i \in Server /\ i # l /\ promise' = promise /\ m.leaderCommit \in Nat
      /\ \A j \in Server \ {i} : log'[j] = log[j] /\ applied'[j] = applied[j]
      /\ Begins(log'[i], log[l]) /\ Len(log[i]) <= Len(log'[i])
      /\ Len(applied[i]) <= Len(applied'[i])
      /\ Len(applied'[i]) = MinOf(m.leaderCommit, Len(log'[i]))
      /\ \A k \in 1..Len(applied'[i]) : applied'[i][k] = log[l][k].cmd
  BY <1>1, AcceptedEffect DEF AppendCall
<1> HIDE DEF i
<1>3. /\ Len(log'[i]) \in Nat /\ Len(applied'[i]) \in Nat /\ Len(applied[i]) \in Nat /\ Len(log[l]) \in Nat
      /\ log'[i] \in Seq(Entry) /\ applied'[i] \in Seq(Cmd \cup AssignCmd)
  BY <1>1, <1>2, LenProperties
<1>4. Len(applied'[i]) <= Len(log'[i])
  BY <1>2, <1>3 DEF MinOf
<1>5. Len(log'[i]) <= Len(log[l]) /\ \A k \in 1..Len(log'[i]) : log'[i][k] = log[l][k]
  BY <1>2 DEF Begins
<1>6. Content(log'[i]) = SubSeq(t, 1, Len(log'[i]))
  <2>1. /\ Content(log'[i]) \in Seq(Cmd \cup AssignCmd) /\ Len(Content(log'[i])) = Len(log'[i])
        /\ \A k \in 1..Len(log'[i]) : Content(log'[i])[k] = log'[i][k].cmd
    BY <1>3, ContentTypes
  <2>2. \A k \in 1..Len(log'[i]) : Content(log'[i])[k] = log[l][k].cmd
    BY <1>5, <2>1
  <2> QED
    BY <1>1, <1>5, <2>1, <2>2, FollowsContent
<1>7. applied'[i] = SubSeq(t, 1, Len(applied'[i]))
  <2>1. Len(applied'[i]) <= Len(log[l])
    BY <1>3, <1>4, <1>5
  <2> QED
    BY <1>1, <1>2, <1>3, <2>1, FollowsContent
<1>8. Len(applied[i]) < Len(applied'[i]) => Spread(log', Len(applied'[i]))
  <2>1. Len(applied[i]) < Len(applied'[i]) => Len(applied'[i]) > 0
    BY <1>3
  <2> QED
    BY <1>2, <2>1 DEF CommitOf
<1>9. Told(promise') = Told(promise)
  BY <1>2
<1>10. TheLog' = t
  BY <1>1, <1>2
<1> HIDE DEF t
<1>11. RL!Progress(i)
  BY <1>1, <1>2, <1>4, <1>5, <1>6, <1>7, <1>8, <1>9, <1>10, ProgressStep
<1> QED
  BY <1>2, <1>11 DEF i

LEMMA LogStep ==
  ASSUME Cardinality(Server) <= 3, TypeInv, TypeInv', RuleInv, RoundInv, StableInv, CommitInv', HeldInv,
         OneLeader', [Next]_vars
  PROVE  [RL!Next]_(RL!vars)
<1> SUFFICES \/ \E i \in Server : RL!Progress(i) \/ \E v \in Cmd \cup AssignCmd : RL!Write(i, v)
             \/ RL!vars' = RL!vars
  BY DEF RL!Next, RL!vars
<1>1. ASSUME UNCHANGED <<log, applied, TheLog>>,
             \A c \in Cmd : promise'[c] = promise[c] \/ promise'[c].state # "done"
      PROVE  RL!vars' = RL!vars
  BY <1>1, ToldSame, Stutters
<1>2. CASE elected = {}
  <2>1. Quiet /\ \A i \in Server : log[i] = <<>>
    BY <1>2, NothingYet DEF StableInv, Before
  <2>2. Content(<<>>) = <<>>
    BY DEF Content
  <2>3. TheLog = <<>>
    BY <1>2 DEF TheLog
  <2>4. elected' = {} => TheLog' = <<>>
    BY DEF TheLog
  <2>5. elected' # {} => TheLog' = <<>>
    <3> SUFFICES ASSUME elected' # {} PROVE LogOf(elected', log') = <<>>
      BY DEF TheLog, LogOf
    <3>1. PICK e \in elected' : TRUE
      OBVIOUS
    <3>2. e[2] \in Server /\ \A f, g \in elected' : f[2] = g[2]
      BY <3>1 DEF TypeInv, TypeOK, ElectTypeOK, OneLeader
    <3>3. LogOf(elected', log') = Content(log'[e[2]])
      BY <3>2, LogOfRuler
    <3> QED
      BY <2>1, <2>2, <3>2, <3>3 DEF Quiet
  <2> QED
    BY <1>1, <2>1, <2>3, <2>4, <2>5 DEF Quiet
<1>3. CASE elected # {}
  <2>1. PICK l \in Server : Rules(l)
    BY <1>3 DEF Rules, TypeInv, TypeOK, ElectTypeOK
  <2>2. OneLeader /\ Rules(l)' /\ TheLog = Content(log[l]) /\ TheLog' = Content(log'[l])
    BY <2>1, RuledLog
  <2>3. StableOf(l) /\ CommitOf(l)'
    BY <2>1, <2>2 DEF StableInv, CommitInv
  <2>4. CASE Quiet
    BY <1>1, <2>2, <2>4 DEF Quiet
  <2>5. ASSUME NEW i \in Server, syncWorkerAppends(i)
        PROVE  \E v \in Cmd \cup AssignCmd : RL!Write(l, v)
    BY <2>1, <2>5, AppendsWrite
  <2>6. ASSUME NEW i \in Server, SyncCommits(i) PROVE RL!Progress(l)
    BY <2>1, <2>3, <2>6, CommitsProgress
  <2>7. ASSUME NEW i \in Server, SyncRetries(i) PROVE RL!vars' = RL!vars
    <3>1. UNCHANGED <<log, applied, promise>>
      BY <2>7 DEF SyncRetries, logVars
    <3> QED
      BY <1>1, <2>2, <3>1
  <2>8. ASSUME NEW i \in Server, NEW b \in Beat, NEW j \in Peers(i), leaderPeriodicPrepares(i, b, j)
        PROVE  RL!vars' = RL!vars
    <3>1. UNCHANGED <<log, applied, promise>>
      BY <2>8 DEF leaderPeriodicPrepares, logVars, syncVars
    <3> QED
      BY <1>1, <2>2, <3>1
  <2>9. ASSUME NEW m \in appendCalls, AppendAccepted(m) PROVE \E i \in Server : RL!Progress(i)
    BY <2>1, <2>3, <2>9, AcceptedProgress
  <2> QED
    BY <2>1, <2>4, <2>5, <2>6, <2>7, <2>8, <2>9, QuietOrNot
<1> QED
  BY <1>2, <1>3

LEMMA LogStart == ASSUME Init PROVE RL!Init
<1>1. Content(<<>>) = <<>>
  BY DEF Content
<1>2. TheLog = <<>> /\ \A i \in Server : Content(log[i]) = <<>>
  BY <1>1 DEF Init, TheLog
<1>3. {x \in Cmd : promise[x].state = "done"} = {}
  BY DEF Init, Answered
<1> QED
  BY <1>2, <1>3 DEF RL!Init, Init

LEMMA CommitInvariant == ASSUME Cardinality(Server) <= 3 PROVE Spec => [](CommitInv /\ HeldInv)
<1>1. Init => CommitInv
  BY DEF Init, CommitInv, Rules
<1>2. Init => HeldInv
  BY EmptySeq DEF Init, HeldInv, HeldAlive, HeldOnce, HeldSomewhere, Holds, NoSync, Answered
<1>3. TypeInv /\ RuleInv /\ RoundInv /\ StableInv /\ CommitInv /\ HeldInv /\ [Next]_vars
        => CommitInv' /\ HeldInv'
  BY NextCommitInv, NextHeldInv
<1> QED
  BY <1>1, <1>2, <1>3, StableInvariant, TypeInvariant, PTL DEF Spec

(* Up to three masters implement ReplicatedLog until a second one is       *)
(* elected: every append, commit and answer is a step on the one log of    *)
(* the leader.  appendEntries and commitUpTo take leader_commit on trust,  *)
(* which two masters out of three can and two out of four could not.       *)
THEOREM LogUnderOneLeader ==
  ASSUME Cardinality(Server) <= 3 PROVE Spec /\ []OneLeader => LogImplemented
<1>1. Init => RL!Init
  BY LogStart
<1>2. TypeInv /\ TypeInv' /\ RuleInv /\ RoundInv /\ StableInv /\ (CommitInv /\ HeldInv)
        /\ (CommitInv /\ HeldInv)' /\ OneLeader' /\ [Next]_vars => [RL!Next]_(RL!vars)
  BY LogStep
<1> QED
  BY <1>1, <1>2, TypeInvariant, StableInvariant, CommitInvariant, PTL DEF Spec, LogImplemented, RL!Spec

(* So in the first term they implement it without a condition.             *)
THEOREM LogInFirstTerm ==
  ASSUME Cardinality(Server) <= 3, MaxTerm <= 1 PROVE Spec => LogImplemented
  BY OneLeaderInOneTerm, LogUnderOneLeader, PTL
===============================================================================
