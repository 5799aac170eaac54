----------------------------- MODULE MCRaftState -----------------------------
(***************************************************************************)
(* RaftState for TLC: symmetry, the properties that a comment or assertion *)
(* of the code states and the code does not keep, and a schedule for the   *)
(* longest of the counterexamples.                                         *)
(***************************************************************************)
EXTENDS RaftStateLog, TLC

(* Masters differ in nothing but their port.                               *)
Symmetry == Permutations(Server)

(* Which threads may be between their expiry and their call: those of a    *)
(* follower's timer, whose late call can meet a re-armed one, in term 1.   *)
LateFollowerInTermOne ==
  \A i \in Server :
    /\ follower_timeout[i].due > 0 => current_term[i] = 1
    /\ candidate_timeout[i].due + leader_periodic[i].due + task_execution_periodic[i].due = 0

(* RaftState.cc:368, assert(role_ == RaftRole::RAFT_FOLLOWER): the timer   *)
(* of a follower is called only while the master is one.                   *)
FollowerTimerFindsFollower == \A i \in Server : status[i] # "assert_follower"

(* RaftState.cc:105, assert(commit_index_ <= endIndex): a commit index     *)
(* never arrives that is behind the one a master has.                      *)
CommitIndexNeverBehind == \A i \in Server : status[i] # "assert_commit"

(* RaftState.h:210, "Return {true, job_id} on successful submission,       *)
(* {false, _} otherwise": what was answered false is not applied.          *)
FailedNotApplied ==
  \A c \in Cmd : promise[c].state = "failed" =>
    \A i \in Server : Running(i) => \A k \in DOMAIN applied[i] : applied[i][k] # c

(* One election at a time, each started by a master that lost the last     *)
(* one, the third by the winner of the first; no vote is lost.             *)
BackAndForth ==
  /\ Cardinality(electing) <= 1
  /\ \A e \in electing :
       /\ e[2] > 1 => \E x \in elected : x[1] = e[2] - 1 /\ x[2] # e[1]
       /\ e[2] = 3 => <<1, e[1]>> \in elected
  /\ \A r \in voteReplies : r.replyTerm > 0
=============================================================================
