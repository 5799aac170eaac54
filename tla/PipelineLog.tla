----------------------------- MODULE PipelineLog -----------------------------
(***************************************************************************)
(* What Pipeline takes from RaftState is what ReplicatedLog promises: the  *)
(* log is what rounds were started for.                                    *)
(***************************************************************************)
EXTENDS Pipeline

RL == INSTANCE ReplicatedLog WITH
  Server <- Master,
  Value <- Entry,
  log <- SubSeq(log, 1, logSize),
  copy <- [i \in Master |-> SubSeq(log, 1, held[i])],
  applied <- [i \in Master |-> SubSeq(log, 1, applied[i])],
  answered <- {<<client[c].at, SubmitTaskLog>> :
                 c \in {x \in Client : client[x].state = "submitted"}}

(* Though rounds fail and leave their entries in the log, and each round   *)
(* announces all entries before its own, masters apply only what a         *)
(* majority has, and a client is told only the id of such an entry.        *)
LogImplemented == RL!Spec
=============================================================================
