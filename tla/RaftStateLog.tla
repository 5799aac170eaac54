---------------------------- MODULE RaftStateLog ----------------------------
(***************************************************************************)
(* While only the first leader was elected (MaxTerm = 1), the masters of   *)
(* RaftState implement ReplicatedLog: the log is that of the leader.       *)
(***************************************************************************)
EXTENDS RaftState

TheLog ==
  IF elected = {} THEN <<>> ELSE Content(log[CHOOSE i \in Server : \E e \in elected : e[2] = i])

RL == INSTANCE ReplicatedLog WITH
  Value <- Cmd \cup AssignCmd,
  log <- TheLog,
  copy <- [i \in Server |-> Content(log[i])],
  answered <- {<<promise[c].jobId + 1, c>> : c \in {x \in Cmd : promise[x].state = "done"}}

(* Whatever the order of rounds, heartbeats, failures and crashes, the     *)
(* masters of a stable term share one log, apply it in its order and only  *)
(* what a majority has, and answer a request with the index that names it. *)
LogImplemented == RL!Spec
=============================================================================
