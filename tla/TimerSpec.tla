------------------------------ MODULE TimerSpec ------------------------------
(***************************************************************************)
(* What a utility::Deadliner promises, as a specification of its own: the  *)
(* operators of Timer are the only steps a timer takes.  RaftState uses    *)
(* those operators, Deadliner implements this specification.               *)
(***************************************************************************)
EXTENDS Timer

VARIABLE timer

Init == timer = NewTimer

Set == timer' = SetDeadline(timer)
Expire == timer.pending /\ timer' = Expired(timer)
Call == timer' \in Called(timer)

Next == Set \/ Expire \/ Call

Spec == Init /\ [][Next]_timer
=============================================================================
