-------------------------------- MODULE Timer --------------------------------
(***************************************************************************)
(* What the rest of the program sees of one utility::Deadliner once time   *)
(* is left out: the deadline is some moment after it was set, so a pending *)
(* timer may expire at any step.                                           *)
(*                                                                         *)
(*   pending   pending_: a notifier thread waits for the deadline          *)
(*   due       how many notifier threads have cleared pending_, released   *)
(*             the timer's mutex and are about to call the task            *)
(*                                                                         *)
(* Expiry and the call of the task are two steps of notifyThread with no   *)
(* lock held in between; a setDeadline that falls there starts a second    *)
(* notifier thread and does not stop the first.                            *)
(***************************************************************************)
EXTENDS Naturals

TimerState == [pending : BOOLEAN, due : Nat]

(* The constructor: nothing pending, the first notifier thread is a no-op. *)
NewTimer == [pending |-> FALSE, due |-> 0]

(* Deadliner::setDeadline: starts a notifier thread unless one is pending, *)
(* in which case only the deadline moves.                                  *)
SetDeadline(t) == [pending |-> TRUE, due |-> t.due]

(* notifyThread finds the deadline passed, clears pending_ and lets go of  *)
(* the timer's mutex; it has not called the task yet.                      *)
Expired(t) == [pending |-> FALSE, due |-> t.due + 1]

(* The task is called by a thread that expired earlier, or by one that     *)
(* expires and calls it with nothing in between: the timer as the task     *)
(* finds it, one value for each of the two.                                *)
Called(t) ==
  (IF t.due > 0 THEN {[pending |-> t.pending, due |-> t.due - 1]} ELSE {})
  \cup (IF t.pending THEN {[pending |-> FALSE, due |-> t.due]} ELSE {})
=============================================================================
