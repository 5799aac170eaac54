------------------------------ MODULE Deadliner ------------------------------
(***************************************************************************)
(* One utility::Deadliner with its clock and its notifier threads.  Others *)
(* call setDeadline at any time, also from the task itself.                *)
(*                                                                         *)
(* Only differences of times matter, so the clock is left out: remaining   *)
(* is deadline_ minus the time of the moment, and Tick is one unit of time *)
(* going by.  A critical section of mux_ is one step.                      *)
(***************************************************************************)
EXTENDS Integers, FiniteSets

CONSTANTS
  Thread,    \* notifier threads that live at once (a bound)
  MaxDelay   \* bound: the longest delay set

ASSUME ThreadAssumption == IsFiniteSet(Thread)
ASSUME DelayAssumption == MaxDelay \in Nat \ {0}

Delay == 1..MaxDelay

VARIABLES
  pending,     \* pending_
  remaining,   \* deadline_ - now; -1 once it is in the past
  thread       \* where each notifyThread is, and how long it still sleeps

vars == <<pending, remaining, thread>>

(* "new" has not taken the lock yet, "drowsy" has let go of it to sleep,   *)
(* "calling" has let go of it to call the task.                            *)
ThreadState ==
  [at : {"none", "new", "drowsy", "asleep", "calling"}, left : 0..MaxDelay]
NoThread == [at |-> "none", left |-> 0]
NewThread == [at |-> "new", left |-> 0]

(* No thread ever sleeps longer than the longest delay that was set: the   *)
(* difference of two unsigned times is only taken when it is not negative. *)
TypeOK ==
  /\ pending \in BOOLEAN
  /\ remaining \in -1..MaxDelay
  /\ thread \in [Thread -> ThreadState]

Init ==
  /\ pending = FALSE
  /\ remaining = -1
  /\ thread = [n \in Thread |-> NoThread]

-----------------------------------------------------------------------------
(* Faulty variant: every call starts a thread.                             *)
NeedsThread_Always == TRUE

(* setDeadline starts a thread if none waits for the deadline.             *)
NeedsThread == ~pending

setDeadline(millisecond) ==
  /\ remaining' = millisecond
  /\ IF NeedsThread
     THEN /\ pending' = TRUE
          /\ \E n \in Thread : thread[n].at = "none" /\ thread' = [thread EXCEPT ![n] = NewThread]
     ELSE UNCHANGED <<pending, thread>>

(* notifyThread takes the lock: at its start, and after each sleep.        *)
Awake(n) == thread[n].at = "new" \/ (thread[n].at = "asleep" /\ thread[n].left = 0)

(* Faulty variants: the test before the unsigned subtraction is missing; a *)
(* thread that slept takes the deadline for reached.                       *)
durationDiff_Unsigned(n) == remaining % 256
durationDiff_Once(n) == IF thread[n].at = "asleep" \/ remaining < 0 THEN 0 ELSE remaining

durationDiff(n) == IF remaining < 0 THEN 0 ELSE remaining

(* Faulty variant: the flag stays set.                                     *)
StillPending_Kept == TRUE

(* pending_ after the deadline was found reached.                          *)
StillPending == FALSE

Expires(n) ==
  /\ Awake(n) /\ durationDiff(n) = 0
  /\ pending' = StillPending
  /\ thread' = [thread EXCEPT ![n] = [at |-> "calling", left |-> 0]]
  /\ UNCHANGED remaining

GoesToSleep(n) ==
  /\ Awake(n) /\ durationDiff(n) # 0
  /\ thread' = [thread EXCEPT ![n] = [at |-> "drowsy", left |-> durationDiff(n)]]
  /\ UNCHANGED <<pending, remaining>>

(* sleep_for begins when the lock is gone: time may have passed meanwhile. *)
Sleeps(n) ==
  /\ thread[n].at = "drowsy"
  /\ thread' = [thread EXCEPT ![n].at = "asleep"]
  /\ UNCHANGED <<pending, remaining>>

(* The task is called; the thread ends with it.                            *)
CallsTask(n) ==
  /\ thread[n].at = "calling"
  /\ thread' = [thread EXCEPT ![n] = NoThread]
  /\ UNCHANGED <<pending, remaining>>

notifyThread(n) == Expires(n) \/ GoesToSleep(n) \/ Sleeps(n) \/ CallsTask(n)

Sleeping(n) == thread[n].at = "asleep" /\ thread[n].left > 0

Tick ==
  /\ remaining >= 0 \/ \E n \in Thread : Sleeping(n)
  /\ remaining' = IF remaining >= 0 THEN remaining - 1 ELSE remaining
  /\ thread' = [n \in Thread |-> IF Sleeping(n) THEN [thread[n] EXCEPT !.left = @ - 1] ELSE thread[n]]
  /\ UNCHANGED pending

Next ==
  \/ \E d \in Delay : setDeadline(d)
  \/ \E n \in Thread : notifyThread(n)
  \/ Tick

Spec == Init /\ [][Next]_vars

(* Time goes on and a thread that can run does; nobody has to call.        *)
Fairness == WF_vars(Tick) /\ \A n \in Thread : WF_vars(notifyThread(n))
FairSpec == Spec /\ Fairness

-----------------------------------------------------------------------------
(* Properties.                                                             *)

(* pending_ says whether a thread waits for the deadline, and it is one    *)
(* thread.  With none, setDeadline would leave the timer dead for ever;    *)
(* with two, one deadline would call the task twice.                       *)
Waiters == {n \in Thread : thread[n].at \in {"new", "drowsy", "asleep"}}
OneWaiter == IF pending THEN \E n \in Thread : Waiters = {n} ELSE Waiters = {}

(* A deadline that is moved while its thread sleeps counts from then on:   *)
(* the timer does not expire before it.  (It may expire long after: a      *)
(* thread is not woken when the deadline moves closer.)                    *)
NotEarly == [][pending /\ ~pending' => remaining <= 0]_vars

(* When nobody moves the deadline any more it expires, wherever it was     *)
(* moved while the thread slept.                                           *)
Expiring == <>[](remaining <= 0) => <>[]~pending

(* Seen without its clock, this is the timer RaftState uses.               *)
Callers == {n \in Thread : thread[n].at = "calling"}
AsTimer == [pending |-> pending, due |-> Cardinality(Callers)]
T == INSTANCE TimerSpec WITH timer <- AsTimer
ImplementsTimer == T!Spec
=============================================================================
