--------------------------- MODULE DeadlinerProofs ---------------------------
(***************************************************************************)
(* Proofs about Deadliner, for any number of notifier threads and any      *)
(* delays: its types, that one thread waits while the timer is pending,    *)
(* that a deadline moved in time is kept, and that the clock and the       *)
(* threads implement the timer that RaftState uses (TimerSpec).            *)
(***************************************************************************)
EXTENDS Deadliner, FiniteSetTheorems, TLAPS

(* A thread that does not sleep has nothing left to sleep.                 *)
LEMMA Awakes == \A at \in {"none", "new", "calling"} : [at |-> at, left |-> 0] \in ThreadState
<1>1. 0 \in 0..MaxDelay
  BY DelayAssumption
<1> QED
  BY <1>1 DEF ThreadState

(* The threads and their sleeps stay in range.                             *)
THEOREM DeadlinerTypes == Spec => []TypeOK
<1>1. Init => TypeOK
  <2>1. -1 \in -1..MaxDelay
    BY DelayAssumption
  <2>2. NoThread \in ThreadState
    BY Awakes DEF NoThread
  <2> QED
    BY <2>1, <2>2 DEF Init, TypeOK
<1>2. TypeOK /\ [Next]_vars => TypeOK'
  <2> SUFFICES ASSUME TypeOK, [Next]_vars PROVE TypeOK'
    OBVIOUS
  <2> USE DelayAssumption DEF TypeOK
  <2>1. ASSUME NEW d \in Delay, setDeadline(d) PROVE TypeOK'
    <3>1. remaining' \in -1..MaxDelay
      BY <2>1 DEF setDeadline, Delay
    <3>2. pending' \in BOOLEAN /\ thread' \in [Thread -> ThreadState]
      BY <2>1, Awakes DEF setDeadline, NewThread
    <3> QED
      BY <3>1, <3>2
  <2>2. ASSUME NEW n \in Thread, notifyThread(n) PROVE TypeOK'
    <3>1. CASE Expires(n)
      BY <3>1, Awakes DEF Expires, StillPending
    <3>2. CASE GoesToSleep(n)
      BY <3>2 DEF GoesToSleep, durationDiff, ThreadState
    <3>3. CASE Sleeps(n)
      BY <3>3 DEF Sleeps, ThreadState
    <3>4. CASE CallsTask(n)
      BY <3>4, Awakes DEF CallsTask, NoThread
    <3> QED
      BY <2>2, <3>1, <3>2, <3>3, <3>4 DEF notifyThread
  <2>3. CASE Tick
    BY <2>3 DEF Tick, Sleeping, ThreadState
  <2>4. CASE UNCHANGED vars
    BY <2>4 DEF vars
  <2> QED
    BY <2>1, <2>2, <2>3, <2>4 DEF Next
<1> QED
  BY <1>1, <1>2, PTL DEF Spec

(* A step of a thread that does not expire leaves the waiters as they are, *)
(* and so does the clock.                                                  *)
LEMMA WaitersKept ==
  ASSUME TypeOK,
         \/ Tick \/ UNCHANGED vars
         \/ \E n \in Thread : GoesToSleep(n) \/ Sleeps(n) \/ CallsTask(n)
  PROVE  pending' = pending /\ Waiters' = Waiters
<1>1. CASE Tick
  BY <1>1 DEF TypeOK, ThreadState, Tick, Sleeping, Waiters
<1>2. CASE UNCHANGED vars
  BY <1>2 DEF vars, Waiters
<1>3. ASSUME NEW n \in Thread, GoesToSleep(n) \/ Sleeps(n) \/ CallsTask(n)
      PROVE  pending' = pending /\ Waiters' = Waiters
  BY <1>3 DEF TypeOK, ThreadState, GoesToSleep, Sleeps, CallsTask, Awake, NoThread, Waiters
<1> QED
  BY <1>1, <1>2, <1>3

LEMMA OneWaiterStep == ASSUME TypeOK, OneWaiter, [Next]_vars PROVE OneWaiter'
<1>1. ASSUME NEW d \in Delay, setDeadline(d) PROVE OneWaiter'
  <2>1. CASE pending
    BY <1>1, <2>1 DEF setDeadline, NeedsThread, OneWaiter, Waiters
  <2>2. CASE ~pending
    <3>1. PICK n \in Thread : thread[n].at = "none" /\ thread' = [thread EXCEPT ![n] = NewThread]
      BY <1>1, <2>2 DEF setDeadline, NeedsThread
    <3>2. Waiters = {} /\ pending'
      BY <1>1, <2>2 DEF OneWaiter, setDeadline, NeedsThread
    <3>3. Waiters' = {n}
      BY <3>1, <3>2 DEF Waiters, NewThread, TypeOK, ThreadState
    <3> QED
      BY <3>2, <3>3 DEF OneWaiter
  <2> QED
    BY <2>1, <2>2 DEF TypeOK
<1>2. ASSUME NEW n \in Thread, Expires(n) PROVE OneWaiter'
  <2>1. n \in Waiters
    BY <1>2 DEF Expires, Awake, Waiters
  <2>2. Waiters = {n}
    BY <2>1 DEF OneWaiter
  <2>3. Waiters' = {} /\ ~pending'
    BY <1>2, <2>2 DEF Expires, StillPending, Waiters, TypeOK, ThreadState
  <2> QED
    BY <2>3 DEF OneWaiter
<1>3. ASSUME Tick \/ UNCHANGED vars \/ \E n \in Thread : GoesToSleep(n) \/ Sleeps(n) \/ CallsTask(n)
      PROVE  OneWaiter'
  BY <1>3, WaitersKept DEF OneWaiter
<1> QED
  BY <1>1, <1>2, <1>3 DEF Next, notifyThread

(* pending_ is true exactly while one thread waits: no timer is left dead, *)
(* none expires twice.                                                     *)
THEOREM PendingHasOneWaiter == Spec => []OneWaiter
<1>1. Init => OneWaiter
  BY DEF Init, OneWaiter, Waiters, NoThread
<1>2. TypeOK /\ OneWaiter /\ [Next]_vars => OneWaiter'
  BY OneWaiterStep
<1> QED
  BY <1>1, <1>2, DeadlinerTypes, PTL DEF Spec

(* A deadline that was moved before it passed is kept: a heartbeat in time *)
(* does postpone the election.                                             *)
THEOREM DeadlinesKept == Spec => NotEarly
<1>1. TypeOK /\ [Next]_vars => [pending /\ ~pending' => remaining <= 0]_vars
  BY DEF TypeOK, Next, vars, setDeadline, NeedsThread, notifyThread, Expires, durationDiff,
         GoesToSleep, Sleeps, CallsTask, Tick
<1> QED
  BY <1>1, DeadlinerTypes, PTL DEF Spec, NotEarly

-----------------------------------------------------------------------------
(* The refinement.                                                         *)

(* Threads about to call their task are counted as they come and go.       *)
LEMMA CallersFinite == IsFiniteSet(Callers) /\ Cardinality(Callers) \in Nat
  BY ThreadAssumption, FS_Subset, FS_CardinalityType DEF Callers

LEMMA CallerComes ==
  ASSUME NEW n \in Thread, n \notin Callers, Callers' = Callers \cup {n}
  PROVE  Cardinality(Callers)' = Cardinality(Callers) + 1
BY CallersFinite, FS_AddElement

LEMMA CallerGoes ==
  ASSUME NEW n \in Thread, n \in Callers, Callers' = Callers \ {n}
  PROVE  Cardinality(Callers)' = Cardinality(Callers) - 1 /\ Cardinality(Callers) > 0
<1>1. Cardinality(Callers)' = Cardinality(Callers) - 1
  BY CallersFinite, FS_RemoveElement
<1>2. Cardinality(Callers) # 0
  BY CallersFinite, FS_EmptySet
<1> QED
  BY <1>1, <1>2, CallersFinite

(* Every step of the timer with its clock is a step of the timer without.  *)
LEMMA TimerStep == ASSUME TypeOK, OneWaiter, [Next]_vars PROVE [T!Next]_AsTimer
<1> USE DEF T!Next, T!Set, T!Expire, T!Call, T!SetDeadline, T!Expired, T!Called, AsTimer
<1>1. ASSUME NEW d \in Delay, setDeadline(d) PROVE T!Next
  <2>1. pending'
    BY <1>1 DEF setDeadline, NeedsThread
  <2>2. Callers' = Callers
    BY <1>1 DEF setDeadline, NewThread, Callers, TypeOK, ThreadState
  <2> QED
    BY <2>1, <2>2, Zenon DEF TypeOK
<1>2. ASSUME NEW n \in Thread, Expires(n) PROVE T!Next
  <2>1. pending /\ ~pending'
    BY <1>2 DEF Expires, StillPending, Awake, OneWaiter, Waiters
  <2>2. n \notin Callers /\ Callers' = Callers \cup {n}
    BY <1>2 DEF Expires, Awake, Callers, TypeOK, ThreadState
  <2>3. AsTimer' = [pending |-> FALSE, due |-> AsTimer.due + 1] /\ AsTimer.pending
    <3>1. Cardinality(Callers)' = Cardinality(Callers) + 1
      BY <2>2, CallerComes
    <3>2. pending = TRUE /\ pending' = FALSE
      BY <1>2, <2>1 DEF TypeOK, Expires, StillPending
    <3> QED
      BY <3>1, <3>2, Zenon
  <2> QED
    BY <2>3
<1>3. ASSUME NEW n \in Thread, CallsTask(n) PROVE T!Next
  <2>1. pending' = pending
    BY <1>3 DEF CallsTask
  <2>2. n \in Callers /\ Callers' = Callers \ {n}
    BY <1>3 DEF CallsTask, NoThread, Callers, TypeOK, ThreadState
  <2>3. AsTimer' \in {[pending |-> AsTimer.pending, due |-> AsTimer.due - 1]} /\ AsTimer.due > 0
    BY <2>1, <2>2, CallerGoes
  <2> QED
    BY <2>3
<1>4. ASSUME \/ Tick \/ UNCHANGED vars
             \/ \E n \in Thread : GoesToSleep(n) \/ Sleeps(n)
      PROVE  UNCHANGED AsTimer
  <2>1. pending' = pending
    BY <1>4 DEF Tick, vars, GoesToSleep, Sleeps
  <2>2. Callers' = Callers
    BY <1>4 DEF Tick, vars, GoesToSleep, Sleeps, Awake, Sleeping, Callers, TypeOK, ThreadState
  <2> QED
    BY <2>1, <2>2
<1> QED
  BY <1>1, <1>2, <1>3, <1>4 DEF Next, notifyThread

(* The clock and the threads of Deadliner do what RaftState takes a timer  *)
(* to do.                                                                  *)
THEOREM DeadlinerImplementsTimer == Spec => ImplementsTimer
<1>1. Init => T!Init
  <2> SUFFICES ASSUME Init PROVE T!Init
    OBVIOUS
  <2>1. Callers = {}
    BY DEF Init, Callers, NoThread
  <2> QED
    BY <2>1, FS_EmptySet DEF Init, T!Init, T!NewTimer, AsTimer
<1>2. TypeOK /\ OneWaiter /\ [Next]_vars => [T!Next]_AsTimer
  BY TimerStep
<1> QED
  BY <1>1, <1>2, DeadlinerTypes, PendingHasOneWaiter, PTL DEF Spec, ImplementsTimer, T!Spec
=============================================================================
