---------------------------- MODULE ReplicatedLog ----------------------------
(***************************************************************************)
(* What the masters promise the schedule while one of them leads: one log  *)
(* that only grows, of which every master has a prefix.  An entry is       *)
(* applied, or its request answered, only when a majority has it, and      *)
(* entries are applied in the order of the log, each once.                 *)
(***************************************************************************)
EXTENDS Naturals, Sequences, FiniteSets

CONSTANTS
  Server,
  Value      \* what an entry may hold

VARIABLES
  log,
  copy,      \* the prefix each master has
  applied,   \* the prefix each master has applied
  answered   \* <<k, v>>: a request v was told that it is entry k

vars == <<log, copy, applied, answered>>

Init ==
  /\ log = <<>>
  /\ copy = [i \in Server |-> <<>>]
  /\ applied = [i \in Server |-> <<>>]
  /\ answered = {}

(* How much of the log a majority has.                                     *)
Holders(copies, n) == {i \in Server : Len(copies[i]) >= n}
IsCommitted(copies, n) == 2 * Cardinality(Holders(copies, n)) > Cardinality(Server)

(* The leader, which has the whole log, adds an entry.                     *)
Write(i, v) ==
  /\ copy[i] = log
  /\ log' = Append(log, v)
  /\ copy' = [copy EXCEPT ![i] = Append(@, v)]
  /\ UNCHANGED <<applied, answered>>

(* A request is told the place of its entry, once that is safe.            *)
Answer(copies) ==
  \E k \in DOMAIN log : IsCommitted(copies, k) /\ answered' = answered \cup {<<k, log[k]>>}

(* A master comes to have more of the log, or to have applied more of it,  *)
(* which must be committed.  An answer may go out with it.                 *)
Progress(i) ==
  /\ UNCHANGED log
  /\ \E n \in Len(copy[i])..Len(log) : copy' = [copy EXCEPT ![i] = SubSeq(log, 1, n)]
  /\ \E m \in Len(applied[i])..Len(copy'[i]) :
       /\ applied' = [applied EXCEPT ![i] = SubSeq(log, 1, m)]
       /\ m > Len(applied[i]) => IsCommitted(copy', m)
  /\ UNCHANGED answered \/ Answer(copy')

Next == \E i \in Server : Progress(i) \/ \E v \in Value : Write(i, v)

Spec == Init /\ [][Next]_vars
=============================================================================
