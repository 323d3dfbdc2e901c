------------------------------ MODULE StreamLog ------------------------------
(***************************************************************************)
(* What a stream of streamctl promises: a log that only grows, one entry   *)
(* at a time at its end, and for every reader a position in the log that   *)
(* only moves forward and never passes the end.  Streams implements it.    *)
(***************************************************************************)
EXTENDS Integers

CONSTANTS
  Entries,    \* what an entry may hold
  Readers     \* reader identities

VARIABLES
  size,       \* number of entries
  log,        \* log[p]: the entry at position p, 1 <= p <= size
  mark        \* mark[r]: the reader has processed the log through this position

lvars == <<size, log, mark>>

LogInit ==
  /\ size = 0
  /\ log = [p \in 1..0 |-> 0]
  /\ mark = [r \in Readers |-> 0]

Append ==
  /\ size' = size + 1
  /\ DOMAIN log' = 1..(size + 1)
  /\ \A p \in 1..size : log'[p] = log[p]
  /\ log'[size + 1] \in Entries
  /\ UNCHANGED mark

Advance ==
  /\ \E r \in Readers, p \in 1..size : p > mark[r] /\ mark' = [mark EXCEPT ![r] = p]
  /\ UNCHANGED <<size, log>>

LogSpec == LogInit /\ [][Append \/ Advance]_lvars
=============================================================================
