----------------------------- MODULE WakeLedger -----------------------------
(***************************************************************************)
(* What the wake queue of codex-wakectl promises to somebody who knows     *)
(* nothing of processes, leases or clocks.  A job is added once and then   *)
(* fires some number of times.  Its events are numbered 1, 2, 3, ... and   *)
(* the app-server accepts them in that order: an event is counted only     *)
(* after it was accepted, the next one is accepted only after the previous *)
(* one was counted, and a job that has been closed never changes again.    *)
(*                                                                         *)
(* An event may be accepted again after it was accepted (the delivery is   *)
(* at-least-once); in this specification that is a stuttering step.        *)
(* WakeQueue, the model of the program, implements it.                     *)
(***************************************************************************)
EXTENDS Integers

CONSTANTS
  Jobs,        \* the jobs that may be added
  FireLimit,   \* FireLimit[j]: the number of events after which j is done, 0 for no limit
  MaxEvents    \* bound: an unlimited job is not followed past this many events

VARIABLES
  status,      \* status[j]: the status column of the job, "absent" before it is added
  fires,       \* fires[j]: how many of its events are counted
  accepted     \* accepted[j]: the event numbers the app-server has accepted

lvars == <<status, fires, accepted>>

Closed == {"fired", "failed", "superseded", "uncertain", "canceled"}

Reached(j, n) == FireLimit[j] # 0 /\ n >= FireLimit[j]

LedgerInit ==
  /\ status = [j \in Jobs |-> "absent"]
  /\ fires = [j \in Jobs |-> 0]
  /\ accepted = [j \in Jobs |-> {}]

Add(j) ==
  /\ status[j] = "absent"
  /\ status' = [status EXCEPT ![j] = "pending"]
  /\ UNCHANGED <<fires, accepted>>

(* The next event reaches the app-server.  The job need not be pending any *)
(* more: a delivery that outlived its lease can land after a cancellation. *)
AcceptNext(j) ==
  /\ status[j] # "absent"
  /\ fires[j] < MaxEvents
  /\ accepted' = [accepted EXCEPT ![j] = @ \union {fires[j] + 1}]
  /\ UNCHANGED <<status, fires>>

Count(j) ==
  /\ status[j] = "pending"
  /\ fires[j] + 1 \in accepted[j]
  /\ fires' = [fires EXCEPT ![j] = @ + 1]
  /\ status' = [status EXCEPT ![j] = IF Reached(j, fires[j] + 1) THEN "fired" ELSE "pending"]
  /\ UNCHANGED accepted

Close(j) ==
  /\ status[j] = "pending"
  /\ \E s \in Closed \ {"fired"} : status' = [status EXCEPT ![j] = s]
  /\ UNCHANGED <<fires, accepted>>

LedgerNext == \E j \in Jobs : Add(j) \/ AcceptNext(j) \/ Count(j) \/ Close(j)

LedgerSpec == LedgerInit /\ [][LedgerNext]_lvars
=============================================================================
