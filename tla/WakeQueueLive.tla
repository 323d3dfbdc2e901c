---------------------------- MODULE WakeQueueLive ----------------------------
(***************************************************************************)
(* Progress of the wake queue.  A job can always be starved: by a timer    *)
(* that is off, by a condition that is never true when it is looked at, by *)
(* a target that is always busy, by runs that all die before they come to  *)
(* it, or by attempts that always outlive their lease.  This module        *)
(* assumes none of these: evaluations and deliveries may still fail and    *)
(* leases of waiting jobs run out any number of times, and runs may die    *)
(* any finite number of times.                                             *)
(***************************************************************************)
EXTENDS WakeQueue

CONSTANT
  EverReady   \* jobs whose condition keeps holding and whose target keeps accepting

ASSUME EverReadyAssumption == EverReady \subseteq Jobs

(* Time does not outrun a run at work: lease_window is ten times the       *)
(* request timeout of the job.  The leases of dead runs and of jobs that   *)
(* wait in a batch do run out.                                             *)
PromptTick == Tick /\ \A r \in Runs : hold[r] # 1

(* The other jobs are the worst case: they are never ready. *)
ReadyJob(r) == Ready(r) /\ cur[r] \in EverReady

Proceed(r) ==
  \/ StartJob(r) \/ SkipLost(r)
  \/ NotReady(r) \/ CheckFailed(r) \/ ReadyJob(r)
  \/ RenewForDelivery(r) \/ DropLost(r)
  \/ DeliveryRefused(r) \/ DeliveryAccepted(r) \/ Delivered(r) \/ Unconfirmed(r)
  \/ Commit(r) \/ CommitLost(r)
  \/ StatementFailed(r) \/ Crash(r)

PromptNext ==
  \/ \E j \in Jobs : Insert(j) \/ Cancel(j)
  \/ \E r \in Runs : Claim(r) \/ Proceed(r)
  \/ PromptTick

(* The timer keeps starting runs, a process goes on or dies, and no stage  *)
(* of an attempt at an EverReady job fails every time it is tried.         *)
StageSucceeds(j) ==
  /\ SF_vars(\E r \in Runs : StartJob(r) /\ cur'[r] = j)
  /\ SF_vars(\E r \in Runs : Ready(r) /\ cur[r] = j)
  /\ SF_vars(\E r \in Runs : RenewForDelivery(r) /\ cur[r] = j)
  /\ SF_vars(\E r \in Runs : DeliveryAccepted(r) /\ cur[r] = j)
  /\ SF_vars(\E r \in Runs : Delivered(r) /\ cur[r] = j)
  /\ SF_vars(\E r \in Runs : Commit(r) /\ cur[r] = j /\ plan[r] = "fire")

LiveSpec ==
  /\ Init /\ [][PromptNext]_vars
  /\ WF_vars(PromptTick)
  /\ WF_vars(\E r \in Runs : Claim(r))
  /\ \A r \in Runs : WF_vars(Proceed(r))
  /\ \A j \in EverReady : StageSucceeds(j)
  /\ <>[][\A r \in Runs : ~Crash(r)]_vars

(* A job that is due is settled in the end, whatever else is in the queue  *)
(* and however often a run dies with the lease in its hands: an expired    *)
(* lease never locks a row for good, and a job in front of it that never   *)
(* becomes ready does not hold it up (as long as --limit covers both).     *)
DueJobIsSettled ==
  \A j \in EverReady : status[j] = "pending" ~> status[j] # "pending"
=============================================================================
