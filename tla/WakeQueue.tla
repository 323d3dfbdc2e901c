------------------------------ MODULE WakeQueue ------------------------------
(***************************************************************************)
(* The durable job queue of codex-wakectl (state.py) and the runner that   *)
(* works through it (commands.py, cmd_run).  Several `codex-wakectl run`   *)
(* processes may work at once: the systemd timer starts one, a person or   *)
(* an agent may start others.  They share one SQLite table and nothing     *)
(* else.  A run claims a batch of pending jobs under a lease, then handles *)
(* them one by one: it renews the lease, evaluates the condition, renews   *)
(* the lease again, delivers the event to the app-server and commits the   *)
(* result.  Every SQLite statement is one transaction (BEGIN IMMEDIATE),   *)
(* so it is one step here; between two statements anything may happen:     *)
(* other runs take steps, time passes, the process dies.                   *)
(*                                                                         *)
(* Time.  A lease is the wall-clock second until which it lasts.  Only its *)
(* distance from the present matters, so lease[j] counts down and stops at *)
(* -MaxLag.  A process reads the clock BEFORE it waits for SQLite's write  *)
(* lock, so the time it uses may be up to MaxLag seconds old.              *)
(*                                                                         *)
(* Deliveries.  A request that the app-server accepts only after the       *)
(* client gave up waiting is taken as accepted while it is in flight.      *)
(* When it is in flight nothing but its number is looked at.               *)
(***************************************************************************)
EXTENDS Integers, FiniteSets

CONSTANTS
  Jobs,          \* jobs, numbered in the order (created_at, id) of the claim query
  Runs,          \* owner ids; one is used again when the rows that carry it are anyone's
  NoRun,         \* the NULL of the lease_owner column
  FireLimit,     \* 1 for a one-shot job, maxFires for a repeating one, 0 for no limit
  Limit,         \* run --limit: the size of the largest batch
  LeaseSeconds,  \* lease of a claim (run --lease-seconds)
  Window,        \* lease of a renewal (lease_window)
  MaxLag,        \* bound: age of the clock value a statement uses
  MaxEvents      \* bound: an unlimited job is not followed past this many events

ASSUME JobsAssumption == Jobs \subseteq Nat \ {0}
ASSUME RunsAssumption == NoRun \notin Runs
ASSUME FireLimitAssumption == FireLimit \in [Jobs -> 0..MaxEvents]
ASSUME LimitAssumption == Limit \in Nat \ {0} /\ MaxEvents \in Nat
ASSUME LeaseAssumption ==
  /\ LeaseSeconds \in Nat /\ Window \in Nat /\ MaxLag \in Nat
  /\ MaxLag < LeaseSeconds /\ LeaseSeconds <= Window

VARIABLES
  status,    \* status[j]: column status, "absent" before the row exists
  owner,     \* owner[j]: column lease_owner
  lease,     \* lease[j]: column lease_until, relative to the present
  fires,     \* fires[j]: column fire_count
  pc,        \* pc[r]: where the run is in its loop
  todo,      \* todo[r]: the jobs of its batch it has not begun
  cur,       \* cur[r]: the job it is working on, NoJob between two jobs
  snap,      \* snap[r][j]: fire_count in the row it decoded when it claimed j
  plan,      \* plan[r]: the update it is going to write
  hold,      \* hold[r]: time left of the lease it last renewed for cur[r]
  sent,      \* sent[r]: whether the app-server accepted the event of this attempt
  accepted,  \* accepted[j]: the event numbers the app-server accepted (external)
  again,     \* again[j]: some event of j was accepted a second time
  excuse     \* excuse[j]: an attempt at j lost the protection of its lease or its result

rows == <<status, owner, lease, fires>>
runs == <<pc, todo, cur, snap, plan, hold, sent>>
world == <<accepted, again>>
vars == <<status, owner, lease, fires, pc, todo, cur, snap, plan, hold, sent,
          accepted, again, excuse>>

NoJob == 0
Status == {"absent", "pending", "fired", "failed", "superseded", "uncertain", "canceled"}
Steps == {"idle", "next", "check", "renew", "deliver", "answer", "settle", "handle"}
Plans == {"none", "fire", "release", "failed", "superseded", "uncertain"}

TypeOK ==
  /\ status \in [Jobs -> Status]
  /\ owner \in [Jobs -> Runs \union {NoRun}]
  /\ lease \in [Jobs -> (-MaxLag)..Window]
  /\ fires \in [Jobs -> 0..MaxEvents]
  /\ pc \in [Runs -> Steps]
  /\ todo \in [Runs -> SUBSET Jobs]
  /\ cur \in [Runs -> Jobs \union {NoJob}]
  /\ snap \in [Runs -> [Jobs -> 0..MaxEvents]]
  /\ plan \in [Runs -> Plans]
  /\ hold \in [Runs -> 0..Window]
  /\ sent \in [Runs -> BOOLEAN]
  /\ accepted \in [Jobs -> SUBSET (1..MaxEvents)]
  /\ again \in [Jobs -> BOOLEAN]
  /\ excuse \in [Jobs -> BOOLEAN]

Init ==
  /\ status = [j \in Jobs |-> "absent"]
  /\ owner = [j \in Jobs |-> NoRun]
  /\ lease = [j \in Jobs |-> 0]
  /\ fires = [j \in Jobs |-> 0]
  /\ pc = [r \in Runs |-> "idle"]
  /\ todo = [r \in Runs |-> {}]
  /\ cur = [r \in Runs |-> NoJob]
  /\ snap = [r \in Runs |-> [j \in Jobs |-> 0]]
  /\ plan = [r \in Runs |-> "none"]
  /\ hold = [r \in Runs |-> 0]
  /\ sent = [r \in Runs |-> FALSE]
  /\ accepted = [j \in Jobs |-> {}]
  /\ again = [j \in Jobs |-> FALSE]
  /\ excuse = [j \in Jobs |-> FALSE]

-----------------------------------------------------------------------------
(* Adding and canceling jobs. *)

Insert(j) ==
  /\ status[j] = "absent"
  /\ status' = [status EXCEPT ![j] = "pending"]
  /\ UNCHANGED <<owner, lease, fires, runs, world, excuse>>

(* Mutants of Unleased: the lease is not looked at; an expired lease is    *)
(* never taken over; the clock is read on the wrong side.                  *)
UnleasedAlways(j, lag) == status[j] = "pending"
UnleasedNeverExpires(j, lag) == status[j] = "pending" /\ owner[j] = NoRun
UnleasedTooEarly(j, lag) == status[j] = "pending" /\ (owner[j] = NoRun \/ lease[j] <= lag)

(* The WHERE clause claim and cancel share: no lease, or one that is over  *)
(* at the time `lag` seconds ago.                                          *)
Unleased(j, lag) ==
  /\ status[j] = "pending"
  /\ owner[j] = NoRun \/ lease[j] <= -lag

Cancel(j) ==
  /\ \E lag \in 0..MaxLag : Unleased(j, lag)
  /\ status' = [status EXCEPT ![j] = "canceled"]
  /\ owner' = [owner EXCEPT ![j] = NoRun]
  /\ lease' = [lease EXCEPT ![j] = 0]
  /\ UNCHANGED <<fires, runs, world, excuse>>

-----------------------------------------------------------------------------
(* A run of cmd_run. *)

(* ORDER BY created_at, id LIMIT ? *)
Batch(lag) ==
  LET found == {j \in Jobs : Unleased(j, lag)}
  IN  {j \in found : Cardinality({k \in found : k < j}) < Limit}

Claim(r) ==
  /\ pc[r] = "idle"
  /\ \A j \in Jobs : owner[j] = r => lease[j] <= -MaxLag
  /\ \E lag \in 0..MaxLag :
       /\ Batch(lag) # {}
       /\ owner' = [j \in Jobs |-> IF j \in Batch(lag) THEN r ELSE owner[j]]
       /\ lease' = [j \in Jobs |-> IF j \in Batch(lag) THEN LeaseSeconds - lag ELSE lease[j]]
       /\ todo' = [todo EXCEPT ![r] = Batch(lag)]
       /\ snap' = [snap EXCEPT ![r] =
                     [j \in Jobs |-> IF j \in Batch(lag) THEN fires[j] ELSE 0]]
  /\ pc' = [pc EXCEPT ![r] = "next"]
  /\ UNCHANGED <<status, fires, cur, plan, hold, sent, world, excuse>>

(* Mutant of Mine: the update does not ask who owns the lease.             *)
MineByStatus(r, j) == status[j] = "pending"

(* The WHERE clause of every later statement of the run. *)
Mine(r, j) == status[j] = "pending" /\ owner[j] = r

(* The run is through with a job; it goes on with the rest of its batch. *)
Leave(r, rest) ==
  /\ todo' = [todo EXCEPT ![r] = rest]
  /\ pc' = [pc EXCEPT ![r] = IF rest = {} THEN "idle" ELSE "next"]
  /\ snap' = [snap EXCEPT ![r] = [j \in Jobs |-> IF j \in rest THEN @[j] ELSE 0]]
  /\ cur' = [cur EXCEPT ![r] = NoJob]
  /\ plan' = [plan EXCEPT ![r] = "none"]
  /\ hold' = [hold EXCEPT ![r] = 0]
  /\ sent' = [sent EXCEPT ![r] = FALSE]

(* Mutant of Renewed: the renewal adds to the old lease.                   *)
RenewedOnTop(r, j) ==
  \E lag \in 0..MaxLag :
     /\ lease' = [lease EXCEPT ![j] = @ + Window - lag]
     /\ hold' = [hold EXCEPT ![r] = Window - lag]

Renewed(r, j) ==
  \E lag \in 0..MaxLag :
     /\ lease' = [lease EXCEPT ![j] = Window - lag]
     /\ hold' = [hold EXCEPT ![r] = Window - lag]

IsNext(r, j) == j \in todo[r] /\ \A k \in todo[r] : j <= k

(* The renewal before the condition is evaluated. *)
StartJob(r) ==
  /\ pc[r] = "next"
  /\ \E j \in todo[r] :
       /\ IsNext(r, j)
       /\ Mine(r, j)
       /\ Renewed(r, j)
       /\ cur' = [cur EXCEPT ![r] = j]
       /\ todo' = [todo EXCEPT ![r] = @ \ {j}]
  /\ pc' = [pc EXCEPT ![r] = "check"]
  /\ UNCHANGED <<status, owner, fires, snap, plan, sent, world, excuse>>

(* LeaseLost before the condition check: the run writes nothing. *)
SkipLost(r) ==
  /\ pc[r] = "next"
  /\ \E j \in todo[r] : IsNext(r, j) /\ ~Mine(r, j) /\ Leave(r, todo[r] \ {j})
  /\ UNCHANGED <<rows, world, excuse>>

GoTo(r, step, update) ==
  /\ pc' = [pc EXCEPT ![r] = step]
  /\ plan' = [plan EXCEPT ![r] = update]

(* The condition does not hold, or holds no more and never will. *)
NotReady(r) ==
  /\ pc[r] = "check"
  /\ \E update \in {"release", "superseded", "failed"} : GoTo(r, "settle", update)
  /\ UNCHANGED <<rows, todo, cur, snap, hold, sent, world, excuse>>

CheckFailed(r) ==
  /\ pc[r] = "check"
  /\ GoTo(r, "handle", "release")
  /\ UNCHANGED <<rows, todo, cur, snap, hold, sent, world, excuse>>

Ready(r) ==
  /\ pc[r] = "check"
  /\ snap[r][cur[r]] < MaxEvents
  /\ GoTo(r, "renew", "none")
  /\ UNCHANGED <<rows, todo, cur, snap, hold, sent, world, excuse>>

(* The renewal between the condition and the delivery. *)
RenewForDelivery(r) ==
  /\ pc[r] = "renew"
  /\ Mine(r, cur[r])
  /\ Renewed(r, cur[r])
  /\ GoTo(r, "deliver", "none")
  /\ UNCHANGED <<status, owner, fires, todo, cur, snap, sent, world, excuse>>

DropLost(r) ==
  /\ pc[r] = "renew"
  /\ ~Mine(r, cur[r])
  /\ Leave(r, todo[r])
  /\ UNCHANGED <<rows, world, excuse>>

(* deliver_action gives up before the app-server accepted anything: the    *)
(* target is busy or not loaded, the request failed, the target belongs to *)
(* a parent agent, or the request was lost and its fate is unknown.        *)
DeliveryRefused(r) ==
  /\ pc[r] = "deliver"
  /\ \E update \in {"release", "failed", "uncertain"} : GoTo(r, "handle", update)
  /\ UNCHANGED <<rows, todo, cur, snap, hold, sent, world, excuse>>

(* The number of the event is fixed by the row the run claimed, not by the *)
(* row as it is now.                                                       *)
EventNumber(r) == snap[r][cur[r]] + 1

DeliveryAccepted(r) ==
  /\ pc[r] = "deliver"
  /\ LET j == cur[r]
     IN  /\ accepted' = [accepted EXCEPT ![j] = @ \union {EventNumber(r)}]
         /\ again' = [again EXCEPT ![j] = @ \/ EventNumber(r) \in accepted[j]]
  /\ sent' = [sent EXCEPT ![r] = TRUE]
  /\ pc' = [pc EXCEPT ![r] = "answer"]
  /\ UNCHANGED <<rows, todo, cur, snap, plan, hold, excuse>>

Delivered(r) ==
  /\ pc[r] = "answer"
  /\ GoTo(r, "settle", "fire")
  /\ UNCHANGED <<rows, todo, cur, snap, hold, sent, world, excuse>>

(* Accepted, but the turn that should attend to it is not confirmed.       *)
Unconfirmed(r) ==
  /\ pc[r] = "answer"
  /\ \E update \in {"uncertain", "failed"} : GoTo(r, "handle", update)
  /\ UNCHANGED <<rows, todo, cur, snap, hold, sent, world, excuse>>

(* Mutants of Reached: one event too late; repetition ignored.             *)
ReachedLate(j, n) == FireLimit[j] # 0 /\ n > FireLimit[j]
ReachedAtOnce(j, n) == n >= 1

Reached(j, n) == FireLimit[j] # 0 /\ n >= FireLimit[j]

(* The status column after the update the run has planned. *)
StatusAfter(r, j) ==
  IF plan[r] = "fire" /\ Reached(j, snap[r][j] + 1) THEN "fired"
  ELSE IF plan[r] \in {"fire", "release"} THEN "pending" ELSE plan[r]

(* Mutant of FiresAfter: every attempt counts, delivered or not.           *)
FiresAfterAttempt(r, j) == IF snap[r][j] < MaxEvents THEN snap[r][j] + 1 ELSE fires[j]

FiresAfter(r, j) == IF plan[r] = "fire" THEN snap[r][j] + 1 ELSE fires[j]

(* update_claimed_job: writes the result and gives the lease back. *)
Commit(r) ==
  /\ pc[r] \in {"settle", "handle"}
  /\ LET j == cur[r]
     IN  /\ Mine(r, j)
         /\ status' = [status EXCEPT ![j] = StatusAfter(r, j)]
         /\ owner' = [owner EXCEPT ![j] = NoRun]
         /\ lease' = [lease EXCEPT ![j] = 0]
         /\ fires' = [fires EXCEPT ![j] = FiresAfter(r, j)]
  /\ Leave(r, todo[r])
  /\ UNCHANGED <<world, excuse>>

(* The update changes no row: the lease went to another run, or the job    *)
(* was canceled after it ran out.                                          *)
CommitLost(r) ==
  /\ pc[r] \in {"settle", "handle"}
  /\ ~Mine(r, cur[r])
  /\ Leave(r, todo[r])
  /\ UNCHANGED <<rows, world, excuse>>

(* A statement inside the try block raises (database is locked, disk full) *)
(* and the handler of any Exception will release the job.                  *)
StatementFailed(r) ==
  /\ \/ /\ pc[r] = "next"
        /\ \E j \in todo[r] :
             /\ IsNext(r, j)
             /\ cur' = [cur EXCEPT ![r] = j]
             /\ todo' = [todo EXCEPT ![r] = @ \ {j}]
     \/ /\ pc[r] \in {"renew", "settle"}
        /\ UNCHANGED <<cur, todo>>
  /\ GoTo(r, "handle", "release")
  /\ excuse' = [j \in Jobs |-> excuse[j] \/ (sent[r] /\ cur[r] = j)]
  /\ UNCHANGED <<rows, snap, hold, sent, world>>

(* The process dies, or a statement of an exception handler raises: the    *)
(* exception leaves cmd_run.  Nothing is written, the leases stay.         *)
Crash(r) ==
  /\ pc[r] # "idle"
  /\ Leave(r, {})
  /\ excuse' = [j \in Jobs |-> excuse[j] \/ (sent[r] /\ cur[r] = j)]
  /\ UNCHANGED <<rows, world>>

Later(n, floor) == IF n > floor THEN n - 1 ELSE floor

(* One second passes.  An attempt whose lease runs out while its event may *)
(* be on its way is no longer protected from other runs.                   *)
Tick ==
  /\ lease' = [j \in Jobs |-> IF owner[j] = NoRun THEN 0 ELSE Later(lease[j], -MaxLag)]
  /\ hold' = [r \in Runs |-> Later(hold[r], 0)]
  /\ excuse' = [j \in Jobs |->
       \/ excuse[j]
       \/ \E r \in Runs : cur[r] = j /\ (pc[r] = "deliver" \/ sent[r]) /\ hold'[r] = 0]
  /\ UNCHANGED <<status, owner, fires, pc, todo, cur, snap, plan, sent, world>>

RunStep(r) ==
  \/ Claim(r) \/ StartJob(r) \/ SkipLost(r)
  \/ NotReady(r) \/ CheckFailed(r) \/ Ready(r)
  \/ RenewForDelivery(r) \/ DropLost(r)
  \/ DeliveryRefused(r) \/ DeliveryAccepted(r) \/ Delivered(r) \/ Unconfirmed(r)
  \/ Commit(r) \/ CommitLost(r)
  \/ StatementFailed(r) \/ Crash(r)

Next ==
  \/ \E j \in Jobs : Insert(j) \/ Cancel(j)
  \/ \E r \in Runs : RunStep(r)
  \/ Tick

Spec == Init /\ [][Next]_vars

-----------------------------------------------------------------------------
(* Safety. *)

(* A run that is working on a job and whose renewed lease has time left    *)
(* still owns the row, exactly until the time it believes: nobody else has *)
(* claimed, canceled or settled the job.  So two runs that both believe    *)
(* their lease never deliver the same job.                                 *)
LeaseProtects ==
  \A r \in Runs : hold[r] > 0 =>
    /\ Mine(r, cur[r])
    /\ lease[cur[r]] = hold[r]

(* The counted events of a job are exactly the first ones the app-server   *)
(* accepted, and at most one accepted event is not counted: no number is   *)
(* skipped, counted without acceptance or accepted ahead of its turn, in   *)
(* spite of crashes and of runs that work from a stale row.                *)
EventNumbers ==
  \A j \in Jobs :
    /\ 1..fires[j] \subseteq accepted[j]
    /\ accepted[j] \subseteq 1..(fires[j] + 1)

(* maxFires (1 for a one-shot job) bounds what reaches the app-server, not *)
(* only what is counted, and a job is reported fired exactly when the      *)
(* bound is reached.                                                       *)
FireLimitKept ==
  \A j \in Jobs : FireLimit[j] # 0 =>
    /\ accepted[j] \subseteq 1..FireLimit[j]
    /\ status[j] = "pending" => fires[j] < FireLimit[j]
    /\ status[j] = "fired" => fires[j] = FireLimit[j]

(* An event reaches the app-server twice only if an earlier attempt died   *)
(* after acceptance, could not write its result, or outlived its lease     *)
(* while it was delivering.                                                *)
DuplicateHasCause == \A j \in Jobs : again[j] => excuse[j]

(* When no attempt at a job was lost, a job that ends as fired, superseded *)
(* or canceled tells the truth: every accepted event is counted.  A cancel *)
(* cannot slip in between acceptance and the commit.                       *)
ClosedCountIsExact ==
  \A j \in Jobs :
    status[j] \in {"fired", "superseded", "canceled"} /\ ~excuse[j] =>
      accepted[j] = 1..fires[j]

(* Every step of the program is a step of the ledger or changes nothing    *)
(* the ledger sees.                                                        *)
Ledger == INSTANCE WakeLedger
ImplementsLedger == Ledger!LedgerSpec
=============================================================================
