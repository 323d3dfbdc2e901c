--------------------------- MODULE WakeQueueProofs ---------------------------
(***************************************************************************)
(* Proofs about WakeQueue for every set of jobs and runs, every batch      *)
(* limit, lease and clock lag.                                             *)
(*                                                                         *)
(* LeaseProtects and the facts about event numbers are not inductive.      *)
(* They become so with three facts about the runs: the shape of a run at   *)
(* each pc, the freshness of the rows it works from (while it owns a row,  *)
(* its snapshot of fire_count is the column), and the exposure of its      *)
(* deliveries (an attempt whose event may be on its way has time left on   *)
(* its lease, or the job has an excuse).                                   *)
(***************************************************************************)
EXTENDS WakeQueue, FiniteSetTheorems, TLAPS

Working == Steps \ {"idle", "next"}

(* A row carries a lease only while it is pending.                         *)
RowShape ==
  \A j \in Jobs :
    /\ owner[j] # NoRun => status[j] = "pending"
    /\ status[j] = "absent" => fires[j] = 0

RunShape ==
  \A r \in Runs :
    /\ pc[r] \in Working => cur[r] \in Jobs \ todo[r]
    /\ pc[r] \notin Working => cur[r] = NoJob /\ hold[r] = 0
    /\ pc[r] = "idle" => todo[r] = {}
    /\ sent[r] => pc[r] \in {"answer", "settle", "handle"}
    /\ pc[r] = "answer" => sent[r]
    /\ pc[r] \in {"settle", "handle"} <=> plan[r] # "none"
    /\ pc[r] = "handle" => plan[r] \in {"release", "failed", "uncertain"}
    /\ pc[r] = "settle" => (sent[r] <=> plan[r] = "fire")

(* The jobs a run still has to write about.                                *)
Batched(r) == todo[r] \union ({cur[r]} \ {NoJob})

(* The snapshot a run works from is the column while it owns the row, is   *)
(* never ahead of it, and was taken of a job that was not done.            *)
Fresh ==
  \A r \in Runs : \A j \in Batched(r) :
    /\ status[j] # "absent"
    /\ snap[r][j] <= fires[j]
    /\ owner[j] = r => snap[r][j] = fires[j]
    /\ FireLimit[j] # 0 => snap[r][j] < FireLimit[j]

(* What the app-server has accepted of the attempt of a run.               *)
Attempt ==
  \A r \in Runs :
    /\ pc[r] \in {"renew", "deliver"} => snap[r][cur[r]] < MaxEvents
    /\ sent[r] => snap[r][cur[r]] + 1 \in accepted[cur[r]]

(* An event may be on its way.                                             *)
Exposed(r) == pc[r] = "deliver" \/ sent[r]

Protected ==
  \A r \in Runs :
    /\ Exposed(r) /\ ~excuse[cur[r]] => hold[r] > 0
    /\ sent[r] /\ plan[r] = "release" => excuse[cur[r]]

(* Without an excuse, an accepted event that is not counted is the one a   *)
(* run is about to count.                                                  *)
Clean ==
  \A j \in Jobs :
    /\ ~excuse[j]
    /\ status[j] \in {"absent", "pending", "fired", "superseded", "canceled"}
    /\ \A r \in Runs : ~(sent[r] /\ cur[r] = j)
    => accepted[j] = 1..fires[j]

IInv ==
  /\ TypeOK /\ RowShape /\ RunShape /\ Fresh /\ Attempt /\ Protected /\ Clean
  /\ LeaseProtects /\ EventNumbers /\ FireLimitKept /\ DuplicateHasCause

-----------------------------------------------------------------------------
(* Typing of the values at one run and one job.                            *)
LEMMA Values ==
  ASSUME TypeOK, NEW r \in Runs, NEW j \in Jobs
  PROVE  /\ snap[r][j] \in 0..MaxEvents /\ fires[j] \in 0..MaxEvents
         /\ snap[r][j] \in Nat /\ fires[j] \in Nat /\ FireLimit[j] \in Nat
         /\ accepted[j] \subseteq 1..MaxEvents
  <1>1. snap[r] \in [Jobs -> 0..MaxEvents]
    BY DEF TypeOK
  <1>2. FireLimit[j] \in 0..MaxEvents
    BY FireLimitAssumption
  <1> QED
    BY <1>1, <1>2, LimitAssumption DEF TypeOK

(* A run between two jobs has nothing on its way.                          *)
LEMMA SentHasJob ==
  ASSUME RunShape, NEW r \in Runs, Exposed(r)
  PROVE  /\ cur[r] \in Jobs \ todo[r]
         /\ pc[r] \in {"deliver", "answer", "settle", "handle"}
  BY DEF RunShape, Exposed, Working, Steps

(* A run that owns the row of its job works from a fresh snapshot.         *)
LEMMA OwnerIsFresh ==
  ASSUME TypeOK, RunShape, Fresh, NEW r \in Runs, pc[r] \in Working, Mine(r, cur[r])
  PROVE  /\ cur[r] \in Jobs \ todo[r] /\ status[cur[r]] = "pending"
         /\ owner[cur[r]] = r
         /\ snap[r][cur[r]] = fires[cur[r]]
  <1>1. cur[r] \in Jobs \ todo[r] /\ owner[cur[r]] = r /\ status[cur[r]] = "pending"
    BY DEF RunShape, Mine
  <1>2. cur[r] \in Batched(r)
    BY <1>1, JobsAssumption DEF Batched, NoJob
  <1> QED
    BY <1>1, <1>2 DEF Fresh

(* A run that is about to count an event has it accepted.                  *)
LEMMA FireIsAccepted ==
  ASSUME RunShape, Attempt, NEW r \in Runs, pc[r] \in {"settle", "handle"}, plan[r] = "fire"
  PROVE  sent[r] /\ snap[r][cur[r]] + 1 \in accepted[cur[r]]
  BY DEF RunShape, Attempt

(* The next number completes an initial interval.                          *)
LEMMA NextNumber ==
  ASSUME NEW f \in Nat, NEW S, 1..f \subseteq S, S \subseteq 1..(f + 1), f + 1 \in S
  PROVE  S = 1..(f + 1) /\ S \subseteq 1..((f + 1) + 1)
  <1>1. ASSUME NEW n \in 1..(f + 1) PROVE n \in S
    <2>1. n \in 1..f \/ n = f + 1
      OBVIOUS
    <2> QED
      BY <2>1
  <1>2. 1..(f + 1) \subseteq 1..((f + 1) + 1)
    OBVIOUS
  <1> QED
    BY <1>1, <1>2

(* The use of Clean at one job.                                            *)
LEMMA CleanAt ==
  ASSUME Clean, NEW k \in Jobs, ~excuse[k],
         status[k] \in {"absent", "pending", "fired", "superseded", "canceled"},
         \A q \in Runs : ~(sent[q] /\ cur[q] = k)
  PROVE  accepted[k] = 1..fires[k]
  BY DEF Clean

-----------------------------------------------------------------------------
(* The inductive step, one conjunct at a time. *)

(* Every step keeps the variables in their types.  The bound on fires and
   accepted needs the shape of a run and what it knows of its attempt. *)
LEMMA TypeStep == IInv /\ [Next]_vars => TypeOK'
<1> SUFFICES ASSUME IInv, [Next]_vars PROVE TypeOK'
  OBVIOUS
<1> USE JobsAssumption, RunsAssumption, FireLimitAssumption, LimitAssumption, LeaseAssumption
<1> USE DEF IInv, TypeOK, RunShape, Attempt, Steps, Status, Plans, Working, rows,
    runs, world, NoJob
<1>1. ASSUME NEW j \in Jobs, Insert(j) PROVE TypeOK'
  BY <1>1 DEF Insert
<1>2. ASSUME NEW j \in Jobs, Cancel(j) PROVE TypeOK'
  BY <1>2 DEF Cancel, Unleased
<1>3. ASSUME NEW r \in Runs, Claim(r) PROVE TypeOK'
  BY <1>3 DEF Claim, Batch, Unleased
<1>4. ASSUME NEW r \in Runs, StartJob(r) PROVE TypeOK'
  BY <1>4 DEF StartJob, Renewed, IsNext, Mine
<1>5. ASSUME NEW r \in Runs, SkipLost(r) PROVE TypeOK'
  BY <1>5 DEF SkipLost, Leave, IsNext, Mine
<1>6. ASSUME NEW r \in Runs, NotReady(r) PROVE TypeOK'
  BY <1>6 DEF NotReady, GoTo
<1>7. ASSUME NEW r \in Runs, CheckFailed(r) PROVE TypeOK'
  BY <1>7 DEF CheckFailed, GoTo
<1>8. ASSUME NEW r \in Runs, Ready(r) PROVE TypeOK'
  BY <1>8 DEF Ready, GoTo
<1>9. ASSUME NEW r \in Runs, RenewForDelivery(r) PROVE TypeOK'
  BY <1>9 DEF RenewForDelivery, Renewed, GoTo, Mine
<1>10. ASSUME NEW r \in Runs, DropLost(r) PROVE TypeOK'
  BY <1>10 DEF DropLost, Leave, Mine
<1>11. ASSUME NEW r \in Runs, DeliveryRefused(r) PROVE TypeOK'
  BY <1>11 DEF DeliveryRefused, GoTo
<1>12. ASSUME NEW r \in Runs, DeliveryAccepted(r) PROVE TypeOK'
  <2>1. cur[r] \in Jobs /\ snap[r][cur[r]] < MaxEvents
    BY <1>12 DEF DeliveryAccepted
  <2>2. snap[r][cur[r]] \in 0..MaxEvents
    BY <2>1, Values
  <2>3. EventNumber(r) \in 1..MaxEvents
    BY <2>1, <2>2 DEF EventNumber
  <2>4. accepted[cur[r]] \union {EventNumber(r)} \in SUBSET (1..MaxEvents)
    BY <2>1, <2>3
  <2>5. accepted' \in [Jobs -> SUBSET (1..MaxEvents)]
    BY <1>12, <2>1, <2>4 DEF DeliveryAccepted
  <2>6. again' \in [Jobs -> BOOLEAN]
    <3> DEFINE b == again[cur[r]] \/ EventNumber(r) \in accepted[cur[r]]
    <3>1. b \in BOOLEAN
      OBVIOUS
    <3>2. again' = [again EXCEPT ![cur[r]] = b]
      BY <1>12 DEF DeliveryAccepted
    <3> HIDE DEF b
    <3> QED
      BY <2>1, <3>1, <3>2
  <2> QED
    BY <1>12, <2>5, <2>6 DEF DeliveryAccepted
<1>13. ASSUME NEW r \in Runs, Delivered(r) PROVE TypeOK'
  BY <1>13 DEF Delivered, GoTo
<1>14. ASSUME NEW r \in Runs, Unconfirmed(r) PROVE TypeOK'
  BY <1>14 DEF Unconfirmed, GoTo
<1>15. ASSUME NEW r \in Runs, Commit(r) PROVE TypeOK'
  <2>1. cur[r] \in Jobs
    BY <1>15 DEF Commit
  <2>2. StatusAfter(r, cur[r]) \in Status
    BY <1>15 DEF Commit, StatusAfter
  <2>3. snap[r][cur[r]] \in 0..MaxEvents /\ fires[cur[r]] \in 0..MaxEvents
    BY <2>1, Values
  <2>4. ASSUME plan[r] = "fire" PROVE snap[r][cur[r]] + 1 \in 1..MaxEvents
    BY <1>15, <2>1, <2>4, FireIsAccepted, Values DEF Commit
  <2>5. FiresAfter(r, cur[r]) \in 0..MaxEvents
    BY <2>3, <2>4 DEF FiresAfter
  <2> QED
    BY <1>15, <2>1, <2>2, <2>5 DEF Commit, Leave
<1>16. ASSUME NEW r \in Runs, CommitLost(r) PROVE TypeOK'
  BY <1>16 DEF CommitLost, Leave, Mine
<1>17. ASSUME NEW r \in Runs, StatementFailed(r) PROVE TypeOK'
  <2>1. todo' \in [Runs -> SUBSET Jobs] /\ cur' \in [Runs -> Jobs \union {NoJob}]
    BY <1>17 DEF StatementFailed
  <2>2. excuse' \in [Jobs -> BOOLEAN]
    BY <1>17 DEF StatementFailed
  <2> QED
    BY <1>17, <2>1, <2>2 DEF StatementFailed, GoTo
<1>18. ASSUME NEW r \in Runs, Crash(r) PROVE TypeOK'
  BY <1>18 DEF Crash, Leave
<1>19. CASE Tick
  BY <1>19 DEF Tick, Later
<1>20. CASE UNCHANGED vars
  BY <1>20 DEF vars
<1> QED
  BY <1>1, <1>2, <1>3, <1>4, <1>5, <1>6, <1>7, <1>8, <1>9, <1>10, <1>11, <1>12,
      <1>13, <1>14, <1>15, <1>16, <1>17, <1>18, <1>19, <1>20 DEF Next, RunStep

(* The pc of a run determines which of its variables are in use. *)
LEMMA ShapeStep == IInv /\ [Next]_vars => (RowShape /\ RunShape)'
<1> SUFFICES ASSUME IInv, [Next]_vars PROVE (RowShape /\ RunShape)'
  OBVIOUS
<1> USE JobsAssumption, RunsAssumption, FireLimitAssumption, LimitAssumption, LeaseAssumption
<1> USE DEF IInv, TypeOK, RowShape, RunShape, Steps, Status, Plans, Working, rows,
    runs, world, NoJob
<1>1. ASSUME NEW j \in Jobs, Insert(j) PROVE (RowShape /\ RunShape)'
  BY <1>1 DEF Insert
<1>2. ASSUME NEW j \in Jobs, Cancel(j) PROVE (RowShape /\ RunShape)'
  BY <1>2 DEF Cancel, Unleased
<1>3. ASSUME NEW r \in Runs, Claim(r) PROVE (RowShape /\ RunShape)'
  BY <1>3 DEF Claim, Batch, Unleased
<1>4. ASSUME NEW r \in Runs, StartJob(r) PROVE (RowShape /\ RunShape)'
  BY <1>4 DEF StartJob, Renewed, IsNext, Mine
<1>5. ASSUME NEW r \in Runs, SkipLost(r) PROVE (RowShape /\ RunShape)'
  BY <1>5 DEF SkipLost, Leave, IsNext, Mine
<1>6. ASSUME NEW r \in Runs, NotReady(r) PROVE (RowShape /\ RunShape)'
  BY <1>6 DEF NotReady, GoTo
<1>7. ASSUME NEW r \in Runs, CheckFailed(r) PROVE (RowShape /\ RunShape)'
  BY <1>7 DEF CheckFailed, GoTo
<1>8. ASSUME NEW r \in Runs, Ready(r) PROVE (RowShape /\ RunShape)'
  BY <1>8 DEF Ready, GoTo
<1>9. ASSUME NEW r \in Runs, RenewForDelivery(r) PROVE (RowShape /\ RunShape)'
  BY <1>9 DEF RenewForDelivery, Renewed, GoTo, Mine
<1>10. ASSUME NEW r \in Runs, DropLost(r) PROVE (RowShape /\ RunShape)'
  BY <1>10 DEF DropLost, Leave, Mine
<1>11. ASSUME NEW r \in Runs, DeliveryRefused(r) PROVE (RowShape /\ RunShape)'
  BY <1>11 DEF DeliveryRefused, GoTo
<1>12. ASSUME NEW r \in Runs, DeliveryAccepted(r) PROVE (RowShape /\ RunShape)'
  BY <1>12 DEF DeliveryAccepted, EventNumber
<1>13. ASSUME NEW r \in Runs, Delivered(r) PROVE (RowShape /\ RunShape)'
  BY <1>13 DEF Delivered, GoTo
<1>14. ASSUME NEW r \in Runs, Unconfirmed(r) PROVE (RowShape /\ RunShape)'
  BY <1>14 DEF Unconfirmed, GoTo
<1>15. ASSUME NEW r \in Runs, Commit(r) PROVE (RowShape /\ RunShape)'
  BY <1>15 DEF Commit, Leave, Mine, StatusAfter, FiresAfter, Reached
<1>16. ASSUME NEW r \in Runs, CommitLost(r) PROVE (RowShape /\ RunShape)'
  BY <1>16 DEF CommitLost, Leave, Mine
<1>17. ASSUME NEW r \in Runs, StatementFailed(r) PROVE (RowShape /\ RunShape)'
  BY <1>17 DEF StatementFailed, GoTo, IsNext
<1>18. ASSUME NEW r \in Runs, Crash(r) PROVE (RowShape /\ RunShape)'
  BY <1>18 DEF Crash, Leave
<1>19. CASE Tick
  BY <1>19 DEF Tick, Later
<1>20. CASE UNCHANGED vars
  BY <1>20 DEF vars
<1> QED
  BY <1>1, <1>2, <1>3, <1>4, <1>5, <1>6, <1>7, <1>8, <1>9, <1>10, <1>11, <1>12,
      <1>13, <1>14, <1>15, <1>16, <1>17, <1>18, <1>19, <1>20 DEF Next, RunStep

(* No step of another run makes the snapshot of an owner stale, and no
   snapshot gets ahead of the row. *)
LEMMA FreshStep == IInv /\ [Next]_vars => Fresh'
<1> SUFFICES ASSUME IInv, [Next]_vars PROVE Fresh'
  OBVIOUS
<1> USE JobsAssumption, RunsAssumption, FireLimitAssumption, LimitAssumption, LeaseAssumption
<1> USE DEF IInv, TypeOK, RowShape, RunShape, Fresh, Batched, Steps, Status,
    Working, rows, runs, world, NoJob
<1>1. ASSUME NEW j \in Jobs, Insert(j) PROVE Fresh'
  BY <1>1 DEF Insert
<1>2. ASSUME NEW j \in Jobs, Cancel(j) PROVE Fresh'
  BY <1>2 DEF Cancel, Unleased
<1>3. ASSUME NEW r \in Runs, Claim(r) PROVE Fresh'
  <2> SUFFICES ASSUME NEW q \in Runs, NEW k \in Batched(q)'
               PROVE  /\ status'[k] # "absent"
                      /\ snap'[q][k] <= fires'[k]
                      /\ owner'[k] = q => snap'[q][k] = fires'[k]
                      /\ FireLimit[k] # 0 => snap'[q][k] < FireLimit[k]
    BY Zenon DEF Fresh
  <2>1. CASE q # r
    <3>1. k \in Batched(q) /\ snap'[q] = snap[q]
      BY <1>3, <2>1 DEF Claim
    <3>2. owner'[k] = q => owner[k] = q
      BY <1>3, <2>1, <3>1 DEF Claim
    <3> QED
      BY <1>3, <3>1, <3>2 DEF Claim
  <2>2. CASE q = r
    <3>1. PICK lag \in 0..MaxLag :
            /\ todo' = [todo EXCEPT ![r] = Batch(lag)]
            /\ snap' = [snap EXCEPT ![r] =
                          [j \in Jobs |-> IF j \in Batch(lag) THEN fires[j] ELSE 0]]
      BY <1>3 DEF Claim
    <3>2. k \in Batch(lag)
      BY <1>3, <2>2, <3>1 DEF Claim
    <3>3. k \in Jobs /\ status[k] = "pending" /\ snap'[r][k] = fires[k]
      BY <3>1, <3>2 DEF Batch, Unleased
    <3>4. FireLimit[k] # 0 => fires[k] < FireLimit[k]
      BY <3>3 DEF FireLimitKept
    <3>5. status' = status /\ fires' = fires /\ fires[k] \in Nat
      BY <1>3, <3>3, Values DEF Claim
    <3> QED
      BY <2>2, <3>3, <3>4, <3>5
  <2> QED
    BY <2>1, <2>2
<1>4. ASSUME NEW r \in Runs, StartJob(r) PROVE Fresh'
  <2> SUFFICES ASSUME NEW q \in Runs, NEW k \in Batched(q)'
               PROVE  /\ status'[k] # "absent"
                      /\ snap'[q][k] <= fires'[k]
                      /\ owner'[k] = q => snap'[q][k] = fires'[k]
                      /\ FireLimit[k] # 0 => snap'[q][k] < FireLimit[k]
    BY Zenon DEF Fresh
  <2>1. k \in Batched(q)
    BY <1>4 DEF StartJob, IsNext, Mine, Renewed
  <2> QED
    BY <1>4, <2>1 DEF StartJob
<1>5. ASSUME NEW r \in Runs, SkipLost(r) PROVE Fresh'
  <2> SUFFICES ASSUME NEW q \in Runs, NEW k \in Batched(q)'
               PROVE  /\ status'[k] # "absent"
                      /\ snap'[q][k] <= fires'[k]
                      /\ owner'[k] = q => snap'[q][k] = fires'[k]
                      /\ FireLimit[k] # 0 => snap'[q][k] < FireLimit[k]
    BY Zenon DEF Fresh
  <2>1. k \in Batched(q) /\ k \in Jobs
    BY <1>5 DEF SkipLost, Leave
  <2>2. snap'[q][k] = snap[q][k]
    BY <1>5, <2>1 DEF SkipLost, Leave
  <2> QED
    BY <1>5, <2>1, <2>2 DEF SkipLost
<1>6. ASSUME NEW r \in Runs, NotReady(r) PROVE Fresh'
  BY <1>6 DEF NotReady, GoTo
<1>7. ASSUME NEW r \in Runs, CheckFailed(r) PROVE Fresh'
  BY <1>7 DEF CheckFailed, GoTo
<1>8. ASSUME NEW r \in Runs, Ready(r) PROVE Fresh'
  BY <1>8 DEF Ready, GoTo
<1>9. ASSUME NEW r \in Runs, RenewForDelivery(r) PROVE Fresh'
  BY <1>9 DEF RenewForDelivery, Renewed, GoTo, Mine
<1>10. ASSUME NEW r \in Runs, DropLost(r) PROVE Fresh'
  BY <1>10 DEF DropLost, Leave, Mine
<1>11. ASSUME NEW r \in Runs, DeliveryRefused(r) PROVE Fresh'
  BY <1>11 DEF DeliveryRefused, GoTo
<1>12. ASSUME NEW r \in Runs, DeliveryAccepted(r) PROVE Fresh'
  BY <1>12 DEF DeliveryAccepted, EventNumber
<1>13. ASSUME NEW r \in Runs, Delivered(r) PROVE Fresh'
  BY <1>13 DEF Delivered, GoTo
<1>14. ASSUME NEW r \in Runs, Unconfirmed(r) PROVE Fresh'
  BY <1>14 DEF Unconfirmed, GoTo
<1>15. ASSUME NEW r \in Runs, Commit(r) PROVE Fresh'
  <2> SUFFICES ASSUME NEW q \in Runs, NEW k \in Batched(q)'
               PROVE  /\ status'[k] # "absent"
                      /\ snap'[q][k] <= fires'[k]
                      /\ owner'[k] = q => snap'[q][k] = fires'[k]
                      /\ FireLimit[k] # 0 => snap'[q][k] < FireLimit[k]
    BY Zenon DEF Fresh
  <2>1. k \in Batched(q) /\ k \in Jobs /\ (q = r => k # cur[r])
    BY <1>15 DEF Commit, Leave
  <2>2. snap'[q][k] = snap[q][k]
    BY <1>15, <2>1 DEF Commit, Leave
  <2>3. CASE k # cur[r]
    BY <1>15, <2>1, <2>2, <2>3 DEF Commit
  <2>4. CASE k = cur[r]
    <3>1. snap[r][k] = fires[k] /\ fires[k] \in Nat /\ snap[q][k] \in Nat
      BY <1>15, <2>1, <2>4, OwnerIsFresh, Values DEF Commit
    <3>2. fires'[k] \in {fires[k], fires[k] + 1} /\ owner'[k] = NoRun
      BY <1>15, <2>1, <2>4, <3>1 DEF Commit, FiresAfter
    <3>3. status'[k] # "absent"
      BY <1>15, <2>1, <2>4 DEF Commit, StatusAfter, Plans
    <3>4. /\ snap[q][k] <= fires[k]
          /\ FireLimit[k] # 0 => snap[q][k] < FireLimit[k]
      BY <2>1
    <3> QED
      BY <2>1, <2>2, <3>1, <3>2, <3>3, <3>4
  <2> QED
    BY <2>3, <2>4
<1>16. ASSUME NEW r \in Runs, CommitLost(r) PROVE Fresh'
  BY <1>16 DEF CommitLost, Leave, Mine
<1>17. ASSUME NEW r \in Runs, StatementFailed(r) PROVE Fresh'
  <2> SUFFICES ASSUME NEW q \in Runs, NEW k \in Batched(q)'
               PROVE  /\ status'[k] # "absent"
                      /\ snap'[q][k] <= fires'[k]
                      /\ owner'[k] = q => snap'[q][k] = fires'[k]
                      /\ FireLimit[k] # 0 => snap'[q][k] < FireLimit[k]
    BY Zenon DEF Fresh
  <2>1. k \in Batched(q)
    BY <1>17 DEF StatementFailed, IsNext, GoTo
  <2> QED
    BY <1>17, <2>1 DEF StatementFailed
<1>18. ASSUME NEW r \in Runs, Crash(r) PROVE Fresh'
  BY <1>18 DEF Crash, Leave
<1>19. CASE Tick
  BY <1>19 DEF Tick, Later
<1>20. CASE UNCHANGED vars
  BY <1>20 DEF vars
<1> QED
  BY <1>1, <1>2, <1>3, <1>4, <1>5, <1>6, <1>7, <1>8, <1>9, <1>10, <1>11, <1>12,
      <1>13, <1>14, <1>15, <1>16, <1>17, <1>18, <1>19, <1>20 DEF Next, RunStep

(* An event a run is about to count stays accepted. *)
LEMMA AttemptStep == IInv /\ [Next]_vars => Attempt'
<1> SUFFICES ASSUME IInv, [Next]_vars PROVE Attempt'
  OBVIOUS
<1> USE JobsAssumption, RunsAssumption, FireLimitAssumption, LimitAssumption, LeaseAssumption
<1> USE DEF IInv, TypeOK, RunShape, Attempt, Working, Steps, rows, runs, world,
    NoJob
<1>1. ASSUME NEW j \in Jobs, Insert(j) PROVE Attempt'
  BY <1>1 DEF Insert
<1>2. ASSUME NEW j \in Jobs, Cancel(j) PROVE Attempt'
  BY <1>2 DEF Cancel, Unleased
<1>3. ASSUME NEW r \in Runs, Claim(r) PROVE Attempt'
  BY <1>3 DEF Claim, Batch, Unleased
<1>4. ASSUME NEW r \in Runs, StartJob(r) PROVE Attempt'
  BY <1>4 DEF StartJob, Renewed, IsNext, Mine
<1>5. ASSUME NEW r \in Runs, SkipLost(r) PROVE Attempt'
  BY <1>5 DEF SkipLost, Leave, IsNext, Mine
<1>6. ASSUME NEW r \in Runs, NotReady(r) PROVE Attempt'
  BY <1>6 DEF NotReady, GoTo
<1>7. ASSUME NEW r \in Runs, CheckFailed(r) PROVE Attempt'
  BY <1>7 DEF CheckFailed, GoTo
<1>8. ASSUME NEW r \in Runs, Ready(r) PROVE Attempt'
  BY <1>8 DEF Ready, GoTo
<1>9. ASSUME NEW r \in Runs, RenewForDelivery(r) PROVE Attempt'
  BY <1>9 DEF RenewForDelivery, Renewed, GoTo, Mine
<1>10. ASSUME NEW r \in Runs, DropLost(r) PROVE Attempt'
  BY <1>10 DEF DropLost, Leave, Mine
<1>11. ASSUME NEW r \in Runs, DeliveryRefused(r) PROVE Attempt'
  BY <1>11 DEF DeliveryRefused, GoTo
<1>12. ASSUME NEW r \in Runs, DeliveryAccepted(r) PROVE Attempt'
  BY <1>12 DEF DeliveryAccepted, EventNumber
<1>13. ASSUME NEW r \in Runs, Delivered(r) PROVE Attempt'
  BY <1>13 DEF Delivered, GoTo
<1>14. ASSUME NEW r \in Runs, Unconfirmed(r) PROVE Attempt'
  BY <1>14 DEF Unconfirmed, GoTo
<1>15. ASSUME NEW r \in Runs, Commit(r) PROVE Attempt'
  BY <1>15 DEF Commit, Leave, Mine, StatusAfter, FiresAfter, Reached
<1>16. ASSUME NEW r \in Runs, CommitLost(r) PROVE Attempt'
  BY <1>16 DEF CommitLost, Leave, Mine
<1>17. ASSUME NEW r \in Runs, StatementFailed(r) PROVE Attempt'
  BY <1>17 DEF StatementFailed, GoTo, IsNext
<1>18. ASSUME NEW r \in Runs, Crash(r) PROVE Attempt'
  BY <1>18 DEF Crash, Leave
<1>19. CASE Tick
  BY <1>19 DEF Tick, Later
<1>20. CASE UNCHANGED vars
  BY <1>20 DEF vars
<1> QED
  BY <1>1, <1>2, <1>3, <1>4, <1>5, <1>6, <1>7, <1>8, <1>9, <1>10, <1>11, <1>12,
      <1>13, <1>14, <1>15, <1>16, <1>17, <1>18, <1>19, <1>20 DEF Next, RunStep

(* A run that believes its lease owns the row: claims, cancels and other
   runs' updates cannot touch it before the lease is over. *)
LEMMA LeaseStep == IInv /\ [Next]_vars => LeaseProtects'
<1> SUFFICES ASSUME IInv, [Next]_vars PROVE LeaseProtects'
  OBVIOUS
<1> USE JobsAssumption, RunsAssumption, FireLimitAssumption, LimitAssumption, LeaseAssumption
<1> USE DEF IInv, TypeOK, RunShape, LeaseProtects, Mine, Working, Steps, rows, runs,
    world, NoJob
<1>1. ASSUME NEW j \in Jobs, Insert(j) PROVE LeaseProtects'
  BY <1>1 DEF Insert
<1>2. ASSUME NEW j \in Jobs, Cancel(j) PROVE LeaseProtects'
  BY <1>2 DEF Cancel, Unleased
<1>3. ASSUME NEW r \in Runs, Claim(r) PROVE LeaseProtects'
  BY <1>3 DEF Claim, Batch, Unleased
<1>4. ASSUME NEW r \in Runs, StartJob(r) PROVE LeaseProtects'
  BY <1>4 DEF StartJob, Renewed, IsNext, Mine
<1>5. ASSUME NEW r \in Runs, SkipLost(r) PROVE LeaseProtects'
  BY <1>5 DEF SkipLost, Leave, IsNext, Mine
<1>6. ASSUME NEW r \in Runs, NotReady(r) PROVE LeaseProtects'
  BY <1>6 DEF NotReady, GoTo
<1>7. ASSUME NEW r \in Runs, CheckFailed(r) PROVE LeaseProtects'
  BY <1>7 DEF CheckFailed, GoTo
<1>8. ASSUME NEW r \in Runs, Ready(r) PROVE LeaseProtects'
  BY <1>8 DEF Ready, GoTo
<1>9. ASSUME NEW r \in Runs, RenewForDelivery(r) PROVE LeaseProtects'
  BY <1>9 DEF RenewForDelivery, Renewed, GoTo, Mine
<1>10. ASSUME NEW r \in Runs, DropLost(r) PROVE LeaseProtects'
  BY <1>10 DEF DropLost, Leave, Mine
<1>11. ASSUME NEW r \in Runs, DeliveryRefused(r) PROVE LeaseProtects'
  BY <1>11 DEF DeliveryRefused, GoTo
<1>12. ASSUME NEW r \in Runs, DeliveryAccepted(r) PROVE LeaseProtects'
  BY <1>12 DEF DeliveryAccepted, EventNumber
<1>13. ASSUME NEW r \in Runs, Delivered(r) PROVE LeaseProtects'
  BY <1>13 DEF Delivered, GoTo
<1>14. ASSUME NEW r \in Runs, Unconfirmed(r) PROVE LeaseProtects'
  BY <1>14 DEF Unconfirmed, GoTo
<1>15. ASSUME NEW r \in Runs, Commit(r) PROVE LeaseProtects'
  BY <1>15 DEF Commit, Leave, Mine, StatusAfter, FiresAfter, Reached
<1>16. ASSUME NEW r \in Runs, CommitLost(r) PROVE LeaseProtects'
  BY <1>16 DEF CommitLost, Leave, Mine
<1>17. ASSUME NEW r \in Runs, StatementFailed(r) PROVE LeaseProtects'
  BY <1>17 DEF StatementFailed, GoTo, IsNext
<1>18. ASSUME NEW r \in Runs, Crash(r) PROVE LeaseProtects'
  BY <1>18 DEF Crash, Leave
<1>19. CASE Tick
  BY <1>19 DEF Tick, Later
<1>20. CASE UNCHANGED vars
  BY <1>20 DEF vars
<1> QED
  BY <1>1, <1>2, <1>3, <1>4, <1>5, <1>6, <1>7, <1>8, <1>9, <1>10, <1>11, <1>12,
      <1>13, <1>14, <1>15, <1>16, <1>17, <1>18, <1>19, <1>20 DEF Next, RunStep

(* Counting and accepting keep to the order of the numbers. *)
LEMMA NumbersStep == IInv /\ [Next]_vars => EventNumbers'
<1> SUFFICES ASSUME IInv, [Next]_vars PROVE EventNumbers'
  OBVIOUS
<1> USE JobsAssumption, RunsAssumption, FireLimitAssumption, LimitAssumption, LeaseAssumption
<1> USE DEF IInv, TypeOK, RunShape, Fresh, Batched, Attempt, EventNumbers, Working,
    Steps, rows, runs, world, NoJob
<1>1. ASSUME NEW j \in Jobs, Insert(j) PROVE EventNumbers'
  BY <1>1 DEF Insert
<1>2. ASSUME NEW j \in Jobs, Cancel(j) PROVE EventNumbers'
  BY <1>2 DEF Cancel, Unleased
<1>3. ASSUME NEW r \in Runs, Claim(r) PROVE EventNumbers'
  BY <1>3 DEF Claim, Batch, Unleased
<1>4. ASSUME NEW r \in Runs, StartJob(r) PROVE EventNumbers'
  BY <1>4 DEF StartJob, Renewed, IsNext, Mine
<1>5. ASSUME NEW r \in Runs, SkipLost(r) PROVE EventNumbers'
  BY <1>5 DEF SkipLost, Leave, IsNext, Mine
<1>6. ASSUME NEW r \in Runs, NotReady(r) PROVE EventNumbers'
  BY <1>6 DEF NotReady, GoTo
<1>7. ASSUME NEW r \in Runs, CheckFailed(r) PROVE EventNumbers'
  BY <1>7 DEF CheckFailed, GoTo
<1>8. ASSUME NEW r \in Runs, Ready(r) PROVE EventNumbers'
  BY <1>8 DEF Ready, GoTo
<1>9. ASSUME NEW r \in Runs, RenewForDelivery(r) PROVE EventNumbers'
  BY <1>9 DEF RenewForDelivery, Renewed, GoTo, Mine
<1>10. ASSUME NEW r \in Runs, DropLost(r) PROVE EventNumbers'
  BY <1>10 DEF DropLost, Leave, Mine
<1>11. ASSUME NEW r \in Runs, DeliveryRefused(r) PROVE EventNumbers'
  BY <1>11 DEF DeliveryRefused, GoTo
<1>12. ASSUME NEW r \in Runs, DeliveryAccepted(r) PROVE EventNumbers'
  BY <1>12 DEF DeliveryAccepted, EventNumber
<1>13. ASSUME NEW r \in Runs, Delivered(r) PROVE EventNumbers'
  BY <1>13 DEF Delivered, GoTo
<1>14. ASSUME NEW r \in Runs, Unconfirmed(r) PROVE EventNumbers'
  BY <1>14 DEF Unconfirmed, GoTo
<1>15. ASSUME NEW r \in Runs, Commit(r) PROVE EventNumbers'
  <2>1. cur[r] \in Jobs /\ snap[r][cur[r]] = fires[cur[r]]
    BY <1>15, OwnerIsFresh DEF Commit
  <2>2. fires[cur[r]] \in Nat /\ accepted[cur[r]] \subseteq 1..(fires[cur[r]] + 1)
    BY <2>1, Values DEF EventNumbers
  <2>3. plan[r] = "fire" => fires[cur[r]] + 1 \in accepted[cur[r]]
    BY <1>15, <2>1, FireIsAccepted DEF Commit
  <2> SUFFICES ASSUME NEW k \in Jobs
               PROVE  /\ 1..fires'[k] \subseteq accepted[k]
                      /\ accepted[k] \subseteq 1..(fires'[k] + 1)
    BY <1>15 DEF Commit
  <2>4. CASE k # cur[r]
    BY <1>15, <2>1, <2>4 DEF Commit
  <2>5. CASE k = cur[r]
    <3>1. fires'[k] = FiresAfter(r, k) /\ 1..fires[k] \subseteq accepted[k]
      BY <1>15, <2>1, <2>5 DEF Commit
    <3>2. CASE plan[r] = "fire"
      <4>1. fires'[k] = fires[k] + 1
        BY <2>1, <2>5, <3>1, <3>2 DEF FiresAfter
      <4>2. accepted[k] = 1..(fires[k] + 1) /\ accepted[k] \subseteq 1..((fires[k] + 1) + 1)
        BY <2>2, <2>3, <2>5, <3>1, <3>2, NextNumber
      <4> QED
        BY <4>1, <4>2
    <3>3. CASE plan[r] # "fire"
      BY <2>2, <2>5, <3>1, <3>3 DEF FiresAfter
    <3> QED
      BY <3>2, <3>3
  <2> QED
    BY <2>4, <2>5
<1>16. ASSUME NEW r \in Runs, CommitLost(r) PROVE EventNumbers'
  BY <1>16 DEF CommitLost, Leave, Mine
<1>17. ASSUME NEW r \in Runs, StatementFailed(r) PROVE EventNumbers'
  BY <1>17 DEF StatementFailed, GoTo, IsNext
<1>18. ASSUME NEW r \in Runs, Crash(r) PROVE EventNumbers'
  BY <1>18 DEF Crash, Leave
<1>19. CASE Tick
  BY <1>19 DEF Tick, Later
<1>20. CASE UNCHANGED vars
  BY <1>20 DEF vars
<1> QED
  BY <1>1, <1>2, <1>3, <1>4, <1>5, <1>6, <1>7, <1>8, <1>9, <1>10, <1>11, <1>12,
      <1>13, <1>14, <1>15, <1>16, <1>17, <1>18, <1>19, <1>20 DEF Next, RunStep

(* No event beyond the limit is accepted or counted. *)
LEMMA LimitStep == IInv /\ [Next]_vars => FireLimitKept'
<1> SUFFICES ASSUME IInv, [Next]_vars PROVE FireLimitKept'
  OBVIOUS
<1> USE JobsAssumption, RunsAssumption, FireLimitAssumption, LimitAssumption, LeaseAssumption
<1> USE DEF IInv, TypeOK, RunShape, RowShape, Fresh, Batched, Attempt,
    FireLimitKept, Working, Steps, rows, runs, world, NoJob
<1>1. ASSUME NEW j \in Jobs, Insert(j) PROVE FireLimitKept'
  BY <1>1 DEF Insert
<1>2. ASSUME NEW j \in Jobs, Cancel(j) PROVE FireLimitKept'
  BY <1>2 DEF Cancel, Unleased
<1>3. ASSUME NEW r \in Runs, Claim(r) PROVE FireLimitKept'
  BY <1>3 DEF Claim, Batch, Unleased
<1>4. ASSUME NEW r \in Runs, StartJob(r) PROVE FireLimitKept'
  BY <1>4 DEF StartJob, Renewed, IsNext, Mine
<1>5. ASSUME NEW r \in Runs, SkipLost(r) PROVE FireLimitKept'
  BY <1>5 DEF SkipLost, Leave, IsNext, Mine
<1>6. ASSUME NEW r \in Runs, NotReady(r) PROVE FireLimitKept'
  BY <1>6 DEF NotReady, GoTo
<1>7. ASSUME NEW r \in Runs, CheckFailed(r) PROVE FireLimitKept'
  BY <1>7 DEF CheckFailed, GoTo
<1>8. ASSUME NEW r \in Runs, Ready(r) PROVE FireLimitKept'
  BY <1>8 DEF Ready, GoTo
<1>9. ASSUME NEW r \in Runs, RenewForDelivery(r) PROVE FireLimitKept'
  BY <1>9 DEF RenewForDelivery, Renewed, GoTo, Mine
<1>10. ASSUME NEW r \in Runs, DropLost(r) PROVE FireLimitKept'
  BY <1>10 DEF DropLost, Leave, Mine
<1>11. ASSUME NEW r \in Runs, DeliveryRefused(r) PROVE FireLimitKept'
  BY <1>11 DEF DeliveryRefused, GoTo
<1>12. ASSUME NEW r \in Runs, DeliveryAccepted(r) PROVE FireLimitKept'
  BY <1>12 DEF DeliveryAccepted, EventNumber
<1>13. ASSUME NEW r \in Runs, Delivered(r) PROVE FireLimitKept'
  BY <1>13 DEF Delivered, GoTo
<1>14. ASSUME NEW r \in Runs, Unconfirmed(r) PROVE FireLimitKept'
  BY <1>14 DEF Unconfirmed, GoTo
<1>15. ASSUME NEW r \in Runs, Commit(r) PROVE FireLimitKept'
  <2>1. cur[r] \in Jobs /\ snap[r][cur[r]] = fires[cur[r]] /\ status[cur[r]] = "pending"
    BY <1>15, OwnerIsFresh DEF Commit
  <2>2. fires[cur[r]] \in Nat /\ FireLimit[cur[r]] \in Nat
    BY <2>1, Values
  <2> SUFFICES ASSUME NEW k \in Jobs, FireLimit[k] # 0
               PROVE  /\ accepted[k] \subseteq 1..FireLimit[k]
                      /\ status'[k] = "pending" => fires'[k] < FireLimit[k]
                      /\ status'[k] = "fired" => fires'[k] = FireLimit[k]
    BY <1>15 DEF Commit
  <2>3. CASE k # cur[r]
    BY <1>15, <2>1, <2>3 DEF Commit
  <2>4. CASE k = cur[r]
    <3>1. status'[k] = StatusAfter(r, k) /\ fires'[k] = FiresAfter(r, k)
      BY <1>15, <2>1, <2>4 DEF Commit
    <3>2. accepted[k] \subseteq 1..FireLimit[k] /\ fires[k] < FireLimit[k]
      BY <2>1, <2>4
    <3>3. plan[r] # "fired"
      BY DEF Plans
    <3> QED
      BY <2>1, <2>2, <2>4, <3>1, <3>2, <3>3 DEF StatusAfter, FiresAfter, Reached
  <2> QED
    BY <2>3, <2>4
<1>16. ASSUME NEW r \in Runs, CommitLost(r) PROVE FireLimitKept'
  BY <1>16 DEF CommitLost, Leave, Mine
<1>17. ASSUME NEW r \in Runs, StatementFailed(r) PROVE FireLimitKept'
  BY <1>17 DEF StatementFailed, GoTo, IsNext
<1>18. ASSUME NEW r \in Runs, Crash(r) PROVE FireLimitKept'
  BY <1>18 DEF Crash, Leave
<1>19. CASE Tick
  BY <1>19 DEF Tick, Later
<1>20. CASE UNCHANGED vars
  BY <1>20 DEF vars
<1> QED
  BY <1>1, <1>2, <1>3, <1>4, <1>5, <1>6, <1>7, <1>8, <1>9, <1>10, <1>11, <1>12,
      <1>13, <1>14, <1>15, <1>16, <1>17, <1>18, <1>19, <1>20 DEF Next, RunStep

(* An attempt loses the protection of its lease only with an excuse. *)
LEMMA ProtectedStep == IInv /\ [Next]_vars => Protected'
<1> SUFFICES ASSUME IInv, [Next]_vars PROVE Protected'
  OBVIOUS
<1> USE JobsAssumption, RunsAssumption, FireLimitAssumption, LimitAssumption, LeaseAssumption
<1> USE DEF IInv, TypeOK, RunShape, Protected, Exposed, Attempt, LeaseProtects,
    Mine, Working, Steps, rows, runs, world, NoJob
<1>1. ASSUME NEW j \in Jobs, Insert(j) PROVE Protected'
  BY <1>1 DEF Insert
<1>2. ASSUME NEW j \in Jobs, Cancel(j) PROVE Protected'
  BY <1>2 DEF Cancel, Unleased
<1>3. ASSUME NEW r \in Runs, Claim(r) PROVE Protected'
  BY <1>3 DEF Claim, Batch, Unleased
<1>4. ASSUME NEW r \in Runs, StartJob(r) PROVE Protected'
  BY <1>4 DEF StartJob, Renewed, IsNext, Mine
<1>5. ASSUME NEW r \in Runs, SkipLost(r) PROVE Protected'
  BY <1>5 DEF SkipLost, Leave, IsNext, Mine
<1>6. ASSUME NEW r \in Runs, NotReady(r) PROVE Protected'
  BY <1>6 DEF NotReady, GoTo
<1>7. ASSUME NEW r \in Runs, CheckFailed(r) PROVE Protected'
  BY <1>7 DEF CheckFailed, GoTo
<1>8. ASSUME NEW r \in Runs, Ready(r) PROVE Protected'
  BY <1>8 DEF Ready, GoTo
<1>9. ASSUME NEW r \in Runs, RenewForDelivery(r) PROVE Protected'
  BY <1>9 DEF RenewForDelivery, Renewed, GoTo, Mine
<1>10. ASSUME NEW r \in Runs, DropLost(r) PROVE Protected'
  BY <1>10 DEF DropLost, Leave, Mine
<1>11. ASSUME NEW r \in Runs, DeliveryRefused(r) PROVE Protected'
  BY <1>11 DEF DeliveryRefused, GoTo
<1>12. ASSUME NEW r \in Runs, DeliveryAccepted(r) PROVE Protected'
  BY <1>12 DEF DeliveryAccepted, EventNumber
<1>13. ASSUME NEW r \in Runs, Delivered(r) PROVE Protected'
  BY <1>13 DEF Delivered, GoTo
<1>14. ASSUME NEW r \in Runs, Unconfirmed(r) PROVE Protected'
  BY <1>14 DEF Unconfirmed, GoTo
<1>15. ASSUME NEW r \in Runs, Commit(r) PROVE Protected'
  BY <1>15 DEF Commit, Leave, Mine, StatusAfter, FiresAfter, Reached
<1>16. ASSUME NEW r \in Runs, CommitLost(r) PROVE Protected'
  BY <1>16 DEF CommitLost, Leave, Mine
<1>17. ASSUME NEW r \in Runs, StatementFailed(r) PROVE Protected'
  <2> SUFFICES ASSUME NEW q \in Runs
               PROVE  /\ Exposed(q)' /\ ~excuse'[cur'[q]] => hold'[q] > 0
                      /\ sent'[q] /\ plan'[q] = "release" => excuse'[cur'[q]]
    BY Zenon DEF Protected
  <2>1. hold'[q] = hold[q] /\ sent'[q] = sent[q]
    BY <1>17 DEF StatementFailed
  <2>2. Exposed(q)' => Exposed(q) /\ cur'[q] = cur[q] /\ cur[q] \in Jobs
    BY <1>17 DEF StatementFailed, GoTo
  <2>3. cur[q] \in Jobs => (excuse'[cur[q]] <=> excuse[cur[q]] \/ (sent[r] /\ cur[r] = cur[q]))
    BY <1>17 DEF StatementFailed
  <2>4. q # r => plan'[q] = plan[q]
    BY <1>17 DEF StatementFailed, GoTo
  <2>5. ASSUME Exposed(q)', ~excuse'[cur'[q]] PROVE hold'[q] > 0
    BY <2>1, <2>2, <2>3, <2>5
  <2>6. ASSUME sent'[q], plan'[q] = "release" PROVE excuse'[cur'[q]]
    BY <2>1, <2>2, <2>3, <2>4, <2>6
  <2> QED
    BY <2>5, <2>6
<1>18. ASSUME NEW r \in Runs, Crash(r) PROVE Protected'
  <2> SUFFICES ASSUME NEW q \in Runs
               PROVE  /\ Exposed(q)' /\ ~excuse'[cur'[q]] => hold'[q] > 0
                      /\ sent'[q] /\ plan'[q] = "release" => excuse'[cur'[q]]
    BY Zenon DEF Protected
  <2>1. CASE q = r
    BY <1>18, <2>1 DEF Crash, Leave
  <2>2. CASE q # r
    <3>1. /\ hold'[q] = hold[q] /\ sent'[q] = sent[q] /\ pc'[q] = pc[q]
          /\ plan'[q] = plan[q] /\ cur'[q] = cur[q]
      BY <1>18, <2>2 DEF Crash, Leave
    <3>2. cur[q] \in Jobs /\ excuse[cur[q]] => excuse'[cur[q]]
      BY <1>18 DEF Crash
    <3>3. Exposed(q) => cur[q] \in Jobs
      OBVIOUS
    <3> QED
      BY <3>1, <3>2, <3>3
  <2> QED
    BY <2>1, <2>2
<1>19. CASE Tick
  BY <1>19 DEF Tick, Later
<1>20. CASE UNCHANGED vars
  BY <1>20 DEF vars
<1> QED
  BY <1>1, <1>2, <1>3, <1>4, <1>5, <1>6, <1>7, <1>8, <1>9, <1>10, <1>11, <1>12,
      <1>13, <1>14, <1>15, <1>16, <1>17, <1>18, <1>19, <1>20 DEF Next, RunStep

(* Without an excuse only the event a run is about to count is uncounted. *)
LEMMA CleanStep == IInv /\ [Next]_vars => Clean'
<1> SUFFICES ASSUME IInv, [Next]_vars PROVE Clean'
  OBVIOUS
<1> USE JobsAssumption, RunsAssumption, FireLimitAssumption, LimitAssumption, LeaseAssumption
<1> USE DEF IInv, TypeOK, RunShape, RowShape, Fresh, Batched, Attempt, Protected,
    Exposed, Clean, LeaseProtects, Mine, EventNumbers, Working, Steps, rows, runs,
    world, NoJob
<1>1. ASSUME NEW j \in Jobs, Insert(j) PROVE Clean'
  BY <1>1 DEF Insert
<1>2. ASSUME NEW j \in Jobs, Cancel(j) PROVE Clean'
  BY <1>2 DEF Cancel, Unleased
<1>3. ASSUME NEW r \in Runs, Claim(r) PROVE Clean'
  BY <1>3 DEF Claim, Batch, Unleased
<1>4. ASSUME NEW r \in Runs, StartJob(r) PROVE Clean'
  <2> SUFFICES ASSUME NEW k \in Jobs, ~excuse'[k],
                      status'[k] \in {"absent", "pending", "fired", "superseded", "canceled"},
                      \A q \in Runs : ~(sent'[q] /\ cur'[q] = k)
               PROVE  accepted'[k] = 1..fires'[k]
    BY Zenon DEF Clean
  <2>1. /\ excuse'[k] = excuse[k] /\ status'[k] = status[k]
        /\ accepted'[k] = accepted[k] /\ fires'[k] = fires[k]
    BY <1>4 DEF StartJob
  <2>2. ASSUME NEW q \in Runs PROVE ~(sent[q] /\ cur[q] = k)
    <3>1. sent'[q] = sent[q]
      BY <1>4 DEF StartJob
    <3>2. sent[q] => q # r
      BY <1>4, SentHasJob DEF StartJob, Exposed
    <3>3. q # r => cur'[q] = cur[q]
      BY <1>4 DEF StartJob
    <3> QED
      BY <3>1, <3>2, <3>3
  <2>3. accepted[k] = 1..fires[k]
    BY <2>1, <2>2, CleanAt
  <2> QED
    BY ONLY <2>1, <2>3
<1>5. ASSUME NEW r \in Runs, SkipLost(r) PROVE Clean'
  <2> SUFFICES ASSUME NEW k \in Jobs, ~excuse'[k],
                      status'[k] \in {"absent", "pending", "fired", "superseded", "canceled"},
                      \A q \in Runs : ~(sent'[q] /\ cur'[q] = k)
               PROVE  accepted'[k] = 1..fires'[k]
    BY Zenon DEF Clean
  <2>1. /\ excuse'[k] = excuse[k] /\ status'[k] = status[k]
        /\ accepted'[k] = accepted[k] /\ fires'[k] = fires[k]
    BY <1>5 DEF SkipLost
  <2>2. ASSUME NEW q \in Runs PROVE ~(sent[q] /\ cur[q] = k)
    <3>1. sent[q] => q # r
      BY <1>5, SentHasJob DEF SkipLost, Exposed
    <3>2. q # r => sent'[q] = sent[q] /\ cur'[q] = cur[q]
      BY <1>5 DEF SkipLost, Leave
    <3> QED
      BY <3>1, <3>2
  <2>3. accepted[k] = 1..fires[k]
    BY <2>1, <2>2, CleanAt
  <2> QED
    BY ONLY <2>1, <2>3
<1>6. ASSUME NEW r \in Runs, NotReady(r) PROVE Clean'
  BY <1>6 DEF NotReady, GoTo
<1>7. ASSUME NEW r \in Runs, CheckFailed(r) PROVE Clean'
  BY <1>7 DEF CheckFailed, GoTo
<1>8. ASSUME NEW r \in Runs, Ready(r) PROVE Clean'
  BY <1>8 DEF Ready, GoTo
<1>9. ASSUME NEW r \in Runs, RenewForDelivery(r) PROVE Clean'
  BY <1>9 DEF RenewForDelivery, Renewed, GoTo, Mine
<1>10. ASSUME NEW r \in Runs, DropLost(r) PROVE Clean'
  BY <1>10 DEF DropLost, Leave, Mine
<1>11. ASSUME NEW r \in Runs, DeliveryRefused(r) PROVE Clean'
  BY <1>11 DEF DeliveryRefused, GoTo
<1>12. ASSUME NEW r \in Runs, DeliveryAccepted(r) PROVE Clean'
  BY <1>12 DEF DeliveryAccepted, EventNumber
<1>13. ASSUME NEW r \in Runs, Delivered(r) PROVE Clean'
  BY <1>13 DEF Delivered, GoTo
<1>14. ASSUME NEW r \in Runs, Unconfirmed(r) PROVE Clean'
  BY <1>14 DEF Unconfirmed, GoTo
<1>15. ASSUME NEW r \in Runs, Commit(r) PROVE Clean'
  <2> SUFFICES ASSUME NEW k \in Jobs, ~excuse'[k],
                      status'[k] \in {"absent", "pending", "fired", "superseded", "canceled"},
                      \A q \in Runs : ~(sent'[q] /\ cur'[q] = k)
               PROVE  accepted'[k] = 1..fires'[k]
    BY Zenon DEF Clean
  <2>1. /\ cur[r] \in Jobs /\ snap[r][cur[r]] = fires[cur[r]]
        /\ status[cur[r]] = "pending" /\ owner[cur[r]] = r
    BY <1>15, OwnerIsFresh DEF Commit
  <2>2. excuse'[k] = excuse[k] /\ accepted'[k] = accepted[k]
    BY <1>15 DEF Commit
  <2>3. ASSUME NEW q \in Runs, q # r PROVE ~(sent[q] /\ cur[q] = k)
    BY <1>15, <2>3 DEF Commit, Leave
  <2>4. CASE k # cur[r]
    <3>1. status'[k] = status[k] /\ fires'[k] = fires[k]
      BY <1>15, <2>1, <2>4 DEF Commit
    <3> QED
      <4>1. ASSUME NEW q \in Runs PROVE ~(sent[q] /\ cur[q] = k)
        BY <2>3, <2>4
      <4>2. accepted[k] = 1..fires[k]
        BY <2>2, <3>1, <4>1, CleanAt
      <4> QED
        BY <2>2, <3>1, <4>2
  <2>5. CASE k = cur[r]
    <3>1. fires'[k] = FiresAfter(r, k) /\ status'[k] = StatusAfter(r, k)
      BY <1>15, <2>1, <2>5 DEF Commit
    <3>2. fires[k] \in Nat /\ 1..fires[k] \subseteq accepted[k]
          /\ accepted[k] \subseteq 1..(fires[k] + 1)
      BY <2>1, <2>5, Values DEF EventNumbers
    <3>3. CASE plan[r] = "fire"
      <4>1. fires[k] + 1 \in accepted[k]
        BY <1>15, <2>1, <2>5, <3>3, FireIsAccepted DEF Commit
      <4>2. fires'[k] = fires[k] + 1
        BY <2>1, <2>5, <3>1, <3>3 DEF FiresAfter
      <4> QED
        <5>1. accepted[k] = 1..(fires[k] + 1)
          <6> HIDE DEF IInv, TypeOK, RunShape, RowShape, Fresh, Batched, Attempt, Protected,
                       Exposed, Clean, LeaseProtects, Mine, EventNumbers, Working, Steps
          <6> QED
            BY ONLY <3>2, <4>1, NextNumber
        <5> QED
          BY <2>2, <4>2, <5>1
    <3>4. CASE plan[r] # "fire"
      <4>1. fires'[k] = fires[k]
        BY <3>1, <3>4 DEF FiresAfter
      <4>2. plan[r] \in {"release", "superseded"}
        <5>1. status'[k] = "pending" \/ status'[k] = plan[r]
          BY <3>1, <3>4 DEF StatusAfter
        <5>2. plan[r] \in Plans \ {"none", "fire"}
          BY <1>15, <3>4 DEF Commit
        <5> QED
          BY <3>1, <3>4, <5>1, <5>2 DEF StatusAfter, Plans
      <4>3. ~sent[r]
        BY <1>15, <2>2, <2>5, <3>4, <4>2 DEF Commit
      <4>4. accepted[k] = 1..fires[k]
        <5>1. ASSUME NEW q \in Runs PROVE ~(sent[q] /\ cur[q] = k)
          BY <2>3, <4>3
        <5> QED
          BY <2>1, <2>2, <2>5, <5>1, CleanAt
      <4> QED
        BY <2>2, <4>1, <4>4
    <3> QED
      BY <3>3, <3>4
  <2> QED
    BY <2>4, <2>5
<1>16. ASSUME NEW r \in Runs, CommitLost(r) PROVE Clean'
  BY <1>16 DEF CommitLost, Leave, Mine
<1>17. ASSUME NEW r \in Runs, StatementFailed(r) PROVE Clean'
  BY <1>17 DEF StatementFailed, GoTo, IsNext
<1>18. ASSUME NEW r \in Runs, Crash(r) PROVE Clean'
  BY <1>18 DEF Crash, Leave
<1>19. CASE Tick
  BY <1>19 DEF Tick, Later
<1>20. CASE UNCHANGED vars
  BY <1>20 DEF vars
<1> QED
  BY <1>1, <1>2, <1>3, <1>4, <1>5, <1>6, <1>7, <1>8, <1>9, <1>10, <1>11, <1>12,
      <1>13, <1>14, <1>15, <1>16, <1>17, <1>18, <1>19, <1>20 DEF Next, RunStep

(* An event is accepted again only if the job has an excuse: two exposed
   runs without excuse would both own the row. *)
LEMMA DuplicateStep == IInv /\ [Next]_vars => DuplicateHasCause'
<1> SUFFICES ASSUME IInv, [Next]_vars PROVE DuplicateHasCause'
  OBVIOUS
<1> USE JobsAssumption, RunsAssumption, FireLimitAssumption, LimitAssumption, LeaseAssumption
<1> USE DEF IInv, TypeOK, RunShape, RowShape, Fresh, Batched, Attempt, Protected,
    Exposed, Clean, LeaseProtects, Mine, EventNumbers, DuplicateHasCause, Working,
    Steps, rows, runs, world, NoJob
<1>1. ASSUME NEW j \in Jobs, Insert(j) PROVE DuplicateHasCause'
  BY <1>1 DEF Insert
<1>2. ASSUME NEW j \in Jobs, Cancel(j) PROVE DuplicateHasCause'
  BY <1>2 DEF Cancel, Unleased
<1>3. ASSUME NEW r \in Runs, Claim(r) PROVE DuplicateHasCause'
  BY <1>3 DEF Claim, Batch, Unleased
<1>4. ASSUME NEW r \in Runs, StartJob(r) PROVE DuplicateHasCause'
  BY <1>4 DEF StartJob, Renewed, IsNext, Mine
<1>5. ASSUME NEW r \in Runs, SkipLost(r) PROVE DuplicateHasCause'
  BY <1>5 DEF SkipLost, Leave, IsNext, Mine
<1>6. ASSUME NEW r \in Runs, NotReady(r) PROVE DuplicateHasCause'
  BY <1>6 DEF NotReady, GoTo
<1>7. ASSUME NEW r \in Runs, CheckFailed(r) PROVE DuplicateHasCause'
  BY <1>7 DEF CheckFailed, GoTo
<1>8. ASSUME NEW r \in Runs, Ready(r) PROVE DuplicateHasCause'
  BY <1>8 DEF Ready, GoTo
<1>9. ASSUME NEW r \in Runs, RenewForDelivery(r) PROVE DuplicateHasCause'
  BY <1>9 DEF RenewForDelivery, Renewed, GoTo, Mine
<1>10. ASSUME NEW r \in Runs, DropLost(r) PROVE DuplicateHasCause'
  BY <1>10 DEF DropLost, Leave, Mine
<1>11. ASSUME NEW r \in Runs, DeliveryRefused(r) PROVE DuplicateHasCause'
  BY <1>11 DEF DeliveryRefused, GoTo
<1>12. ASSUME NEW r \in Runs, DeliveryAccepted(r) PROVE DuplicateHasCause'
  <2>1. cur[r] \in Jobs /\ pc[r] = "deliver"
    BY <1>12 DEF DeliveryAccepted
  <2>2. ASSUME ~excuse[cur[r]] PROVE EventNumber(r) \notin accepted[cur[r]]
    <3>1. hold[r] > 0
      BY <2>1, <2>2
    <3>2. owner[cur[r]] = r /\ status[cur[r]] = "pending"
      BY <3>1
    <3>3. snap[r][cur[r]] = fires[cur[r]] /\ fires[cur[r]] \in Nat
      BY <2>1, <3>2, OwnerIsFresh, Values DEF Mine
    <3>4. ASSUME NEW q \in Runs, sent[q], cur[q] = cur[r] PROVE FALSE
      <4>1. hold[q] > 0
        BY <2>2, <3>4
      <4>2. owner[cur[r]] = q
        BY <3>4, <4>1
      <4> QED
        BY <2>1, <3>2, <3>4, <4>2
    <3>5. accepted[cur[r]] = 1..fires[cur[r]]
      BY <2>1, <2>2, <3>2, <3>4
    <3> QED
      BY <3>3, <3>5 DEF EventNumber
  <2>3. ASSUME NEW k \in Jobs, again'[k] PROVE again[k] \/ (k = cur[r] /\ EventNumber(r) \in accepted[k])
    BY <1>12, <2>1, <2>3 DEF DeliveryAccepted
  <2>4. excuse' = excuse
    BY <1>12 DEF DeliveryAccepted
  <2> QED
    BY <2>2, <2>3, <2>4 DEF DuplicateHasCause
<1>13. ASSUME NEW r \in Runs, Delivered(r) PROVE DuplicateHasCause'
  BY <1>13 DEF Delivered, GoTo
<1>14. ASSUME NEW r \in Runs, Unconfirmed(r) PROVE DuplicateHasCause'
  BY <1>14 DEF Unconfirmed, GoTo
<1>15. ASSUME NEW r \in Runs, Commit(r) PROVE DuplicateHasCause'
  BY <1>15 DEF Commit, Leave, Mine, StatusAfter, FiresAfter, Reached
<1>16. ASSUME NEW r \in Runs, CommitLost(r) PROVE DuplicateHasCause'
  BY <1>16 DEF CommitLost, Leave, Mine
<1>17. ASSUME NEW r \in Runs, StatementFailed(r) PROVE DuplicateHasCause'
  BY <1>17 DEF StatementFailed, GoTo, IsNext
<1>18. ASSUME NEW r \in Runs, Crash(r) PROVE DuplicateHasCause'
  BY <1>18 DEF Crash, Leave
<1>19. CASE Tick
  BY <1>19 DEF Tick, Later
<1>20. CASE UNCHANGED vars
  BY <1>20 DEF vars
<1> QED
  BY <1>1, <1>2, <1>3, <1>4, <1>5, <1>6, <1>7, <1>8, <1>9, <1>10, <1>11, <1>12,
      <1>13, <1>14, <1>15, <1>16, <1>17, <1>18, <1>19, <1>20 DEF Next, RunStep

-----------------------------------------------------------------------------
(* The invariant holds initially. *)
LEMMA InitInv == Init => IInv
  <1> SUFFICES ASSUME Init PROVE IInv
    OBVIOUS
  <1> USE JobsAssumption, RunsAssumption, FireLimitAssumption, LimitAssumption, LeaseAssumption
  <1>1. TypeOK
    BY DEF Init, TypeOK, Status, Steps, Plans
  <1>2. RowShape /\ RunShape /\ Fresh /\ Attempt /\ Protected
    BY DEF Init, RowShape, RunShape, Fresh, Batched, Attempt, Protected, Exposed,
           Working, Steps, NoJob
  <1>3. Clean /\ LeaseProtects /\ EventNumbers /\ FireLimitKept /\ DuplicateHasCause
    BY DEF Init, Clean, LeaseProtects, EventNumbers, FireLimitKept, DuplicateHasCause
  <1> QED
    BY <1>1, <1>2, <1>3 DEF IInv

(* It is inductive. *)
LEMMA StepInv == IInv /\ [Next]_vars => IInv'
  BY TypeStep, ShapeStep, FreshStep, AttemptStep, LeaseStep, NumbersStep, LimitStep,
     ProtectedStep, CleanStep, DuplicateStep DEF IInv

(* The inductive invariant is an invariant of the program. *)
THEOREM Invariance == Spec => []IInv
  BY InitInv, StepInv, PTL DEF Spec

(* Every variable keeps its type. *)
THEOREM TypeCorrect == Spec => []TypeOK
  <1>1. IInv => TypeOK
    BY DEF IInv
  <1> QED
    BY <1>1, Invariance, PTL

(* While a run has time left on the lease it renewed, nobody else has      *)
(* touched the row.                                                        *)
THEOREM LeaseSafety == Spec => []LeaseProtects
  <1>1. IInv => LeaseProtects
    BY DEF IInv
  <1> QED
    BY <1>1, Invariance, PTL

(* Counted events are the first accepted ones; at most one is uncounted.   *)
THEOREM NumberSafety == Spec => []EventNumbers
  <1>1. IInv => EventNumbers
    BY DEF IInv
  <1> QED
    BY <1>1, Invariance, PTL

(* No event beyond maxFires reaches the app-server.                        *)
THEOREM LimitSafety == Spec => []FireLimitKept
  <1>1. IInv => FireLimitKept
    BY DEF IInv
  <1> QED
    BY <1>1, Invariance, PTL

(* A duplicate has one of the three causes.                                *)
THEOREM DuplicateSafety == Spec => []DuplicateHasCause
  <1>1. IInv => DuplicateHasCause
    BY DEF IInv
  <1> QED
    BY <1>1, Invariance, PTL

(* A closed job without an excuse counts exactly what was accepted: a run  *)
(* with an event on its way would own the row, and an owned row is pending.*)
THEOREM ClosedSafety == Spec => []ClosedCountIsExact
  <1>1. IInv => ClosedCountIsExact
    <2> SUFFICES ASSUME IInv, NEW j \in Jobs, ~excuse[j],
                        status[j] \in {"fired", "superseded", "canceled"}
                 PROVE  accepted[j] = 1..fires[j]
      BY DEF ClosedCountIsExact
    <2>1. ASSUME NEW r \in Runs, sent[r], cur[r] = j PROVE FALSE
      <3>1. hold[r] > 0
        BY <2>1 DEF IInv, Protected, Exposed
      <3>2. status[j] = "pending"
        BY <2>1, <3>1 DEF IInv, LeaseProtects, Mine
      <3> QED
        BY <3>2
    <2> QED
      BY <2>1 DEF IInv, Clean
  <1> QED
    BY <1>1, Invariance, PTL

-----------------------------------------------------------------------------
(* The program implements the ledger. *)

(* A claim, a renewal, a check, a lost lease, a failed statement, a crash  *)
(* and the clock change nothing the ledger sees; Insert adds, Cancel       *)
(* closes.                                                                 *)
LEMMA LedgerInitStep == Init => Ledger!LedgerInit
  BY DEF Init, Ledger!LedgerInit

LEMMA AcceptStep ==
  ASSUME IInv, NEW r \in Runs, DeliveryAccepted(r)
  PROVE  [Ledger!LedgerNext]_(Ledger!lvars)
  <1>1. cur[r] \in Jobs \ todo[r] /\ snap[r][cur[r]] < MaxEvents
    BY SentHasJob DEF IInv, DeliveryAccepted, Exposed, Attempt
  <1>2. /\ fires[cur[r]] \in Nat /\ snap[r][cur[r]] \in Nat
        /\ 1..fires[cur[r]] \subseteq accepted[cur[r]]
    BY <1>1, Values DEF IInv, EventNumbers
  <1>3. cur[r] \in Batched(r)
    BY <1>1, JobsAssumption DEF Batched, NoJob
  <1>4. status[cur[r]] # "absent" /\ snap[r][cur[r]] <= fires[cur[r]]
    BY <1>3 DEF IInv, Fresh
  <1>5. /\ accepted' = [accepted EXCEPT ![cur[r]] = @ \union {snap[r][cur[r]] + 1}]
        /\ UNCHANGED <<status, fires>>
    BY DEF DeliveryAccepted, EventNumber, rows
  <1>6. CASE snap[r][cur[r]] = fires[cur[r]]
    <2>1. Ledger!AcceptNext(cur[r])
      BY <1>1, <1>4, <1>5, <1>6 DEF Ledger!AcceptNext
    <2> QED
      BY <1>1, <2>1 DEF Ledger!LedgerNext
  <1>7. CASE snap[r][cur[r]] # fires[cur[r]]
    <2>1. snap[r][cur[r]] + 1 \in accepted[cur[r]]
      BY <1>2, <1>4, <1>7
    <2>2. accepted' = accepted
      BY <1>1, <1>5, <2>1 DEF IInv, TypeOK
    <2> QED
      BY <1>5, <2>2 DEF Ledger!lvars
  <1> QED
    BY <1>6, <1>7

LEMMA CommitStep ==
  ASSUME IInv, NEW r \in Runs, Commit(r)
  PROVE  [Ledger!LedgerNext]_(Ledger!lvars)
  <1>1. /\ cur[r] \in Jobs /\ status[cur[r]] = "pending"
        /\ snap[r][cur[r]] = fires[cur[r]]
    BY OwnerIsFresh DEF IInv, Commit, Working, Steps
  <1>2. /\ status' = [status EXCEPT ![cur[r]] = StatusAfter(r, cur[r])]
        /\ fires' = [fires EXCEPT ![cur[r]] = FiresAfter(r, cur[r])]
        /\ accepted' = accepted
    BY DEF Commit, world
  <1>3. CASE plan[r] = "fire"
    <2>1. fires[cur[r]] + 1 \in accepted[cur[r]]
      BY <1>1, <1>3, FireIsAccepted DEF IInv, Commit
    <2>2. Ledger!Count(cur[r])
      BY <1>1, <1>2, <1>3, <2>1
      DEF Ledger!Count, Ledger!Reached, StatusAfter, FiresAfter, Reached
    <2> QED
      BY <1>1, <2>2 DEF Ledger!LedgerNext
  <1>4. CASE plan[r] = "release"
    <2>1. status' = status /\ fires' = fires
      BY <1>1, <1>2, <1>4 DEF StatusAfter, FiresAfter, IInv, TypeOK
    <2> QED
      BY <1>2, <2>1 DEF Ledger!lvars
  <1>5. CASE plan[r] \notin {"fire", "release"}
    <2>1. plan[r] \in Ledger!Closed \ {"fired"}
      BY <1>5 DEF IInv, TypeOK, RunShape, Commit, Plans, Ledger!Closed
    <2>2. StatusAfter(r, cur[r]) = plan[r] /\ fires' = fires
      BY <1>1, <1>2, <1>5 DEF StatusAfter, FiresAfter, IInv, TypeOK
    <2>3. Ledger!Close(cur[r])
      BY <1>1, <1>2, <2>1, <2>2 DEF Ledger!Close
    <2> QED
      BY <1>1, <2>3 DEF Ledger!LedgerNext
  <1> QED
    BY <1>3, <1>4, <1>5

LEMMA LedgerStep ==
  IInv /\ [Next]_vars => [Ledger!LedgerNext]_(Ledger!lvars)
  <1> SUFFICES ASSUME IInv, [Next]_vars PROVE [Ledger!LedgerNext]_(Ledger!lvars)
    OBVIOUS
  <1>1. ASSUME NEW j \in Jobs, Insert(j) PROVE Ledger!LedgerNext
    <2>1. Ledger!Add(j)
      BY <1>1 DEF Insert, Ledger!Add, world
    <2> QED
      BY <2>1 DEF Ledger!LedgerNext
  <1>2. ASSUME NEW j \in Jobs, Cancel(j) PROVE Ledger!LedgerNext
    <2>1. Ledger!Close(j)
      BY <1>2 DEF Cancel, Unleased, Ledger!Close, Ledger!Closed, world
    <2> QED
      BY <2>1 DEF Ledger!LedgerNext
  <1>3. ASSUME NEW r \in Runs, Claim(r) PROVE UNCHANGED Ledger!lvars
    BY <1>3 DEF Claim, world, Ledger!lvars
  <1>4. ASSUME NEW r \in Runs,
               \/ StartJob(r) \/ SkipLost(r) \/ NotReady(r) \/ CheckFailed(r) \/ Ready(r)
               \/ RenewForDelivery(r) \/ DropLost(r) \/ DeliveryRefused(r)
        PROVE  UNCHANGED Ledger!lvars
    BY <1>4 DEF StartJob, SkipLost, NotReady, CheckFailed, Ready, RenewForDelivery,
                DropLost, DeliveryRefused, rows, world, Ledger!lvars
  <1>5. ASSUME NEW r \in Runs,
               \/ Delivered(r) \/ Unconfirmed(r) \/ CommitLost(r)
               \/ StatementFailed(r) \/ Crash(r)
        PROVE  UNCHANGED Ledger!lvars
    BY <1>5 DEF Delivered, Unconfirmed, CommitLost, StatementFailed, Crash,
                rows, world, Ledger!lvars
  <1>6. ASSUME Tick \/ UNCHANGED vars PROVE UNCHANGED Ledger!lvars
    BY <1>6 DEF Tick, vars, world, Ledger!lvars
  <1> QED
    BY <1>1, <1>2, <1>3, <1>4, <1>5, <1>6, AcceptStep, CommitStep DEF Next, RunStep

(* Every behaviour of the runs is a behaviour of the ledger. *)
THEOREM Refinement == Spec => ImplementsLedger
  <1>1. Spec => Ledger!LedgerInit /\ [][Ledger!LedgerNext]_(Ledger!lvars)
    BY LedgerInitStep, LedgerStep, Invariance, PTL DEF Spec
  <1> QED
    BY <1>1 DEF ImplementsLedger, Ledger!LedgerSpec
=============================================================================
