------------------------------ MODULE GoalWatch ------------------------------
(***************************************************************************)
(* A `goal` job of codex-wakectl (conditions.py, goal_condition_ready): it *)
(* fires when the goal of the watched thread has the wanted status and     *)
(* usage.  A milestone condition (--tokens-used-every, --time-used-every)  *)
(* fires again at every multiple of an interval; the job remembers the     *)
(* last multiple as a bucket.  The job is bound to one goal by the second  *)
(* in which the goal was created.                                          *)
(*                                                                         *)
(* An evaluation is one request.  Between it, the delivery and the commit  *)
(* the goal is worked on, completed, cleared and replaced; a delivery may  *)
(* be put off; runs die or lose their lease at any step.                   *)
(*                                                                         *)
(* One counter, `used`, stands for the tokens or for the time a goal used: *)
(* a condition has at most one interval.                                   *)
(***************************************************************************)
EXTENDS Integers, FiniteSets

CONSTANTS
  Runs,        \* codex-wakectl run processes
  NoRun,       \* lease_owner is NULL
  Conditions,  \* the conditions the job may be added with
  MaxUsed,     \* bound: usage of a goal
  MaxSecond    \* bound: creation times of goals

(* wanted: statuses that match, {} for any; atLeast: used-gte; left:       *)
(* tokens-left-lte, -1 if not asked for; every: the interval, 0 if none.   *)
ASSUME ConditionsAssumption ==
  Conditions \subseteq [wanted : SUBSET {"active", "complete"}, atLeast : Nat,
                        left : Nat \union {-1}, every : Nat]
ASSUME RunsAssumption == NoRun \notin Runs
ASSUME BoundsAssumption == MaxUsed \in Nat /\ MaxSecond \in Nat \ {0}

VARIABLES
  goals,     \* the thread's goal, a set of at most one goal (external)
  second,    \* the present second, as creation times tell it (external)
  cond,      \* the condition of the job
  job,       \* status of the job, "seeded" while `add` has not inserted it
  row,       \* goalCreatedAt of the condition, and the last bucket
  owner,     \* column lease_owner
  pc,        \* pc[r]: where the run is
  mine,      \* mine[r]: the row the run decoded when it claimed the job
  new,       \* new[r]: what the evaluation wants stored if the event is delivered
  found,     \* found[r]: creation time of the goal the evaluation saw
  base,      \* the bucket stored last without an event: at seeding or at a reset
  reported,  \* buckets some accepted event told of since
  settled,   \* those of them whose event is committed
  firstSeen, \* creation time of the first goal `add` saw, or a run that then wrote the job
  firedFor   \* creation times of the goals of committed events

thread == <<goals, second>>
stored == <<cond, job, row, owner>>
evaluated == <<new, found>>
told == <<base, reported, settled, firedFor>>
ghost == <<told, firstSeen>>
vars == <<goals, second, cond, job, row, owner, pc, mine, new, found,
          base, reported, settled, firstSeen, firedFor>>

Unbound == 0
NoRow == [bound |-> Unbound, bucket |-> 0]
Rows == [bound : 0..MaxSecond, bucket : 0..MaxUsed]

Goals == [made : 1..MaxSecond, used : 0..MaxUsed,
          status : {"active", "complete"}, budget : {-1, MaxUsed}]

TypeOK ==
  /\ goals \subseteq Goals /\ Cardinality(goals) <= 1
  /\ second \in 1..MaxSecond
  /\ cond \in Conditions
  /\ job \in {"absent", "seeded", "pending", "fired", "failed", "superseded", "uncertain"}
  /\ row \in Rows
  /\ owner \in Runs \union {NoRun}
  /\ pc \in [Runs -> {"idle", "reading", "wait", "superseded", "ready", "deliver", "accepted"}]
  /\ mine \in [Runs -> Rows] /\ new \in [Runs -> Rows]
  /\ found \in [Runs -> 0..MaxSecond]
  /\ base \in 0..MaxUsed
  /\ reported \subseteq 0..MaxUsed /\ settled \subseteq reported
  /\ firstSeen \in 0..MaxSecond /\ firedFor \subseteq 1..MaxSecond

Init ==
  /\ goals = {} /\ second = 1
  /\ cond \in Conditions
  /\ job = "absent" /\ row = NoRow /\ owner = NoRun
  /\ pc = [r \in Runs |-> "idle"]
  /\ mine = [r \in Runs |-> NoRow] /\ new = [r \in Runs |-> NoRow]
  /\ found = [r \in Runs |-> Unbound]
  /\ base = 0 /\ reported = {} /\ settled = {}
  /\ firstSeen = Unbound /\ firedFor = {}

-----------------------------------------------------------------------------
(* The goal of the watched thread. *)

SetGoal ==
  /\ \E budget \in {-1, MaxUsed} :
       goals' = {[made |-> second, used |-> 0, status |-> "active", budget |-> budget]}
  /\ UNCHANGED <<second, stored, pc, mine, evaluated, ghost>>

ClearGoal ==
  /\ goals # {}
  /\ goals' = {}
  /\ UNCHANGED <<second, stored, pc, mine, evaluated, ghost>>

(* Usage goes up, or a counter starts again; the status changes.           *)
GoalMoves ==
  /\ \E g \in goals :
       \/ \E n \in {g.used + 1, 0} : n <= MaxUsed /\ goals' = {[g EXCEPT !.used = n]}
       \/ \E s \in {"active", "complete"} : goals' = {[g EXCEPT !.status = s]}
  /\ UNCHANGED <<second, stored, pc, mine, evaluated, ghost>>

NextSecond ==
  /\ second < MaxSecond
  /\ second' = second + 1
  /\ UNCHANGED <<goals, stored, pc, mine, evaluated, ghost>>

-----------------------------------------------------------------------------
(* The decision. *)

Bucket(g) == IF cond.every = 0 THEN 0 ELSE g.used \div cond.every

Replaced(w, g) == w.bound # Unbound /\ g.made # w.bound

(* Mutant of Bound: a goal found by an evaluation is not remembered.       *)
BoundAtSeed(w, g) == w.bound

Bound(w, g) == IF w.bound = Unbound THEN g.made ELSE w.bound

Reset(w, g) == Bucket(g) < w.bucket

Matches(g) ==
  /\ cond.wanted = {} \/ g.status \in cond.wanted
  /\ cond.left # -1 => g.budget # -1 /\ g.budget - g.used <= cond.left
  /\ g.used >= cond.atLeast

(* Mutant of Milestone: the bucket reached last counts again.              *)
MilestoneAgain(w, g) == Bucket(g) >= w.bucket /\ Bucket(g) > 0

Milestone(w, g) == cond.every = 0 \/ Bucket(g) > w.bucket

(* What an evaluation from row w finds of the goals gs, and what it would  *)
(* store.                                                                  *)
Verdict(w, gs) ==
  IF gs = {} THEN [step |-> "wait", row |-> w]
  ELSE LET g == CHOOSE g \in gs : TRUE
           bound == [w EXCEPT !.bound = Bound(w, g)]
       IN  IF Replaced(w, g) THEN [step |-> "superseded", row |-> w]
           ELSE IF Reset(w, g) THEN [step |-> "wait", row |-> [bound EXCEPT !.bucket = Bucket(g)]]
           ELSE IF Matches(g) /\ Milestone(w, g)
                THEN [step |-> "ready", row |-> [bound EXCEPT !.bucket = Bucket(g)]]
           ELSE [step |-> "wait", row |-> bound]

-----------------------------------------------------------------------------
(* add goal *)

(* Mutant of SeedBucket: the milestone already reached is still to come.   *)
SeedBucketBefore(g) == Bucket(g) - 1

SeedBucket(g) == Bucket(g)

Seed ==
  /\ job = "absent"
  /\ job' = "seeded"
  /\ IF goals = {} THEN UNCHANGED <<row, base, firstSeen>>
     ELSE \E g \in goals :
            /\ row' = [bound |-> g.made, bucket |-> SeedBucket(g)]
            /\ base' = Bucket(g)
            /\ firstSeen' = g.made
  /\ UNCHANGED <<cond, owner, thread, pc, mine, evaluated, reported, settled, firedFor>>

Insert ==
  /\ job = "seeded"
  /\ job' = "pending"
  /\ UNCHANGED <<cond, row, owner, thread, pc, mine, evaluated, ghost>>

-----------------------------------------------------------------------------
(* run *)

Goto(r, step) == pc' = [pc EXCEPT ![r] = step]

Stop(r) ==
  /\ Goto(r, "idle")
  /\ mine' = [mine EXCEPT ![r] = NoRow]
  /\ new' = [new EXCEPT ![r] = NoRow]
  /\ found' = [found EXCEPT ![r] = Unbound]

(* The lease of another run may be over. *)
Claim(r) ==
  /\ pc[r] = "idle"
  /\ job = "pending"
  /\ owner' = r
  /\ mine' = [mine EXCEPT ![r] = row]
  /\ Goto(r, "reading")
  /\ UNCHANGED <<cond, job, row, evaluated, thread, ghost>>

Mine(r) == job = "pending" /\ owner = r

Evaluate(r) ==
  /\ pc[r] = "reading"
  /\ new' = [new EXCEPT ![r] = Verdict(mine[r], goals).row]
  /\ found' = [found EXCEPT ![r] = IF goals = {} THEN Unbound ELSE (CHOOSE g \in goals : TRUE).made]
  /\ Goto(r, Verdict(mine[r], goals).step)
  /\ UNCHANGED <<mine, stored, thread, ghost>>

Commit(r, status, values) ==
  /\ Mine(r)
  /\ job' = status
  /\ row' = values
  /\ owner' = NoRun
  /\ firstSeen' = IF firstSeen = Unbound THEN found[r] ELSE firstSeen
  /\ Stop(r)
  /\ UNCHANGED cond

(* A lower bucket is stored as a new beginning. *)
NotReady(r) ==
  /\ pc[r] = "wait"
  /\ Commit(r, "pending", new[r])
  /\ IF new[r].bucket < row.bucket
     THEN base' = new[r].bucket /\ reported' = {} /\ settled' = {}
     ELSE UNCHANGED <<base, reported, settled>>
  /\ UNCHANGED <<thread, firedFor>>

Superseded(r) ==
  /\ pc[r] = "superseded"
  /\ Commit(r, "superseded", row)
  /\ UNCHANGED <<thread, told>>

(* Mutant of Kept: what an evaluation found is stored when the delivery is *)
(* put off.                                                                *)
KeptEvaluation(r) == IF pc[r] = "deliver" THEN new[r] ELSE row

(* What is stored of the evaluation when no event was delivered. *)
Kept(r) == row

(* The request failed, the database did, or the target is not ready for    *)
(* the event.                                                              *)
Release(r) ==
  /\ pc[r] \in {"reading", "ready", "deliver"}
  /\ Commit(r, "pending", Kept(r))
  /\ UNCHANGED <<thread, told>>

(* The lease is renewed before the delivery. *)
StartDelivery(r) ==
  /\ pc[r] = "ready"
  /\ Mine(r)
  /\ Goto(r, "deliver")
  /\ UNCHANGED <<mine, evaluated, stored, thread, ghost>>

Accept(r) ==
  /\ pc[r] = "deliver"
  /\ reported' = reported \union {new[r].bucket}
  /\ Goto(r, "accepted")
  /\ UNCHANGED <<mine, evaluated, stored, thread, base, settled, firstSeen, firedFor>>

(* The fate of the event is not known, or the target refuses direct input. *)
GiveUp(r) ==
  /\ pc[r] \in {"deliver", "accepted"}
  /\ \E status \in {"uncertain", "failed"} : Commit(r, status, row)
  /\ UNCHANGED <<thread, told>>

(* A milestone job stays pending unless it reached its number of fires.    *)
Fired(r) ==
  /\ pc[r] = "accepted"
  /\ \/ Commit(r, "fired", new[r])
     \/ cond.every # 0 /\ Commit(r, "pending", new[r])
  /\ settled' = settled \union {new[r].bucket}
  /\ reported' = reported \union {new[r].bucket}
  /\ firedFor' = firedFor \union {found[r]}
  /\ UNCHANGED <<thread, base>>

(* The lease went to another run: nothing is written. *)
LeaseLost(r) ==
  /\ pc[r] # "idle"
  /\ ~Mine(r)
  /\ Stop(r)
  /\ UNCHANGED <<stored, thread, ghost>>

Crash(r) ==
  /\ pc[r] # "idle"
  /\ Stop(r)
  /\ UNCHANGED <<stored, thread, ghost>>

RunStep(r) ==
  \/ Claim(r) \/ Evaluate(r) \/ NotReady(r) \/ Superseded(r) \/ Release(r)
  \/ StartDelivery(r) \/ Accept(r) \/ GiveUp(r) \/ Fired(r)
  \/ LeaseLost(r) \/ Crash(r)

Next ==
  \/ SetGoal \/ ClearGoal \/ GoalMoves \/ NextSecond
  \/ Seed \/ Insert
  \/ \E r \in Runs : RunStep(r)

Spec == Init /\ [][Next]_vars

-----------------------------------------------------------------------------
(* Properties. *)

(* The bucket of a pending job never runs ahead of the events: it is the   *)
(* one at seeding or at the last reset, or an accepted event told of it.   *)
(* A delivery that was put off, failed or died has not used the milestone  *)
(* up.                                                                     *)
MilestoneNotSwallowed ==
  job = "pending" => row.bucket = base \/ row.bucket \in reported

(* While its lease lasts, a run delivers only a milestone beyond the one   *)
(* at seeding or reset and beyond every committed one: milestones reached  *)
(* before the job existed do not fire, and none fires twice.               *)
DeliversNews ==
  [][\A r \in Runs :
       pc[r] = "deliver" /\ pc'[r] = "accepted" /\ owner = r /\ cond.every # 0 =>
         \A b \in settled \union {base} : new[r].bucket > b]_vars

(* The committed events of a job are all about one goal, as far as the     *)
(* second of its creation can tell: a replacement supersedes the job.      *)
OneGoal == Cardinality(firedFor) <= 1

(* What the documentation says of a watch added before there is a goal: it *)
(* is bound to the first goal it observes.                                 *)
BoundToFirstSeen == firedFor \subseteq {firstSeen}
=============================================================================
