---------------------------- MODULE ReadingProofs ----------------------------
(***************************************************************************)
(* Theorems about the commands of MCReading that follow what changes while *)
(* they read it, for all values of the constants that its assumptions      *)
(* allow.                                                                  *)
(*                                                                         *)
(* The first part is about GoalWatch.  A run writes only a row it still    *)
(* leases, and nobody else wrote that row since it claimed it.  What it    *)
(* writes is its own evaluation of that row, so every comparison it made   *)
(* with the row still holds at the commit.                                 *)
(*                                                                         *)
(* The second part is about HistoryPages.  What was read of a history that *)
(* only grows is still there, and enough of it, from the newest item down, *)
(* selects what all of it would have: a bound that was found is where its  *)
(* newest occurrence is in all of it.  If it occurs again below, it does   *)
(* so in the turn that a page of items divided.                            *)
(*                                                                         *)
(* The third part is about RolloutScan.  The invariant says which records  *)
(* of the file stand behind everything that was collected, and where the   *)
(* file was when a path was found.                                         *)
(*                                                                         *)
(* The fourth part is about TokenUsage.  A report adds at most what was    *)
(* spent for it, to the id it comes under, and sums of less are less: over *)
(* the reports of a file, and over the files.                              *)
(*                                                                         *)
(* The fifth part is about LimitHistory.  If a snapshot is newer just if   *)
(* the state it shows is later, the rows that are kept grow later.         *)
(***************************************************************************)
EXTENDS MCReading, BoundedSets, SequenceTheorems, TLAPS

-----------------------------------------------------------------------------
(* The condition on a goal. *)

(* Only a pending job is leased; before it is inserted nothing happened.   *)
JobShape ==
  /\ owner \in Runs => job = "pending"
  /\ job = "absent" => row = NoRow
  /\ job \in {"absent", "seeded"} => firedFor = {} /\ settled = {} /\ row.bucket = base

(* What a run decoded is what is stored while the lease is its own.        *)
LeaseShape(r) == owner = r /\ pc[r] # "idle" => mine[r] = row

(* What an evaluation wants stored, compared with what it started from.    *)
EvaluationShape(r) ==
  /\ pc[r] = "wait" => /\ new[r].bucket <= mine[r].bucket
                       /\ mine[r].bound # Unbound => new[r].bound = mine[r].bound
  /\ pc[r] \in {"ready", "deliver", "accepted"} =>
       /\ found[r] # Unbound /\ new[r].bound = found[r]
       /\ mine[r].bound \in {Unbound, found[r]}
       /\ new[r].bucket >= mine[r].bucket
       /\ cond.every # 0 => new[r].bucket > mine[r].bucket

(* The stored bucket is the newest that was told of or put off.            *)
BucketShape ==
  /\ row.bucket = base \/ row.bucket \in reported
  /\ \A b \in settled \union {base} : b <= row.bucket

(* The events are about the goal the job is bound to. *)
BoundShape == \A m \in firedFor : m = row.bound

IInv ==
  /\ TypeOK /\ JobShape /\ BucketShape /\ BoundShape
  /\ \A r \in Runs : LeaseShape(r) /\ EvaluationShape(r)

-----------------------------------------------------------------------------
(* The decision. *)

(* An interval divides into no more buckets than there is usage.           *)
LEMMA Division ==
  ASSUME NEW m \in Nat, NEW a \in 0..m, NEW n \in Nat, n # 0
  PROVE  a \div n \in 0..m
  OBVIOUS

(* A bucket of usage is no more than the usage.                            *)
LEMMA BucketType ==
  ASSUME TypeOK, NEW g \in Goals
  PROVE  Bucket(g) \in 0..MaxUsed
  <1>1. cond.every \in Nat /\ g.used \in 0..MaxUsed /\ MaxUsed \in Nat
    BY ConditionsAssumption, BoundsAssumption DEF TypeOK, Goals
  <1> QED BY <1>1, Division DEF Bucket

(* What the updates of a row change in it.                                 *)
LEMMA RowUpdates ==
  ASSUME NEW w \in Rows, NEW b, NEW n
  PROVE  /\ [w EXCEPT !.bound = b] = [bound |-> b, bucket |-> w.bucket]
         /\ [[w EXCEPT !.bound = b] EXCEPT !.bucket = n] = [bound |-> b, bucket |-> n]
  <1>1. [w EXCEPT !.bound = b] = [bound |-> b, bucket |-> w.bucket]
    BY DEF Rows
  <1>2. [[bound |-> b, bucket |-> w.bucket] EXCEPT !.bucket = n] = [bound |-> b, bucket |-> n]
    OBVIOUS
  <1> QED BY <1>1, <1>2, Zenon

(* A decision is about a row and one of the outcomes.                      *)
LEMMA VerdictType ==
  ASSUME TypeOK, NEW w \in Rows
  PROVE  LET v == Verdict(w, goals)
             made == IF goals = {} THEN Unbound ELSE (CHOOSE g \in goals : TRUE).made
         IN  /\ v.row \in Rows /\ v.step \in {"wait", "superseded", "ready"}
             /\ made \in 0..MaxSecond
             /\ v.step = "wait" => /\ v.row.bucket <= w.bucket
                                   /\ w.bound # Unbound => v.row.bound = w.bound
             /\ v.step = "ready" => /\ made # Unbound /\ v.row.bound = made
                                    /\ w.bound \in {Unbound, made}
                                    /\ v.row.bucket >= w.bucket
                                    /\ cond.every # 0 => v.row.bucket > w.bucket
  <1>1. CASE goals = {}
    BY <1>1, BoundsAssumption DEF Verdict, Rows, Unbound
  <1>2. CASE goals # {}
    <2> DEFINE g == CHOOSE g \in goals : TRUE
    <2> DEFINE bound == [w EXCEPT !.bound = Bound(w, g)]
    <2>1. g \in goals /\ g \in Goals
      BY <1>2 DEF TypeOK
    <2>2. Bucket(g) \in 0..MaxUsed /\ g.made \in 1..MaxSecond
      BY <2>1, BucketType DEF Goals
    <2>3. Bound(w, g) \in 0..MaxSecond /\ w.bound \in 0..MaxSecond /\ w.bucket \in 0..MaxUsed
      BY <2>2, BoundsAssumption DEF Bound, Rows
    <2>4. /\ bound = [bound |-> Bound(w, g), bucket |-> w.bucket]
          /\ [bound EXCEPT !.bucket = Bucket(g)] = [bound |-> Bound(w, g), bucket |-> Bucket(g)]
      <3> DEFINE c == Bound(w, g)
      <3>1. bound = [bound |-> c, bucket |-> w.bucket]
        BY RowUpdates
      <3>2. [[w EXCEPT !.bound = c] EXCEPT !.bucket = Bucket(g)]
              = [bound |-> c, bucket |-> Bucket(g)]
        <4> HIDE DEF c, g
        <4> QED BY RowUpdates
      <3> QED BY <3>1, <3>2
    <2>5. Verdict(w, goals) =
            IF Replaced(w, g) THEN [step |-> "superseded", row |-> w]
            ELSE IF Reset(w, g)
                 THEN [step |-> "wait", row |-> [bound |-> Bound(w, g), bucket |-> Bucket(g)]]
            ELSE IF Matches(g) /\ Milestone(w, g)
                 THEN [step |-> "ready", row |-> [bound |-> Bound(w, g), bucket |-> Bucket(g)]]
            ELSE [step |-> "wait", row |-> [bound |-> Bound(w, g), bucket |-> w.bucket]]
      <3>1. Verdict(w, goals) =
              IF Replaced(w, g) THEN [step |-> "superseded", row |-> w]
              ELSE IF Reset(w, g)
                   THEN [step |-> "wait", row |-> [bound EXCEPT !.bucket = Bucket(g)]]
              ELSE IF Matches(g) /\ Milestone(w, g)
                   THEN [step |-> "ready", row |-> [bound EXCEPT !.bucket = Bucket(g)]]
              ELSE [step |-> "wait", row |-> bound]
        BY <1>2, Zenon DEF Verdict
      <3> HIDE DEF bound, g
      <3> QED BY <3>1, <2>4, Zenon
    <2> HIDE DEF g
    <2>6. g = CHOOSE x \in goals : TRUE
      BY DEF g
    <2>7. w.bound # Unbound => Replaced(w, g) \/ Bound(w, g) = w.bound
      BY DEF Replaced, Bound
    <2>8. Replaced(w, g) \/ (Bound(w, g) = g.made /\ w.bound \in {Unbound, g.made})
      BY DEF Replaced, Bound
    <2>9. ~Reset(w, g) => Bucket(g) >= w.bucket
      BY <2>2, <2>3 DEF Reset
    <2>10. Reset(w, g) => Bucket(g) < w.bucket
      BY DEF Reset
    <2>11. Milestone(w, g) /\ cond.every # 0 => Bucket(g) > w.bucket
      BY DEF Milestone
    <2>12. [bound |-> Bound(w, g), bucket |-> Bucket(g)] \in Rows
           /\ [bound |-> Bound(w, g), bucket |-> w.bucket] \in Rows
      BY <2>2, <2>3 DEF Rows
    <2> HIDE DEF bound
    <2>13. CASE Replaced(w, g)
      BY <1>2, <2>2, <2>5, <2>6, <2>13, BoundsAssumption
    <2>14. CASE ~Replaced(w, g) /\ Reset(w, g)
      BY <1>2, <2>2, <2>3, <2>5, <2>6, <2>7, <2>10, <2>12, <2>14, BoundsAssumption
    <2>15. CASE ~Replaced(w, g) /\ ~Reset(w, g) /\ Matches(g) /\ Milestone(w, g)
      BY <1>2, <2>2, <2>5, <2>6, <2>8, <2>9, <2>11, <2>12, <2>15, BoundsAssumption DEF Unbound
    <2>16. CASE ~Replaced(w, g) /\ ~Reset(w, g) /\ ~(Matches(g) /\ Milestone(w, g))
      BY <1>2, <2>2, <2>3, <2>5, <2>6, <2>7, <2>12, <2>16, BoundsAssumption
    <2> QED BY <2>13, <2>14, <2>15, <2>16
  <1> QED BY <1>1, <1>2

-----------------------------------------------------------------------------
(* Init and the steps. *)

(* At first no job is there.                                               *)
LEMMA InitInv == Init => IInv
  <1> SUFFICES ASSUME Init PROVE IInv
    OBVIOUS
  <1> USE DEF Init
  <1>1. NoRow \in Rows
    BY BoundsAssumption DEF NoRow, Rows, Unbound
  <1>2. goals \subseteq Goals /\ Cardinality(goals) <= 1
    BY FS_EmptySet
  <1>3. TypeOK
    BY <1>1, <1>2, BoundsAssumption DEF TypeOK, Unbound
  <1>4. JobShape /\ BucketShape /\ BoundShape
    BY RunsAssumption DEF JobShape, BucketShape, BoundShape, NoRow
  <1>5. ASSUME NEW r \in Runs PROVE LeaseShape(r) /\ EvaluationShape(r)
    BY DEF LeaseShape, EvaluationShape
  <1> QED BY <1>3, <1>4, <1>5 DEF IInv

(* The goal of the thread changes and the job does not. *)
LEMMA ThreadStep ==
  ASSUME IInv, SetGoal \/ ClearGoal \/ GoalMoves \/ NextSecond
  PROVE  IInv'
  <1>1. UNCHANGED <<stored, pc, mine, evaluated, ghost>>
    BY DEF SetGoal, ClearGoal, GoalMoves, NextSecond
  <1>2. goals' \subseteq Goals /\ Cardinality(goals') <= 1
    <2>0. goals \subseteq Goals /\ Cardinality(goals) <= 1 /\ second \in 1..MaxSecond
      BY DEF IInv, TypeOK
    <2>1. ASSUME NEW g \in Goals, goals' = {g}
          PROVE  goals' \subseteq Goals /\ Cardinality(goals') <= 1
      <3>1. Cardinality({g}) = 1
        BY FS_Singleton
      <3> QED BY <2>1, <3>1
    <2>2. CASE SetGoal
      <3>1. PICK budget \in {-1, MaxUsed} :
              goals' = {[made |-> second, used |-> 0, status |-> "active", budget |-> budget]}
        BY <2>2 DEF SetGoal
      <3>2. [made |-> second, used |-> 0, status |-> "active", budget |-> budget] \in Goals
        BY <2>0, BoundsAssumption DEF Goals
      <3> QED BY <2>1, <3>1, <3>2
    <2>3. CASE ClearGoal
      BY <2>3, FS_EmptySet DEF ClearGoal
    <2>4. CASE GoalMoves
      <3>1. PICK g \in goals :
              \/ \E n \in {g.used + 1, 0} : n <= MaxUsed /\ goals' = {[g EXCEPT !.used = n]}
              \/ \E s \in {"active", "complete"} : goals' = {[g EXCEPT !.status = s]}
        BY <2>4 DEF GoalMoves
      <3>2. g \in Goals
        BY <2>0
      <3>3. ASSUME NEW n \in {g.used + 1, 0}, n <= MaxUsed PROVE [g EXCEPT !.used = n] \in Goals
        <4>1. n \in 0..MaxUsed
          BY <3>2, <3>3, BoundsAssumption DEF Goals
        <4> QED BY <3>2, <4>1 DEF Goals
      <3>4. ASSUME NEW s \in {"active", "complete"} PROVE [g EXCEPT !.status = s] \in Goals
        BY <3>2 DEF Goals
      <3> QED BY <2>1, <3>1, <3>3, <3>4
    <2>5. CASE NextSecond
      BY <2>0, <2>5 DEF NextSecond
    <2> QED BY <2>2, <2>3, <2>4, <2>5
  <1>3. second' \in 1..MaxSecond
    BY BoundsAssumption DEF IInv, TypeOK, SetGoal, ClearGoal, GoalMoves, NextSecond
  <1>4. TypeOK'
    BY <1>1, <1>2, <1>3 DEF IInv, TypeOK, stored, evaluated, ghost, told
  <1>5. JobShape' /\ BucketShape' /\ BoundShape'
    BY <1>1 DEF IInv, JobShape, BucketShape, BoundShape, stored, ghost, told
  <1>6. \A r \in Runs : LeaseShape(r)' /\ EvaluationShape(r)'
    BY <1>1 DEF IInv, LeaseShape, EvaluationShape, stored, evaluated
  <1> QED BY <1>4, <1>5, <1>6 DEF IInv

(* add takes the bucket the goal is in for the first one. *)
LEMMA AddStep ==
  ASSUME IInv, Seed \/ Insert
  PROVE  IInv'
  <1>0. TypeOK /\ JobShape /\ BucketShape /\ BoundShape
    BY DEF IInv
  <1>1. CASE Seed
    <2>1. owner \notin Runs /\ job' = "seeded" /\ row = NoRow /\ firedFor = {} /\ settled = {}
          /\ UNCHANGED <<cond, owner, pc, mine, evaluated, thread, reported, settled, firedFor>>
      BY <1>0, <1>1 DEF Seed, JobShape
    <2>2. row' \in Rows /\ base' \in 0..MaxUsed /\ firstSeen' \in 0..MaxSecond
          /\ row'.bucket = base'
      <3>1. CASE goals = {}
        BY <1>0, <1>1, <2>1, <3>1 DEF Seed, TypeOK, JobShape
      <3>2. CASE goals # {}
        <4>1. PICK g \in goals : row' = [bound |-> g.made, bucket |-> SeedBucket(g)]
                                 /\ base' = Bucket(g) /\ firstSeen' = g.made
          BY <1>1, <3>2 DEF Seed
        <4>2. g \in Goals /\ Bucket(g) \in 0..MaxUsed
          BY <1>0, BucketType DEF TypeOK
        <4>3. g.made \in 0..MaxSecond
          BY <4>2, BoundsAssumption DEF Goals
        <4> QED BY <4>1, <4>2, <4>3 DEF SeedBucket, Rows
      <3> QED BY <3>1, <3>2
    <2>3. TypeOK'
      BY <1>0, <2>1, <2>2 DEF TypeOK, evaluated, thread
    <2>4. JobShape' /\ BucketShape' /\ BoundShape'
      BY <2>1, <2>2 DEF JobShape, BucketShape, BoundShape, Rows
    <2>5. \A r \in Runs : LeaseShape(r)' /\ EvaluationShape(r)'
      BY <2>1 DEF IInv, LeaseShape, EvaluationShape, evaluated
    <2> QED BY <2>3, <2>4, <2>5 DEF IInv
  <1>2. CASE Insert
    <2>1. TypeOK'
      BY <1>0, <1>2 DEF Insert, TypeOK, thread, evaluated, ghost, told
    <2>2. JobShape' /\ BucketShape' /\ BoundShape'
      BY <1>0, <1>2 DEF Insert, JobShape, BucketShape, BoundShape, ghost, told
    <2>3. \A r \in Runs : LeaseShape(r)' /\ EvaluationShape(r)'
      BY <1>2 DEF Insert, IInv, LeaseShape, EvaluationShape, evaluated
    <2> QED BY <2>1, <2>2, <2>3 DEF IInv
  <1> QED BY <1>1, <1>2

(* The steps of a run that write nothing into the job. *)
LEMMA ClaimStep ==
  ASSUME IInv, NEW r \in Runs, Claim(r)
  PROVE  IInv'
  <1>0. TypeOK /\ JobShape /\ BucketShape /\ BoundShape
    BY DEF IInv
  <1>1. TypeOK'
    BY <1>0 DEF Claim, Goto, TypeOK, thread, evaluated, ghost, told
  <1>2. JobShape' /\ BucketShape' /\ BoundShape'
    BY <1>0 DEF Claim, JobShape, BucketShape, BoundShape, ghost, told
  <1>3. \A q \in Runs : LeaseShape(q)' /\ EvaluationShape(q)'
    BY <1>0 DEF Claim, Goto, IInv, TypeOK, LeaseShape, EvaluationShape, evaluated
  <1> QED BY <1>1, <1>2, <1>3 DEF IInv

(* A run compares what it claimed with the goal it finds.                  *)
LEMMA EvaluateStep ==
  ASSUME IInv, NEW r \in Runs, Evaluate(r)
  PROVE  IInv'
  <1>0. TypeOK /\ JobShape /\ BucketShape /\ BoundShape /\ mine[r] \in Rows
    BY DEF IInv, TypeOK
  <1> DEFINE v == Verdict(mine[r], goals)
  <1> DEFINE made == IF goals = {} THEN Unbound ELSE (CHOOSE g \in goals : TRUE).made
  <1>1. /\ new' = [new EXCEPT ![r] = v.row] /\ found' = [found EXCEPT ![r] = made]
        /\ pc' = [pc EXCEPT ![r] = v.step]
        /\ UNCHANGED <<mine, stored, thread, ghost>>
    BY DEF Evaluate, Goto
  <1>2. /\ v.row \in Rows /\ v.step \in {"wait", "superseded", "ready"} /\ made \in 0..MaxSecond
        /\ v.step = "wait" => /\ v.row.bucket <= mine[r].bucket
                              /\ mine[r].bound # Unbound => v.row.bound = mine[r].bound
        /\ v.step = "ready" => /\ made # Unbound /\ v.row.bound = made
                               /\ mine[r].bound \in {Unbound, made}
                               /\ v.row.bucket >= mine[r].bucket
                               /\ cond.every # 0 => v.row.bucket > mine[r].bucket
    BY <1>0, VerdictType
  <1> HIDE DEF v, made
  <1>3. TypeOK'
    BY <1>0, <1>1, <1>2 DEF TypeOK, stored, thread, ghost, told
  <1>4. JobShape' /\ BucketShape' /\ BoundShape'
    BY <1>0, <1>1 DEF JobShape, BucketShape, BoundShape, stored, ghost, told
  <1>5. ASSUME NEW q \in Runs PROVE LeaseShape(q)' /\ EvaluationShape(q)'
    <2>1. CASE q # r
      <3>1. UNCHANGED <<new[q], found[q], pc[q], mine[q], owner, row, cond>>
        BY <1>0, <1>1, <2>1 DEF TypeOK, stored
      <3> QED BY <3>1 DEF IInv, LeaseShape, EvaluationShape
    <2>2. CASE q = r
      <3>1. new'[r] = v.row /\ found'[r] = made /\ pc'[r] = v.step
        BY <1>0, <1>1 DEF TypeOK
      <3>2. pc[r] # "idle" /\ UNCHANGED <<mine, owner, row, cond>>
        BY <1>1 DEF Evaluate, stored
      <3>3. LeaseShape(r)'
        BY <3>2 DEF IInv, LeaseShape
      <3>4. EvaluationShape(r)'
        BY <1>2, <3>1, <3>2 DEF EvaluationShape
      <3> QED BY <2>2, <3>3, <3>4
    <2> QED BY <2>1, <2>2
  <1> QED BY <1>3, <1>4, <1>5 DEF IInv

(* A run sends its event, and the event is accepted.                       *)
LEMMA DeliveryStep ==
  ASSUME IInv, NEW r \in Runs, StartDelivery(r) \/ Accept(r)
  PROVE  IInv'
  <1>0. TypeOK /\ JobShape /\ BucketShape /\ BoundShape /\ new[r].bucket \in 0..MaxUsed
    BY DEF IInv, TypeOK, Rows
  <1>1. /\ UNCHANGED <<mine, evaluated, stored, thread, base, settled, firstSeen, firedFor>>
        /\ reported' \in {reported, reported \union {new[r].bucket}}
        /\ pc[r] \in {"ready", "deliver"}
        /\ \E s \in {"deliver", "accepted"} : pc' = [pc EXCEPT ![r] = s]
    BY DEF StartDelivery, Accept, Goto, ghost, told
  <1>2. TypeOK'
    BY <1>0, <1>1 DEF TypeOK, stored, thread, evaluated
  <1>3. JobShape' /\ BucketShape' /\ BoundShape'
    BY <1>0, <1>1 DEF JobShape, BucketShape, BoundShape, stored
  <1>4. ASSUME NEW q \in Runs PROVE LeaseShape(q)' /\ EvaluationShape(q)'
    <2>1. UNCHANGED <<new, found, mine, owner, row, cond>>
      BY <1>1 DEF stored, evaluated
    <2>2. CASE q # r
      <3>1. pc'[q] = pc[q]
        BY <1>0, <1>1, <2>2 DEF TypeOK
      <3> QED BY <2>1, <3>1 DEF IInv, LeaseShape, EvaluationShape
    <2>3. CASE q = r
      <3>1. pc'[r] \in {"deliver", "accepted"}
        BY <1>0, <1>1 DEF TypeOK
      <3> QED BY <1>1, <2>1, <2>3, <3>1 DEF IInv, LeaseShape, EvaluationShape
    <2> QED BY <2>2, <2>3
  <1> QED BY <1>2, <1>3, <1>4 DEF IInv

(* What the end of a run leaves alone.                                     *)
LEMMA StopStep ==
  ASSUME IInv, NEW r \in Runs, Stop(r), cond' = cond,
         (owner' = owner /\ row' = row) \/ owner' = NoRun
  PROVE  /\ pc' \in [Runs -> {"idle", "reading", "wait", "superseded", "ready", "deliver", "accepted"}]
         /\ mine' \in [Runs -> Rows] /\ new' \in [Runs -> Rows]
         /\ found' \in [Runs -> 0..MaxSecond]
         /\ \A q \in Runs : LeaseShape(q)' /\ EvaluationShape(q)'
  <1>0. TypeOK
    BY DEF IInv
  <1>1. NoRow \in Rows /\ Unbound \in 0..MaxSecond
    BY BoundsAssumption DEF NoRow, Rows, Unbound
  <1>2. /\ pc' \in [Runs -> {"idle", "reading", "wait", "superseded", "ready", "deliver", "accepted"}]
        /\ mine' \in [Runs -> Rows] /\ new' \in [Runs -> Rows]
        /\ found' \in [Runs -> 0..MaxSecond]
    BY <1>0, <1>1 DEF Stop, Goto, TypeOK
  <1>3. ASSUME NEW q \in Runs PROVE LeaseShape(q)' /\ EvaluationShape(q)'
    <2>1. CASE q = r
      <3>1. pc'[q] = "idle"
        BY <1>0, <2>1 DEF Stop, Goto, TypeOK
      <3> QED BY <3>1 DEF LeaseShape, EvaluationShape
    <2>2. CASE q # r
      <3>1. UNCHANGED <<new[q], found[q], pc[q], mine[q]>>
        BY <1>0, <2>2 DEF Stop, Goto, TypeOK
      <3>2. LeaseShape(q)'
        BY <3>1, RunsAssumption DEF IInv, LeaseShape
      <3>3. EvaluationShape(q)'
        BY <3>1 DEF IInv, EvaluationShape
      <3> QED BY <3>2, <3>3
    <2> QED BY <2>1, <2>2
  <1> QED BY <1>2, <1>3

(* A run loses its lease, or dies.                                         *)
LEMMA LostStep ==
  ASSUME IInv, NEW r \in Runs, LeaseLost(r) \/ Crash(r)
  PROVE  IInv'
  <1>0. TypeOK /\ JobShape /\ BucketShape /\ BoundShape
    BY DEF IInv
  <1>1. Stop(r) /\ UNCHANGED <<stored, thread, ghost>>
    BY DEF LeaseLost, Crash
  <1>2. /\ pc' \in [Runs -> {"idle", "reading", "wait", "superseded", "ready", "deliver", "accepted"}]
        /\ mine' \in [Runs -> Rows] /\ new' \in [Runs -> Rows]
        /\ found' \in [Runs -> 0..MaxSecond]
        /\ \A q \in Runs : LeaseShape(q)' /\ EvaluationShape(q)'
    BY <1>1, StopStep DEF stored
  <1>3. TypeOK'
    BY <1>0, <1>1, <1>2 DEF TypeOK, stored, thread, ghost, told
  <1>4. JobShape' /\ BucketShape' /\ BoundShape'
    BY <1>0, <1>1 DEF JobShape, BucketShape, BoundShape, stored, ghost, told
  <1> QED BY <1>2, <1>3, <1>4 DEF IInv

(* The steps that write the job back.                                      *)
LEMMA CommitShape ==
  ASSUME IInv, NEW r \in Runs, NEW status, NEW values,
         status \in {"pending", "fired", "failed", "superseded", "uncertain"}, values \in Rows,
         Commit(r, status, values), UNCHANGED thread,
         base' \in 0..MaxUsed, reported' \subseteq 0..MaxUsed, settled' \subseteq reported',
         firedFor' \subseteq 1..MaxSecond
  PROVE  /\ TypeOK' /\ JobShape' /\ row' = values
         /\ \A q \in Runs : LeaseShape(q)' /\ EvaluationShape(q)'
  <1>0. TypeOK /\ owner' = NoRun /\ job' = status /\ row' = values /\ cond' = cond /\ Stop(r)
        /\ found[r] \in 0..MaxSecond
    BY DEF IInv, TypeOK, Commit
  <1>1. /\ pc' \in [Runs -> {"idle", "reading", "wait", "superseded", "ready", "deliver", "accepted"}]
        /\ mine' \in [Runs -> Rows] /\ new' \in [Runs -> Rows]
        /\ found' \in [Runs -> 0..MaxSecond]
        /\ \A q \in Runs : LeaseShape(q)' /\ EvaluationShape(q)'
    BY <1>0, StopStep
  <1>2. firstSeen' \in 0..MaxSecond
    BY <1>0 DEF Commit, TypeOK
  <1>3. TypeOK'
    BY <1>0, <1>1, <1>2 DEF TypeOK, thread
  <1>4. JobShape'
    BY <1>0, RunsAssumption DEF JobShape
  <1> QED BY <1>0, <1>1, <1>3, <1>4

(* A run that is not ready keeps what it has bound.                        *)
LEMMA NotReadyStep ==
  ASSUME IInv, NEW r \in Runs, NotReady(r)
  PROVE  IInv'
  <1>0. /\ TypeOK /\ BucketShape /\ BoundShape
        /\ new[r] \in Rows /\ new[r].bucket \in 0..MaxUsed /\ row.bucket \in 0..MaxUsed
    BY DEF IInv, TypeOK, Rows
  <1>1. mine[r] = row /\ pc[r] = "wait" /\ Commit(r, "pending", new[r])
        /\ UNCHANGED <<thread, firedFor>>
    BY DEF NotReady, Commit, Mine, IInv, LeaseShape
  <1>2. new[r].bucket <= row.bucket /\ (row.bound # Unbound => new[r].bound = row.bound)
    BY <1>1 DEF IInv, EvaluationShape
  <1>3. \/ /\ new[r].bucket < row.bucket
           /\ base' = new[r].bucket /\ reported' = {} /\ settled' = {}
        \/ new[r].bucket = row.bucket /\ UNCHANGED <<base, reported, settled>>
    BY <1>0, <1>2 DEF NotReady
  <1>4. /\ TypeOK' /\ JobShape' /\ row' = new[r]
        /\ \A q \in Runs : LeaseShape(q)' /\ EvaluationShape(q)'
    <2>1. base' \in 0..MaxUsed /\ reported' \subseteq 0..MaxUsed /\ settled' \subseteq reported'
          /\ firedFor' \subseteq 1..MaxSecond
      BY <1>0, <1>1, <1>3 DEF TypeOK
    <2> QED BY <1>0, <1>1, <2>1, CommitShape
  <1>5. BucketShape'
    BY <1>0, <1>3, <1>4 DEF BucketShape
  <1>6. BoundShape'
    <2>1. \A m \in firedFor : m = row.bound /\ m # Unbound
      BY <1>0 DEF BoundShape, TypeOK, Unbound
    <2> QED BY <1>1, <1>2, <1>4, <2>1 DEF BoundShape
  <1> QED BY <1>4, <1>5, <1>6 DEF IInv

(* A run ends and keeps the row as it was.                                 *)
LEMMA KeepStep ==
  ASSUME IInv, NEW r \in Runs, Superseded(r) \/ Release(r) \/ GiveUp(r)
  PROVE  IInv'
  <1>0. TypeOK /\ BucketShape /\ BoundShape /\ row \in Rows
    BY DEF IInv, TypeOK
  <1>1. PICK status \in {"pending", "superseded", "uncertain", "failed"} : Commit(r, status, row)
    BY DEF Superseded, Release, GiveUp, Kept
  <1>2. UNCHANGED <<thread, told>>
    BY DEF Superseded, Release, GiveUp
  <1>3. /\ TypeOK' /\ JobShape' /\ row' = row
        /\ \A q \in Runs : LeaseShape(q)' /\ EvaluationShape(q)'
    <2>1. base' \in 0..MaxUsed /\ reported' \subseteq 0..MaxUsed /\ settled' \subseteq reported'
          /\ firedFor' \subseteq 1..MaxSecond /\ UNCHANGED thread
      BY <1>0, <1>2 DEF TypeOK, told
    <2> QED BY <1>0, <1>1, <2>1, CommitShape
  <1>4. BucketShape' /\ BoundShape'
    BY <1>0, <1>2, <1>3 DEF BucketShape, BoundShape, told
  <1> QED BY <1>3, <1>4 DEF IInv

(* A run commits that its event was accepted.                              *)
LEMMA FiredStep ==
  ASSUME IInv, NEW r \in Runs, Fired(r)
  PROVE  IInv'
  <1>0. /\ TypeOK /\ BucketShape /\ BoundShape
        /\ new[r] \in Rows /\ new[r].bucket \in 0..MaxUsed /\ row.bucket \in 0..MaxUsed
        /\ base \in 0..MaxUsed /\ settled \subseteq 0..MaxUsed
    BY DEF IInv, TypeOK, Rows
  <1>1. PICK status \in {"fired", "pending"} : Commit(r, status, new[r])
    BY DEF Fired
  <1>2. mine[r] = row /\ pc[r] = "accepted"
    BY <1>1 DEF Fired, Commit, Mine, IInv, LeaseShape
  <1>3. /\ found[r] # Unbound /\ new[r].bound = found[r]
        /\ row.bound \in {Unbound, found[r]} /\ new[r].bucket >= row.bucket
    BY <1>2 DEF IInv, EvaluationShape
  <1>4. /\ settled' = settled \union {new[r].bucket} /\ reported' = reported \union {new[r].bucket}
        /\ firedFor' = firedFor \union {found[r]} /\ UNCHANGED <<thread, base>>
    BY DEF Fired
  <1>5. /\ TypeOK' /\ JobShape' /\ row' = new[r]
        /\ \A q \in Runs : LeaseShape(q)' /\ EvaluationShape(q)'
    <2>1. base' \in 0..MaxUsed /\ reported' \subseteq 0..MaxUsed /\ settled' \subseteq reported'
      BY <1>0, <1>4 DEF TypeOK
    <2>2. found[r] \in 1..MaxSecond
      BY <1>0, <1>3, BoundsAssumption DEF TypeOK, Unbound
    <2>3. firedFor' \subseteq 1..MaxSecond /\ UNCHANGED thread
      BY <1>0, <1>4, <2>2 DEF TypeOK
    <2> QED BY <1>0, <1>1, <2>1, <2>3, CommitShape
  <1>6. BucketShape'
    <2>1. row'.bucket \in reported'
      BY <1>4, <1>5
    <2>2. ASSUME NEW b \in settled' \union {base'} PROVE b <= row'.bucket
      <3>1. b = new[r].bucket \/ b \in settled \union {base}
        BY <1>4
      <3>2. b \in settled \union {base} => b <= row.bucket /\ b \in Nat
        <4>1. \A c \in settled \union {base} : c <= row.bucket
          BY <1>0 DEF BucketShape
        <4>2. base \in Nat
          BY <1>0
        <4>3. settled \subseteq 0..MaxUsed
          BY <1>0
        <4>4. settled \subseteq Nat
          BY <4>3
        <4> QED BY <4>1, <4>2, <4>4
      <3> QED BY <1>0, <1>3, <1>5, <3>1, <3>2
    <2> QED BY <2>1, <2>2 DEF BucketShape
  <1>7. BoundShape'
    <2>1. \A m \in firedFor : m = row.bound /\ m # Unbound
      BY <1>0 DEF BoundShape, TypeOK, Unbound
    <2> QED BY <1>3, <1>4, <1>5, <2>1 DEF BoundShape
  <1> QED BY <1>5, <1>6, <1>7 DEF IInv

-----------------------------------------------------------------------------
(* The theorems. *)

(* The invariant the theorems rest on.                                     *)
THEOREM WatchInvariance == Spec => []IInv
  <1>1. ASSUME IInv, UNCHANGED vars PROVE IInv'
    <2>1. TypeOK' /\ JobShape' /\ BucketShape' /\ BoundShape'
      BY <1>1 DEF IInv, vars, TypeOK, JobShape, BucketShape, BoundShape
    <2>2. \A r \in Runs : LeaseShape(r)' /\ EvaluationShape(r)'
      BY <1>1 DEF IInv, vars, LeaseShape, EvaluationShape
    <2> QED BY <2>1, <2>2 DEF IInv
  <1>2. IInv /\ [Next]_vars => IInv'
    BY <1>1, ThreadStep, AddStep, ClaimStep, EvaluateStep, DeliveryStep, LostStep, NotReadyStep,
       KeepStep, FiredStep
    DEF Next, RunStep
  <1> QED BY <1>2, InitInv, PTL DEF Spec

(* The job, its runs and the goal keep to their types. *)
THEOREM WatchTypeCorrect == Spec => []TypeOK
  <1>1. IInv => TypeOK
    BY DEF IInv
  <1> QED BY <1>1, WatchInvariance, PTL

(* No milestone is used up by a delivery that did not happen, for any      *)
(* number of runs that die, lose their lease or put the delivery off.      *)
THEOREM MilestoneSafety == Spec => []MilestoneNotSwallowed
  <1>1. IInv => MilestoneNotSwallowed
    BY DEF IInv, BucketShape, MilestoneNotSwallowed
  <1> QED BY <1>1, WatchInvariance, PTL

(* A leased delivery is about a milestone beyond every one that was told   *)
(* of and committed.                                                       *)
THEOREM NewsSafety == Spec => DeliversNews
  <1> DEFINE News == \A r \in Runs :
               pc[r] = "deliver" /\ pc'[r] = "accepted" /\ owner = r /\ cond.every # 0 =>
                 \A b \in settled \union {base} : new[r].bucket > b
  <1>1. IInv => News
    <2> SUFFICES ASSUME IInv, NEW r \in Runs, pc[r] = "deliver", owner = r, cond.every # 0,
                        NEW b \in settled \union {base}
                 PROVE  new[r].bucket > b
      OBVIOUS
    <2>1. mine[r] = row /\ new[r].bucket > row.bucket
      BY DEF IInv, LeaseShape, EvaluationShape
    <2>2. b <= row.bucket /\ b \in Nat /\ row.bucket \in Nat /\ new[r].bucket \in Nat
      BY DEF IInv, BucketShape, TypeOK, Rows
    <2> QED BY <2>1, <2>2
  <1>2. IInv => [News]_vars
    BY <1>1
  <1>3. Spec => [][News]_vars
    BY <1>2, WatchInvariance, PTL
  <1> QED BY <1>3 DEF DeliversNews

(* All committed events of a job are about goals of one creation time. *)
THEOREM OneGoalSafety == Spec => []OneGoal
  <1>1. IInv => OneGoal
    <2> SUFFICES ASSUME IInv PROVE Cardinality(firedFor) <= 1
      BY DEF OneGoal
    <2>1. CASE firedFor = {}
      BY <2>1, FS_EmptySet
    <2>2. ASSUME NEW m \in firedFor PROVE Cardinality(firedFor) <= 1
      <3>1. firedFor = {m}
        BY <2>2 DEF IInv, BoundShape
      <3> QED BY <3>1, FS_Singleton
    <2> QED BY <2>1, <2>2
  <1> QED BY <1>1, WatchInvariance, PTL

-----------------------------------------------------------------------------
(* What a reader selects. *)

(* A set of numbers up to a bound has a first one.                         *)
LEMMA HasFirst ==
  ASSUME NEW n \in Nat, NEW S \in SUBSET (1..n), S # {}
  PROVE  \E p \in S : \A q \in S : p <= q
  <1> DEFINE T == {n + 1 - p : p \in S}
  <1>1. T \in SUBSET (1..n) /\ T # {}
    <2>1. ASSUME NEW p \in S PROVE n + 1 - p \in 1..n
      <3>1. p \in 1..n
        OBVIOUS
      <3> QED BY <3>1
    <2> QED BY <2>1
  <1>2. PICK t \in T : \A u \in T : u <= t
    BY <1>1, HasLast
  <1>3. PICK p \in S : t = n + 1 - p
    BY <1>2
  <1>4. ASSUME NEW q \in S PROVE p <= q
    <2>1. n + 1 - q <= t
      BY <1>2
    <2> QED BY <2>1, <1>3
  <1> QED BY <1>4

(* The set operators of an instance are those of FiniteSets.               *)
LEMMA PagesSets ==
  ASSUME NEW S
  PROVE  Pages!Cardinality(S) = Cardinality(S)
  BY DEF Pages!Cardinality, Cardinality

(* The newest of some numbers are the newest of those from m on, if there  *)
(* are enough of these.                                                    *)
LEMMA NewestFromOn ==
  ASSUME NEW U \in SUBSET Nat, IsFiniteSet(U), NEW m \in Nat, NEW k \in Nat, NEW T,
         T = {u \in U : m <= u}, k <= Cardinality(T)
  PROVE  Pages!Newest(U, k) = Pages!Newest(T, k)
  <1> DEFINE From(S, i) == {j \in S : j >= i}
  <1>1. IsFiniteSet(T)
    BY FS_Subset
  <1>2. ASSUME NEW i \in T PROVE From(U, i) = From(T, i)
    <2>1. i \in Nat /\ m <= i
      OBVIOUS
    <2>2. ASSUME NEW j \in U, j >= i PROVE j \in T
      <3>1. j \in Nat
        OBVIOUS
      <3> QED BY <2>1, <2>2, <3>1
    <2> QED BY <2>2
  <1>3. ASSUME NEW i \in U, i \notin T PROVE ~(Cardinality(From(U, i)) <= k)
    <2>1. i \in Nat /\ i < m
      BY <1>3
    <2>2. IsFiniteSet(From(U, i)) /\ Cardinality(From(U, i)) \in Nat
      BY FS_Subset, FS_CardinalityType
    <2>3. T \union {i} \subseteq From(U, i)
      <3>1. ASSUME NEW j \in T PROVE j \in U /\ j >= i
        <4>1. j \in Nat /\ m <= j
          OBVIOUS
        <4> QED BY <2>1, <4>1
      <3>2. i \in From(U, i)
        BY <2>1
      <3>3. T \subseteq From(U, i)
        BY <3>1
      <3> QED BY <3>2, <3>3
    <2>4. Cardinality(T \union {i}) = Cardinality(T) + 1 /\ Cardinality(T) \in Nat
      BY <1>1, <1>3, FS_AddElement, FS_CardinalityType
    <2>5. Cardinality(T \union {i}) <= Cardinality(From(U, i))
      BY <2>2, <2>3, FS_Subset
    <2> HIDE DEF From
    <2> QED BY <2>2, <2>4, <2>5
  <1>4. /\ Pages!Newest(U, k) = {i \in U : Cardinality(From(U, i)) <= k}
        /\ Pages!Newest(T, k) = {i \in T : Cardinality(From(T, i)) <= k}
    BY PagesSets DEF Pages!Newest
  <1>5. T \subseteq U
    OBVIOUS
  <1> HIDE DEF From
  <1> QED BY <1>2, <1>3, <1>4, <1>5

(* If there are more of them than that, m is none of the newest.           *)
LEMMA NewestBeyond ==
  ASSUME NEW U \in SUBSET Nat, NEW m \in Nat, NEW k \in Nat, NEW T,
         T = {u \in U : m <= u}, Cardinality(T) \in Nat, k < Cardinality(T)
  PROVE  m \notin Pages!Newest(T, k)
  <1>1. {j \in T : j >= m} = T
    OBVIOUS
  <1>2. ~(Cardinality({j \in T : j >= m}) <= k)
    BY <1>1
  <1> QED BY <1>2, PagesSets DEF Pages!Newest

(* A locator is taken for its newest place.                                *)
LEMMA NewestPlace ==
  ASSUME NEW id, NEW n \in Nat, NEW E \in SUBSET (1..n), Pages!Places(id, E) # {}
  PROVE  /\ Pages!At(id, E) \in Pages!Places(id, E)
         /\ \A j \in Pages!Places(id, E) : j <= Pages!At(id, E)
  <1>1. Pages!Places(id, E) \in SUBSET (1..n)
    BY DEF Pages!Places
  <1>2. \E i \in Pages!Places(id, E) : \A j \in Pages!Places(id, E) : j <= i
    BY <1>1, HasLast
  <1> QED BY <1>2 DEF Pages!At

(* Where a locator is from bottom on, and where it is in all the history.  *)
LEMMA PlacesFromOn ==
  ASSUME NEW n \in Nat, NEW bottom \in 1..(n + 1), NEW id
  PROVE  /\ Pages!Places(id, bottom..n) = {i \in Pages!Places(id, 1..n) : bottom <= i}
         /\ Pages!Places(id, 1..(bottom - 1)) = {i \in Pages!Places(id, 1..n) : i < bottom}
  <1>1. /\ bottom..n = {i \in 1..n : bottom <= i}
        /\ 1..(bottom - 1) = {i \in 1..n : i < bottom}
    OBVIOUS
  <1> QED BY <1>1 DEF Pages!Places

(* A locator that was found is where it is in all the history.             *)
LEMMA SamePlace ==
  ASSUME NEW n \in Nat, NEW bottom \in 1..(n + 1), NEW id, Pages!Places(id, bottom..n) # {}
  PROVE  Pages!At(id, bottom..n) = Pages!At(id, 1..n) /\ Pages!At(id, 1..n) \in bottom..n
  <1> DEFINE p == Pages!At(id, 1..n)
  <1> DEFINE q == Pages!At(id, bottom..n)
  <1>1. Pages!Places(id, bottom..n) = {i \in Pages!Places(id, 1..n) : bottom <= i}
    BY PlacesFromOn
  <1>2. q \in Pages!Places(id, bottom..n) /\ \A j \in Pages!Places(id, bottom..n) : j <= q
    <2>1. bottom..n \in SUBSET (1..n)
      OBVIOUS
    <2> QED BY <2>1, NewestPlace
  <1>3. p \in Pages!Places(id, 1..n) /\ \A j \in Pages!Places(id, 1..n) : j <= p
    <2>1. Pages!Places(id, 1..n) # {}
      BY <1>1
    <2> QED BY <2>1, NewestPlace
  <1> HIDE DEF p, q
  <1>4. p \in 1..n /\ q \in bottom..n /\ q <= p
    BY <1>1, <1>2, <1>3 DEF Pages!Places
  <1>5. p \in Pages!Places(id, bottom..n)
    BY <1>1, <1>3, <1>4
  <1>6. p <= q
    BY <1>2, <1>5
  <1>7. p = q /\ p \in bottom..n
    BY <1>4, <1>6
  <1> QED BY <1>7 DEF p, q

(* When the bounds were found they bound what they bound in all of it.     *)
LEMMA SameRange ==
  ASSUME query \in Pages!Queries, NEW n \in Nat, NEW bottom \in 1..(n + 1),
         Pages!Found(bottom..n)
  PROVE  /\ \A i : Pages!InRange(i, bottom..n) <=> Pages!InRange(i, 1..n)
         /\ query.after # Pages!NoItem => Pages!At(query.after, 1..n) \in bottom..n
         /\ query.after # Pages!NoItem /\ query.before # Pages!NoItem =>
              /\ Pages!At(query.after, bottom..n) = Pages!At(query.after, 1..n)
              /\ Pages!At(query.before, bottom..n) = Pages!At(query.before, 1..n)
  <1>1. query.after # Pages!NoItem =>
          /\ Pages!At(query.after, bottom..n) = Pages!At(query.after, 1..n)
          /\ Pages!At(query.after, 1..n) \in bottom..n
    BY SamePlace DEF Pages!Found
  <1>2. query.before # Pages!NoItem =>
          Pages!At(query.before, bottom..n) = Pages!At(query.before, 1..n)
    BY SamePlace DEF Pages!Found
  <1> QED BY <1>1, <1>2 DEF Pages!InRange

(* A bound that is not ambiguous in all of it is not so in a part.         *)
LEMMA BoundedFromOn ==
  ASSUME query \in Pages!Queries, NEW n \in Nat, NEW bottom \in 1..(n + 1),
         Pages!Found(bottom..n), Pages!Bounded(1..n)
  PROVE  Pages!Bounded(bottom..n)
  <1>1. ASSUME NEW id, Pages!Places(id, bottom..n) # {}, NEW i \in 1..n,
               Pages!Places(id, 1..n) = {i}
        PROVE  i \in bottom..n /\ Pages!Places(id, bottom..n) = {i}
    <2>1. Pages!Places(id, bottom..n) = {j \in Pages!Places(id, 1..n) : bottom <= j}
      BY PlacesFromOn
    <2>2. bottom <= i
      BY <1>1, <2>1
    <2> QED BY <1>1, <2>1, <2>2
  <1>2. Pages!Resolves(query.after, bottom..n) /\ Pages!Resolves(query.before, bottom..n)
    BY <1>1 DEF Pages!Resolves, Pages!Found, Pages!Bounded
  <1> QED BY <1>2, SameRange DEF Pages!Bounded

(* A bound occurs below what was read.                                     *)
Below(bottom) ==
  \E id \in {query.after, query.before} \ {Pages!NoItem} :
    Pages!Places(id, 1..(bottom - 1)) # {}

(* A bound that is ambiguous in all of it and not in the part that was     *)
(* read occurs below that part.                                            *)
LEMMA AmbiguousBelow ==
  ASSUME query \in Pages!Queries, NEW n \in Nat, NEW bottom \in 1..(n + 1),
         Pages!Found(bottom..n), Pages!Bounded(bottom..n), ~Pages!Bounded(1..n)
  PROVE  Below(bottom)
  <1> SUFFICES ASSUME ~Below(bottom) PROVE FALSE
    OBVIOUS
  <1>1. ASSUME NEW id \in {query.after, query.before}, id # Pages!NoItem,
               Pages!Resolves(id, bottom..n)
        PROVE  Pages!Resolves(id, 1..n)
    <2>1. Pages!Places(id, 1..(bottom - 1)) = {}
      BY <1>1 DEF Below
    <2>2. 1..n = (1..(bottom - 1)) \union (bottom..n)
      OBVIOUS
    <2>3. Pages!Places(id, 1..n) = Pages!Places(id, 1..(bottom - 1)) \union Pages!Places(id, bottom..n)
      BY <2>2 DEF Pages!Places
    <2>4. Pages!Places(id, bottom..n) = Pages!Places(id, 1..n)
      BY <2>1, <2>3
    <2>5. PICK i \in bottom..n : Pages!Places(id, bottom..n) = {i}
      BY <1>1 DEF Pages!Resolves
    <2>6. i \in 1..n
      OBVIOUS
    <2> QED BY <2>4, <2>5, <2>6 DEF Pages!Resolves
  <1>2. Pages!Resolves(query.after, 1..n) /\ Pages!Resolves(query.before, 1..n)
    BY <1>1 DEF Pages!Bounded, Pages!Resolves
  <1> QED BY <1>2, SameRange DEF Pages!Bounded

(* Enough of the history is as good as all of it.                          *)
LEMMA EnoughSuffices ==
  ASSUME query \in Pages!Queries, NEW n \in Nat, NEW bottom \in 1..(n + 1),
         Pages!Enough(bottom..n), Pages!Bounded(bottom..n)
  PROVE  Pages!Selected(bottom..n) = Pages!Selected(1..n)
  <1> DEFINE Of(E) == {i \in E : Pages!InRange(i, 1..n) /\ Pages!Matches(i)}
  <1>0. query.after \in Nat /\ query.before \in Nat /\ query.limit \in Nat
    BY DEF Pages!Queries
  <1>1. Pages!Found(bottom..n)
    BY DEF Pages!Enough
  <1>2. {i \in bottom..n : Pages!InRange(i, bottom..n) /\ Pages!Matches(i)} = Of(bottom..n)
    BY <1>1, SameRange
  <1>3. /\ Pages!Selected(bottom..n) = Pages!Limited(Of(bottom..n))
        /\ Pages!Selected(1..n) = Pages!Limited(Of(1..n))
    BY <1>2 DEF Pages!Selected
  <1>4. CASE query.after # Pages!NoItem
    <2>1. Pages!At(query.after, 1..n) \in bottom..n
      BY <1>1, <1>4, SameRange
    <2>2. ASSUME NEW i \in 1..n, Pages!InRange(i, 1..n) PROVE i \in bottom..n
      <3>1. i > Pages!At(query.after, 1..n)
        BY <1>4, <2>2 DEF Pages!InRange
      <3> QED BY <2>1, <3>1
    <2>3. Of(bottom..n) = Of(1..n)
      <3>1. bottom..n \subseteq 1..n
        OBVIOUS
      <3> QED BY <2>2, <3>1
    <2> QED BY <1>3, <2>3
  <1>5. CASE query.after = Pages!NoItem
    <2>1. query.limit # 0 /\ query.limit <= Cardinality(Of(bottom..n))
      <3>1. /\ query.limit # 0
            /\ Pages!Cardinality({i \in bottom..n : /\ Pages!InRange(i, bottom..n)
                                                    /\ Pages!Matches(i)}) >= query.limit
        BY <1>5 DEF Pages!Enough
      <3>2. Cardinality(Of(bottom..n)) >= query.limit
        BY <1>2, <3>1, PagesSets
      <3>3. IsFiniteSet(Of(bottom..n))
        <4>1. IsFiniteSet(bottom..n)
          BY FS_Interval
        <4> QED BY <4>1, FS_Subset
      <3>4. Cardinality(Of(bottom..n)) \in Nat
        BY <3>3, FS_CardinalityType
      <3> HIDE DEF Of
      <3> QED BY <1>0, <3>1, <3>2, <3>4
    <2>2. Of(1..n) \in SUBSET Nat /\ IsFiniteSet(Of(1..n))
      <3>1. IsFiniteSet(1..n)
        BY FS_Interval
      <3> QED BY <3>1, FS_Subset
    <2>3. Of(bottom..n) = {i \in Of(1..n) : bottom <= i}
      <3>1. bottom..n = {i \in 1..n : bottom <= i}
        OBVIOUS
      <3> QED BY <3>1
    <2>4. bottom \in Nat
      OBVIOUS
    <2> HIDE DEF Of
    <2>5. Pages!Newest(Of(1..n), query.limit) = Pages!Newest(Of(bottom..n), query.limit)
      BY <1>0, <2>1, <2>2, <2>3, <2>4, NewestFromOn
    <2>6. \A S : Pages!Limited(S) = Pages!Newest(S, query.limit)
      BY <1>5, <2>1 DEF Pages!Limited
    <2> QED BY <1>3, <2>5, <2>6
  <1> QED BY <1>4, <1>5
-----------------------------------------------------------------------------
(* What the steps of the reader have in common. *)

(* The parts of the invariant.                                             *)
LEMMA PagesFacts ==
  ASSUME Pages!IInv
  PROVE  /\ Pages!TypeOK /\ Pages!LogShape /\ Pages!StepShape /\ Pages!CursorShape
         /\ Pages!TurnShape
         /\ Pages!SelectionIsWhole /\ Pages!TurnsAreWhole /\ Pages!TurnIsWhole
  BY DEF Pages!IInv

(* At the end there is nothing to go on with.                              *)
LEMMA ReadingEnds ==
  ASSUME Pages!IInv, step' = "done", UNCHANGED <<log, server, query, began, cursors>>,
         glitches' \in 0..MaxGlitches, first' \in 0..Len(log),
         low' \in 1..(Len(log) + 1), low' <= first' + 1, pages' \in Nat,
         result' \subseteq low'..first', outcome' \in {"ok", "error"},
         Pages!SelectionIsWhole', Pages!TurnsAreWhole', Pages!TurnIsWhole'
  PROVE  Pages!IInv'
  <1>0. Pages!TypeOK /\ Pages!LogShape /\ Pages!StepShape
    BY PagesFacts
  <1>1. Pages!TypeOK'
    <2>3. /\ log \in Seq([turn : Nat, id : Nat, type : Pages!Types]) /\ Len(log) <= MaxItems
          /\ server \in Pages!Servers /\ query \in Pages!Queries
          /\ cursors \subseteq 1..MaxItems /\ began \in 0..Len(log)
      BY <1>0 DEF Pages!TypeOK
    <2>4. (step' = "done") = (outcome' # "none")
      OBVIOUS
    <2> QED BY <2>3, <2>4 DEF Pages!TypeOK
  <1>2. Pages!LogShape'
    BY <1>0 DEF Pages!LogShape
  <1>3. Pages!StepShape'
    BY <1>0 DEF Pages!StepShape
  <1>4. Pages!CursorShape' /\ Pages!TurnShape'
    BY DEF Pages!CursorShape, Pages!TurnShape
  <1> QED BY <1>1, <1>2, <1>3, <1>4 DEF Pages!IInv

(* What the whole history gives is asked for at the end only.              *)
LEMMA ReadingGoesOn ==
  ASSUME step' # "done"
  PROVE  Pages!SelectionIsWhole' /\ Pages!TurnsAreWhole' /\ Pages!TurnIsWhole'
  BY DEF Pages!SelectionIsWhole, Pages!TurnsAreWhole, Pages!TurnIsWhole, Pages!Done

(* Where the next page begins.                                             *)
LEMMA PagePlace ==
  ASSUME Pages!IInv, step \in {"items", "turns", "inspect"},
         NEW bottom \in Nat, bottom = 1 \/ bottom \in 1..Pages!Above
  PROVE  /\ Pages!Top \in Nat /\ Pages!Top <= Len(log) /\ began <= Pages!Top
         /\ bottom \in 1..(Pages!Top + 1)
         /\ bottom # 1 => bottom \notin cursors /\ bottom <= Pages!Top
  <1>0. Pages!TypeOK /\ Pages!CursorShape
    BY PagesFacts
  <1>1. /\ Len(log) \in Nat /\ first \in 0..Len(log) /\ low \in 1..(first + 1)
        /\ began \in 0..Len(log) /\ pages \in Nat
    BY <1>0 DEF Pages!TypeOK
  <1>2. /\ pages = Cardinality(cursors) /\ (pages # 0 => began <= first)
        /\ \A c \in cursors : low <= c
    BY <1>0, PagesSets DEF Pages!CursorShape
  <1>3. CASE pages = 0
    <2>1. IsFiniteSet(cursors)
      <3>1. cursors \subseteq 1..MaxItems
        BY <1>0 DEF Pages!TypeOK
      <3>2. IsFiniteSet(1..MaxItems)
        BY PagesAssumption, FS_Interval
      <3> QED BY <3>1, <3>2, FS_Subset
    <2>2. cursors = {}
      BY <1>2, <1>3, <2>1, FS_EmptySet
    <2> QED BY <1>1, <1>3, <2>2 DEF Pages!Top, Pages!Above
  <1>4. CASE pages # 0
    <2>1. Pages!Top = first /\ Pages!Above = low - 1
      BY <1>4 DEF Pages!Top, Pages!Above
    <2>2. bottom # 1 => bottom < low
      BY <2>1, <1>1
    <2>3. cursors \subseteq Nat
      BY <1>0 DEF Pages!TypeOK
    <2>4. bottom # 1 => bottom \notin cursors
      BY <1>1, <1>2, <2>2, <2>3
    <2> QED BY <1>1, <1>2, <1>4, <2>1, <2>2, <2>4
  <1> QED BY <1>3, <1>4

(* A page of items goes down from there.                                   *)
LEMMA ItemPagePlace ==
  ASSUME Pages!IInv
  PROVE  /\ Pages!ItemPage \in Nat
         /\ Pages!ItemPage = 1 \/ Pages!ItemPage \in 1..Pages!Above
  <1>1. Len(log) \in Nat /\ low \in Nat
    BY PagesFacts DEF Pages!TypeOK
  <1>2. Pages!Above \in Int /\ PageItems \in Nat \ {0}
    BY <1>1, PagesAssumption DEF Pages!Above
  <1> QED BY <1>2 DEF Pages!ItemPage

(* The turn of the item at bottom has no item below it.                    *)
WholeTurns(bottom) == \A k \in 1..(bottom - 1) : log[k].turn # log[bottom].turn

(* So does a page of one turn, and the turn is whole.                      *)
LEMMA TurnPagePlace ==
  ASSUME Pages!IInv
  PROVE  /\ Pages!TurnPage \in Nat
         /\ Pages!TurnPage = 1 \/ Pages!TurnPage \in 1..Pages!Above
         /\ WholeTurns(Pages!TurnPage)
  <1>1. Len(log) \in Nat /\ low \in 1..(Len(log) + 1)
    BY PagesFacts DEF Pages!TypeOK
  <1>2. Pages!Above \in Nat
    BY <1>1 DEF Pages!Above
  <1>3. CASE Pages!Above = 0
    BY <1>3 DEF Pages!TurnPage, WholeTurns
  <1>4. CASE Pages!Above # 0
    <2> DEFINE i == Pages!Above
    <2> DEFINE S == {j \in 1..i : log[j].turn = log[i].turn}
    <2>1. S \in SUBSET (1..i) /\ i \in S
      BY <1>2, <1>4
    <2>2. PICK p \in S : \A q \in S : p <= q
      BY <1>2, <2>1, HasFirst
    <2>3. p \in 1..i /\ log[p].turn = log[i].turn
      BY <2>2
    <2>4. ASSUME NEW k \in 1..(p - 1) PROVE log[k].turn # log[i].turn
      <3>1. k \in 1..i /\ k < p
        BY <1>2, <2>3
      <3>2. k \notin S
        BY <3>1, <2>2, <2>3
      <3> QED BY <3>1, <3>2
    <2>5. Pages!TurnPage = CHOOSE j \in 1..i :
              log[j].turn = log[i].turn /\ \A k \in 1..(j - 1) : log[k].turn # log[i].turn
      BY <1>4 DEF Pages!TurnPage, Pages!TurnStart
    <2> HIDE DEF S
    <2>6. /\ Pages!TurnPage \in 1..i /\ log[Pages!TurnPage].turn = log[i].turn
          /\ \A k \in 1..(Pages!TurnPage - 1) : log[k].turn # log[i].turn
      BY <2>3, <2>4, <2>5
    <2> QED BY <1>2, <2>6 DEF WholeTurns
  <1> QED BY <1>3, <1>4

(* The two ways in which a page that is not the last one ends.             *)
PageContinues(bottom) ==
  /\ UNCHANGED <<log, server, query, began, step, result, outcome, glitches>>
  /\ first' = Pages!Top /\ low' = bottom /\ pages' = pages + 1
  /\ bottom # 1 /\ cursors' = cursors \union {bottom}

PageFails(bottom) ==
  /\ UNCHANGED <<log, server, query, began, cursors>>
  /\ first' = Pages!Top /\ low' = bottom /\ pages' = pages + 1
  /\ step' = "done" /\ outcome' = "error" /\ result' = {}
  /\ bottom # 1 /\ glitches < MaxGlitches /\ glitches' = glitches + 1

(* A cursor that is new is that of the page.                               *)
LEMMA PageCursor ==
  ASSUME Pages!IInv, step \in {"items", "turns", "inspect"},
         NEW bottom \in Nat, bottom = 1 \/ bottom \in 1..Pages!Above, bottom # 1,
         UNCHANGED <<log, server, query, began>>,
         first' = Pages!Top, low' = bottom, pages' = pages + 1,
         \E cursor \in {bottom} \union (IF glitches < MaxGlitches THEN cursors ELSE {}) :
            /\ glitches' = IF cursor = bottom THEN glitches ELSE glitches + 1
            /\ IF Pages!NewCursor(cursor)
               THEN cursors' = cursors \union {cursor} /\ UNCHANGED <<step, result, outcome>>
               ELSE Pages!Ends("error", {}) /\ UNCHANGED cursors
  PROVE  PageContinues(bottom) \/ PageFails(bottom)
  <1>1. PICK cursor \in {bottom} \union (IF glitches < MaxGlitches THEN cursors ELSE {}) :
            /\ glitches' = IF cursor = bottom THEN glitches ELSE glitches + 1
            /\ IF Pages!NewCursor(cursor)
               THEN cursors' = cursors \union {cursor} /\ UNCHANGED <<step, result, outcome>>
               ELSE Pages!Ends("error", {}) /\ UNCHANGED cursors
    OBVIOUS
  <1>2. bottom \notin cursors
    BY PagePlace
  <1>3. CASE cursor = bottom
    <2>1. glitches' = glitches /\ cursors' = cursors \union {bottom}
          /\ UNCHANGED <<step, result, outcome>>
      BY <1>1, <1>2, <1>3 DEF Pages!NewCursor
    <2> QED BY <2>1 DEF PageContinues
  <1>4. CASE cursor # bottom
    <2>1. glitches < MaxGlitches /\ cursor \in cursors
      BY <1>1, <1>4
    <2>2. glitches' = glitches + 1 /\ Pages!Ends("error", {}) /\ cursors' = cursors
      BY <1>1, <1>4, <2>1 DEF Pages!NewCursor
    <2> QED BY <2>1, <2>2 DEF PageFails, Pages!Ends
  <1> QED BY <1>3, <1>4

(* A page that is followed by another one.                                 *)
LEMMA PageContinuesStep ==
  ASSUME Pages!IInv, step \in {"items", "turns", "inspect"},
         NEW bottom \in Nat, bottom = 1 \/ bottom \in 1..Pages!Above, PageContinues(bottom)
  PROVE  Pages!IInv'
  <1>0. Pages!TypeOK /\ Pages!LogShape /\ Pages!StepShape /\ Pages!CursorShape
    BY PagesFacts
  <1>1. /\ UNCHANGED <<log, server, query, began, step, result, outcome, glitches>>
        /\ first' = Pages!Top /\ low' = bottom /\ pages' = pages + 1
        /\ bottom # 1 /\ cursors' = cursors \union {bottom}
    BY DEF PageContinues
  <1>2. /\ Pages!Top \in Nat /\ Pages!Top <= Len(log) /\ began <= Pages!Top
        /\ bottom \in 1..(Pages!Top + 1)
        /\ bottom \notin cursors /\ bottom <= Pages!Top
    BY <1>1, PagePlace
  <1>3. /\ log \in Seq([turn : Nat, id : Nat, type : Pages!Types]) /\ Len(log) \in Nat
        /\ Len(log) <= MaxItems /\ MaxItems \in Nat
        /\ server \in Pages!Servers /\ query \in Pages!Queries /\ pages \in Nat
        /\ cursors \subseteq 1..MaxItems /\ began \in 0..Len(log) /\ glitches \in 0..MaxGlitches
        /\ (step = "done") = (outcome # "none") /\ outcome \in {"none", "ok", "error"}
        /\ first \in 0..Len(log) /\ low \in 1..(first + 1)
    BY <1>0, PagesAssumption DEF Pages!TypeOK
  <1>4. result = {}
    BY <1>0 DEF Pages!StepShape
  <1>5. Pages!TypeOK'
    <2>1. cursors' \subseteq 1..MaxItems
      BY <1>1, <1>2, <1>3
    <2>2. first' \in 0..Len(log) /\ low' \in 1..(Len(log) + 1) /\ low' <= first' + 1
          /\ pages' \in Nat
      BY <1>1, <1>2, <1>3
    <2> QED BY <1>1, <1>3, <1>4, <2>1, <2>2 DEF Pages!TypeOK
  <1>6. Pages!LogShape' /\ Pages!StepShape'
    BY <1>0, <1>1 DEF Pages!LogShape, Pages!StepShape
  <1>7. Pages!CursorShape'
    <2>1. IsFiniteSet(cursors)
      <3>1. IsFiniteSet(1..MaxItems)
        BY <1>3, FS_Interval
      <3> QED BY <3>1, <1>3, FS_Subset
    <2>2. Cardinality(cursors') = Cardinality(cursors) + 1
      BY <1>1, <1>2, <2>1, FS_AddElement
    <2>3. pages = Pages!Cardinality(cursors) /\ \A c \in cursors : low <= c
      BY <1>0 DEF Pages!CursorShape
    <2>4. pages' = Pages!Cardinality(cursors')
      BY <1>1, <2>2, <2>3, PagesSets
    <2>5. ASSUME NEW c \in cursors' PROVE low' <= c
      <3>1. CASE c = bottom
        BY <3>1, <1>1
      <3>2. CASE c \in cursors
        <4>1. low <= c /\ c \in Nat
          BY <3>2, <2>3, <1>3
        <4>2. bottom <= low
          <5>1. CASE pages = 0
            <6>1. cursors = {}
              BY <5>1, <2>1, <2>3, PagesSets, FS_EmptySet
            <6> QED BY <6>1, <3>2
          <5>2. CASE pages # 0
            BY <5>2, <1>1, <1>3 DEF Pages!Above
          <5> QED BY <5>1, <5>2
        <4> QED BY <4>1, <4>2, <1>1, <1>3
      <3> QED BY <3>1, <3>2, <1>1
    <2>6. began' <= first'
      BY <1>1, <1>2
    <2>7. (pages = Pages!Cardinality(cursors))'
      BY <2>4 DEF Pages!Cardinality
    <2> QED BY <2>5, <2>6, <2>7 DEF Pages!CursorShape
  <1>8. Pages!TurnShape'
    BY <1>1 DEF Pages!TurnShape
  <1>9. step' # "done"
    BY <1>1
  <1> QED BY <1>5, <1>6, <1>7, <1>8, <1>9, ReadingGoesOn DEF Pages!IInv

(* A page with a cursor that was given before.                             *)
LEMMA PageFailsStep ==
  ASSUME Pages!IInv, step \in {"items", "turns", "inspect"},
         NEW bottom \in Nat, bottom = 1 \/ bottom \in 1..Pages!Above, PageFails(bottom)
  PROVE  Pages!IInv'
  <1>0. Pages!TypeOK /\ Pages!StepShape
    BY PagesFacts
  <1>1. /\ UNCHANGED <<log, server, query, began, cursors>>
        /\ first' = Pages!Top /\ low' = bottom /\ pages' = pages + 1
        /\ step' = "done" /\ outcome' = "error" /\ result' = {}
        /\ glitches < MaxGlitches /\ glitches' = glitches + 1
    BY DEF PageFails
  <1>2. /\ Pages!Top \in Nat /\ Pages!Top <= Len(log) /\ bottom \in 1..(Pages!Top + 1)
    BY PagePlace
  <1>3. Len(log) \in Nat /\ pages \in Nat /\ glitches \in 0..MaxGlitches /\ MaxGlitches \in Nat
    BY <1>0, PagesAssumption DEF Pages!TypeOK
  <1>4. glitches' \in 0..MaxGlitches /\ glitches' # 0 /\ pages' \in Nat
    BY <1>1, <1>3
  <1>5. first' \in 0..Len(log) /\ low' \in 1..(Len(log) + 1) /\ low' <= first' + 1
    BY <1>1, <1>2, <1>3
  <1>6. result' \subseteq low'..first' /\ outcome' \in {"ok", "error"} /\ outcome' # "ok"
    BY <1>1
  <1>7. Pages!SelectionIsWhole' /\ Pages!TurnsAreWhole' /\ Pages!TurnIsWhole'
    BY <1>4, <1>6 DEF Pages!SelectionIsWhole, Pages!TurnsAreWhole, Pages!TurnIsWhole
  <1> QED BY <1>1, <1>4, <1>5, <1>6, <1>7, ReadingEnds
-----------------------------------------------------------------------------
(* The steps of the reader. *)

(* The entries of the history have their types.                            *)
LEMMA EntryType ==
  ASSUME Pages!TypeOK, NEW i \in 1..Len(log)
  PROVE  log[i] \in [turn : Nat, id : Nat, type : Pages!Types] /\ log[i].turn \in Nat
  <1>1. log \in Seq([turn : Nat, id : Nat, type : Pages!Types])
    BY DEF Pages!TypeOK
  <1>2. log[i] \in [turn : Nat, id : Nat, type : Pages!Types]
    BY <1>1, ElementOfSeq
  <1> QED BY <1>2

(* Below whole turns no bound that was found in them occurs again.         *)
LEMMA NoneBelow ==
  ASSUME Pages!TypeOK, Pages!LogShape, NEW n \in Nat, n <= Len(log), NEW bottom \in 1..(n + 1),
         Pages!Found(bottom..n), WholeTurns(bottom)
  PROVE  ~Below(bottom)
  <1> SUFFICES ASSUME NEW id \in {query.after, query.before}, id # Pages!NoItem,
                      NEW k \in Pages!Places(id, 1..(bottom - 1))
               PROVE  FALSE
    BY DEF Below
  <1>1. Len(log) \in Nat /\ DOMAIN log = 1..Len(log)
    BY DEF Pages!TypeOK
  <1>2. PICK i \in bottom..n : log[i].id = id
    BY DEF Pages!Found, Pages!Places
  <1>3. k \in 1..(bottom - 1) /\ log[k].id = id
    BY DEF Pages!Places
  <1>4. i \in 1..Len(log) /\ k \in 1..Len(log) /\ bottom \in 1..Len(log) /\ k <= bottom /\ bottom <= i
    BY <1>1, <1>2, <1>3
  <1>5. log[k].turn = log[i].turn
    BY <1>1, <1>2, <1>3, <1>4 DEF Pages!LogShape
  <1>6. log[k].turn <= log[bottom].turn /\ log[bottom].turn <= log[i].turn
    BY <1>1, <1>4 DEF Pages!LogShape
  <1>7. log[k].turn \in Nat /\ log[bottom].turn \in Nat /\ log[i].turn \in Nat
    BY <1>4, EntryType
  <1>8. log[k].turn = log[bottom].turn
    BY <1>5, <1>6, <1>7
  <1> QED BY <1>3, <1>8 DEF WholeTurns

(* What an answer from the part down to bottom says of the whole history.  *)
LEMMA AnswerForAll ==
  ASSUME Pages!TypeOK, Pages!LogShape, NEW n \in Nat, n <= Len(log), NEW bottom \in 1..(n + 1),
         Pages!Enough(bottom..n) \/ bottom = 1
  PROVE  /\ Pages!Bounded(bottom..n) => Pages!Selected(bottom..n) = Pages!Selected(1..n)
         /\ Pages!Bounded(1..n) => Pages!Bounded(bottom..n)
         /\ Pages!Bounded(bottom..n) /\ ~Pages!Bounded(1..n) =>
              bottom # 1 /\ Below(bottom) /\ ~WholeTurns(bottom)
  <1>1. CASE bottom = 1
    BY <1>1
  <1>2. CASE Pages!Enough(bottom..n)
    <2>1. query \in Pages!Queries
      BY DEF Pages!TypeOK
    <2>2. Pages!Found(bottom..n)
      BY <1>2 DEF Pages!Enough
    <2>3. Pages!Bounded(bottom..n) => Pages!Selected(bottom..n) = Pages!Selected(1..n)
      BY <1>2, <2>1, EnoughSuffices
    <2>4. Pages!Bounded(1..n) => Pages!Bounded(bottom..n)
      BY <2>1, <2>2, BoundedFromOn
    <2>5. ASSUME Pages!Bounded(bottom..n), ~Pages!Bounded(1..n)
          PROVE  bottom # 1 /\ Below(bottom) /\ ~WholeTurns(bottom)
      <3>1. Below(bottom)
        BY <2>1, <2>2, <2>5, AmbiguousBelow
      <3>2. ~WholeTurns(bottom)
        BY <2>2, <3>1, NoneBelow
      <3> QED BY <2>5, <3>1, <3>2
    <2> QED BY <2>3, <2>4, <2>5
  <1> QED BY <1>1, <1>2

(* A page that is the last one answers for the whole history.              *)
LEMMA LastPageStep ==
  ASSUME Pages!IInv, step \in {"items", "turns"},
         NEW bottom \in Nat, bottom = 1 \/ bottom \in 1..Pages!Above,
         Pages!Enough(bottom..Pages!Top) \/ bottom = 1, Pages!Answers(bottom..Pages!Top),
         bottom = 1 \/ server.items = "full" \/ WholeTurns(bottom),
         UNCHANGED <<log, server, query, began, cursors, glitches>>,
         first' = Pages!Top, low' = bottom, pages' = pages + 1
  PROVE  Pages!IInv'
  <1> DEFINE n == Pages!Top
  <1>0. Pages!TypeOK /\ Pages!LogShape /\ Pages!StepShape
    BY PagesFacts
  <1>1. /\ n \in Nat /\ n <= Len(log) /\ began <= n /\ bottom \in 1..(n + 1)
    BY PagePlace
  <1>2. /\ Len(log) \in Nat /\ pages \in Nat /\ glitches \in 0..MaxGlitches
        /\ query \in Pages!Queries
    BY <1>0 DEF Pages!TypeOK
  <1>3. query.kind = "items" /\ query.turn = Pages!NoTurn
    BY <1>0 DEF Pages!StepShape
  <1>4. /\ Pages!Bounded(bottom..n) => Pages!Selected(bottom..n) = Pages!Selected(1..n)
        /\ Pages!Bounded(1..n) => Pages!Bounded(bottom..n)
        /\ Pages!Bounded(bottom..n) /\ ~Pages!Bounded(1..n) =>
             server.items = "full" /\ Below(bottom)
    BY <1>0, <1>1, AnswerForAll
  <1>5. /\ step' = "done"
        /\ IF Pages!Bounded(bottom..n) THEN outcome' = "ok" /\ result' = Pages!Selected(1..n)
           ELSE outcome' = "error" /\ result' = {}
        /\ result' \subseteq bottom..n
    <2>1. Pages!Selected(bottom..n) \subseteq bottom..n
      BY DEF Pages!Selected, Pages!Limited, Pages!Newest, Pages!Earliest
    <2> QED BY <1>4, <2>1 DEF Pages!Answers, Pages!Ends
  <1>6. Pages!SelectionIsWhole'
    <2>1. first' = n /\ low' = bottom
      OBVIOUS
    <2>2. /\ Pages!Bounded(1..first)' <=> Pages!Bounded(1..n)
          /\ Pages!Bounded(low..first)' <=> Pages!Bounded(bottom..n)
      BY <2>1 DEF Pages!Bounded, Pages!Resolves, Pages!At, Pages!Places
    <2>3. Pages!Selected(1..first)' = Pages!Selected(1..n)
      BY <2>1 DEF Pages!Selected, Pages!Limited, Pages!InRange, Pages!Matches, Pages!At,
                  Pages!Places, Pages!Newest, Pages!Earliest, Pages!Cardinality
    <2>4. first' >= began'
      BY <1>1, <1>2, <1>0 DEF Pages!TypeOK
    <2>5. Below(bottom) => \E id \in {query.after, query.before}' \ {Pages!NoItem} :
                             Pages!Places(id, 1..(low - 1))' # {}
      BY <2>1 DEF Below, Pages!Places
    <2>6. Pages!Bounded(bottom..n) /\ ~Pages!Bounded(1..n) => Pages!RepeatedBelow'
      BY <1>4, <2>2, <2>5 DEF Pages!RepeatedBelow
    <2> QED BY <1>4, <1>5, <2>2, <2>3, <2>4, <2>6 DEF Pages!SelectionIsWhole
  <1>7. Pages!TurnsAreWhole' /\ Pages!TurnIsWhole'
    BY <1>3 DEF Pages!TurnsAreWhole, Pages!TurnIsWhole
  <1>8. first' \in 0..Len(log) /\ low' \in 1..(Len(log) + 1) /\ low' <= first' + 1 /\ pages' \in Nat
    BY <1>1, <1>2
  <1> QED BY <1>2, <1>5, <1>6, <1>7, <1>8, ReadingEnds

(* Another listing is tried from the beginning.                            *)
LEMMA GoesStep ==
  ASSUME Pages!IInv, NEW next \in {"turns", "whole", "inspect"}, Pages!Goes(next), step # "done",
         UNCHANGED <<log, server, query, began>>,
         next = "turns" => step = "items" /\ server.items # "full",
         next = "whole" => step = "exact",
         next = "inspect" => step = "newest" /\ ~server.turns
  PROVE  Pages!IInv'
  <1>0. Pages!TypeOK /\ Pages!LogShape /\ Pages!StepShape
    BY PagesFacts
  <1>1. /\ step' = next /\ first' = 0 /\ low' = 1 /\ cursors' = {} /\ pages' = 0
        /\ glitches' = glitches /\ result' = result /\ outcome' = outcome
    BY DEF Pages!Goes
  <1>2. result = {} /\ outcome = "none"
    BY <1>0 DEF Pages!StepShape, Pages!TypeOK
  <1>3. Pages!TypeOK'
    <2>1. Len(log) \in Nat
      BY <1>0 DEF Pages!TypeOK
    <2>2. first' \in 0..Len(log) /\ low' \in 1..(Len(log) + 1) /\ low' <= first' + 1
      BY <1>1, <2>1
    <2>3. cursors' \subseteq 1..MaxItems /\ pages' \in Nat /\ result' \subseteq low'..first'
      BY <1>1, <1>2
    <2> QED BY <1>0, <1>1, <1>2, <2>2, <2>3 DEF Pages!TypeOK
  <1>4. Pages!LogShape'
    BY <1>0 DEF Pages!LogShape
  <1>5. Pages!StepShape'
    BY <1>0, <1>1, <1>2 DEF Pages!StepShape
  <1>6. Pages!CursorShape'
    <2>1. Cardinality({}) = 0
      BY FS_EmptySet
    <2>2. (pages = Pages!Cardinality(cursors))'
      BY <1>1, <2>1, PagesSets DEF Pages!Cardinality, Cardinality
    <2> QED BY <1>1, <2>2 DEF Pages!CursorShape
  <1>7. Pages!TurnShape'
    BY <1>1 DEF Pages!TurnShape
  <1>8. step' # "done"
    BY <1>1
  <1> QED BY <1>3, <1>4, <1>5, <1>6, <1>7, <1>8, ReadingGoesOn DEF Pages!IInv

(* An error ends the reading where no answer is promised.                  *)
LEMMA FailsStep ==
  ASSUME Pages!IInv, Pages!Fails, UNCHANGED <<log, server, query, began>>,
         query.turn # Pages!NoTurn \/ (server.items # "full" /\ ~server.turns)
  PROVE  Pages!IInv'
  <1>0. Pages!TypeOK /\ Pages!StepShape
    BY PagesFacts
  <1>1. /\ step' = "done" /\ outcome' = "error" /\ result' = {}
        /\ UNCHANGED <<glitches, first, low, cursors, pages>>
    BY DEF Pages!Fails, Pages!Ends
  <1>2. /\ glitches' \in 0..MaxGlitches /\ first' \in 0..Len(log)
        /\ low' \in 1..(Len(log) + 1) /\ low' <= first' + 1 /\ pages' \in Nat
    BY <1>0, <1>1 DEF Pages!TypeOK
  <1>3. Pages!TurnIsWhole'
    BY <1>1 DEF Pages!TurnIsWhole
  <1>4. Pages!SelectionIsWhole' /\ Pages!TurnsAreWhole'
    BY <1>0 DEF Pages!StepShape, Pages!SelectionIsWhole, Pages!TurnsAreWhole, Pages!Done
  <1> QED BY <1>1, <1>2, <1>3, <1>4, ReadingEnds

(* A page of items, or the listing of turns instead.                       *)
LEMMA ReadItemsStep ==
  ASSUME Pages!IInv, Pages!ReadItems
  PROVE  Pages!IInv'
  <1>1. step = "items" /\ UNCHANGED <<log, server, query, began>>
    BY DEF Pages!ReadItems
  <1>2. CASE server.items = "full" \/ (server.items = "bare" /\ log = <<>>)
    <2> DEFINE bottom == Pages!ItemPage
    <2>1. bottom \in Nat /\ (bottom = 1 \/ bottom \in 1..Pages!Above)
      BY ItemPagePlace
    <2>2. Pages!Page(bottom, Pages!Enough(bottom..Pages!Top), Pages!Answers(bottom..Pages!Top))
      BY <1>2 DEF Pages!ReadItems
    <2> HIDE DEF bottom
    <2>3. first' = Pages!Top /\ low' = bottom /\ pages' = pages + 1
      BY <2>2 DEF Pages!Page
    <2>4. CASE Pages!Enough(bottom..Pages!Top) \/ bottom = 1
      <3>1. Pages!Answers(bottom..Pages!Top) /\ UNCHANGED <<glitches, cursors>>
        BY <2>2, <2>4 DEF Pages!Page
      <3>2. ASSUME server.items # "full" PROVE bottom = 1
        <4>1. log = <<>> /\ Len(log) = 0
          BY <1>2, <3>2
        <4>2. low \in 1..1
          BY <4>1, PagesFacts DEF Pages!TypeOK
        <4>3. Pages!Above = 0
          BY <4>1, <4>2 DEF Pages!Above
        <4> QED BY <2>1, <4>3
      <3> QED BY <1>1, <2>1, <2>3, <2>4, <3>1, <3>2, LastPageStep
    <2>5. CASE ~(Pages!Enough(bottom..Pages!Top) \/ bottom = 1)
      <3>1. PageContinues(bottom) \/ PageFails(bottom)
        BY <1>1, <2>1, <2>2, <2>3, <2>5, PageCursor DEF Pages!Page
      <3> QED BY <1>1, <2>1, <3>1, PageContinuesStep, PageFailsStep
    <2> QED BY <2>4, <2>5
  <1>3. CASE ~(server.items = "full" \/ (server.items = "bare" /\ log = <<>>))
    <2>1. Pages!Goes("turns") /\ server.items # "full"
      BY <1>3 DEF Pages!ReadItems
    <2> QED BY <1>1, <2>1, GoesStep
  <1> QED BY <1>2, <1>3

(* A page of turns.                                                        *)
LEMMA ReadTurnsStep ==
  ASSUME Pages!IInv, Pages!ReadTurns
  PROVE  Pages!IInv'
  <1>1. step = "turns" /\ UNCHANGED <<log, server, query, began>>
    BY DEF Pages!ReadTurns
  <1>2. CASE server.turns
    <2> DEFINE bottom == Pages!TurnPage
    <2>1. bottom \in Nat /\ (bottom = 1 \/ bottom \in 1..Pages!Above) /\ WholeTurns(bottom)
      BY TurnPagePlace
    <2>2. Pages!Page(bottom, Pages!Enough(bottom..Pages!Top), Pages!Answers(bottom..Pages!Top))
      BY <1>2 DEF Pages!ReadTurns
    <2> HIDE DEF bottom
    <2>3. first' = Pages!Top /\ low' = bottom /\ pages' = pages + 1
      BY <2>2 DEF Pages!Page
    <2>4. CASE Pages!Enough(bottom..Pages!Top) \/ bottom = 1
      <3>1. Pages!Answers(bottom..Pages!Top) /\ UNCHANGED <<glitches, cursors>>
        BY <2>2, <2>4 DEF Pages!Page
      <3> QED BY <1>1, <2>1, <2>3, <2>4, <3>1, LastPageStep
    <2>5. CASE ~(Pages!Enough(bottom..Pages!Top) \/ bottom = 1)
      <3>1. PageContinues(bottom) \/ PageFails(bottom)
        BY <1>1, <2>1, <2>2, <2>3, <2>5, PageCursor DEF Pages!Page
      <3> QED BY <1>1, <2>1, <3>1, PageContinuesStep, PageFailsStep
    <2> QED BY <2>4, <2>5
  <1>3. CASE ~server.turns
    <2>1. Pages!Fails
      BY <1>3 DEF Pages!ReadTurns
    <2>2. server.items # "full"
      BY <1>1, PagesFacts DEF Pages!StepShape
    <2> QED BY <1>1, <1>3, <2>1, <2>2, FailsStep
  <1> QED BY <1>2, <1>3
(* A turn is complete when an older one shows: the newest turns of enough  *)
(* of the history are those of all of it.                                  *)
LEMMA TurnsSuffice ==
  ASSUME Pages!TypeOK, Pages!LogShape, NEW n \in Nat, n <= Len(log), NEW bottom \in 1..(n + 1),
         Pages!Cardinality(Pages!TurnsOf(bottom..n)) > query.limit
  PROVE  Pages!OfNewestTurns(bottom..n) = Pages!OfNewestTurns(1..n)
  <1> DEFINE U == Pages!TurnsOf(1..n)
  <1> DEFINE T == Pages!TurnsOf(bottom..n)
  <1> DEFINE m == log[bottom].turn
  <1> DEFINE k == query.limit
  <1>1. log \in Seq([turn : Nat, id : Nat, type : Pages!Types]) /\ Len(log) \in Nat /\ k \in Nat
    BY DEF Pages!TypeOK, Pages!Queries
  <1>2. \A i \in 1..n : log[i].turn \in Nat
    <2> SUFFICES ASSUME NEW i \in 1..n PROVE log[i].turn \in Nat
      OBVIOUS
    <2>1. i \in 1..Len(log)
      BY <1>1
    <2>2. log[i] \in [turn : Nat, id : Nat, type : Pages!Types]
      BY <1>1, <2>1, ElementOfSeq
    <2> QED BY <2>2
  <1>3. \A i, j \in 1..n : i <= j => log[i].turn <= log[j].turn
    <2>1. \A i, j \in DOMAIN log : i <= j => log[i].turn <= log[j].turn
      BY DEF Pages!LogShape
    <2>2. 1..n \subseteq DOMAIN log
      BY <1>1
    <2> QED BY <2>1, <2>2
  <1>4. /\ U = {log[i].turn : i \in 1..n} /\ U \in SUBSET Nat /\ IsFiniteSet(U)
        /\ T = {log[i].turn : i \in bottom..n} /\ T \in SUBSET Nat /\ IsFiniteSet(T)
    <2>1. U = {log[i].turn : i \in 1..n} /\ T = {log[i].turn : i \in bottom..n}
      BY DEF Pages!TurnsOf
    <2>2. T \subseteq U
      BY <2>1
    <2>3. U \in SUBSET Nat
      BY <1>2, <2>1
    <2>4. IsFiniteSet(U)
      <3> DEFINE f == [i \in 1..n |-> log[i].turn]
      <3>1. f \in Surjection(1..n, U)
        BY <2>1 DEF Surjection
      <3>2. IsFiniteSet(1..n)
        BY FS_Interval
      <3> QED BY <3>1, <3>2, FS_Surjection
    <2> QED BY <2>1, <2>2, <2>3, <2>4, FS_Subset
  <1>5. Cardinality(T) \in Nat /\ k < Cardinality(T)
    <2>1. Pages!Cardinality(T) = Cardinality(T)
      BY PagesSets
    <2>2. Cardinality(T) > k
      BY <2>1
    <2>3. Cardinality(T) \in Nat
      BY <1>4, FS_CardinalityType
    <2> QED BY <1>1, <2>2, <2>3
  <1>6. bottom \in 1..n /\ m \in Nat
    <2>1. T # {}
      <3>1. Cardinality(T) # 0
        BY <1>1, <1>5
      <3> HIDE DEF T
      <3> QED BY <3>1, FS_EmptySet
    <2>2. bottom..n # {}
      BY <1>4, <2>1
    <2>3. bottom \in 1..n
      BY <2>2
    <2> QED BY <1>2, <2>3
  <1>7. T = {u \in U : m <= u}
    <2>1. ASSUME NEW i \in bottom..n PROVE log[i].turn \in U /\ m <= log[i].turn
      <3>1. i \in 1..n /\ bottom <= i
        OBVIOUS
      <3> QED BY <1>3, <1>4, <1>6, <3>1
    <2>2. ASSUME NEW i \in 1..n, m <= log[i].turn PROVE log[i].turn \in T
      <3>1. CASE i >= bottom
        BY <1>4, <3>1
      <3>2. CASE i < bottom
        <4>1. log[i].turn <= m /\ log[i].turn \in Nat
          BY <1>2, <1>3, <1>6, <3>2
        <4>2. log[i].turn = m
          BY <1>6, <2>2, <4>1
        <4>3. bottom \in bottom..n
          BY <1>6
        <4> QED BY <1>4, <4>2, <4>3
      <3> QED BY <3>1, <3>2
    <2> HIDE DEF U, T, m
    <2> QED BY <1>4, <2>1, <2>2
  <1> DEFINE N == Pages!Newest(U, k)
  <1>8. N = Pages!Newest(T, k) /\ m \notin N
    <2> HIDE DEF U, T, m, k
    <2>1. Pages!Newest(U, k) = Pages!Newest(T, k)
      <3>1. k \in Nat /\ m \in Nat /\ k <= Cardinality(T)
        BY <1>1, <1>5, <1>6
      <3>2. U \in SUBSET Nat /\ IsFiniteSet(U)
        BY <1>4
      <3> QED BY <1>7, <3>1, <3>2, NewestFromOn
    <2>2. m \notin Pages!Newest(T, k)
      BY <1>1, <1>4, <1>5, <1>6, <1>7, NewestBeyond
    <2> QED BY <2>1, <2>2
  <1>9. /\ Pages!OfNewestTurns(1..n) = {i \in 1..n : log[i].turn \in N}
        /\ Pages!OfNewestTurns(bottom..n) = {i \in bottom..n : log[i].turn \in N}
    BY <1>8 DEF Pages!OfNewestTurns
  <1>10. ASSUME NEW i \in 1..n, log[i].turn \in N PROVE i \in bottom..n
    <2>1. log[i].turn \in T
      BY <1>8, <1>10 DEF Pages!Newest
    <2>2. m <= log[i].turn
      BY <1>7, <2>1
    <2>3. log[i].turn # m
      BY <1>8, <1>10
    <2>4. CASE i < bottom
      <3>1. log[i].turn <= m /\ log[i].turn \in Nat
        BY <1>2, <1>3, <1>6, <2>4
      <3> QED BY <1>6, <2>2, <2>3, <3>1
    <2> QED BY <2>4
  <1>11. bottom..n \subseteq 1..n
    OBVIOUS
  <1> HIDE DEF N
  <1> QED BY <1>9, <1>10, <1>11

(* An inspection that ends well.                                           *)
LEMMA InspectedStep ==
  ASSUME Pages!IInv, step \in {"newest", "inspect"}, NEW shown,
         UNCHANGED <<log, server, query, began, cursors, glitches>>,
         step' = "done", outcome' = "ok", result' = shown, shown \subseteq low'..first',
         began <= first', first' \in 0..Len(log), low' \in 1..(Len(log) + 1), low' <= first' + 1,
         pages' \in Nat,
         server.items = "full" \/ server.turns => shown = Pages!OfNewestTurns(1..first')
  PROVE  Pages!IInv'
  <1>0. Pages!TypeOK /\ Pages!StepShape
    BY PagesFacts
  <1>1. query.kind = "inspect" /\ query.turn = Pages!NoTurn
    BY <1>0 DEF Pages!StepShape
  <1>2. Pages!SelectionIsWhole' /\ Pages!TurnIsWhole'
    BY <1>1 DEF Pages!SelectionIsWhole, Pages!TurnIsWhole
  <1>3. Pages!OfNewestTurns(1..first)' = Pages!OfNewestTurns(1..first')
    BY DEF Pages!OfNewestTurns, Pages!TurnsOf, Pages!Newest, Pages!Cardinality
  <1>4. Pages!TurnsAreWhole'
    <2>1. first' >= began'
      BY <1>0 DEF Pages!TypeOK
    <2> QED BY <1>3, <2>1 DEF Pages!TurnsAreWhole, Pages!Done
  <1>5. glitches' \in 0..MaxGlitches
    BY <1>0 DEF Pages!TypeOK
  <1> QED BY <1>2, <1>4, <1>5, ReadingEnds

(* The newest turns in one page, or the inspection of items.               *)
LEMMA ReadNewestStep ==
  ASSUME Pages!IInv, Pages!ReadNewest
  PROVE  Pages!IInv'
  <1>0. Pages!TypeOK /\ Pages!StepShape
    BY PagesFacts
  <1>1. step = "newest" /\ UNCHANGED <<log, server, query, began>>
    BY DEF Pages!ReadNewest
  <1>2. CASE server.turns
    <2> DEFINE shown == Pages!OfNewestTurns(DOMAIN log)
    <2>1. /\ first' = Len(log) /\ pages' = 1 /\ UNCHANGED <<glitches, cursors>>
          /\ low' = IF shown = {} THEN 1 ELSE CHOOSE i \in shown : \A j \in shown : i <= j
          /\ Pages!Ends("ok", shown)
      BY <1>2 DEF Pages!ReadNewest
    <2>2. Len(log) \in Nat /\ DOMAIN log = 1..Len(log) /\ began <= Len(log)
      BY <1>0 DEF Pages!TypeOK
    <2>3. shown \in SUBSET (1..Len(log))
      BY <2>2 DEF Pages!OfNewestTurns
    <2>4. shown = Pages!OfNewestTurns(1..first')
      BY <2>1, <2>2
    <2> HIDE DEF shown
    <2>5. low' \in 1..(Len(log) + 1) /\ low' <= Len(log) + 1 /\ shown \subseteq low'..Len(log)
      <3>1. CASE shown = {}
        BY <2>1, <2>2, <3>1
      <3>2. CASE shown # {}
        <4>1. \E i \in shown : \A j \in shown : i <= j
          BY <2>2, <2>3, <3>2, HasFirst
        <4>2. low' \in shown /\ \A j \in shown : low' <= j
          BY <2>1, <3>2, <4>1
        <4>3. low' \in Int /\ shown \subseteq Int
          BY <2>3, <4>2
        <4> QED BY <2>2, <2>3, <4>2, <4>3
      <3> QED BY <3>1, <3>2
    <2>6. step' = "done" /\ outcome' = "ok" /\ result' = shown
      BY <2>1 DEF Pages!Ends
    <2>7. first' \in 0..Len(log) /\ pages' \in Nat /\ began <= first' /\ low' <= first' + 1
          /\ shown \subseteq low'..first'
      <3>1. first' = Len(log) /\ pages' = 1
        BY <2>1
      <3> QED BY <2>2, <2>5, <3>1
    <2> QED BY <1>1, <2>1, <2>4, <2>5, <2>6, <2>7, InspectedStep
  <1>3. CASE ~server.turns
    <2>1. Pages!Goes("inspect")
      BY <1>3 DEF Pages!ReadNewest
    <2> QED BY <1>1, <1>3, <2>1, GoesStep
  <1> QED BY <1>2, <1>3

(* A page of items for an inspection.                                      *)
LEMMA ReadInspectedStep ==
  ASSUME Pages!IInv, Pages!ReadInspected
  PROVE  Pages!IInv'
  <1>0. Pages!TypeOK /\ Pages!LogShape /\ Pages!StepShape
    BY PagesFacts
  <1>1. step = "inspect" /\ UNCHANGED <<log, server, query, began>> /\ ~server.turns
    BY <1>0 DEF Pages!ReadInspected, Pages!StepShape
  <1>2. CASE server.items = "no"
    <2>1. Pages!Fails
      BY <1>2 DEF Pages!ReadInspected
    <2> QED BY <1>1, <1>2, <2>1, FailsStep
  <1>3. CASE server.items # "no"
    <2> DEFINE bottom == Pages!ItemPage
    <2> DEFINE E == bottom..Pages!Top
    <2> DEFINE shown == IF server.items = "full" THEN Pages!OfNewestTurns(E)
                        ELSE Pages!Newest({i \in E : Pages!Matches(i)}, query.limit)
    <2>1. bottom \in Nat /\ (bottom = 1 \/ bottom \in 1..Pages!Above)
      BY ItemPagePlace
    <2>2. Pages!Page(bottom, Pages!Surpassed(E), Pages!Ends("ok", shown))
      BY <1>3 DEF Pages!ReadInspected
    <2>3. first' = Pages!Top /\ low' = bottom /\ pages' = pages + 1
      BY <2>2 DEF Pages!Page
    <2>4. CASE Pages!Surpassed(E) \/ bottom = 1
      <3>1. Pages!Ends("ok", shown) /\ UNCHANGED <<glitches, cursors>>
        BY <2>2, <2>4 DEF Pages!Page
      <3>2. /\ Pages!Top \in Nat /\ Pages!Top <= Len(log) /\ began <= Pages!Top
            /\ bottom \in 1..(Pages!Top + 1)
        BY <1>1, <2>1, PagePlace
      <3>3. Len(log) \in Nat /\ pages \in Nat
        BY <1>0 DEF Pages!TypeOK
      <3>4. shown \subseteq E
        BY DEF Pages!OfNewestTurns, Pages!Newest
      <3>5. ASSUME server.items = "full" PROVE shown = Pages!OfNewestTurns(1..Pages!Top)
        <4>1. CASE bottom = 1
          BY <3>5, <4>1
        <4>2. CASE Pages!Surpassed(E)
          <5>1. Pages!Cardinality(Pages!TurnsOf(E)) > query.limit
            BY <3>5, <4>2 DEF Pages!Surpassed
          <5> QED BY <1>0, <3>2, <3>5, <5>1, TurnsSuffice
        <4> QED BY <2>4, <4>1, <4>2
      <3> HIDE DEF shown, bottom
      <3>6. first' \in 0..Len(log) /\ low' \in 1..(Len(log) + 1) /\ low' <= first' + 1
            /\ pages' \in Nat /\ began <= first' /\ shown \subseteq low'..first'
        BY <2>3, <3>2, <3>3, <3>4
      <3>7. step' = "done" /\ outcome' = "ok" /\ result' = shown
        BY <3>1 DEF Pages!Ends
      <3> QED BY <1>1, <2>3, <3>1, <3>5, <3>6, <3>7, InspectedStep
    <2>5. CASE ~(Pages!Surpassed(E) \/ bottom = 1)
      <3> HIDE DEF bottom
      <3>1. PageContinues(bottom) \/ PageFails(bottom)
        BY <1>1, <2>1, <2>2, <2>3, <2>5, PageCursor DEF Pages!Page
      <3> QED BY <1>1, <2>1, <3>1, PageContinuesStep, PageFailsStep
    <2> QED BY <2>4, <2>5
  <1> QED BY <1>2, <1>3
(* A turn has no gap.                                                      *)
LEMMA TurnHasNoGap ==
  ASSUME Pages!TypeOK, Pages!LogShape, NEW i \in Pages!Turn, NEW j \in Pages!Turn,
         NEW k \in i..j
  PROVE  k \in Pages!Turn
  <1>1. log \in Seq([turn : Nat, id : Nat, type : Pages!Types]) /\ Len(log) \in Nat
        /\ DOMAIN log = 1..Len(log)
    BY DEF Pages!TypeOK
  <1>2. /\ i \in 1..Len(log) /\ j \in 1..Len(log)
        /\ log[i].turn = query.turn /\ log[j].turn = query.turn
    BY <1>1 DEF Pages!Turn
  <1>3. k \in 1..Len(log) /\ i <= k /\ k <= j
    BY <1>1, <1>2
  <1>4. log[i].turn <= log[k].turn /\ log[k].turn <= log[j].turn
    BY <1>1, <1>2, <1>3 DEF Pages!LogShape
  <1>5. \A p \in 1..Len(log) : log[p].turn \in Nat
    <2> SUFFICES ASSUME NEW p \in 1..Len(log) PROVE log[p].turn \in Nat
      OBVIOUS
    <2>1. log[p] \in [turn : Nat, id : Nat, type : Pages!Types]
      BY <1>1, ElementOfSeq
    <2> QED BY <2>1
  <1>6. log[k].turn = query.turn
    <2>1. log[k].turn \in Nat /\ log[i].turn \in Nat
      BY <1>2, <1>3, <1>5
    <2> QED BY <1>2, <1>4, <2>1
  <1> QED BY <1>1, <1>3, <1>6 DEF Pages!Turn

(* The first and the last place of a turn.                                 *)
LEMMA TurnEnds ==
  ASSUME Pages!TypeOK, Pages!Turn # {}
  PROVE  /\ Pages!Turn \in SUBSET (1..Len(log)) /\ Len(log) \in Nat
         /\ LET start == CHOOSE i \in Pages!Turn : \A j \in Pages!Turn : i <= j
            IN  start \in Pages!Turn /\ \A j \in Pages!Turn : start <= j
         /\ LET end == CHOOSE i \in Pages!Turn : \A j \in Pages!Turn : i >= j
            IN  end \in Pages!Turn /\ \A j \in Pages!Turn : j <= end
  <1>1. Pages!Turn \in SUBSET (1..Len(log)) /\ Len(log) \in Nat
    BY DEF Pages!TypeOK, Pages!Turn
  <1>2. \E i \in Pages!Turn : \A j \in Pages!Turn : i <= j
    BY <1>1, HasFirst
  <1>3. \E i \in Pages!Turn : \A j \in Pages!Turn : i >= j
    <2>1. PICK i \in Pages!Turn : \A j \in Pages!Turn : j <= i
      BY <1>1, HasLast
    <2>2. \A j \in Pages!Turn : i >= j
      BY <1>1, <2>1
    <2> QED BY <2>2
  <1> DEFINE end == CHOOSE i \in Pages!Turn : \A j \in Pages!Turn : i >= j
  <1>4. end \in Pages!Turn /\ \A j \in Pages!Turn : end >= j
    BY <1>3
  <1>5. \A j \in Pages!Turn : j <= end
    <2> HIDE DEF end
    <2> QED BY <1>1, <1>4
  <1> QED BY <1>1, <1>2, <1>4, <1>5

(* The next items of a turn, and no item that is not of the turn.          *)
LEMMA ReadExactStep ==
  ASSUME Pages!IInv, Pages!ReadExact
  PROVE  Pages!IInv'
  <1>0. Pages!TypeOK /\ Pages!LogShape /\ Pages!StepShape /\ Pages!TurnShape
    BY PagesFacts
  <1>1. step = "exact" /\ UNCHANGED <<log, server, query, began>>
    BY DEF Pages!ReadExact
  <1>2. CASE server.items = "no"
    <2>1. Pages!Goes("whole")
      BY <1>2 DEF Pages!ReadExact
    <2> QED BY <1>1, <2>1, GoesStep
  <1>3. Len(log) \in Nat /\ pages \in Nat /\ first \in 0..Len(log) /\ began \in 0..Len(log)
        /\ result = {} /\ outcome = "none"
    BY <1>0, <1>1 DEF Pages!TypeOK, Pages!StepShape
  <1>4. Pages!Turn' = Pages!Turn
    BY <1>1 DEF Pages!Turn
  \* What is the same wherever the items of the turn end.
  <1>5. ASSUME step' \in {"exact", "find"}, UNCHANGED <<glitches, cursors, result, outcome>>,
               first' \in 0..Len(log), low' \in 1..(Len(log) + 1), low' <= first' + 1,
               pages' \in Nat, Pages!TurnShape'
        PROVE  Pages!IInv'
    <2>1. Pages!TypeOK'
      <3>1. /\ log \in Seq([turn : Nat, id : Nat, type : Pages!Types]) /\ Len(log) <= MaxItems
            /\ server \in Pages!Servers /\ glitches \in 0..MaxGlitches
            /\ query \in Pages!Queries /\ cursors \subseteq 1..MaxItems
        BY <1>0 DEF Pages!TypeOK
      <3> QED BY <1>1, <1>3, <1>5, <3>1 DEF Pages!TypeOK
    <2>2. Pages!LogShape'
      BY <1>0, <1>1 DEF Pages!LogShape
    <2>3. Pages!StepShape'
      BY <1>0, <1>1, <1>3, <1>5 DEF Pages!StepShape
    <2>4. Pages!CursorShape'
      BY <1>5 DEF Pages!CursorShape
    <2>5. step' # "done"
      BY <1>5
    <2> QED BY <1>5, <2>1, <2>2, <2>3, <2>4, <2>5, ReadingGoesOn DEF Pages!IInv
  <1>6. CASE server.items # "no" /\ Pages!Turn = {}
    <2>1. step' = "find" /\ UNCHANGED <<glitches, first, low, cursors, pages, result, outcome>>
      BY <1>6 DEF Pages!ReadExact
    <2>2. first = 0 /\ low = 1
      <3>1. pages = 0
        BY <1>0, <1>1, <1>6 DEF Pages!TurnShape
      <3> QED BY <1>0, <1>1, <3>1 DEF Pages!TurnShape
    <2>3. Pages!TurnShape'
      <3>1. first' = 0 /\ low' = 1 /\ Pages!Turn' = {}
        BY <1>4, <1>6, <2>1, <2>2
      <3>2. low'..first' = {}
        BY <3>1
      <3> QED BY <2>1, <3>1, <3>2 DEF Pages!TurnShape
    <2> QED BY <1>3, <1>5, <2>1, <2>2, <2>3
  <1>7. CASE server.items # "no" /\ Pages!Turn # {}
    <2> DEFINE start == CHOOSE i \in Pages!Turn : \A j \in Pages!Turn : i <= j
    <2> DEFINE from == IF pages = 0 THEN start ELSE first + 1
    <2> DEFINE S == {j \in Pages!Turn : j >= from /\ j < from + PageItems}
    <2> DEFINE upTo == CHOOSE i \in S : \A j \in Pages!Turn : j < from + PageItems => j <= i
    <2>1. /\ low' = start /\ first' = upTo /\ pages' = pages + 1
          /\ step' = (IF Pages!MoreOfTurn(upTo) THEN "exact" ELSE "find")
          /\ UNCHANGED <<glitches, cursors, result, outcome>>
      BY <1>7 DEF Pages!ReadExact
    <2>2. /\ Pages!Turn \in SUBSET (1..Len(log))
          /\ start \in Pages!Turn /\ \A j \in Pages!Turn : start <= j
      BY <1>0, <1>7, TurnEnds
    <2> HIDE DEF start
    <2>3. from \in Pages!Turn /\ from \in Nat
      <3>1. from \in Pages!Turn
        BY <1>0, <1>1, <2>2 DEF Pages!TurnShape
      <3>2. from \in 1..Len(log)
        BY <2>2, <3>1
      <3> HIDE DEF from
      <3> QED BY <1>3, <3>1, <3>2
    <2> HIDE DEF from
    <2>4. upTo \in S /\ \A j \in Pages!Turn : j < from + PageItems => j <= upTo
      <3>1. S \in SUBSET (1..Len(log)) /\ from \in S
        <4>1. from >= from /\ from < from + PageItems
          BY <2>3, PagesAssumption
        <4> QED BY <2>2, <2>3, <4>1
      <3>2. PICK p \in S : \A q \in S : q <= p
        BY <1>3, <3>1, HasLast
      <3>3. ASSUME NEW j \in Pages!Turn, j < from + PageItems PROVE j <= p
        <4>1. CASE j >= from
          BY <3>2, <3>3, <4>1
        <4>2. CASE j < from
          <5>1. from <= p
            BY <3>1, <3>2
          <5> QED BY <2>2, <2>3, <3>1, <4>2, <5>1
        <4> QED BY <2>2, <2>3, <4>1, <4>2
      <3> HIDE DEF S
      <3> QED BY <3>2, <3>3
    <2> HIDE DEF upTo
    <2>5. upTo \in Pages!Turn /\ upTo \in 1..Len(log) /\ start \in 1..Len(log) /\ start <= upTo
      BY <2>2, <2>4
    <2>6. start..upTo \subseteq Pages!Turn
      BY <1>0, <2>2, <2>5, TurnHasNoGap
    <2>7. CASE Pages!MoreOfTurn(upTo)
      <3>1. step' = "exact" /\ upTo + 1 \in Pages!Turn
        BY <2>1, <2>7 DEF Pages!MoreOfTurn
      <3>2. pages' # 0
        BY <1>3, <2>1
      <3>3. first' = upTo /\ low' = start
        BY <2>1
      <3>4. (low..first \subseteq Pages!Turn)' /\ (first + 1 \in Pages!Turn)'
            /\ \A i \in Pages!Turn' : low' <= i
        BY <1>4, <2>2, <2>6, <3>1, <3>3
      <3>5. Pages!TurnShape'
        BY <3>1, <3>2, <3>4 DEF Pages!TurnShape
      <3>6. first' \in 0..Len(log) /\ low' \in 1..(Len(log) + 1) /\ low' <= first' + 1
            /\ pages' \in Nat
        BY <1>3, <2>1, <2>5, <3>3
      <3> QED BY <1>5, <2>1, <3>1, <3>5, <3>6
    <2>8. CASE ~Pages!MoreOfTurn(upTo)
      <3>1. step' = "find" /\ upTo + 1 \notin Pages!Turn
        BY <2>1, <2>8 DEF Pages!MoreOfTurn
      <3>2. ASSUME NEW i \in Pages!Turn PROVE i <= upTo
        <4>1. i \in 1..Len(log)
          BY <2>2
        <4>2. CASE i > upTo
          <5>1. upTo + 1 \in upTo..i
            BY <2>5, <4>1, <4>2
          <5>2. upTo + 1 \in Pages!Turn
            BY <1>0, <2>5, <5>1, TurnHasNoGap
          <5> QED BY <3>1, <5>2
        <4> QED BY <2>5, <4>1, <4>2
      <3>3. first' = upTo /\ low' = start
        BY <2>1
      <3>4. {i \in Pages!Turn : i <= upTo} = start..upTo
        <4>1. ASSUME NEW i \in Pages!Turn PROVE i \in start..upTo
          <5>1. i \in 1..Len(log) /\ start <= i /\ i <= upTo
            BY <2>2, <3>2
          <5> QED BY <1>3, <2>5, <5>1
        <4>2. \A i \in start..upTo : i <= upTo
          BY <1>3, <2>5
        <4> QED BY <2>6, <3>2, <4>1, <4>2
      <3>5. Pages!TurnShape'
        BY <1>4, <3>1, <3>2, <3>3, <3>4 DEF Pages!TurnShape
      <3>6. first' \in 0..Len(log) /\ low' \in 1..(Len(log) + 1) /\ low' <= first' + 1
            /\ pages' \in Nat
        BY <1>3, <2>1, <2>5, <3>3
      <3> QED BY <1>5, <2>1, <3>1, <3>5, <3>6
    <2> QED BY <2>7, <2>8
  <1> QED BY <1>2, <1>6, <1>7

(* An answer about one turn.                                               *)
LEMMA TurnAnswered ==
  ASSUME Pages!IInv, step \in {"find", "whole"}, NEW E,
         Pages!Answers(E), UNCHANGED <<log, server, query, began, cursors, glitches>>,
         E = low'..first', E = {i \in Pages!Turn : i <= first'},
         \A i \in Pages!Turn : i <= began => i <= first',
         first' \in 0..Len(log), low' \in 1..(Len(log) + 1), low' <= first' + 1, pages' \in Nat
  PROVE  Pages!IInv'
  <1>0. Pages!TypeOK /\ Pages!StepShape
    BY PagesFacts
  <1>1. query.kind = "items" /\ query.turn # Pages!NoTurn
    BY <1>0 DEF Pages!StepShape
  <1>2. /\ step' = "done" /\ outcome' \in {"ok", "error"}
        /\ outcome' = "ok" => Pages!Bounded(E) /\ result' = Pages!Selected(E)
        /\ result' \subseteq E
    <2>1. Pages!Selected(E) \subseteq E
      BY DEF Pages!Selected, Pages!Limited, Pages!Newest, Pages!Earliest
    <2> QED BY <2>1 DEF Pages!Answers, Pages!Ends
  <1>3. Pages!SelectionIsWhole' /\ Pages!TurnsAreWhole'
    BY <1>1 DEF Pages!SelectionIsWhole, Pages!TurnsAreWhole
  <1>4. Pages!TurnIsWhole'
    <2>1. Pages!Turn' = Pages!Turn
      BY DEF Pages!Turn
    <2>2. {i \in Pages!Turn : i <= first}' = E
      BY <2>1
    <2>3. /\ Pages!Selected({i \in Pages!Turn : i <= first})' = Pages!Selected(E)
          /\ Pages!Bounded({i \in Pages!Turn : i <= first})' <=> Pages!Bounded(E)
      <3>1. log' = log /\ query' = query
        OBVIOUS
      <3> HIDE DEF Pages!Turn
      <3>2. /\ \A id, F : Pages!Places(id, F)' = Pages!Places(id, F)
            /\ \A id, F : Pages!At(id, F)' = Pages!At(id, F)
        BY <3>1 DEF Pages!At, Pages!Places
      <3>3. /\ \A i, F : Pages!InRange(i, F)' <=> Pages!InRange(i, F)
            /\ \A i : Pages!Matches(i)' <=> Pages!Matches(i)
        BY <3>1, <3>2 DEF Pages!InRange, Pages!Matches
      <3>4. ASSUME NEW F PROVE Pages!Selected(F)' = Pages!Selected(F)
        <4>1. {i \in F : Pages!InRange(i, F)' /\ Pages!Matches(i)'}
                = {i \in F : Pages!InRange(i, F) /\ Pages!Matches(i)}
          BY <3>3
        <4> QED BY <3>1, <4>1 DEF Pages!Selected, Pages!Limited, Pages!Newest, Pages!Earliest,
                                  Pages!Cardinality
      <3>5. \A F : Pages!Bounded(F)' <=> Pages!Bounded(F)
        BY <3>1, <3>2 DEF Pages!Bounded, Pages!Resolves
      <3> QED BY <2>2, <3>4, <3>5
    <2>4. {i \in Pages!Turn : i <= began} \subseteq E /\ E \subseteq Pages!Turn
      OBVIOUS
    <2> QED BY <1>2, <2>1, <2>3, <2>4 DEF Pages!TurnIsWhole
  <1>5. glitches' \in 0..MaxGlitches
    BY <1>0 DEF Pages!TypeOK
  <1> QED BY <1>2, <1>3, <1>4, <1>5, ReadingEnds

(* The items of the turn are the answer.                                   *)
LEMMA FindTurnStep ==
  ASSUME Pages!IInv, Pages!FindTurn
  PROVE  Pages!IInv'
  <1>0. Pages!TypeOK /\ Pages!StepShape /\ Pages!TurnShape
    BY PagesFacts
  <1>1. step = "find"
        /\ UNCHANGED <<log, server, query, glitches, first, low, cursors, pages, began>>
    BY DEF Pages!FindTurn
  <1>2. /\ first' \in 0..Len(log) /\ low' \in 1..(Len(log) + 1) /\ low' <= first' + 1
        /\ pages' \in Nat /\ glitches' \in 0..MaxGlitches
    BY <1>0, <1>1 DEF Pages!TypeOK
  <1>3. CASE server.turns /\ Pages!Turn = {}
    <2>1. step' = "done" /\ outcome' = "error" /\ result' = {}
      BY <1>3 DEF Pages!FindTurn, Pages!Ends
    <2>2. query.turn # Pages!NoTurn /\ query.kind = "items"
      BY <1>0, <1>1 DEF Pages!StepShape
    <2>3. Pages!SelectionIsWhole' /\ Pages!TurnsAreWhole' /\ Pages!TurnIsWhole'
      BY <1>1, <2>1, <2>2 DEF Pages!SelectionIsWhole, Pages!TurnsAreWhole, Pages!TurnIsWhole
    <2> QED BY <1>1, <1>2, <2>1, <2>3, ReadingEnds
  <1>4. CASE ~(server.turns /\ Pages!Turn = {})
    <2> DEFINE E == low..first
    <2>1. Pages!Answers(E)
      BY <1>4 DEF Pages!FindTurn
    <2>2. /\ E = {i \in Pages!Turn : i <= first}
          /\ \A i \in Pages!Turn : i <= began => i <= first
      BY <1>0, <1>1 DEF Pages!TurnShape
    <2>3. /\ E = low'..first' /\ E = {i \in Pages!Turn : i <= first'}
          /\ \A i \in Pages!Turn : i <= began => i <= first'
      BY <1>1, <2>2
    <2> HIDE DEF E
    <2> QED BY <1>1, <1>2, <2>1, <2>3, TurnAnswered
  <1> QED BY <1>3, <1>4

(* The turn at once.                                                       *)
LEMMA ReadWholeStep ==
  ASSUME Pages!IInv, Pages!ReadWhole
  PROVE  Pages!IInv'
  <1>0. Pages!TypeOK /\ Pages!LogShape /\ Pages!StepShape
    BY PagesFacts
  <1>1. step = "whole" /\ UNCHANGED <<log, server, query, began>>
    BY DEF Pages!ReadWhole
  <1>2. CASE ~server.turns \/ Pages!Turn = {}
    <2>1. Pages!Fails
      BY <1>2 DEF Pages!ReadWhole
    <2>2. query.turn # Pages!NoTurn
      BY <1>0, <1>1 DEF Pages!StepShape
    <2> QED BY <1>1, <2>1, <2>2, FailsStep
  <1>3. CASE ~(~server.turns \/ Pages!Turn = {})
    <2> DEFINE start == CHOOSE i \in Pages!Turn : \A j \in Pages!Turn : i <= j
    <2> DEFINE end == CHOOSE i \in Pages!Turn : \A j \in Pages!Turn : i >= j
    <2>1. /\ low' = start /\ first' = end /\ pages' = 1 /\ UNCHANGED <<glitches, cursors>>
          /\ Pages!Answers(start..end)
      BY <1>3 DEF Pages!ReadWhole
    <2>2. /\ Pages!Turn \in SUBSET (1..Len(log)) /\ Len(log) \in Nat
          /\ start \in Pages!Turn /\ \A j \in Pages!Turn : start <= j
          /\ end \in Pages!Turn /\ \A j \in Pages!Turn : j <= end
      BY <1>0, <1>3, TurnEnds
    <2> HIDE DEF start, end
    <2>3. start \in 1..Len(log) /\ end \in 1..Len(log) /\ start <= end
      BY <2>2
    <2>4. start..end \subseteq Pages!Turn
      BY <1>0, <2>2, TurnHasNoGap
    <2>5. start..end = {i \in Pages!Turn : i <= end}
      <3>1. ASSUME NEW i \in Pages!Turn PROVE i \in start..end
        <4>1. i \in 1..Len(log) /\ start <= i /\ i <= end
          BY <2>2
        <4> QED BY <2>2, <2>3, <4>1
      <3>2. \A i \in start..end : i <= end
        BY <2>2, <2>3
      <3> QED BY <2>2, <2>4, <3>1, <3>2
    <2>6. /\ start..end = low'..first' /\ start..end = {i \in Pages!Turn : i <= first'}
          /\ \A i \in Pages!Turn : i <= began => i <= first'
      BY <2>1, <2>2, <2>5
    <2>7. first' \in 0..Len(log) /\ low' \in 1..(Len(log) + 1) /\ low' <= first' + 1
          /\ pages' \in Nat
      BY <2>1, <2>2, <2>3
    <2> QED BY <1>1, <2>1, <2>6, <2>7, TurnAnswered
  <1> QED BY <1>2, <1>3
(* The thread goes on: what was read is read, and what the reader has not  *)
(* seen yet is beyond it.                                                  *)
LEMMA GrowsStep ==
  ASSUME Pages!IInv, Pages!Grows
  PROVE  Pages!IInv'
  <1>0. Pages!TypeOK /\ Pages!LogShape /\ Pages!StepShape /\ Pages!CursorShape /\ Pages!TurnShape
    BY PagesFacts
  <1>1. /\ step # "done" /\ Len(log) < MaxItems
        /\ UNCHANGED <<server, glitches, query, step, first, low, cursors, pages, result, outcome,
                       began>>
    BY DEF Pages!Grows
  <1> DEFINE turnAfter(k) == IF log = <<>> THEN 1 ELSE log[Len(log)].turn + k
  <1>2. PICK type \in Pages!Types, k \in 0..1 :
          \E id \in {Len(log) + 1} \union
                    {log[i].id : i \in {j \in DOMAIN log : log[j].turn = turnAfter(k)}} :
            log' = Append(log, [turn |-> turnAfter(k), id |-> id, type |-> type])
    BY DEF Pages!Grows
  <1> DEFINE turn == turnAfter(k)
  <1>entry. PICK id \in {Len(log) + 1}
                      \union {log[i].id : i \in {j \in DOMAIN log : log[j].turn = turn}} :
           log' = Append(log, [turn |-> turn, id |-> id, type |-> type])
    BY <1>2
  <1> DEFINE r == [turn |-> turn, id |-> id, type |-> type]
  <1>3. /\ log \in Seq([turn : Nat, id : Nat, type : Pages!Types]) /\ Len(log) \in Nat
        /\ DOMAIN log = 1..Len(log)
    BY <1>0 DEF Pages!TypeOK
  <1>4. \A i \in 1..Len(log) : log[i].turn \in Nat
    <2> SUFFICES ASSUME NEW i \in 1..Len(log) PROVE log[i].turn \in Nat
      OBVIOUS
    <2>1. log[i] \in [turn : Nat, id : Nat, type : Pages!Types]
      BY <1>3, ElementOfSeq
    <2> QED BY <2>1
  <1>5. /\ turn \in Nat
        /\ \A i \in 1..Len(log) : log[i].turn <= turn
    <2>1. CASE log = <<>>
      <3>1. Len(log) = 0 /\ turn = 1
        BY <2>1
      <3> QED BY <3>1
    <2>2. CASE log # <<>>
      <3>1. Len(log) \in 1..Len(log)
        BY <1>3, <2>2, EmptySeq
      <3>2. log[Len(log)].turn \in Nat /\ turn = log[Len(log)].turn + k
        BY <1>4, <2>2, <3>1
      <3>3. \A i \in 1..Len(log) : log[i].turn <= log[Len(log)].turn
        BY <1>0, <1>3, <3>1 DEF Pages!LogShape
      <3>4. ASSUME NEW i \in 1..Len(log) PROVE log[i].turn <= turn
        <4>1. log[i].turn <= log[Len(log)].turn /\ log[i].turn \in Nat
          BY <1>4, <3>3
        <4> HIDE DEF turn
        <4> QED BY <3>2, <4>1
      <3> HIDE DEF turn
      <3> QED BY <3>2, <3>4
    <2> QED BY <2>1, <2>2
  \* The new locator: one of its own, or one of the turn.
  <1>locator. /\ id \in 1..(Len(log) + 1)
         /\ \A i \in 1..Len(log) : log[i].id = id => log[i].turn = turn
    <2> HIDE DEF turn
    <2>1. \A i \in 1..Len(log) : log[i].id \in 1..i
      BY <1>0, <1>3 DEF Pages!LogShape
    <2>2. CASE id = Len(log) + 1
      <3>1. ASSUME NEW i \in 1..Len(log) PROVE log[i].id # id
        <4>1. log[i].id \in 1..i
          BY <2>1
        <4> QED BY <1>3, <2>2, <4>1
      <3> QED BY <1>3, <2>2, <3>1
    <2>3. CASE \E j \in 1..Len(log) : log[j].turn = turn /\ id = log[j].id
      <3>1. PICK j \in 1..Len(log) : log[j].turn = turn /\ id = log[j].id
        BY <2>3
      <3>2. id \in 1..j
        BY <2>1, <3>1
      <3>3. ASSUME NEW i \in 1..Len(log), log[i].id = id PROVE log[i].turn = turn
        <4>1. log[i].turn = log[j].turn
          BY <1>0, <1>3, <3>1, <3>3 DEF Pages!LogShape
        <4> QED BY <3>1, <4>1
      <3> QED BY <1>3, <3>2, <3>3
    <2> QED BY <1>3, <1>entry, <2>2, <2>3
  <1>typed. r \in [turn : Nat, id : Nat, type : Pages!Types] /\ r.turn = turn /\ r.id = id
    <2> HIDE DEF turn
    <2>1. id \in Nat /\ turn \in Nat
      BY <1>3, <1>5, <1>locator
    <2>2. type \in Pages!Types
      BY <1>2
    <2>3. r.turn = turn /\ r.id = id
      OBVIOUS
    <2>4. r \in [turn : Nat, id : Nat, type : Pages!Types]
      BY <2>1, <2>2
    <2> QED BY <2>3, <2>4
  <1>6. log' = Append(log, r)
    BY <1>entry
  <1> HIDE DEF r, turn
  <1>7. /\ log' \in Seq([turn : Nat, id : Nat, type : Pages!Types]) /\ Len(log') = Len(log) + 1
        /\ DOMAIN log' = 1..(Len(log) + 1)
        /\ \A i \in 1..Len(log) : log'[i] = log[i]
        /\ log'[Len(log) + 1] = r
    BY <1>3, <1>typed, <1>6, AppendProperties
  <1>8. Pages!TypeOK'
    <2>1. /\ server \in Pages!Servers /\ glitches \in 0..MaxGlitches /\ query \in Pages!Queries
          /\ step \in {"items", "turns", "exact", "find", "whole", "newest", "inspect", "done"}
          /\ cursors \subseteq 1..MaxItems /\ pages \in Nat
          /\ result \subseteq low..first /\ outcome \in {"none", "ok", "error"}
          /\ (step = "done") = (outcome # "none")
          /\ first \in 0..Len(log) /\ low \in 1..(Len(log) + 1) /\ low <= first + 1
          /\ began \in 0..Len(log)
      BY <1>0 DEF Pages!TypeOK
    <2>2. Len(log') <= MaxItems
      BY <1>1, <1>3, <1>7, PagesAssumption
    <2>3. first \in 0..Len(log') /\ low \in 1..(Len(log') + 1) /\ began \in 0..Len(log')
      BY <1>3, <1>7, <2>1
    <2> QED BY <1>1, <1>7, <2>1, <2>2, <2>3 DEF Pages!TypeOK
  <1>9. Pages!LogShape'
    <2> DEFINE n == Len(log)
    <2>1. /\ DOMAIN log' = 1..(n + 1) /\ n \in Nat
          /\ \A i \in 1..n : log'[i] = log[i]
          /\ log'[n + 1].turn = turn /\ log'[n + 1].id = id
          /\ turn \in Nat /\ id \in 1..(n + 1)
          /\ \A i \in 1..n : log[i].turn <= turn
          /\ \A i \in 1..n : log[i].id = id => log[i].turn = turn
      BY <1>3, <1>5, <1>7, <1>locator, <1>typed
    <2>2. /\ \A i, j \in 1..n : i <= j => log[i].turn <= log[j].turn
          /\ \A i \in 1..n : log[i].id \in 1..i
          /\ \A i, j \in 1..n : log[i].id = log[j].id => log[i].turn = log[j].turn
      BY <1>0, <1>3 DEF Pages!LogShape
    <2> HIDE DEF n
    <2>3. \A i \in 1..(n + 1) : i \in 1..n \/ i = n + 1
      BY <2>1
    <2>4. ASSUME NEW i \in 1..(n + 1), NEW j \in 1..(n + 1), i <= j
          PROVE  log'[i].turn <= log'[j].turn
      <3>1. CASE j \in 1..n
        <4>1. i \in 1..n
          BY <2>1, <2>4, <3>1
        <4> QED BY <2>1, <2>2, <2>4, <3>1, <4>1
      <3>2. CASE j = n + 1 /\ i \in 1..n
        BY <2>1, <3>2
      <3>3. CASE j = n + 1 /\ i = n + 1
        BY <2>1, <3>3
      <3> QED BY <2>3, <3>1, <3>2, <3>3
    <2>5. ASSUME NEW i \in 1..(n + 1) PROVE log'[i].id \in 1..i
      BY <2>1, <2>2, <2>3
    <2>6. ASSUME NEW i \in 1..(n + 1), NEW j \in 1..(n + 1), log'[i].id = log'[j].id
          PROVE  log'[i].turn = log'[j].turn
      BY <2>1, <2>2, <2>3, <2>6
    <2>7. DOMAIN log' = 1..(n + 1)
      BY <2>1
    <2>8. \A i, j \in DOMAIN log' : i <= j => log'[i].turn <= log'[j].turn
      BY <2>4, <2>7
    <2>9. \A i \in DOMAIN log' : log'[i].id \in 1..i
      BY <2>5, <2>7
    <2>10. \A i, j \in DOMAIN log' : log'[i].id = log'[j].id => log'[i].turn = log'[j].turn
      BY <2>6, <2>7
    <2> QED BY <2>8, <2>9, <2>10 DEF Pages!LogShape
  <1>10. Pages!StepShape'
    BY <1>0, <1>1 DEF Pages!StepShape
  <1>11. Pages!CursorShape'
    BY <1>0, <1>1 DEF Pages!CursorShape, Pages!Cardinality
  <1>12. Pages!TurnShape'
    <2>1. /\ Pages!Turn \subseteq 1..Len(log) /\ Pages!Turn \subseteq Pages!Turn'
          /\ Pages!Turn' \subseteq Pages!Turn \union {Len(log) + 1}
      <3>1. /\ Pages!Turn = {i \in 1..Len(log) : log[i].turn = query.turn}
            /\ Pages!Turn' = {i \in 1..(Len(log) + 1) : log'[i].turn = query.turn}
        BY <1>1, <1>3, <1>7 DEF Pages!Turn
      <3>2. 1..(Len(log) + 1) = 1..Len(log) \union {Len(log) + 1}
        BY <1>3
      <3>3. \A i \in 1..Len(log) : log'[i].turn = log[i].turn
        BY <1>7
      <3> QED BY <3>1, <3>2, <3>3
    <2>2. first \in 0..Len(log) /\ began \in 0..Len(log) /\ low \in 1..(Len(log) + 1)
      BY <1>0 DEF Pages!TypeOK
    <2>3. ASSUME NEW i \in Pages!Turn', i <= first \/ i <= began PROVE i \in Pages!Turn
      BY <1>3, <2>1, <2>2, <2>3
    <2>4. CASE step = "exact"
      <3>1. /\ pages = 0 => first = 0 /\ low = 1
            /\ pages # 0 => /\ low..first \subseteq Pages!Turn /\ first + 1 \in Pages!Turn
                            /\ \A i \in Pages!Turn : low <= i
        BY <2>4, <1>0 DEF Pages!TurnShape
      <3>2. pages # 0 => \A i \in Pages!Turn' : low <= i
        BY <1>3, <2>1, <2>2, <3>1
      <3> QED BY <1>1, <2>1, <2>4, <3>1, <3>2 DEF Pages!TurnShape
    <2>5. CASE step = "find"
      <3>1. /\ {i \in Pages!Turn : i <= first} = low..first
            /\ \A i \in Pages!Turn : i <= began => i <= first
        BY <2>5, <1>0 DEF Pages!TurnShape
      <3>2. /\ {i \in Pages!Turn' : i <= first} = low..first
            /\ \A i \in Pages!Turn' : i <= began => i <= first
        BY <2>1, <2>3, <3>1
      <3> QED BY <1>1, <2>5, <3>2 DEF Pages!TurnShape
    <2>6. CASE step \notin {"exact", "find"}
      BY <1>1, <2>6 DEF Pages!TurnShape
    <2> QED BY <2>4, <2>5, <2>6
  <1>13. step' # "done"
    BY <1>1
  <1> QED BY <1>8, <1>9, <1>10, <1>11, <1>12, <1>13, ReadingGoesOn DEF Pages!IInv

(* In a history, turns come one after the other.                           *)
LEMMA HistoryInOrder ==
  ASSUME NEW n \in Nat, NEW h \in Pages!Histories(n), NEW i \in 1..n, NEW j \in 1..n, i <= j
  PROVE  h[i].turn <= h[j].turn
  <1>1. /\ h \in [1..n -> [turn : 1..n, id : 1..n, type : Pages!Types]]
        /\ \A k \in 1..(n - 1) : h[k + 1].turn \in {h[k].turn, h[k].turn + 1}
    BY DEF Pages!Histories
  <1>2. \A k \in 1..n : h[k].turn \in Nat
    BY <1>1
  <1> DEFINE S == {k \in 1..n : i <= k /\ h[k].turn < h[i].turn}
  <1>3. ASSUME S # {} PROVE FALSE
    <2>1. PICK p \in S : \A q \in S : p <= q
      BY <1>3, HasFirst
    <2>2. p \in 1..n /\ i <= p /\ h[p].turn < h[i].turn
      BY <2>1
    <2>3. p # i
      BY <1>2, <2>2
    <2>4. p - 1 \in 1..(n - 1) /\ p - 1 \in 1..n /\ i <= p - 1 /\ (p - 1) + 1 = p /\ ~(p <= p - 1)
      BY <2>2, <2>3
    <2>5. p - 1 \notin S
      BY <2>1, <2>4
    <2>6. ~(h[p - 1].turn < h[i].turn)
      BY <2>4, <2>5
    <2>7. h[p].turn \in {h[p - 1].turn, h[p - 1].turn + 1}
      BY <1>1, <2>4
    <2>8. h[p].turn \in Nat /\ h[p - 1].turn \in Nat /\ h[i].turn \in Nat
      BY <1>2, <2>2, <2>4
    <2> QED BY <2>2, <2>6, <2>7, <2>8
  <1>4. j \notin S
    BY <1>3
  <1>5. h[i].turn \in Nat /\ h[j].turn \in Nat
    BY <1>2
  <1> QED BY <1>4, <1>5

(* In a history, a locator is that of an item of the same turn.            *)
LEMMA LocatorsInTurns ==
  ASSUME NEW n \in Nat, NEW h \in Pages!Histories(n)
  PROVE  \A i \in 1..n : h[i].id \in 1..i /\ h[h[i].id].turn = h[i].turn
  <1>1. \A i \in 1..n :
          h[i].id = i \/ \E j \in 1..(i - 1) : h[j].turn = h[i].turn /\ h[i].id = h[j].id
    BY DEF Pages!Histories
  <1> DEFINE S == {i \in 1..n : ~(h[i].id \in 1..i /\ h[h[i].id].turn = h[i].turn)}
  <1>2. ASSUME S # {} PROVE FALSE
    <2>1. PICK p \in S : \A q \in S : p <= q
      BY <1>2, HasFirst
    <2>2. p \in 1..n /\ ~(h[p].id \in 1..p /\ h[h[p].id].turn = h[p].turn)
      BY <2>1
    <2>3. h[p].id # p
      BY <2>2
    <2>4. PICK j \in 1..(p - 1) : h[j].turn = h[p].turn /\ h[p].id = h[j].id
      BY <1>1, <2>2, <2>3
    <2>5. j \in 1..n /\ j < p
      BY <2>2, <2>4
    <2>6. j \notin S
      BY <2>1, <2>2, <2>5
    <2>7. h[j].id \in 1..j /\ h[h[j].id].turn = h[j].turn
      BY <2>5, <2>6
    <2>8. h[p].id \in 1..p
      BY <2>2, <2>4, <2>5, <2>7
    <2>9. h[h[p].id].turn = h[p].turn
      BY <2>4, <2>7
    <2> QED BY <2>2, <2>8, <2>9
  <1> QED BY <1>2

(* At first nothing was read.                                              *)
LEMMA PagesBegin ==
  ASSUME Pages!Init
  PROVE  Pages!IInv
  <1>1. PICK n \in 0..MaxStart : log \in Pages!Histories(n)
    BY DEF Pages!Init
  <1>2. n \in Nat /\ n <= MaxItems
    BY PagesAssumption
  <1>3. log \in [1..n -> [turn : 1..n, id : 1..n, type : Pages!Types]]
    BY <1>1 DEF Pages!Histories
  <1>4. /\ log \in Seq([turn : Nat, id : Nat, type : Pages!Types]) /\ Len(log) = n /\ DOMAIN log = 1..n
    <2>1. log \in [1..n -> [turn : Nat, id : Nat, type : Pages!Types]]
      <3>1. ASSUME NEW i \in 1..n PROVE log[i] \in [turn : Nat, id : Nat, type : Pages!Types]
        <4>1. log[i] \in [turn : 1..n, id : 1..n, type : Pages!Types]
          BY <1>3
        <4> QED BY <4>1
      <3> QED BY <1>3, <3>1
    <2>2. log \in Seq([turn : Nat, id : Nat, type : Pages!Types])
      <3>1. Seq([turn : Nat, id : Nat, type : Pages!Types])
              = UNION {[1..k -> [turn : Nat, id : Nat, type : Pages!Types]] : k \in Nat}
        BY SeqDef
      <3> QED BY <1>2, <2>1, <3>1
    <2>3. DOMAIN log = 1..n /\ DOMAIN log = 1..Len(log) /\ Len(log) \in Nat
      BY <2>1, <2>2, LenProperties
    <2>4. Len(log) = n
      <3>1. CASE Len(log) > n
        <4>1. Len(log) \in 1..Len(log) /\ Len(log) \notin 1..n
          BY <1>2, <2>3, <3>1
        <4> QED BY <2>3, <4>1
      <3>2. CASE Len(log) < n
        <4>1. n \in 1..n /\ n \notin 1..Len(log)
          BY <1>2, <2>3, <3>2
        <4> QED BY <2>3, <4>1
      <3> QED BY <1>2, <2>3, <3>1, <3>2
    <2> QED BY <2>2, <2>3, <2>4
  <1>5. /\ server \in Pages!Servers /\ glitches = 0 /\ query \in GivenQueries
        /\ step = Pages!Begin(query) /\ first = 0 /\ low = 1 /\ cursors = {} /\ pages = 0
        /\ result = {} /\ outcome = "none" /\ began = Len(log)
    BY DEF Pages!Init
  <1>6. query \in Pages!Queries /\ (query.kind = "inspect" => query.turn = Pages!NoTurn)
    BY <1>5, PagesAssumption
  <1>7. /\ step \in {"items", "exact", "newest"}
        /\ step = "items" => query.kind = "items" /\ query.turn = Pages!NoTurn
        /\ step = "exact" => query.kind = "items" /\ query.turn # Pages!NoTurn
        /\ step = "newest" => query.kind = "inspect"
    BY <1>5, <1>6 DEF Pages!Begin, Pages!Queries
  <1>8. Pages!TypeOK
    <2>1. /\ first \in 0..Len(log) /\ low \in 1..(Len(log) + 1) /\ low <= first + 1
          /\ began \in 0..Len(log) /\ glitches \in 0..MaxGlitches
      BY <1>2, <1>4, <1>5, PagesAssumption
    <2> QED BY <1>2, <1>4, <1>5, <1>6, <1>7, <2>1 DEF Pages!TypeOK
  <1>9. Pages!LogShape
    <2>1. \A i, j \in 1..n : i <= j => log[i].turn <= log[j].turn
      BY <1>1, <1>2, HistoryInOrder
    <2>2. \A i \in 1..n : log[i].id \in 1..i /\ log[log[i].id].turn = log[i].turn
      BY <1>1, <1>2, LocatorsInTurns
    <2> QED BY <1>4, <2>1, <2>2 DEF Pages!LogShape
  <1>10. Pages!StepShape
    BY <1>5, <1>6, <1>7 DEF Pages!StepShape
  <1>11. Pages!CursorShape
    <2>1. pages = Pages!Cardinality(cursors)
      BY <1>5, PagesSets, FS_EmptySet
    <2> QED BY <1>5, <2>1 DEF Pages!CursorShape
  <1>12. Pages!TurnShape
    BY <1>5, <1>7 DEF Pages!TurnShape
  <1>13. Pages!SelectionIsWhole /\ Pages!TurnsAreWhole /\ Pages!TurnIsWhole
    BY <1>7 DEF Pages!SelectionIsWhole, Pages!TurnsAreWhole, Pages!TurnIsWhole, Pages!Done
  <1> QED BY <1>8, <1>9, <1>10, <1>11, <1>12, <1>13 DEF Pages!IInv

(* Nothing happens to the reader and the thread.                           *)
LEMMA PagesStay ==
  ASSUME Pages!IInv, UNCHANGED Pages!vars
  PROVE  Pages!IInv'
  <1>0. /\ Pages!TypeOK /\ Pages!LogShape /\ Pages!StepShape /\ Pages!CursorShape
        /\ Pages!TurnShape
        /\ Pages!SelectionIsWhole /\ Pages!TurnsAreWhole /\ Pages!TurnIsWhole
    BY PagesFacts
  <1>1. UNCHANGED <<log, server, glitches, query, step, first, low, cursors, pages, result, outcome,
                    began>>
    BY DEF Pages!vars
  <1>2. Pages!TypeOK' /\ Pages!LogShape' /\ Pages!StepShape'
    BY <1>0, <1>1 DEF Pages!TypeOK, Pages!LogShape, Pages!StepShape
  <1>3. Pages!CursorShape'
    BY <1>0, <1>1 DEF Pages!CursorShape, Pages!Cardinality
  <1>4. Pages!TurnShape'
    BY <1>0, <1>1 DEF Pages!TurnShape, Pages!Turn
  <1>5. CASE step # "done"
    BY <1>1, <1>2, <1>3, <1>4, <1>5, ReadingGoesOn DEF Pages!IInv
  <1>6. CASE step = "done"
    <2>1. /\ Pages!Selected(1..first)' = Pages!Selected(1..first)
          /\ Pages!Bounded(1..first)' <=> Pages!Bounded(1..first)
          /\ Pages!RepeatedBelow' <=> Pages!RepeatedBelow
      BY <1>1 DEF Pages!Selected, Pages!Bounded, Pages!Limited, Pages!InRange, Pages!Matches,
                  Pages!Newest, Pages!Earliest, Pages!Cardinality, Pages!Resolves, Pages!At,
                  Pages!Places, Pages!RepeatedBelow
    <2>2. Pages!OfNewestTurns(1..first)' = Pages!OfNewestTurns(1..first)
      BY <1>1 DEF Pages!OfNewestTurns, Pages!TurnsOf, Pages!Newest, Pages!Cardinality
    <2>3. /\ Pages!Turn' = Pages!Turn
          /\ Pages!Selected({i \in Pages!Turn : i <= first})'
               = Pages!Selected({i \in Pages!Turn : i <= first})
          /\ Pages!Bounded({i \in Pages!Turn : i <= first})'
               <=> Pages!Bounded({i \in Pages!Turn : i <= first})
      BY <1>1 DEF Pages!Turn, Pages!Selected, Pages!Bounded, Pages!Limited, Pages!InRange,
                  Pages!Matches, Pages!Newest, Pages!Earliest, Pages!Cardinality,
                  Pages!Resolves, Pages!At, Pages!Places
    <2>4. Pages!Done' <=> Pages!Done
      BY <1>1 DEF Pages!Done
    <2>5. Pages!SelectionIsWhole'
      BY <1>0, <1>1, <2>1, <2>4 DEF Pages!SelectionIsWhole
    <2>6. Pages!TurnsAreWhole'
      BY <1>0, <1>1, <2>2, <2>4 DEF Pages!TurnsAreWhole
    <2>7. Pages!TurnIsWhole'
      BY <1>0, <1>1, <2>3 DEF Pages!TurnIsWhole
    <2> QED BY <1>2, <1>3, <1>4, <2>5, <2>6, <2>7 DEF Pages!IInv
  <1> QED BY <1>5, <1>6

(* Every step keeps the invariant.                                         *)
LEMMA PagesNext ==
  ASSUME Pages!IInv, Pages!Next
  PROVE  Pages!IInv'
  BY GrowsStep, ReadItemsStep, ReadTurnsStep, ReadExactStep, FindTurnStep, ReadWholeStep,
     ReadNewestStep, ReadInspectedStep DEF Pages!Next
-----------------------------------------------------------------------------
(* The scan of a rollout. *)

(* The operators on sets and sequences of an instance are those of their   *)
(* modules.                                                                *)
LEMMA ScanSets ==
  /\ \A S : Scan!Cardinality(S) = Cardinality(S)
  /\ \A s : Scan!ToSet(s) = {s[i] : i \in DOMAIN s}
  /\ \A S : Scan!Max(S) = CHOOSE x \in S : \A y \in S : x >= y
  /\ \A S, n : Scan!BoundedSeq(S, n) = UNION {[1..m -> S] : m \in 0..n}
  <1>1. \A S : Scan!Cardinality(S) = Cardinality(S)
    BY DEF Scan!Cardinality, Cardinality
  <1>2. \A s : Scan!ToSet(s) = {s[i] : i \in DOMAIN s}
    BY DEF Scan!ToSet
  <1>3. \A S : Scan!Max(S) = CHOOSE x \in S : \A y \in S : x >= y
    BY DEF Scan!Max
  <1>4. \A S, n : Scan!BoundedSeq(S, n) = UNION {[1..m -> S] : m \in 0..n}
    BY DEF Scan!BoundedSeq, Scan!SeqOf
  <1> QED BY <1>1, <1>2, <1>3, <1>4

(* Sequences up to a length.                                               *)
LEMMA BoundedSequences ==
  ASSUME NEW S, NEW n \in Nat, NEW s
  PROVE  s \in Scan!BoundedSeq(S, n) <=> s \in Seq(S) /\ Len(s) <= n
  <1>1. ASSUME s \in Scan!BoundedSeq(S, n) PROVE s \in Seq(S) /\ Len(s) <= n
    <2>1. PICK m \in 0..n : s \in [1..m -> S]
      BY <1>1, ScanSets
    <2>2. s \in Seq(S) /\ Len(s) = m
      BY <2>1
    <2> QED BY <2>2
  <1>2. ASSUME s \in Seq(S), Len(s) <= n PROVE s \in Scan!BoundedSeq(S, n)
    <2>1. Len(s) \in 0..n /\ s \in [1..Len(s) -> S]
      BY <1>2, LenProperties
    <2> QED BY <2>1, ScanSets
  <1> QED BY <1>1, <1>2

(* The records of a rollout are of three kinds.                            *)
LEMMA RecordKinds ==
  ASSUME NEW r \in Scan!Records
  PROVE  /\ r.kind \in {"message", "memory", "compacted"} /\ r.hit \in BOOLEAN
         /\ r.memories \in SUBSET Memories
         /\ r.kind = "message" => r.memories = {} /\ r = Scan!Message(r.hit)
         /\ r.kind = "memory" => \E m \in Memories : r.memories = {m}
  <1>1. CASE \E hit \in BOOLEAN : r = Scan!Message(hit)
    BY <1>1 DEF Scan!Message
  <1>2. CASE \E m \in Memories : r = Scan!Memory(m)
    BY <1>2 DEF Scan!Memory
  <1>3. CASE \E ms \in SUBSET Memories : r = Scan!Compacted(ms)
    BY <1>3 DEF Scan!Compacted
  <1> QED BY <1>1, <1>2, <1>3 DEF Scan!Records

(* A set with one element.                                                 *)
LEMMA JustOne ==
  ASSUME ScanAssumption, NEW ms \in SUBSET Memories
  PROVE  /\ Scan!Cardinality(ms) = 1 <=> \E m \in Memories : ms = {m}
         /\ \A m \in Memories : ms = {m} => (CHOOSE x \in ms : TRUE) = m
  <1>1. IsFiniteSet(ms)
    BY FS_Subset DEF ScanAssumption
  <1>2. Cardinality(ms) = 1 <=> \E m : ms = {m}
    BY <1>1, FS_Singleton
  <1> QED BY <1>2, ScanSets
-----------------------------------------------------------------------------
(* The steps of the search for the file. *)

(* The parts of the invariant.                                             *)
LEMMA ScanFacts ==
  ASSUME ScanAssumption, Scan!IInv
  PROVE  /\ Scan!TypeOK /\ Scan!PlaceShape /\ Scan!LineShape /\ Scan!MovedIsNotTwo
         /\ ~cut => Scan!StatesShape /\ Scan!SumShape
         /\ file \in Seq(Scan!Records) /\ Len(file) \in Nat /\ Len(file) <= MaxLines
         /\ at \in Nat /\ at <= Len(file) /\ moves \in Nat
  <1>1. file \in Scan!BoundedSeq(Scan!Records, MaxLines)
    BY DEF Scan!IInv, Scan!TypeOK
  <1>2. file \in Seq(Scan!Records) /\ Len(file) <= MaxLines
    BY <1>1, BoundedSequences DEF ScanAssumption
  <1>3. Len(file) \in Nat
    BY <1>2, LenProperties
  <1>4. at \in 0..Len(file) /\ moves \in 0..MaxMoves
    BY DEF Scan!IInv, Scan!TypeOK
  <1> QED BY <1>2, <1>3, <1>4 DEF Scan!IInv

(* What was read stays the same while the lines read do.                   *)
LEMMA LinesReadStay ==
  ASSUME at' = at, got' = got, \A i \in 1..at : file'[i] = file[i]
  PROVE  /\ Scan!StatesShape => Scan!StatesShape'
         /\ Scan!SumShape => Scan!SumShape'
  <1>1. Scan!Read' = Scan!Read
    BY DEF Scan!Read
  <1>2. Scan!Compactions' = Scan!Compactions /\ Scan!Standalone' = Scan!Standalone
    BY DEF Scan!Read, Scan!Compactions, Scan!Standalone
  <1>3. \A i \in Scan!Compactions : i \in 1..at
    BY DEF Scan!Read, Scan!Compactions
  <1>4. Scan!Checkpoints' = Scan!Checkpoints /\ Scan!LastCompaction' = Scan!LastCompaction
    BY <1>2, <1>3 DEF Scan!Checkpoints, Scan!LastCompaction
  <1>5. ASSUME Scan!StatesShape PROVE Scan!StatesShape'
    <2>1. \A i \in Scan!Checkpoints \union Scan!Standalone : file'[i] = file[i]
      BY <1>3 DEF Scan!Checkpoints, Scan!Standalone, Scan!Read
    <2>2. \A i \in DOMAIN got.states : file'[got.states[i].line] = file[got.states[i].line]
      BY <1>5, <2>1 DEF Scan!StatesShape
    <2> QED BY <1>2, <1>4, <1>5, <2>2 DEF Scan!StatesShape
  <1>6. ASSUME Scan!SumShape PROVE Scan!SumShape'
    <2>1. {i \in Scan!Read : file'[i].kind = "message"} = {i \in Scan!Read : file[i].kind = "message"}
      BY DEF Scan!Read
    <2>2. {j \in Scan!Read : file'[j].kind # "message" /\ j >= Scan!LastCompaction} =
          {j \in Scan!Read : file[j].kind # "message" /\ j >= Scan!LastCompaction}
      BY DEF Scan!Read
    <2>3. \A i \in Scan!Read : file'[i] = file[i]
      BY DEF Scan!Read
    <2> QED BY <1>1, <1>2, <1>4, <1>6, <2>1, <2>2, <2>3 DEF Scan!SumShape
  <1> QED BY <1>5, <1>6

(* A move of the file, before it is open.                                  *)
LEMMA MovesStep ==
  ASSUME ScanAssumption, Scan!IInv, Scan!Moves
  PROVE  Scan!IInv'
  <1>0. /\ Scan!TypeOK /\ Scan!PlaceShape /\ Scan!LineShape /\ moves \in Nat
        /\ ~cut => Scan!StatesShape /\ Scan!SumShape
    BY ScanFacts
  <1>1. /\ step \in Scan!Looking /\ moves < MaxMoves
        /\ place' \in Scan!Directories \ {place} /\ moves' = moves + 1
        /\ UNCHANGED <<file, part, step, matches, at, half, got, cut, began>>
    BY DEF Scan!Moves
  <1>2. Scan!TypeOK'
    <2>1. moves' \in 0..MaxMoves
      BY <1>0, <1>1 DEF ScanAssumption
    <2> QED BY <1>0, <1>1, <2>1 DEF Scan!TypeOK
  <1>3. Scan!PlaceShape'
    <2>1. \/ place = "sessions" /\ place' = "archived"
          \/ place = "archived" /\ place' = "sessions"
      <3>1. Scan!Directories = {"sessions", "archived"}
        BY DEF Scan!Directories
      <3>2. place \in {"sessions", "archived"}
        BY <1>0, <3>1 DEF Scan!TypeOK
      <3>3. place' \in {"sessions", "archived"} /\ place' # place
        BY <1>1, <3>1
      <3> QED BY <3>2, <3>3
    <2>2. /\ moves \in Nat /\ moves' \in Nat
          /\ moves' >= 1 /\ (moves >= 1 => moves' >= 2) /\ (moves >= 2 => moves' >= 3)
          /\ (moves >= 3 => moves' >= 3)
      BY <1>0, <1>1
    <2>3. /\ step' = "sessions" => matches' = {}
          /\ step' = "archived" => matches' \subseteq {"sessions"}
      BY <1>0, <1>1 DEF Scan!PlaceShape
    <2>4. Scan!Directories' \subseteq matches' =>
            /\ step' = "check sessions" => moves' >= 1 /\ (place' = "sessions" => moves' >= 2)
            /\ step' = "check archived" => moves' >= 2 /\ (place' = "archived" => moves' >= 3)
            /\ step' = "open" => moves' >= 3
      <3>1. Scan!Directories' \subseteq matches' => Scan!Directories \subseteq matches
        BY <1>1 DEF Scan!Directories
      <3>2. Scan!Directories \subseteq matches =>
              /\ step = "check sessions" => moves >= 1 /\ (place = "sessions" => moves >= 2)
              /\ step = "check archived" => moves >= 2 /\ (place = "archived" => moves >= 3)
              /\ step = "open" => moves >= 3
        BY <1>0 DEF Scan!PlaceShape
      <3>3. step' = step
        BY <1>1
      <3>4. ASSUME Scan!Directories' \subseteq matches', step = "check sessions"
            PROVE  moves' >= 1 /\ (place' = "sessions" => moves' >= 2)
        <4>1. moves >= 1 /\ (place = "sessions" => moves >= 2)
          BY <3>1, <3>2, <3>4
        <4> QED BY <2>1, <2>2, <4>1
      <3>5. ASSUME Scan!Directories' \subseteq matches', step = "check archived"
            PROVE  moves' >= 2 /\ (place' = "archived" => moves' >= 3)
        <4>1. moves >= 2 /\ (place = "archived" => moves >= 3)
          BY <3>1, <3>2, <3>5
        <4> QED BY <2>1, <2>2, <4>1
      <3>6. ASSUME Scan!Directories' \subseteq matches', step = "open"
            PROVE  moves' >= 3
        <4>1. moves >= 3
          BY <3>1, <3>2, <3>6
        <4> QED BY <2>2, <4>1
      <3> QED BY <3>3, <3>4, <3>5, <3>6
    <2> QED BY <2>2, <2>3, <2>4 DEF Scan!PlaceShape
  <1>4. Scan!LineShape'
    BY <1>0, <1>1 DEF Scan!LineShape
  <1>5. Scan!MovedIsNotTwo'
    BY <1>1 DEF Scan!MovedIsNotTwo, Scan!Looking
  <1>6. ~cut' => Scan!StatesShape' /\ Scan!SumShape'
    BY <1>0, <1>1, LinesReadStay
  <1> QED BY <1>2, <1>3, <1>4, <1>5, <1>6 DEF Scan!IInv

(* A step of find_rollout.                                                 *)
LEMMA FindStep ==
  ASSUME ScanAssumption, Scan!IInv, Scan!Find
  PROVE  Scan!IInv'
  <1>0. /\ Scan!TypeOK /\ Scan!PlaceShape /\ Scan!LineShape /\ Scan!MovedIsNotTwo /\ moves \in Nat
        /\ ~cut => Scan!StatesShape /\ Scan!SumShape
    BY ScanFacts
  <1>1. UNCHANGED <<file, part, place, moves, at, half, got, cut, began>> /\ step \in Scan!Looking
    BY DEF Scan!Find, Scan!LookIn, Scan!Check, Scan!Open, Scan!Looking
  <1>2. ~cut' => Scan!StatesShape' /\ Scan!SumShape'
    BY <1>0, <1>1, LinesReadStay
  <1>3. Scan!LineShape'
    <2>1. step' # "read"
      BY <1>0 DEF Scan!Find, Scan!LookIn, Scan!Check, Scan!Open, Scan!TypeOK
    <2> QED BY <1>0, <1>1, <2>1 DEF Scan!LineShape
  <1>4. ASSUME matches' \subseteq Scan!Directories,
               step' \in Scan!Looking \union {"reading"} \union Scan!Failures
        PROVE  Scan!TypeOK'
    BY <1>0, <1>1, <1>4 DEF Scan!TypeOK
  <1>5. /\ place \in {"sessions", "archived"} /\ matches \subseteq {"sessions", "archived"}
        /\ Scan!Directories = {"sessions", "archived"}
    BY <1>0 DEF Scan!TypeOK, Scan!Directories
  <1>6. CASE Scan!LookIn("sessions", "archived")
    <2>1. /\ step = "sessions" /\ step' = "archived"
          /\ matches' = matches \union ({"sessions"} \intersect {place})
      BY <1>6 DEF Scan!LookIn
    <2>2. Scan!PlaceShape'
      BY <1>0, <1>1, <1>5, <2>1 DEF Scan!PlaceShape
    <2>3. Scan!TypeOK'
      BY <1>4, <1>5, <2>1 DEF Scan!Looking
    <2> QED BY <1>2, <1>3, <2>1, <2>2, <2>3 DEF Scan!IInv, Scan!MovedIsNotTwo
  <1>7. CASE Scan!LookIn("archived", "check sessions")
    <2>1. step = "archived" /\ step' = "check sessions"
          /\ matches' = matches \union ({"archived"} \intersect {place})
      BY <1>7 DEF Scan!LookIn
    <2>2. Scan!PlaceShape'
      BY <1>0, <1>1, <1>5, <2>1 DEF Scan!PlaceShape
    <2>3. Scan!TypeOK'
      BY <1>4, <1>5, <2>1 DEF Scan!Looking
    <2> QED BY <1>2, <1>3, <2>1, <2>2, <2>3 DEF Scan!IInv, Scan!MovedIsNotTwo
  <1>8. CASE Scan!Check("sessions", "check sessions", "check archived")
    <2>1. step = "check sessions" /\ step' = "check archived"
          /\ matches' = {d \in matches : d = "sessions" => d = place}
      BY <1>8 DEF Scan!Check, Scan!IsFile
    <2>2. Scan!PlaceShape'
      BY <1>0, <1>1, <1>5, <2>1 DEF Scan!PlaceShape
    <2>3. Scan!TypeOK'
      BY <1>4, <1>5, <2>1 DEF Scan!Looking
    <2> QED BY <1>2, <1>3, <2>1, <2>2, <2>3 DEF Scan!IInv, Scan!MovedIsNotTwo
  <1>9. CASE Scan!Check("archived", "check archived", "open")
    <2>1. step = "check archived" /\ step' = "open"
          /\ matches' = {d \in matches : d = "archived" => d = place}
      BY <1>9 DEF Scan!Check, Scan!IsFile
    <2>2. Scan!PlaceShape'
      BY <1>0, <1>1, <1>5, <2>1 DEF Scan!PlaceShape
    <2>3. Scan!TypeOK'
      BY <1>4, <1>5, <2>1 DEF Scan!Looking
    <2> QED BY <1>2, <1>3, <2>1, <2>2, <2>3 DEF Scan!IInv, Scan!MovedIsNotTwo
  <1>10. CASE Scan!Open
    <2>1. /\ step = "open" /\ matches' = matches
          /\ step' = CASE matches = {} -> "not found"
                       [] Scan!Cardinality(matches) > 1 -> "several"
                       [] matches = {place} -> "reading"
                       [] OTHER -> "unreadable"
      BY <1>10 DEF Scan!Open
    <2>2. /\ step' \in {"not found", "several", "reading", "unreadable"}
          /\ step' = "not found" => matches = {}
          /\ step' = "several" => Scan!Cardinality(matches) > 1
          /\ step' = "unreadable" => ~(Scan!Cardinality(matches) > 1) /\ matches # {place}
      BY <2>1
    <2>3. \A d : Scan!Cardinality({d}) = 1
      BY ScanSets, FS_Singleton
    <2>4. Scan!Cardinality({}) = 0
      BY ScanSets, FS_EmptySet
    <2>5. step' = "several" => Scan!Directories \subseteq matches
      <3>1. ASSUME NEW d \in {"sessions", "archived"}, d \notin matches
            PROVE  ~(Scan!Cardinality(matches) > 1)
        <4>1. PICK e \in {"sessions", "archived"} : matches \subseteq {e}
          BY <1>5, <3>1
        <4>2. matches = {} \/ matches = {e}
          BY <4>1
        <4>3. ~(0 > 1) /\ ~(1 > 1)
          OBVIOUS
        <4> QED BY <2>3, <2>4, <4>2, <4>3, Zenon
      <3> QED BY <1>5, <2>2, <3>1
    <2>6. step' = "unreadable" => place \notin matches
      <3>1. Cardinality({"sessions", "archived"}) = 2
        <4>1. /\ {"sessions", "archived"} = {"sessions"} \union {"archived"}
              /\ "archived" \notin {"sessions"}
          OBVIOUS
        <4>2. IsFiniteSet({"sessions"}) /\ Cardinality({"sessions"}) = 1
          BY FS_Singleton
        <4>3. Cardinality({"sessions"} \union {"archived"}) = 1 + 1
          BY <4>1, <4>2, FS_AddElement
        <4> QED BY <4>1, <4>3
      <3>2. Scan!Cardinality({"sessions", "archived"}) > 1
        BY <3>1, ScanSets
      <3>3. matches \in {{}, {"sessions"}, {"archived"}, {"sessions", "archived"}}
        BY <1>5
      <3> QED BY <1>5, <2>2, <3>2, <3>3
    <2>7. Scan!PlaceShape'
      BY <2>2 DEF Scan!PlaceShape
    <2>8. Scan!MovedIsNotTwo'
      BY <1>0, <1>1, <2>1, <2>2, <2>5, <2>6 DEF Scan!PlaceShape, Scan!MovedIsNotTwo
    <2>9. Scan!TypeOK'
      BY <1>4, <1>5, <2>1, <2>2 DEF Scan!Looking, Scan!Failures
    <2> QED BY <1>2, <1>3, <2>7, <2>8, <2>9 DEF Scan!IInv
  <1> QED BY <1>6, <1>7, <1>8, <1>9, <1>10 DEF Scan!Find
-----------------------------------------------------------------------------
(* What one more line adds to what was collected. *)

(* A message is remembered.                                                *)
LEMMA AfterMessageFields ==
  ASSUME got \in Scan!Collected, NEW r, NEW n \in Nat, NEW g,
         r.kind = "message", r.hit \in BOOLEAN, g = Scan!After(got, r, n)
  PROVE  /\ g \in Scan!Collected
         /\ g.states = got.states /\ g.visible = got.visible /\ g.live = got.live
         /\ g.count = got.count /\ g.last = got.last
         /\ g.messages = got.messages \union {[line |-> n, hit |-> r.hit]}
  <1>1. g = [got EXCEPT !.messages = @ \union {[line |-> n, hit |-> r.hit]}]
    BY DEF Scan!After, Scan!AfterMessage
  <1> QED BY <1>1 DEF Scan!Collected

(* A standalone memory adds a state and is visible.                        *)
LEMMA AfterMemoryFields ==
  ASSUME got \in Scan!Collected, NEW r, NEW n \in Nat, NEW g, NEW m \in Memories,
         r.kind = "memory", r.memories = {m}, g = Scan!After(got, r, n)
  PROVE  /\ g \in Scan!Collected
         /\ g.states = Append(got.states,
              [origin |-> "standalone", memory |-> m, index |-> 0, line |-> n])
         /\ g.visible = got.visible \union r.memories
         /\ g.live = got.live \union {Len(got.states) + 1}
         /\ g.count = got.count /\ g.last = got.last /\ g.messages = got.messages
  <1> DEFINE s == [origin |-> "standalone", memory |-> m, index |-> 0, line |-> n]
  <1>1. Scan!State("standalone", r, 0, n) = s
    BY DEF Scan!State
  <1>2. g = [got EXCEPT !.visible = @ \union r.memories, !.states = Append(@, s),
                        !.live = @ \union {Len(got.states) + 1}]
    BY <1>1 DEF Scan!After, Scan!AfterMemory
  <1>3. s \in Scan!States
    BY DEF Scan!States
  <1>4. got.states \in Seq(Scan!States)
    BY DEF Scan!Collected
  <1>5. Append(got.states, s) \in Seq(Scan!States) /\ Len(got.states) + 1 \in Nat
    BY <1>3, <1>4
  <1> HIDE DEF s
  <1>6. /\ g.states = Append(got.states, s)
        /\ g.visible = got.visible \union r.memories
        /\ g.live = got.live \union {Len(got.states) + 1}
        /\ g.count = got.count /\ g.last = got.last /\ g.messages = got.messages
    BY <1>2 DEF Scan!Collected
  <1>7. got.visible \union r.memories \in SUBSET Memories
        /\ got.live \union {Len(got.states) + 1} \in SUBSET Nat
    BY <1>5 DEF Scan!Collected
  <1>8. g \in Scan!Collected
    BY <1>2, <1>5, <1>7 DEF Scan!Collected
  <1> QED BY <1>6, <1>8 DEF s

(* A compaction replaces what was visible, and may add a state.            *)
LEMMA AfterCompactionFields ==
  ASSUME ScanAssumption, got \in Scan!Collected, NEW r, NEW n \in Nat, NEW g,
         r.kind = "compacted", r.memories \in SUBSET Memories, g = Scan!After(got, r, n)
  PROVE  /\ g \in Scan!Collected
         /\ g.count = got.count + 1 /\ g.last = n /\ g.visible = r.memories
         /\ g.messages = got.messages
         /\ \A m \in Memories : r.memories = {m} =>
              /\ g.states = Append(got.states,
                   [origin |-> "checkpoint", memory |-> m, index |-> got.count + 1, line |-> n])
              /\ g.live = {Len(got.states) + 1}
         /\ Scan!Cardinality(r.memories) # 1 => g.states = got.states /\ g.live = {}
  <1>1. /\ got.states \in Seq(Scan!States) /\ got.count + 1 \in Nat /\ Len(got.states) + 1 \in Nat
        /\ got.count \in Nat
    BY DEF Scan!Collected
  <1>2. CASE Scan!Cardinality(r.memories) # 1
    <2>1. g = [got EXCEPT !.count = got.count + 1, !.last = n, !.visible = r.memories,
                          !.states = @, !.live = {}]
      BY <1>2 DEF Scan!After, Scan!AfterCompaction
    <2>2. \A m \in Memories : r.memories # {m}
      BY <1>2, JustOne
    <2>3. /\ g.count = got.count + 1 /\ g.last = n /\ g.visible = r.memories
          /\ g.messages = got.messages /\ g.states = got.states /\ g.live = {}
      BY <2>1 DEF Scan!Collected
    <2>4. g \in Scan!Collected
      BY <1>1, <2>1 DEF Scan!Collected
    <2> QED BY <2>2, <2>3, <2>4
  <1>3. CASE Scan!Cardinality(r.memories) = 1
    <2>1. PICK m \in Memories : r.memories = {m}
      BY <1>3, JustOne
    <2> DEFINE s == [origin |-> "checkpoint", memory |-> m, index |-> got.count + 1, line |-> n]
    <2>2. Scan!State("checkpoint", r, got.count + 1, n) = s
      BY <2>1 DEF Scan!State
    <2>3. g = [got EXCEPT !.count = got.count + 1, !.last = n, !.visible = r.memories,
                          !.states = Append(@, s), !.live = {Len(got.states) + 1}]
      BY <1>3, <2>2 DEF Scan!After, Scan!AfterCompaction
    <2>4. s \in Scan!States
      BY <1>1 DEF Scan!States
    <2>5. Append(got.states, s) \in Seq(Scan!States)
      BY <1>1, <2>4
    <2>6. \A k \in Memories : r.memories = {k} => k = m
      BY <2>1
    <2> HIDE DEF s
    <2>7. /\ g.count = got.count + 1 /\ g.last = n /\ g.visible = r.memories
          /\ g.messages = got.messages
          /\ g.states = Append(got.states, s) /\ g.live = {Len(got.states) + 1}
      BY <2>3 DEF Scan!Collected
    <2>8. g \in Scan!Collected
      <3>1. {Len(got.states) + 1} \in SUBSET Nat
        BY <1>1
      <3> QED BY <1>1, <2>3, <2>5, <3>1 DEF Scan!Collected
    <2> QED BY <1>3, <2>6, <2>7, <2>8 DEF s
  <1> QED BY <1>2, <1>3

(* The last compaction among the lines read.                               *)
LEMMA LastIs ==
  ASSUME at \in Nat
  PROVE  /\ Scan!Compactions \in SUBSET (1..at)
         /\ IsFiniteSet(Scan!Compactions) /\ Cardinality(Scan!Compactions) \in Nat
         /\ Scan!LastCompaction \in Scan!Compactions \union {0}
         /\ \A j \in Scan!Compactions : j <= Scan!LastCompaction
         /\ Scan!LastCompaction \in Nat /\ Scan!LastCompaction <= at
         /\ \A i \in Scan!Compactions \union {0} :
              (\A j \in Scan!Compactions : j <= i) => i = Scan!LastCompaction
  <1>1. Scan!Compactions \in SUBSET (1..at)
    BY DEF Scan!Compactions, Scan!Read
  <1>2. IsFiniteSet(Scan!Compactions) /\ Cardinality(Scan!Compactions) \in Nat
    <2>1. IsFiniteSet(1..at)
      BY FS_Interval
    <2>2. IsFiniteSet(Scan!Compactions)
      BY <1>1, <2>1, FS_Subset
    <2> QED BY <2>2, FS_CardinalityType
  <1>3. \E i \in Scan!Compactions \union {0} : \A j \in Scan!Compactions : j <= i
    <2>1. CASE Scan!Compactions = {}
      BY <2>1
    <2>2. CASE Scan!Compactions # {}
      BY <1>1, <2>2, HasLast
    <2> QED BY <2>1, <2>2
  <1>4. /\ Scan!LastCompaction \in Scan!Compactions \union {0}
        /\ \A j \in Scan!Compactions : j <= Scan!LastCompaction
    BY <1>3 DEF Scan!LastCompaction
  <1>5. Scan!LastCompaction \in Nat /\ Scan!LastCompaction <= at
    BY <1>1, <1>4
  <1>6. ASSUME NEW i \in Scan!Compactions \union {0}, \A j \in Scan!Compactions : j <= i
        PROVE  i = Scan!LastCompaction
    <2>1. i \in Nat
      BY <1>1
    <2>2. i <= Scan!LastCompaction
      BY <1>4, <1>5, <2>1
    <2>3. Scan!LastCompaction <= i
      BY <1>4, <1>6, <2>1
    <2> QED BY <1>5, <2>1, <2>2, <2>3
  <1> QED BY <1>1, <1>2, <1>4, <1>5, <1>6

(* One more line is read.                                                  *)
LEMMA OneMoreLine ==
  ASSUME at \in Nat, at' = at + 1, file' = file, NEW n, n = at + 1
  PROVE  /\ Scan!Read' = Scan!Read \union {n} /\ n \notin Scan!Read
         /\ Scan!Read \in SUBSET (1..at)
         /\ file[n].kind = "compacted" =>
              /\ Scan!Compactions' = Scan!Compactions \union {n} /\ Scan!LastCompaction' = n
              /\ Cardinality(Scan!Compactions') = Cardinality(Scan!Compactions) + 1
              /\ Scan!Standalone' = Scan!Standalone
              /\ Scan!Checkpoints' = IF Scan!Cardinality(file[n].memories) = 1
                                     THEN Scan!Checkpoints \union {n} ELSE Scan!Checkpoints
         /\ file[n].kind # "compacted" =>
              /\ Scan!Compactions' = Scan!Compactions /\ Scan!LastCompaction' = Scan!LastCompaction
              /\ Scan!Checkpoints' = Scan!Checkpoints
         /\ file[n].kind = "memory" => Scan!Standalone' = Scan!Standalone \union {n}
         /\ file[n].kind = "message" => Scan!Standalone' = Scan!Standalone
  <1>1. /\ Scan!Read' = Scan!Read \union {n} /\ n \notin Scan!Read /\ n \in Nat
        /\ Scan!Read \in SUBSET (1..at)
    BY DEF Scan!Read
  <1>2. file[n].kind = "memory" => Scan!Standalone' = Scan!Standalone \union {n}
    BY <1>1 DEF Scan!Standalone
  <1>3. file[n].kind # "memory" => Scan!Standalone' = Scan!Standalone
    BY <1>1 DEF Scan!Standalone
  <1>4. ASSUME file[n].kind # "compacted"
        PROVE  /\ Scan!Compactions' = Scan!Compactions
               /\ Scan!LastCompaction' = Scan!LastCompaction
               /\ Scan!Checkpoints' = Scan!Checkpoints
    <2>1. Scan!Compactions' = Scan!Compactions
      BY <1>1, <1>4 DEF Scan!Compactions
    <2> QED BY <2>1 DEF Scan!Checkpoints, Scan!LastCompaction
  <1>5. ASSUME file[n].kind = "compacted"
        PROVE  /\ Scan!Compactions' = Scan!Compactions \union {n} /\ Scan!LastCompaction' = n
               /\ Cardinality(Scan!Compactions') = Cardinality(Scan!Compactions) + 1
               /\ Scan!Checkpoints' = IF Scan!Cardinality(file[n].memories) = 1
                                      THEN Scan!Checkpoints \union {n} ELSE Scan!Checkpoints
    <2>1. Scan!Compactions' = Scan!Compactions \union {n}
      BY <1>1, <1>5 DEF Scan!Compactions
    <2>2. Scan!Compactions \in SUBSET (1..at) /\ IsFiniteSet(Scan!Compactions)
          /\ Cardinality(Scan!Compactions) \in Nat
      BY LastIs
    <2>3. n \notin Scan!Compactions
      BY <2>2
    <2>4. Cardinality(Scan!Compactions') = Cardinality(Scan!Compactions) + 1
      BY <2>1, <2>2, <2>3, FS_AddElement
    <2>5. Scan!LastCompaction' = n
      <3>1. \A j \in Scan!Compactions' : j <= n
        BY <1>1, <2>1, <2>2
      <3>2. at' \in Nat
        OBVIOUS
      <3>3. \A i \in Scan!Compactions' \union {0} :
              (\A j \in Scan!Compactions' : j <= i) => i = Scan!LastCompaction'
        <4>1. /\ Scan!Compactions' \in SUBSET (1..at')
              /\ \E i \in Scan!Compactions' \union {0} : \A j \in Scan!Compactions' : j <= i
          BY <1>1, <2>1, <2>2, <3>1
        <4>2. /\ Scan!LastCompaction' \in Scan!Compactions' \union {0}
              /\ \A j \in Scan!Compactions' : j <= Scan!LastCompaction'
          BY <4>1 DEF Scan!LastCompaction
        <4>3. Scan!LastCompaction' \in Nat
          BY <3>2, <4>1, <4>2
        <4>4. ASSUME NEW i \in Scan!Compactions' \union {0}, \A j \in Scan!Compactions' : j <= i
              PROVE  i = Scan!LastCompaction'
          <5>1. i \in Nat
            BY <4>1
          <5>2. i <= Scan!LastCompaction'
            BY <4>2, <4>3, <5>1
          <5>3. Scan!LastCompaction' <= i
            BY <4>2, <4>4, <5>1
          <5> QED BY <4>3, <5>1, <5>2, <5>3
        <4> QED BY <4>4
      <3> QED BY <2>1, <3>1, <3>3
    <2>6. Scan!Checkpoints' = IF Scan!Cardinality(file[n].memories) = 1
                              THEN Scan!Checkpoints \union {n} ELSE Scan!Checkpoints
      BY <2>1 DEF Scan!Checkpoints
    <2> QED BY <2>1, <2>4, <2>5, <2>6
  <1> QED BY <1>1, <1>2, <1>3, <1>4, <1>5
(* A line that is no state changes none of them.                           *)
LEMMA StatesStay ==
  ASSUME Scan!StatesShape, got \in Scan!Collected, at \in Nat, at' = at + 1, file' = file,
         NEW n, n = at + 1, got'.states = got.states,
         Scan!Checkpoints' = Scan!Checkpoints, Scan!Standalone' = Scan!Standalone,
         Scan!Compactions' \in {Scan!Compactions, Scan!Compactions \union {n}}
  PROVE  Scan!StatesShape'
  <1>1. \A i \in DOMAIN got.states : got.states[i].line \in 1..at
    <2>1. \A i \in DOMAIN got.states : got.states[i].line \in Scan!Checkpoints \union Scan!Standalone
      BY DEF Scan!StatesShape
    <2> QED BY <2>1 DEF Scan!Checkpoints, Scan!Compactions, Scan!Standalone, Scan!Read
  <1>2. ASSUME NEW l \in 1..at
        PROVE  /\ l \in Scan!Compactions' <=> l \in Scan!Compactions
               /\ {k \in Scan!Compactions' : k <= l} = {k \in Scan!Compactions : k <= l}
    <2>1. n # l /\ ~(n <= l)
      OBVIOUS
    <2> QED BY <2>1
  <1>3. \A i \in DOMAIN got.states :
          LET s == got.states[i]
          IN  /\ file[s.line].memories = {s.memory}
              /\ s.line \in Scan!Compactions' =>
                   /\ s.origin = "checkpoint"
                   /\ s.index = Scan!Cardinality({k \in Scan!Compactions' : k <= s.line})
              /\ s.line \notin Scan!Compactions' => s.origin = "standalone" /\ s.index = 0
    BY <1>1, <1>2 DEF Scan!StatesShape
  <1>4. /\ {got.states[i].line : i \in DOMAIN got.states} =
             Scan!Checkpoints' \union Scan!Standalone'
        /\ \A i, j \in DOMAIN got.states : i < j => got.states[i].line < got.states[j].line
    BY DEF Scan!StatesShape
  <1>5. ASSUME NEW i \in DOMAIN got'.states
        PROVE  LET s == got'.states[i]
               IN  /\ file'[s.line].memories = {s.memory}
                   /\ s.line \in Scan!Compactions' =>
                        /\ s.origin = "checkpoint"
                        /\ s.index = Scan!Cardinality({k \in Scan!Compactions' : k <= s.line})
                   /\ s.line \notin Scan!Compactions' => s.origin = "standalone" /\ s.index = 0
    BY <1>3
  <1>6. /\ {got'.states[i].line : i \in DOMAIN got'.states} =
             Scan!Checkpoints' \union Scan!Standalone'
        /\ \A i, j \in DOMAIN got'.states : i < j => got'.states[i].line < got'.states[j].line
    BY <1>4
  <1> QED BY <1>5, <1>6 DEF Scan!StatesShape

(* A line that is one becomes the last of them.                            *)
LEMMA StatesGrow ==
  ASSUME Scan!StatesShape, got \in Scan!Collected, at \in Nat, at' = at + 1, file' = file,
         NEW n, n = at + 1, NEW t \in Scan!States, got'.states = Append(got.states, t),
         t.line = n, file[n].memories = {t.memory},
         Scan!Checkpoints' \union Scan!Standalone' =
           Scan!Checkpoints \union Scan!Standalone \union {n},
         \/ /\ Scan!Compactions' = Scan!Compactions \union {n} /\ t.origin = "checkpoint"
            /\ t.index = Cardinality(Scan!Compactions')
         \/ Scan!Compactions' = Scan!Compactions /\ t.origin = "standalone" /\ t.index = 0
  PROVE  Scan!StatesShape'
  <1> DEFINE N == Len(got.states)
  <1>1. got.states \in Seq(Scan!States) /\ N \in Nat /\ DOMAIN got.states = 1..N
    BY LenProperties DEF Scan!Collected
  <1>2. /\ DOMAIN got'.states = 1..(N + 1)
        /\ \A i \in 1..N : got'.states[i] = got.states[i]
        /\ got'.states[N + 1] = t
    BY <1>1
  <1>3. \A i \in 1..N : got.states[i].line \in 1..at
    <2>1. \A i \in 1..N : got.states[i].line \in Scan!Checkpoints \union Scan!Standalone
      BY <1>1 DEF Scan!StatesShape
    <2> QED BY <2>1 DEF Scan!Checkpoints, Scan!Compactions, Scan!Standalone, Scan!Read
  <1>4. Scan!Compactions \in SUBSET (1..at)
    BY DEF Scan!Compactions, Scan!Read
  <1> HIDE DEF N
  <1>5. {got'.states[i].line : i \in DOMAIN got'.states} =
          Scan!Checkpoints' \union Scan!Standalone'
    <2>1. {got.states[i].line : i \in 1..N} = Scan!Checkpoints \union Scan!Standalone
      BY <1>1 DEF Scan!StatesShape
    <2>2. {got'.states[i].line : i \in 1..(N + 1)} = {got.states[i].line : i \in 1..N} \union {n}
      <3>1. \A i \in 1..(N + 1) : i \in 1..N \/ i = N + 1
        BY <1>1
      <3>2. \A i \in 1..N : i \in 1..(N + 1) /\ got'.states[i].line = got.states[i].line
        BY <1>1, <1>2
      <3>3. N + 1 \in 1..(N + 1) /\ got'.states[N + 1].line = n
        BY <1>1, <1>2
      <3>4. ASSUME NEW i \in 1..(N + 1)
            PROVE  got'.states[i].line \in {got.states[j].line : j \in 1..N} \union {n}
        BY <3>1, <3>2, <3>3
      <3>5. ASSUME NEW i \in 1..N
            PROVE  got.states[i].line \in {got'.states[j].line : j \in 1..(N + 1)}
        BY <3>2
      <3>6. n \in {got'.states[j].line : j \in 1..(N + 1)}
        BY <3>3
      <3> DEFINE P == {got'.states[i].line : i \in 1..(N + 1)}
      <3> DEFINE Q == {got.states[i].line : i \in 1..N}
      <3>7. P \subseteq Q \union {n}
        BY <3>4
      <3>8. Q \subseteq P /\ n \in P
        BY <3>5, <3>6
      <3> HIDE DEF P, Q
      <3>9. P = Q \union {n}
        BY <3>7, <3>8
      <3> QED BY <3>9 DEF P, Q
    <2> QED BY <1>2, <2>1, <2>2
  <1>6. ASSUME NEW i \in DOMAIN got'.states, NEW j \in DOMAIN got'.states, i < j
        PROVE  got'.states[i].line < got'.states[j].line
    <2>1. i \in 1..N /\ (j \in 1..N \/ j = N + 1)
      BY <1>1, <1>2, <1>6
    <2>2. CASE j \in 1..N
      BY <1>1, <1>2, <1>6, <2>1, <2>2 DEF Scan!StatesShape
    <2>3. CASE j = N + 1
      <3>1. got'.states[j].line = n /\ got'.states[i].line \in 1..at
        BY <1>2, <1>3, <2>1, <2>3
      <3> QED BY <3>1
    <2> QED BY <2>1, <2>2, <2>3
  <1>7. ASSUME NEW i \in 1..N
        PROVE  LET s == got.states[i]
               IN  /\ file[s.line].memories = {s.memory}
                   /\ s.line \in Scan!Compactions' =>
                        /\ s.origin = "checkpoint"
                        /\ s.index = Scan!Cardinality({k \in Scan!Compactions' : k <= s.line})
                   /\ s.line \notin Scan!Compactions' => s.origin = "standalone" /\ s.index = 0
    <2> DEFINE l == got.states[i].line
    <2>1. l \in 1..at
      BY <1>3
    <2>2. n # l /\ ~(n <= l)
      BY <2>1
    <2>3. /\ l \in Scan!Compactions' <=> l \in Scan!Compactions
          /\ {k \in Scan!Compactions' : k <= l} = {k \in Scan!Compactions : k <= l}
      BY <2>2
    <2> QED BY <1>1, <2>3 DEF Scan!StatesShape
  <1>8. /\ n \in Scan!Compactions' =>
             /\ t.origin = "checkpoint"
             /\ t.index = Scan!Cardinality({k \in Scan!Compactions' : k <= n})
        /\ n \notin Scan!Compactions' => t.origin = "standalone" /\ t.index = 0
    <2>1. n \notin Scan!Compactions
      BY <1>4
    <2>2. {k \in Scan!Compactions' : k <= n} = Scan!Compactions'
      <3>1. \A k \in Scan!Compactions \union {n} : k <= n
        BY <1>4
      <3> QED BY <3>1
    <2> QED BY <2>1, <2>2, ScanSets
  <1>9. ASSUME NEW i \in DOMAIN got'.states
        PROVE  LET s == got'.states[i]
               IN  /\ file'[s.line].memories = {s.memory}
                   /\ s.line \in Scan!Compactions' =>
                        /\ s.origin = "checkpoint"
                        /\ s.index = Scan!Cardinality({k \in Scan!Compactions' : k <= s.line})
                   /\ s.line \notin Scan!Compactions' => s.origin = "standalone" /\ s.index = 0
    <2>1. i \in 1..N \/ i = N + 1
      BY <1>1, <1>2
    <2>2. CASE i \in 1..N
      BY <1>2, <1>7, <2>2
    <2>3. CASE i = N + 1
      BY <1>2, <1>8, <2>3
    <2> QED BY <2>1, <2>2, <2>3
  <1> QED BY <1>5, <1>6, <1>9 DEF Scan!StatesShape

(* Where the states after the last compaction begin.                       *)
LEMMA StatesAreLines ==
  ASSUME Scan!StatesShape, got \in Scan!Collected, at \in Nat
  PROVE  /\ got.states \in Seq(Scan!States) /\ Len(got.states) \in Nat
         /\ DOMAIN got.states = 1..Len(got.states)
         /\ \A i \in 1..Len(got.states) :
              /\ got.states[i].line \in Scan!Checkpoints \union Scan!Standalone
              /\ got.states[i].line \in 1..at
  <1>1. got.states \in Seq(Scan!States)
    BY DEF Scan!Collected
  <1>2. Len(got.states) \in Nat /\ DOMAIN got.states = 1..Len(got.states)
    BY <1>1, LenProperties
  <1>3. \A i \in 1..Len(got.states) :
          got.states[i].line \in Scan!Checkpoints \union Scan!Standalone
    BY <1>2 DEF Scan!StatesShape
  <1> QED BY <1>1, <1>2, <1>3 DEF Scan!Checkpoints, Scan!Compactions, Scan!Standalone, Scan!Read

(* The lines that a condition holds of, with one more.                     *)
LEMMA OneMoreOf ==
  ASSUME NEW n, NEW A, NEW B, B = A \union {n}, n \notin A, NEW f, NEW l, n >= l
  PROVE  /\ {j \in B : f[j].kind # "message" /\ j >= l} =
              {j \in A : f[j].kind # "message" /\ j >= l}
                \union (IF f[n].kind # "message" THEN {n} ELSE {})
         /\ {j \in B : f[j].kind = "message"} =
              {j \in A : f[j].kind = "message"} \union (IF f[n].kind = "message" THEN {n} ELSE {})
  OBVIOUS

(* What is summed up after a message.                                      *)
LEMMA MessageRead ==
  ASSUME Scan!StatesShape, Scan!SumShape, got \in Scan!Collected, at \in Nat, at' = at + 1,
         file' = file, NEW n, n = at + 1, file[n].kind = "message", file[n].hit \in BOOLEAN,
         got' = Scan!After(got, file[n], n)
  PROVE  Scan!StatesShape' /\ Scan!SumShape'
  <1>1. /\ got'.states = got.states /\ got'.visible = got.visible /\ got'.live = got.live
        /\ got'.count = got.count /\ got'.last = got.last
        /\ got'.messages = got.messages \union {[line |-> n, hit |-> file[n].hit]}
    BY AfterMessageFields
  <1>2. /\ Scan!Read' = Scan!Read \union {n} /\ n \notin Scan!Read
        /\ Scan!Compactions' = Scan!Compactions /\ Scan!LastCompaction' = Scan!LastCompaction
        /\ Scan!Checkpoints' = Scan!Checkpoints /\ Scan!Standalone' = Scan!Standalone
    BY OneMoreLine
  <1>3. Scan!StatesShape'
    BY <1>1, <1>2, StatesStay
  <1>4. n >= Scan!LastCompaction
    BY LastIs
  <1>5. /\ {j \in Scan!Read' : file[j].kind # "message" /\ j >= Scan!LastCompaction} =
             {j \in Scan!Read : file[j].kind # "message" /\ j >= Scan!LastCompaction}
        /\ {j \in Scan!Read' : file[j].kind = "message"} =
             {j \in Scan!Read : file[j].kind = "message"} \union {n}
    BY <1>2, <1>4, OneMoreOf
  <1>6. got'.messages = {[line |-> i, hit |-> file[i].hit] :
                           i \in {j \in Scan!Read' : file[j].kind = "message"}}
    <2>1. got.messages = {[line |-> i, hit |-> file[i].hit] :
                            i \in {j \in Scan!Read : file[j].kind = "message"}}
      BY DEF Scan!SumShape
    <2> QED BY <1>1, <1>5, <2>1
  <1>7. /\ got'.count = Scan!Cardinality(Scan!Compactions') /\ got'.last = Scan!LastCompaction'
        /\ got'.live = {i \in DOMAIN got'.states : got'.states[i].line >= Scan!LastCompaction'}
    BY <1>1, <1>2 DEF Scan!SumShape
  <1>8. got'.visible = UNION {file'[i].memories : i \in {j \in Scan!Read' :
                               file'[j].kind # "message" /\ j >= Scan!LastCompaction'}}
    BY <1>1, <1>2, <1>5 DEF Scan!SumShape
  <1> QED BY <1>3, <1>6, <1>7, <1>8 DEF Scan!SumShape

(* What is summed up after a standalone memory.                            *)
LEMMA MemoryRead ==
  ASSUME Scan!StatesShape, Scan!SumShape, got \in Scan!Collected, at \in Nat, at' = at + 1,
         file' = file, NEW n, n = at + 1, file[n].kind = "memory",
         NEW m \in Memories, file[n].memories = {m},
         got' = Scan!After(got, file[n], n)
  PROVE  Scan!StatesShape' /\ Scan!SumShape'
  <1> DEFINE t == [origin |-> "standalone", memory |-> m, index |-> 0, line |-> n]
  <1>0. n \in Nat
    OBVIOUS
  <1>1. /\ got'.states = Append(got.states, t)
        /\ got'.visible = got.visible \union {m}
        /\ got'.live = got.live \union {Len(got.states) + 1}
        /\ got'.count = got.count /\ got'.last = got.last /\ got'.messages = got.messages
    BY <1>0, AfterMemoryFields
  <1>2. /\ Scan!Read' = Scan!Read \union {n} /\ n \notin Scan!Read
        /\ Scan!Compactions' = Scan!Compactions /\ Scan!LastCompaction' = Scan!LastCompaction
        /\ Scan!Checkpoints' = Scan!Checkpoints /\ Scan!Standalone' = Scan!Standalone \union {n}
    BY OneMoreLine
  <1>3. /\ t \in Scan!States /\ t.line = n /\ {t.memory} = {m} /\ t.origin = "standalone"
        /\ t.index = 0
    BY <1>0 DEF Scan!States
  <1> HIDE DEF t
  <1>4. Scan!StatesShape'
    <2>1. Scan!Checkpoints' \union Scan!Standalone' =
            Scan!Checkpoints \union Scan!Standalone \union {n}
      BY <1>2
    <2> QED BY <1>1, <1>2, <1>3, <2>1, StatesGrow
  <1>5. n >= Scan!LastCompaction
    BY LastIs
  <1>6. /\ {j \in Scan!Read' : file[j].kind # "message" /\ j >= Scan!LastCompaction} =
             {j \in Scan!Read : file[j].kind # "message" /\ j >= Scan!LastCompaction} \union {n}
        /\ {j \in Scan!Read' : file[j].kind = "message"} =
             {j \in Scan!Read : file[j].kind = "message"}
    BY <1>2, <1>5, OneMoreOf
  <1>7. /\ got'.count = Scan!Cardinality(Scan!Compactions') /\ got'.last = Scan!LastCompaction'
        /\ got'.messages = {[line |-> i, hit |-> file'[i].hit] :
                              i \in {j \in Scan!Read' : file'[j].kind = "message"}}
    BY <1>1, <1>2, <1>6 DEF Scan!SumShape
  <1>8. got'.visible = UNION {file'[i].memories : i \in {j \in Scan!Read' :
                               file'[j].kind # "message" /\ j >= Scan!LastCompaction'}}
    <2> DEFINE R == {j \in Scan!Read : file[j].kind # "message" /\ j >= Scan!LastCompaction}
    <2>1. got.visible = UNION {file[i].memories : i \in R}
      BY DEF Scan!SumShape
    <2>2. {j \in Scan!Read' : file'[j].kind # "message" /\ j >= Scan!LastCompaction'} = R \union {n}
      BY <1>2, <1>6
    <2> HIDE DEF R
    <2>3. UNION {file[i].memories : i \in R \union {n}} =
            (UNION {file[i].memories : i \in R}) \union {m}
      OBVIOUS
    <2> QED BY <1>1, <2>1, <2>2, <2>3
  <1>9. got'.live = {i \in DOMAIN got'.states : got'.states[i].line >= Scan!LastCompaction'}
    <2> DEFINE N == Len(got.states)
    <2>1. got.states \in Seq(Scan!States) /\ N \in Nat /\ DOMAIN got.states = 1..N
      BY StatesAreLines
    <2>2. /\ DOMAIN got'.states = 1..(N + 1)
          /\ \A i \in 1..N : got'.states[i] = got.states[i]
          /\ got'.states[N + 1].line = n
      BY <1>1, <1>3, <2>1
    <2>3. got.live = {i \in 1..N : got.states[i].line >= Scan!LastCompaction}
      BY <2>1 DEF Scan!SumShape
    <2> HIDE DEF N
    <2>4. {i \in 1..(N + 1) : got'.states[i].line >= Scan!LastCompaction} =
            {i \in 1..N : got.states[i].line >= Scan!LastCompaction} \union {N + 1}
      <3>1. ASSUME NEW i \in 1..(N + 1) PROVE i \in 1..N \/ i = N + 1
        BY <2>1
      <3>2. \A i \in 1..N : i \in 1..(N + 1)
        BY <2>1
      <3>3. N + 1 \in 1..(N + 1)
        BY <2>1
      <3> QED BY <1>5, <2>2, <3>1, <3>2, <3>3
    <2> QED BY <1>1, <1>2, <2>2, <2>3, <2>4 DEF N
  <1> QED BY <1>4, <1>7, <1>8, <1>9 DEF Scan!SumShape

(* What is summed up after a compaction.                                   *)
LEMMA CompactionRead ==
  ASSUME ScanAssumption, Scan!StatesShape, Scan!SumShape, got \in Scan!Collected, at \in Nat,
         at' = at + 1, file' = file, NEW n, n = at + 1, file[n].kind = "compacted",
         file[n].memories \in SUBSET Memories,
         got' = Scan!After(got, file[n], n)
  PROVE  Scan!StatesShape' /\ Scan!SumShape'
  <1>0. n \in Nat
    OBVIOUS
  <1>1. /\ got'.count = got.count + 1 /\ got'.last = n /\ got'.visible = file[n].memories
        /\ got'.messages = got.messages
        /\ \A m \in Memories : file[n].memories = {m} =>
             /\ got'.states = Append(got.states,
                  [origin |-> "checkpoint", memory |-> m, index |-> got.count + 1, line |-> n])
             /\ got'.live = {Len(got.states) + 1}
        /\ Scan!Cardinality(file[n].memories) # 1 => got'.states = got.states /\ got'.live = {}
    BY <1>0, AfterCompactionFields
  <1>2. /\ Scan!Read' = Scan!Read \union {n} /\ n \notin Scan!Read /\ Scan!Read \in SUBSET (1..at)
        /\ Scan!Compactions' = Scan!Compactions \union {n} /\ Scan!LastCompaction' = n
        /\ Cardinality(Scan!Compactions') = Cardinality(Scan!Compactions) + 1
        /\ Scan!Standalone' = Scan!Standalone
        /\ Scan!Checkpoints' = IF Scan!Cardinality(file[n].memories) = 1
                               THEN Scan!Checkpoints \union {n} ELSE Scan!Checkpoints
    BY OneMoreLine
  <1>3. got.count = Cardinality(Scan!Compactions) /\ got.count \in Nat
    BY ScanSets DEF Scan!SumShape, Scan!Collected
  <1>4. got'.count = Scan!Cardinality(Scan!Compactions')
    BY <1>1, <1>2, <1>3, ScanSets
  <1>5. got'.messages = {[line |-> i, hit |-> file'[i].hit] :
                           i \in {j \in Scan!Read' : file'[j].kind = "message"}}
    <2>1. {j \in Scan!Read' : file[j].kind = "message"} = {j \in Scan!Read : file[j].kind = "message"}
      BY <1>2
    <2> QED BY <1>1, <2>1 DEF Scan!SumShape
  <1>6. got'.visible = UNION {file'[i].memories : i \in {j \in Scan!Read' :
                               file'[j].kind # "message" /\ j >= Scan!LastCompaction'}}
    <2>1. \A j \in Scan!Read : ~(j >= n)
      BY <1>2
    <2>2. {j \in Scan!Read' : file[j].kind # "message" /\ j >= n} = {n}
      <3>1. file[n].kind # "message" /\ n >= n
        BY <1>0
      <3> QED BY <1>2, <2>1, <3>1
    <2>3. UNION {file[i].memories : i \in {n}} = file[n].memories
      OBVIOUS
    <2> QED BY <1>1, <1>2, <2>2, <2>3
  <1>7. got.states \in Seq(Scan!States) /\ Len(got.states) \in Nat
        /\ DOMAIN got.states = 1..Len(got.states)
        /\ \A i \in 1..Len(got.states) : ~(got.states[i].line >= n)
    <2>1. \A i \in 1..Len(got.states) : got.states[i].line \in 1..at
      BY StatesAreLines
    <2>2. \A i \in 1..Len(got.states) : ~(got.states[i].line >= n)
      BY <2>1
    <2> QED BY <2>2, StatesAreLines
  <1>8. CASE Scan!Cardinality(file[n].memories) # 1
    <2>1. Scan!StatesShape'
      BY <1>1, <1>2, <1>8, StatesStay
    <2>2. {i \in DOMAIN got'.states : got'.states[i].line >= Scan!LastCompaction'} = {}
      BY <1>1, <1>2, <1>7, <1>8
    <2> QED BY <1>1, <1>2, <1>4, <1>5, <1>6, <1>8, <2>1, <2>2 DEF Scan!SumShape
  <1>9. CASE Scan!Cardinality(file[n].memories) = 1
    <2>1. PICK m \in Memories : file[n].memories = {m}
      BY <1>9, JustOne
    <2> DEFINE t == [origin |-> "checkpoint", memory |-> m, index |-> got.count + 1, line |-> n]
    <2> DEFINE N == Len(got.states)
    <2>2. got'.states = Append(got.states, t) /\ got'.live = {N + 1}
      BY <1>1, <2>1
    <2>3. t \in Scan!States /\ t.line = n /\ t.memory = m /\ t.origin = "checkpoint"
          /\ t.index = got.count + 1
      BY <1>0, <1>3 DEF Scan!States
    <2> HIDE DEF t
    <2>4. Scan!StatesShape'
      <3>1. Scan!Checkpoints' \union Scan!Standalone' =
              Scan!Checkpoints \union Scan!Standalone \union {n}
        BY <1>2, <1>9
      <3>2. t.index = Cardinality(Scan!Compactions')
        BY <1>2, <1>3, <2>3
      <3> QED BY <1>2, <2>1, <2>2, <2>3, <3>1, <3>2, StatesGrow
    <2>5. /\ DOMAIN got'.states = 1..(N + 1)
          /\ \A i \in 1..N : got'.states[i] = got.states[i]
          /\ got'.states[N + 1].line = n
      BY <1>7, <2>2, <2>3
    <2>6. {i \in DOMAIN got'.states : got'.states[i].line >= Scan!LastCompaction'} = {N + 1}
      <3>1. N \in Nat /\ \A i \in 1..N : ~(got'.states[i].line >= n)
        BY <1>7, <2>5
      <3> HIDE DEF N
      <3>2. \A i \in 1..(N + 1) : i \in 1..N \/ i = N + 1
        BY <3>1
      <3>3. N + 1 \in 1..(N + 1) /\ n >= n
        BY <1>0, <3>1
      <3> QED BY <1>2, <2>5, <3>1, <3>2, <3>3
    <2> QED BY <1>1, <1>2, <1>4, <1>5, <1>6, <2>2, <2>4, <2>6 DEF Scan!SumShape
  <1> QED BY <1>8, <1>9
-----------------------------------------------------------------------------
(* The steps of the thread and of the scan. *)

(* At first nothing was looked for.                                        *)
LEMMA ScanBegins ==
  ASSUME ScanAssumption, Scan!Init
  PROVE  Scan!IInv
  <1>1. /\ file \in Scan!BoundedSeq(Scan!Records, FirstLines)
        /\ place \in Scan!Directories /\ part = "none" /\ moves = 0 /\ step = "sessions"
        /\ matches = {} /\ at = 0 /\ half = FALSE /\ got = Scan!Nothing /\ cut = FALSE
        /\ began = Len(file)
    BY DEF Scan!Init
  <1>2. file \in Seq(Scan!Records) /\ Len(file) <= FirstLines
    BY <1>1, BoundedSequences DEF ScanAssumption
  <1>3. Len(file) \in Nat /\ Len(file) <= MaxLines
    <2>1. Len(file) \in Nat
      BY <1>2, LenProperties
    <2> QED BY <1>2, <2>1 DEF ScanAssumption
  <1>4. file \in Scan!BoundedSeq(Scan!Records, MaxLines)
    BY <1>2, <1>3, BoundedSequences DEF ScanAssumption
  <1>5. /\ got.states = <<>> /\ got.visible = {} /\ got.live = {} /\ got.messages = {}
        /\ got.count = 0 /\ got.last = 0 /\ DOMAIN got.states = {}
    BY <1>1 DEF Scan!Nothing
  <1>6. Scan!TypeOK
    <2>1. 0 \in 0..Len(file) /\ Len(file) \in 0..Len(file) /\ 0 \in 0..MaxMoves /\ 0 \in 0..MaxLines
      BY <1>3 DEF ScanAssumption
    <2> QED BY <1>1, <1>4, <1>5, <2>1 DEF Scan!TypeOK, Scan!Looking
  <1>7. Scan!PlaceShape
    BY <1>1 DEF Scan!PlaceShape, Scan!Directories
  <1>8. got \in Scan!Collected
    <2>1. <<>> \in Seq(Scan!States)
      OBVIOUS
    <2> QED BY <1>1, <2>1 DEF Scan!Nothing, Scan!Collected
  <1>9. Scan!LineShape
    BY <1>1, <1>3, <1>5, <1>8 DEF Scan!LineShape
  <1>10. Scan!MovedIsNotTwo
    BY <1>1 DEF Scan!MovedIsNotTwo
  <1>11. Scan!Read = {}
    BY <1>1 DEF Scan!Read
  <1>12. Scan!Compactions = {} /\ Scan!Checkpoints = {} /\ Scan!Standalone = {}
    BY <1>11 DEF Scan!Compactions, Scan!Checkpoints, Scan!Standalone
  <1>13. Scan!StatesShape
    BY <1>5, <1>12 DEF Scan!StatesShape
  <1>14. Scan!SumShape
    <2>1. Scan!Cardinality(Scan!Compactions) = 0
      BY <1>12, ScanSets, FS_EmptySet
    <2>2. Scan!LastCompaction = 0
      BY <1>1, <1>12, LastIs
    <2> QED BY <1>5, <1>11, <2>1, <2>2 DEF Scan!SumShape
  <1> QED BY <1>6, <1>7, <1>9, <1>10, <1>13, <1>14 DEF Scan!IInv

(* The thread writes, or completes, a record.                              *)
LEMMA WritesStep ==
  ASSUME ScanAssumption, Scan!IInv, Scan!Writes \/ Scan!Completes
  PROVE  Scan!IInv'
  <1>0. /\ Scan!TypeOK /\ Scan!PlaceShape /\ Scan!LineShape /\ Scan!MovedIsNotTwo
        /\ ~cut => Scan!StatesShape /\ Scan!SumShape
        /\ file \in Seq(Scan!Records) /\ Len(file) \in Nat /\ Len(file) <= MaxLines
        /\ at \in Nat /\ at <= Len(file)
    BY ScanFacts
  <1>1. /\ step = "reading" /\ step' = step
        /\ UNCHANGED <<place, moves, matches, at, half, got, cut, began>>
    BY DEF Scan!Writes, Scan!Completes
  <1>2. /\ file' \in Seq(Scan!Records) /\ Len(file') \in Nat /\ Len(file') <= MaxLines
        /\ Len(file) <= Len(file')
        /\ \A i \in 1..Len(file) : file'[i] = file[i]
        /\ part' \in Scan!Halves \union {"none"}
        /\ part' # "none" => Len(file) < Len(file')
    <2>1. CASE Scan!Completes
      BY <1>0, <2>1 DEF Scan!Completes
    <2>2. CASE Scan!Writes
      <3>1. PICK r \in Scan!Records, h \in Scan!Halves \union {"none"} :
              file' = Append(file, r) /\ part' = h
        BY <2>2 DEF Scan!Writes
      <3>2. Len(file) < MaxLines /\ MaxLines \in Nat
        BY <2>2 DEF Scan!Writes, ScanAssumption
      <3>3. /\ file' \in Seq(Scan!Records) /\ Len(file') = Len(file) + 1
            /\ \A i \in 1..Len(file) : file'[i] = file[i]
        BY <1>0, <3>1
      <3> QED BY <1>0, <3>1, <3>2, <3>3
    <2> QED BY <2>1, <2>2
  <1>3. began \in 0..Len(file) /\ began \in Nat /\ began <= Len(file)
    BY <1>0 DEF Scan!TypeOK
  <1>4. Scan!TypeOK'
    <2>1. file' \in Scan!BoundedSeq(Scan!Records, MaxLines)
      BY <1>2, BoundedSequences DEF ScanAssumption
    <2>2. at' \in 0..Len(file') /\ began' \in 0..Len(file')
      BY <1>0, <1>1, <1>2, <1>3
    <2> QED BY <1>0, <1>1, <1>2, <2>1, <2>2 DEF Scan!TypeOK
  <1>5. Scan!PlaceShape'
    BY <1>1 DEF Scan!PlaceShape
  <1>6. Scan!LineShape'
    <2>1. part' # "none" => began' < Len(file')
      BY <1>1, <1>2, <1>3, <1>0
    <2>2. half' => at' < Len(file')
      <3>1. half => at < Len(file)
        BY <1>0 DEF Scan!LineShape
      <3> QED BY <1>0, <1>1, <1>2, <3>1
    <2>3. step' \notin Scan!Looking /\ step' # "read"
      BY <1>1 DEF Scan!Looking
    <2> QED BY <1>0, <1>1, <2>1, <2>2, <2>3 DEF Scan!LineShape
  <1>7. Scan!MovedIsNotTwo'
    BY <1>1 DEF Scan!MovedIsNotTwo
  <1>8. ~cut' => Scan!StatesShape' /\ Scan!SumShape'
    <2>1. \A i \in 1..at : file'[i] = file[i]
      BY <1>0, <1>2
    <2> QED BY <1>0, <1>1, <2>1, LinesReadStay
  <1> QED BY <1>4, <1>5, <1>6, <1>7, <1>8 DEF Scan!IInv

(* A line is read.                                                         *)
LEMMA ReadRecordStep ==
  ASSUME ScanAssumption, Scan!IInv, Scan!ReadRecord
  PROVE  Scan!IInv'
  <1>0. /\ Scan!TypeOK /\ Scan!PlaceShape /\ Scan!LineShape /\ Scan!MovedIsNotTwo
        /\ ~cut => Scan!StatesShape /\ Scan!SumShape
        /\ file \in Seq(Scan!Records) /\ Len(file) \in Nat /\ Len(file) <= MaxLines
        /\ at \in Nat /\ at <= Len(file)
    BY ScanFacts
  <1> DEFINE n == at + 1
  <1>1. /\ step = "reading" /\ n <= Len(file) /\ ~half
        /\ got' = Scan!After(got, file[n], n) /\ at' = n
        /\ UNCHANGED <<file, part, place, moves, step, matches, half, cut, began>>
    BY DEF Scan!ReadRecord, Scan!Line
  <1>2. n \in 1..Len(file) /\ n \in Nat
    BY <1>0, <1>1
  <1>3. file[n] \in Scan!Records
    BY <1>0, <1>2, ElementOfSeq
  <1> HIDE DEF n
  <1>4. /\ file[n].kind \in {"message", "memory", "compacted"} /\ file[n].hit \in BOOLEAN
        /\ file[n].memories \in SUBSET Memories
        /\ file[n].kind = "memory" => \E m \in Memories : file[n].memories = {m}
    BY <1>3, RecordKinds
  <1>5. got \in Scan!Collected /\ got.count \in Nat /\ got.count <= at
        /\ got.live \subseteq 1..Len(got.states)
        /\ got.states \in Seq(Scan!States) /\ Len(got.states) \in Nat
    <2>1. got \in Scan!Collected /\ got.count <= at
      BY <1>0 DEF Scan!LineShape
    <2>2. got.count \in Nat /\ got.states \in Seq(Scan!States)
      BY <2>1 DEF Scan!Collected
    <2>3. got.live \subseteq 1..Len(got.states)
      BY <1>0 DEF Scan!TypeOK
    <2> QED BY <2>1, <2>2, <2>3, LenProperties
  <1>6. /\ got' \in Scan!Collected /\ got'.count \in {got.count, got.count + 1}
        /\ got'.live \subseteq 1..Len(got'.states)
        /\ ~cut => Scan!StatesShape' /\ Scan!SumShape'
    <2>1. at' = at + 1 /\ file' = file /\ n = at + 1
      BY <1>1 DEF n
    <2>2. CASE file[n].kind = "message"
      <3>1. /\ got' \in Scan!Collected /\ got'.count = got.count
            /\ got'.live = got.live /\ got'.states = got.states
        BY <1>1, <1>2, <1>4, <1>5, <2>2, AfterMessageFields
      <3>2. ~cut => Scan!StatesShape' /\ Scan!SumShape'
        BY <1>0, <1>1, <1>4, <1>5, <2>1, <2>2, MessageRead
      <3> QED BY <1>5, <3>1, <3>2
    <2>3. CASE file[n].kind = "memory"
      <3>1. PICK m \in Memories : file[n].memories = {m}
        BY <1>4, <2>3
      <3> DEFINE t == [origin |-> "standalone", memory |-> m, index |-> 0, line |-> n]
      <3>2. /\ got' \in Scan!Collected /\ got'.count = got.count
            /\ got'.live = got.live \union {Len(got.states) + 1}
            /\ got'.states = Append(got.states, t)
        BY <1>1, <1>2, <1>5, <2>3, <3>1, AfterMemoryFields
      <3> HIDE DEF t
      <3>3. got'.live \subseteq 1..Len(got'.states)
        <4>1. Len(got'.states) = Len(got.states) + 1
          BY <1>5, <3>2
        <4> QED BY <1>5, <3>2, <4>1
      <3>4. ~cut => Scan!StatesShape' /\ Scan!SumShape'
        BY <1>0, <1>1, <1>5, <2>1, <2>3, <3>1, MemoryRead
      <3> QED BY <1>5, <3>2, <3>3, <3>4
    <2>4. CASE file[n].kind = "compacted"
      <3>1. /\ got' \in Scan!Collected /\ got'.count = got.count + 1
            /\ \A m \in Memories : file[n].memories = {m} =>
                 /\ got'.states = Append(got.states,
                      [origin |-> "checkpoint", memory |-> m, index |-> got.count + 1, line |-> n])
                 /\ got'.live = {Len(got.states) + 1}
            /\ Scan!Cardinality(file[n].memories) # 1 => got'.states = got.states /\ got'.live = {}
        BY <1>1, <1>2, <1>4, <1>5, <2>4, AfterCompactionFields
      <3>2. got'.live \subseteq 1..Len(got'.states)
        <4>1. CASE Scan!Cardinality(file[n].memories) # 1
          BY <3>1, <4>1
        <4>2. CASE Scan!Cardinality(file[n].memories) = 1
          <5>1. PICK m \in Memories : file[n].memories = {m}
            BY <1>4, <4>2, JustOne
          <5> DEFINE t == [origin |-> "checkpoint", memory |-> m, index |-> got.count + 1, line |-> n]
          <5>2. got'.states = Append(got.states, t) /\ got'.live = {Len(got.states) + 1}
            BY <3>1, <5>1
          <5> HIDE DEF t
          <5>3. Len(got'.states) = Len(got.states) + 1
            BY <1>5, <5>2
          <5> QED BY <1>5, <5>2, <5>3
        <4> QED BY <4>1, <4>2
      <3>3. ~cut => Scan!StatesShape' /\ Scan!SumShape'
        BY <1>0, <1>1, <1>4, <1>5, <2>1, <2>4, CompactionRead
      <3> QED BY <1>5, <3>1, <3>2, <3>3
    <2> QED BY <1>4, <2>2, <2>3, <2>4
  <1>7. got'.count \in Nat /\ got'.count <= at'
    <2>1. at' = at + 1
      BY <1>1 DEF n
    <2> QED BY <1>0, <1>5, <1>6, <2>1
  <1>8. Scan!TypeOK'
    <2>1. at' \in 0..Len(file') /\ got'.count \in 0..MaxLines
      <3>1. at' \in Nat /\ at' <= Len(file)
        BY <1>1, <1>2
      <3> QED BY <1>0, <1>1, <1>7, <3>1 DEF ScanAssumption
    <2>2. got'.visible \subseteq Memories
      BY <1>6 DEF Scan!Collected
    <2> QED BY <1>0, <1>1, <1>6, <2>1, <2>2 DEF Scan!TypeOK
  <1>9. Scan!PlaceShape' /\ Scan!MovedIsNotTwo'
    BY <1>1 DEF Scan!PlaceShape, Scan!MovedIsNotTwo
  <1>10. Scan!LineShape'
    <2>1. step' \notin Scan!Looking /\ step' # "read"
      BY <1>1 DEF Scan!Looking
    <2> QED BY <1>0, <1>1, <1>6, <1>7, <2>1 DEF Scan!LineShape
  <1> QED BY <1>1, <1>6, <1>8, <1>9, <1>10 DEF Scan!IInv

(* The end of the file, or half a line.                                    *)
LEMMA OtherScanStep ==
  ASSUME ScanAssumption, Scan!IInv,
         Scan!ReadHalf \/ Scan!PassHalf \/ Scan!ReadRest \/ Scan!ReadEnd
  PROVE  Scan!IInv'
  <1>0. /\ Scan!TypeOK /\ Scan!PlaceShape /\ Scan!LineShape /\ Scan!MovedIsNotTwo
        /\ ~cut => Scan!StatesShape /\ Scan!SumShape
        /\ Len(file) \in Nat /\ at \in Nat /\ at <= Len(file)
    BY ScanFacts
  <1>1. /\ step = "reading" /\ UNCHANGED <<file, part, place, moves, matches, got, began>>
        /\ step' \in {"reading", "read", "not text", "invalid"}
    BY DEF Scan!ReadHalf, Scan!PassHalf, Scan!ReadRest, Scan!ReadEnd
  <1>2. began \in Nat /\ began <= Len(file) /\ half \in BOOLEAN /\ cut \in BOOLEAN
    BY <1>0 DEF Scan!TypeOK
  <1>3. /\ part # "none" => began < Len(file)
        /\ half => at < Len(file)
        /\ got \in Scan!Collected /\ got.count <= at /\ got.count \in Nat
    BY <1>0 DEF Scan!LineShape, Scan!Collected
  <1>4. Scan!IsHalf => at + 1 = Len(file) /\ part # "none"
    BY DEF Scan!IsHalf, Scan!Line
  <1>5. /\ at' \in Nat /\ at <= at' /\ at' <= Len(file) /\ half' \in BOOLEAN /\ cut' \in BOOLEAN
        /\ half' => at' < Len(file)
        /\ step' = "read" => at' >= began
        /\ ~cut' => at' = at /\ ~cut
    <2>1. CASE Scan!ReadHalf
      <3>1. Scan!IsHalf /\ at' = at /\ half' = half /\ cut' = cut
        BY <2>1 DEF Scan!ReadHalf
      <3>2. at >= began
        BY <1>0, <1>2, <1>3, <1>4, <3>1
      <3> QED BY <1>0, <1>2, <1>3, <3>1, <3>2
    <2>2. CASE Scan!PassHalf
      <3>1. Scan!IsHalf /\ at' = at /\ half' = TRUE /\ cut' = cut /\ step' = step
        BY <2>2 DEF Scan!PassHalf
      <3>2. at < Len(file)
        BY <1>0, <1>4, <3>1
      <3> QED BY <1>0, <1>1, <1>2, <3>1, <3>2
    <2>3. CASE Scan!ReadRest
      <3>1. /\ half
            /\ \/ step' = "invalid" /\ at' = at /\ half' = half /\ cut' = cut
               \/ at' = at + 1 /\ half' = FALSE /\ cut' = TRUE /\ step' = step
        BY <2>3 DEF Scan!ReadRest, Scan!Line
      <3>2. at < Len(file)
        BY <1>3, <3>1
      <3>3. CASE step' = "invalid" /\ at' = at /\ half' = half /\ cut' = cut
        BY <1>0, <1>2, <3>2, <3>3
      <3>4. CASE at' = at + 1 /\ half' = FALSE /\ cut' = TRUE /\ step' = step
        <4>1. ~half' /\ cut' /\ half' \in BOOLEAN /\ cut' \in BOOLEAN /\ step' # "read"
          BY <1>1, <3>4
        <4>2. at' \in Nat /\ at <= at' /\ at' <= Len(file)
          BY <1>0, <3>2, <3>4
        <4> QED BY <4>1, <4>2
      <3> QED BY <3>1, <3>3, <3>4
    <2>4. CASE Scan!ReadEnd
      <3>1. at' = at /\ half' = half /\ cut' = cut /\ (at + 1 > Len(file) \/ Scan!IsHalf)
        BY <2>4 DEF Scan!ReadEnd, Scan!Line
      <3>2. at >= began
        BY <1>0, <1>2, <1>3, <1>4, <3>1
      <3> QED BY <1>0, <1>2, <1>3, <3>1, <3>2
    <2> QED BY <2>1, <2>2, <2>3, <2>4
  <1>6. Scan!TypeOK'
    <2>1. at' \in 0..Len(file')
      <3>1. at' \in Nat /\ at' <= Len(file) /\ file' = file
        BY <1>1, <1>5
      <3> QED BY <1>0, <3>1
    <2>2. step' \in Scan!Looking \union {"reading", "read"} \union Scan!Failures
      BY <1>1 DEF Scan!Failures
    <2> QED BY <1>0, <1>1, <1>5, <2>1, <2>2 DEF Scan!TypeOK
  <1>7. Scan!PlaceShape' /\ Scan!MovedIsNotTwo'
    BY <1>1 DEF Scan!PlaceShape, Scan!MovedIsNotTwo
  <1>8. Scan!LineShape'
    <2>1. step' \notin Scan!Looking
      BY <1>1 DEF Scan!Looking
    <2>2. got'.count <= at'
      <3>1. at' \in Nat /\ at <= at' /\ got' = got
        BY <1>1, <1>5
      <3> QED BY <1>0, <1>3, <3>1
    <2> QED BY <1>1, <1>3, <1>5, <2>1, <2>2 DEF Scan!LineShape
  <1>9. ~cut' => Scan!StatesShape' /\ Scan!SumShape'
    BY <1>0, <1>1, <1>5, LinesReadStay
  <1> QED BY <1>6, <1>7, <1>8, <1>9 DEF Scan!IInv

(* Whatever step is taken, or if none is.                                  *)
LEMMA ScanNext ==
  ASSUME ScanAssumption, Scan!IInv, Scan!Next
  PROVE  Scan!IInv'
  BY MovesStep, FindStep, WritesStep, ReadRecordStep, OtherScanStep DEF Scan!Next, Scan!Scan

(* A step of another command.                                              *)
LEMMA ScanStays ==
  ASSUME ScanAssumption, Scan!IInv, UNCHANGED Scan!vars
  PROVE  Scan!IInv'
  <1>0. /\ Scan!TypeOK /\ Scan!PlaceShape /\ Scan!LineShape /\ Scan!MovedIsNotTwo
        /\ ~cut => Scan!StatesShape /\ Scan!SumShape
    BY ScanFacts
  <1>1. UNCHANGED <<file, part, place, moves, step, matches, at, half, got, cut, began>>
    BY DEF Scan!vars
  <1>2. Scan!TypeOK'
    BY <1>0, <1>1 DEF Scan!TypeOK
  <1>3. Scan!PlaceShape' /\ Scan!MovedIsNotTwo'
    BY <1>0, <1>1 DEF Scan!PlaceShape, Scan!MovedIsNotTwo
  <1>4. Scan!LineShape'
    BY <1>0, <1>1 DEF Scan!LineShape
  <1>5. ~cut' => Scan!StatesShape' /\ Scan!SumShape'
    BY <1>0, <1>1, LinesReadStay
  <1> QED BY <1>2, <1>3, <1>4, <1>5 DEF Scan!IInv
-----------------------------------------------------------------------------
(* What the commands make of what was collected. *)

(* Every state is a checkpoint or stands alone, and has a line of its own. *)
LEMMA StateKinds ==
  ASSUME Scan!StatesShape, got \in Scan!Collected, at \in Nat
  PROVE  /\ Len(got.states) \in Nat /\ DOMAIN got.states = 1..Len(got.states)
         /\ \A i \in 1..Len(got.states) :
              /\ got.states[i].origin = "checkpoint" <=> got.states[i].line \in Scan!Checkpoints
              /\ got.states[i].origin # "checkpoint" <=> got.states[i].line \in Scan!Standalone
              /\ got.states[i].line \in 1..at
              /\ got.states[i].memory \in Memories
              /\ file[got.states[i].line].memories = {got.states[i].memory}
              /\ got.states[i].origin = "checkpoint" =>
                   got.states[i].index =
                     Cardinality({k \in Scan!Compactions : k <= got.states[i].line})
              /\ got.states[i].origin # "checkpoint" => got.states[i].index = 0
         /\ \A l \in Scan!Checkpoints \union Scan!Standalone :
              \E i \in 1..Len(got.states) : got.states[i].line = l
         /\ Scan!Checkpoints \in SUBSET (1..at) /\ Scan!Standalone \in SUBSET (1..at)
         /\ Scan!Checkpoints \subseteq Scan!Compactions
         /\ Scan!Standalone \intersect Scan!Compactions = {}
  <1>1. /\ got.states \in Seq(Scan!States) /\ Len(got.states) \in Nat
        /\ DOMAIN got.states = 1..Len(got.states)
        /\ \A i \in 1..Len(got.states) :
             /\ got.states[i].line \in Scan!Checkpoints \union Scan!Standalone
             /\ got.states[i].line \in 1..at
    BY StatesAreLines
  <1>2. /\ Scan!Checkpoints \in SUBSET (1..at) /\ Scan!Standalone \in SUBSET (1..at)
        /\ Scan!Checkpoints \subseteq Scan!Compactions
        /\ Scan!Standalone \intersect Scan!Compactions = {}
    BY DEF Scan!Checkpoints, Scan!Compactions, Scan!Standalone, Scan!Read
  <1>3. ASSUME NEW i \in 1..Len(got.states)
        PROVE  /\ got.states[i].origin = "checkpoint" <=> got.states[i].line \in Scan!Checkpoints
               /\ got.states[i].origin # "checkpoint" <=> got.states[i].line \in Scan!Standalone
               /\ file[got.states[i].line].memories = {got.states[i].memory}
               /\ got.states[i].origin = "checkpoint" =>
                    got.states[i].index =
                      Cardinality({k \in Scan!Compactions : k <= got.states[i].line})
               /\ got.states[i].origin # "checkpoint" => got.states[i].index = 0
    <2> DEFINE l == got.states[i].line
    <2> DEFINE C == {k \in Scan!Compactions : k <= l}
    <2>1. /\ file[l].memories = {got.states[i].memory}
          /\ l \in Scan!Compactions =>
               got.states[i].origin = "checkpoint" /\ got.states[i].index = Scan!Cardinality(C)
          /\ l \notin Scan!Compactions =>
               got.states[i].origin = "standalone" /\ got.states[i].index = 0
      BY <1>1 DEF Scan!StatesShape
    <2>2. Scan!Cardinality(C) = Cardinality(C)
      BY ScanSets
    <2>3. /\ l \in Scan!Compactions <=> l \in Scan!Checkpoints
          /\ l \notin Scan!Compactions <=> l \in Scan!Standalone
      BY <1>1, <1>2
    <2> HIDE DEF C
    <2>4. /\ got.states[i].origin = "checkpoint" <=> l \in Scan!Checkpoints
          /\ got.states[i].origin # "checkpoint" <=> l \in Scan!Standalone
          /\ got.states[i].origin = "checkpoint" => got.states[i].index = Cardinality(C)
          /\ got.states[i].origin # "checkpoint" => got.states[i].index = 0
      BY <2>1, <2>2, <2>3
    <2> QED BY <2>1, <2>4 DEF C
  <1>4. \A i \in 1..Len(got.states) : got.states[i].memory \in Memories
    <2>1. \A i \in 1..Len(got.states) : got.states[i] \in Scan!States
      BY <1>1, ElementOfSeq
    <2> QED BY <2>1 DEF Scan!States
  <1>5. ASSUME NEW l \in Scan!Checkpoints \union Scan!Standalone
        PROVE  \E i \in 1..Len(got.states) : got.states[i].line = l
    <2>1. l \in {got.states[i].line : i \in DOMAIN got.states}
      BY DEF Scan!StatesShape
    <2> QED BY <1>1, <2>1
  <1> QED BY <1>1, <1>2, <1>3, <1>4, <1>5

(* Places are in the order of lines.                                       *)
LEMMA StatesInOrder ==
  ASSUME Scan!StatesShape, got \in Scan!Collected, at \in Nat,
         NEW i \in 1..Len(got.states), NEW j \in 1..Len(got.states)
  PROVE  /\ i <= j => got.states[i].line <= got.states[j].line
         /\ got.states[i].line <= got.states[j].line => i <= j
         /\ got.states[i].line = got.states[j].line => i = j
  <1>1. /\ Len(got.states) \in Nat /\ DOMAIN got.states = 1..Len(got.states)
        /\ got.states[i].line \in Nat /\ got.states[j].line \in Nat
    <2>1. /\ Len(got.states) \in Nat /\ DOMAIN got.states = 1..Len(got.states)
          /\ got.states[i].line \in 1..at /\ got.states[j].line \in 1..at
      BY StateKinds
    <2> QED BY <2>1
  <1>2. /\ i < j => got.states[i].line < got.states[j].line
        /\ j < i => got.states[j].line < got.states[i].line
    BY <1>1 DEF Scan!StatesShape
  <1> QED BY <1>1, <1>2

(* A set of places has a last one.                                         *)
LEMMA LastPlace ==
  ASSUME NEW n \in Nat, NEW S \in SUBSET (1..n), S # {}
  PROVE  Scan!Max(S) \in S /\ \A i \in S : i <= Scan!Max(S)
  <1>1. PICK p \in S : \A q \in S : q <= p
    BY HasLast
  <1>2. \A q \in S : p >= q
    <2>1. \A q \in S : q \in Nat
      OBVIOUS
    <2> QED BY <1>1, <2>1
  <1>3. Scan!Max(S) \in S /\ \A q \in S : Scan!Max(S) >= q
    BY <1>1, <1>2, ScanSets
  <1>4. \A q \in S : q \in Nat
    OBVIOUS
  <1> QED BY <1>3, <1>4

(* As many messages as lines that hold one.                                *)
LEMMA AsManyMessages ==
  ASSUME NEW n \in Nat, NEW S \in SUBSET (1..n), NEW f
  PROVE  Cardinality({[line |-> i, hit |-> f[i]] : i \in S}) = Cardinality(S)
  <1> DEFINE T == {[line |-> i, hit |-> f[i]] : i \in S}
  <1> DEFINE b == [i \in S |-> [line |-> i, hit |-> f[i]]]
  <1>1. IsFiniteSet(S)
    <2>1. IsFiniteSet(1..n)
      BY FS_Interval
    <2> QED BY <2>1, FS_Subset
  <1>2. b \in [S -> T]
    OBVIOUS
  <1>3. \A i, j \in S : b[i] = b[j] => i = j
    <2>1. \A i \in S : b[i].line = i
      OBVIOUS
    <2> QED BY <2>1
  <1>4. \A t \in T : \E i \in S : b[i] = t
    OBVIOUS
  <1> HIDE DEF b, T
  <1>5. b \in Bijection(S, T)
    BY <1>2, <1>3, <1>4 DEF Bijection, Injection, Surjection, IsInjective
  <1>6. ExistsBijection(S, T)
    BY <1>5 DEF ExistsBijection
  <1> QED BY <1>1, <1>6, FS_Bijection DEF T

(* The invariant says what a scan has collected.                           *)
LEMMA PrefixCollected ==
  ASSUME ScanAssumption, Scan!IInv
  PROVE  Scan!ScanIsAPrefix
  <1> SUFFICES ASSUME step = "read", ~cut
               PROVE  Scan!ScanIsAPrefix
    BY DEF Scan!ScanIsAPrefix
  <1>1. /\ Scan!LineShape /\ Scan!StatesShape /\ Scan!SumShape /\ at \in Nat
        /\ got \in Scan!Collected /\ at >= began
    BY ScanFacts DEF Scan!LineShape
  <1>2. {s.line : s \in Scan!ToSet(got.states)} = Scan!Checkpoints \union Scan!Standalone
    <2>1. Scan!ToSet(got.states) = {got.states[i] : i \in DOMAIN got.states}
      BY ScanSets
    <2>2. {s.line : s \in Scan!ToSet(got.states)} = {got.states[i].line : i \in DOMAIN got.states}
      BY <2>1
    <2> QED BY <1>1, <2>2 DEF Scan!StatesShape
  <1>3. {got.states[i].line : i \in got.live} =
          {i \in Scan!Checkpoints \union Scan!Standalone : i >= Scan!LastCompaction}
    <2>1. got.live = {i \in DOMAIN got.states : got.states[i].line >= Scan!LastCompaction}
      BY <1>1 DEF Scan!SumShape
    <2>2. {got.states[i].line : i \in DOMAIN got.states} = Scan!Checkpoints \union Scan!Standalone
      BY <1>1 DEF Scan!StatesShape
    <2>3. ASSUME NEW i \in got.live
          PROVE  got.states[i].line \in
                   {l \in Scan!Checkpoints \union Scan!Standalone : l >= Scan!LastCompaction}
      BY <2>1, <2>2
    <2>4. ASSUME NEW l \in Scan!Checkpoints \union Scan!Standalone, l >= Scan!LastCompaction
          PROVE  \E i \in got.live : got.states[i].line = l
      BY <2>1, <2>2, <2>4
    <2> QED BY <2>3, <2>4
  <1>4. Scan!Cardinality(Scan!Uncompacted(got)) =
          Scan!Cardinality({i \in Scan!Read : file[i].kind = "message" /\ i > Scan!LastCompaction})
    <2> DEFINE S == {i \in Scan!Read : file[i].kind = "message" /\ i > Scan!LastCompaction}
    <2> DEFINE hits == [i \in Scan!Read |-> file[i].hit]
    <2>1. S \in SUBSET (1..at)
      BY DEF Scan!Read
    <2>2. Scan!Uncompacted(got) = {[line |-> i, hit |-> hits[i]] : i \in S}
      <3>1. /\ got.messages = {[line |-> i, hit |-> file[i].hit] :
                                 i \in {j \in Scan!Read : file[j].kind = "message"}}
            /\ got.last = Scan!LastCompaction
        BY <1>1 DEF Scan!SumShape
      <3>2. ASSUME NEW m \in got.messages, m.line > Scan!LastCompaction
            PROVE  m \in {[line |-> i, hit |-> hits[i]] : i \in S}
        BY <3>1, <3>2
      <3>3. ASSUME NEW i \in S
            PROVE  /\ [line |-> i, hit |-> hits[i]] \in got.messages
                   /\ [line |-> i, hit |-> hits[i]].line > Scan!LastCompaction
        BY <3>1
      <3> HIDE DEF S, hits
      <3>4. Scan!Uncompacted(got) = {m \in got.messages : m.line > Scan!LastCompaction}
        BY <3>1 DEF Scan!Uncompacted
      <3> QED BY <3>2, <3>3, <3>4
    <2> HIDE DEF S, hits
    <2>3. Cardinality(Scan!Uncompacted(got)) = Cardinality(S)
      <3>1. Cardinality({[line |-> i, hit |-> hits[i]] : i \in S}) = Cardinality(S)
        BY <1>1, <2>1, AsManyMessages
      <3> QED BY <2>2, <3>1
    <2> QED BY <2>3, ScanSets DEF S
  <1> QED BY <1>1, <1>2, <1>3, <1>4 DEF Scan!ScanIsAPrefix, Scan!SumShape

(* And so which state a reference to it selects.                           *)
LEMMA ReferenceSelects ==
  ASSUME ScanAssumption, Scan!IInv
  PROVE  Scan!SelectedIsMeant
  <1> SUFFICES ASSUME step = "read", ~cut,
                      NEW selector \in Scan!Selectors, NEW full \in BOOLEAN,
                      Scan!Selected(got, selector, full) # Scan!Refused
               PROVE  LET s == Scan!Selected(got, selector, full)
                      IN  /\ full => s.line \in Scan!Checkpoints
                          /\ CASE selector.by = "latest" ->
                                 IF Scan!Compactions = {} THEN s.line = Scan!Max(Scan!Standalone)
                                 ELSE s.line = Scan!LastCompaction
                            [] selector.by = "index" ->
                                 /\ s.line \in Scan!Compactions
                                 /\ Scan!Cardinality({i \in Scan!Compactions : i <= s.line}) =
                                      selector.index
                            [] OTHER ->
                                 \A i \in Scan!Checkpoints \union Scan!Standalone :
                                   file[i].memories \intersect selector.memories # {} =>
                                      /\ file[i].memories = {s.memory}
                                      /\ i <= s.line \/ (full /\ i \in Scan!Standalone)
    BY DEF Scan!SelectedIsMeant
  <1> DEFINE N == Len(got.states)
  <1> DEFINE S == CASE selector.by = "latest" -> Scan!Latest(got)
                    [] selector.by = "index" ->
                         {i \in DOMAIN got.states : got.states[i].index = selector.index}
                    [] OTHER -> Scan!OfMemories(got, selector.memories)
  <1> DEFINE F == IF full THEN S \intersect Scan!CheckpointsOf(got) ELSE S
  <1> DEFINE p == Scan!Max(F)
  <1> DEFINE line(i) == got.states[i].line
  <1>1. /\ Scan!StatesShape /\ Scan!SumShape /\ at \in Nat /\ got \in Scan!Collected
    BY ScanFacts DEF Scan!LineShape
  <1>0. /\ N \in Nat /\ DOMAIN got.states = 1..N
        /\ Scan!Checkpoints \in SUBSET (1..at) /\ Scan!Standalone \in SUBSET (1..at)
        /\ Scan!Checkpoints \subseteq Scan!Compactions
        /\ Scan!Standalone \intersect Scan!Compactions = {}
    BY <1>1, StateKinds
  <1>2. \A i \in 1..N :
           /\ got.states[i].origin = "checkpoint" <=> line(i) \in Scan!Checkpoints
           /\ got.states[i].origin # "checkpoint" <=> line(i) \in Scan!Standalone
           /\ line(i) \in 1..at
           /\ file[line(i)].memories = {got.states[i].memory}
           /\ got.states[i].origin = "checkpoint" =>
                got.states[i].index = Cardinality({k \in Scan!Compactions : k <= line(i)})
           /\ got.states[i].origin # "checkpoint" => got.states[i].index = 0
    BY <1>1, StateKinds
  <1>14. \A l \in Scan!Checkpoints \union Scan!Standalone : \E i \in 1..N : line(i) = l
    BY <1>1, StateKinds
  <1>3. /\ Scan!CheckpointsOf(got) = {i \in 1..N : line(i) \in Scan!Checkpoints}
    BY <1>0, <1>2 DEF Scan!CheckpointsOf
  <1>4. \A i, j \in 1..N : /\ i <= j => line(i) <= line(j)
                           /\ line(i) = line(j) => i = j
    BY <1>1, StatesInOrder
  <1>5. selector.by \in {"latest", "index", "memory"}
    BY DEF Scan!Selectors
  <1>6. S \in SUBSET (1..N)
    <2>1. Scan!Latest(got) \in SUBSET (1..N)
      BY <1>0, <1>2, <1>3 DEF Scan!Latest
    <2>2. Scan!OfMemories(got, selector.memories) \in SUBSET (1..N)
      BY <1>0, <1>2 DEF Scan!OfMemories
    <2>3. {i \in DOMAIN got.states : got.states[i].index = selector.index} \in SUBSET (1..N)
      BY <1>0, <1>2
    <2> QED BY <1>5, <2>1, <2>2, <2>3
  <1>7. /\ F # {} /\ Scan!Selected(got, selector, full) = got.states[p]
    <2> HIDE DEF p
    <2>1. Scan!Selected(got, selector, full) = IF F = {} THEN Scan!Refused ELSE got.states[Scan!Max(F)]
      BY DEF Scan!Selected
    <2> QED BY <2>1 DEF p
  <1> HIDE DEF N, F, p, S
  <1>8. F \subseteq S /\ (full => F \subseteq Scan!CheckpointsOf(got)) /\ (~full => F = S)
        /\ (\A i \in S : i \in Scan!CheckpointsOf(got) => i \in F)
    BY DEF F
  <1>9. p \in F /\ p \in S /\ p \in 1..N /\ \A i \in F : i <= p
    <2>1. F \in SUBSET (1..N)
      BY <1>6, <1>8
    <2>2. p \in F /\ \A i \in F : i <= p
      BY <1>0, <1>2, <1>7, <2>1, LastPlace DEF p
    <2> QED BY <1>8, <2>1, <2>2
  <1>10. full => line(p) \in Scan!Checkpoints
    BY <1>3, <1>8, <1>9
  <1>11. CASE selector.by = "latest"
    <2>1. S = Scan!Latest(got)
      BY <1>11 DEF S
    <2>2. CASE Scan!Compactions = {}
      <3>1. got.count = 0
        BY <1>1, <2>2, ScanSets, FS_EmptySet DEF Scan!SumShape
      <3>2. Scan!Checkpoints = {}
        BY <1>0, <2>2
      <3>3. Scan!CheckpointsOf(got) = {}
        BY <1>3, <3>2
      <3>4. S = 1..N
        BY <1>0, <1>2, <2>1, <3>1, <3>3 DEF Scan!Latest
      <3>5. ~full
        BY <1>8, <1>9, <3>3
      <3>6. F = 1..N
        BY <1>8, <3>4, <3>5
      <3>7. line(p) \in Scan!Standalone
        BY <1>0, <1>2, <1>9, <3>2
      <3>8. Scan!Max(Scan!Standalone) \in Scan!Standalone
            /\ \A l \in Scan!Standalone : l <= Scan!Max(Scan!Standalone)
        BY <1>0, <1>1, <3>7, LastPlace
      <3>9. PICK i \in 1..N : line(i) = Scan!Max(Scan!Standalone)
        BY <1>14, <3>8
      <3>10. line(i) <= line(p)
        BY <1>4, <1>9, <3>6
      <3>11. line(p) <= line(i)
        BY <3>7, <3>8, <3>9
      <3>12. line(p) \in 1..at /\ line(i) \in 1..at
        BY <1>0, <1>2, <1>9
      <3>13. line(p) = line(i)
        BY <1>1, <3>10, <3>11, <3>12
      <3> QED BY <1>7, <1>10, <1>11, <2>2, <3>9, <3>13
    <2>3. CASE Scan!Compactions # {}
      <3> DEFINE c == Scan!Max(Scan!CheckpointsOf(got))
      <3>1. IsFiniteSet(Scan!Compactions) /\ Scan!Compactions \in SUBSET (1..at)
            /\ Cardinality(Scan!Compactions) \in Nat
            /\ Scan!LastCompaction \in Scan!Compactions \union {0}
            /\ \A j \in Scan!Compactions : j <= Scan!LastCompaction
        BY <1>1, LastIs
      <3>2. got.count = Cardinality(Scan!Compactions) /\ got.count > 0
        <4>1. got.count = Cardinality(Scan!Compactions)
          BY <1>1, ScanSets DEF Scan!SumShape
        <4>2. Cardinality(Scan!Compactions) # 0
          BY <2>3, <3>1, FS_EmptySet
        <4> QED BY <3>1, <4>1, <4>2
      <3>3. /\ Scan!CheckpointsOf(got) # {} /\ got.states[c].index = got.count
            /\ S = Scan!CheckpointsOf(got)
        BY <1>9, <2>1, <3>2 DEF Scan!Latest
      <3>4. F = S
        BY <1>8, <3>3
      <3>5. p = c
        BY <3>3, <3>4 DEF p
      <3>6. line(p) \in Scan!Checkpoints /\ line(p) \in Scan!Compactions
        BY <1>0, <1>2, <1>3, <1>9, <3>3
      <3>7. got.states[p].index = Cardinality({k \in Scan!Compactions : k <= line(p)})
        BY <1>0, <1>2, <1>9, <3>6
      <3>8. {k \in Scan!Compactions : k <= line(p)} = Scan!Compactions
        BY <3>1, <3>2, <3>3, <3>5, <3>7, FS_Subset
      <3>9. line(p) = Scan!LastCompaction
        <4>1. \A k \in Scan!Compactions : k <= line(p)
          BY <3>8
        <4> QED BY <1>1, <3>6, <4>1, LastIs
      <3> QED BY <1>7, <1>10, <1>11, <2>3, <3>9
    <2> QED BY <2>2, <2>3
  <1>12. CASE selector.by = "index"
    <2>1. S = {i \in DOMAIN got.states : got.states[i].index = selector.index}
      BY <1>12 DEF S
    <2>2. got.states[p].index = selector.index
      BY <1>9, <2>1
    <2>3. selector.index \in 1..MaxLines
      BY <1>12 DEF Scan!Selectors
    <2>4. selector.index # 0
      BY <2>3
    <2>5. got.states[p].origin = "checkpoint"
      BY <1>0, <1>2, <1>9, <2>2, <2>4
    <2>6. line(p) \in Scan!Compactions
      BY <1>0, <1>2, <1>9, <2>5
    <2>7. Scan!Cardinality({i \in Scan!Compactions : i <= line(p)}) = selector.index
      BY <1>0, <1>2, <1>9, <2>2, <2>5, ScanSets
    <2> QED BY <1>7, <1>10, <1>12, <2>6, <2>7
  <1>13. CASE selector.by = "memory"
    <2> DEFINE fit == {i \in DOMAIN got.states : got.states[i].memory \in selector.memories}
    <2>1. S = Scan!OfMemories(got, selector.memories)
      BY <1>13 DEF S
    <2>2. S = fit /\ \A i, j \in fit : got.states[i].memory = got.states[j].memory
      BY <1>9, <2>1 DEF Scan!OfMemories
    <2>3. ASSUME NEW l \in Scan!Checkpoints \union Scan!Standalone,
                 file[l].memories \intersect selector.memories # {}
          PROVE  /\ file[l].memories = {got.states[p].memory}
                 /\ l <= line(p) \/ (full /\ l \in Scan!Standalone)
      <3>1. PICK i \in 1..N : line(i) = l
        BY <1>14
      <3>2. file[l].memories = {got.states[i].memory}
        BY <1>0, <1>2, <3>1
      <3>3. got.states[i].memory \in selector.memories
        BY <2>3, <3>2
      <3>4. i \in fit
        BY <1>0, <1>2, <3>3
      <3>5. got.states[i].memory = got.states[p].memory
        BY <1>9, <2>2, <3>4
      <3>6. CASE i \in F
        <4>1. l <= line(p)
          BY <1>4, <1>9, <3>1, <3>6
        <4> QED BY <3>2, <3>5, <4>1
      <3>7. CASE i \notin F
        <4>1. i \in S /\ full /\ i \notin Scan!CheckpointsOf(got)
          BY <1>8, <2>2, <3>4, <3>7
        <4>2. l \in Scan!Standalone
          BY <1>0, <1>2, <1>3, <3>1, <4>1
        <4> QED BY <3>2, <3>5, <4>1, <4>2
      <3> QED BY <3>6, <3>7
    <2> QED BY <1>7, <1>10, <1>13, <2>3
  <1> QED BY <1>5, <1>11, <1>12, <1>13

(* The matches, and which of them belong to a candidate.                   *)
LEMMA CandidateLines ==
  ASSUME ScanAssumption, Scan!IInv, ~cut
  PROVE  LET Hits == {i \in Scan!Read : file[i] = Scan!Message(TRUE)}
         IN  /\ \A h : /\ Scan!Candidate(got, h).holder = h
                       /\ Scan!Candidate(got, h).lines = {i \in Hits : Scan!Holder(got, i) = h}
             /\ Scan!Candidates(got) = {Scan!Candidate(got, Scan!Holder(got, i)) : i \in Hits}
  <1> DEFINE Hits == {i \in Scan!Read : file[i] = Scan!Message(TRUE)}
  <1>1. got.messages = {[line |-> i, hit |-> file[i].hit] :
                          i \in {j \in Scan!Read : file[j].kind = "message"}}
    BY ScanFacts DEF Scan!SumShape
  <1>2. ASSUME NEW m \in got.messages, m.hit
        PROVE  m.line \in Hits
    <2>1. PICK i \in Scan!Read : file[i].kind = "message" /\ m = [line |-> i, hit |-> file[i].hit]
      BY <1>1
    <2>2. file[i] \in Scan!Records
      <3>1. i \in 1..Len(file)
        BY ScanFacts DEF Scan!Read
      <3> QED BY <3>1, ScanFacts, ElementOfSeq
    <2>3. file[i].hit \in BOOLEAN /\ file[i] = Scan!Message(file[i].hit)
      BY <2>1, <2>2, RecordKinds
    <2>4. file[i].hit = TRUE
      BY <1>2, <2>1, <2>3
    <2> QED BY <2>1, <2>3, <2>4
  <1>3. ASSUME NEW i \in Hits
        PROVE  \E m \in got.messages : m.hit /\ m.line = i
    <2>1. file[i].kind = "message" /\ file[i].hit = TRUE
      BY DEF Scan!Message
    <2>2. [line |-> i, hit |-> file[i].hit] \in got.messages
      BY <1>1, <2>1
    <2> QED BY <2>1, <2>2
  <1> HIDE DEF Hits
  <1>4. ASSUME NEW h
        PROVE  Scan!Candidate(got, h).lines = {i \in Hits : Scan!Holder(got, i) = h}
    <2>1. Scan!Candidate(got, h).lines =
            {m.line : m \in {n \in got.messages : n.hit /\ Scan!Holder(got, n.line) = h}}
      BY DEF Scan!Candidate
    <2>2. ASSUME NEW m \in got.messages, m.hit, Scan!Holder(got, m.line) = h
          PROVE  m.line \in {i \in Hits : Scan!Holder(got, i) = h}
      BY <1>2, <2>2
    <2>3. ASSUME NEW i \in Hits, Scan!Holder(got, i) = h
          PROVE  \E m \in {n \in got.messages : n.hit /\ Scan!Holder(got, n.line) = h} : m.line = i
      BY <1>3, <2>3
    <2> QED BY <2>1, <2>2, <2>3
  <1>5. \A h : Scan!Candidate(got, h).holder = h
    BY DEF Scan!Candidate
  <1>6. Scan!Candidates(got) = {Scan!Candidate(got, Scan!Holder(got, i)) : i \in Hits}
    BY <1>2, <1>3 DEF Scan!Candidates
  <1> QED BY <1>4, <1>5, <1>6 DEF Hits

(* Compactions are told apart by how many there are up to them.            *)
LEMMA IndexTells ==
  ASSUME at \in Nat, NEW j \in Scan!Compactions
  PROVE  /\ Cardinality({k \in Scan!Compactions : k <= j}) \in Nat \ {0}
         /\ \A i \in Scan!Compactions :
              Cardinality({k \in Scan!Compactions : k <= i}) =
                Cardinality({k \in Scan!Compactions : k <= j}) => i = j
  <1> DEFINE Upto(i) == {k \in Scan!Compactions : k <= i}
  <1>1. Scan!Compactions \in SUBSET (1..at) /\ IsFiniteSet(Scan!Compactions)
    BY LastIs
  <1>2. \A i : Upto(i) \in SUBSET Scan!Compactions
    OBVIOUS
  <1>3. \A i : IsFiniteSet(Upto(i)) /\ Cardinality(Upto(i)) \in Nat
    <2>1. \A i : IsFiniteSet(Upto(i))
      BY <1>1, <1>2, FS_Subset
    <2> QED BY <2>1, FS_CardinalityType
  <1>4. \A i \in Scan!Compactions : i \in Upto(i)
    BY <1>1
  <1>5. Cardinality(Upto(j)) # 0
    <2>1. Upto(j) # {}
      BY <1>4
    <2> HIDE DEF Upto
    <2> QED BY <1>3, <2>1, FS_EmptySet
  <1>6. \A i, k \in Scan!Compactions : i <= k => Upto(i) \in SUBSET Upto(k)
    <2>1. \A i \in Scan!Compactions : i \in Nat
      BY <1>1
    <2> QED BY <2>1
  <1>7. ASSUME NEW i \in Scan!Compactions, NEW k \in Scan!Compactions, i <= k,
               Cardinality(Upto(i)) = Cardinality(Upto(k))
        PROVE  i = k
    <2>1. Upto(i) \in SUBSET Upto(k) /\ IsFiniteSet(Upto(k))
      BY <1>3, <1>6, <1>7
    <2>2. Upto(i) = Upto(k)
      <3> HIDE DEF Upto
      <3> QED BY <1>7, <2>1, FS_Subset
    <2>3. k \in Upto(i)
      BY <1>4, <2>2
    <2>4. k <= i
      BY <2>3
    <2> QED BY <1>1, <1>7, <2>4
  <1>8. ASSUME NEW i \in Scan!Compactions, Cardinality(Upto(i)) = Cardinality(Upto(j))
        PROVE  i = j
    <2>1. i <= j \/ j <= i
      BY <1>1
    <2> HIDE DEF Upto
    <2> QED BY <1>7, <1>8, <2>1
  <1>9. Cardinality(Upto(j)) \in Nat \ {0}
    <2> HIDE DEF Upto
    <2> QED BY <1>3, <1>5
  <1> QED BY <1>8, <1>9

(* A line belongs to the first checkpoint after it.                        *)
LEMMA HolderIs ==
  ASSUME Scan!StatesShape, got \in Scan!Collected, at \in Nat, NEW i \in 1..at
  PROVE  \/ Scan!Holder(got, i) = 0 /\ \A j \in Scan!Checkpoints : ~(i < j)
         \/ \E p \in 1..Len(got.states) :
              /\ got.states[p].origin = "checkpoint" /\ got.states[p].line \in Scan!Checkpoints
              /\ got.states[p].index = Scan!Holder(got, i)
              /\ Scan!Holder(got, i) =
                   Cardinality({k \in Scan!Compactions : k <= got.states[p].line})
              /\ i < got.states[p].line /\ got.states[p].line \in Nat
              /\ \A k \in Scan!Checkpoints : ~(i < k /\ k < got.states[p].line)
  <1> DEFINE N == Len(got.states)
  <1> DEFINE later == {s \in Scan!ToSet(got.states) : s.origin = "checkpoint" /\ s.line > i}
  <1> DEFINE places == {p \in 1..N : got.states[p].origin = "checkpoint" /\ got.states[p].line > i}
  <1> DEFINE s == CHOOSE r \in later : \A t \in later : r.line <= t.line
  <1>1. /\ N \in Nat /\ DOMAIN got.states = 1..N
        /\ Scan!Checkpoints \in SUBSET (1..at)
    BY StateKinds
  <1>2. \A p \in 1..N :
          /\ got.states[p].origin = "checkpoint" <=> got.states[p].line \in Scan!Checkpoints
          /\ got.states[p].line \in 1..at
          /\ got.states[p].origin = "checkpoint" =>
               got.states[p].index =
                 Cardinality({k \in Scan!Compactions : k <= got.states[p].line})
    BY StateKinds
  <1>3. \A l \in Scan!Checkpoints : \E p \in 1..N : got.states[p].line = l
    BY StateKinds
  <1>4. Scan!ToSet(got.states) = {got.states[p] : p \in 1..N}
    BY <1>1, ScanSets
  <1>5. later = {got.states[p] : p \in places}
    <2>1. ASSUME NEW t \in later PROVE t \in {got.states[p] : p \in places}
      <3>1. PICK p \in 1..N : t = got.states[p]
        BY <1>4
      <3> QED BY <3>1
    <2>2. ASSUME NEW p \in places PROVE got.states[p] \in later
      BY <1>4
    <2> HIDE DEF later, places
    <2> QED BY <2>1, <2>2
  <1>6. Scan!Holder(got, i) = IF later = {} THEN 0 ELSE s.index
    BY DEF Scan!Holder
  <1>7. CASE places = {}
    <2>1. later = {}
      BY <1>5, <1>7
    <2>2. Scan!Holder(got, i) = 0
      BY <1>6, <2>1
    <2>3. ASSUME NEW j \in Scan!Checkpoints, i < j PROVE FALSE
      <3>1. PICK p \in 1..N : got.states[p].line = j
        BY <1>3
      <3>2. got.states[p].origin = "checkpoint"
        BY <1>2, <3>1
      <3>3. j \in Nat /\ j > i
        BY <1>1, <2>3
      <3> QED BY <1>7, <3>1, <3>2, <3>3
    <2> QED BY <2>2, <2>3
  <1>8. CASE places # {}
    <2>1. PICK q \in places : \A p \in places : q <= p
      <3>1. places \in SUBSET (1..N)
        OBVIOUS
      <3> HIDE DEF places, N
      <3> QED BY <1>1, <1>8, <3>1, HasFirst
    <2>2. \A p \in places : got.states[q].line <= got.states[p].line
      BY <2>1, StatesInOrder
    <2>3. later # {} /\ got.states[q] \in later
          /\ \A t \in later : got.states[q].line <= t.line
      <3> HIDE DEF places, later
      <3> QED BY <1>5, <2>1, <2>2
    <2>4. s \in later /\ \A t \in later : s.line <= t.line
      <3> HIDE DEF later
      <3> QED BY <2>3
    <2>5. PICK p \in places : s = got.states[p]
      <3> HIDE DEF places, later, s
      <3> QED BY <1>5, <2>4
    <2>6. Scan!Holder(got, i) = got.states[p].index
      <3> HIDE DEF places, later, s
      <3> QED BY <1>6, <2>3, <2>5
    <2>7. /\ p \in 1..N /\ got.states[p].origin = "checkpoint" /\ got.states[p].line > i
      OBVIOUS
    <2>8. /\ got.states[p].line \in Scan!Checkpoints /\ got.states[p].line \in Nat
          /\ got.states[p].index = Cardinality({k \in Scan!Compactions : k <= got.states[p].line})
      <3>1. got.states[p].line \in Scan!Checkpoints
        BY <1>2, <2>7
      <3>2. got.states[p].line \in Nat
        <4>1. got.states[p].line \in 1..at
          BY <1>2, <2>7
        <4> QED BY <4>1
      <3>3. got.states[p].index = Cardinality({k \in Scan!Compactions : k <= got.states[p].line})
        BY <1>2, <2>7
      <3> QED BY <3>1, <3>2, <3>3
    <2>9. i < got.states[p].line
      BY <2>7, <2>8
    <2>10. ASSUME NEW k \in Scan!Checkpoints, i < k, k < got.states[p].line PROVE FALSE
      <3>1. PICK r \in 1..N : got.states[r].line = k
        BY <1>3
      <3>2. got.states[r].origin = "checkpoint" /\ k \in Nat
        <4>1. got.states[r].origin = "checkpoint"
          BY <1>2, <3>1
        <4>2. k \in Nat
          BY <1>1
        <4> QED BY <4>1, <4>2
      <3>3. r \in places
        BY <2>10, <3>1, <3>2
      <3>4. got.states[r] \in later
        <4> HIDE DEF places, later
        <4> QED BY <1>5, <3>3
      <3>5. got.states[p].line <= k
        <4> HIDE DEF places, later, s
        <4> QED BY <2>4, <2>5, <3>1, <3>4
      <3> QED BY <2>8, <2>10, <3>2, <3>5
    <2> QED BY <2>6, <2>7, <2>8, <2>9, <2>10
  <1> QED BY <1>7, <1>8

(* A candidate that a checkpoint holds is before that checkpoint.          *)
LEMMA CandidateNumbers ==
  ASSUME ScanAssumption, Scan!IInv, ~cut, NEW c \in Scan!Candidates(got)
  PROVE  /\ c.holder \in Nat /\ c.distance \in Nat
         /\ c = Scan!Candidate(got, c.holder)
  <1> DEFINE Hits == {i \in Scan!Read : file[i] = Scan!Message(TRUE)}
  <1>1. /\ Scan!StatesShape /\ got \in Scan!Collected /\ at \in Nat
    BY ScanFacts DEF Scan!LineShape
  <1>2. PICK i \in Hits : c = Scan!Candidate(got, Scan!Holder(got, i))
    BY CandidateLines
  <1> DEFINE h == Scan!Holder(got, i)
  <1>3. c.holder = h /\ c = Scan!Candidate(got, c.holder) /\ i \in c.lines
        /\ c.lines = {k \in Hits : Scan!Holder(got, k) = h}
    BY <1>2, CandidateLines
  <1>4. i \in 1..at
    BY DEF Scan!Read
  <1>5. c.distance = IF h = 0 THEN 0
                     ELSE (CHOOSE s \in Scan!ToSet(got.states) : s.index = h).line
                            - CHOOSE l \in c.lines : \A k \in c.lines : k <= l
    BY <1>2 DEF Scan!Candidate
  <1>6. CASE h = 0
    BY <1>3, <1>5, <1>6
  <1>7. CASE h # 0
    <2>1. PICK p \in 1..Len(got.states) :
            /\ got.states[p].origin = "checkpoint" /\ got.states[p].line \in Scan!Checkpoints
            /\ got.states[p].index = h
            /\ h = Cardinality({k \in Scan!Compactions : k <= got.states[p].line})
            /\ i < got.states[p].line /\ got.states[p].line \in Nat
            /\ \A k \in Scan!Checkpoints : ~(i < k /\ k < got.states[p].line)
      BY <1>1, <1>4, <1>7, HolderIs
    <2> HIDE DEF h
    <2>2. got.states[p].line \in Scan!Compactions
      BY <2>1 DEF Scan!Checkpoints
    <2>3. h \in Nat
      BY <1>1, <2>1, <2>2, IndexTells
    <2> DEFINE s == CHOOSE r \in Scan!ToSet(got.states) : r.index = h
    <2>4. /\ DOMAIN got.states = 1..Len(got.states)
          /\ \A q \in 1..Len(got.states) :
               /\ got.states[q].origin = "checkpoint" <=> got.states[q].line \in Scan!Checkpoints
               /\ got.states[q].origin = "checkpoint" =>
                    got.states[q].index =
                      Cardinality({k \in Scan!Compactions : k <= got.states[q].line})
               /\ got.states[q].origin # "checkpoint" => got.states[q].index = 0
      BY <1>1, StateKinds
    <2>5. PICK q \in 1..Len(got.states) : s = got.states[q] /\ got.states[q].index = h
      <3>1. Scan!ToSet(got.states) = {got.states[q] : q \in 1..Len(got.states)}
        BY <2>4, ScanSets
      <3>2. got.states[p] \in Scan!ToSet(got.states) /\ got.states[p].index = h
        BY <2>1, <3>1
      <3>3. s \in Scan!ToSet(got.states) /\ s.index = h
        BY <3>2
      <3> QED BY <3>1, <3>3
    <2>6. got.states[q].origin = "checkpoint"
      BY <1>7, <2>4, <2>5 DEF h
    <2>7. got.states[q].line \in Scan!Checkpoints
          /\ Cardinality({k \in Scan!Compactions : k <= got.states[q].line}) = h
      BY <2>4, <2>5, <2>6
    <2>8. got.states[q].line \in Scan!Compactions
      BY <2>7 DEF Scan!Checkpoints
    <2>9. s.line = got.states[p].line
      <3>1. got.states[q].line = got.states[p].line
        BY <1>1, <2>1, <2>2, <2>7, <2>8, IndexTells
      <3> QED BY <2>5, <3>1
    <2> DEFINE l == CHOOSE j \in c.lines : \A k \in c.lines : k <= j
    <2>10. l \in c.lines
      <3>1. c.lines \in SUBSET (1..at) /\ c.lines # {}
        BY <1>3 DEF Scan!Read
      <3>2. \E j \in c.lines : \A k \in c.lines : k <= j
        BY <1>1, <3>1, HasLast
      <3> QED BY <3>2
    <2>11. l \in 1..at /\ Scan!Holder(got, l) = h
      BY <1>3, <2>10 DEF Scan!Read
    <2>12. l < s.line
      <3> HIDE DEF l, s
      <3>1. PICK r \in 1..Len(got.states) :
              /\ got.states[r].line \in Scan!Checkpoints
              /\ h = Cardinality({k \in Scan!Compactions : k <= got.states[r].line})
              /\ l < got.states[r].line
        BY <1>1, <1>7, <2>11, HolderIs DEF h
      <3>2. got.states[r].line \in Scan!Compactions
        BY <3>1 DEF Scan!Checkpoints
      <3>3. got.states[r].line = got.states[p].line
        BY <1>1, <2>1, <2>2, <3>1, <3>2, IndexTells
      <3> QED BY <2>9, <3>1, <3>3
    <2>13. c.distance = s.line - l
      BY <1>5, <1>7 DEF h
    <2> HIDE DEF s, l
    <2>14. s.line - l \in Nat
      <3>1. s.line \in Nat /\ l \in Nat
        BY <1>1, <2>1, <2>9, <2>11
      <3> QED BY <2>12, <3>1
    <2> QED BY <1>3, <2>3, <2>13, <2>14
  <1> QED BY <1>6, <1>7

(* Candidates are shown in an order, one after the other.                  *)
LEMMA CandidatesInOrder ==
  ASSUME ScanAssumption, Scan!IInv, ~cut,
         NEW c \in Scan!Candidates(got), NEW d \in Scan!Candidates(got), Scan!Before(c, d)
  PROVE  /\ Scan!Place(got, c) \in Nat /\ Scan!Place(got, d) \in Nat
         /\ Scan!Place(got, c) < Scan!Place(got, d)
  <1> DEFINE Earlier(e) == {b \in Scan!Candidates(got) : Scan!Before(b, e)}
  <1>1. \A e \in Scan!Candidates(got) : e.holder \in Nat /\ e.distance \in Nat
    BY CandidateNumbers
  <1>2. IsFiniteSet(Scan!Candidates(got))
    <2> DEFINE Hits == {i \in Scan!Read : file[i] = Scan!Message(TRUE)}
    <2> DEFINE f == [i \in Hits |-> Scan!Candidate(got, Scan!Holder(got, i))]
    <2>1. Scan!Candidates(got) = {Scan!Candidate(got, Scan!Holder(got, i)) : i \in Hits}
      BY CandidateLines
    <2>2. IsFiniteSet(Hits)
      <3>1. Hits \in SUBSET (1..at) /\ at \in Nat
        BY ScanFacts DEF Scan!Read
      <3>2. IsFiniteSet(1..at)
        BY <3>1, FS_Interval
      <3> HIDE DEF Hits
      <3> QED BY <3>1, <3>2, FS_Subset
    <2> HIDE DEF Hits
    <2>3. f \in Surjection(Hits, Scan!Candidates(got))
      BY <2>1 DEF Surjection
    <2> QED BY <2>2, <2>3, FS_Surjection
  <1>3. Earlier(c) \in SUBSET Earlier(d)
    <2>1. ASSUME NEW b \in Scan!Candidates(got), Scan!Before(b, c) PROVE Scan!Before(b, d)
      <3>1. /\ b.holder \in Nat /\ b.distance \in Nat /\ c.holder \in Nat /\ c.distance \in Nat
            /\ d.holder \in Nat /\ d.distance \in Nat
        BY <1>1
      <3> QED BY <2>1, <3>1 DEF Scan!Before
    <2> QED BY <2>1
  <1>4. c \in Earlier(d) /\ c \notin Earlier(c)
    <2>1. c.holder \in Nat /\ c.distance \in Nat
      BY <1>1
    <2>2. ~Scan!Before(c, c)
      BY <2>1 DEF Scan!Before
    <2> QED BY <2>2
  <1>5. Earlier(c) \in SUBSET Scan!Candidates(got) /\ Earlier(d) \in SUBSET Scan!Candidates(got)
        /\ Scan!Place(got, c) = Cardinality(Earlier(c)) + 1
        /\ Scan!Place(got, d) = Cardinality(Earlier(d)) + 1
    BY ScanSets DEF Scan!Place
  <1> HIDE DEF Earlier
  <1>6. IsFiniteSet(Earlier(c)) /\ IsFiniteSet(Earlier(d))
    BY <1>2, <1>5, FS_Subset
  <1>7. Cardinality(Earlier(c)) \in Nat /\ Cardinality(Earlier(d)) \in Nat
    BY <1>6, FS_CardinalityType
  <1>8. Cardinality(Earlier(c)) <= Cardinality(Earlier(d))
        /\ Cardinality(Earlier(c)) # Cardinality(Earlier(d))
    BY <1>3, <1>4, <1>6, FS_Subset
  <1> QED BY <1>5, <1>7, <1>8

(* And where a search shows its matches.                                   *)
LEMMA MatchesHeld ==
  ASSUME ScanAssumption, Scan!IInv
  PROVE  Scan!FoundWithItsHolder
  <1> SUFFICES ASSUME step = "read", ~cut
               PROVE  Scan!FoundWithItsHolder
    BY DEF Scan!FoundWithItsHolder
  <1> DEFINE Hits == {i \in Scan!Read : file[i] = Scan!Message(TRUE)}
  <1>1. /\ Scan!StatesShape /\ got \in Scan!Collected /\ at \in Nat
    BY ScanFacts DEF Scan!LineShape
  <1>2. /\ \A h : /\ Scan!Candidate(got, h).holder = h
                  /\ Scan!Candidate(got, h).lines = {i \in Hits : Scan!Holder(got, i) = h}
        /\ Scan!Candidates(got) = {Scan!Candidate(got, Scan!Holder(got, i)) : i \in Hits}
    BY CandidateLines
  <1>3. \A c \in Scan!Candidates(got) :
          /\ c.holder \in Nat /\ c.distance \in Nat /\ c = Scan!Candidate(got, c.holder)
    BY CandidateNumbers
  <1> HIDE DEF Hits
  <1>4. ASSUME NEW i \in Scan!Read, file[i] = Scan!Message(TRUE)
        PROVE  Scan!Cardinality({c \in Scan!Candidates(got) : i \in c.lines}) = 1
    <2> DEFINE d == Scan!Candidate(got, Scan!Holder(got, i))
    <2>1. i \in Hits
      BY <1>4 DEF Hits
    <2>2. d \in Scan!Candidates(got) /\ i \in d.lines
      BY <1>2, <2>1
    <2>3. ASSUME NEW c \in Scan!Candidates(got), i \in c.lines PROVE c = d
      <3>1. c = Scan!Candidate(got, c.holder)
        BY <1>3
      <3>2. i \in {j \in Hits : Scan!Holder(got, j) = c.holder}
        BY <1>2, <2>3, <3>1
      <3> QED BY <3>1, <3>2
    <2> HIDE DEF d
    <2>4. {c \in Scan!Candidates(got) : i \in c.lines} = {d}
      BY <2>2, <2>3
    <2> QED BY <2>4, ScanSets, FS_Singleton
  <1>5. ASSUME NEW c \in Scan!Candidates(got), NEW i \in Scan!Read, i \in c.lines
        PROVE  IF c.holder = 0 THEN \A j \in Scan!Checkpoints : j < i
               ELSE \E j \in Scan!Checkpoints :
                      /\ i < j /\ Scan!Cardinality({k \in Scan!Compactions : k <= j}) = c.holder
                      /\ \A k \in Scan!Checkpoints : ~(i < k /\ k < j)
    <2>1. i \in Hits /\ Scan!Holder(got, i) = c.holder
      BY <1>2, <1>3, <1>5
    <2>2. i \in 1..at /\ file[i] = Scan!Message(TRUE)
      BY <2>1 DEF Hits, Scan!Read
    <2>3. CASE c.holder = 0
      <3>1. \A j \in Scan!Checkpoints : ~(i < j)
        <4>1. ASSUME NEW p \in 1..Len(got.states), got.states[p].line \in Scan!Checkpoints,
                     Scan!Holder(got, i) =
                       Cardinality({k \in Scan!Compactions : k <= got.states[p].line})
              PROVE  FALSE
          <5>1. got.states[p].line \in Scan!Compactions
            BY <4>1 DEF Scan!Checkpoints
          <5>2. Scan!Holder(got, i) # 0
            BY <1>1, <4>1, <5>1, IndexTells
          <5> QED BY <2>1, <2>3, <5>2
        <4> QED BY <1>1, <2>2, <4>1, HolderIs
      <3>2. ASSUME NEW j \in Scan!Checkpoints PROVE j # i /\ j \in Nat /\ i \in Nat
        <4>1. file[j].kind = "compacted" /\ j \in 1..at
          BY DEF Scan!Checkpoints, Scan!Compactions, Scan!Read
        <4>2. file[i].kind = "message"
          BY <2>2 DEF Scan!Message
        <4>3. j # i
          BY <4>1, <4>2
        <4> QED BY <1>1, <2>2, <4>1, <4>3
      <3>3. ASSUME NEW j \in Scan!Checkpoints PROVE j < i
        BY <3>1, <3>2
      <3> QED BY <2>3, <3>3
    <2>4. CASE c.holder # 0
      <3>1. PICK p \in 1..Len(got.states) :
              /\ got.states[p].line \in Scan!Checkpoints
              /\ Scan!Holder(got, i) =
                   Cardinality({k \in Scan!Compactions : k <= got.states[p].line})
              /\ i < got.states[p].line
              /\ \A k \in Scan!Checkpoints : ~(i < k /\ k < got.states[p].line)
        BY <1>1, <2>1, <2>2, <2>4, HolderIs
      <3>2. Scan!Cardinality({k \in Scan!Compactions : k <= got.states[p].line}) = c.holder
        BY <2>1, <3>1, ScanSets
      <3> QED BY <2>4, <3>1, <3>2
    <2> QED BY <2>3, <2>4
  <1>6. ASSUME NEW c \in Scan!Candidates(got), NEW d \in Scan!Candidates(got), c # d
        PROVE  /\ Scan!Place(got, c) # Scan!Place(got, d)
               /\ Scan!Place(got, c) < Scan!Place(got, d) =>
                    c.holder = 0 \/ (d.holder # 0 /\ c.distance <= d.distance)
    <2>1. /\ c.holder \in Nat /\ c.distance \in Nat /\ d.holder \in Nat /\ d.distance \in Nat
          /\ c.holder # d.holder
      BY <1>3, <1>6
    <2>2. Scan!Before(c, d) \/ Scan!Before(d, c)
      BY <2>1 DEF Scan!Before
    <2>3. CASE Scan!Before(c, d)
      <3>1. Scan!Place(got, c) \in Nat /\ Scan!Place(got, d) \in Nat
            /\ Scan!Place(got, c) < Scan!Place(got, d)
        BY <2>3, CandidatesInOrder
      <3>2. c.holder = 0 \/ (d.holder # 0 /\ c.distance <= d.distance)
        BY <2>1, <2>3 DEF Scan!Before
      <3> QED BY <3>1, <3>2
    <2>4. CASE Scan!Before(d, c)
      <3>1. Scan!Place(got, c) \in Nat /\ Scan!Place(got, d) \in Nat
            /\ Scan!Place(got, d) < Scan!Place(got, c)
        BY <2>4, CandidatesInOrder
      <3> QED BY <3>1
    <2> QED BY <2>2, <2>3, <2>4
  <1> QED BY <1>4, <1>5, <1>6 DEF Scan!FoundWithItsHolder
-----------------------------------------------------------------------------
(* Token usage. *)

(* There is a function of the sums of the first values, however many.      *)
LEMMA SumsExist ==
  ASSUME NEW n \in Nat, NEW values
  PROVE  \E s : s = [i \in 0..n |-> IF i = 0 THEN 0 ELSE s[i - 1] + values[i]]
  <1> DEFINE Sums(m, s) == s = [i \in 0..m |-> IF i = 0 THEN 0 ELSE s[i - 1] + values[i]]
  <1> DEFINE Bad == {m \in 1..n : ~\E s : Sums(m, s)}
  <1>1. \E s : Sums(0, s)
    <2>1. [i \in 0..0 |-> 0] =
            [i \in 0..0 |-> IF i = 0 THEN 0 ELSE [k \in 0..0 |-> 0][i - 1] + values[i]]
      OBVIOUS
    <2> QED BY <2>1
  <1>2. ASSUME NEW m \in 1..n, NEW r, Sums(m - 1, r)
        PROVE  \E s : Sums(m, s)
    <2> DEFINE s == [i \in 0..m |-> IF i = m THEN r[m - 1] + values[m] ELSE r[i]]
    <2>1. ASSUME NEW i \in 0..m
          PROVE  s[i] = IF i = 0 THEN 0 ELSE s[i - 1] + values[i]
      <3>1. CASE i = m
        BY <3>1
      <3>2. CASE i # m
        <4>1. i \in 0..(m - 1) /\ s[i] = r[i] /\ (i # 0 => s[i - 1] = r[i - 1])
          BY <3>2
        <4>2. r[i] = IF i = 0 THEN 0 ELSE r[i - 1] + values[i]
          BY <1>2, <4>1
        <4> QED BY <4>1, <4>2
      <3> QED BY <3>1, <3>2
    <2>2. s = [i \in 0..m |-> IF i = 0 THEN 0 ELSE s[i - 1] + values[i]]
      <3>1. s = [i \in 0..m |-> s[i]]
        OBVIOUS
      <3> HIDE DEF s
      <3> QED BY <2>1, <3>1
    <2> HIDE DEF s
    <2> QED BY <2>2
  <1> HIDE DEF Sums
  <1>3. Bad = {}
    <2> SUFFICES ASSUME Bad # {} PROVE FALSE
      OBVIOUS
    <2>1. PICK m \in Bad : \A k \in Bad : m <= k
      BY HasFirst
    <2>2. m \in 1..n /\ ~\E s : Sums(m, s)
      OBVIOUS
    <2>3. \E r : Sums(m - 1, r)
      <3>1. CASE m = 1
        BY <1>1, <3>1
      <3>2. CASE m # 1
        <4>1. m - 1 \in 1..n /\ ~(m <= m - 1)
          BY <2>2, <3>2
        <4> QED BY <2>1, <4>1
      <3> QED BY <3>1, <3>2
    <2> QED BY <1>2, <2>2, <2>3
  <1>4. \E s : Sums(n, s)
    BY <1>1, <1>3
  <1> QED BY <1>4 DEF Sums

(* The sums of numbers that are no greater are no greater.                 *)
LEMMA SumsCompare ==
  ASSUME NEW n \in Nat, NEW a \in [1..n -> Nat], NEW b \in [1..n -> Nat],
         \A i \in 1..n : a[i] <= b[i]
  PROVE  Usage!Sum(a, n) \in Nat /\ Usage!Sum(b, n) \in Nat /\ Usage!Sum(a, n) <= Usage!Sum(b, n)
  <1> DEFINE S(v, s) == s = [i \in 0..n |-> IF i = 0 THEN 0 ELSE s[i - 1] + v[i]]
  <1> DEFINE sa == CHOOSE s : S(a, s)
  <1> DEFINE sb == CHOOSE s : S(b, s)
  <1>1. S(a, sa) /\ S(b, sb)
    <2>1. (\E s : S(a, s)) /\ (\E s : S(b, s))
      BY SumsExist
    <2> HIDE DEF S
    <2> QED BY <2>1
  <1>2. Usage!Sum(a, n) = sa[n] /\ Usage!Sum(b, n) = sb[n]
    BY DEF Usage!Sum
  <1> HIDE DEF sa, sb
  <1>3. /\ sa[0] = 0 /\ sb[0] = 0
        /\ \A i \in 1..n : sa[i] = sa[i - 1] + a[i] /\ sb[i] = sb[i - 1] + b[i]
    BY <1>1
  <1> DEFINE Good(i) == sa[i] \in Nat /\ sb[i] \in Nat /\ sa[i] <= sb[i]
  <1> DEFINE Bad == {i \in 1..n : ~Good(i)}
  <1>4. Good(0)
    BY <1>3
  <1>5. ASSUME NEW i \in 1..n, Good(i - 1) PROVE Good(i)
    <2>1. a[i] \in Nat /\ b[i] \in Nat /\ a[i] <= b[i]
      OBVIOUS
    <2>2. sa[i] = sa[i - 1] + a[i] /\ sb[i] = sb[i - 1] + b[i]
      BY <1>3
    <2>3. sa[i - 1] \in Nat /\ sb[i - 1] \in Nat /\ sa[i - 1] <= sb[i - 1]
      BY <1>5
    <2> QED BY <2>1, <2>2, <2>3
  <1> HIDE DEF Good
  <1>6. Bad = {}
    <2> SUFFICES ASSUME Bad # {} PROVE FALSE
      OBVIOUS
    <2>1. PICK m \in Bad : \A k \in Bad : m <= k
      BY HasFirst
    <2>2. m \in 1..n /\ ~Good(m)
      OBVIOUS
    <2>3. Good(m - 1)
      <3>1. CASE m = 1
        BY <1>4, <3>1
      <3>2. CASE m # 1
        <4>1. m - 1 \in 1..n /\ ~(m <= m - 1)
          BY <2>2, <3>2
        <4> QED BY <2>1, <4>1
      <3> QED BY <3>1, <3>2
    <2> QED BY <1>5, <2>2, <2>3
  <1>7. Good(n)
    BY <1>4, <1>6
  <1> QED BY <1>2, <1>7 DEF Good

(* What holds for no element, and for a set if it does whichever of its    *)
(* elements is left out, holds for a finite set.                           *)
LEMMA OneByOne ==
  ASSUME NEW S, IsFiniteSet(S), NEW Good, {} \in Good,
         \A T \in SUBSET S : T # {} /\ (\A x \in T : T \ {x} \in Good) => T \in Good
  PROVE  SUBSET S \subseteq Good
  <1> DEFINE Bad == {n \in 1..Cardinality(S) : \E T \in SUBSET S : Cardinality(T) = n /\ T \notin Good}
  <1>1. Cardinality(S) \in Nat
    BY FS_CardinalityType
  <1>2. ASSUME NEW T \in SUBSET S
        PROVE  /\ IsFiniteSet(T) /\ Cardinality(T) \in Nat /\ Cardinality(T) <= Cardinality(S)
               /\ Cardinality(T) = 0 <=> T = {}
    <2>1. IsFiniteSet(T) /\ Cardinality(T) <= Cardinality(S)
      BY FS_Subset
    <2>2. Cardinality(T) \in Nat
      BY <2>1, FS_CardinalityType
    <2>3. Cardinality(T) = 0 <=> T = {}
      BY <2>1, FS_EmptySet
    <2> QED BY <2>1, <2>2, <2>3
  <1>3. Bad = {}
    <2> SUFFICES ASSUME Bad # {} PROVE FALSE
      OBVIOUS
    <2>1. PICK m \in Bad : \A k \in Bad : m <= k
      BY <1>1, HasFirst
    <2>2. PICK T \in SUBSET S : Cardinality(T) = m /\ T \notin Good
      OBVIOUS
    <2>3. PICK x \in T : T \ {x} \notin Good
      BY <2>2
    <2>4. T \ {x} \in SUBSET S /\ T \ {x} \notin Good
      BY <2>2, <2>3
    <2>5. Cardinality(T \ {x}) = m - 1
      BY <1>2, <2>2, FS_RemoveElement
    <2>6. m \in 1..Cardinality(S)
      OBVIOUS
    <2>7. T \ {x} # {}
      BY <2>4
    <2>8. Cardinality(T \ {x}) \in 1..Cardinality(S)
      BY <1>1, <1>2, <2>4, <2>7
    <2>9. m - 1 \in Bad
      BY <2>4, <2>5, <2>8
    <2> QED BY <2>1, <2>6, <2>9
  <1>4. ASSUME NEW T \in SUBSET S, T \notin Good PROVE FALSE
    <2>1. T # {}
      BY <1>4
    <2>2. Cardinality(T) \in 1..Cardinality(S)
      BY <1>1, <1>2, <2>1
    <2>3. Cardinality(T) \in Bad
      BY <1>4, <2>2
    <2> QED BY <1>3, <2>3
  <1> QED BY <1>4

\* The order in which the elements of a set are added up.
AnyOf(T) == CHOOSE x \in T : TRUE

\* Totals of the values f of every subset of S.
Totals(it, f, S) ==
  /\ it[{}] = 0
  /\ \A T \in SUBSET S : T # {} => it[T] = f[AnyOf(T)] + it[T \ {AnyOf(T)}]

(* The values of a finite set are added one after another.                 *)
LEMMA AddedUp ==
  ASSUME NEW S, IsFiniteSet(S), NEW f
  PROVE  \E it : Totals(it, f, S) /\ Usage!SumFunctionOnSet(f, S) = it[S]
  <1> DEFINE Low(n) == {T \in SUBSET S : Cardinality(T) <= n}
  <1> DEFINE Adds(n, it) ==
        it = [T \in Low(n) |-> IF T = {} THEN 0 ELSE f[AnyOf(T)] + it[T \ {AnyOf(T)}]]
  <1> DEFINE last == Cardinality(S)
  <1> DEFINE Bad == {n \in 1..last : ~\E it : Adds(n, it)}
  <1>1. last \in Nat
    BY FS_CardinalityType
  <1>2. ASSUME NEW T \in SUBSET S
        PROVE  /\ Cardinality(T) \in Nat /\ Cardinality(T) <= last
               /\ Cardinality(T) = 0 <=> T = {}
               /\ T # {} => AnyOf(T) \in T /\ T \ {AnyOf(T)} \in SUBSET S
                            /\ Cardinality(T \ {AnyOf(T)}) = Cardinality(T) - 1
    <2>1. IsFiniteSet(T) /\ Cardinality(T) <= last
      BY FS_Subset
    <2>2. Cardinality(T) \in Nat
      BY <2>1, FS_CardinalityType
    <2>3. Cardinality(T) = 0 <=> T = {}
      BY <2>1, FS_EmptySet
    <2>4. T # {} => AnyOf(T) \in T
      BY DEF AnyOf
    <2>5. T # {} => Cardinality(T \ {AnyOf(T)}) = Cardinality(T) - 1
      BY <2>1, <2>4, FS_RemoveElement
    <2> QED BY <2>1, <2>2, <2>3, <2>4, <2>5
  <1>3. Usage!SumFunctionOnSet(f, S) =
          (CHOOSE it : it = [T \in SUBSET S |->
                               IF T = {} THEN 0 ELSE f[AnyOf(T)] + it[T \ {AnyOf(T)}]])[S]
    BY DEF Usage!SumFunctionOnSet, Usage!FoldFunctionOnSet, Usage!MapThenFoldSet, AnyOf
  <1> HIDE DEF last
  <1>4. \E it : Adds(0, it)
    <2> DEFINE it == [T \in Low(0) |-> 0]
    <2>1. ASSUME NEW T \in Low(0) PROVE T = {}
      <3>1. T \in SUBSET S /\ Cardinality(T) <= 0
        OBVIOUS
      <3>2. Cardinality(T) \in Nat
        BY <1>2, <3>1
      <3>3. Cardinality(T) = 0
        BY <3>1, <3>2
      <3> QED BY <1>2, <3>1, <3>3
    <2>2. it = [T \in Low(0) |-> IF T = {} THEN 0 ELSE f[AnyOf(T)] + it[T \ {AnyOf(T)}]]
      BY <2>1
    <2> HIDE DEF it
    <2> QED BY <2>2
  <1>5. ASSUME NEW m \in 1..last, NEW g, Adds(m - 1, g)
        PROVE  \E it : Adds(m, it)
    <2> DEFINE it == [T \in Low(m) |->
                        IF T \in Low(m - 1) THEN g[T] ELSE f[AnyOf(T)] + g[T \ {AnyOf(T)}]]
    <2>1. ASSUME NEW T \in Low(m), T # {} PROVE T \ {AnyOf(T)} \in Low(m - 1)
      BY <1>1, <1>2, <2>1
    <2>2. ASSUME NEW T \in Low(m - 1) PROVE T \in Low(m)
      <3>1. T \in SUBSET S /\ Cardinality(T) <= m - 1
        OBVIOUS
      <3>2. Cardinality(T) \in Nat
        BY <1>2, <3>1
      <3>3. Cardinality(T) <= m
        BY <1>1, <3>1, <3>2
      <3> QED BY <3>1, <3>3
    <2>3. \A T \in Low(m - 1) : it[T] = g[T]
      BY <2>2
    <2>4. ASSUME NEW T \in Low(m)
          PROVE  it[T] = IF T = {} THEN 0 ELSE f[AnyOf(T)] + it[T \ {AnyOf(T)}]
      <3>1. CASE T \in Low(m - 1)
        <4>1. g[T] = IF T = {} THEN 0 ELSE f[AnyOf(T)] + g[T \ {AnyOf(T)}]
          BY <1>5, <3>1
        <4>2. T # {} => it[T \ {AnyOf(T)}] = g[T \ {AnyOf(T)}]
          BY <2>1, <2>3
        <4> QED BY <2>3, <3>1, <4>1, <4>2
      <3>2. CASE T \notin Low(m - 1)
        <4>1. T # {}
          BY <1>1, <1>2, <3>2
        <4>2. it[T] = f[AnyOf(T)] + g[T \ {AnyOf(T)}]
          BY <3>2
        <4>3. it[T \ {AnyOf(T)}] = g[T \ {AnyOf(T)}]
          BY <2>1, <2>3, <4>1
        <4> QED BY <4>1, <4>2, <4>3
      <3> QED BY <3>1, <3>2
    <2>5. it = [T \in Low(m) |-> IF T = {} THEN 0 ELSE f[AnyOf(T)] + it[T \ {AnyOf(T)}]]
      <3>1. it = [T \in Low(m) |-> it[T]]
        OBVIOUS
      <3> HIDE DEF it, Low
      <3> QED BY <2>4, <3>1
    <2> HIDE DEF it, Low
    <2> QED BY <2>5
  <1>6. Low(last) = SUBSET S
    BY <1>2
  <1> HIDE DEF Adds
  <1>7. Bad = {}
    <2> SUFFICES ASSUME Bad # {} PROVE FALSE
      OBVIOUS
    <2>1. PICK m \in Bad : \A k \in Bad : m <= k
      BY <1>1, HasFirst
    <2>2. m \in 1..last /\ ~\E it : Adds(m, it)
      OBVIOUS
    <2>3. \E it : Adds(m - 1, it)
      <3>1. CASE m = 1
        BY <1>4, <3>1
      <3>2. CASE m # 1
        <4>1. m - 1 \in 1..last /\ ~(m <= m - 1)
          BY <1>1, <2>2, <3>2
        <4> QED BY <2>1, <4>1
      <3> QED BY <3>1, <3>2
    <2> QED BY <1>5, <2>2, <2>3
  <1>8. \E it : Adds(last, it)
    BY <1>1, <1>4, <1>7
  <1> DEFINE it == CHOOSE it : it = [T \in SUBSET S |->
                                 IF T = {} THEN 0 ELSE f[AnyOf(T)] + it[T \ {AnyOf(T)}]]
  <1>9. it = [T \in SUBSET S |-> IF T = {} THEN 0 ELSE f[AnyOf(T)] + it[T \ {AnyOf(T)}]]
    <2>1. \E g : g = [T \in SUBSET S |-> IF T = {} THEN 0 ELSE f[AnyOf(T)] + g[T \ {AnyOf(T)}]]
      BY <1>6, <1>8 DEF Adds
    <2> QED BY <2>1
  <1>10. Usage!SumFunctionOnSet(f, S) = it[S]
    BY <1>3
  <1> HIDE DEF it
  <1>11. it[{}] = 0
    BY <1>9
  <1>12. \A T \in SUBSET S : T # {} => it[T] = f[AnyOf(T)] + it[T \ {AnyOf(T)}]
    BY <1>9
  <1> QED BY <1>10, <1>11, <1>12 DEF Totals

(* When one more thread has a value the total is as much more.             *)
LEMMA OneMoreValue ==
  ASSUME NEW S, IsFiniteSet(S), NEW f \in [S -> Nat], NEW g \in [S -> Nat], NEW t \in S,
         f[t] = 0, \A x \in S : x # t => g[x] = f[x]
  PROVE  /\ Usage!SumFunctionOnSet(f, S) \in Nat
         /\ Usage!SumFunctionOnSet(g, S) = Usage!SumFunctionOnSet(f, S) + g[t]
  <1>1. PICK a : Totals(a, f, S) /\ Usage!SumFunctionOnSet(f, S) = a[S]
    BY AddedUp
  <1>2. PICK b : Totals(b, g, S) /\ Usage!SumFunctionOnSet(g, S) = b[S]
    BY AddedUp
  <1> DEFINE Good == {T \in SUBSET S : /\ a[T] \in Nat
                                       /\ b[T] = IF t \in T THEN a[T] + g[t] ELSE a[T]}
  <1>3. {} \in Good
    BY <1>1, <1>2 DEF Totals
  <1>4. ASSUME NEW T \in SUBSET S, T # {}, \A x \in T : T \ {x} \in Good
        PROVE  T \in Good
    <2> HIDE DEF Good
    <2> DEFINE x == AnyOf(T)
    <2>1. x \in T
      BY <1>4 DEF AnyOf
    <2>2. a[T] = f[x] + a[T \ {x}] /\ b[T] = g[x] + b[T \ {x}]
      BY <1>1, <1>2, <1>4 DEF Totals
    <2> HIDE DEF x
    <2> USE DEF Good
    <2>3. T \ {x} \in Good
      BY <1>4, <2>1
    <2>4. /\ f[x] \in Nat /\ g[x] \in Nat /\ g[t] \in Nat
          /\ x # t => g[x] = f[x]
          /\ a[T \ {x}] \in Nat
      BY <2>1, <2>3
    <2>5. CASE x = t
      <3>1. t \in T /\ b[T \ {x}] = a[T \ {x}]
        BY <2>1, <2>3, <2>5
      <3>2. a[T] \in Nat /\ b[T] = a[T] + g[t]
        BY <2>2, <2>4, <2>5, <3>1
      <3> QED BY <3>1, <3>2
    <2>6. CASE x # t /\ t \in T
      <3>1. b[T \ {x}] = a[T \ {x}] + g[t]
        BY <2>3, <2>6
      <3>2. a[T] \in Nat /\ b[T] = a[T] + g[t]
        BY <2>2, <2>4, <2>6, <3>1
      <3> QED BY <2>6, <3>2
    <2>7. CASE t \notin T
      <3>1. b[T \ {x}] = a[T \ {x}] /\ x # t
        BY <2>1, <2>3, <2>7
      <3>2. a[T] \in Nat /\ b[T] = a[T]
        BY <2>2, <2>4, <3>1
      <3> QED BY <2>7, <3>2
    <2> QED BY <2>5, <2>6, <2>7
  <1> HIDE DEF Good
  <1>5. SUBSET S \subseteq Good
    BY <1>3, <1>4, OneByOne
  <1>6. S \in Good
    BY <1>5
  <1> QED BY <1>1, <1>2, <1>6 DEF Good

(* Nothing adds up to nothing.                                             *)
LEMMA NoValues ==
  ASSUME NEW S, IsFiniteSet(S), NEW f, \A x \in S : f[x] = 0
  PROVE  Usage!SumFunctionOnSet(f, S) = 0
  <1>1. PICK a : Totals(a, f, S) /\ Usage!SumFunctionOnSet(f, S) = a[S]
    BY AddedUp
  <1> DEFINE Good == {T \in SUBSET S : a[T] = 0}
  <1>2. {} \in Good
    BY <1>1 DEF Totals
  <1>3. ASSUME NEW T \in SUBSET S, T # {}, \A x \in T : T \ {x} \in Good
        PROVE  T \in Good
    <2> HIDE DEF Good
    <2> DEFINE x == AnyOf(T)
    <2>1. x \in T
      BY <1>3 DEF AnyOf
    <2>2. a[T] = f[x] + a[T \ {x}]
      BY <1>1, <1>3 DEF Totals
    <2> HIDE DEF x
    <2>3. a[T \ {x}] = 0 /\ f[x] = 0
      BY <1>3, <2>1 DEF Good
    <2> QED BY <2>2, <2>3 DEF Good
  <1> HIDE DEF Good
  <1>4. SUBSET S \subseteq Good
    BY <1>2, <1>3, OneByOne
  <1>5. S \in Good
    BY <1>4
  <1> QED BY <1>1, <1>5 DEF Good

\* No values add up to nothing.
LEMMA SumOfNone ==
  ASSUME NEW values
  PROVE  Usage!Sum(values, 0) = 0
  <1>1. \E s : s = [i \in 0..0 |-> IF i = 0 THEN 0 ELSE s[i - 1] + values[i]]
    <2>1. [i \in 0..0 |-> 0] =
            [i \in 0..0 |-> IF i = 0 THEN 0 ELSE [k \in 0..0 |-> 0][i - 1] + values[i]]
      OBVIOUS
    <2> QED BY <2>1
  <1> QED BY <1>1 DEF Usage!Sum

(* What the invariant says of the rollouts.                                *)
LEMMA UsageFacts ==
  ASSUME Usage!IInv
  PROVE  /\ log \in [Threads -> Seq(Usage!Reports)]
         /\ \A t \in Threads :
              /\ log[t] \in Seq(Usage!Reports)
              /\ Len(log[t]) \in Nat /\ DOMAIN log[t] = 1..Len(log[t])
              /\ read[t] \in Nat /\ counted[t] \in Nat /\ read[t] <= Len(log[t])
              /\ counter[t] \in Nat /\ copied[t] \in Nat /\ copied[t] <= Len(log[t])
              /\ \A i \in 1..Len(log[t]) :
                   /\ log[t][i] \in Usage!Reports
                   /\ log[t][i].total \in Nat /\ log[t][i].last \in Nat
                   /\ log[t][i].spent \in Nat /\ log[t][i].recent \in BOOLEAN
  <1>1. log \in [Threads -> Seq(Usage!Reports)]
    BY DEF Usage!IInv, Usage!TypeOK
  <1>2. ASSUME NEW t \in Threads
        PROVE  /\ log[t] \in Seq(Usage!Reports)
               /\ Len(log[t]) \in Nat /\ DOMAIN log[t] = 1..Len(log[t])
               /\ \A i \in 1..Len(log[t]) : log[t][i] \in Usage!Reports
    <2>1. log[t] \in Seq(Usage!Reports)
      BY <1>1
    <2>2. Len(log[t]) \in Nat /\ DOMAIN log[t] = 1..Len(log[t])
      BY <2>1, LenProperties
    <2>3. \A i \in 1..Len(log[t]) : log[t][i] \in Usage!Reports
      BY <2>1, ElementOfSeq
    <2> QED BY <2>1, <2>2, <2>3
  <1>3. \A t \in Threads :
          /\ read[t] \in Nat /\ counted[t] \in Nat /\ read[t] <= Len(log[t])
          /\ counter[t] \in Nat /\ copied[t] \in Nat /\ copied[t] <= Len(log[t])
    BY DEF Usage!IInv, Usage!TypeOK
  <1>4. \A r \in Usage!Reports :
          r.total \in Nat /\ r.last \in Nat /\ r.spent \in Nat /\ r.recent \in BOOLEAN
    BY DEF Usage!Reports
  <1> QED BY <1>1, <1>2, <1>3, <1>4

(* What was read and used stays while the reports that were read do.       *)
LEMMA SpentStays ==
  ASSUME NEW t \in Threads, NEW k, read'[t] = read[t],
         \A i \in 1..read[t] : log'[t][i] = log[t][i]
  PROVE  Usage!Spent(t, k)' = Usage!Spent(t, k)
  <1>1. [i \in 1..read'[t] |-> IF log'[t][i].recent /\ log'[t][i].id = k
                               THEN log'[t][i].spent ELSE 0] =
        [i \in 1..read[t] |-> IF log[t][i].recent /\ log[t][i].id = k THEN log[t][i].spent ELSE 0]
    OBVIOUS
  <1>2. Usage!Spent(t, k) =
          Usage!Sum([i \in 1..read[t] |-> IF log[t][i].recent /\ log[t][i].id = k
                                          THEN log[t][i].spent ELSE 0], read[t])
    BY DEF Usage!Spent
  <1>3. Usage!Spent(t, k)' =
          Usage!Sum([i \in 1..read'[t] |-> IF log'[t][i].recent /\ log'[t][i].id = k
                                           THEN log'[t][i].spent ELSE 0], read'[t])
    BY DEF Usage!Spent, Usage!Sum
  <1> QED BY <1>1, <1>2, <1>3

\* So does what all of them used by reports with an id.
LEMMA OwedStays ==
  ASSUME \A t \in Threads : read'[t] = read[t] /\ \A i \in 1..read[t] : log'[t][i] = log[t][i],
         UNCHANGED counted, UNCHANGED inherited, restarted \subseteq restarted',
         Usage!NeverOvercounted, Usage!ReadIsCounted
  PROVE  Usage!NeverOvercounted' /\ Usage!ReadIsCounted'
  <1>1. ASSUME NEW k \in Threads PROVE Usage!Owed(k)' = Usage!Owed(k)
    <2>1. Usage!Owed(k)' = Usage!SumFunctionOnSet([t \in Threads |-> Usage!Spent(t, k)'], Threads)
      BY DEF Usage!Owed, Usage!SumFunctionOnSet, Usage!FoldFunctionOnSet, Usage!MapThenFoldSet
    <2>2. \A t \in Threads : Usage!Spent(t, k)' = Usage!Spent(t, k)
      BY SpentStays
    <2>3. [t \in Threads |-> Usage!Spent(t, k)'] = [t \in Threads |-> Usage!Spent(t, k)]
      BY <2>2
    <2> QED BY <2>1, <2>3 DEF Usage!Owed
  <1>2. ASSUME NEW k \in Threads PROVE Usage!Reporting(k)' = Usage!Reporting(k)
    BY DEF Usage!Reporting
  <1>3. \A t \in Threads : Usage!Plain(t)' => Usage!Plain(t)
    BY DEF Usage!Plain
  <1>4. \A k \in Threads : Usage!Reporting(k) \subseteq Threads
    BY DEF Usage!Reporting
  <1> QED BY <1>1, <1>2, <1>3, <1>4 DEF Usage!NeverOvercounted, Usage!ReadIsCounted

(* What a report adds depends on it and on the one before.                 *)
LEMMA DeltaOf ==
  ASSUME NEW x, NEW y, NEW i \in Nat \ {0}, x[i] = y[i], i > 1 => x[i - 1] = y[i - 1]
  PROVE  Usage!Delta(x, i) = Usage!Delta(y, i)
  BY DEF Usage!Delta

(* What is added after a report before.                                    *)
LEMMA DeltaNext ==
  ASSUME NEW x, NEW n \in Nat, n # 0, NEW a, NEW b, x[n + 1] = a, x[n] = b
  PROVE  Usage!Delta(x, n + 1) = IF a.total < b.total THEN 0 ELSE a.total - b.total
  <1>1. n + 1 # 1 /\ (n + 1) - 1 = n
    OBVIOUS
  <1> QED BY <1>1 DEF Usage!Delta

(* A thread writes something more into its rollout.                        *)
LEMMA OneMoreEntry ==
  ASSUME NEW S, log \in [Threads -> Seq(S)], IsFiniteSet(Usage!Recorded),
         NEW t \in Threads, NEW r \in S, log' = [log EXCEPT ![t] = Append(@, r)]
  PROVE  /\ log' \in [Threads -> Seq(S)]
         /\ Len(log[t]) \in Nat
         /\ Len(log'[t]) = Len(log[t]) + 1 /\ log'[t][Len(log[t]) + 1] = r
         /\ DOMAIN log[t] = 1..Len(log[t]) /\ DOMAIN log'[t] = 1..(Len(log[t]) + 1)
         /\ \A i \in 1..Len(log[t]) : log'[t][i] = log[t][i]
         /\ \A u \in Threads : u # t => log'[u] = log[u]
         /\ IsFiniteSet(Usage!Recorded')
         /\ Cardinality(Usage!Recorded) \in Nat
         /\ Cardinality(Usage!Recorded') = Cardinality(Usage!Recorded) + 1
  <1>1. log[t] \in Seq(S) /\ Len(log[t]) \in Nat /\ DOMAIN log[t] = 1..Len(log[t])
    BY LenProperties
  <1>2. log'[t] = Append(log[t], r) /\ \A u \in Threads : u # t => log'[u] = log[u]
    BY <1>1
  <1>3. /\ Append(log[t], r) \in Seq(S) /\ Len(Append(log[t], r)) = Len(log[t]) + 1
        /\ Append(log[t], r)[Len(log[t]) + 1] = r
        /\ \A i \in 1..Len(log[t]) : Append(log[t], r)[i] = log[t][i]
    BY <1>1, AppendProperties
  <1>4. log' \in [Threads -> Seq(S)]
    BY <1>1, <1>3
  <1>5. DOMAIN log'[t] = 1..(Len(log[t]) + 1)
    BY <1>2, <1>3, LenProperties
  <1> DEFINE e == <<t, Len(log[t]) + 1>>
  <1>6. Usage!Recorded' = Usage!Recorded \union {e} /\ e \notin Usage!Recorded
    <2>1. \A u \in Threads : u # t => DOMAIN log'[u] = DOMAIN log[u]
      BY <1>2
    <2>2. DOMAIN log'[t] = DOMAIN log[t] \union {Len(log[t]) + 1}
      BY <1>1, <1>5
    <2>3. Len(log[t]) + 1 \notin DOMAIN log[t]
      BY <1>1
    <2>4. \A p : p \in Usage!Recorded <=> \E u \in Threads : p \in {u} \X DOMAIN log[u]
      BY DEF Usage!Recorded
    <2>5. \A p : p \in Usage!Recorded' <=> \E u \in Threads : p \in {u} \X DOMAIN log'[u]
      BY DEF Usage!Recorded
    <2>6. ASSUME NEW p \in Usage!Recorded' PROVE p \in Usage!Recorded \union {e}
      <3>1. PICK u \in Threads : p \in {u} \X DOMAIN log'[u]
        BY <2>5
      <3> QED BY <2>1, <2>2, <2>4, <3>1
    <2>7. ASSUME NEW p \in Usage!Recorded PROVE p \in Usage!Recorded'
      <3>1. PICK u \in Threads : p \in {u} \X DOMAIN log[u]
        BY <2>4
      <3> QED BY <2>1, <2>2, <2>5, <3>1
    <2>8. e \in Usage!Recorded'
      BY <2>2, <2>5
    <2>9. e \notin Usage!Recorded
      BY <2>3, <2>4
    <2> HIDE DEF e
    <2> QED BY <2>6, <2>7, <2>8, <2>9
  <1> HIDE DEF e
  <1>7. Cardinality(Usage!Recorded) \in Nat
    BY FS_CardinalityType
  <1>8. IsFiniteSet(Usage!Recorded') /\ Cardinality(Usage!Recorded') = Cardinality(Usage!Recorded) + 1
    BY <1>6, FS_AddElement
  <1> QED BY <1>1, <1>2, <1>3, <1>4, <1>5, <1>7, <1>8

(* A thread writes a report.                                               *)
LEMMA OneMoreReport ==
  ASSUME Usage!IInv, MaxReports \in Nat, NEW t \in Threads, NEW r \in Usage!Reports,
         Usage!Written < MaxReports, log' = [log EXCEPT ![t] = Append(@, r)]
  PROVE  /\ log' \in [Threads -> Seq(Usage!Reports)]
         /\ Len(log'[t]) = Len(log[t]) + 1 /\ log'[t][Len(log[t]) + 1] = r
         /\ DOMAIN log'[t] = 1..(Len(log[t]) + 1)
         /\ \A i \in 1..Len(log[t]) : log'[t][i] = log[t][i]
         /\ \A u \in Threads : u # t => log'[u] = log[u]
         /\ IsFiniteSet(Usage!Recorded') /\ Usage!Written' <= MaxReports
  <1>1. log \in [Threads -> Seq(Usage!Reports)]
    BY UsageFacts
  <1>2. \A S : Usage!Cardinality(S) = Cardinality(S) /\ (Usage!IsFiniteSet(S) <=> IsFiniteSet(S))
    BY DEF Usage!Cardinality, Cardinality, Usage!IsFiniteSet, IsFiniteSet
  <1>3. IsFiniteSet(Usage!Recorded)
    BY <1>2 DEF Usage!IInv
  <1>4. Usage!Written = Cardinality(Usage!Recorded) /\ Usage!Written' = Cardinality(Usage!Recorded')
    BY <1>2 DEF Usage!Written
  <1>5. /\ log' \in [Threads -> Seq(Usage!Reports)]
        /\ Len(log'[t]) = Len(log[t]) + 1 /\ log'[t][Len(log[t]) + 1] = r
        /\ DOMAIN log'[t] = 1..(Len(log[t]) + 1)
        /\ \A i \in 1..Len(log[t]) : log'[t][i] = log[t][i]
        /\ \A u \in Threads : u # t => log'[u] = log[u]
        /\ IsFiniteSet(Usage!Recorded')
        /\ Cardinality(Usage!Recorded) \in Nat
        /\ Cardinality(Usage!Recorded') = Cardinality(Usage!Recorded) + 1
    BY <1>1, <1>3, OneMoreEntry, ZenonT(30)
  <1>6. Usage!Written' <= MaxReports
    BY <1>4, <1>5
  <1> QED BY <1>5, <1>6

(* At first nothing is written.                                            *)
LEMMA UsageBegins ==
  ASSUME UsageAssumption, Usage!Init
  PROVE  Usage!IInv
  <1>1. /\ log = [t \in Threads |-> <<>>] /\ inherited \in [Threads -> 0..MaxInherited]
        /\ counter = inherited /\ restarted = {} /\ archived = {}
        /\ copied = [t \in Threads |-> 0] /\ recent \in BOOLEAN
        /\ step = "find" /\ files = {}
        /\ read = [t \in Threads |-> 0] /\ counted = [t \in Threads |-> 0]
    BY DEF Usage!Init
  <1>2. Usage!Recorded = {}
    BY <1>1 DEF Usage!Recorded
  <1>3. Usage!Written = 0 /\ Usage!IsFiniteSet(Usage!Recorded)
    <2>1. \A S : Usage!Cardinality(S) = Cardinality(S) /\ (Usage!IsFiniteSet(S) <=> IsFiniteSet(S))
      BY DEF Usage!Cardinality, Cardinality, Usage!IsFiniteSet, IsFiniteSet
    <2> QED BY <1>2, <2>1, FS_EmptySet DEF Usage!Written
  <1>4. Usage!TypeOK
    <2>1. log \in [Threads -> Seq(Usage!Reports)]
      <3>1. <<>> \in Seq(Usage!Reports)
        OBVIOUS
      <3> QED BY <1>1, <3>1
    <2>2. counter \in [Threads -> Nat]
      BY <1>1, UsageAssumption DEF UsageAssumption
    <2>3. \A t \in Threads : copied[t] <= Len(log[t]) /\ read[t] <= Len(log[t])
      BY <1>1
    <2>4. copied \in [Threads -> Nat] /\ read \in [Threads -> Nat] /\ counted \in [Threads -> Nat]
      BY <1>1
    <2>5. 0 <= MaxReports
      BY DEF UsageAssumption
    <2> QED BY <1>1, <1>3, <2>1, <2>2, <2>3, <2>4, <2>5 DEF Usage!TypeOK
  <1>5. Usage!CounterShape
    BY <1>1 DEF Usage!CounterShape
  <1>6. Usage!ReportShape
    BY <1>1 DEF Usage!ReportShape
  <1>7. Usage!FileShape
    BY <1>1 DEF Usage!FileShape
  <1>8. \A k \in Threads : Usage!Owed(k) = 0
    <2>1. ASSUME NEW values PROVE Usage!Sum(values, 0) = 0
      BY SumOfNone
    <2>2. \A t \in Threads : read[t] = 0
      BY <1>1
    <2>3. ASSUME NEW k \in Threads PROVE \A t \in Threads : Usage!Spent(t, k) = 0
      BY <2>1, <2>2 DEF Usage!Spent
    <2>4. ASSUME NEW k \in Threads PROVE Usage!Owed(k) = 0
      <3> DEFINE f == [t \in Threads |-> Usage!Spent(t, k)]
      <3>1. \A t \in Threads : f[t] = 0
        BY <2>3
      <3>2. Usage!Owed(k) = Usage!SumFunctionOnSet(f, Threads)
        BY DEF Usage!Owed
      <3> HIDE DEF f
      <3> QED BY UsageAssumption, <3>1, <3>2, NoValues DEF UsageAssumption
    <2> QED BY <2>4
  <1>9. Usage!NeverOvercounted /\ Usage!ReadIsCounted
    BY <1>1, <1>8 DEF Usage!NeverOvercounted, Usage!ReadIsCounted
  <1> QED BY <1>3, <1>4, <1>5, <1>6, <1>7, <1>9 DEF Usage!IInv

(* A thread writes a report that adds no more than was used.               *)
LEMMA ReportStep ==
  ASSUME UsageAssumption, Usage!IInv, NEW t \in Threads, NEW r \in Usage!Reports,
         Usage!Written < MaxReports, log' = [log EXCEPT ![t] = Append(@, r)],
         r.total > 0, Usage!Delta(log'[t], Len(log[t]) + 1) \in 0..r.spent,
         t \notin restarted /\ inherited[t] = 0 =>
           Usage!Delta(log'[t], Len(log[t]) + 1) = r.spent,
         counter' \in [Threads -> Nat], Usage!CounterShape',
         UNCHANGED <<inherited, restarted, copied, archived, recent, step, files, read, counted>>
  PROVE  Usage!IInv'
  <1>0. Usage!TypeOK /\ Usage!ReportShape /\ Usage!FileShape
        /\ Usage!NeverOvercounted /\ Usage!ReadIsCounted
    BY DEF Usage!IInv
  <1>1. /\ log' \in [Threads -> Seq(Usage!Reports)]
        /\ Len(log'[t]) = Len(log[t]) + 1 /\ log'[t][Len(log[t]) + 1] = r
        /\ DOMAIN log'[t] = 1..(Len(log[t]) + 1)
        /\ \A i \in 1..Len(log[t]) : log'[t][i] = log[t][i]
        /\ \A u \in Threads : u # t => log'[u] = log[u]
        /\ IsFiniteSet(Usage!Recorded') /\ Usage!Written' <= MaxReports
    BY OneMoreReport DEF UsageAssumption
  <1>2. \A u \in Threads :
          /\ Len(log[u]) \in Nat /\ DOMAIN log[u] = 1..Len(log[u])
          /\ read[u] \in Nat /\ copied[u] \in Nat
          /\ read[u] <= Len(log[u]) /\ copied[u] <= Len(log[u])
    BY UsageFacts
  <1>3. \A u \in Threads : Len(log[u]) <= Len(log'[u]) /\ Len(log'[u]) \in Nat
    BY <1>1, <1>2
  <1>4. Usage!TypeOK'
    <2>1. \A u \in Threads : copied'[u] <= Len(log'[u]) /\ read'[u] <= Len(log'[u])
      BY <1>2, <1>3
    <2> QED BY <1>0, <1>1, <2>1 DEF Usage!TypeOK
  <1>5. Usage!ReportShape'
    <2> SUFFICES ASSUME NEW u \in Threads, NEW i \in DOMAIN log'[u]
                 PROVE  /\ log'[u][i].total > 0 /\ Usage!Delta(log'[u], i) \in 0..log'[u][i].spent
                        /\ u \notin restarted /\ inherited[u] = 0 =>
                             Usage!Delta(log'[u], i) = log'[u][i].spent
      BY DEF Usage!ReportShape, Usage!Delta, Usage!Plain
    <2>1. CASE u # t
      BY <1>0, <1>1, <2>1 DEF Usage!ReportShape, Usage!Plain
    <2>2. CASE u = t /\ i = Len(log[t]) + 1
      BY <1>1, <2>2
    <2>3. CASE u = t /\ i # Len(log[t]) + 1
      <3>1. i \in 1..Len(log[t]) /\ i \in Nat \ {0} /\ (i > 1 => i - 1 \in 1..Len(log[t]))
        BY <1>1, <1>2, <2>3
      <3>2. Usage!Delta(log'[t], i) = Usage!Delta(log[t], i)
        <4>1. log'[t][i] = log[t][i] /\ (i > 1 => log'[t][i - 1] = log[t][i - 1])
          BY <1>1, <3>1
        <4> QED BY <3>1, <4>1, DeltaOf
      <3>3. log'[t][i] = log[t][i] /\ i \in DOMAIN log[t]
        BY <1>1, <1>2, <3>1
      <3> QED BY <1>0, <2>3, <3>2, <3>3 DEF Usage!ReportShape, Usage!Plain
    <2> QED BY <2>1, <2>2, <2>3
  <1>6. Usage!FileShape'
    <2>1. \A f \in files : f[1] \in Threads
      BY <1>0 DEF Usage!TypeOK
    <2>2. ASSUME NEW f \in files PROVE log'[f[1]] # <<>>
      <3>1. log[f[1]] # <<>>
        BY <1>0 DEF Usage!FileShape
      <3>2. CASE f[1] = t
        <4>1. Len(log'[t]) # 0
          BY <1>1, <1>2
        <4> QED BY <3>2, <4>1
      <3>3. CASE f[1] # t
        BY <1>1, <2>1, <3>1, <3>3
      <3> QED BY <3>2, <3>3
    <2> QED BY <1>0, <2>2 DEF Usage!FileShape
  <1>7. \A u \in Threads : read'[u] = read[u] /\ \A i \in 1..read[u] : log'[u][i] = log[u][i]
    BY <1>1, <1>2
  <1>8. Usage!NeverOvercounted' /\ Usage!ReadIsCounted'
    BY <1>0, <1>7, OwedStays
  <1>9. Usage!IsFiniteSet(Usage!Recorded)'
    BY <1>1 DEF Usage!IsFiniteSet, IsFiniteSet
  <1> QED BY <1>4, <1>5, <1>6, <1>8, <1>9 DEF Usage!IInv

(* A model call, and a report that is repeated.                            *)
LEMMA UsesStep ==
  ASSUME UsageAssumption, Usage!IInv, NEW t \in Threads, Usage!Uses(t)
  PROVE  Usage!IInv'
  <1> DEFINE plain == [total |-> counter[t] + 1, last |-> 1, spent |-> 1, recent |-> recent, id |-> t]
  <1>0. PICK id \in Threads : log' = [log EXCEPT ![t] = Append(@, [plain EXCEPT !.id = id])]
    BY DEF Usage!Uses, Usage!Writes
  <1> DEFINE r == [plain EXCEPT !.id = id]
  <1> DEFINE n == Len(log[t])
  <1>1. /\ counter' = [counter EXCEPT ![t] = @ + 1]
        /\ Usage!Written < MaxReports /\ log' = [log EXCEPT ![t] = Append(@, r)]
        /\ UNCHANGED <<inherited, restarted, copied, archived, recent, step, files, read, counted>>
    BY <1>0 DEF Usage!Uses, Usage!Writes, Usage!command
  <1>2. /\ counter \in [Threads -> Nat] /\ recent \in BOOLEAN /\ Usage!CounterShape
        /\ Usage!ReportShape
    BY DEF Usage!IInv, Usage!TypeOK
  <1>3. counter[t] \in Nat /\ n \in Nat /\ DOMAIN log[t] = 1..n /\ log[t] \in Seq(Usage!Reports)
        /\ \A i \in 1..n : log[t][i].total \in Nat
    BY UsageFacts
  <1>4. r \in Usage!Reports /\ r.total = counter[t] + 1 /\ r.last = 1 /\ r.spent = 1
    BY <1>2, <1>3 DEF Usage!Reports
  <1> HIDE DEF r
  <1>5. /\ Len(log'[t]) = n + 1 /\ log'[t][n + 1] = r
        /\ \A i \in 1..n : log'[t][i] = log[t][i]
        /\ \A u \in Threads : u # t => log'[u] = log[u]
    BY <1>1, <1>4, OneMoreReport DEF UsageAssumption
  <1>6. \/ t \in restarted /\ counter[t] = 0
        \/ log[t] = <<>> /\ counter[t] = inherited[t]
        \/ log[t] # <<>> /\ counter[t] = log[t][n].total
    BY <1>2 DEF Usage!CounterShape
  <1>7. /\ Usage!Delta(log'[t], n + 1) \in 0..1
        /\ t \notin restarted /\ inherited[t] = 0 => Usage!Delta(log'[t], n + 1) = 1
    <2>1. CASE n = 0
      <3>1. Usage!Delta(log'[t], n + 1) = IF counter[t] = 0 THEN 1 ELSE 0
        BY <1>3, <1>4, <1>5, <2>1 DEF Usage!Delta
      <3>2. log[t] = <<>>
        BY <1>3, <2>1
      <3>3. t \notin restarted /\ inherited[t] = 0 => counter[t] = 0
        BY <1>6, <3>2
      <3> QED BY <3>1, <3>3
    <2>2. CASE n # 0
      <3>1. n \in 1..n /\ n + 1 # 1 /\ (n + 1) - 1 = n /\ log[t] # <<>>
        BY <1>3, <2>2
      <3>2. log'[t][n] = log[t][n] /\ log[t][n].total \in Nat /\ log[t][n].total > 0
        BY <1>2, <1>3, <1>5, <3>1 DEF Usage!ReportShape
      <3>3. Usage!Delta(log'[t], n + 1) =
              IF log'[t][n + 1].total < log'[t][n].total THEN 0
              ELSE log'[t][n + 1].total - log'[t][n].total
        <4> HIDE DEF n
        <4> QED BY <3>1 DEF Usage!Delta
      <3> DEFINE d == Usage!Delta(log'[t], n + 1)
      <3> DEFINE b == log[t][n].total
      <3>4. d = (IF counter[t] + 1 < b THEN 0 ELSE counter[t] + 1 - b) /\ b \in Nat /\ b > 0
        <4> HIDE DEF n
        <4>1. log'[t][n + 1].total = counter[t] + 1
          BY <1>4, <1>5
        <4>2. log'[t][n].total = b /\ b \in Nat /\ b > 0
          BY <3>2
        <4>3. d = IF log'[t][n + 1].total < log'[t][n].total THEN 0
                  ELSE log'[t][n + 1].total - log'[t][n].total
          BY <3>3
        <4> HIDE DEF d, b
        <4>4. counter[t] \in Nat
          BY <1>3
        <4> QED BY <4>1, <4>2, <4>3, <4>4
      <3> HIDE DEF d, b
      <3>5. CASE counter[t] = b
        <4>1. d = 1
          BY <1>3, <3>4, <3>5
        <4> QED BY <4>1 DEF d
      <3>6. CASE t \in restarted /\ counter[t] = 0
        <4>1. d \in 0..1
          BY <3>4, <3>6
        <4> QED BY <3>6, <4>1 DEF d
      <3>7. counter[t] = b \/ (t \in restarted /\ counter[t] = 0)
        BY <1>6, <3>1 DEF b
      <3> QED BY <3>5, <3>6, <3>7
    <2> QED BY <2>1, <2>2
  <1>8. Usage!CounterShape'
    <2>1. counter'[t] = r.total /\ \A u \in Threads : u # t => counter'[u] = counter[u]
      BY <1>1, <1>2, <1>4
    <2>2. log'[t] # <<>> /\ counter'[t] = log'[t][Len(log'[t])].total
      BY <1>3, <1>5, <2>1
    <2>3. ASSUME NEW u \in Threads, u # t
          PROVE  \/ u \in restarted' /\ counter'[u] = 0
                 \/ log'[u] = <<>> /\ counter'[u] = inherited'[u]
                 \/ log'[u] # <<>> /\ counter'[u] = log'[u][Len(log'[u])].total
      BY <1>1, <1>2, <1>5, <2>1, <2>3 DEF Usage!CounterShape
    <2> QED BY <2>2, <2>3 DEF Usage!CounterShape
  <1>9. counter' \in [Threads -> Nat] /\ r.total > 0
    BY <1>1, <1>2, <1>3, <1>4
  <1> QED BY <1>1, <1>4, <1>7, <1>8, <1>9, ReportStep

(* A report that is repeated.                                              *)
LEMMA RepeatsStep ==
  ASSUME UsageAssumption, Usage!IInv, NEW t \in Threads, Usage!Repeats(t)
  PROVE  Usage!IInv'
  <1> DEFINE n == Len(log[t])
  <1> DEFINE plain == [log[t][n] EXCEPT !.spent = 0, !.recent = recent]
  <1>0. PICK id \in Threads : log' = [log EXCEPT ![t] = Append(@, [plain EXCEPT !.id = id])]
    BY DEF Usage!Repeats, Usage!Writes
  <1> DEFINE r == [plain EXCEPT !.id = id]
  <1>1. /\ log[t] # <<>>
        /\ Usage!Written < MaxReports /\ log' = [log EXCEPT ![t] = Append(@, r)]
        /\ UNCHANGED <<counter, inherited, restarted, copied, archived, recent,
                       step, files, read, counted>>
    BY <1>0 DEF Usage!Repeats, Usage!Writes, Usage!command
  <1>2. /\ counter \in [Threads -> Nat] /\ recent \in BOOLEAN /\ Usage!CounterShape
        /\ Usage!ReportShape
    BY DEF Usage!IInv, Usage!TypeOK
  <1>3. /\ n \in Nat /\ DOMAIN log[t] = 1..n /\ log[t] \in Seq(Usage!Reports) /\ n # 0
        /\ \A i \in 1..n : log[t][i] \in Usage!Reports /\ log[t][i].total \in Nat
    <2>1. /\ n \in Nat /\ DOMAIN log[t] = 1..n /\ log[t] \in Seq(Usage!Reports)
          /\ \A i \in 1..n : log[t][i] \in Usage!Reports /\ log[t][i].total \in Nat
      BY UsageFacts
    <2> QED BY <1>1, <2>1
  <1>4. n \in 1..n /\ n + 1 # 1 /\ (n + 1) - 1 = n
    BY <1>3
  <1>5. r \in Usage!Reports /\ r.total = log[t][n].total /\ r.spent = 0 /\ r.total \in Nat
    <2>1. log[t][n] \in Usage!Reports
      BY <1>3, <1>4
    <2> QED BY <1>2, <1>3, <1>4, <2>1 DEF Usage!Reports
  <1> HIDE DEF r
  <1>6. /\ Len(log'[t]) = n + 1 /\ log'[t][n + 1] = r
        /\ \A i \in 1..n : log'[t][i] = log[t][i]
        /\ \A u \in Threads : u # t => log'[u] = log[u]
    BY <1>1, <1>5, OneMoreReport DEF UsageAssumption
  <1>7. Usage!Delta(log'[t], n + 1) = 0
    BY <1>4, <1>5, <1>6 DEF Usage!Delta
  <1>8. Usage!CounterShape'
    <2>1. \/ t \in restarted /\ counter[t] = 0
          \/ counter[t] = log[t][n].total
      BY <1>1, <1>2 DEF Usage!CounterShape
    <2>2. log'[t] # <<>> /\ log'[t][Len(log'[t])].total = log[t][n].total
      BY <1>3, <1>5, <1>6
    <2>3. ASSUME NEW u \in Threads, u # t
          PROVE  \/ u \in restarted' /\ counter'[u] = 0
                 \/ log'[u] = <<>> /\ counter'[u] = inherited'[u]
                 \/ log'[u] # <<>> /\ counter'[u] = log'[u][Len(log'[u])].total
      BY <1>1, <1>2, <1>6, <2>3 DEF Usage!CounterShape
    <2> QED BY <1>1, <2>1, <2>2, <2>3 DEF Usage!CounterShape
  <1>9. r.total > 0
    BY <1>2, <1>3, <1>4, <1>5 DEF Usage!ReportShape
  <1>10. 0 \in 0..r.spent /\ 0 = r.spent
    BY <1>5
  <1> QED BY <1>1, <1>2, <1>5, <1>7, <1>8, <1>9, <1>10, ReportStep

(* Steps that leave reports, and what was counted, alone.                  *)
LEMMA ReportsStay ==
  ASSUME Usage!IInv, UNCHANGED <<log, inherited, read, counted>>, restarted \subseteq restarted'
  PROVE  /\ Usage!ReportShape' /\ Usage!NeverOvercounted' /\ Usage!ReadIsCounted'
         /\ Usage!IsFiniteSet(Usage!Recorded)' /\ Usage!Written' = Usage!Written
  <1>0. Usage!ReportShape /\ Usage!NeverOvercounted /\ Usage!ReadIsCounted
        /\ Usage!IsFiniteSet(Usage!Recorded)
    BY DEF Usage!IInv
  <1>2. Usage!Recorded' = Usage!Recorded
    BY DEF Usage!Recorded
  <1>3. Usage!IsFiniteSet(Usage!Recorded)' /\ Usage!Written' = Usage!Written
    BY <1>0, <1>2 DEF Usage!Written, Usage!IsFiniteSet, Usage!Cardinality
  <1>4. Usage!ReportShape'
    BY <1>0 DEF Usage!ReportShape, Usage!Delta, Usage!Plain
  <1>5. Usage!NeverOvercounted' /\ Usage!ReadIsCounted'
    BY <1>0, OwedStays
  <1> QED BY <1>3, <1>4, <1>5

(* A thread restarts or is archived, time passes, or the report is made.   *)
LEMMA QuietStep ==
  ASSUME Usage!IInv,
         \/ \E t \in Threads : Usage!Restarts(t) \/ Usage!Archives(t)
         \/ Usage!TimePasses \/ Usage!Report
  PROVE  Usage!IInv'
  <1>0. Usage!TypeOK /\ Usage!CounterShape /\ Usage!FileShape
    BY DEF Usage!IInv
  <1>1. /\ UNCHANGED <<log, inherited, read, counted, files>>
        /\ restarted \subseteq restarted' /\ restarted' \subseteq Threads
        /\ step' = step \/ (step' = "done" /\ files = {} /\ step = "read")
    BY <1>0 DEF Usage!Restarts, Usage!Archives, Usage!TimePasses, Usage!Report, Usage!command,
                Usage!TypeOK
  <1>2. /\ Usage!ReportShape' /\ Usage!NeverOvercounted' /\ Usage!ReadIsCounted'
        /\ Usage!IsFiniteSet(Usage!Recorded)' /\ Usage!Written' = Usage!Written
    BY <1>1, ReportsStay
  <1>3. counter' \in [Threads -> Nat] /\ Usage!CounterShape'
    <2>1. ASSUME NEW t \in Threads, Usage!Restarts(t)
          PROVE  counter' \in [Threads -> Nat] /\ Usage!CounterShape'
      <3>1. counter' = [counter EXCEPT ![t] = 0] /\ restarted' = restarted \union {t}
            /\ UNCHANGED <<log, inherited>>
        BY <2>1 DEF Usage!Restarts
      <3>2. counter \in [Threads -> Nat]
        BY <1>0 DEF Usage!TypeOK
      <3> QED BY <1>0, <3>1, <3>2 DEF Usage!CounterShape
    <2>2. CASE (\E t \in Threads : Usage!Archives(t)) \/ Usage!TimePasses \/ Usage!Report
      <3>1. UNCHANGED <<counter, restarted, log, inherited>>
        BY <2>2 DEF Usage!Archives, Usage!TimePasses, Usage!Report, Usage!command
      <3> QED BY <1>0, <3>1 DEF Usage!CounterShape, Usage!TypeOK
    <2> QED BY <2>1, <2>2
  <1>4. /\ archived' \subseteq Threads /\ recent' \in BOOLEAN
        /\ copied' \in [Threads -> Nat] /\ \A u \in Threads : copied'[u] <= Len(log[u])
    <2>1. ASSUME NEW t \in Threads, Usage!Archives(t)
          PROVE  /\ archived' \subseteq Threads /\ recent' \in BOOLEAN
                 /\ copied' \in [Threads -> Nat] /\ \A u \in Threads : copied'[u] <= Len(log[u])
      <3>1. PICK copy \in {0, Len(log[t])} : copied' = [copied EXCEPT ![t] = copy]
        BY <2>1 DEF Usage!Archives
      <3>2. archived' = archived \union {t} /\ recent' = recent
        BY <2>1 DEF Usage!Archives
      <3>3. /\ copied \in [Threads -> Nat] /\ archived \subseteq Threads /\ recent \in BOOLEAN
            /\ \A u \in Threads : copied[u] <= Len(log[u])
        BY <1>0 DEF Usage!TypeOK
      <3>4. Len(log[t]) \in Nat
        BY UsageFacts
      <3>5. copy \in Nat /\ copy <= Len(log[t])
        BY <3>4
      <3> QED BY <3>1, <3>2, <3>3, <3>5
    <2>2. CASE (\E t \in Threads : Usage!Restarts(t)) \/ Usage!TimePasses \/ Usage!Report
      <3>1. UNCHANGED <<copied, archived>> /\ recent' \in {recent, TRUE}
        BY <2>2 DEF Usage!Restarts, Usage!TimePasses, Usage!Report, Usage!command
      <3> QED BY <1>0, <3>1 DEF Usage!TypeOK
    <2> QED BY <2>1, <2>2
  <1>5. Usage!TypeOK'
    BY <1>0, <1>1, <1>2, <1>3, <1>4 DEF Usage!TypeOK
  <1>6. Usage!FileShape'
    BY <1>0, <1>1 DEF Usage!FileShape
  <1> QED BY <1>2, <1>3, <1>5, <1>6 DEF Usage!IInv

(* The files to be read are chosen.                                        *)
LEMMA FindFilesStep ==
  ASSUME Usage!IInv, Usage!Find
  PROVE  Usage!IInv'
  <1>0. Usage!TypeOK /\ Usage!CounterShape /\ Usage!FileShape
    BY DEF Usage!IInv
  <1>1. /\ step = "find" /\ step' = "read" /\ files' = Usage!Candidates
        /\ UNCHANGED <<log, counter, inherited, restarted, copied, archived, recent, read, counted>>
    BY DEF Usage!Find
  <1>2. /\ Usage!ReportShape' /\ Usage!NeverOvercounted' /\ Usage!ReadIsCounted'
        /\ Usage!IsFiniteSet(Usage!Recorded)' /\ Usage!Written' = Usage!Written
    BY <1>1, ReportsStay
  <1>3. ASSUME NEW f \in Usage!Candidates
        PROVE  \E t \in Threads : f = Usage!FileOf(t) /\ log[t] # <<>>
    <2>1. PICK t \in Threads : f = Usage!FileOf(t) /\ Len(log[t]) > 0
      BY DEF Usage!Candidates, Usage!ModifiedRecently
    <2>2. log[t] # <<>>
      BY <2>1
    <2> QED BY <2>1, <2>2
  <1>4. \A t \in Threads : Usage!FileOf(t)[1] = t /\ Usage!FileOf(t) \in Threads \X Usage!Directories
    BY DEF Usage!FileOf, Usage!Directories
  <1>5. Usage!TypeOK'
    <2>1. files' \subseteq Threads \X Usage!Directories
      BY <1>1, <1>3, <1>4
    <2> QED BY <1>0, <1>1, <1>2, <2>1 DEF Usage!TypeOK, Usage!Directories
  <1>6. Usage!FileShape'
    <2>1. \A f, g \in files' : f[1] = g[1] => f = g
      BY <1>1, <1>3, <1>4
    <2>2. \A f \in files' : log'[f[1]] # <<>>
      BY <1>1, <1>3, <1>4
    <2>3. \A t \in Threads : read'[t] = 0
      BY <1>0, <1>1 DEF Usage!FileShape
    <2> QED BY <1>1, <2>1, <2>2, <2>3 DEF Usage!FileShape
  <1>7. Usage!CounterShape'
    BY <1>0, <1>1 DEF Usage!CounterShape
  <1> QED BY <1>2, <1>5, <1>6, <1>7 DEF Usage!IInv

\* What a thread used by its first reports, if they have this id.
SpentOn(t, k, size) ==
  [i \in 1..size |-> IF log[t][i].recent /\ log[t][i].id = k THEN log[t][i].spent ELSE 0]

(* What the first reports of a thread add up to, for each id.              *)
LEMMA ActivityIs ==
  ASSUME Usage!IInv, NEW t \in Threads, NEW k, NEW size \in Nat, size <= Len(log[t])
  PROVE  /\ Usage!Sum(SpentOn(t, k, size), size) \in Nat
         /\ Usage!Activity(SubSeq(log[t], 1, size), k) \in Nat
         /\ Usage!Activity(SubSeq(log[t], 1, size), k) <= Usage!Sum(SpentOn(t, k, size), size)
         /\ (Usage!Plain(t) \/ \A i \in 1..size : log[t][i].id # k) =>
              Usage!Activity(SubSeq(log[t], 1, size), k) = Usage!Sum(SpentOn(t, k, size), size)
  <1> DEFINE counts(i) == log[t][i].recent /\ log[t][i].id = k
  <1> DEFINE reports == SubSeq(log[t], 1, size)
  <1> DEFINE used == [i \in 1..size |-> IF counts(i) THEN log[t][i].spent ELSE 0]
  <1> DEFINE added == [i \in 1..size |-> IF counts(i) THEN Usage!Delta(log[t], i) ELSE 0]
  <1>1. /\ log[t] \in Seq(Usage!Reports) /\ Len(log[t]) \in Nat /\ DOMAIN log[t] = 1..Len(log[t])
        /\ \A i \in 1..Len(log[t]) : log[t][i].spent \in Nat /\ log[t][i].recent \in BOOLEAN
    BY UsageFacts
  <1>2. /\ reports = [i \in 1..size |-> log[t][i]]
    BY <1>1
  <1>3. Len(reports) = size /\ DOMAIN reports = 1..size /\ \A i \in 1..size : reports[i] = log[t][i]
    BY <1>2
  <1> HIDE DEF reports
  <1>4. \A i \in 1..size : Usage!Delta(reports, i) = Usage!Delta(log[t], i)
    <2> SUFFICES ASSUME NEW i \in 1..size PROVE Usage!Delta(reports, i) = Usage!Delta(log[t], i)
      OBVIOUS
    <2>1. i \in Nat \ {0} /\ reports[i] = log[t][i] /\ (i > 1 => reports[i - 1] = log[t][i - 1])
      BY <1>3
    <2> QED BY <2>1, DeltaOf
  <1>5. Usage!Activity(reports, k) = Usage!Sum(added, size)
    <2>1. [i \in DOMAIN reports |-> IF reports[i].recent /\ reports[i].id = k
                                 THEN Usage!Delta(reports, i) ELSE 0] = added
      BY <1>3, <1>4
    <2> HIDE DEF added
    <2> QED BY <1>3, <2>1 DEF Usage!Activity
  <1>6. \A i \in 1..size : /\ log[t][i].spent \in Nat /\ Usage!Delta(log[t], i) \in 0..log[t][i].spent
                           /\ Usage!Plain(t) => Usage!Delta(log[t], i) = log[t][i].spent
    <2>1. \A i \in 1..size : i \in 1..Len(log[t])
      BY <1>1
    <2> QED BY <1>1, <2>1 DEF Usage!IInv, Usage!ReportShape
  <1> HIDE DEF counts
  <1>7. /\ added \in [1..size -> Nat] /\ used \in [1..size -> Nat]
        /\ \A i \in 1..size : added[i] <= used[i]
    BY <1>6
  <1>8. Usage!Plain(t) \/ (\A i \in 1..size : log[t][i].id # k) => added = used
    <2>1. CASE Usage!Plain(t)
      BY <1>6, <2>1
    <2>2. CASE \A i \in 1..size : log[t][i].id # k
      <3>1. \A i \in 1..size : ~counts(i)
        BY <2>2 DEF counts
      <3>2. \A i \in 1..size : added[i] = 0 /\ used[i] = 0
        BY <3>1
      <3> QED BY <3>2
    <2> QED BY <2>1, <2>2
  <1> HIDE DEF added, used
  <1>9. /\ Usage!Sum(added, size) \in Nat /\ Usage!Sum(used, size) \in Nat
        /\ Usage!Sum(added, size) <= Usage!Sum(used, size)
    BY <1>7, SumsCompare
  <1>10. SpentOn(t, k, size) = used
    BY DEF SpentOn, used, counts
  <1> QED BY <1>5, <1>8, <1>9, <1>10 DEF reports

\* What was used is a number, and nothing before the file is read.
LEMMA SpentIs ==
  ASSUME Usage!IInv, NEW t \in Threads, NEW k
  PROVE  Usage!Spent(t, k) \in Nat /\ (read[t] = 0 => Usage!Spent(t, k) = 0)
  <1>1. read[t] \in Nat /\ read[t] <= Len(log[t])
    BY UsageFacts
  <1>2. Usage!Spent(t, k) \in Nat
    BY <1>1, ActivityIs DEF Usage!Spent, SpentOn
  <1>3. read[t] = 0 => Usage!Spent(t, k) = 0
    BY SumOfNone DEF Usage!Spent
  <1> QED BY <1>2, <1>3

(* A file is read.                                                         *)
LEMMA ReadRolloutStep ==
  ASSUME UsageAssumption, Usage!IInv, Usage!ReadFile
  PROVE  Usage!IInv'
  <1>0. Usage!TypeOK /\ Usage!CounterShape /\ Usage!FileShape /\ Usage!ReportShape
        /\ Usage!NeverOvercounted /\ Usage!ReadIsCounted /\ Usage!IsFiniteSet(Usage!Recorded)
    BY DEF Usage!IInv
  <1>1. step = "read" /\ UNCHANGED <<log, counter, inherited, restarted, copied, archived, recent>>
    BY DEF Usage!ReadFile
  <1>2. PICK f \in files, torn \in 0..1 :
          LET t == f[1]
              size == (IF f = Usage!FileOf(t) THEN Len(log[t]) ELSE copied[t]) - torn
          IN  /\ files' = files \ {f}
              /\ IF f = Usage!FileOf(t) \/ copied[t] > 0
                 THEN /\ read' = [read EXCEPT ![t] = size]
                      /\ counted' = [k \in Threads |->
                                      counted[k] + Usage!Activity(SubSeq(log[t], 1, size), k)]
                      /\ UNCHANGED step
                 ELSE step' = "failed" /\ UNCHANGED <<read, counted>>
    BY DEF Usage!ReadFile
  <1> DEFINE t == f[1]
  <1> DEFINE size == (IF f = Usage!FileOf(t) THEN Len(log[t]) ELSE copied[t]) - torn
  <1>3. t \in Threads /\ read[t] = 0 /\ log[t] # <<>>
    <2>1. t \in Threads
      BY <1>0 DEF Usage!TypeOK
    <2> QED BY <1>0, <2>1 DEF Usage!FileShape
  <1>4. files' = files \ {f}
    BY <1>2
  <1>5. CASE f = Usage!FileOf(t) \/ copied[t] > 0
    <2>1. /\ read' = [read EXCEPT ![t] = size]
          /\ counted' = [k \in Threads |-> counted[k] + Usage!Activity(SubSeq(log[t], 1, size), k)]
          /\ step' = step
      BY <1>2, <1>5
    <2>2. size \in Nat /\ size <= Len(log[t])
      <3>1. Len(log[t]) \in Nat /\ Len(log[t]) # 0 /\ copied[t] \in Nat /\ copied[t] <= Len(log[t])
        BY <1>3, UsageFacts
      <3> QED BY <1>5, <3>1
    <2> HIDE DEF size
    <2> DEFINE a(k) == Usage!Activity(SubSeq(log[t], 1, size), k)
    <2> DEFINE all(k) == Usage!Sum(SpentOn(t, k, size), size)
    <2>3. ASSUME NEW k
          PROVE  /\ all(k) \in Nat /\ a(k) \in Nat /\ a(k) <= all(k)
                 /\ Usage!Plain(t) \/ (\A i \in 1..size : log[t][i].id # k) => a(k) = all(k)
      BY <1>3, <2>2, ActivityIs
    <2>4. read \in [Threads -> Nat] /\ counted \in [Threads -> Nat]
      BY <1>0 DEF Usage!TypeOK
    <2>5. /\ read'[t] = size /\ \A u \in Threads : u # t => read'[u] = read[u]
          /\ \A k \in Threads : counted'[k] = counted[k] + a(k)
      BY <1>3, <2>1, <2>4
    <2> HIDE DEF a
    <2>6. ASSUME NEW k \in Threads
          PROVE  /\ Usage!Spent(t, k)' = all(k) /\ Usage!Spent(t, k) = 0
                 /\ \A u \in Threads : u # t => Usage!Spent(u, k)' = Usage!Spent(u, k)
                 /\ \A u \in Threads : Usage!Spent(u, k) \in Nat
      <3>1. Usage!Spent(t, k)' =
              Usage!Sum([i \in 1..read'[t] |-> IF log'[t][i].recent /\ log'[t][i].id = k
                                               THEN log'[t][i].spent ELSE 0], read'[t])
        BY DEF Usage!Spent, Usage!Sum
      <3>2. Usage!Spent(t, k)' = all(k)
        BY <1>1, <2>5, <3>1 DEF SpentOn
      <3>3. Usage!Spent(t, k) = 0
        BY <1>3, SpentIs
      <3>4. \A u \in Threads : u # t => Usage!Spent(u, k)' = Usage!Spent(u, k)
        BY <1>1, <2>5, SpentStays
      <3>5. \A u \in Threads : Usage!Spent(u, k) \in Nat
        BY SpentIs
      <3> QED BY <3>2, <3>3, <3>4, <3>5
    <2> HIDE DEF all
    <2>7. ASSUME NEW k \in Threads
          PROVE  Usage!Owed(k) \in Nat /\ Usage!Owed(k)' = Usage!Owed(k) + all(k)
      <3> DEFINE before == [u \in Threads |-> Usage!Spent(u, k)]
      <3> DEFINE after == [u \in Threads |-> Usage!Spent(u, k)']
      <3>1. /\ Usage!Owed(k) = Usage!SumFunctionOnSet(before, Threads)
            /\ Usage!Owed(k)' = Usage!SumFunctionOnSet(after, Threads)
        BY DEF Usage!Owed, Usage!SumFunctionOnSet, Usage!FoldFunctionOnSet, Usage!MapThenFoldSet
      <3>2. /\ before \in [Threads -> Nat] /\ before[t] = 0
            /\ after \in [Threads -> Nat] /\ after[t] = all(k)
            /\ \A u \in Threads : u # t => after[u] = before[u]
        <4>1. \A u \in Threads : Usage!Spent(u, k)' \in Nat
          BY <2>3, <2>6
        <4> QED BY <1>3, <2>6, <4>1
      <3> HIDE DEF before, after
      <3> QED BY <1>3, <3>1, <3>2, OneMoreValue, UsageAssumption DEF UsageAssumption
    <2>8. Usage!NeverOvercounted' /\ Usage!ReadIsCounted'
      <3>1. ASSUME NEW k \in Threads PROVE counted'[k] <= Usage!Owed(k)'
        <4>1. counted[k] \in Nat /\ counted[k] <= Usage!Owed(k)
          BY <1>0, <2>4 DEF Usage!NeverOvercounted
        <4>2. a(k) \in Nat /\ all(k) \in Nat /\ a(k) <= all(k) /\ Usage!Owed(k) \in Nat
          BY <2>3, <2>7
        <4> QED BY <2>5, <2>7, <4>1, <4>2
      <3>2. ASSUME NEW k \in Threads, \A u \in Usage!Reporting(k)' : Usage!Plain(u)'
            PROVE  counted'[k] = Usage!Owed(k)'
        <4>1. \A u \in Threads : Usage!Plain(u)' <=> Usage!Plain(u)
          BY <1>1 DEF Usage!Plain
        <4>2. ASSUME NEW u \in Usage!Reporting(k) PROVE u \in Usage!Reporting(k)' /\ u \in Threads
          <5>1. u \in Threads /\ \E i \in 1..read[u] : log[u][i].id = k
            BY DEF Usage!Reporting
          <5>2. u # t
            BY <1>3, <5>1
          <5> QED BY <1>1, <2>5, <5>1, <5>2 DEF Usage!Reporting
        <4>3. counted[k] = Usage!Owed(k)
          BY <1>0, <3>2, <4>1, <4>2 DEF Usage!ReadIsCounted
        <4>4. Usage!Plain(t) \/ (\A i \in 1..size : log[t][i].id # k)
          <5>1. CASE t \in Usage!Reporting(k)'
            BY <1>3, <3>2, <4>1, <5>1
          <5>2. CASE t \notin Usage!Reporting(k)'
            BY <1>1, <1>3, <2>5, <5>2 DEF Usage!Reporting
          <5> QED BY <5>1, <5>2
        <4>5. a(k) = all(k)
          BY <2>3, <4>4
        <4> QED BY <2>5, <2>7, <4>3, <4>5
      <3> QED BY <3>1, <3>2 DEF Usage!NeverOvercounted, Usage!ReadIsCounted
    <2>9. Usage!Recorded' = Usage!Recorded
      BY <1>1 DEF Usage!Recorded
    <2>10. Usage!IsFiniteSet(Usage!Recorded)' /\ Usage!Written' = Usage!Written
      BY <1>0, <2>9 DEF Usage!Written, Usage!IsFiniteSet, Usage!Cardinality
    <2>11. Usage!ReportShape'
      BY <1>0, <1>1 DEF Usage!ReportShape, Usage!Delta, Usage!Plain
    <2>12. Usage!TypeOK'
      <3>1. read' \in [Threads -> Nat] /\ counted' \in [Threads -> Nat]
        <4>1. \A u \in Threads : read'[u] \in Nat /\ counted'[u] \in Nat
          <5>1. \A u \in Threads : a(u) \in Nat
            BY <2>3
          <5> QED BY <2>2, <2>4, <2>5, <5>1
        <4>2. read' = [u \in Threads |-> read'[u]]
          BY <2>1, <2>4
        <4>3. counted' = [u \in Threads |-> counted'[u]]
          BY <2>1
        <4> QED BY <4>1, <4>2, <4>3
      <3>2. \A u \in Threads : read'[u] <= Len(log[u])
        BY <1>0, <2>2, <2>5 DEF Usage!TypeOK
      <3> QED BY <1>0, <1>1, <1>4, <2>1, <2>10, <3>1, <3>2 DEF Usage!TypeOK
    <2>13. Usage!FileShape'
      <3>1. \A u \in Threads : (\E g \in files' : g[1] = u) => read'[u] = 0
        <4> SUFFICES ASSUME NEW u \in Threads, NEW g \in files', g[1] = u
                     PROVE  read'[u] = 0
          OBVIOUS
        <4>1. g \in files /\ g # f
          BY <1>4
        <4>2. u # t /\ read[u] = 0
          BY <1>0, <4>1 DEF Usage!FileShape
        <4> QED BY <2>5, <4>2
      <3> QED BY <1>0, <1>1, <1>4, <2>1, <3>1 DEF Usage!FileShape
    <2>14. Usage!CounterShape'
      BY <1>0, <1>1 DEF Usage!CounterShape
    <2> QED BY <2>8, <2>10, <2>11, <2>12, <2>13, <2>14 DEF Usage!IInv
  <1>6. CASE ~(f = Usage!FileOf(t) \/ copied[t] > 0)
    <2>1. step' = "failed" /\ UNCHANGED <<read, counted>>
      BY <1>2, <1>6
    <2>2. /\ Usage!ReportShape' /\ Usage!NeverOvercounted' /\ Usage!ReadIsCounted'
          /\ Usage!IsFiniteSet(Usage!Recorded)' /\ Usage!Written' = Usage!Written
      BY <1>1, <2>1, ReportsStay
    <2>3. Usage!TypeOK'
      BY <1>0, <1>1, <1>4, <2>1, <2>2 DEF Usage!TypeOK
    <2>4. Usage!FileShape'
      BY <1>0, <1>1, <1>4, <2>1 DEF Usage!FileShape
    <2>5. Usage!CounterShape'
      BY <1>0, <1>1 DEF Usage!CounterShape
    <2> QED BY <2>2, <2>3, <2>4, <2>5 DEF Usage!IInv
  <1> QED BY <1>5, <1>6

(* Whatever step is taken, or if none is.                                  *)
LEMMA UsageNext ==
  ASSUME UsageAssumption, Usage!IInv, Usage!Next
  PROVE  Usage!IInv'
  <1>1. ASSUME NEW t \in Threads,
               Usage!Uses(t) \/ Usage!Repeats(t) \/ Usage!Restarts(t) \/ Usage!Archives(t)
        PROVE  Usage!IInv'
    BY <1>1, UsesStep, RepeatsStep, QuietStep
  <1> QED BY <1>1, QuietStep, FindFilesStep, ReadRolloutStep DEF Usage!Next

(* A step of another command.                                              *)
LEMMA UsageStays ==
  ASSUME Usage!IInv, UNCHANGED Usage!vars
  PROVE  Usage!IInv'
  <1>0. Usage!TypeOK /\ Usage!CounterShape /\ Usage!FileShape
    BY DEF Usage!IInv
  <1>1. UNCHANGED <<log, counter, inherited, restarted, copied, archived, recent, step, files,
                    read, counted>>
    BY DEF Usage!vars
  <1>2. /\ Usage!ReportShape' /\ Usage!NeverOvercounted' /\ Usage!ReadIsCounted'
        /\ Usage!IsFiniteSet(Usage!Recorded)' /\ Usage!Written' = Usage!Written
    BY <1>1, ReportsStay
  <1>3. Usage!TypeOK' /\ Usage!FileShape' /\ Usage!CounterShape'
    BY <1>0, <1>1, <1>2 DEF Usage!TypeOK, Usage!FileShape, Usage!CounterShape
  <1> QED BY <1>2, <1>3 DEF Usage!IInv

-----------------------------------------------------------------------------
(* Rate-limit history. *)

(* Windows are a whole length apart.                                       *)
LEMMA WindowsApart ==
  ASSUME NEW w \in Nat, NEW x \in Nat, NEW y \in Nat, x < y
  PROVE  (y + 1) * w >= (x + 1) * w + w
  <1>1. PICK k \in Nat : y = x + 1 + k
    <2>1. y - x - 1 \in Nat /\ y = x + 1 + (y - x - 1)
      OBVIOUS
    <2> QED BY <2>1
  <1>2. (y + 1) * w = (x + 1) * w + w + k * w
    BY <1>1
  <1>3. k * w \in Nat /\ (x + 1) * w \in Nat
    OBVIOUS
  <1> QED BY <1>2, <1>3

(* If both have a reset time a snapshot is newer just if the state it      *)
(* shows is later.                                                         *)
LEMMA NewerIsLater ==
  ASSUME LimitsAssumption, NEW a, NEW b,
         a.boundary \in Nat, b.boundary \in Nat, a.used \in Nat, b.used \in Nat,
         \E drift \in {0, Tolerance \div 2} : a.resets = (a.boundary + 1) * WindowLength + drift,
         \E drift \in {0, Tolerance \div 2} : b.resets = (b.boundary + 1) * WindowLength + drift
  PROVE  Limits!IsNewer(a, b) <=> Limits!Later(b, a)
  <1> DEFINE h == Tolerance \div 2
  <1> DEFINE x == (a.boundary + 1) * WindowLength
  <1> DEFINE y == (b.boundary + 1) * WindowLength
  <1>1. h \in Nat /\ h <= Tolerance /\ Tolerance \in Nat /\ WindowLength \in Nat
        /\ WindowLength > Tolerance + h
    BY DEF LimitsAssumption
  <1>2. x \in Nat /\ y \in Nat
    BY <1>1
  <1>3. /\ a.boundary < b.boundary => y >= x + WindowLength
        /\ b.boundary < a.boundary => x >= y + WindowLength
        /\ a.boundary = b.boundary => x = y
    BY <1>1, WindowsApart
  <1>4. PICK da \in {0, h} : a.resets = x + da
    OBVIOUS
  <1>5. PICK db \in {0, h} : b.resets = y + db
    OBVIOUS
  <1> HIDE DEF h, x, y
  <1>6. /\ da \in Nat /\ da <= h /\ db \in Nat /\ db <= h
        /\ a.resets \in Nat /\ b.resets \in Nat
    BY <1>1, <1>2, <1>4, <1>5
  <1>7. Limits!IsNewer(a, b) <=>
          \/ b.resets > a.resets + Tolerance
          \/ ~(b.resets < a.resets - Tolerance) /\ b.used > a.used
    <2>1. a.resets # Limits!None /\ b.resets # Limits!None
      BY <1>6 DEF Limits!None
    <2> QED BY <2>1 DEF Limits!IsNewer
  <1>8. Limits!Later(b, a) <=>
          b.boundary > a.boundary \/ (b.boundary = a.boundary /\ b.used > a.used)
    BY DEF Limits!Later
  <1>9. CASE a.boundary < b.boundary
    <2>1. b.resets > a.resets + Tolerance
      BY <1>1, <1>2, <1>3, <1>4, <1>5, <1>6, <1>9
    <2> QED BY <1>7, <1>8, <1>9, <2>1
  <1>10. CASE b.boundary < a.boundary
    <2>1. ~(b.resets > a.resets + Tolerance) /\ b.resets < a.resets - Tolerance
      BY <1>1, <1>2, <1>3, <1>4, <1>5, <1>6, <1>10
    <2>2. ~(b.boundary > a.boundary) /\ b.boundary # a.boundary
      BY <1>10
    <2> QED BY <1>7, <1>8, <2>1, <2>2
  <1>11. CASE a.boundary = b.boundary
    <2>1. ~(b.resets > a.resets + Tolerance) /\ ~(b.resets < a.resets - Tolerance)
      BY <1>1, <1>2, <1>3, <1>4, <1>5, <1>6, <1>11
    <2>2. ~(b.boundary > a.boundary)
      BY <1>11
    <2> QED BY <1>7, <1>8, <1>11, <2>1, <2>2
  <1> QED BY <1>9, <1>10, <1>11

(* There is a function of the newest row at every time.                    *)
LEMMA CurrentExists ==
  ASSUME NEW n \in Nat, NEW rows
  PROVE  \E c : c = [t \in 0..n |->
                        IF t = 0 THEN Limits!NoRow ELSE Limits!Replaced(rows, c[t - 1], t)]
  <1> DEFINE Is(m, c) ==
        c = [t \in 0..m |-> IF t = 0 THEN Limits!NoRow ELSE Limits!Replaced(rows, c[t - 1], t)]
  <1> DEFINE Bad == {m \in 1..n : ~\E c : Is(m, c)}
  <1>1. \E c : Is(0, c)
    <2> DEFINE c == [t \in 0..0 |-> Limits!NoRow]
    <2>1. c = [t \in 0..0 |-> IF t = 0 THEN Limits!NoRow ELSE Limits!Replaced(rows, c[t - 1], t)]
      OBVIOUS
    <2> HIDE DEF c
    <2> QED BY <2>1
  <1>2. ASSUME NEW m \in 1..n, NEW b, Is(m - 1, b)
        PROVE  \E c : Is(m, c)
    <2> DEFINE c == [t \in 0..m |-> IF t = m THEN Limits!Replaced(rows, b[m - 1], m) ELSE b[t]]
    <2>1. ASSUME NEW t \in 0..m
          PROVE  c[t] = IF t = 0 THEN Limits!NoRow ELSE Limits!Replaced(rows, c[t - 1], t)
      <3>1. CASE t = m
        BY <3>1
      <3>2. CASE t # m
        <4>1. t \in 0..(m - 1) /\ c[t] = b[t] /\ (t # 0 => c[t - 1] = b[t - 1])
          BY <3>2
        <4>2. b[t] = IF t = 0 THEN Limits!NoRow ELSE Limits!Replaced(rows, b[t - 1], t)
          BY <1>2, <4>1
        <4> QED BY <4>1, <4>2
      <3> QED BY <3>1, <3>2
    <2>2. c = [t \in 0..m |-> IF t = 0 THEN Limits!NoRow ELSE Limits!Replaced(rows, c[t - 1], t)]
      <3>1. c = [t \in 0..m |-> c[t]]
        OBVIOUS
      <3> HIDE DEF c
      <3> QED BY <2>1, <3>1
    <2> HIDE DEF c
    <2> QED BY <2>2
  <1> HIDE DEF Is
  <1>3. Bad = {}
    <2> SUFFICES ASSUME Bad # {} PROVE FALSE
      OBVIOUS
    <2>1. PICK m \in Bad : \A k \in Bad : m <= k
      BY HasFirst
    <2>2. m \in 1..n /\ ~\E c : Is(m, c)
      OBVIOUS
    <2>3. \E c : Is(m - 1, c)
      <3>1. CASE m = 1
        BY <1>1, <3>1
      <3>2. CASE m # 1
        <4>1. m - 1 \in 1..n /\ ~(m <= m - 1)
          BY <2>2, <3>2
        <4> QED BY <2>1, <4>1
      <3> QED BY <3>1, <3>2
    <2> QED BY <1>2, <2>2, <2>3
  <1>4. \E c : Is(n, c)
    BY <1>1, <1>3
  <1> QED BY <1>4 DEF Is

(* Rows that were written at different times, and are later just if they   *)
(* are newer: what is kept of them grows later, and misses none that is.   *)
LEMMA ReducedRows ==
  ASSUME Limits!Written \in Nat, NEW rows,
         \A r \in rows : r.at \in 1..Limits!Written /\ r.boundary \in Nat /\ r.used \in Nat,
         \A r, s \in rows : r.at = s.at => r = s,
         \A r, s \in rows : Limits!IsNewer(r, s) <=> Limits!Later(s, r)
  PROVE  LET kept == Limits!Reduced(rows)
         IN  /\ kept \subseteq rows
             /\ \A a, b \in kept : a.at < b.at => Limits!Later(b, a)
             /\ \A r \in rows : (\A s \in rows : s.at < r.at => Limits!Later(r, s)) => r \in kept
  <1> DEFINE n == Limits!Written
  <1> DEFINE kept == Limits!Reduced(rows)
  <1> DEFINE Newer(x, t) == Limits!Newer(rows, x, t)
  <1> DEFINE After(x, t) == Limits!Replaced(rows, x, t)
  <1> DEFINE c == CHOOSE d : d = [t \in 0..n |-> IF t = 0 THEN Limits!NoRow ELSE After(d[t - 1], t)]
  <1>1. c = [t \in 0..n |-> IF t = 0 THEN Limits!NoRow ELSE After(c[t - 1], t)]
    <2>1. \E d : d = [t \in 0..n |-> IF t = 0 THEN Limits!NoRow ELSE After(d[t - 1], t)]
      BY CurrentExists, ZenonT(30)
    <2> QED BY <2>1
  <1>2. kept = {c[t] : t \in 1..n} \ {Limits!NoRow}
    BY DEF Limits!Reduced
  <1> HIDE DEF c, kept, n
  <1>3. c[0] = Limits!NoRow /\ \A t \in 1..n : c[t] = After(c[t - 1], t)
    <2>1. n \in Nat
      BY DEF n
    <2> HIDE DEF After
    <2> QED BY <1>1, <2>1
  <1>4. \A r \in rows : r.at \in 1..n /\ r.at \in Nat /\ r # Limits!NoRow
    BY DEF n, Limits!NoRow
  <1>5. n \in Nat
    BY DEF n
  (* One step more. *)
  <1> DEFINE Step(t) == \/ c[t] = c[t - 1] /\ Newer(c[t - 1], t) = {}
                        \/ c[t] \in rows /\ c[t].at = t /\ Newer(c[t - 1], t) = {c[t]}
                           /\ (c[t - 1] = Limits!NoRow \/ Limits!IsNewer(c[t - 1], c[t]))
  <1>6. ASSUME NEW t \in 1..n PROVE Step(t)
    <2>1. CASE Newer(c[t - 1], t) = {}
      BY <1>3, <2>1 DEF Limits!Replaced
    <2>2. CASE Newer(c[t - 1], t) # {}
      <3>1. c[t] \in Newer(c[t - 1], t)
        <4>1. c[t] = CHOOSE r \in Newer(c[t - 1], t) : TRUE
          BY <1>3, <2>2 DEF Limits!Replaced
        <4> HIDE DEF Newer
        <4> QED BY <2>2, <4>1
      <3>2. \A r \in Newer(c[t - 1], t) : r = c[t]
        BY <3>1 DEF Limits!Newer
      <3>3. Newer(c[t - 1], t) = {c[t]}
        <4> HIDE DEF Newer
        <4> QED BY <3>1, <3>2
      <3>4. /\ c[t] \in rows /\ c[t].at = t
            /\ c[t - 1] = Limits!NoRow \/ Limits!IsNewer(c[t - 1], c[t])
        BY <3>1 DEF Limits!Newer
      <3> QED BY <3>3, <3>4
    <2> QED BY <2>1, <2>2
  (* The current row is one of those written so far. *)
  <1> DEFINE Early(t) == c[t] = Limits!NoRow \/ (c[t] \in rows /\ c[t].at <= t)
  <1> DEFINE Bad == {t \in 1..n : ~Early(t)}
  <1>7. \A t \in 0..n : Early(t)
    <2>1. ASSUME NEW t \in 1..n, Early(t - 1) PROVE Early(t)
      <3>1. CASE c[t] = c[t - 1]
        BY <1>4, <2>1, <3>1
      <3>2. CASE c[t] \in rows /\ c[t].at = t
        BY <3>2
      <3> QED BY <1>6, <3>1, <3>2
    <2>2. Early(0)
      BY <1>3
    <2> HIDE DEF Early
    <2>3. Bad = {}
      <3> SUFFICES ASSUME Bad # {} PROVE FALSE
        OBVIOUS
      <3>1. PICK m \in Bad : \A k \in Bad : m <= k
        BY <1>5, HasFirst
      <3>2. m \in 1..n /\ ~Early(m)
        OBVIOUS
      <3>3. Early(m - 1)
        <4>1. CASE m = 1
          BY <2>2, <4>1
        <4>2. CASE m # 1
          <5>1. m - 1 \in 1..n /\ ~(m <= m - 1)
            BY <1>5, <3>2, <4>2
          <5> QED BY <3>1, <5>1
        <4> QED BY <4>1, <4>2
      <3> QED BY <2>1, <3>2, <3>3
    <2> QED BY <1>5, <2>2, <2>3
  (* And it only grows later. *)
  <1> DEFINE Grows(s, t) == c[s] # Limits!NoRow =>
                              /\ c[t] # Limits!NoRow
                              /\ \/ c[t] = c[s]
                                 \/ Limits!Later(c[t], c[s]) /\ c[s].at < c[t].at
  <1>8. ASSUME NEW s \in 0..n, NEW t \in 0..n, s <= t PROVE Grows(s, t)
    <2> DEFINE Worse == {u \in 1..n : s <= u /\ ~Grows(s, u)}
    <2>1. Grows(s, s)
      OBVIOUS
    <2>2. ASSUME NEW u \in 1..n, s <= u - 1, Grows(s, u - 1) PROVE Grows(s, u)
      <3> SUFFICES ASSUME c[s] # Limits!NoRow
                   PROVE  /\ c[u] # Limits!NoRow
                          /\ \/ c[u] = c[s]
                             \/ Limits!Later(c[u], c[s]) /\ c[s].at < c[u].at
        OBVIOUS
      <3>1. c[u - 1] # Limits!NoRow
            /\ (c[u - 1] = c[s] \/ (Limits!Later(c[u - 1], c[s]) /\ c[s].at < c[u - 1].at))
        BY <2>2
      <3>2. CASE c[u] = c[u - 1]
        BY <3>1, <3>2
      <3>3. CASE /\ c[u] \in rows /\ c[u].at = u
                 /\ c[u - 1] = Limits!NoRow \/ Limits!IsNewer(c[u - 1], c[u])
        <4>1. u - 1 \in 0..n /\ u \in Nat
          BY <1>5
        <4>2. c[u - 1] \in rows /\ c[u - 1].at <= u - 1 /\ c[s] \in rows
          BY <1>7, <3>1, <4>1
        <4>3. Limits!Later(c[u], c[u - 1])
          BY <3>1, <3>3, <4>2
        <4>4. c[u - 1].at < c[u].at /\ c[u - 1].at \in Nat /\ c[s].at \in Nat /\ c[u].at \in Nat
          BY <1>4, <3>3, <4>1, <4>2
        <4>5. CASE c[u - 1] = c[s]
          BY <1>4, <3>3, <4>3, <4>4, <4>5
        <4>6. CASE Limits!Later(c[u - 1], c[s]) /\ c[s].at < c[u - 1].at
          <5>1. Limits!Later(c[u], c[s])
            <6>1. /\ c[u].boundary \in Nat /\ c[u].used \in Nat /\ c[s].boundary \in Nat
                  /\ c[s].used \in Nat /\ c[u - 1].boundary \in Nat /\ c[u - 1].used \in Nat
              BY <3>3, <4>2
            <6> QED BY <4>3, <4>6, <6>1 DEF Limits!Later
          <5>2. c[s].at < c[u].at
            BY <4>4, <4>6
          <5> QED BY <1>4, <3>3, <5>1, <5>2
        <4> QED BY <3>1, <4>5, <4>6
      <3> QED BY <1>6, <3>2, <3>3
    <2> HIDE DEF Grows
    <2>3. Worse = {}
      <3> SUFFICES ASSUME Worse # {} PROVE FALSE
        OBVIOUS
      <3>1. PICK m \in Worse : \A k \in Worse : m <= k
        BY <1>5, HasFirst
      <3>2. m \in 1..n /\ s <= m /\ ~Grows(s, m)
        OBVIOUS
      <3>3. s # m
        BY <2>1, <3>2
      <3>4. s <= m - 1 /\ m - 1 \in Nat /\ ~(m <= m - 1)
        BY <1>5, <3>2, <3>3
      <3>5. Grows(s, m - 1)
        <4>1. CASE s = m - 1
          BY <2>1, <4>1
        <4>2. CASE s # m - 1
          <5>1. m - 1 \in 1..n
            BY <1>5, <3>2, <3>4, <4>2
          <5> QED BY <3>1, <3>4, <5>1
        <4> QED BY <4>1, <4>2
      <3> QED BY <2>2, <3>2, <3>4, <3>5
    <2>4. CASE t = s
      BY <2>1, <2>4
    <2>5. CASE t # s
      <3>1. t \in 1..n
        BY <1>5, <1>8, <2>5
      <3> QED BY <1>8, <2>3, <3>1
    <2> QED BY <2>4, <2>5
  <1> HIDE DEF Newer, After
  <1>9. kept \subseteq rows
    BY <1>2, <1>5, <1>7
  <1>10. ASSUME NEW a \in kept, NEW b \in kept, a.at < b.at PROVE Limits!Later(b, a)
    <2>1. PICK s \in 1..n : a = c[s] /\ a # Limits!NoRow
      BY <1>2
    <2>2. PICK t \in 1..n : b = c[t] /\ b # Limits!NoRow
      BY <1>2
    <2>3. a.at \in Nat /\ b.at \in Nat
      BY <1>4, <1>9
    <2>4. s \in 0..n /\ t \in 0..n /\ s \in Nat /\ t \in Nat
      BY <1>5
    <2>5. CASE s <= t
      <3>1. b = a \/ Limits!Later(b, a)
        BY <1>8, <2>1, <2>2, <2>4, <2>5
      <3>2. b # a
        BY <1>10, <2>3
      <3> QED BY <3>1, <3>2
    <2>6. CASE t <= s
      <3>1. a = b \/ b.at < a.at
        BY <1>8, <2>1, <2>2, <2>4, <2>6
      <3> QED BY <1>10, <2>3, <3>1
    <2> QED BY <2>4, <2>5, <2>6
  <1>11. ASSUME NEW r \in rows, \A s \in rows : s.at < r.at => Limits!Later(r, s)
         PROVE  r \in kept
    <2> DEFINE t == r.at
    <2>1. t \in 1..n /\ t - 1 \in 0..n /\ t \in Nat
      BY <1>4, <1>5
    <2>2. Early(t - 1)
      BY <1>7, <2>1
    <2>3. c[t - 1] = Limits!NoRow \/ Limits!IsNewer(c[t - 1], r)
      <3>1. CASE c[t - 1] = Limits!NoRow
        BY <3>1
      <3>2. CASE c[t - 1] \in rows /\ c[t - 1].at <= t - 1
        <4>1. c[t - 1].at < t
          BY <1>4, <2>1, <3>2
        <4> QED BY <1>11, <3>2, <4>1
      <3> QED BY <2>2, <3>1, <3>2
    <2>4. r \in Newer(c[t - 1], t)
      BY <2>3 DEF Newer, Limits!Newer
    <2>5. c[t] = r
      BY <1>6, <2>1, <2>4
    <2> QED BY <1>2, <1>4, <2>1, <2>5
  <1> QED BY <1>9, <1>10, <1>11 DEF kept

(* What the invariant says of the snapshots.                               *)
LEMMA LimitsFacts ==
  ASSUME Limits!IInv
  PROVE  /\ log \in [Threads -> Seq(Limits!Snapshots)]
         /\ \A t \in Threads :
              /\ log[t] \in Seq(Limits!Snapshots)
              /\ Len(log[t]) \in Nat /\ DOMAIN log[t] = 1..Len(log[t])
              /\ \A i \in 1..Len(log[t]) : log[t][i] \in Limits!Snapshots
         /\ Limits!Written = Cardinality(Usage!Recorded) /\ IsFiniteSet(Usage!Recorded)
         /\ Limits!Written \in Nat
  <1>1. log \in [Threads -> Seq(Limits!Snapshots)]
    BY DEF Limits!IInv, Limits!TypeOK
  <1>2. ASSUME NEW t \in Threads
        PROVE  /\ log[t] \in Seq(Limits!Snapshots)
               /\ Len(log[t]) \in Nat /\ DOMAIN log[t] = 1..Len(log[t])
               /\ \A i \in 1..Len(log[t]) : log[t][i] \in Limits!Snapshots
    <2>1. log[t] \in Seq(Limits!Snapshots)
      BY <1>1
    <2>2. Len(log[t]) \in Nat /\ DOMAIN log[t] = 1..Len(log[t])
      BY <2>1, LenProperties
    <2>3. \A i \in 1..Len(log[t]) : log[t][i] \in Limits!Snapshots
      BY <2>1, ElementOfSeq
    <2> QED BY <2>1, <2>2, <2>3
  <1>3. \A S : Limits!Cardinality(S) = Cardinality(S) /\ (Limits!IsFiniteSet(S) <=> IsFiniteSet(S))
    BY DEF Limits!Cardinality, Cardinality, Limits!IsFiniteSet, IsFiniteSet
  <1>4. Limits!Recorded = Usage!Recorded
    BY DEF Limits!Recorded, Usage!Recorded
  <1>5. IsFiniteSet(Usage!Recorded)
    BY <1>3, <1>4 DEF Limits!IInv
  <1>6. Limits!Written = Cardinality(Usage!Recorded)
    BY <1>3, <1>4 DEF Limits!Written
  <1> QED BY <1>1, <1>2, <1>5, <1>6, FS_CardinalityType

(* A thread writes a snapshot more.                                        *)
LEMMA OneMoreSnapshot ==
  ASSUME Limits!IInv, NEW t \in Threads, NEW r \in Limits!Snapshots,
         log' = [log EXCEPT ![t] = Append(@, r)]
  PROVE  /\ log' \in [Threads -> Seq(Limits!Snapshots)]
         /\ Len(log'[t]) = Len(log[t]) + 1 /\ log'[t][Len(log[t]) + 1] = r
         /\ DOMAIN log'[t] = 1..(Len(log[t]) + 1)
         /\ \A i \in 1..Len(log[t]) : log'[t][i] = log[t][i]
         /\ \A u \in Threads : u # t => log'[u] = log[u]
         /\ Limits!IsFiniteSet(Limits!Recorded)' /\ Limits!Written' = Limits!Written + 1
  <1>1. /\ log \in [Threads -> Seq(Limits!Snapshots)] /\ IsFiniteSet(Usage!Recorded)
        /\ Limits!Written = Cardinality(Usage!Recorded)
    BY LimitsFacts
  <1>2. /\ log' \in [Threads -> Seq(Limits!Snapshots)]
        /\ Len(log'[t]) = Len(log[t]) + 1 /\ log'[t][Len(log[t]) + 1] = r
        /\ DOMAIN log'[t] = 1..(Len(log[t]) + 1)
        /\ \A i \in 1..Len(log[t]) : log'[t][i] = log[t][i]
        /\ \A u \in Threads : u # t => log'[u] = log[u]
        /\ IsFiniteSet(Usage!Recorded')
        /\ Cardinality(Usage!Recorded') = Cardinality(Usage!Recorded) + 1
    BY <1>1, OneMoreEntry, ZenonT(30)
  <1>3. \A S : Limits!Cardinality(S) = Cardinality(S) /\ (Limits!IsFiniteSet(S) <=> IsFiniteSet(S))
    BY DEF Limits!Cardinality, Cardinality, Limits!IsFiniteSet, IsFiniteSet
  <1>4. Limits!Recorded' = Usage!Recorded'
    BY DEF Limits!Recorded, Usage!Recorded
  <1>5. Limits!IsFiniteSet(Limits!Recorded)'
    BY <1>2, <1>4 DEF Limits!IsFiniteSet, IsFiniteSet
  <1>6. Limits!Written' = Cardinality(Usage!Recorded')
    BY <1>3, <1>4 DEF Limits!Written
  <1> QED BY <1>1, <1>2, <1>5, <1>6

(* Steps that leave the snapshots alone.                                   *)
LEMMA SnapshotsStay ==
  ASSUME Limits!IInv, log' = log, account' # <<>>
  PROVE  /\ Limits!IsFiniteSet(Limits!Recorded)' /\ Limits!Written' = Limits!Written
         /\ Limits!SnapshotShape'
  <1>1. Limits!Recorded' = Limits!Recorded
    BY DEF Limits!Recorded
  <1>2. Limits!IsFiniteSet(Limits!Recorded)' /\ Limits!Written' = Limits!Written
    BY <1>1 DEF Limits!IInv, Limits!Written, Limits!IsFiniteSet, Limits!Cardinality
  <1>3. Limits!SnapshotShape'
    BY <1>2 DEF Limits!IInv, Limits!SnapshotShape
  <1> QED BY <1>2, <1>3

(* At first nothing is written.                                            *)
LEMMA LimitsBegins ==
  ASSUME LimitsAssumption, BoundsAssumption, Limits!Init
  PROVE  Limits!IInv
  <1>1. /\ account = <<[boundary |-> 0, used |-> 0]>> /\ log = [t \in Threads |-> <<>>]
        /\ files = Threads /\ candidates = {} /\ step = "read" /\ history = {}
    BY DEF Limits!Init
  <1>2. Limits!Recorded = {}
    BY <1>1 DEF Limits!Recorded
  <1>3. Limits!Written = 0 /\ Limits!IsFiniteSet(Limits!Recorded)
    <2>1. \A S : Limits!Cardinality(S) = Cardinality(S) /\ (Limits!IsFiniteSet(S) <=> IsFiniteSet(S))
      BY DEF Limits!Cardinality, Cardinality, Limits!IsFiniteSet, IsFiniteSet
    <2> QED BY <1>2, <2>1, FS_EmptySet DEF Limits!Written
  <1>4. Limits!TypeOK
    <2>1. log \in [Threads -> Seq(Limits!Snapshots)]
      <3>1. <<>> \in Seq(Limits!Snapshots)
        OBVIOUS
      <3> QED BY <1>1, <3>1
    <2>2. account \in Seq([boundary : 0..MaxResets, used : 0..MaxUsed])
      <3>1. [boundary |-> 0, used |-> 0] \in [boundary : 0..MaxResets, used : 0..MaxUsed]
        BY DEF LimitsAssumption, BoundsAssumption
      <3> QED BY <1>1, <3>1
    <2>3. 0 <= MaxSnapshots
      BY DEF LimitsAssumption
    <2> QED BY <1>1, <1>3, <2>1, <2>2, <2>3 DEF Limits!TypeOK
  <1>5. Limits!SnapshotShape
    BY <1>1 DEF Limits!SnapshotShape
  <1>6. Limits!RowShape /\ Limits!HistoryMonotone /\ Limits!NewStatesKept
    BY <1>1 DEF Limits!RowShape, Limits!HistoryMonotone, Limits!NewStatesKept
  <1> QED BY <1>3, <1>4, <1>5, <1>6 DEF Limits!IInv

(* The account is used, or its window begins anew.                         *)
LEMMA AccountStep ==
  ASSUME LimitsAssumption, BoundsAssumption, Limits!IInv, Limits!AccountChanges
  PROVE  Limits!IInv'
  <1> DEFINE States == [boundary : 0..MaxResets, used : 0..MaxUsed]
  <1> DEFINE now == account[Len(account)]
  <1>1. /\ UNCHANGED <<log, files, candidates, step, history>>
        /\ \/ now.used < MaxUsed /\ account' = Append(account, [now EXCEPT !.used = @ + 1])
           \/ /\ now.boundary < MaxResets
              /\ account' = Append(account, [boundary |-> now.boundary + 1, used |-> 0])
    BY DEF Limits!AccountChanges
  <1>2. account \in Seq(States) /\ account # <<>>
    BY DEF Limits!IInv, Limits!TypeOK, Limits!SnapshotShape
  <1>3. now \in States
    <2>1. Len(account) \in 1..Len(account)
      BY <1>2, LenProperties, EmptySeq
    <2> QED BY <1>2, <2>1, ElementOfSeq
  <1> HIDE DEF now
  <1>4. PICK state \in States : account' = Append(account, state)
    <2>1. CASE now.used < MaxUsed /\ account' = Append(account, [now EXCEPT !.used = @ + 1])
      <3>1. now.used + 1 \in 0..MaxUsed
        <4>1. now.used \in 0..MaxUsed
          BY <1>3
        <4> QED BY <2>1, <4>1 DEF BoundsAssumption
      <3>2. [now EXCEPT !.used = @ + 1] \in States
        BY <1>3, <3>1
      <3> QED BY <2>1, <3>2
    <2>2. CASE /\ now.boundary < MaxResets
               /\ account' = Append(account, [boundary |-> now.boundary + 1, used |-> 0])
      <3>1. [boundary |-> now.boundary + 1, used |-> 0] \in States
        BY <1>3, <2>2 DEF LimitsAssumption, BoundsAssumption
      <3> QED BY <2>2, <3>1
    <2> QED BY <1>1, <2>1, <2>2
  <1> HIDE DEF States
  <1>5. account' \in Seq(States) /\ account' # <<>>
    <2>1. account' \in Seq(States) /\ Len(account') = Len(account) + 1 /\ Len(account) \in Nat
      BY <1>2, <1>4, AppendProperties, LenProperties
    <2>2. Len(account') # 0
      BY <2>1
    <2> QED BY <2>1, <2>2
  <1>6. /\ Limits!IsFiniteSet(Limits!Recorded)' /\ Limits!Written' = Limits!Written
        /\ Limits!SnapshotShape'
    BY <1>1, <1>5, SnapshotsStay
  <1>7. Limits!TypeOK'
    BY <1>1, <1>5, <1>6 DEF Limits!IInv, Limits!TypeOK, States
  <1>8. Limits!RowShape' /\ Limits!HistoryMonotone' /\ Limits!NewStatesKept'
    BY <1>1 DEF Limits!IInv, Limits!RowShape, Limits!HistoryMonotone, Limits!NewStatesKept,
                Limits!Later
  <1> QED BY <1>6, <1>7, <1>8 DEF Limits!IInv

(* A thread writes a state of the account down, however old.               *)
LEMMA SnapshotStep ==
  ASSUME LimitsAssumption, Limits!IInv, NEW t \in Threads, Limits!Snapshot(t)
  PROVE  Limits!IInv'
  <1> DEFINE Drifts == {0, Tolerance \div 2}
  <1> DEFINE Reported(s, drift) == (s.boundary + 1) * WindowLength + drift
  <1>0. Limits!TypeOK /\ Limits!SnapshotShape /\ Limits!RowShape
        /\ Limits!HistoryMonotone /\ Limits!NewStatesKept
    BY DEF Limits!IInv
  <1>1. /\ t \in files /\ Limits!Written < MaxSnapshots
        /\ UNCHANGED <<account, files, candidates, step, history>>
    BY DEF Limits!Snapshot
  <1>2. PICK i \in DOMAIN account, drift \in Drifts :
          \E resets \in IF Missing THEN {Reported(account[i], drift), Limits!None}
                        ELSE {Reported(account[i], drift)} :
            log' = [log EXCEPT ![t] = Append(@, [boundary |-> account[i].boundary,
                                                 used |-> account[i].used,
                                                 resets |-> resets, at |-> Limits!Written + 1])]
    BY DEF Limits!Snapshot
  <1>3. PICK resets \in IF Missing THEN {Reported(account[i], drift), Limits!None}
                        ELSE {Reported(account[i], drift)} :
            log' = [log EXCEPT ![t] = Append(@, [boundary |-> account[i].boundary,
                                                 used |-> account[i].used,
                                                 resets |-> resets, at |-> Limits!Written + 1])]
    BY <1>2
  <1> DEFINE r == [boundary |-> account[i].boundary, used |-> account[i].used,
                   resets |-> resets, at |-> Limits!Written + 1]
  <1>4. account[i] \in [boundary : 0..MaxResets, used : 0..MaxUsed]
    <2>1. account \in Seq([boundary : 0..MaxResets, used : 0..MaxUsed])
      BY <1>0 DEF Limits!TypeOK
    <2> QED BY <2>1, ElementOfSeq, LenProperties
  <1>5. /\ r.at = Limits!Written + 1
        /\ ~Missing => \E d \in Drifts : r.resets = Reported(r, d)
    <2>1. ~Missing => resets = Reported(r, drift)
      BY <1>3
    <2> HIDE DEF Reported
    <2> QED BY <2>1
  <1>6. Limits!Written \in Nat /\ \A u \in Threads :
          /\ Len(log[u]) \in Nat /\ DOMAIN log[u] = 1..Len(log[u])
    BY LimitsFacts
  <1>7. resets \in Nat \union {Limits!None}
    <2>1. drift \in Nat /\ WindowLength \in Nat /\ account[i].boundary \in Nat
      <3>1. Tolerance \div 2 \in Nat
        BY DEF LimitsAssumption
      <3> QED BY <1>4, <3>1 DEF LimitsAssumption
    <2>2. (account[i].boundary + 1) * WindowLength \in Nat
      BY <2>1
    <2>3. Reported(account[i], drift) \in Nat
      BY <2>1, <2>2
    <2> HIDE DEF Reported
    <2> QED BY <1>3, <2>3
  <1>8. r \in Limits!Snapshots
    BY <1>4, <1>6, <1>7 DEF Limits!Snapshots
  <1>9. log' = [log EXCEPT ![t] = Append(@, r)]
    BY <1>3
  <1> HIDE DEF r
  <1>10. /\ log' \in [Threads -> Seq(Limits!Snapshots)]
         /\ Len(log'[t]) = Len(log[t]) + 1 /\ log'[t][Len(log[t]) + 1] = r
         /\ DOMAIN log'[t] = 1..(Len(log[t]) + 1)
         /\ \A j \in 1..Len(log[t]) : log'[t][j] = log[t][j]
         /\ \A u \in Threads : u # t => log'[u] = log[u]
         /\ Limits!IsFiniteSet(Limits!Recorded)' /\ Limits!Written' = Limits!Written + 1
    BY <1>8, <1>9, OneMoreSnapshot
  (* Every snapshot is the new one or one of those before. *)
  <1> DEFINE New(u, j) == u = t /\ j = Len(log[t]) + 1
  <1>11. ASSUME NEW u \in Threads, NEW j \in DOMAIN log'[u], ~New(u, j)
         PROVE  j \in DOMAIN log[u] /\ log'[u][j] = log[u][j]
    <2>1. CASE u = t
      <3>1. j \in 1..(Len(log[t]) + 1) /\ j # Len(log[t]) + 1 /\ Len(log[t]) \in Nat
        BY <1>6, <1>10, <1>11, <2>1
      <3>2. j \in 1..Len(log[t])
        BY <3>1
      <3> QED BY <1>6, <1>10, <2>1, <3>2
    <2>2. CASE u # t
      BY <1>10, <2>2
    <2> QED BY <2>1, <2>2
  <1>12. ASSUME NEW u \in Threads, NEW j \in DOMAIN log[u]
         PROVE  j \in DOMAIN log'[u] /\ log'[u][j] = log[u][j]
    <2>1. CASE u = t
      <3>1. j \in 1..Len(log[t]) /\ Len(log[t]) \in Nat
        BY <1>6, <2>1
      <3>2. j \in 1..(Len(log[t]) + 1)
        BY <3>1
      <3> QED BY <1>10, <2>1, <3>1, <3>2
    <2>2. CASE u # t
      BY <1>10, <2>2
    <2> QED BY <2>1, <2>2
  <1>13. Limits!TypeOK'
    <2>1. Limits!Written' <= MaxSnapshots
      BY <1>1, <1>6, <1>10 DEF LimitsAssumption
    <2> QED BY <1>0, <1>1, <1>10, <2>1 DEF Limits!TypeOK
  <1>14. Limits!SnapshotShape'
    <2>1. ASSUME NEW u \in Threads, NEW j \in DOMAIN log'[u]
          PROVE  log'[u][j].at \in 1..Limits!Written'
      <3>1. CASE New(u, j)
        BY <1>5, <1>6, <1>10, <3>1
      <3>2. CASE ~New(u, j)
        <4>1. j \in DOMAIN log[u] /\ log'[u][j] = log[u][j]
          BY <1>11, <3>2
        <4>2. log'[u][j].at \in 1..Limits!Written
          BY <1>0, <4>1 DEF Limits!SnapshotShape
        <4> QED BY <1>6, <1>10, <4>2
      <3> QED BY <3>1, <3>2
    <2>2. ASSUME NEW u \in Threads, NEW j \in DOMAIN log'[u], ~Missing
          PROVE  \E d \in Drifts : log'[u][j].resets = Reported(log'[u][j], d)
      <3>1. CASE New(u, j)
        <4> HIDE DEF Drifts, Reported
        <4> QED BY <1>5, <1>10, <2>2, <3>1
      <3>2. CASE ~New(u, j)
        <4>1. j \in DOMAIN log[u] /\ log'[u][j] = log[u][j]
          BY <1>11, <3>2
        <4>2. \E d \in Drifts : log[u][j].resets = Reported(log[u][j], d)
          BY <1>0, <2>2, <4>1 DEF Limits!SnapshotShape
        <4> HIDE DEF Drifts, Reported
        <4> QED BY <4>1, <4>2
      <3> QED BY <3>1, <3>2
    <2>3. ASSUME NEW u \in Threads, NEW v \in Threads, NEW j \in DOMAIN log'[u],
                 NEW k \in DOMAIN log'[v], log'[u][j].at = log'[v][k].at
          PROVE  u = v /\ j = k
      <3>1. \A w \in Threads : \A l \in DOMAIN log'[w] :
              ~New(w, l) => log'[w][l].at \in Nat /\ log'[w][l].at <= Limits!Written
        <4> SUFFICES ASSUME NEW w \in Threads, NEW l \in DOMAIN log'[w], ~New(w, l)
                     PROVE  log'[w][l].at \in Nat /\ log'[w][l].at <= Limits!Written
          OBVIOUS
        <4>1. l \in DOMAIN log[w] /\ log'[w][l] = log[w][l]
          BY <1>11
        <4>2. log'[w][l].at \in 1..Limits!Written
          BY <1>0, <4>1 DEF Limits!SnapshotShape
        <4> QED BY <1>6, <4>2
      <3>2. \A w \in Threads : \A l \in DOMAIN log'[w] :
              New(w, l) => log'[w][l].at = Limits!Written + 1
        BY <1>5, <1>10
      <3>3. CASE New(u, j) /\ New(v, k)
        BY <3>3
      <3>4. CASE New(u, j) /\ ~New(v, k)
        <4> HIDE DEF New
        <4>1. log'[u][j].at = Limits!Written + 1 /\ log'[v][k].at <= Limits!Written
          BY <3>1, <3>2, <3>4
        <4> QED BY <1>6, <2>3, <4>1
      <3>5. CASE ~New(u, j) /\ New(v, k)
        <4> HIDE DEF New
        <4>1. log'[v][k].at = Limits!Written + 1 /\ log'[u][j].at <= Limits!Written
          BY <3>1, <3>2, <3>5
        <4> QED BY <1>6, <2>3, <4>1
      <3>6. CASE ~New(u, j) /\ ~New(v, k)
        <4>1. /\ j \in DOMAIN log[u] /\ log'[u][j] = log[u][j]
              /\ k \in DOMAIN log[v] /\ log'[v][k] = log[v][k]
          BY <1>11, <3>6
        <4> QED BY <1>0, <2>3, <4>1 DEF Limits!SnapshotShape
      <3> QED BY <3>3, <3>4, <3>5, <3>6
    <2>4. account' # <<>>
      BY <1>0, <1>1 DEF Limits!SnapshotShape
    <2> QED BY <2>1, <2>2, <2>3, <2>4 DEF Limits!SnapshotShape
  <1>15. Limits!RowShape'
    <2>1. ASSUME NEW a \in candidates
          PROVE  \E u \in Threads : \E j \in DOMAIN log'[u] : a = log'[u][j]
      <3>1a. PICK u \in Threads : \E j \in DOMAIN log[u] : a = log[u][j]
        BY <1>0 DEF Limits!RowShape
      <3>1. PICK j \in DOMAIN log[u] : a = log[u][j]
        BY <3>1a
      <3> QED BY <1>12, <3>1
    <2> QED BY <1>0, <1>1, <2>1 DEF Limits!RowShape
  <1>16. Limits!HistoryMonotone' /\ Limits!NewStatesKept'
    BY <1>0, <1>1 DEF Limits!HistoryMonotone, Limits!NewStatesKept, Limits!Later
  <1> QED BY <1>10, <1>13, <1>14, <1>15, <1>16 DEF Limits!IInv

(* The rows of a file are snapshots of its thread.                         *)
LEMMA RowsOf ==
  ASSUME Limits!IInv, NEW t \in Threads, NEW torn \in 0..1
  PROVE  \A a \in Limits!Rows(SubSeq(log[t], 1, Len(log[t]) - torn)) :
           \E j \in DOMAIN log[t] : a = log[t][j]
  <1> DEFINE size == Len(log[t]) - torn
  <1> DEFINE s == SubSeq(log[t], 1, size)
  <1>1. Len(log[t]) \in Nat /\ DOMAIN log[t] = 1..Len(log[t])
        /\ log[t] \in Seq(Limits!Snapshots)
    BY LimitsFacts
  <1>2. \A j \in DOMAIN s : j \in DOMAIN log[t] /\ s[j] = log[t][j]
    <2>1. s = [j \in 1..size |-> log[t][j]]
      BY <1>1
    <2> QED BY <1>1, <2>1
  <1> HIDE DEF s
  <1>3. \A a \in Limits!Rows(s) : \E j \in DOMAIN s : a = s[j]
    BY DEF Limits!Rows
  <1>4. \A a \in Limits!Rows(s) : \E j \in DOMAIN log[t] : a = log[t][j]
    BY <1>2, <1>3
  <1> QED BY <1>4 DEF s

(* A file is read.                                                         *)
LEMMA ReadHistoryStep ==
  ASSUME Limits!IInv, Limits!ReadFile
  PROVE  Limits!IInv'
  <1>0. Limits!TypeOK /\ Limits!SnapshotShape /\ Limits!RowShape
    BY DEF Limits!IInv
  <1>1. step = "read" /\ UNCHANGED <<account, log, step, history>>
    BY DEF Limits!ReadFile
  <1>2. PICK t \in files, torn \in 0..1 :
          /\ candidates' = candidates \union Limits!Rows(SubSeq(log[t], 1, Len(log[t]) - torn))
          /\ files' = files \ {t}
    BY DEF Limits!ReadFile
  <1>3. t \in Threads
    BY <1>0 DEF Limits!TypeOK
  <1>4. history = {}
    BY <1>0, <1>1 DEF Limits!RowShape
  <1>5. \A a \in candidates' : \E u \in Threads : \E j \in DOMAIN log[u] : a = log[u][j]
    <2> SUFFICES ASSUME NEW a \in candidates'
                 PROVE  \E u \in Threads : \E j \in DOMAIN log[u] : a = log[u][j]
      OBVIOUS
    <2>1. CASE a \in candidates
      BY <1>0, <2>1 DEF Limits!RowShape
    <2>2. CASE a \in Limits!Rows(SubSeq(log[t], 1, Len(log[t]) - torn))
      <3>1. \E j \in DOMAIN log[t] : a = log[t][j]
        BY <1>3, <2>2, RowsOf
      <3> QED BY <1>3, <3>1
    <2> QED BY <1>2, <2>1, <2>2
  <1>6. candidates' \subseteq Limits!Snapshots
    BY <1>5, LimitsFacts
  <1>7. /\ Limits!IsFiniteSet(Limits!Recorded)' /\ Limits!Written' = Limits!Written
        /\ Limits!SnapshotShape'
    BY <1>0, <1>1, SnapshotsStay DEF Limits!SnapshotShape
  <1>8. Limits!TypeOK'
    BY <1>0, <1>1, <1>2, <1>4, <1>6, <1>7 DEF Limits!TypeOK
  <1>9. Limits!RowShape'
    BY <1>1, <1>4, <1>5 DEF Limits!RowShape
  <1>10. Limits!HistoryMonotone' /\ Limits!NewStatesKept'
    BY <1>1, <1>4 DEF Limits!HistoryMonotone, Limits!NewStatesKept
  <1> QED BY <1>7, <1>8, <1>9, <1>10 DEF Limits!IInv

(* The history is put together.                                            *)
LEMMA ReduceStep ==
  ASSUME LimitsAssumption, ~Missing, Limits!IInv, Limits!Reduce
  PROVE  Limits!IInv'
  <1>0. Limits!TypeOK /\ Limits!SnapshotShape /\ Limits!RowShape
    BY DEF Limits!IInv
  <1>1. /\ step = "read" /\ files = {} /\ step' = "done"
        /\ history' = Limits!Reduced(candidates)
        /\ UNCHANGED <<account, log, files, candidates>>
    BY DEF Limits!Reduce
  <1>2. \A r \in candidates :
          /\ r.at \in 1..Limits!Written /\ r.boundary \in Nat /\ r.used \in Nat
          /\ \E drift \in {0, Tolerance \div 2} :
               r.resets = (r.boundary + 1) * WindowLength + drift
    <2> SUFFICES ASSUME NEW r \in candidates
                 PROVE  /\ r.at \in 1..Limits!Written /\ r.boundary \in Nat /\ r.used \in Nat
                        /\ \E drift \in {0, Tolerance \div 2} :
                             r.resets = (r.boundary + 1) * WindowLength + drift
      OBVIOUS
    <2>1a. PICK t \in Threads : \E i \in DOMAIN log[t] : r = log[t][i]
      BY <1>0 DEF Limits!RowShape
    <2>1. PICK i \in DOMAIN log[t] : r = log[t][i]
      BY <2>1a
    <2>2. r.at \in 1..Limits!Written /\ \E drift \in {0, Tolerance \div 2} :
            r.resets = (r.boundary + 1) * WindowLength + drift
      BY <1>0, <2>1 DEF Limits!SnapshotShape
    <2>3. r \in Limits!Snapshots
      BY <1>0 DEF Limits!TypeOK
    <2>4. r.boundary \in Nat /\ r.used \in Nat
      BY <2>3 DEF Limits!Snapshots
    <2> QED BY <2>2, <2>4
  <1>3. \A r, s \in candidates : r.at = s.at => r = s
    <2> SUFFICES ASSUME NEW r \in candidates, NEW s \in candidates, r.at = s.at PROVE r = s
      OBVIOUS
    <2>1a. PICK t \in Threads : \E i \in DOMAIN log[t] : r = log[t][i]
      BY <1>0 DEF Limits!RowShape
    <2>1. PICK i \in DOMAIN log[t] : r = log[t][i]
      BY <2>1a
    <2>2a. PICK u \in Threads : \E j \in DOMAIN log[u] : s = log[u][j]
      BY <1>0 DEF Limits!RowShape
    <2>2. PICK j \in DOMAIN log[u] : s = log[u][j]
      BY <2>2a
    <2>3. t = u /\ i = j
      BY <1>0, <2>1, <2>2 DEF Limits!SnapshotShape
    <2> QED BY <2>1, <2>2, <2>3
  <1>4. \A r, s \in candidates : Limits!IsNewer(r, s) <=> Limits!Later(s, r)
    BY <1>2, NewerIsLater
  <1>5. Limits!Written \in Nat
    BY LimitsFacts
  <1>6. /\ history' \subseteq candidates
        /\ \A a, b \in history' : a.at < b.at => Limits!Later(b, a)
        /\ \A r \in candidates :
             (\A s \in candidates : s.at < r.at => Limits!Later(r, s)) => r \in history'
    <2>1. LET kept == Limits!Reduced(candidates)
          IN  /\ kept \subseteq candidates
              /\ \A a, b \in kept : a.at < b.at => Limits!Later(b, a)
              /\ \A r \in candidates :
                   (\A s \in candidates : s.at < r.at => Limits!Later(r, s)) => r \in kept
      BY <1>2, <1>3, <1>4, <1>5, ReducedRows
    <2> QED BY <1>1, <2>1
  <1>7. /\ Limits!IsFiniteSet(Limits!Recorded)' /\ Limits!Written' = Limits!Written
        /\ Limits!SnapshotShape'
    BY <1>0, <1>1, SnapshotsStay DEF Limits!SnapshotShape
  <1>8. Limits!TypeOK'
    BY <1>0, <1>1, <1>6, <1>7 DEF Limits!TypeOK
  <1>9. Limits!RowShape'
    BY <1>0, <1>1 DEF Limits!RowShape
  <1>10. Limits!HistoryMonotone' /\ Limits!NewStatesKept'
    BY <1>1, <1>6 DEF Limits!HistoryMonotone, Limits!NewStatesKept, Limits!Later
  <1> QED BY <1>7, <1>8, <1>9, <1>10 DEF Limits!IInv

(* Whatever step is taken, or if none is.                                  *)
LEMMA LimitsNext ==
  ASSUME LimitsAssumption, BoundsAssumption, ~Missing, Limits!IInv, Limits!Next
  PROVE  Limits!IInv'
  BY AccountStep, SnapshotStep, ReadHistoryStep, ReduceStep DEF Limits!Next

(* A step of another command.                                              *)
LEMMA LimitsStay ==
  ASSUME Limits!IInv, UNCHANGED Limits!vars
  PROVE  Limits!IInv'
  <1>0. Limits!TypeOK /\ Limits!SnapshotShape /\ Limits!RowShape
        /\ Limits!HistoryMonotone /\ Limits!NewStatesKept
    BY DEF Limits!IInv
  <1>1. UNCHANGED <<account, log, files, candidates, step, history>>
    BY DEF Limits!vars
  <1>2. /\ Limits!IsFiniteSet(Limits!Recorded)' /\ Limits!Written' = Limits!Written
        /\ Limits!SnapshotShape'
    BY <1>0, <1>1, SnapshotsStay DEF Limits!SnapshotShape
  <1>3. Limits!TypeOK' /\ Limits!RowShape'
    BY <1>0, <1>1, <1>2 DEF Limits!TypeOK, Limits!RowShape
  <1>4. Limits!HistoryMonotone' /\ Limits!NewStatesKept'
    BY <1>0, <1>1 DEF Limits!HistoryMonotone, Limits!NewStatesKept, Limits!Later
  <1> QED BY <1>2, <1>3, <1>4 DEF Limits!IInv

-----------------------------------------------------------------------------
(* The commands that read, put together. *)

everything == <<kind, vars, common, usageOnly, limitsOnly, pagesOnly, scanOnly>>

(* A command that reads does what its module says, and no other command    *)
(* changes what it has.                                                    *)
LEMMA ReadingGoesOnAsItsCommand ==
  ASSUME [ReadingNext]_everything
  PROVE  /\ kind' = kind
         /\ kind = "pages" => Pages!Next \/ UNCHANGED Pages!vars
         /\ kind = "scan" => Scan!Next \/ UNCHANGED Scan!vars
         /\ kind = "usage" => Usage!Next \/ UNCHANGED Usage!vars
         /\ kind = "limits" => Limits!Next \/ UNCHANGED Limits!vars
  <1>1. CASE ReadingNext
    BY <1>1 DEF ReadingNext, GoalStep, UsageStep, LimitsStep, PagesStep, ScanStep
  <1>2. CASE UNCHANGED everything
    BY <1>2 DEF everything, common, pagesOnly, scanOnly, usageOnly, limitsOnly,
                Pages!vars, Scan!vars, Usage!vars, Limits!vars
  <1> QED BY <1>1, <1>2

(* However early a reader of items stops, whichever listing the server has *)
(* and however the thread grows meanwhile: it answers with the items of    *)
(* the whole history, or with an error when a bound is missing from it or  *)
(* ambiguous in it, shows turns whole, and asks for no page twice.  One    *)
(* ambiguity goes unnoticed: that of a bound which occurs again below the  *)
(* pages read of a listing of items (codex_threadctl/history.py).          *)
THEOREM PagesSafety == ReadingSpec => []PagesSafe
  <1> DEFINE Inv == kind = "pages" => Pages!IInv
  <1>1. ReadingInit => Inv
    BY PagesBegin DEF ReadingInit
  <1>2. Inv /\ [ReadingNext]_everything => Inv'
    BY ReadingGoesOnAsItsCommand, PagesNext, PagesStay
  <1>3. Inv => PagesSafe
    <2>1. Pages!IInv => Pages!NoPageTwice
      BY DEF Pages!IInv, Pages!CursorShape, Pages!NoPageTwice
    <2> QED BY <2>1 DEF PagesSafe, Pages!IInv
  <1> HIDE DEF Inv
  <1> QED BY <1>1, <1>2, <1>3, PTL DEF ReadingSpec, everything

(* However the app-server moves the file and the thread appends to it, a   *)
(* scan collects what the file held at some moment, a file that moves is   *)
(* not taken for two, a reference selects the memory it means, and every   *)
(* match is shown once, with its checkpoint (codex_memoryctl/rollouts.py,  *)
(* selectors.py, discovery.py).                                            *)
THEOREM ScanSafety == ReadingSpec => []ScanSafe
  <1> DEFINE Inv == kind = "scan" => Scan!IInv
  <1>1. ReadingInit => Inv
    BY ScanAssumption, ScanBegins DEF ReadingInit
  <1>2. Inv /\ [ReadingNext]_everything => Inv'
    BY ScanAssumption, ReadingGoesOnAsItsCommand, ScanNext, ScanStays
  <1>3. Inv => ScanSafe
    <2>1. Scan!IInv => /\ Scan!ScanIsAPrefix /\ Scan!SelectedIsMeant /\ Scan!FoundWithItsHolder
      BY ScanAssumption, PrefixCollected, ReferenceSelects, MatchesHeld
    <2>2. Scan!IInv => Scan!TypeOK /\ Scan!MovedIsNotTwo
      BY DEF Scan!IInv
    <2> QED BY <2>1, <2>2 DEF ScanSafe
  <1> HIDE DEF Inv
  <1> QED BY <1>1, <1>2, <1>3, PTL DEF ReadingSpec, everything

(* codex-limitctl gives no id tokens that were not used by the reports     *)
(* under it, whichever session_meta records the files hold, and however    *)
(* often a report is repeated, a counter restarts, a thread goes on from   *)
(* another or its file is copied; and it counts all that was used under an *)
(* id by threads that neither restarted nor inherited anything, as far as  *)
(* they were read (rollouts.py, find_rollouts, token_delta, read_rollout   *)
(* and scan_rollouts).                                                     *)
THEOREM UsageSafety == ReadingSpec => []UsageSafe
  <1> DEFINE Inv == kind = "usage" => Usage!IInv
  <1>1. ReadingInit => Inv
    BY UsageAssumption, UsageBegins DEF ReadingInit
  <1>2. Inv /\ [ReadingNext]_everything => Inv'
    BY UsageAssumption, ReadingGoesOnAsItsCommand, UsageNext, UsageStays
  <1>3. Inv => UsageSafe
    <2>1. Usage!IInv => Usage!NothingLeftOut
      BY DEF Usage!IInv, Usage!ReadIsCounted, Usage!NothingLeftOut
    <2> QED BY <2>1 DEF UsageSafe, Usage!IInv
  <1> HIDE DEF Inv
  <1> QED BY <1>1, <1>2, <1>3, PTL DEF ReadingSpec, everything

(* If every snapshot has the time of its reset the history of a limit      *)
(* never goes back and leaves out no state newer than all before it,       *)
(* however late, in whichever order and into whichever file the threads    *)
(* wrote the states of the account (rollouts.py, reduce_history and        *)
(* is_newer_state).                                                        *)
THEOREM LimitsSafety ==
  ASSUME ~Missing
  PROVE  ReadingSpec => []LimitsSafe
  <1> DEFINE Inv == kind = "limits" => Limits!IInv
  <1>1. ReadingInit => Inv
    BY LimitsAssumption, BoundsAssumption, LimitsBegins DEF ReadingInit
  <1>2. Inv /\ [ReadingNext]_everything => Inv'
    BY LimitsAssumption, BoundsAssumption, ReadingGoesOnAsItsCommand, LimitsNext, LimitsStay
  <1>3. Inv => LimitsSafe
    BY DEF LimitsSafe, Limits!IInv
  <1> HIDE DEF Inv
  <1> QED BY <1>1, <1>2, <1>3, PTL DEF ReadingSpec, everything
=============================================================================
