--------------------------- MODULE StopWatchProofs ---------------------------
(***************************************************************************)
(* Theorems about StopWatch, for all runs, page sizes and turns.           *)
(*                                                                         *)
(* Turns are numbered in the order of creation and at most the newest one  *)
(* runs.  What a run has read is a gapless part of the history, although   *)
(* the history changes between two pages, and of that part only the newest *)
(* turn may have been running.  So a turn at or before the newest one read *)
(* was either seen to have ended or is the one the new cursor calls open.  *)
(***************************************************************************)
EXTENDS StopWatch, BoundedSets

(* The turn, if it has ended, comes after the cursor. *)
Beyond(w, t) == t > w.id \/ (t = w.id /\ w.open)

ThreadShape == history \subseteq 1..born /\ running \in {NoTurn, born}

(* A turn that a cursor calls closed does not run any more.                *)
CursorShape(w) ==
  /\ w.id <= born
  /\ w.mode = "later" /\ w.id # NoTurn /\ ~w.open => running # w.id
  /\ w.mode = "legacy" => w.id = NoTurn
  /\ w.mode = "exact" => w.id # NoTurn

(* What a run has read of the history. *)
ReadShape(r) ==
  /\ got[r].done \subseteq got[r].seen /\ got[r].seen \subseteq 1..born
  /\ running \notin got[r].done
  /\ \A t \in got[r].seen \ got[r].done :
       /\ \A u \in got[r].seen : u <= t
       /\ mine[r].mode = "later" /\ t = mine[r].id => mine[r].open
  /\ \A t \in history : \A u, v \in got[r].seen : u <= t /\ t <= v => t \in got[r].seen

(* How far it has come. *)
PlaceShape(r) ==
  /\ pc[r] = "reading" => /\ mine[r].id = NoTurn => got[r].seen = {}
                          /\ mine[r].id \in history => \A u \in got[r].seen : mine[r].id < u
  /\ pc[r] \in {"found", "deliver", "accepted"} =>
       IF mine[r].id # NoTurn THEN mine[r].id \in got[r].seen
       ELSE mine[r].mode = "later" =>
              \/ got[r].done # {}
              \/ \A t \in history : \A v \in got[r].seen : t <= v => t \in got[r].seen
  /\ pc[r] = "missing" => mine[r].id # NoTurn /\ mine[r].id \notin history
  /\ pc[r] \in {"deliver", "accepted"} => Evidence(r) # {}
  /\ pc[r] = "accepted" => Told(r) \subseteq reported

LeaseShape(r) == owner = r /\ pc[r] # "idle" => mine[r] = row

(* Nothing beyond the cursor is settled, and nothing before the boundary   *)
(* is beyond the cursor.                                                   *)
NewsShape ==
  /\ owner \in Runs => job = "pending"
  /\ job \in {"absent", "seeded"} \/ row.mode = "legacy" => settled = {}
  /\ row.mode = "later" => \A t \in settled : ~Beyond(row, t)
  /\ job \in {"absent", "seeded"} => since = NoRow
  /\ job = "pending" /\ row.mode = "later" => \A t \in Nat : Beyond(row, t) => Beyond(since, t)

IInv ==
  /\ TypeOK /\ ThreadShape /\ CursorShape(row) /\ NewsShape
  /\ NoCompletionMissed /\ FailedMeansGone
  /\ \A r \in Runs : CursorShape(mine[r]) /\ ReadShape(r) /\ PlaceShape(r) /\ LeaseShape(r)

-----------------------------------------------------------------------------
(* What is read, and the cursor made of it. *)

LEMMA LatestIsLast ==
  ASSUME NEW n \in Nat, NEW S \in SUBSET (1..n)
  PROVE  /\ Latest(S) \in 0..n
         /\ S = {} => Latest(S) = NoTurn
         /\ S # {} => Latest(S) \in S /\ \A t \in S : t <= Latest(S)
  <1>1. CASE S = {}
    BY <1>1 DEF Latest, NoTurn
  <1>2. CASE S # {}
    <2>1. \E p \in S : \A q \in S : q <= p
      BY <1>2, HasLast
    <2>2. \E p \in S : \A q \in S : p >= q
      BY <2>1
    <2>3. Max(S) \in S /\ \A q \in S : Max(S) >= q
      BY <2>2 DEF Max
    <2>4. Latest(S) = Max(S)
      BY <1>2 DEF Latest
    <2>5. Latest(S) \in S
      BY <2>3, <2>4
    <2>6. \A t \in S : t <= Latest(S)
      <3>1. ASSUME NEW t \in S PROVE t <= Max(S)
        BY <2>3
      <3> QED BY <2>4, <3>1
    <2>7. Latest(S) \in 0..n
      <3>1. \A q \in S : q \in 0..n
        OBVIOUS
      <3> QED BY <2>5, <3>1, Zenon
    <2> QED BY <1>2, <2>5, <2>6, <2>7
  <1> QED BY <1>1, <1>2

(* A page begins with the newest turn that is left. *)
LEMMA PageIsUpper ==
  ASSUME NEW m \in Nat, NEW S \in SUBSET (1..m), NEW n \in Nat
  PROVE  /\ Newest(S, n) \subseteq S
         /\ \A t \in Newest(S, n) : \A u \in S : u >= t => u \in Newest(S, n)
  <1> DEFINE Above(t) == {u \in S : u > t}
  <1>1. ASSUME NEW t \in Newest(S, n), NEW u \in S, u >= t PROVE u \in Newest(S, n)
    <2>1. t \in S /\ Cardinality(Above(t)) < n
      BY DEF Newest
    <2>2. Above(t) \in SUBSET (1..m) /\ Above(u) \in SUBSET Above(t)
      <3>1. t \in Int /\ u \in Int /\ S \subseteq Int
        BY <2>1
      <3>2. ASSUME NEW v \in S, v > u PROVE v > t
        BY <1>1, <3>1, <3>2
      <3> QED BY <3>2
    <2>3. /\ Cardinality(Above(u)) \in Nat /\ Cardinality(Above(t)) \in Nat
          /\ Cardinality(Above(u)) <= Cardinality(Above(t))
      BY <2>2, FewerElements
    <2>4. Cardinality(Above(u)) < n
      <3> HIDE DEF Above
      <3> QED BY <2>1, <2>3
    <2> QED BY <2>4 DEF Newest
  <1>2. Newest(S, n) \subseteq S
    BY DEF Newest
  <1> QED BY <1>1, <1>2

(* A first page of two turns or more has one that ended, if there is one.  *)
LEMMA PageHasDone ==
  ASSUME NEW m \in Nat, NEW S \in SUBSET (1..m), NEW n \in Nat \ {0, 1},
         NEW x, \A t \in S : x \in S => t <= x
  PROVE  \/ Newest(S, n) \ {x} # {}
         \/ \A t \in S : \A v \in Newest(S, n) : t <= v => t \in Newest(S, n)
  <1>1. CASE S \ {x} = {}
    <2>1. ASSUME NEW t \in S, NEW v \in Newest(S, n) PROVE t \in Newest(S, n)
      <3>1. v \in S
        BY PageIsUpper
      <3>2. t = x /\ v = x
        BY <1>1, <3>1
      <3> QED BY <3>2
    <2> QED BY <2>1
  <1>2. CASE S \ {x} # {}
    <2>1. PICK p \in S \ {x} : \A q \in S \ {x} : q <= p
      BY <1>2, HasLast
    <2> DEFINE Above == {u \in S : u > p}
    <2>2. Above \subseteq {x}
      <3>1. p \in Int /\ S \subseteq Int
        OBVIOUS
      <3>2. ASSUME NEW q \in S, q > p PROVE q = x
        BY <2>1, <3>1, <3>2
      <3> QED BY <3>2
    <2>3. Cardinality(Above) <= 1 /\ Cardinality(Above) \in Nat
      <3>1. CASE Above = {}
        BY <3>1, FS_EmptySet
      <3>2. CASE Above = {x}
        <4> HIDE DEF Above
        <4> QED BY <3>2, FS_Singleton
      <3> QED BY <2>2, <3>1, <3>2
    <2>4. Cardinality(Above) < n
      <3> HIDE DEF Above
      <3> QED BY <2>3
    <2>5. p \in Newest(S, n)
      BY <2>4 DEF Newest
    <2> QED BY <2>5
  <1> QED BY <1>1, <1>2

(* The cursor for what was read: only what is not known to have ended is   *)
(* beyond it.                                                              *)
LEMMA CursorTaken ==
  ASSUME IInv, NEW r \in Runs, NEW l, l = Latest(got[r].seen),
         NEW c, c = CursorAt(got[r].seen, got[r].done)
  PROVE  /\ c \in Conditions /\ c.mode = "later" /\ c.id = l /\ CursorShape(c)
         /\ l \in 0..born /\ born \in Nat
         /\ got[r].seen = {} => l = NoTurn
         /\ got[r].seen # {} => l \in got[r].seen /\ \A t \in got[r].seen : t <= l
         /\ \A t \in Nat : Beyond(c, t) <=> t > l \/ (t = l /\ l \in got[r].seen \ got[r].done)
  <1>1. got[r].seen \subseteq 1..born /\ born \in Nat /\ born <= MaxTurns
    BY SizesAssumption DEF IInv, TypeOK, ReadShape
  <1>2. /\ l \in 0..born
        /\ got[r].seen = {} => l = NoTurn
        /\ got[r].seen # {} => l \in got[r].seen /\ \A t \in got[r].seen : t <= l
    BY <1>1, LatestIsLast
  <1>3. c = [mode |-> "later", id |-> l, open |-> l \in got[r].seen \ got[r].done]
    BY DEF CursorAt, Cursor
  <1>4. c.mode = "later" /\ c.id = l /\ (c.open <=> l \in got[r].seen \ got[r].done)
    <2> DEFINE open == l \in got[r].seen \ got[r].done
    <2> HIDE DEF open
    <2>1. c = [mode |-> "later", id |-> l, open |-> open]
      BY <1>3 DEF open
    <2>2. c.mode = "later" /\ c.id = l /\ c.open = open
      BY <2>1
    <2> QED BY <2>2 DEF open
  <1>5. l \in Turns \union {NoTurn}
    BY <1>1, <1>2, SizesAssumption DEF Turns, NoTurn
  <1>6. (l \in got[r].seen \ got[r].done) \in BOOLEAN
    OBVIOUS
  <1>7. c \in Conditions
    BY <1>3, <1>5, <1>6 DEF Conditions
  <1>8. CursorShape(c)
    <2>1. l # NoTurn /\ ~c.open => l \in got[r].done
      BY <1>2, <1>4
    <2>2. running \notin got[r].done
      BY DEF IInv, ReadShape
    <2> QED BY <1>2, <1>4, <2>1, <2>2 DEF CursorShape
  <1>9. \A t \in Nat : Beyond(c, t) <=> t > l \/ (t = l /\ l \in got[r].seen \ got[r].done)
    BY <1>4 DEF Beyond
  <1> QED BY <1>1, <1>2, <1>4, <1>7, <1>8, <1>9

(* A new cursor is not before the one the run started from. *)
LEMMA CursorAdvances ==
  ASSUME IInv, NEW r \in Runs, mine[r].mode = "later", pc[r] \in {"found", "deliver", "accepted"},
         NEW c, c = CursorAt(got[r].seen, got[r].done), NEW t \in Nat, Beyond(c, t)
  PROVE  Beyond(mine[r], t)
  <1> DEFINE l == Latest(got[r].seen)
  <1> DEFINE w == mine[r]
  <1>1. /\ l \in 0..born /\ born \in Nat
        /\ got[r].seen # {} => l \in got[r].seen /\ \A u \in got[r].seen : u <= l
        /\ t > l \/ (t = l /\ l \in got[r].seen \ got[r].done)
        /\ got[r].seen \subseteq 1..born
    BY CursorTaken DEF IInv, ReadShape
  <1>2. l \in got[r].seen \ got[r].done /\ l = w.id => w.open
    BY DEF IInv, ReadShape
  <1>3. w.id \in 0..born
    BY <1>1 DEF IInv, CursorShape, TypeOK, Conditions, Turns, NoTurn
  <1> HIDE DEF l
  <1>4. CASE w.id = NoTurn
    BY <1>1, <1>4 DEF Beyond, NoTurn
  <1>5. CASE w.id # NoTurn
    <2>1. w.id \in got[r].seen
      BY <1>5 DEF IInv, PlaceShape
    <2>2. w.id <= l
      BY <1>1, <2>1
    <2> QED BY <1>1, <1>2, <1>3, <2>2 DEF Beyond
  <1> QED BY <1>4, <1>5

-----------------------------------------------------------------------------
(* Init and the steps of the thread. *)

RunShape(r) == CursorShape(mine[r]) /\ ReadShape(r) /\ PlaceShape(r) /\ LeaseShape(r)

(* The types the steps rely on. *)
LEMMA Basics ==
  ASSUME IInv
  PROVE  /\ born \in Nat /\ born <= MaxTurns /\ MaxTurns \in Nat /\ history \subseteq 1..born
         /\ running \in {NoTurn, born} /\ running \in history \union {NoTurn}
         /\ row \in Conditions /\ row.id \in 0..born
         /\ since \in Conditions /\ since.id \in Nat
         /\ \A r \in Runs : /\ mine[r] \in Conditions /\ mine[r].id \in 0..born
                            /\ got[r].seen \subseteq 1..born /\ got[r].done \subseteq got[r].seen
  <1>1. /\ born \in Nat /\ born <= MaxTurns /\ MaxTurns \in Nat /\ history \subseteq 1..born
        /\ running \in {NoTurn, born} /\ running \in history \union {NoTurn}
        /\ row \in Conditions /\ since \in Conditions
    BY SizesAssumption DEF IInv, TypeOK, ThreadShape
  <1>2. ASSUME NEW w \in Conditions PROVE w.id \in Nat
    BY <1>1, <1>2 DEF Conditions, Turns, NoTurn
  <1>3. row.id \in 0..born /\ since.id \in Nat
    BY <1>1, <1>2 DEF IInv, CursorShape
  <1>4. ASSUME NEW r \in Runs
        PROVE  /\ mine[r] \in Conditions /\ mine[r].id \in 0..born
               /\ got[r].seen \subseteq 1..born /\ got[r].done \subseteq got[r].seen
    <2>1. mine[r] \in Conditions
      BY DEF IInv, TypeOK
    <2>2. CursorShape(mine[r]) /\ ReadShape(r)
      BY DEF IInv
    <2> QED BY <1>1, <1>2, <2>1, <2>2 DEF CursorShape, ReadShape
  <1> QED BY <1>1, <1>3, <1>4

LEMMA NoRowShape == NoRow \in Conditions /\ NoRow.id = NoTurn /\ NoRow.mode = "later"
  BY DEF NoRow, Cursor, Conditions, NoTurn

LEMMA InitInv == Init => IInv
  <1> SUFFICES ASSUME Init PROVE IInv
    OBVIOUS
  <1> USE DEF Init
  <1>0. MaxTurns \in Nat
    BY SizesAssumption
  <1>1. TypeOK
    BY <1>0, NoRowShape DEF TypeOK, NothingRead, Turns, NoTurn
  <1>2. CursorShape(NoRow)
    BY NoRowShape DEF CursorShape, NoTurn
  <1>3. ThreadShape /\ NewsShape /\ NoCompletionMissed /\ FailedMeansGone
    BY RunsAssumption DEF ThreadShape, NewsShape, NoCompletionMissed, FailedMeansGone
  <1>4. ASSUME NEW r \in Runs PROVE RunShape(r)
    BY <1>2, RunsAssumption
    DEF RunShape, ReadShape, PlaceShape, LeaseShape, NothingRead, NoTurn
  <1> QED BY <1>1, <1>2, <1>3, <1>4 DEF IInv, RunShape

(* Whatever the thread does, only a turn newer than all before it starts   *)
(* to run, and only the newest one can have ended.                         *)
LEMMA ThreadMoves ==
  ASSUME IInv, TurnStarts \/ TurnEnds \/ Rollback
  PROVE  /\ born' \in born..MaxTurns /\ history' \subseteq 1..born'
         /\ running' \in {NoTurn, born + 1} /\ running' \in {NoTurn, born'}
         /\ running' \in history' \union {NoTurn}
         /\ \A t \in history' : t <= born => t \in history
         /\ \A t \in Done' : t \in Done \/ (t = born /\ t = running)
  <1>0. /\ born \in Nat /\ born <= MaxTurns /\ MaxTurns \in Nat /\ history \subseteq 1..born
        /\ running \in {NoTurn, born}
    BY Basics
  <1>1. CASE TurnStarts
    <2>1. born < MaxTurns /\ born' = born + 1 /\ running' = born + 1 /\ running = NoTurn
          /\ history' = history \union {born + 1}
      BY <1>1 DEF TurnStarts
    <2>2. \A t \in history' : t <= born => t \in history
      BY <1>0, <2>1
    <2>3. \A t \in Done' : t \in Done
      BY <1>0, <2>1 DEF Done, NoTurn
    <2> QED BY <1>0, <2>1, <2>2, <2>3
  <1>2. CASE TurnEnds
    BY <1>0, <1>2 DEF TurnEnds, Done, NoTurn
  <1>3. CASE Rollback
    <2>1. history' \subseteq history /\ UNCHANGED <<running, born>> /\ running = NoTurn
      BY <1>3 DEF Rollback
    <2> QED BY <1>0, <2>1 DEF Done
  <1> QED BY <1>1, <1>2, <1>3

LEMMA ThreadStep ==
  ASSUME IInv, TurnStarts \/ TurnEnds \/ Rollback
  PROVE  IInv'
  <1>0. UNCHANGED <<stored, pc, reading, ghost>>
    BY DEF TurnStarts, TurnEnds, Rollback
  <1>1. /\ born' \in born..MaxTurns /\ history' \subseteq 1..born'
        /\ running' \in {NoTurn, born + 1} /\ running' \in {NoTurn, born'}
        /\ running' \in history' \union {NoTurn}
        /\ \A t \in history' : t <= born => t \in history
        /\ \A t \in Done' : t \in Done \/ (t = born /\ t = running)
    BY ThreadMoves
  <1>2. /\ born \in Nat /\ MaxTurns \in Nat /\ row \in Conditions /\ row.id \in 0..born
        /\ history \subseteq 1..born
        /\ \A r \in Runs : /\ mine[r] \in Conditions /\ mine[r].id \in 0..born
                           /\ got[r].seen \subseteq 1..born /\ got[r].done \subseteq got[r].seen
    BY Basics
  <1>3. TypeOK'
    <2>1. history' \subseteq Turns /\ running' \in history' \union {NoTurn} /\ born' \in 0..MaxTurns
      BY <1>1, <1>2 DEF Turns
    <2> QED BY <1>0, <2>1 DEF IInv, TypeOK, stored, reading, ghost
  <1>4. ThreadShape'
    BY <1>1 DEF ThreadShape
  <1>5. ASSUME NEW w, w' = w, w.id \in 0..born, CursorShape(w) PROVE CursorShape(w)'
    <2>1. w.id <= born' /\ (w.id # NoTurn => running' # w.id)
      BY <1>1, <1>2, <1>5
    <2> QED BY <1>5, <2>1 DEF CursorShape
  <1>6. CursorShape(row)'
    BY <1>0, <1>2, <1>5 DEF stored, IInv
  <1>7. NewsShape' /\ FailedMeansGone'
    <2>1. row.id \in history' => row.id \in history
      BY <1>1, <1>2
    <2> QED BY <1>0, <2>1 DEF IInv, NewsShape, FailedMeansGone, stored, ghost
  <1>8. NoCompletionMissed'
    <2> SUFFICES ASSUME job = "pending", row.mode = "later", NEW t \in Done', Beyond(since, t)
                 PROVE  t \in reported \/ Beyond(row, t)
      BY <1>0 DEF NoCompletionMissed, After, Beyond, stored, ghost
    <2>1. CASE t \in Done
      BY <2>1 DEF IInv, NoCompletionMissed, After, Beyond
    <2>2. CASE t = born /\ t = running
      <3>1. t # NoTurn
        BY <1>1 DEF Done, NoTurn
      <3>2. row.id < t \/ (row.id = t /\ row.open)
        BY <1>2, <2>2, <3>1 DEF IInv, CursorShape
      <3> QED BY <1>2, <2>2, <3>2 DEF Beyond
    <2> QED BY <1>1, <2>1, <2>2
  <1>9. ASSUME NEW r \in Runs PROVE RunShape(r)'
    <2>0. UNCHANGED <<mine[r], got[r], pc[r], owner, row, reported>> /\ RunShape(r)
      BY <1>0 DEF IInv, RunShape, stored, reading, ghost
    <2>1. CursorShape(mine[r])'
      BY <1>2, <1>5, <2>0 DEF RunShape
    <2>2. ReadShape(r)'
      <3>1. got[r].seen \subseteq 1..born' /\ running' \notin got[r].done
        BY <1>1, <1>2 DEF NoTurn
      <3>2. ASSUME NEW t \in history', NEW u \in got[r].seen, NEW v \in got[r].seen, u <= t, t <= v
            PROVE  t \in got[r].seen
        <4>1. t \in history
          BY <1>1, <1>2, <3>2
        <4> QED BY <2>0, <3>2, <4>1 DEF RunShape, ReadShape
      <3> QED BY <2>0, <3>1, <3>2 DEF RunShape, ReadShape
    <2>3. PlaceShape(r)'
      <3>1. Evidence(r)' = Evidence(r) /\ Told(r)' = Told(r)
        BY <2>0 DEF Evidence, Told
      <3>2. mine[r].id \in history' => mine[r].id \in history
        BY <1>1, <1>2
      <3>3. \A t \in history' : \A v \in got[r].seen : t <= v => t \in history
        BY <1>1, <1>2
      <3>4. PlaceShape(r)
        BY <2>0 DEF RunShape
      <3>5. pc[r] = "reading" => /\ mine[r].id = NoTurn => got[r].seen = {}
                                 /\ mine[r].id \in history' => \A u \in got[r].seen : mine[r].id < u
        BY <3>2, <3>4 DEF PlaceShape
      <3>6. pc[r] \in {"found", "deliver", "accepted"} =>
              IF mine[r].id # NoTurn THEN mine[r].id \in got[r].seen
              ELSE mine[r].mode = "later" =>
                \/ got[r].done # {}
                \/ \A t \in history' : \A v \in got[r].seen : t <= v => t \in got[r].seen
        BY <3>3, <3>4 DEF PlaceShape
      <3>7. pc[r] = "missing" => mine[r].id # NoTurn /\ mine[r].id \notin history'
        BY <3>2, <3>4 DEF PlaceShape
      <3> QED BY <2>0, <3>1, <3>4, <3>5, <3>6, <3>7 DEF PlaceShape
    <2>4. LeaseShape(r)'
      BY <2>0 DEF RunShape, LeaseShape
    <2> QED BY <2>1, <2>2, <2>3, <2>4 DEF RunShape
  <1> QED BY <1>3, <1>4, <1>6, <1>7, <1>8, <1>9 DEF IInv, RunShape

-----------------------------------------------------------------------------
(* Adding the job, and the steps of a run that write nothing into it. *)

LEMMA BoundaryTaken ==
  ASSUME IInv, NEW c, c = CursorAt(history, Done)
  PROVE  c \in Conditions /\ CursorShape(c)
  <1>1. /\ history \in SUBSET (1..born) /\ born \in Nat /\ born <= MaxTurns /\ MaxTurns \in Nat
    BY Basics
  <1> DEFINE l == Latest(history)
  <1> DEFINE open == l \in history \ Done
  <1>2. l \in 0..born /\ (history = {} => l = NoTurn) /\ (history # {} => l \in history)
    BY <1>1, LatestIsLast
  <1>3. open \in BOOLEAN
    OBVIOUS
  <1>4. l # NoTurn /\ ~open => l # running
    BY <1>2 DEF Done
  <1>5. c = [mode |-> "later", id |-> l, open |-> open]
    BY DEF CursorAt, Cursor
  <1>6. l \in Turns \union {NoTurn}
    BY <1>1, <1>2 DEF Turns, NoTurn
  <1> HIDE DEF l, open
  <1>7. c \in Conditions
    BY <1>3, <1>5, <1>6 DEF Conditions
  <1>8. c.mode = "later" /\ c.id = l /\ c.open = open
    BY <1>5
  <1>9. CursorShape(c)
    BY <1>2, <1>4, <1>8 DEF CursorShape
  <1> QED BY <1>7, <1>9

LEMMA AddStep ==
  ASSUME IInv, Seed \/ Insert \/ InsertedBefore
  PROVE  IInv'
  <1>0. TypeOK /\ NewsShape
    BY DEF IInv
  <1>1. UNCHANGED <<owner, thread, pc, reading, reported, settled>>
    BY DEF Seed, Insert, InsertedBefore, ghost
  <1>2. owner \notin Runs /\ settled = {} /\ since = NoRow
    BY <1>0 DEF Seed, Insert, InsertedBefore, NewsShape
  <1>3. row' \in Conditions /\ CursorShape(row')
    <2>1. CASE Seed
      <3>1. CASE row' = CursorAt(history, Done)
        BY <3>1, BoundaryTaken
      <3>2. ASSUME NEW t \in history, row' = [mode |-> "exact", id |-> t, open |-> FALSE]
            PROVE  row' \in Conditions /\ CursorShape(row')
        <4>1. t \in Turns /\ t <= born /\ t # NoTurn
          BY Basics, <1>0 DEF TypeOK, NoTurn
        <4>2. row' \in Conditions
          BY <3>2, <4>1 DEF Conditions
        <4>3. row'.mode = "exact" /\ row'.id = t
          BY <3>2
        <4> QED BY <4>1, <4>2, <4>3 DEF CursorShape
      <3> QED BY <2>1, <3>1, <3>2 DEF Seed
    <2>2. CASE Insert
      BY <2>2 DEF Insert, IInv, TypeOK
    <2>3. CASE InsertedBefore
      <3>1. PICK observedActive \in BOOLEAN :
              row' = [mode |-> "legacy", id |-> NoTurn, open |-> observedActive]
        BY <2>3 DEF InsertedBefore
      <3>2. row' \in Conditions /\ row'.mode = "legacy" /\ row'.id = NoTurn
        BY <3>1 DEF Conditions
      <3> QED BY <3>2, Basics DEF CursorShape, NoTurn
    <2> QED BY <2>1, <2>2, <2>3
  <1>4. /\ job' \in {"seeded", "pending"}
        /\ job' = "seeded" => since' = NoRow
        /\ job' = "pending" => since' = row' \/ (row'.mode = "legacy" /\ since' = NoRow)
        /\ since' \in Conditions
    BY <1>0, <1>2, <1>3, NoRowShape DEF Seed, Insert, InsertedBefore, ghost
  <1>5. TypeOK'
    BY <1>0, <1>1, <1>3, <1>4 DEF TypeOK, thread, reading
  <1>6. ThreadShape' /\ CursorShape(row)'
    BY <1>1, <1>3 DEF IInv, ThreadShape, CursorShape, thread
  <1>7. NewsShape'
    <2>1. settled' = {} /\ owner' \notin Runs
      BY <1>1, <1>2
    <2> QED BY <1>4, <2>1 DEF NewsShape
  <1>8. NoCompletionMissed' /\ FailedMeansGone'
    BY <1>4 DEF NoCompletionMissed, FailedMeansGone
  <1>9. ASSUME NEW r \in Runs PROVE RunShape(r)'
    <2>1. CursorShape(mine[r])' /\ ReadShape(r)'
      BY <1>1 DEF IInv, CursorShape, ReadShape, thread, reading
    <2>2. Evidence(r)' = Evidence(r) /\ Told(r)' = Told(r)
      BY <1>1 DEF Evidence, Told, reading
    <2>3. PlaceShape(r)'
      BY <1>1, <2>2 DEF IInv, PlaceShape, thread, reading
    <2>4. LeaseShape(r)'
      BY <1>1, <1>2 DEF LeaseShape
    <2> QED BY <2>1, <2>3, <2>4 DEF RunShape
  <1> QED BY <1>5, <1>6, <1>7, <1>8, <1>9 DEF IInv, RunShape

(* What a run is and has read is disturbed by no step of another run.      *)
LEMMA OthersKeep ==
  ASSUME IInv, NEW q \in Runs, UNCHANGED <<thread, pc[q], mine[q], got[q]>>,
         reported \subseteq reported',
         owner' = q => owner = q /\ row' = row
  PROVE  RunShape(q)'
  <1>1. CursorShape(mine[q])' /\ ReadShape(q)'
    BY DEF IInv, CursorShape, ReadShape, thread
  <1>2. Evidence(q)' = Evidence(q) /\ Told(q)' = Told(q)
    BY DEF Evidence, Told
  <1>3. PlaceShape(q)'
    BY <1>2 DEF IInv, PlaceShape, thread
  <1>4. LeaseShape(q)'
    BY DEF IInv, LeaseShape
  <1> QED BY <1>1, <1>3, <1>4 DEF RunShape

(* A step that leaves the job and the thread alone. *)
LEMMA JobKept ==
  ASSUME IInv, UNCHANGED <<job, row, since, settled, thread>>, reported \subseteq reported',
         owner' \in Runs => job = "pending"
  PROVE  /\ ThreadShape' /\ CursorShape(row)' /\ NewsShape'
         /\ NoCompletionMissed' /\ FailedMeansGone'
  <1>1. ThreadShape' /\ CursorShape(row)'
    BY DEF IInv, ThreadShape, CursorShape, thread
  <1>2. NewsShape' /\ FailedMeansGone'
    BY DEF IInv, NewsShape, FailedMeansGone, thread
  <1>3. NoCompletionMissed'
    <2>1. Done' = Done
      BY DEF Done, thread
    <2> QED BY <2>1 DEF IInv, NoCompletionMissed, After
  <1> QED BY <1>1, <1>2, <1>3

LEMMA NothingReadShape ==
  /\ NothingRead \in [seen : SUBSET Turns, done : SUBSET Turns]
  /\ NothingRead.seen = {} /\ NothingRead.done = {}
  BY DEF NothingRead

LEMMA ClaimStep ==
  ASSUME IInv, NEW r \in Runs, Claim(r)
  PROVE  IInv'
  <1>0. TypeOK /\ owner' = r /\ job = "pending" /\ UNCHANGED <<job, row, thread, ghost>>
    BY DEF IInv, Claim
  <1>1. TypeOK'
    BY <1>0, NothingReadShape DEF Claim, Goto, TypeOK, thread, ghost
  <1>2. /\ ThreadShape' /\ CursorShape(row)' /\ NewsShape'
        /\ NoCompletionMissed' /\ FailedMeansGone'
    BY <1>0, JobKept DEF ghost
  <1>3. ASSUME NEW q \in Runs PROVE RunShape(q)'
    <2>1. CASE q # r
      <3>1. UNCHANGED <<pc[q], mine[q], got[q]>>
        BY <1>0, <2>1 DEF Claim, Goto, TypeOK
      <3> QED BY <1>0, <2>1, <3>1, OthersKeep DEF ghost
    <2>2. CASE q = r
      <3>1. pc'[r] = "reading" /\ mine'[r] = row /\ got'[r] = NothingRead /\ row' = row
        BY <1>0 DEF Claim, Goto, TypeOK
      <3>2. CursorShape(mine[r])'
        BY <1>2, <3>1 DEF CursorShape
      <3>3. ReadShape(r)' /\ PlaceShape(r)' /\ LeaseShape(r)'
        BY <3>1, NothingReadShape DEF ReadShape, PlaceShape, LeaseShape
      <3> QED BY <2>2, <3>2, <3>3 DEF RunShape
    <2> QED BY <2>1, <2>2
  <1> QED BY <1>1, <1>2, <1>3 DEF IInv, RunShape

(* The next page: the older turns it has are the newest of those left, so  *)
(* no turn of the history is skipped, whatever has changed since the page  *)
(* before.                                                                 *)
LEMMA ReadStep ==
  ASSUME IInv, NEW r \in Runs, ReadPage(r)
  PROVE  IInv'
  <1> DEFINE w == mine[r]
  <1> DEFINE S == got[r].seen
  <1> DEFINE D == got[r].done
  <1> DEFINE older == {t \in history : \A u \in S : t < u}
  <1> DEFINE n == IF w.mode = "legacy" THEN 1 ELSE PageSize
  <1> DEFINE page == Newest(older, n)
  <1>0. /\ TypeOK /\ CursorShape(w) /\ ReadShape(r) /\ PlaceShape(r) /\ LeaseShape(r)
        /\ pc[r] = "reading" /\ UNCHANGED <<mine, stored, thread, ghost>>
    BY DEF IInv, ReadPage
  <1>1. /\ born \in Nat /\ born <= MaxTurns /\ MaxTurns \in Nat /\ history \subseteq 1..born
        /\ running \in {NoTurn, born} /\ w \in Conditions /\ w.id \in 0..born
        /\ S \subseteq 1..born /\ D \subseteq S
    BY Basics
  <1>2. /\ got' = [got EXCEPT ![r] = [seen |-> S \union page, done |-> D \union (page \ {running})]]
        /\ Goto(r, IF w.id = NoTurn \/ w.id \in page THEN "found"
                   ELSE IF page = older THEN "missing" ELSE "reading")
    BY Zenon DEF ReadPage, LastPage
  <1>3. /\ got'[r].seen = S \union page /\ got'[r].done = D \union (page \ {running})
        /\ pc'[r] = IF w.id = NoTurn \/ w.id \in page THEN "found"
                    ELSE IF page = older THEN "missing" ELSE "reading"
        /\ mine'[r] = mine[r]
        /\ \A q \in Runs : q # r => UNCHANGED <<pc[q], mine[q], got[q]>>
    <2> HIDE DEF page, older, S, D, w
    <2> QED BY <1>0, <1>2 DEF Goto, TypeOK
  <1>4. n \in Nat
    BY SizesAssumption
  <1>5. /\ page \subseteq older
        /\ \A t \in page : \A u \in older : u >= t => u \in page
    <2>1. older \in SUBSET (1..born)
      BY <1>1
    <2> HIDE DEF older, n
    <2> QED BY <1>1, <1>4, <2>1, PageIsUpper
  <1>6. older \subseteq history /\ \A t \in older : \A u \in S : t < u
    OBVIOUS
  <1>7. \A t \in history : t \notin older => \E u \in S : u <= t
    BY <1>1
  <1> HIDE DEF page, older, n
  <1>8. page \subseteq 1..born /\ page \subseteq history /\ older \subseteq 1..born
    BY <1>1, <1>5, <1>6
  <1>8a. S \union page \subseteq 1..born /\ S \union page \subseteq Int
    <2> HIDE DEF S
    <2> QED BY <1>1, <1>8
  <1>9. TypeOK'
    <2>1. [seen |-> S \union page, done |-> D \union (page \ {running})]
            \in [seen : SUBSET Turns, done : SUBSET Turns]
      <3>1. 1..born \subseteq Turns
        BY <1>1 DEF Turns
      <3>2. S \union page \subseteq Turns /\ D \union (page \ {running}) \subseteq Turns
        <4> HIDE DEF S, D
        <4> QED BY <1>1, <1>8, <3>1
      <3> HIDE DEF S, D
      <3> QED BY <3>2
    <2>2. got' \in [Runs -> [seen : SUBSET Turns, done : SUBSET Turns]]
      BY <1>0, <1>2, <2>1 DEF TypeOK
    <2>3. pc' \in [Runs -> {"idle", "reading", "found", "missing", "deliver", "accepted"}]
      BY <1>0, <1>2 DEF TypeOK, Goto
    <2> QED BY <1>0, <2>2, <2>3 DEF TypeOK, stored, thread, ghost
  <1>10. /\ ThreadShape' /\ CursorShape(row)' /\ NewsShape'
         /\ NoCompletionMissed' /\ FailedMeansGone'
    <2>1. owner' = owner /\ (owner \in Runs => job = "pending")
      BY <1>0 DEF IInv, NewsShape, stored
    <2> QED BY <1>0, <2>1, JobKept DEF stored, ghost
  <1>11. ReadShape(r)'
    <2>1. /\ got'[r].done \subseteq got'[r].seen /\ got'[r].seen \subseteq 1..born'
          /\ running' \notin got'[r].done
      BY <1>0, <1>1, <1>3, <1>8 DEF ReadShape, thread
    <2>2. ASSUME NEW t \in got'[r].seen \ got'[r].done
          PROVE  /\ \A u \in got'[r].seen : u <= t
                 /\ mine'[r].mode = "later" /\ t = mine'[r].id => mine'[r].open
      <3>1. CASE t \in S
        <4>1. t \notin D
          BY <1>3, <2>2
        <4>2. /\ \A u \in S : u <= t
              /\ mine[r].mode = "later" /\ t = mine[r].id => mine[r].open
          BY <1>0, <3>1, <4>1 DEF ReadShape
        <4>3. \A u \in page : u < t
          BY <1>5, <1>6, <3>1
        <4>4. \A u \in S \union page : u <= t
          <5>1. S \union page \subseteq Int
            BY <1>8a
          <5>2. ASSUME NEW u \in page PROVE u <= t
            BY <3>1, <4>3, <5>1
          <5> QED BY <4>2, <5>2
        <4> QED BY <1>3, <4>2, <4>4
      <3>2. CASE t \in page /\ t \notin S
        <4>1. t = running /\ t = born /\ t # NoTurn
          BY <1>1, <1>3, <1>8, <2>2, <3>2 DEF NoTurn
        <4>2. \A u \in S \union page : u <= t
          <5>1. \A u \in 1..born : u <= born
            BY <1>1
          <5> QED BY <1>8a, <4>1, <5>1
        <4>3. mine[r].mode = "later" /\ t = mine[r].id => mine[r].open
          BY <1>0, <4>1 DEF CursorShape
        <4> QED BY <1>3, <4>2, <4>3
      <3> QED BY <1>3, <2>2, <3>1, <3>2
    <2>3. ASSUME NEW t \in history, NEW u \in S \union page, NEW v \in S \union page, u <= t, t <= v
          PROVE  t \in S \union page
      <3>1. /\ t \in Int /\ u \in Int /\ v \in Int /\ S \subseteq Int
        BY <1>1, <1>8a
      <3>2. CASE t \notin older
        <4>1. PICK s \in S : s <= t
          BY <1>7, <3>2
        <4>2. v \in S
          <5>1. CASE v \in page
            <6>1. v < s
              BY <1>5, <1>6, <5>1
            <6> QED BY <2>3, <3>1, <4>1, <6>1
          <5> QED BY <2>3, <5>1
        <4> QED BY <1>0, <2>3, <4>1, <4>2 DEF ReadShape
      <3>3. CASE t \in older
        <4>1. u \in page
          <5>1. CASE u \in S
            <6>1. t < u
              BY <1>6, <3>3, <5>1
            <6> QED BY <2>3, <3>1, <6>1
          <5> QED BY <2>3, <5>1
        <4> QED BY <1>5, <2>3, <3>1, <3>3, <4>1
      <3> QED BY <3>2, <3>3
    <2>4. history' = history
      BY <1>0 DEF thread
    <2> QED BY <1>3, <2>1, <2>2, <2>3, <2>4 DEF ReadShape
  <1>12. PlaceShape(r)'
    <2>1. /\ w.id = NoTurn => S = {}
          /\ w.id \in history => \A u \in S : w.id < u
      BY <1>0 DEF PlaceShape
    <2>2. w.id \in history => w.id \in older
      BY <2>1 DEF older
    <2>3. history' = history /\ mine' = mine
      BY <1>0 DEF thread
    <2>4. CASE w.id = NoTurn \/ w.id \in page
      <3>1. pc'[r] = "found"
        BY <1>3, <2>4
      <3>2. w.id # NoTurn => w.id \in got'[r].seen
        BY <1>3, <2>4
      <3>3. ASSUME w.id = NoTurn, w.mode = "later"
            PROVE  \/ got'[r].done # {}
                   \/ \A t \in history : \A v \in got'[r].seen : t <= v => t \in got'[r].seen
        <4>1. S = {} /\ older = history /\ n = PageSize
          BY <2>1, <3>3 DEF older, n
        <4>2. \A t \in history : running \in history => t <= running
          BY <1>1 DEF NoTurn
        <4>3. PageSize \in Nat \ {0, 1} /\ history \in SUBSET (1..born)
          BY <1>1, SizesAssumption
        <4>4. page = Newest(history, PageSize)
          BY <4>1 DEF page
        <4>5. \/ page \ {running} # {}
              \/ \A t \in history : \A v \in page : t <= v => t \in page
          BY <1>1, <4>2, <4>3, <4>4, PageHasDone
        <4> QED BY <1>3, <4>1, <4>5
      <3> QED BY <2>3, <3>1, <3>2, <3>3 DEF PlaceShape
    <2>5. CASE w.id # NoTurn /\ w.id \notin page /\ page = older
      <3>1. pc'[r] = "missing" /\ w.id \notin history
        BY <1>3, <2>2, <2>5
      <3> QED BY <2>3, <2>5, <3>1 DEF PlaceShape
    <2>6. CASE w.id # NoTurn /\ w.id \notin page /\ page # older
      <3>1. pc'[r] = "reading"
        BY <1>3, <2>6
      <3>2. ASSUME w.id \in history, NEW u \in S \union page PROVE w.id < u
        <4>1. CASE u \in S
          BY <2>1, <3>2, <4>1
        <4>2. CASE u \in page
          <5>1. ~(w.id >= u)
            BY <1>5, <2>2, <2>6, <3>2, <4>2
          <5> QED BY <1>1, <1>8, <4>2, <5>1
        <4> QED BY <3>2, <4>1, <4>2
      <3> QED BY <1>3, <2>3, <2>6, <3>1, <3>2 DEF PlaceShape
    <2> QED BY <2>4, <2>5, <2>6
  <1>13. CursorShape(mine[r])' /\ LeaseShape(r)'
    BY <1>0 DEF CursorShape, LeaseShape, thread, stored
  <1>14. ASSUME NEW q \in Runs, q # r PROVE RunShape(q)'
    BY <1>0, <1>3, <1>14, OthersKeep DEF stored, ghost
  <1> QED BY <1>9, <1>10, <1>11, <1>12, <1>13, <1>14 DEF IInv, RunShape

(* What an event tells of are turns, none of them beyond the new cursor.   *)
LEMMA ToldShape ==
  ASSUME IInv, NEW r \in Runs
  PROVE  Evidence(r) \subseteq got[r].done /\ Told(r) \subseteq Turns
  <1>1. Evidence(r) \subseteq got[r].done
    BY DEF Evidence, After
  <1>2. /\ got[r].seen \in SUBSET (1..born) /\ got[r].done \subseteq got[r].seen
        /\ born \in Nat /\ born <= MaxTurns /\ MaxTurns \in Nat
    BY Basics
  <1>3. Latest(got[r].seen) \in 0..born
    BY <1>2, LatestIsLast
  <1>4. 1..(Latest(got[r].seen) - 1) \subseteq Turns
    BY <1>2, <1>3 DEF Turns
  <1>5. got[r].done \subseteq Turns
    BY <1>2 DEF Turns
  <1> QED BY <1>1, <1>4, <1>5 DEF Told, After

LEMMA DeliveryStep ==
  ASSUME IInv, NEW r \in Runs, StartDelivery(r) \/ Accept(r)
  PROVE  IInv'
  <1>0. TypeOK /\ PlaceShape(r) /\ UNCHANGED <<reading, stored, thread, since, settled>>
        /\ reported' \in {reported, reported \union Told(r)}
        /\ pc[r] \in {"found", "deliver"} /\ Evidence(r) # {}
    BY DEF IInv, StartDelivery, Accept, PlaceShape, ghost
  <1>1. \E step \in {"deliver", "accepted"} :
          pc' = [pc EXCEPT ![r] = step] /\ (step = "accepted" => Told(r) \subseteq reported')
    BY DEF StartDelivery, Accept, Goto
  <1>2. TypeOK'
    <2>1. reported' \subseteq Turns /\ settled' \subseteq reported'
      BY <1>0, ToldShape DEF TypeOK
    <2> QED BY <1>0, <1>1, <2>1 DEF TypeOK, reading, stored, thread
  <1>3. /\ ThreadShape' /\ CursorShape(row)' /\ NewsShape'
        /\ NoCompletionMissed' /\ FailedMeansGone'
    <2>1. owner' = owner /\ (owner \in Runs => job = "pending") /\ reported \subseteq reported'
      BY <1>0 DEF IInv, NewsShape, stored
    <2> QED BY <1>0, <2>1, JobKept DEF stored
  <1>4. ASSUME NEW q \in Runs PROVE RunShape(q)'
    <2>1. CASE q # r
      <3>1. UNCHANGED <<pc[q], mine[q], got[q], thread, owner, row>> /\ reported \subseteq reported'
        BY <1>0, <1>1, <2>1 DEF TypeOK, reading, stored
      <3> QED BY <3>1, OthersKeep
    <2>2. CASE q = r
      <3>1. /\ pc'[r] \in {"deliver", "accepted"}
            /\ pc'[r] = "accepted" => Told(r) \subseteq reported'
        BY <1>0, <1>1 DEF TypeOK
      <3>2. Evidence(r)' = Evidence(r) /\ Told(r)' = Told(r)
        BY <1>0 DEF Evidence, Told, reading
      <3>3. CursorShape(mine[r])' /\ ReadShape(r)' /\ LeaseShape(r)'
        BY <1>0 DEF IInv, CursorShape, ReadShape, LeaseShape, reading, stored, thread
      <3>4. PlaceShape(r)'
        BY <1>0, <3>1, <3>2 DEF PlaceShape, reading, thread
      <3> QED BY <2>2, <3>3, <3>4 DEF RunShape
    <2> QED BY <2>1, <2>2
  <1> QED BY <1>2, <1>3, <1>4 DEF IInv, RunShape

LEMMA StopStep ==
  ASSUME IInv, NEW r \in Runs, Stop(r), UNCHANGED thread, reported \subseteq reported',
         (owner' = owner /\ row' = row) \/ owner' = NoRun
  PROVE  /\ pc' \in [Runs -> {"idle", "reading", "found", "missing", "deliver", "accepted"}]
         /\ mine' \in [Runs -> Conditions]
         /\ got' \in [Runs -> [seen : SUBSET Turns, done : SUBSET Turns]]
         /\ \A q \in Runs : RunShape(q)'
  <1>0. TypeOK
    BY DEF IInv
  <1>1. /\ pc' \in [Runs -> {"idle", "reading", "found", "missing", "deliver", "accepted"}]
        /\ mine' \in [Runs -> Conditions]
        /\ got' \in [Runs -> [seen : SUBSET Turns, done : SUBSET Turns]]
    BY <1>0, NoRowShape, NothingReadShape DEF Stop, Goto, TypeOK
  <1>2. ASSUME NEW q \in Runs PROVE RunShape(q)'
    <2>1. CASE q = r
      <3>1. pc'[q] = "idle" /\ mine'[q] = NoRow /\ got'[q] = NothingRead
        BY <1>0, <2>1 DEF Stop, Goto, TypeOK
      <3>2. CursorShape(mine[q])'
        BY <3>1, NoRowShape, Basics DEF CursorShape, NoTurn, thread
      <3>3. ReadShape(q)' /\ PlaceShape(q)' /\ LeaseShape(q)'
        BY <3>1, NothingReadShape DEF ReadShape, PlaceShape, LeaseShape
      <3> QED BY <3>2, <3>3 DEF RunShape
    <2>2. CASE q # r
      <3>1. UNCHANGED <<pc[q], mine[q], got[q]>>
        BY <1>0, <2>2 DEF Stop, Goto, TypeOK
      <3>2. owner' = q => owner = q /\ row' = row
        BY RunsAssumption
      <3> QED BY <3>1, <3>2, OthersKeep
    <2> QED BY <2>1, <2>2
  <1> QED BY <1>1, <1>2

LEMMA LostStep ==
  ASSUME IInv, NEW r \in Runs, LeaseLost(r) \/ Crash(r)
  PROVE  IInv'
  <1>0. TypeOK /\ Stop(r) /\ UNCHANGED <<stored, thread, ghost>>
    BY DEF IInv, LeaseLost, Crash
  <1>1. /\ pc' \in [Runs -> {"idle", "reading", "found", "missing", "deliver", "accepted"}]
        /\ mine' \in [Runs -> Conditions]
        /\ got' \in [Runs -> [seen : SUBSET Turns, done : SUBSET Turns]]
        /\ \A q \in Runs : RunShape(q)'
    <2>1. UNCHANGED thread /\ reported \subseteq reported' /\ owner' = owner /\ row' = row
      BY <1>0 DEF stored, ghost
    <2> QED BY <1>0, <2>1, StopStep
  <1>2. TypeOK'
    BY <1>0, <1>1 DEF TypeOK, stored, thread, ghost
  <1>3. /\ ThreadShape' /\ CursorShape(row)' /\ NewsShape'
        /\ NoCompletionMissed' /\ FailedMeansGone'
    <2>1. owner' = owner /\ (owner \in Runs => job = "pending")
      BY <1>0 DEF IInv, NewsShape, stored
    <2> QED BY <1>0, <2>1, JobKept DEF stored, ghost
  <1> QED BY <1>1, <1>2, <1>3 DEF IInv, RunShape

-----------------------------------------------------------------------------
(* The steps that write the job back. *)

LEMMA CommitShape ==
  ASSUME IInv, NEW r \in Runs, NEW status, NEW condition,
         status \in {"pending", "fired", "failed", "refused", "uncertain"},
         condition \in Conditions, CursorShape(condition),
         status = "failed" => condition.id \notin history,
         Commit(r, status, condition), UNCHANGED <<thread, reported>>,
         settled' \subseteq reported
  PROVE  /\ TypeOK' /\ ThreadShape' /\ CursorShape(row)' /\ FailedMeansGone'
         /\ job' = status /\ row' = condition /\ job = "pending" /\ owner' = NoRun
         /\ \A q \in Runs : RunShape(q)'
  <1>0. /\ TypeOK /\ owner' = NoRun /\ job' = status /\ row' = condition /\ job = "pending"
        /\ Stop(r) /\ since' \in Conditions
    BY DEF IInv, TypeOK, Commit, Mine
  <1>1. /\ pc' \in [Runs -> {"idle", "reading", "found", "missing", "deliver", "accepted"}]
        /\ mine' \in [Runs -> Conditions]
        /\ got' \in [Runs -> [seen : SUBSET Turns, done : SUBSET Turns]]
        /\ \A q \in Runs : RunShape(q)'
    BY <1>0, StopStep
  <1>2. TypeOK'
    BY <1>0, <1>1 DEF TypeOK, thread
  <1>3. ThreadShape' /\ CursorShape(row)' /\ FailedMeansGone'
    BY <1>0 DEF IInv, ThreadShape, CursorShape, FailedMeansGone, thread
  <1> QED BY <1>0, <1>1, <1>2, <1>3

(* The condition stays as it was. *)
LEMMA KeepStep ==
  ASSUME IInv, NEW r \in Runs, Gone(r) \/ Release(r) \/ Uncertain(r) \/ Refused(r)
  PROVE  IInv'
  <1>0. row \in Conditions /\ CursorShape(row) /\ NewsShape /\ settled \subseteq reported
    BY DEF IInv, TypeOK
  <1>1. PICK status \in {"pending", "failed", "refused", "uncertain"} :
          Commit(r, status, row) /\ (status = "failed" => Gone(r))
    BY DEF Gone, Release, Uncertain, Refused
  <1>2. UNCHANGED <<thread, reported, settled>>
    BY DEF Gone, Release, Uncertain, Refused
  <1>3. status = "failed" => row.id \notin history
    BY <1>1 DEF Gone, Commit, Mine, IInv, LeaseShape, PlaceShape
  <1>4. /\ TypeOK' /\ ThreadShape' /\ CursorShape(row)' /\ FailedMeansGone'
        /\ job' = status /\ row' = row /\ job = "pending" /\ owner' = NoRun
        /\ \A q \in Runs : RunShape(q)'
    BY <1>0, <1>1, <1>2, <1>3, CommitShape
  <1>5. since' = since
    BY <1>1 DEF Commit
  <1>6. NewsShape'
    BY <1>0, <1>1, <1>2, <1>4, <1>5, RunsAssumption DEF NewsShape
  <1>7. NoCompletionMissed'
    <2>1. Done' = Done
      BY <1>2 DEF Done, thread
    <2> QED BY <1>2, <1>4, <1>5, <2>1 DEF IInv, NoCompletionMissed
  <1> QED BY <1>4, <1>6, <1>7 DEF IInv, RunShape

(* A turn that ended after the cursor the run started from, and is not     *)
(* beyond the new one, was read as terminal or is older than one that was  *)
(* read.                                                                   *)
LEMMA NothingBetween ==
  ASSUME IInv, NEW r \in Runs, mine[r].mode = "later", pc[r] \in {"found", "accepted"},
         NEW c, c = CursorAt(got[r].seen, got[r].done),
         NEW t \in Done, Beyond(mine[r], t), ~Beyond(c, t)
  PROVE  t \in Told(r) /\ Evidence(r) # {}
  <1> DEFINE l == Latest(got[r].seen)
  <1> DEFINE w == mine[r]
  <1>1. /\ l \in 0..born /\ born \in Nat
        /\ got[r].seen = {} => l = NoTurn
        /\ got[r].seen # {} => l \in got[r].seen /\ \A u \in got[r].seen : u <= l
        /\ \A u \in Nat : Beyond(c, u) <=> u > l \/ (u = l /\ l \in got[r].seen \ got[r].done)
    BY CursorTaken
  <1>2. /\ history \subseteq 1..born /\ w.id \in 0..born
        /\ got[r].seen \subseteq 1..born /\ got[r].done \subseteq got[r].seen
    BY Basics
  <1>3. t \in history /\ t \in 1..born
    BY <1>2 DEF Done
  <1>4. t <= l /\ ~(t = l /\ l \in got[r].seen \ got[r].done)
    <2>1. t \in Nat
      BY <1>1, <1>3
    <2>2. ~(t > l) /\ ~(t = l /\ l \in got[r].seen \ got[r].done)
      BY <1>1, <2>1
    <2> HIDE DEF l
    <2> QED BY <1>1, <2>1, <2>2
  <1>5. ReadShape(r) /\ PlaceShape(r)
    BY DEF IInv
  <1> HIDE DEF l
  <1>6. l \in got[r].seen /\ \A u \in got[r].seen : u <= l
    BY <1>1, <1>3, <1>4 DEF NoTurn
  <1>7. ASSUME t \in got[r].seen PROVE t \in got[r].done
    <2>1. CASE t \notin got[r].done
      <3>1. l <= t
        BY <1>5, <1>6, <1>7, <2>1 DEF ReadShape
      <3>2. t = l
        BY <1>1, <1>3, <1>4, <3>1
      <3> QED BY <1>4, <1>6, <2>1, <3>2
    <2> QED BY <2>1
  <1>8. got[r].done \intersect {u \in 1..born : Beyond(w, u)} \subseteq Evidence(r)
    BY DEF Evidence, After, Beyond
  <1>9. t \in Told(r)
    <2>1. CASE t = l
      BY <1>3, <1>6, <1>7, <1>8, <2>1 DEF Told
    <2>2. CASE t # l
      <3>1. t \in 1..(l - 1)
        BY <1>1, <1>3, <1>4, <2>2
      <3> QED BY <3>1 DEF Told, After, Beyond, l
    <2> QED BY <2>1, <2>2
  <1>10. Evidence(r) # {}
    <2>1. CASE w.id # NoTurn
      <3>1. w.id \in got[r].seen /\ w.id <= t
        BY <1>2, <1>3, <1>5, <2>1 DEF PlaceShape, Beyond
      <3>2. t \in got[r].seen
        BY <1>3, <1>4, <1>5, <1>6, <3>1 DEF ReadShape
      <3> QED BY <1>3, <1>7, <1>8, <3>2
    <2>2. CASE w.id = NoTurn /\ got[r].done # {}
      <3>1. PICK d \in got[r].done : TRUE
        BY <2>2
      <3>2. d \in 1..born /\ Beyond(w, d)
        BY <1>2, <2>2, <3>1 DEF Beyond, NoTurn
      <3> QED BY <1>8, <3>1, <3>2
    <2>3. CASE w.id = NoTurn /\ got[r].done = {}
      <3>1. t \in got[r].seen
        BY <1>3, <1>4, <1>5, <1>6, <2>3 DEF PlaceShape
      <3> QED BY <1>3, <1>7, <1>8, <3>1
    <2> QED BY <2>1, <2>2, <2>3
  <1> QED BY <1>9, <1>10

(* The condition is replaced by the cursor for what the run read.          *)
LEMMA CursorStep ==
  ASSUME IInv, NEW r \in Runs, NEW status \in {"pending", "fired"},
         mine[r].mode # "exact", pc[r] \in {"found", "accepted"},
         pc[r] = "found" => Evidence(r) = {},
         NEW c, c = CursorAt(got[r].seen, got[r].done), Commit(r, status, c),
         UNCHANGED <<thread, reported>>,
         \/ settled' = settled
         \/ pc[r] = "accepted" /\ settled' = settled \union Told(r)
  PROVE  IInv'
  <1>0. TypeOK /\ NewsShape /\ NoCompletionMissed /\ PlaceShape(r) /\ mine[r] = row
    BY DEF IInv, Commit, Mine, LeaseShape
  <1>1. /\ c \in Conditions /\ c.mode = "later" /\ CursorShape(c)
    BY CursorTaken
  <1>2. settled' \subseteq reported
    BY <1>0 DEF TypeOK, PlaceShape
  <1>3. /\ TypeOK' /\ ThreadShape' /\ CursorShape(row)' /\ FailedMeansGone'
        /\ job' = status /\ row' = c /\ job = "pending" /\ owner' = NoRun
        /\ \A q \in Runs : RunShape(q)'
    BY <1>1, <1>2, CommitShape
  <1>4. since' = IF row.mode = "legacy" THEN c ELSE since
    BY <1>1 DEF Commit
  <1>5. row.mode \in {"later", "legacy"}
    BY <1>0 DEF TypeOK, Conditions
  <1>6. \A t \in settled : t \in Nat
    BY SizesAssumption, <1>0 DEF TypeOK, Turns
  <1>7. ASSUME row.mode = "later", NEW t \in Nat, Beyond(c, t) PROVE Beyond(row, t)
    <2>1. Beyond(mine[r], t)
      BY <1>0, <1>7, CursorAdvances
    <2> QED BY <1>0, <2>1
  <1>8. ASSUME NEW t \in settled' PROVE ~Beyond(c, t)
    <2>1. CASE t \in settled
      <3>1. CASE row.mode = "later"
        BY <1>0, <1>6, <1>7, <2>1, <3>1 DEF NewsShape
      <3>2. CASE row.mode = "legacy"
        BY <1>0, <2>1, <3>2 DEF NewsShape
      <3> QED BY <1>5, <3>1, <3>2
    <2>2. CASE t \in Told(r)
      <3> DEFINE l == Latest(got[r].seen)
      <3>1. /\ l \in 0..born /\ born \in Nat
            /\ got[r].seen # {} => l \in got[r].seen /\ \A u \in got[r].seen : u <= l
            /\ \A u \in Nat : Beyond(c, u) <=> u > l \/ (u = l /\ l \in got[r].seen \ got[r].done)
        BY CursorTaken
      <3>2. got[r].seen \subseteq 1..born /\ got[r].done \subseteq got[r].seen
        BY Basics
      <3>3. t \in got[r].done \/ t \in 1..(l - 1)
        BY <2>2, ToldShape DEF Told, After
      <3> HIDE DEF l
      <3>4. CASE t \in got[r].done
        <4>1. t \in got[r].seen /\ t \in Nat /\ t <= l
          BY <3>1, <3>2, <3>4
        <4>2. ~(t > l) /\ ~(t = l /\ l \in got[r].seen \ got[r].done)
          BY <3>1, <3>4, <4>1
        <4> QED BY <3>1, <4>1, <4>2
      <3>5. CASE t \in 1..(l - 1)
        <4>1. t \in Nat /\ ~(t > l) /\ t # l
          BY <3>1, <3>5
        <4> QED BY <3>1, <4>1
      <3> QED BY <3>3, <3>4, <3>5
    <2> QED BY <2>1, <2>2
  <1>9. NewsShape'
    <2>1. ASSUME job' = "pending", NEW t \in Nat, Beyond(c, t) PROVE Beyond(since', t)
      <3>1. CASE row.mode = "later"
        BY <1>0, <1>3, <1>4, <1>7, <2>1, <3>1 DEF NewsShape
      <3>2. CASE row.mode = "legacy"
        BY <1>4, <2>1, <3>2
      <3> QED BY <1>5, <3>1, <3>2
    <2> QED BY <1>1, <1>3, <1>8, <2>1, RunsAssumption DEF NewsShape
  <1>10. NoCompletionMissed'
    <2>1. Done' = Done
      BY DEF Done, thread
    <2> SUFFICES ASSUME NEW t \in Done, Beyond(since', t)
                 PROVE  t \in reported \/ Beyond(c, t)
      BY <1>3, <2>1 DEF NoCompletionMissed, After, Beyond
    <2>2. CASE row.mode = "legacy"
      BY <1>4, <2>2
    <2>3. CASE row.mode = "later"
      <3>1. t \in reported \/ Beyond(row, t)
        BY <1>0, <1>3, <1>4, <2>3 DEF NoCompletionMissed, After, Beyond
      <3>2. CASE Beyond(row, t) /\ ~Beyond(c, t)
        <4>1. t \in Told(r) /\ Evidence(r) # {}
          BY <1>0, <2>3, <3>2, NothingBetween
        <4> QED BY <1>0, <4>1 DEF PlaceShape
      <3> QED BY <3>1, <3>2
    <2> QED BY <1>5, <2>2, <2>3
  <1> QED BY <1>3, <1>9, <1>10 DEF IInv, RunShape

(* The stored condition of an exact watch does not change.                 *)
LEMMA ExactStep ==
  ASSUME IInv, NEW r \in Runs, NEW status \in {"pending", "fired"},
         mine[r].mode = "exact", pc[r] # "idle",
         Commit(r, status, mine[r]), UNCHANGED <<thread, reported>>,
         settled' \subseteq reported, status = "pending" => settled' = settled
  PROVE  IInv'
  <1>0. TypeOK /\ NewsShape /\ mine[r] = row /\ CursorShape(row) /\ row \in Conditions
    BY DEF IInv, TypeOK, Commit, Mine, LeaseShape
  <1>1. /\ TypeOK' /\ ThreadShape' /\ CursorShape(row)' /\ FailedMeansGone'
        /\ job' = status /\ row' = row /\ job = "pending" /\ owner' = NoRun
        /\ \A q \in Runs : RunShape(q)'
    BY <1>0, CommitShape
  <1>2. row'.mode = "exact"
    BY <1>0, <1>1
  <1>3. NewsShape' /\ NoCompletionMissed'
    BY <1>1, <1>2, RunsAssumption DEF NewsShape, NoCompletionMissed
  <1> QED BY <1>1, <1>3 DEF IInv, RunShape

LEMMA NotReadyStep ==
  ASSUME IInv, NEW r \in Runs, NotReady(r)
  PROVE  IInv'
  <1>0. /\ pc[r] = "found" /\ Evidence(r) = {} /\ Commit(r, "pending", NextRow(r))
        /\ UNCHANGED <<thread, reported, settled>> /\ settled \subseteq reported
    BY DEF NotReady, IInv, TypeOK
  <1>1. CASE mine[r].mode = "exact"
    <2>1. NextRow(r) = mine[r]
      BY <1>1 DEF NextRow
    <2> QED BY <1>0, <1>1, <2>1, ExactStep
  <1>2. CASE mine[r].mode # "exact"
    <2>1. NextRow(r) = CursorAt(got[r].seen, got[r].done)
      BY <1>2 DEF NextRow
    <2> QED BY <1>0, <1>2, <2>1, CursorStep
  <1> QED BY <1>1, <1>2

LEMMA FiredStep ==
  ASSUME IInv, NEW r \in Runs, Fired(r)
  PROVE  IInv'
  <1>0. /\ pc[r] = "accepted" /\ settled' = settled \union Told(r) /\ UNCHANGED <<thread, reported>>
        /\ settled \subseteq reported /\ Told(r) \subseteq reported
    BY DEF Fired, IInv, TypeOK, PlaceShape
  <1>1. PICK status \in {"pending", "fired"} :
          Commit(r, status, NextRow(r)) /\ (mine[r].mode = "exact" => status = "fired")
    BY DEF Fired
  <1>2. CASE mine[r].mode = "exact"
    <2>1. NextRow(r) = mine[r]
      BY <1>2 DEF NextRow
    <2> QED BY <1>0, <1>1, <1>2, <2>1, ExactStep
  <1>3. CASE mine[r].mode # "exact"
    <2>1. NextRow(r) = CursorAt(got[r].seen, got[r].done)
      BY <1>3 DEF NextRow
    <2> QED BY <1>0, <1>1, <1>3, <2>1, CursorStep
  <1> QED BY <1>2, <1>3

-----------------------------------------------------------------------------
(* The theorems. *)

(* The invariant the theorems rest on.                                     *)
THEOREM StopInvariance == Spec => []IInv
  <1>1. ASSUME IInv, UNCHANGED vars PROVE IInv'
    <2>1. /\ TypeOK' /\ ThreadShape' /\ CursorShape(row)' /\ NewsShape'
          /\ NoCompletionMissed' /\ FailedMeansGone'
      <3>1. TypeOK'
        BY <1>1 DEF IInv, vars, TypeOK
      <3>2. UNCHANGED <<job, row, since, settled, thread>> /\ owner' = owner /\ reported' = reported
            /\ (owner \in Runs => job = "pending")
        BY <1>1 DEF IInv, vars, NewsShape, thread
      <3> QED BY <1>1, <3>1, <3>2, JobKept
    <2>2. ASSUME NEW r \in Runs PROVE RunShape(r)'
      BY <1>1, OthersKeep DEF vars, thread
    <2> QED BY <2>1, <2>2 DEF IInv, RunShape
  <1>2. IInv /\ [Next]_vars => IInv'
    BY <1>1, ThreadStep, AddStep, ClaimStep, ReadStep, DeliveryStep, LostStep, NotReadyStep,
       KeepStep, FiredStep
    DEF Next, RunStep
  <1> QED BY <1>2, InitInv, PTL DEF Spec

(* The job, its runs and the history keep to their types. *)
THEOREM StopTypeCorrect == Spec => []TypeOK
  <1>1. IInv => TypeOK
    BY DEF IInv
  <1> QED BY <1>1, StopInvariance, PTL

(* Every turn that ends after the boundary is told of or will be noticed,  *)
(* for any page size, any number of turns and any runs that fail.          *)
THEOREM CompletionSafety == Spec => []NoCompletionMissed
  <1>1. IInv => NoCompletionMissed
    BY DEF IInv
  <1> QED BY <1>1, StopInvariance, PTL

(* Paging alone never makes the job lose its place: it fails only when its *)
(* turn was removed.                                                       *)
THEOREM AnchorSafety == Spec => []FailedMeansGone
  <1>1. IInv => FailedMeansGone
    BY DEF IInv
  <1> QED BY <1>1, StopInvariance, PTL

(* A leased delivery tells of a turn that ended after the boundary and of  *)
(* which no committed event has told.                                      *)
THEOREM NewsSafety == Spec => DeliversNews
  <1> DEFINE News == \A r \in Runs :
       pc[r] = "deliver" /\ pc'[r] = "accepted" /\ owner = r /\ mine[r].mode = "later" =>
         /\ Evidence(r) \ settled # {}
         /\ \A t \in Evidence(r) : t > since.id \/ (t = since.id /\ since.open)
  <1>1. IInv => News
    <2> SUFFICES ASSUME IInv, NEW r \in Runs, pc[r] = "deliver", owner = r, mine[r].mode = "later"
                 PROVE  /\ Evidence(r) \ settled # {}
                        /\ \A t \in Evidence(r) : t > since.id \/ (t = since.id /\ since.open)
      OBVIOUS
    <2>1. mine[r] = row /\ Evidence(r) # {} /\ job = "pending" /\ NewsShape
      BY DEF IInv, LeaseShape, PlaceShape, NewsShape
    <2>2. got[r].done \subseteq 1..born /\ born \in Nat
      BY Basics
    <2>3. ASSUME NEW t \in Evidence(r) PROVE Beyond(row, t) /\ t \in Nat
      BY <2>1, <2>2 DEF Evidence, After, Beyond
    <2>4. \A t \in Evidence(r) : t \notin settled
      BY <2>1, <2>3 DEF NewsShape
    <2>5. \A t \in Evidence(r) : Beyond(since, t)
      BY <2>1, <2>3 DEF NewsShape
    <2> QED BY <2>1, <2>4, <2>5 DEF Beyond
  <1>2. IInv => [News]_vars
    BY <1>1
  <1>3. Spec => [][News]_vars
    BY <1>2, StopInvariance, PTL
  <1> QED BY <1>3 DEF DeliversNews
=============================================================================
