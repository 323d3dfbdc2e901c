------------------------------ MODULE StopWatch ------------------------------
(***************************************************************************)
(* A `stop` job of codex-wakectl (conditions.py): it fires when a turn of  *)
(* the watched thread ends.  The job stores a cursor, the newest turn it   *)
(* has seen and whether that turn was still running.  A run reads the      *)
(* job, pages through the thread's history from the newest turn to the     *)
(* cursor, decides, delivers, and commits the new cursor.                  *)
(*                                                                         *)
(* The thread goes on meanwhile: turns start and end between two pages,    *)
(* between the decision and the delivery, between the delivery and the     *)
(* commit, and a rollback may remove the newest turns.  Runs die or lose   *)
(* their lease at any step; here a lease may be lost at any time, which    *)
(* is more than WakeQueue allows.                                          *)
(*                                                                         *)
(* A turn is its number in the order of creation: the history, newest      *)
(* first, is a set of numbers in descending order.  All turns but the      *)
(* running one are terminal.                                               *)
(***************************************************************************)
EXTENDS Integers, FiniteSets, FiniteSetsExt

CONSTANTS
  Runs,       \* codex-wakectl run processes
  NoRun,      \* lease_owner is NULL
  PageSize,   \* turns on a page of thread/turns/list
  Repeat,     \* the job was added with --repeat
  MaxTurns    \* bound: turns the thread ever has

ASSUME RunsAssumption == NoRun \notin Runs
ASSUME SizesAssumption == PageSize \in Nat \ {0, 1} /\ MaxTurns \in Nat
ASSUME RepeatAssumption == Repeat \in BOOLEAN

VARIABLES
  history,   \* the turns of the thread (external)
  running,   \* the turn in progress, NoTurn if there is none (external)
  born,      \* the number of turns ever created (external)
  job,       \* status of the job, "seeded" while `add` has not inserted it; "refused" is
             \* status failed with the error that the target takes input from its parent only
  row,       \* the stored condition
  owner,     \* column lease_owner
  pc,        \* pc[r]: where the run is
  mine,      \* mine[r]: the condition in the row the run claimed
  got,       \* got[r]: what the pages it read said: turns seen, those of them done
  since,     \* the first cursor the job ever stored: its boundary
  reported,  \* turns some accepted event tells of
  settled    \* turns whose event is committed

thread == <<history, running, born>>
stored == <<job, row, owner>>
reading == <<mine, got>>
ghost == <<since, reported, settled>>
vars == <<history, running, born, job, row, owner, pc, mine, got, since, reported, settled>>

NoTurn == 0
Turns == 1..MaxTurns
NothingRead == [seen |-> {}, done |-> {}]

(* id is cursorTurnId, open tells whether cursorTurnStatus is inProgress.  *)
(* An exact watch has turnId in id.  A legacy condition has no cursor, and *)
(* open is its observedActive.                                             *)
Conditions ==
  [mode : {"later", "exact", "legacy"}, id : Turns \union {NoTurn}, open : BOOLEAN]

Cursor(id, open) == [mode |-> "later", id |-> id, open |-> open]

NoRow == Cursor(NoTurn, FALSE)

TypeOK ==
  /\ history \subseteq Turns /\ running \in history \union {NoTurn} /\ born \in 0..MaxTurns
  /\ job \in {"absent", "seeded", "pending", "fired", "failed", "refused", "uncertain"}
  /\ row \in Conditions
  /\ owner \in Runs \union {NoRun}
  /\ pc \in [Runs -> {"idle", "reading", "found", "missing", "deliver", "accepted"}]
  /\ mine \in [Runs -> Conditions]
  /\ got \in [Runs -> [seen : SUBSET Turns, done : SUBSET Turns]]
  /\ since \in Conditions
  /\ reported \subseteq Turns /\ settled \subseteq reported

Init ==
  /\ history = {} /\ running = NoTurn /\ born = 0
  /\ job = "absent" /\ row = NoRow /\ owner = NoRun
  /\ pc = [r \in Runs |-> "idle"]
  /\ mine = [r \in Runs |-> NoRow]
  /\ got = [r \in Runs |-> NothingRead]
  /\ since = NoRow /\ reported = {} /\ settled = {}

-----------------------------------------------------------------------------
(* The watched thread. *)

TurnStarts ==
  /\ running = NoTurn
  /\ born < MaxTurns
  /\ born' = born + 1
  /\ running' = born + 1
  /\ history' = history \union {born + 1}
  /\ UNCHANGED <<stored, pc, reading, ghost>>

(* completed, interrupted or failed *)
TurnEnds ==
  /\ running # NoTurn
  /\ running' = NoTurn
  /\ UNCHANGED <<history, born, stored, pc, reading, ghost>>

Rollback ==
  /\ running = NoTurn
  /\ \E t \in history : history' = {u \in history : u < t}
  /\ UNCHANGED <<running, born, stored, pc, reading, ghost>>

Done == history \ {running}

-----------------------------------------------------------------------------
(* add stop *)

Newest(turns, n) == {t \in turns : Cardinality({u \in turns : u > t}) < n}

Latest(turns) == IF turns = {} THEN NoTurn ELSE Max(turns)

(* with_turn_cursor, for the newest of the turns seen. *)
CursorAt(seen, done) == Cursor(Latest(seen), Latest(seen) \in seen \ done)

(* The boundary is read before the row is inserted; a turn may start or    *)
(* end between the two.                                                    *)
Seed ==
  /\ job = "absent"
  /\ job' = "seeded"
  /\ \/ row' = CursorAt(history, Done)
     \/ \E t \in history : row' = [mode |-> "exact", id |-> t, open |-> FALSE]
  /\ UNCHANGED <<owner, thread, pc, reading, ghost>>

Insert ==
  /\ job = "seeded"
  /\ job' = "pending"
  /\ since' = row
  /\ UNCHANGED <<row, owner, thread, pc, reading, reported, settled>>

(* A job added by a release that stored no cursor. *)
InsertedBefore ==
  /\ job = "absent"
  /\ job' = "pending"
  /\ \E observedActive \in BOOLEAN :
       row' = [mode |-> "legacy", id |-> NoTurn, open |-> observedActive]
  /\ UNCHANGED <<owner, thread, pc, reading, ghost>>

-----------------------------------------------------------------------------
(* run *)

Goto(r, step) == pc' = [pc EXCEPT ![r] = step]

Stop(r) ==
  /\ Goto(r, "idle")
  /\ mine' = [mine EXCEPT ![r] = NoRow]
  /\ got' = [got EXCEPT ![r] = NothingRead]

(* The lease of another run may be over. *)
Claim(r) ==
  /\ pc[r] = "idle"
  /\ job = "pending"
  /\ owner' = r
  /\ mine' = [mine EXCEPT ![r] = row]
  /\ got' = [got EXCEPT ![r] = NothingRead]
  /\ Goto(r, "reading")
  /\ UNCHANGED <<job, row, thread, ghost>>

Mine(r) == job = "pending" /\ owner = r

(* Mutant of LastPage: the search ends with the first page.                *)
LastPageAlways(page, older) == TRUE

(* nextCursor is null when a page reaches the oldest turn. *)
LastPage(page, older) == page = older

(* turns_through_cursor reads the next page.  Without a cursor one page is *)
(* enough; a legacy condition asks for the newest turn alone.              *)
ReadPage(r) ==
  /\ pc[r] = "reading"
  /\ LET w == mine[r]
         older == {t \in history : \A u \in got[r].seen : t < u}
         page == Newest(older, IF w.mode = "legacy" THEN 1 ELSE PageSize)
     IN  /\ got' = [got EXCEPT ![r] =
              [seen |-> @.seen \union page, done |-> @.done \union (page \ {running})]]
         /\ Goto(r, IF w.id = NoTurn \/ w.id \in page THEN "found"
                    ELSE IF LastPage(page, older) THEN "missing" ELSE "reading")
  /\ UNCHANGED <<mine, stored, thread, ghost>>

(* Mutant of After: the turn at the cursor counts again.                   *)
AfterOrAt(w, done) == {t \in done : t >= w.id}

(* The turns that ended after the cursor was recorded. *)
After(w, done) == {t \in done : t > w.id \/ (t = w.id /\ w.open)}

(* What the decision of a run rests on; it is to fire when there is any.   *)
Evidence(r) ==
  LET w == mine[r]
      done == got[r].done
  IN  IF w.mode = "exact" THEN done \intersect {w.id}
      ELSE IF w.mode = "legacy" THEN IF w.open THEN done ELSE {}
      ELSE After(w, done)

(* The turns one event stands for, several of them coalesced: also those   *)
(* older than the page that was enough for the decision.                   *)
Told(r) ==
  Evidence(r) \union
    (IF mine[r].mode = "later" THEN After(mine[r], 1..(Latest(got[r].seen) - 1)) ELSE {})

(* Mutants of NextRow: the status of the turn is not stored; an empty      *)
(* history is not told from a missing one.                                 *)
NextRowClosed(r) ==
  IF mine[r].mode = "exact" THEN mine[r] ELSE Cursor(Latest(got[r].seen), FALSE)
NextRowEmpty(r) ==
  IF mine[r].mode = "exact" THEN mine[r]
  ELSE IF got[r].seen = {} THEN Cursor(-1, FALSE)
  ELSE CursorAt(got[r].seen, got[r].done)

(* The condition the run commits. *)
NextRow(r) ==
  IF mine[r].mode = "exact" THEN mine[r] ELSE CursorAt(got[r].seen, got[r].done)

(* The result is written and the lease given back. *)
Commit(r, status, condition) ==
  /\ Mine(r)
  /\ job' = status
  /\ row' = condition
  /\ owner' = NoRun
  /\ since' = IF row.mode = "legacy" /\ condition.mode = "later" THEN condition ELSE since
  /\ Stop(r)

NotReady(r) ==
  /\ pc[r] = "found"
  /\ Evidence(r) = {}
  /\ Commit(r, "pending", NextRow(r))
  /\ UNCHANGED <<thread, reported, settled>>

(* The cursor, or the exact turn, is gone from the history. *)
Gone(r) ==
  /\ pc[r] = "missing"
  /\ Commit(r, "failed", row)
  /\ UNCHANGED <<thread, reported, settled>>

(* A request failed, or the target is not ready for the event: whatever    *)
(* the evaluation found is dropped.                                        *)
Release(r) ==
  /\ pc[r] \in {"reading", "deliver"}
  /\ Commit(r, "pending", row)
  /\ UNCHANGED <<thread, reported, settled>>

(* The lease is renewed before the delivery. *)
StartDelivery(r) ==
  /\ pc[r] = "found"
  /\ Evidence(r) # {}
  /\ Mine(r)
  /\ Goto(r, "deliver")
  /\ UNCHANGED <<reading, stored, thread, ghost>>

Accept(r) ==
  /\ pc[r] = "deliver"
  /\ reported' = reported \union Told(r)
  /\ Goto(r, "accepted")
  /\ UNCHANGED <<reading, stored, thread, since, settled>>

(* Whether the event arrived or is attended to is not known. *)
Uncertain(r) ==
  /\ pc[r] \in {"deliver", "accepted"}
  /\ Commit(r, "uncertain", row)
  /\ UNCHANGED <<thread, reported, settled>>

(* The target takes no direct input: neither the event nor, after the      *)
(* event, the turn that was to attend to it.                               *)
Refused(r) ==
  /\ pc[r] \in {"deliver", "accepted"}
  /\ Commit(r, "refused", row)
  /\ UNCHANGED <<thread, reported, settled>>

(* A repeating job stays pending unless it reached its number of fires.    *)
Fired(r) ==
  /\ pc[r] = "accepted"
  /\ \/ Commit(r, "fired", NextRow(r))
     \/ Repeat /\ mine[r].mode # "exact" /\ Commit(r, "pending", NextRow(r))
  /\ settled' = settled \union Told(r)
  /\ UNCHANGED <<thread, reported>>

(* The lease went to another run: nothing is written. *)
LeaseLost(r) ==
  /\ pc[r] # "idle"
  /\ ~Mine(r)
  /\ Stop(r)
  /\ UNCHANGED <<stored, thread, ghost>>

Crash(r) ==
  /\ pc[r] # "idle"
  /\ Stop(r)
  /\ UNCHANGED <<stored, thread, ghost>>

RunStep(r) ==
  \/ Claim(r) \/ ReadPage(r)
  \/ NotReady(r) \/ Gone(r) \/ Release(r)
  \/ StartDelivery(r) \/ Accept(r) \/ Uncertain(r) \/ Refused(r) \/ Fired(r)
  \/ LeaseLost(r) \/ Crash(r)

Next ==
  \/ TurnStarts \/ TurnEnds \/ Rollback
  \/ Seed \/ Insert \/ InsertedBefore
  \/ \E r \in Runs : RunStep(r)

Spec == Init /\ [][Next]_vars

-----------------------------------------------------------------------------
(* Properties. *)

(* A turn that ended after the boundary is told of by an accepted event or *)
(* will be noticed by the next evaluation from the stored cursor: no       *)
(* crash, failed delivery, coalescing, or turn that starts and ends        *)
(* between two pages or two passes makes the job forget it.                *)
NoCompletionMissed ==
  job = "pending" /\ row.mode = "later" =>
    After(since, Done) \subseteq reported \union After(row, Done)

(* While its lease lasts, a run delivers only when a turn ended after the  *)
(* boundary that no committed event has told of: a turn that was already   *)
(* terminal at the boundary never fires the job, and none fires it twice   *)
(* when nothing was lost.                                                  *)
DeliversNews ==
  [][\A r \in Runs :
       pc[r] = "deliver" /\ pc'[r] = "accepted" /\ owner = r /\ mine[r].mode = "later" =>
         /\ Evidence(r) \ settled # {}
         /\ \A t \in Evidence(r) : t > since.id \/ (t = since.id /\ since.open)]_vars

(* The job gives up only because the turn it is anchored at was removed:   *)
(* new turns and paging alone never make it lose its place.                *)
FailedMeansGone == job = "failed" => row.id \notin history
=============================================================================
