---------------------------- MODULE LimitHistory ----------------------------
(***************************************************************************)
(* codex-limitctl history (rollouts.py): how the use of one rate-limit     *)
(* window of the account changed over time, put together from the          *)
(* snapshots the threads wrote into their rollouts.  A thread may write a  *)
(* state of the account down long after it was true, and the time of the   *)
(* reset is reported with some drift.                                      *)
(***************************************************************************)
EXTENDS Integers, Sequences, FiniteSets

CONSTANTS
  Threads,
  Missing,        \* whether a snapshot may come without the time of its reset
  Tolerance,      \* RESET_TOLERANCE_SECONDS
  WindowLength,   \* seconds between two resets of the window
  MaxSnapshots, MaxUsed, MaxResets   \* bounds

VARIABLES
  account,       \* the states of the account so far (external)
  log,           \* per thread the snapshots in its rollout (external)
  files,         \* threads whose rollout is still to be read
  candidates,    \* the rows taken from the files
  pc, history    \* the rows that are shown, in the order in which they were written

vars == <<account, log, files, candidates, pc, history>>

None == 0 - 1

(* at: when a snapshot was written; resets: as reported.  used and boundary *)
(* are those of the state it shows.                                         *)
Snapshots == [boundary : 0..MaxResets, used : 0..MaxUsed, resets : Nat \union {None}, at : Nat]

Recorded == UNION {{t} \X DOMAIN log[t] : t \in Threads}
Written == Cardinality(Recorded)

TypeOK ==
  /\ account \in Seq([boundary : 0..MaxResets, used : 0..MaxUsed])
  /\ log \in [Threads -> Seq(Snapshots)] /\ Written <= MaxSnapshots
  /\ files \subseteq Threads /\ pc \in {"read", "done"}
  /\ candidates \subseteq Snapshots /\ history \subseteq candidates
  /\ pc = "done" => files = {}

Init ==
  /\ account = <<[boundary |-> 0, used |-> 0]>>
  /\ log = [t \in Threads |-> <<>>]
  /\ files = Threads /\ candidates = {} /\ pc = "read" /\ history = {}

-----------------------------------------------------------------------------
(* The account and the threads (external). *)

AccountChanges ==
  /\ pc = "read"
  /\ LET now == account[Len(account)] IN
       \/ now.used < MaxUsed /\ account' = Append(account, [now EXCEPT !.used = @ + 1])
       \/ /\ now.boundary < MaxResets
          /\ account' = Append(account, [boundary |-> now.boundary + 1, used |-> 0])
  /\ UNCHANGED <<log, files, candidates, pc, history>>

(* The drift is at most half the tolerance. *)
Snapshot(t) ==
  /\ t \in files /\ Written < MaxSnapshots
  /\ \E i \in DOMAIN account, drift \in {0, Tolerance \div 2} :
       LET state == account[i]
           real == (state.boundary + 1) * WindowLength + drift
       IN  \E resets \in IF Missing THEN {real, None} ELSE {real} :
             log' = [log EXCEPT ![t] = Append(@, [boundary |-> state.boundary, used |-> state.used,
                                                 resets |-> resets, at |-> Written + 1])]
  /\ UNCHANGED <<account, files, candidates, pc, history>>

-----------------------------------------------------------------------------
(* The command. *)

Same(a, b) == a.used = b.used /\ a.resets = b.resets

(* A file gives each state it shows once in a row (read_rollout). *)
Rows(snapshots) ==
  {snapshots[i] : i \in {j \in DOMAIN snapshots : j = 1 \/ ~Same(snapshots[j - 1], snapshots[j])}}

(* One file, its last line perhaps written only in part. *)
ReadFile ==
  /\ pc = "read"
  /\ \E t \in files, torn \in 0..1 :
       /\ candidates' = candidates \union Rows(SubSeq(log[t], 1, Len(log[t]) - torn))
       /\ files' = files \ {t}
  /\ UNCHANGED <<account, log, pc, history>>

(* Mutant of IsNewer: more use is newer, whatever the boundary.            *)
IsNewerByUse(previous, row) ==
  \/ previous.resets # None /\ row.resets # None /\ row.resets > previous.resets + Tolerance
  \/ row.used > previous.used

(* is_newer_state: a later reset beyond the tolerance, or more use and no  *)
(* earlier reset beyond it.                                                *)
IsNewer(previous, row) ==
  LET known == previous.resets # None /\ row.resets # None IN
  \/ known /\ row.resets > previous.resets + Tolerance
  \/ ~(known /\ row.resets < previous.resets - Tolerance) /\ row.used > previous.used

NoRow == [at |-> 0]

\* A row of this time, if it is newer than the current one, takes its place.
Newer(rows, current, time) ==
  {r \in rows : r.at = time /\ (current = NoRow \/ IsNewer(current, r))}

Replaced(rows, current, time) ==
  LET newer == Newer(rows, current, time)
  IN  IF newer = {} THEN current ELSE CHOOSE r \in newer : TRUE

(* reduce_history: the rows are taken in the order in which they were      *)
(* written, no two of them at once, and whatever was current is shown.     *)
Reduced(rows) ==
  LET current[t \in 0..Written] ==
        IF t = 0 THEN NoRow ELSE Replaced(rows, current[t - 1], t)
  IN  {current[t] : t \in 1..Written} \ {NoRow}

Reduce ==
  /\ pc = "read" /\ files = {} /\ pc' = "done"
  /\ history' = Reduced(candidates)
  /\ UNCHANGED <<account, log, files, candidates>>

Next == AccountChanges \/ (\E t \in Threads : Snapshot(t)) \/ ReadFile \/ Reduce

Spec == Init /\ [][Next]_vars

-----------------------------------------------------------------------------
Later(a, b) == a.boundary > b.boundary \/ (a.boundary = b.boundary /\ a.used > b.used)

(* The history never goes back, however late and in which order and file   *)
(* the threads wrote their snapshots: every row shows a later window of    *)
(* the account than the row before, or the same one with more use.         *)
HistoryMonotone == \A a, b \in history : a.at < b.at => Later(b, a)

(* And it loses nothing: a snapshot that is newer than everything written  *)
(* down before it is in the history.                                       *)
NewStatesKept ==
  pc = "done" => \A r \in candidates :
    (\A s \in candidates : s.at < r.at => Later(r, s)) => r \in history

(* "A meaningfully later reset timestamp starts a new boundary; an older   *)
(* one is ignored" (docs/usage-history.md): no row has a reset more than   *)
(* the tolerance before that of an earlier row.                            *)
OlderBoundaryIgnored ==
  \A a, b \in history :
    a.at < b.at /\ a.resets # None /\ b.resets # None => b.resets >= a.resets - Tolerance
-----------------------------------------------------------------------------
(* The inductive invariant that the theorems in ReadingProofs rest on.     *)

(* No two snapshots were written at once, and if none lacks its reset time *)
(* that of its state is reported with the drift.                           *)
SnapshotShape ==
  /\ account # <<>>
  /\ \A t \in Threads : \A i \in DOMAIN log[t] :
       /\ log[t][i].at \in 1..Written
       /\ ~Missing => \E drift \in {0, Tolerance \div 2} :
                        log[t][i].resets = (log[t][i].boundary + 1) * WindowLength + drift
  /\ \A t, u \in Threads : \A i \in DOMAIN log[t], j \in DOMAIN log[u] :
       log[t][i].at = log[u][j].at => t = u /\ i = j

\* Rows are snapshots, and none is shown before all are read.
RowShape ==
  /\ \A r \in candidates : \E t \in Threads : \E i \in DOMAIN log[t] : r = log[t][i]
  /\ pc = "read" => history = {}

IInv ==
  /\ TypeOK /\ IsFiniteSet(Recorded) /\ SnapshotShape /\ RowShape
  /\ HistoryMonotone /\ NewStatesKept
=============================================================================
