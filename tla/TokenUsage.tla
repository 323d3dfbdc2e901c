----------------------------- MODULE TokenUsage -----------------------------
(***************************************************************************)
(* codex-limitctl activity (rollouts.py): the tokens every thread used     *)
(* since some time, summed up from the cumulative counters in the rollout  *)
(* files.  Threads append to their files, and files are moved and copied,  *)
(* while the command reads one after another; the model stops looking at   *)
(* them when the last one was read.  What a report adds goes to the id in  *)
(* the last session_meta record above it, and in the files of forked or    *)
(* resumed threads that may be the id of another thread.  One counter      *)
(* field is modelled; models and tiers, which only group the sums, are     *)
(* left out.                                                               *)
(***************************************************************************)
EXTENDS Integers, Sequences, FiniteSets, Functions

CONSTANTS Threads, MaxReports, MaxInherited   \* the bounds of the threads

VARIABLES
  log,         \* per thread the token_count records of its rollout (external)
  counter,     \* per thread its cumulative token counter (external)
  inherited,   \* per thread the counter it was forked with (external)
  restarted,   \* threads whose counter started anew (external)
  copied,      \* per thread the records in an older copy of its file, 0 for no copy (external)
  archived,    \* threads whose file is under archived_sessions (external)
  recent,      \* the time given by --since is past (external)
  pc, files,   \* the command, and the files it has still to read
  read,        \* per thread the records read of its file
  counted      \* per id the tokens summed up

vars == <<log, counter, inherited, restarted, copied, archived, recent, pc, files, read, counted>>

(* spent: the tokens the thread really used since its report before; id:   *)
(* the one that the last session_meta record above the report gives, or    *)
(* the file name if there is none.                                         *)
Reports == [total : Nat, last : Nat, spent : Nat, recent : BOOLEAN, id : Threads]
Directories == {"sessions", "archived"}

Recorded == UNION {{t} \X DOMAIN log[t] : t \in Threads}
Written == Cardinality(Recorded)

TypeOK ==
  /\ log \in [Threads -> Seq(Reports)] /\ Written <= MaxReports
  /\ counter \in [Threads -> Nat] /\ inherited \in [Threads -> 0..MaxInherited]
  /\ restarted \subseteq Threads /\ archived \subseteq Threads /\ recent \in BOOLEAN
  /\ copied \in [Threads -> Nat] /\ read \in [Threads -> Nat] /\ counted \in [Threads -> Nat]
  /\ \A t \in Threads : copied[t] <= Len(log[t]) /\ read[t] <= Len(log[t])
  /\ pc \in {"find", "read", "done", "failed"} /\ files \subseteq Threads \X Directories
  /\ pc = "done" => files = {}

Init ==
  /\ log = [t \in Threads |-> <<>>] /\ inherited \in [Threads -> 0..MaxInherited]
  /\ counter = inherited /\ restarted = {} /\ archived = {}
  /\ copied = [t \in Threads |-> 0] /\ recent \in BOOLEAN
  /\ pc = "find" /\ files = {}
  /\ read = [t \in Threads |-> 0] /\ counted = [t \in Threads |-> 0]

-----------------------------------------------------------------------------
(* The threads (external). *)

command == <<pc, files, read, counted>>
Going == pc \in {"find", "read"}

(* Above the report there may be a new session_meta record.                *)
Writes(t, report) ==
  /\ Going /\ Written < MaxReports
  /\ \E id \in Threads : log' = [log EXCEPT ![t] = Append(@, [report EXCEPT !.id = id])]

(* A model call: the counter grows and is reported with the growth.  One   *)
(* token stands for what a call takes.                                     *)
Uses(t) ==
  /\ counter' = [counter EXCEPT ![t] = @ + 1]
  /\ Writes(t, [total |-> counter[t] + 1, last |-> 1, spent |-> 1, recent |-> recent, id |-> t])
  /\ UNCHANGED <<inherited, restarted, copied, archived, recent, command>>

Repeats(t) ==
  /\ log[t] # <<>>
  /\ Writes(t, [log[t][Len(log[t])] EXCEPT !.spent = 0, !.recent = recent])
  /\ UNCHANGED <<counter, inherited, restarted, copied, archived, recent, command>>

Restarts(t) ==
  /\ Going /\ counter[t] > 0 /\ counter' = [counter EXCEPT ![t] = 0]
  /\ restarted' = restarted \union {t}
  /\ UNCHANGED <<log, inherited, copied, archived, recent, command>>

TimePasses ==
  /\ Going /\ ~recent /\ recent' = TRUE
  /\ UNCHANGED <<log, counter, inherited, restarted, copied, archived, command>>

(* The file is archived; sometimes a copy stays where it was. *)
Archives(t) ==
  /\ Going /\ t \notin archived /\ log[t] # <<>> /\ archived' = archived \union {t}
  /\ \E copy \in {0, Len(log[t])} : copied' = [copied EXCEPT ![t] = copy]
  /\ UNCHANGED <<log, counter, inherited, restarted, recent, command>>

-----------------------------------------------------------------------------
(* The command (find_rollouts, read_rollout, scan_rollouts). *)

FileOf(t) == <<t, IF t \in archived THEN "archived" ELSE "sessions">>
CopyOf(t) == <<t, "sessions">>

ModifiedRecently(t, size) == size > 0 /\ log[t][size].recent

(* Mutant of Candidates: every recent file counts, whosever it is.         *)
CandidatesAll ==
  {FileOf(t) : t \in {u \in Threads : ModifiedRecently(u, Len(log[u]))}}
    \union {CopyOf(t) : t \in {u \in Threads : ModifiedRecently(u, copied[u])}}

(* The newest file of every thread, when it was modified recently.         *)
Candidates == {FileOf(t) : t \in {u \in Threads : ModifiedRecently(u, Len(log[u]))}}

Find ==
  /\ pc = "find" /\ pc' = "read"
  /\ files' = Candidates
  /\ UNCHANGED <<log, counter, inherited, restarted, copied, archived, recent, read, counted>>

(* Mutant of Delta: the first report is a baseline, whoever wrote it.      *)
DeltaFromBaseline(reports, i) ==
  IF i = 1 \/ reports[i].total < reports[i - 1].total THEN 0
  ELSE reports[i].total - reports[i - 1].total

(* token_delta: the first report counts when it is the counter's first,    *)
(* and a smaller counter only starts anew.                                 *)
Delta(reports, i) ==
  IF i = 1 THEN (IF reports[i].last = reports[i].total THEN reports[i].total ELSE 0)
  ELSE IF reports[i].total < reports[i - 1].total THEN 0
  ELSE reports[i].total - reports[i - 1].total

\* The sum of the first n values.
Sum(values, n) ==
  LET sum[i \in 0..n] == IF i = 0 THEN 0 ELSE sum[i - 1] + values[i]
  IN  sum[n]

(* What reports add to an id; reports from before --since only move the    *)
(* counter.                                                                *)
Activity(reports, k) ==
  Sum([i \in DOMAIN reports |->
         IF reports[i].recent /\ reports[i].id = k THEN Delta(reports, i) ELSE 0], Len(reports))

(* One file.  Its last line may be written only in part and is skipped; a  *)
(* file that is not there any more ends the command.                       *)
ReadFile ==
  /\ pc = "read"
  /\ \E f \in files, torn \in 0..1 :
       LET t == f[1]
           size == (IF f = FileOf(t) THEN Len(log[t]) ELSE copied[t]) - torn
       IN  /\ files' = files \ {f}
           /\ IF f = FileOf(t) \/ copied[t] > 0
              THEN /\ read' = [read EXCEPT ![t] = size]
                   /\ counted' = [k \in Threads |-> counted[k] + Activity(SubSeq(log[t], 1, size), k)]
                   /\ UNCHANGED pc
              ELSE pc' = "failed" /\ UNCHANGED <<read, counted>>
  /\ UNCHANGED <<log, counter, inherited, restarted, copied, archived, recent>>

Report ==
  /\ pc = "read" /\ files = {} /\ pc' = "done"
  /\ UNCHANGED <<log, counter, inherited, restarted, copied, archived, recent, files, read, counted>>

Next ==
  \/ \E t \in Threads : Uses(t) \/ Repeats(t) \/ Restarts(t) \/ Archives(t)
  \/ TimePasses \/ Find \/ ReadFile \/ Report

Spec == Init /\ [][Next]_vars

-----------------------------------------------------------------------------
(* What a thread really used, by the reports with an id and since the time *)
(* asked for, as far as its file was read; and what all of them used.      *)
Spent(t, k) ==
  Sum([i \in 1..read[t] |-> IF log[t][i].recent /\ log[t][i].id = k THEN log[t][i].spent ELSE 0],
      read[t])
Owed(k) == SumFunctionOnSet([t \in Threads |-> Spent(t, k)], Threads)

(* An id is never given tokens that were not used, since the time asked    *)
(* for, by the reports that come under it: not those inherited by a fork,  *)
(* not a report twice, not a copied file, not the counter again after it   *)
(* restarted, and not those that a file reports under another id.          *)
NeverOvercounted == \A k \in Threads : counted[k] <= Owed(k)

(* The counter of the thread runs on from nothing to its last report.      *)
Plain(t) == t \notin restarted /\ inherited[t] = 0

Reporting(k) == {t \in Threads : \E i \in 1..read[t] : log[t][i].id = k}

(* Nothing used under it is left out either, unless the counter of a       *)
(* thread restarted that reports under it, or its first report continues   *)
(* the counter of the thread it was forked from.                           *)
NothingLeftOut ==
  pc = "done" => \A k \in Threads : (\A t \in Reporting(k) : Plain(t)) => counted[k] = Owed(k)
-----------------------------------------------------------------------------
(* The inductive invariant that the theorems in ReadingProofs rest on.     *)

(* A counter is what the thread reported last, unless it restarted since;  *)
(* before the first report it is what the thread was forked with.          *)
CounterShape ==
  \A t \in Threads :
    \/ t \in restarted /\ counter[t] = 0
    \/ log[t] = <<>> /\ counter[t] = inherited[t]
    \/ log[t] # <<>> /\ counter[t] = log[t][Len(log[t])].total

(* A report adds no more than was used, and just that while nothing was    *)
(* inherited and the counter did not restart.                              *)
ReportShape ==
  \A t \in Threads : \A i \in DOMAIN log[t] :
    /\ log[t][i].total > 0 /\ Delta(log[t], i) \in 0..log[t][i].spent
    /\ Plain(t) => Delta(log[t], i) = log[t][i].spent

(* Of a thread one file is read, once.                                     *)
FileShape ==
  /\ \A f, g \in files : f[1] = g[1] => f = g
  /\ \A t \in Threads : pc = "find" \/ (\E f \in files : f[1] = t) => read[t] = 0
  /\ \A f \in files : log[f[1]] # <<>>
  /\ pc = "find" => files = {}

\* Nothing is left out of what was read.
ReadIsCounted ==
  \A k \in Threads : (\A t \in Reporting(k) : Plain(t)) => counted[k] = Owed(k)

IInv ==
  /\ TypeOK /\ IsFiniteSet(Recorded)
  /\ CounterShape /\ ReportShape /\ FileShape /\ NeverOvercounted /\ ReadIsCounted
=============================================================================
