-------------------------- MODULE GenerationCache --------------------------
(***************************************************************************)
(* codex-memoryctl index, summarize and diff (generated_commands.py,       *)
(* generation.py, cache.py): a command picks compactions of a thread, has  *)
(* a model describe each of them, or each one against the one before it,   *)
(* and keeps the descriptions in an SQLite cache that the next command     *)
(* uses again.  The requests of an index run side by side, each may fail   *)
(* and is tried again, other commands use and clear the same cache, and    *)
(* the thread is compacted meanwhile.                                      *)
(***************************************************************************)
EXTENDS Integers, Sequences, FiniteSets, SequencesExt

CONSTANTS
  Commands,
  GivenOrders,     \* what the commands may have been told: functions from Commands
  Jobs,            \* --jobs, of every command
  MaxAttempts,     \* MAX_ATTEMPTS
  MaxCompactions   \* bounds the thread

VARIABLES
  compacted,    \* for every compaction of the thread whether it left portable memory (external)
  cache,        \* per key the command whose description the database holds, or Absent
  orders, pc, outcome, advanced,   \* per command; advanced: what it reports of its source
  job,          \* per command and key: the state of the task that describes it
  tries,        \* per command and key: model requests sent
  scanned,      \* compactions at the scan a command starts from
  moved,        \* commands whose thread was compacted between that scan and their last one
  kept,         \* keys the cache has held ever since a command started
  clearedFor    \* keys removed from the cache since a command started

vars == <<compacted, cache, orders, pc, outcome, advanced, job, tries, scanned, moved, kept, clearedFor>>

(* An index of the newest `limit` checkpoints (0: all of them), a summary  *)
(* of the latest one, or a diff of the first one and the latest.           *)
Orders ==
  {o \in [command : {"index", "summarize", "diff"}, limit : 0..1, refresh : BOOLEAN,
          noCache : BOOLEAN] : ~(o.refresh /\ o.noCache)}

(* A key stands for the operation and its memories: one memory is a        *)
(* summary, two are a diff.                                                *)
Artifacts == {<<i>> : i \in 1..MaxCompactions} \union {p \in (1..MaxCompactions) \X (1..MaxCompactions) :
                                                   p[1] < p[2]}
Absent == "absent"

Running == {"look", "call", "put"}
Ended == {"cached", "made", "failed"}

TypeOK ==
  /\ compacted \in Seq(BOOLEAN) /\ Len(compacted) <= MaxCompactions
  /\ cache \in [Artifacts -> Commands \union {Absent}]
  /\ orders \in [Commands -> Orders]
  /\ pc \in [Commands -> {"start", "working", "done"}]
  /\ outcome \in [Commands -> {"none", "described", "failed", "refused", "killed"}]
  /\ advanced \in [Commands -> BOOLEAN]
  /\ job \in [Commands -> [Artifacts -> {"no", "queued"} \union Running \union Ended]]
  /\ tries \in [Commands -> [Artifacts -> 0..MaxAttempts]]
  /\ scanned \in [Commands -> 0..MaxCompactions] /\ moved \subseteq Commands
  /\ kept \in [Commands -> SUBSET Artifacts] /\ clearedFor \in [Commands -> SUBSET Artifacts]
  /\ \A c \in Commands : pc[c] = "done" <=> outcome[c] # "none"
  /\ \A c \in Commands : outcome[c] = "described" => \A k \in Artifacts : job[c][k] \in {"no", "cached", "made"}

Init ==
  /\ compacted \in BoundedSeq(BOOLEAN, 2)
  /\ cache = [k \in Artifacts |-> Absent]
  /\ orders \in GivenOrders
  /\ pc = [c \in Commands |-> "start"] /\ outcome = [c \in Commands |-> "none"]
  /\ advanced = [c \in Commands |-> FALSE]
  /\ job = [c \in Commands |-> [k \in Artifacts |-> "no"]]
  /\ tries = [c \in Commands |-> [k \in Artifacts |-> 0]]
  /\ scanned = [c \in Commands |-> 0] /\ moved = {}
  /\ kept = [c \in Commands |-> {}] /\ clearedFor = [c \in Commands |-> {}]

-----------------------------------------------------------------------------
(* The thread, and the other users of the cache. *)

Compacts ==
  /\ Len(compacted) < MaxCompactions
  /\ \E portable \in BOOLEAN : compacted' = Append(compacted, portable)
  /\ moved' = moved \union {c \in Commands : pc[c] = "working"}
  /\ UNCHANGED <<cache, orders, pc, outcome, advanced, job, tries, scanned, kept, clearedFor>>

(* cache clear: one transaction. *)
ClearCache ==
  /\ \E k \in Artifacts : cache[k] # Absent
  /\ cache' = [k \in Artifacts |-> Absent]
  /\ kept' = [c \in Commands |-> {}]
  /\ clearedFor' = [c \in Commands |-> IF pc[c] = "start" THEN {} ELSE Artifacts]
  /\ UNCHANGED <<compacted, orders, pc, outcome, advanced, job, tries, scanned, moved>>

-----------------------------------------------------------------------------
(* What a command describes. *)

Portable == SelectSeq([i \in DOMAIN compacted |-> i], LAMBDA i : compacted[i])

(* The card of a position: the first one is a summary, every later one a   *)
(* diff with the portable checkpoint before it, in the slice or not.       *)
Card(p) == IF p = 1 THEN <<Portable[1]>> ELSE <<Portable[p - 1], Portable[p]>>

Selected(limit) == {p \in DOMAIN Portable : limit = 0 \/ p > Len(Portable) - limit}

Latest == compacted # <<>> /\ compacted[Len(compacted)]

Plan(o) ==
  CASE o.command = "index" -> {Card(p) : p \in Selected(o.limit)}
    [] o.command = "summarize" -> IF Latest THEN {<<Len(compacted)>>} ELSE {}
    [] o.command = "diff" -> IF Latest /\ Len(Portable) > 1 THEN {<<Portable[1], Len(compacted)>>}
                             ELSE {}

End(c, how) ==
  /\ pc' = [pc EXCEPT ![c] = "done"]
  /\ outcome' = [outcome EXCEPT ![c] = how]

Start(c) ==
  /\ pc[c] = "start"
  /\ IF Plan(orders[c]) = {}
     THEN End(c, "refused") /\ UNCHANGED job
     ELSE /\ pc' = [pc EXCEPT ![c] = "working"]
          /\ job' = [job EXCEPT ![c] = [k \in Artifacts |-> IF k \in Plan(orders[c]) THEN "queued" ELSE "no"]]
          /\ UNCHANGED outcome
  /\ scanned' = [scanned EXCEPT ![c] = Len(compacted)]
  /\ kept' = [kept EXCEPT ![c] = {k \in Artifacts : cache[k] # Absent}]
  /\ UNCHANGED <<compacted, cache, orders, advanced, tries, moved, clearedFor>>

-----------------------------------------------------------------------------
(* One task of a command (generated_text, generate). *)

Goes(c, k, state) == job' = [job EXCEPT ![c][k] = state]

(* Mutant of Slots: the semaphore is left before the request is made.      *)
SlotsOfLooks(c) == Jobs - Cardinality({k \in Artifacts : job[c][k] = "look"})

Slots(c) == Jobs - Cardinality({k \in Artifacts : job[c][k] \in Running})

Acquire(c, k) ==
  /\ pc[c] = "working" /\ job[c][k] = "queued" /\ Slots(c) > 0
  /\ Goes(c, k, IF orders[c].noCache \/ orders[c].refresh THEN "call" ELSE "look")
  /\ UNCHANGED <<compacted, cache, orders, pc, outcome, advanced, tries, scanned, moved, kept, clearedFor>>

(* Mutant of Found: the cache is asked for nothing.                        *)
FoundNever(k) == FALSE

Found(k) == cache[k] # Absent

Look(c, k) ==
  /\ pc[c] = "working" /\ job[c][k] = "look"
  /\ \/ Goes(c, k, IF Found(k) THEN "cached" ELSE "call")
     \/ Goes(c, k, "failed")   \* the database cannot be read
  /\ UNCHANGED <<compacted, cache, orders, pc, outcome, advanced, tries, scanned, moved, kept, clearedFor>>

(* Mutant of Described: a description is ready before it is written down.  *)
DescribedUnwritten(o) == "made"

Described(o) == IF o.noCache THEN "made" ELSE "put"

(* A failure that can pass is tried again, MAX_ATTEMPTS requests in all.   *)
Failed(c, k, retryable) == IF retryable /\ tries[c][k] + 1 < MaxAttempts THEN "call" ELSE "failed"

Call(c, k) ==
  /\ pc[c] = "working" /\ job[c][k] = "call"
  /\ tries' = [tries EXCEPT ![c][k] = @ + 1]
  /\ \/ Goes(c, k, Described(orders[c]))
     \/ \E retryable \in BOOLEAN : Goes(c, k, Failed(c, k, retryable))
  /\ UNCHANGED <<compacted, cache, orders, pc, outcome, advanced, scanned, moved, kept, clearedFor>>

(* INSERT OR REPLACE. *)
Put(c, k) ==
  /\ pc[c] = "working" /\ job[c][k] = "put"
  /\ \/ /\ cache' = [cache EXCEPT ![k] = c]
        /\ Goes(c, k, "made")
     \/ Goes(c, k, "failed") /\ UNCHANGED cache   \* the database cannot be written
  /\ UNCHANGED <<compacted, orders, pc, outcome, advanced, tries, scanned, moved, kept, clearedFor>>

-----------------------------------------------------------------------------
(* The end of a command: all its tasks have ended, well or not. *)

(* Mutant of Advanced: the command trusts the scan it started from.        *)
AdvancedNever(c) == FALSE

(* The rollout is scanned again: a compaction more, or (summarize, diff)   *)
(* the state is not the latest any more.                                   *)
Advanced(c) ==
  IF orders[c].command = "index" THEN Len(compacted) # scanned[c]
  ELSE ~Latest \/ Len(compacted) # scanned[c]

Gather(c) ==
  /\ pc[c] = "working"
  /\ \A k \in Artifacts : job[c][k] \in {"no"} \union Ended
  /\ IF \E k \in Artifacts : job[c][k] = "failed"
     THEN End(c, "failed") /\ UNCHANGED advanced
     ELSE /\ End(c, "described")
          /\ advanced' = [advanced EXCEPT ![c] = Advanced(c)]
  /\ UNCHANGED <<compacted, cache, orders, job, tries, scanned, moved, kept, clearedFor>>

(* The command is interrupted; its tasks die with it. *)
Killed(c) ==
  /\ pc[c] = "working"
  /\ End(c, "killed")
  /\ UNCHANGED <<compacted, cache, orders, advanced, job, tries, scanned, moved, kept, clearedFor>>

Next ==
  \/ Compacts \/ ClearCache
  \/ \E c \in Commands :
       \/ Start(c) \/ Gather(c) \/ Killed(c)
       \/ \E k \in Artifacts : Acquire(c, k) \/ Look(c, k) \/ Call(c, k) \/ Put(c, k)

Spec == Init /\ [][Next]_vars

-----------------------------------------------------------------------------

(* "--jobs N limits concurrent requests": an index never has more requests *)
(* under way.                                                              *)
JobsBound == \A c \in Commands : Cardinality({k \in Artifacts : job[c][k] = "call"}) <= Jobs

(* "If one request fails, successful entries remain cached for the next    *)
(* run": whatever becomes of the command, a description it finished is in  *)
(* the cache, or a newer one is, or the cache was cleared meanwhile.       *)
FinishedStaysCached ==
  \A c \in Commands, k \in Artifacts :
    job[c][k] \in {"cached", "made"} /\ ~orders[c].noCache =>
      cache[k] # Absent \/ k \in clearedFor[c]

(* A command asks the model for a description the cache has held all the   *)
(* while only when it was told to bypass or refresh the cache; and what a  *)
(* command that bypasses the cache is given never comes from there or gets *)
(* there.                                                                  *)
RequestHasCause ==
  \A c \in Commands :
    IF orders[c].noCache
    THEN \A k \in Artifacts : job[c][k] # "cached" /\ cache[k] # c
    ELSE ~orders[c].refresh => \A k \in kept[c] : tries[c][k] = 0

(* A command that says nothing of its source has described what a scan at  *)
(* its end finds there; one that says it advanced is right.                *)
AdvanceReported ==
  \A c \in Commands :
    outcome[c] = "described" => (advanced[c] <=> c \in moved)
-----------------------------------------------------------------------------
(* The inductive invariant that the theorems in CommandsProofs rest on.    *)

(* Before it starts a command has done nothing.                            *)
StartShape ==
  \A c \in Commands : pc[c] = "start" =>
    /\ c \notin moved /\ kept[c] = {}
    /\ \A k \in Artifacts : job[c][k] = "no" /\ tries[c][k] = 0

(* A command has no more tasks past the semaphore than jobs, and a task    *)
(* that is about to send a request has not sent all it may.                *)
UnderWay(c) == {k \in Artifacts : job[c][k] \in Running}

TaskShape ==
  \A c \in Commands :
    /\ IsFiniteSet(UnderWay(c)) /\ Cardinality(UnderWay(c)) <= Jobs
    /\ \A k \in Artifacts :
         /\ job[c][k] \in {"queued", "look"} => tries[c][k] = 0
         /\ job[c][k] = "call" => tries[c][k] < MaxAttempts

(* A command that bypasses the cache neither reads nor writes it; another  *)
(* one finds what the cache has held since it started.                     *)
CacheShape ==
  \A c \in Commands, k \in Artifacts :
    /\ orders[c].noCache => job[c][k] \notin {"look", "cached", "put"} /\ cache[k] # c
    /\ k \in kept[c] => cache[k] # Absent
    /\ ~orders[c].noCache /\ ~orders[c].refresh /\ k \in kept[c] =>
         tries[c][k] = 0 /\ job[c][k] \notin {"call", "put", "made"}

(* While a command works, the thread is as it was scanned unless it was    *)
(* compacted since.                                                        *)
ScanShape ==
  \A c \in Commands : pc[c] = "working" =>
    /\ scanned[c] <= Len(compacted) /\ (c \in moved <=> Len(compacted) # scanned[c])
    /\ orders[c].command # "index" /\ c \notin moved => Latest

IInv ==
  /\ TypeOK /\ StartShape /\ TaskShape /\ CacheShape /\ ScanShape
  /\ FinishedStaysCached /\ AdvanceReported
=============================================================================
