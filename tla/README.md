# A formal model of ferrumctl

Ferrumctl is six command-line tools with which coding agents coordinate
long-running work: they talk to a Codex app-server over JSON-RPC, and to each
other through small SQLite databases.  The tools have no server of their own.
Everything that is hard about them comes from several short-lived processes
that share a table or a thread, none of which knows what the others are doing,
and any of which may die between two steps.

This directory holds TLA+ models of the parts where that matters, the TLC
configurations that check them on small instances, and TLAPS proofs of the most
important ones for all instances.  All paths below are relative to `src/`.

## 1. Inventory

| component | state it keeps | operations | talks to |
| --- | --- | --- | --- |
| wake queue and runner (`codex_wakectl/state.py`, `commands.py`) | SQLite table `jobs`: status, lease owner and end, fire count | add, cancel, claim, renew, update; `run` works through a claimed batch | conditions, delivery |
| stop condition (`codex_wakectl/conditions.py`) | a cursor in the job: newest turn seen and its status | seed, page to the cursor, decide, new cursor | app-server history |
| goal condition (`conditions.py`) | last bucket of tokens or time, identity of the goal | seed, decide, remember bucket | app-server goal |
| time and command conditions | none | compare, run a command | host |
| event delivery (`codex_wakectl/delivery.py`, `codex_threadctl/attention.py`, `configuration.py`, `appserver.py`) | none of its own; a series of requests to a thread | load, inject, start an empty turn, confirm | app-server thread, goal |
| ordinary input delivery (`appserver.py`, `delivery.py`) | none | start a turn with input, steer, confirm in the history | app-server |
| request client (`appserver.py`) | next request id, kept notifications | request, notify, tracked notifications | app-server |
| recovery settings (`codex_threadctl/recovery.py`, `configuration.py`) | SQLite record per thread with a revision | read, merge, resume, save if unchanged | resume |
| thread control (`appserver.py`, `configuration.py`) | none | interrupt and wait, list and end background terminals, configure | app-server thread |
| thread history and items (`codex_threadctl/history.py`) | the pages read so far | select items, inspect turns, falling back from one listing to another | app-server history |
| other thread commands, agents, context | none | requests and their presentation | app-server |
| goalctl (`codex_goalctl/cli.py`, `appserver.py`) | none | choose an app-server; update, replace (clear then set), clear | app-server goal |
| memoryctl injection (`codex_memoryctl/commands.py`) | none | checks on options, target and source, then one injection | app-server, rollouts |
| memoryctl generation, cache and index (`generation.py`, `generated_commands.py`, `cache.py`) | SQLite table of artifacts | look up, generate with retries, store; concurrent index | model service, rollouts |
| memoryctl rollout scan and discovery (`rollouts.py`, `selectors.py`, `discovery.py`) | none | find the file, fold over its records, select a state, search | files that grow and move |
| limitctl (`codex_limitctl/rollouts.py`) | none | token usage and rate-limit history over rollout files | files that grow, move and are copied |
| streams (`streamctl/state.py`) | SQLite tables streams, entries, acknowledgements | create, append, list, ack | none |
| parsers, formatting, systemd unit, scripts | none | argument parsing, printing, unit files | |

Hard behaviours, and the properties that make a component correct:

* *Wake queue.*  Two runs at once, stale rows, expired leases, death after the
  app-server accepted an event and before the result is stored, a database
  error at any statement, cancellation during a delivery.  Correct: a lease with
  time left excludes everybody; events are numbered without gaps; `maxFires`
  bounds what is accepted, not only what is counted; a duplicate has a cause
  that the documentation allows; a due job is settled in the end.
* *Stop condition.*  The history changes between pages, decision, delivery and
  commit.  Correct: no completed turn is forgotten; nothing old fires; the job
  gives up only when its anchor is gone.
* *Event delivery.*  The target changes between any two requests; answers are
  lost; a goal continues by itself when the thread is loaded.  Correct: a
  reported success means that a turn attends to the event; a retry happens only
  when the event was not sent; no turn is started beside a continuation; a
  delivery fits in its lease.
* *Streams.*  Overlapping appends, death inside a transaction, unknown results,
  several sessions behind one reader identity.  Correct: contiguous positions,
  acknowledgements that pass nothing over and never go back, one publication of
  a message, readers that catch up.
* *Goal condition.*  The goal is worked on, reset, cleared and replaced between
  evaluation, delivery and commit.  Correct: no milestone is used up without an
  event, none is reported twice, no replacement fires for its predecessor's watch.
* *Recovery settings.*  A record is read before a cold load and written after
  it, by several commands at once.  Correct: nothing newer is overwritten, no
  setting is lost in the merge, a refused load leaves no trace.
* *Input delivery, goalctl, injection, thread control.*  Checks and the request
  that relies on them are separate; a request is carried out although its answer
  is lost.  Correct: what is reported happened, to the turn, terminal or goal that is
  named; what is called refused, unsent or pending left nothing behind.
* *Request client.*  Answers come late, notifications come between them, the
  app-server exits.  Correct: an answer goes to its own request, notifications are
  neither lost nor reordered, an exit takes no answer with it that could have been read,
  a time limit holds.
* *Generation cache.*  Concurrent jobs, retries, other commands and a clearing of
  the cache.  Correct: no finished description is lost, none is asked for without
  need, an index of an old state says so.
* *Readers* of histories, rollouts and counters stop early and read what is being
  written, copied and moved.  Correct: what they return is what the whole of it would
  have given at some moment; nothing is counted twice.

`PROJECT.json` lists every component and every hazard with its line.

## 2. Modules

| module | models | role |
| --- | --- | --- |
| `WakeLedger` | what the queue promises | abstract specification |
| `WakeQueue` | `state.py`, `cmd_run` | detailed specification, refines `WakeLedger` |
| `WakeQueueLive` | the same with fairness | liveness |
| `WakeQueueProofs` | | theorems about `WakeQueue` |
| `StopWatch` | `conditions.py` stop conditions inside a run | detailed specification |
| `GoalWatch` | `conditions.py` goal conditions inside a run | detailed specification |
| `EventDelivery` | `deliver_event` and what it calls | detailed specification, one delivery |
| `StreamLog` | what a stream promises | abstract specification |
| `Streams` | `streamctl/state.py` and the caller's protocol | refines `StreamLog` |
| `StreamsLive` | the same with fairness | liveness |
| `RecoveryStore` | `recovery.py`, `resume_thread`, `create_thread`, `cmd_recovery` | detailed specification |
| `RecoveryStoreProofs` | | theorems about `RecoveryStore` |
| `StreamsProofs`, `StopWatchProofs`, `EventDeliveryProofs` | | theorems about the modules of these names |
| `ReadingProofs` | | theorems about the five commands that `MCReading` puts together |
| `CommandsProofs` | | theorems about the six commands that `MCCommands` puts together |
| `BoundedSets` | | lemmas on sets of positions and turns |
| `InputDelivery` | `deliver_input`, `start_turn`, `steer_turn`, `confirm_input` | detailed specification, one message |
| `RpcClient` | `request` and `wait_for` of the clients, over websockets and pipes | detailed specification, one connection |
| `GoalCommand` | the writing commands of `codex-goalctl` | detailed specification, one command |
| `MemoryInject` | `cmd_inject` | detailed specification, several injectors |
| `ThreadControl` | `interrupt_turn`, `terminate_terminal`, `configure` | detailed specification, one command |
| `GenerationCache` | `index`, `summarize`, `diff` and their cache | detailed specification, several commands |
| `TokenUsage`, `LimitHistory` | `codex-limitctl` over rollouts | algorithms over files that change |
| `HistoryPages` | `history.py` | algorithm over a history that grows |
| `RolloutScan` | `rollouts.py`, `selectors.py`, `discovery.py` of memoryctl | algorithm over a file that grows and moves |
| `MCCommands` | | sum of `RecoveryStore` and the commands that change something |
| `MCReading` | | sum of `GoalWatch` and the commands that read |
| other `MC...` | | instances for TLC |

An operator whose comment begins with *Mutant of X* is a variant of `X` with a
plausible bug.  No specification uses it; it is there to show that a property
fails when the code has that bug (`PROJECT.json`, "mutants").

### WakeQueue

The variables `status`, `owner`, `lease`, `fires` are the columns of `jobs`.
Every SQLite statement of `state.py` is one write transaction, hence one action;
between two statements of a run everybody else may move.  `pc`, `todo`, `cur`,
`snap`, `plan` are the local state of `cmd_run`: where it is, the rest of its
batch, the job in hand, the fire counts in the rows it decoded when it claimed
them, the update it will write.  `hold` is the time left of the lease the run
last renewed, as the run believes it, and `sent` whether this attempt was
accepted.  `accepted` and `again` describe the app-server; `excuse` is a
history variable that says an attempt was lost.

| action | code |
| --- | --- |
| `Insert`, `Cancel` | `insert_job`, `cancel_job` |
| `Claim` | `claim_pending_jobs`: oldest `Limit` unleased rows |
| `StartJob`, `SkipLost` | first `renew_claimed_job` of a job succeeds, or `LeaseLost` |
| `NotReady`, `CheckFailed`, `Ready` | `condition_ready` returns or raises |
| `RenewForDelivery`, `DropLost` | second renewal |
| `DeliveryAccepted`, `DeliveryRefused`, `Delivered`, `Unconfirmed` | `deliver_action` and the exception handlers it can reach |
| `Commit`, `CommitLost` | `update_claimed_job` changes one row or none |
| `StatementFailed` | a statement inside the `try` raises and the catch-all handler releases the job |
| `Crash` | the process dies, or a handler itself raises |
| `Tick` | a second passes |

Time is relative: `lease[j]` counts down.  `claim_pending_jobs` and the others
read the clock before they wait for the write lock, so every use of the clock
takes a value up to `MaxLag` seconds old.

### StopWatch

A turn is its number in the order of creation, so a history is a set of
numbers and a page the newest few of those not read yet.  `row` is the stored
condition, `mine[r]` the one a run decoded, `got[r]` what its pages said.  The
lease of a run may be lost at any moment here, which covers whatever
`WakeQueue` allows.  `since`, `reported` and `settled` are history variables:
the first cursor, the turns an accepted event tells of, the turns whose event
is committed.

### GoalWatch

Structured like `StopWatch`.  `Verdict` is `goal_condition_ready`: it takes the
row a run decoded and the goal of the thread, and returns the step to take and
the row to store.  One counter stands for tokens or seconds, since a condition
has at most one interval; creation times are whole seconds, as the app-server
reports them, so two goals of one second look the same.  `base`, `reported`,
`settled`, `found`, `firstSeen` and `firedFor` are history variables.

### RecoveryStore

One thread and its row.  A configuration is a function from keys to values, some
keys are recorded by Codex itself (`Native`) and one value stands for an inline
credential.  Revisions are numbered instead of random.  A caller in `Load` looks
whether the thread is loaded (`List`), reads the record and sends the request
(`Read`), is served (`Serve`) and answered (`Answered`) or not (`LoadFailed`),
and saves (`Save`, `SaveRefused`); `Create`, `Initialized` and `Remember` are the
stages of `create_thread`.  The `recovery` command is a single transaction
(`Replace`, `Forget`).  `served` and `edited` are history variables.

### EventDelivery

One delivery for one job, `pc` naming the next request.  A request that reads
is one step; one that changes something is sent (`Send...`), processed by the
app-server (`Serve...`) and answered (`Resumed`, `Injected`, `Started`) in three,
and the client may give up in between (`Fails`) without keeping the app-server
from processing it.  The thread, its goal and the other clients are external
actions enabled all the time.  `spent` adds up the largest time each request may
take, in request timeouts.

### InputDelivery, GoalCommand, ThreadControl

Built like `EventDelivery`: `pc` names the next request, one that changes
something is sent, served (or refused or dropped) and answered in separate steps,
and `Fails` may come before or after the serving.  In `InputDelivery` a message
that `turn/start` put into a running turn lies in a turn (`held`) other than the one
the answer names (`own`); `Confirm` is the search of the newest turns for the message.  In
`GoalCommand` the servers share the stored `goal`, and `charged` is what the
shared server keeps in memory; `Connect` and `ReadLoadedPage` choose the server, and
`steady` remembers whether the shared server held the thread all along.  In `ThreadControl` a process number
passes to a new terminal when the old one ends; `handed` remembers that it
happened between the last look and the request.

### RpcClient

`inbox` is the connection, `kept` what the client put aside, `ended` how each
request ended.  `IsForUs` compares ids and tells an answer from a request of
the server by its `method`.  The clients differ in `client`: only threadctl keeps
notifications, limitctl has one deadline for all it asks.  They also differ in how they
notice an exit.  threadctl and goalctl with a shared server use websockets, where the end of
the connection comes after the messages before it (`SeesExit`; that is the library's
part, `websockets>=15`).  goalctl with a server of its own and limitctl read the pipes of a child
(`OverPipes`): `select` finds nothing to read (`Looks`) and `poll` sees the exit
after that (`Polls`), in two steps between which the child may answer and exit.  `late`
holds the requests answered since the `select`; such an answer is lost and the
request fails with "app-server exited", which is the exception in `ExitLosesNoAnswer`.

### MemoryInject, GenerationCache

`opts` and `orders` are the command lines, all those that differ from a plain one in up to three
settings, or a few typical ones.  What the app-server accepted (`shown`) reaches the rollout
(`onDisk`) later (`Flushes`), which is why `LookForDuplicates` can miss it;
`excused` remembers the causes.  In `GenerationCache` a task of a command goes
through `Acquire` (the semaphore), `Look`, `Call` and `Put`; `Gather` ends the
command when all tasks have ended, and fails it if one of them failed.

### TokenUsage, LimitHistory, HistoryPages, RolloutScan

The external actions change files and histories between the steps of a reader; the
algorithms are operators (`Delta`, `IsNewer`, `Reduced`, `Enough`, `Selected`,
`After`, `Candidates`) and the properties compare what a reader returns with a
definition that sees everything at once.

In `TokenUsage` a report carries the `id` its tokens are booked on: that of the last
`session_meta` record above it, which may be any, or else that of the file's name.
`Activity(reports, k)` is what a file adds to the id `k`, and `counted` sums it up per id.

In `HistoryPages` an item has a place and a locator.  The locator, `id`, is the place of the first
item that has it, and further items of the same turn may have it too.  A bound is a
locator; `Resolves` fails for one that is missing or ambiguous, as `range_entries`
does.  Assumed of the app-server: histories grow at the end, and the items of a turn are next to
each other.  Wrong cursors are `glitches`.

In `RolloutScan` the last line of the file may be half
written: a half that shows its kind ends the scan, one that ends within a
character fails it, and one that shows nothing is passed over, after which the
rest may be read as a line of its own.  `cut` marks the case that a record was
missed in this way.

### Streams

`append` and `ack` hold SQLite's write lock from `Begin...` to commit or abort,
and what they wrote becomes visible at once; `list` reads one snapshot.  The
callers follow `streamctl/docs/stream-semantics.md`: a writer whose result was
lost looks for its entry first (`Reconcile`), a reader acknowledges the last
position it was given.

## 3. Abstract specifications

`WakeLedger` knows neither processes nor leases: jobs are added, their events
are accepted in order, each is counted after it is accepted, closed jobs never
change.  `WakeQueue!ImplementsLedger` says that the program implements it with
the identity mapping on `status`, `fires`, `accepted`; steps of leases and local
state are stuttering, and so is a second acceptance of the same number.  TLC
checks it in run `two`, TLAPS proves it (`Refinement`).

`StreamLog` is a log that grows by one entry at its end, with marks that move
forward.  `Streams!ImplementsLog` maps `tail`, `entries`, `ack` to it (run
`shared`).

## 4. Runs

| run | instance | shows |
| --- | --- | --- |
| `two` | 2 runs, a one-shot job and one with two fires, batch 2, lease 2 s, renewed 3 s, lag 1 s | `TypeOK`, `EventNumbers`, `FireLimitKept`, `DuplicateHasCause`, `ClosedCountIsExact`, `LeaseProtects`, `ImplementsLedger` |
| `queue_live` | 2 runs, a never-ready job before a due one | `DueJobIsSettled` |
| `stop` | 2 runs, 4 turns, pages of 2, repeating job | `NoCompletionMissed`, `DeliversNews`, `FailedMeansGone` |
| `goal_first` | one run | a finding of section 6 |
| `delivery` | one delivery, every combination of `--resume` and `--notify-active`, 3 turns | `ConfirmedIsAttended`, `RetryMeansUnsent`, `LeaseFits`, `NoTurnBesideContinuation` |
| `notified`, `continued` | the same | two findings of section 6 |
| `shared` | 2 writers with 2 and 1 messages, 2 sessions of one reader, pages of 1, with fairness | `WellFormed`, `NothingPassedOver`, `PublishedOnce`, `ImplementsLog`, `ReadersCatchUp` |
| `commands` | recovery: 2 callers, 3 keys of which one native, 4 files, 3 revisions; and each of the commands of the next table | `TypeOK`, `LoadExtends`, `NewerRetained`, `OnlyServedSaved`; `InputSafe`, `ClientSafe`, `GoalSafe`, `InjectSafe`, `GenerationSafe`, `ControlSafe` |
| `recovery_forgotten` | the same recovery | a finding of section 6 |
| `reading` | goal watch: 2 runs, usage up to 2, 2 creation times; two milestone conditions, a threshold, a status with a budget; and each of the readers of the next table | `TypeOK`, `MilestoneNotSwallowed`, `OneGoal`, `DeliversNews`; `UsageSafe`, `LimitsSafe`, `PagesSafe`, `ScanSafe` |
| `boundary` | rate-limit history with reset times missing | a finding of section 6 |

`commands` and `reading` are sums: the variable `kind` is chosen at the start, a
behaviour is that of one command, and the variables of the others are `Unused`.  Runs,
threads and callers have no order, so they are symmetric.
The invariants of one command are parts of one property:

| property | instance | parts |
| --- | --- | --- |
| `InputSafe` | 3 turns, newest turn searched | `ResultIsTrue`, `RetryMeansUnsent`, `NoUnallowedSteer` |
| `ClientSafe` | each of the 4 clients, 2 requests of 2 ticks, 2 other messages | `AnswerIsOwn`, `NotificationsKept`, `ExitLosesNoAnswer`, `EndsInTime` |
| `GoalSafe` | 3 goals, 2 pages of loaded threads | `FreshOrUntouched`, `NoAccountingGap`, `NeverSwitches` |
| `InjectSafe` | 2 injectors of one memory | `RepeatHasCause`, `SentAsPromised`, `RefusedMeansUnsent` |
| `GenerationSafe` | 2 commands, 1 job, 2 attempts, 3 compactions | `JobsBound`, `FinishedStaysCached`, `RequestHasCause`, `AdvanceReported` |
| `ControlSafe` | 3 turns, 2 process numbers, 4 terminals | `EndsOnlyTheNamed`, `ReportedIsOver`, `RefusedMeansUnchanged` |
| `UsageSafe` | 2 threads, each the possible id of the other's reports, 3 reports, 1 inherited token | `NeverOvercounted`, `NothingLeftOut` |
| `LimitsSafe` | 2 threads, 3 snapshots, 1 reset | `HistoryMonotone`, `NewStatesKept` |
| `PagesSafe` | 4 items, locators that repeat or not, pages of 1, 1 wrong cursor, 16 selections, 2 turns, 2 inspections | `SelectionIsWhole`, `TurnsAreWhole`, `TurnIsWhole`, `NoPageTwice` |
| `ScanSafe` | 2 memories, 3 records, 3 moves | `ScanIsAPrefix`, `SelectedIsMeant`, `FoundWithItsHolder`, `MovedIsNotTwo` |

Each contains the type invariant of its module as well.  Every part is violated by
one of the mutants in its module; `PROJECT.json` names one for each property.

Why the bounds suffice.  In the queue a conflict is between the two runs that
touch one row, so two runs show it.  Two jobs are needed for batches that overlap and for a
lease that expires while its job waits.  A fire limit of two is the first at which
"not the last" differs from "the last".  One second of lag with a lease of two
is the smallest case in which a stale clock and a live lease meet.  In
`StopWatch` four turns on pages of two leave a cursor beyond a page boundary
while turns are added before it; it assumes pages of more than one turn, since
with pages of one (the code asks for 50) every new turn moves the page border past the reader.  In `GoalWatch` a usage of two
with an interval of one gives a milestone after a milestone, and two creation
times a goal and its replacement.  Three revisions in `RecoveryStore` are the
one that was read, a newer one and that of the save.  In `EventDelivery` the thread needs the turn
before loading, one by another client and one of its own, and so it does in
`InputDelivery`.  Three entries on pages of one leave two behind every listing.
Two requests are a late answer and the one it could be taken for, two other
messages an order that can be mistaken.  Three goals are the old one, the new one
and one that somebody sets between the clearing and the setting.  Three
compactions give an index of two checkpoints and one that came since; one job
for two cards makes the second wait.  Three records are a checkpoint, what came
before it and what came after it, and three moves are the fewest that let one file
be seen in both directories.

Bounds the code does not have are `MaxLag`, `MaxEvents`, `MaxTurns`, `Messages`,
`Horizon`, `MaxUsed`, `MaxSecond`, `MaxWrites`, `MaxRequests`, `MaxExtras`,
`MaxGoals`, `LoadedPages`, `Processes`, `MaxItems`, `MaxCompactions`, `MaxReports`,
`MaxInherited`, `MaxSnapshots`, `MaxResets`, `MaxStart`, `MaxGlitches`, `MaxLines`
and `MaxMoves`; the theorems of section 7 hold for every value of the constants
of their modules.

`CHECK_DEADLOCK FALSE` is set where the system may really stop: a stop job, a
delivery or a command that has ended, writers with no message left.

## 5. Fairness

`WakeQueueLive!LiveSpec` assumes that the systemd timer keeps starting runs
(weak fairness of `Claim`), that a process goes on or dies (weak fairness of
`Proceed`), that processes die finitely often, and that a stage of an attempt at
the due job does not fail every time it is tried (strong fairness of each
stage).  Time does not outrun a run at work (`PromptTick`): `lease_window` is
ten request timeouts.  Leases of dead runs and of jobs that wait in a batch do
run out.  Nothing is assumed of jobs in front of the due one except that
`--limit` covers them; with a smaller limit they would starve it, which is
listed as a hazard.

`StreamsLive!FairSpec` assumes that nobody keeps the write lock for ever, that
SQLite's busy handler lets a waiting session have it some time (strong fairness
of `BeginAck`), that a session keeps polling, and that it gives up a useful
listing only finitely often.

## 6. Findings

* `notified`: the documentation of `--notify-active` says that the event enters
  current work (`codex-wakectl/docs/coordination-practices.md:114`).  The status
  is read at `delivery.py:81`; by the time of the injection the turn may have
  ended, the event sits in an idle thread, and the job is recorded as fired.
* `continued`: `deliver_event` takes care that a continuation which finished
  before the injection is not taken for attention (`delivery.py:112`), but the
  check and the injection are separate requests; a continuation that starts and
  ends between them is reported as `resumedContinued`.

* `goal_first`: a watch added without a goal binds to the first one it observes
  (`codex-wakectl/docs/runtime-semantics.md:59`).  The binding is stored with a
  not-ready verdict or a completed event; a deferred delivery drops it, and after
  a replacement the watch fires for the second goal it observed.
* `recovery_forgotten`: the save after a cold load fails when another caller
  replaces or forgets the record meanwhile
  (`codex-threadctl/docs/recovery-settings.md:92`).  A record that was absent
  before and is absent again is not noticed: a setting stored and forgotten
  during the load is overridden by the save.

* `boundary`: a snapshot with an older reset time is ignored
  (`codex-limitctl/docs/usage-history.md:41`).  A snapshot may come without a reset
  time, and one that follows it is compared by its use alone (`is_newer_state`), so a
  stale one with an older reset can become the newest state.

Four more things the models show have no run of their own; the properties state
them as they are in the code.  A partial final
record is ignored according to `codex-memoryctl/docs/memory-model.md:111`, which
holds unless it ends within a character of several bytes; then the scan fails
(`ReadHalf`).  And a record that is completed just after its first half was passed over is
either refused as malformed or missed (`ReadRest`).

A missing or ambiguous boundary is an error according to
`codex-threadctl/docs/materialized-history.md:50`, and for a list of entries it is
(`tests/test_history.py:438`).  But `native_thread_entries` stops at the first page of items
with which the bounds are found and the limit is filled (`history.py:221-232`).  A bound that
occurs again in an older part of its turn, which was not read, is then answered from its newest
occurrence instead of being refused.  `SelectionIsWhole` has this as its one exception
(`RepeatedBelow`) and demands the error in all other cases.  Pages of turns
(`history.py:424-432`) do not divide a turn, so an ambiguous bound is noticed there.

The thread id in a rollout's file name is canonical, and a fork may retain its source's id in
`session_meta`, according to `codex-memoryctl/docs/memory-model.md:102-105`.  limitctl
books tokens on the `session_meta` id (`rollouts.py:209-213`, `279`), so what such a fork used appears under its
source, although `codex-limitctl/docs/usage-history.md:48` speaks of grouping by thread.
`NeverOvercounted` and `NothingLeftOut` are therefore about ids: an id is given
what the reports under it used, whichever files they are in.

The remaining outcomes of a delivery (`eventStarted`, `resumedStarted`, `resumedActive`,
`eventNotifiedActive`) do mean what they say (`ConfirmedIsAttended`).

`LeaseFits` is stated for deliveries without `--resume`.  They fit exactly: ten
timeouts in the worst case, `initialize` included.  With `--resume` the worst
case is sixteen, so a slow but successful delivery can outlive its lease;
`DuplicateHasCause` says what that can lead to, and no more.  Not counted are
the time to connect and further pages of `thread/loaded/list`.

## 7. Proofs

`WakeQueueProofs` proves, for all sets of jobs and runs, fire limits, batch
limits, lease lengths and clock lags smaller than a lease:

| theorem | says |
| --- | --- |
| `TypeCorrect` | `[]TypeOK` |
| `LeaseSafety` | `[]LeaseProtects` |
| `NumberSafety` | `[]EventNumbers` |
| `LimitSafety` | `[]FireLimitKept` |
| `DuplicateSafety` | `[]DuplicateHasCause` |
| `ClosedSafety` | `[]ClosedCountIsExact` |
| `Refinement` | `Spec => ImplementsLedger` |

The properties are not inductive.  A commit may write a stale fire count unless
a run that owns a row has a fresh snapshot of it; that it has one follows from
the fact that only the owner changes a leased row.  `IInv` adds to the
properties: `RowShape` (a lease implies pending), `RunShape` (what each `pc`
implies about the local state), `Fresh` (the snapshot is never ahead of the
column and equals it while the run owns the row), `Attempt` (what the
app-server accepted of the attempt in hand), `Protected` (an exposed delivery
has time left on its lease or the job has an excuse) and `Clean` (without an
excuse, what is accepted is what is counted, unless a run is about to count
it).  There is one lemma per conjunct, `...Step`, with one step per action, and
`Invariance` combines them.  The assumptions are those on the constants in
`WakeQueue`; the essential one is `MaxLag < LeaseSeconds`.  The refinement uses
`IInv` to show that an acceptance is of the next number (`AcceptStep`) and that
a commit counts exactly one accepted event (`CommitStep`).

`RecoveryStoreProofs` proves, for all callers, keys, values and files:
`TypeCorrect` (`[]TypeOK`, which includes that nothing native and no credential
is ever stored), `LoadsExtend` (`LoadExtends`), `NewerIsRetained`
(`NewerRetained`) and `OnlyServedIsSaved` (`OnlyServedSaved`).  The three action
properties need an invariant: a revision stands for one content.  `IInv` adds
`RecordShape` (revision 0 is no row, revisions are below the stamp),
`Identified` (if the record has the revision a caller read it is the record it
read, and if somebody changed it the revision differs, unless it was 0) and
`Prepared` (what callers on the way to a write have checked).  `WriteStep` and
`WriteIdentified` show that a commit keeps them, `SavesIsSave` that a step in
which a load changes the record is its `Save`.  The assumptions are that files
hold configurations and that the bound on writes is a number.

The other proofs follow the same pattern: an `IInv` of named parts, also checked with
TLC on a small instance, one lemma per action or group of similar actions, and an
invariance theorem that combines them.

| module | theorems | show |
| --- | --- | --- |
| `StreamsProofs` | `StreamIsWellFormed`, `AcknowledgedIsSeen`, `ReconciledIsOnce`, `StreamIsLog` | `WellFormed`, `NothingPassedOver`, `PublishedOnce`, `ImplementsLog` |
| `StopWatchProofs` | `StopTypeCorrect`, `CompletionSafety`, `AnchorSafety`, `NewsSafety` | `TypeOK`, `NoCompletionMissed`, `FailedMeansGone`, `DeliversNews` |
| `ReadingProofs` | `PagesSafety`, `ScanSafety`, `UsageSafety`, `LimitsSafety` (no snapshot without its reset time) | `PagesSafe`, `ScanSafe`, `UsageSafe`, `LimitsSafe` |
| | `WatchTypeCorrect`, `MilestoneSafety`, `NewsSafety`, `OneGoalSafety` | `TypeOK`, `MilestoneNotSwallowed`, `DeliversNews`, `OneGoal` |
| `EventDeliveryProofs` | `DeliveryTypeCorrect`, `ConfirmationSafety`, `RetrySafety`, `ContinuationSafety`, `LeaseSafety` | `TypeOK`, `ConfirmedIsAttended`, `RetryMeansUnsent`, `NoTurnBesideContinuation`, `LeaseFits` |
| `CommandsProofs` | `InputSafety`, and for its parts `InputTypeCorrect`, `ResultSafety`, `UnsentSafety`, `SteerSafety` | `InputSafe` |
| | `ClientSafety`, `GoalSafety`, `InjectSafety`, `ControlSafety`, `GenerationSafety` | `ClientSafe`, `GoalSafe`, `InjectSafe`, `ControlSafe`, `GenerationSafe` |

*Streams.*  What a transaction has read is still true when it commits, because only
the holder of the write lock changes the table; what a listing returned stays true
because entries never change and are only added after the tail.  That a page of the
entries after a cursor is a slice of the positions (`PageIsSlice`) is a lemma about
cardinalities, which rests on `BoundedSets`.

*StopWatch.*  A run reads the history page by page while it changes.  `ReadShape`
says what remains true of that: what was read is a gapless part of the history, and only the
newest turn of it may have been running.  `PlaceShape` says how far the run came:
it holds the turn of the cursor, or a turn that ended, or the history to its end;
that the first page has a turn that ended if there is any needs pages of two turns
(`PageHasDone`).  So a turn that the new cursor leaves behind was read as terminal
or is older than one that was read (`NothingBetween`), and either way the event tells
of it.  `CursorShape` says that a turn called closed does not run again, and
`NewsShape` that nothing settled lies beyond the cursor and that the boundary is not
after it.

*GoalWatch.*  A run writes only a row that it still leases, and nobody wrote that row
since it was claimed (`LeaseShape`), so what the run found out by comparing with it
(`EvaluationShape`) holds at the commit.

*HistoryPages.*  The history grows while it is read and what was read of it stays.  Pages
come newest first, so a command may stop as soon as it has enough: if the bounds were found in
what was read, they are where their newest occurrences in the whole are (`SamePlace`), and
the newest few of the whole are those of its upper part that has as many
(`EnoughSuffices` for items, `TurnsSuffice` for turns; both count, by `BoundedSets` and
the theorems on finite sets).  A bound that is not ambiguous in the whole is not so in the
part (`BoundedFromOn`); if it is ambiguous only in the whole it occurs below the part
(`AmbiguousBelow`), which cannot be when the part consists of whole turns, as the same
locator means the same turn (`NoneBelow`).  `IInv` adds to the properties themselves: `LogShape`
(items of one turn are next to each other, and so are those of one locator), which holds
at first by least counterexamples (`HistoryInOrder`, `LocatorsInTurns`) and then because
items are added at the end;
`StepShape`, which step answers which query on which server; `CursorShape`, that each
cursor followed lies below those before it, so no page comes twice, and that the first
page held the end of the history as it was when the reader began; and `TurnShape`, that
what was read of one turn is its beginning without a gap.  `PagesAssumption` says that an
inspection is of no particular turn, that a page has one item at least and that a history
begins within its bound.

*RolloutScan.*  Until the file is open only its place matters: `PlaceShape` counts the moves
behind a path that is not where the file is, and behind two paths that are both taken for
the file.  After that the file only grows, and the invariant names the records behind
everything that was collected: `StatesShape` that the states are, in their order, those
lines read that are a portable checkpoint or a standalone memory, each with its memory and
the number of compactions up to it, and `SumShape` what the count, the visible memories,
the live states and the messages are.  Both are about the lines read, so what is appended
beyond them changes neither (`LinesReadStay`), and `MessageRead`, `MemoryRead` and
`CompactionRead` show them for one line more.  What the commands conclude then follows
from the invariant: `PrefixCollected`, `ReferenceSelects`, for which places are in the
order of lines (`StatesInOrder`), and `MatchesHeld`, for which compactions are told apart
by their number (`IndexTells`), each match has one holder (`HolderIs`), and `Before` is a
strict order, so that every candidate has a place of its own (`CandidatesInOrder`).  A
record that was read in halves (`cut`) is the exception, as in the properties.
`ScanAssumption` says that there are finitely many memories and that the file begins
within its bound.

*TokenUsage.*  `CounterShape` says what the counter of a thread is compared with what the
thread reported last, and from that `ReportShape` follows: a report adds at most what was
spent for it, and just that while nothing was inherited and the counter did not restart.
`FileShape` says that one file of a thread is read, once.  What a file adds to an id and
what was spent under it are sums of two sequences that are compared entry by entry
(`SumsCompare`).  `Sum` is a recursive function, so the lemma is by a least
counterexample (`HasFirst`), and that there is such a function of every length
(`SumsExist`) is shown in the same way.  What is owed to an id is the sum over the
threads, which may all report under it; a file that is read adds one thread's part to
it and leaves the others as they are (`OneMoreValue`).

*LimitHistory.*  `SnapshotShape` says that no two snapshots were written at once and what
reset time each reports.  As a window is longer than the tolerance and the drift
together, a snapshot is newer in the sense of `is_newer_state` just if the state it shows
is later (`NewerIsLater`).  Then the row that is current grows later as rows are taken in
order, and a row later than all before it takes its place (`ReducedRows`, again by least
counterexamples).  This is not so for snapshots without a reset time: the run `boundary`
shows what happens to them, and `LimitsSafety` assumes that there are none (`~Missing`).
`LimitsAssumption` says that windows are that long; the tolerance is two minutes, and the
windows that `docs/usage-history.md` of limitctl names last 5 hours and 7 days.

*EventDelivery.*  There is one copy of the event, and the invariant says for each step
what the client knows of it.  A result that claims something is reached only from a step
at which nothing is on its way any more.  `LeaseSafety` assumes ten request timeouts in a
lease, which is what `lease_window` grants: the invariant bounds what was spent before
each step.

*The commands* (`CommandsProofs`).  A behaviour of `CommandSpec` is one of the command
that `kind` names: `CommandBegins` and `CommandGoesOn` say that its first state is an
initial state of that command's module and that every step is one of its steps or leaves
its variables alone.  So each theorem needs the invariant of one module only, which that
module states as `IInv` beside the properties it is for, with TLC's values for the
constants left open.

* `InputDelivery`: the argument of `EventDelivery` with two more parts, `ResultShape`
  (a result that claims something is final) and `SteerShape` (without permission to
  steer a message is on its way only to a turn that began after the thread was seen idle).
* `RpcClient`: `NotificationsKept` is nearly inductive; it needs that numbers of
  notifications grow (`Numbered`), so that the one that is read is the next one.
  `GapShape` says that while a client of pipes is between `select` and `poll`, every answer to be
  read was sent since the `select`; `ExitShape` that after an exit was seen nothing is
  asked or sent, so that no answer joins those left behind; and
  `TimeShape` that what the client may still wait is within what it was given: for
  `limitctl` one deadline for all requests, for the others one for each.
* `GoalCommand`: `WriteShape` locates the one write under way.  `ReplaceShape` says that
  `replace` comes to its `set` only with the goal it found gone, and that ids are not
  given twice.  `HoldShape` is what the search over pages rests on: as long as the shared
  server holds the thread, the page that lists it is still ahead, so a command by the
  default route cannot end with a server of its own.
* `MemoryInject`: `MissedShape` is the heart: from its look at the disk until the request
  is carried out an injector has missed every copy of its memory that the thread has, and
  only then can a second one be added.  `AllowedShape` carries the checks of the options
  and of the source to the request.
* `ThreadControl`: `ListedShape` follows the process number through the pages: the item
  found at it is there still, or over, or the number changed hands.  `WorldShape` says
  that no item runs under two numbers, so a terminal that ended does not run elsewhere.
* `GenerationCache`: `TaskShape` bounds the tasks past the semaphore, of which the
  requests are a part; the bound is kept because a task enters only when there is room
  and tasks leave one by one, which is a fact about cardinalities of finite sets.
  `CacheShape` says what the entries that were there all along imply for the tasks, and
  `ScanShape` that a thread which was not compacted is as it was scanned.

The theorems assume what the modules say of their constants, that no process is
called `NoRun`, that bounds on turns and seconds are at least one, that pages of
turns have more than one, and that streams, runs and messages are what the types say.
Those about the commands assume what `MCCommands` names `InputAssumption`,
`ControlAssumption` (there is a number for each terminal that runs at first),
`ClientAssumption`, `GoalAssumption`, `InjectAssumption` (options are such as the parser
can produce) and `GenerationAssumption` (one attempt at least, and orders such as the
parser can produce); those about the commands that read what `MCReading` names
`PagesAssumption`, `ScanAssumption`, `UsageAssumption` (there are finitely many threads, and
the bounds are numbers) and `LimitsAssumption`.  TLC checks each for the values of its run.

Only model-checked is liveness (`DueJobIsSettled`, `ReadersCatchUp`), which is out of the
prover's reach.  Recursive functions over the numbers up to a bound were within it, because
a least counterexample replaces the induction.

## 8. Not modelled, and what is left

Left out of the models on disk: the text of events, messages and prompts, JSON
output, the paths of databases, permissions, the handshake and framing of
connections, the app-server's own behaviour beyond what its clients rely on, `watch` (one
evaluation in a loop, no shared state), the legacy input action, models and tiers
in token reports, search modes (which messages match is an input), the selection
of an index by time.

Not modelled as components:

* time and command conditions: a comparison with the clock and an exit status;
* the tree of agents, settings and context report of threadctl: one or two requests
  and their presentation;
* argument parsing, formatting and the systemd units: no shared state;
* scripts and examples, outside the installed tools.

What could follow: an abstract message that `InputDelivery` and `EventDelivery` both
implement.
