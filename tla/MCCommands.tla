------------------------------ MODULE MCCommands ------------------------------
(***************************************************************************)
(* Instances, for TLC, of the commands that change something.  A behaviour *)
(* is that of one of them, so they share the variables of the same name;   *)
(* those that a command does not have stay Unused.  RecoveryStore has its  *)
(* variables to itself.                                                    *)
(***************************************************************************)
EXTENDS MCRecoveryStore, FiniteSets

CONSTANTS
  Unused,
  MaxTurns, ConfirmTurns,                       \* InputDelivery, ThreadControl
  Processes, MaxItems,                          \* ThreadControl
  Timeout, MaxRequests, MaxExtras,              \* RpcClient
  MaxGoals, LoadedPages,                        \* GoalCommand
  i1, i2, a,
  Memories, Injectors, GivenOptions,            \* MemoryInject
  Commands, GivenOrders, Jobs, MaxAttempts, MaxCompactions  \* GenerationCache

(* A thread has a turn; there is a number for every terminal it starts     *)
(* with; and every command was given settings its parser lets through.     *)
ASSUME InputAssumption == MaxTurns \in Nat \ {0}
ASSUME ControlAssumption ==
  Processes \in Nat \ {0} /\ MaxItems \in Nat /\ Processes <= MaxItems
ASSUME ClientAssumption == Timeout \in Nat /\ MaxRequests \in Nat /\ MaxExtras \in Nat
ASSUME GoalAssumption == MaxGoals \in Nat \ {0} /\ LoadedPages \in Nat \ {0}

VARIABLES
  kind,
  loaded, turn, last, mail, reply, command, page, step, outcome,
  accepted, held, channels, allowActive, expected, ownTurn, lookedAt, reported,
  client, nextId, waiting, clock, deadline, looked, late, unanswered, inbox, extras, running,
  tracked, kept, ended,
  goal, made, shared, holds, charged, route, server, written, first, steady,
  active, turned, shown, onDisk, readable, opts, sent, arrived, behind, excused,
  terminal, started, settings, wanted, listed, handed, killed,
  compacted, cache, orders, advanced, job, tries, scanned, moved, keptKeys, clearedFor

Input == INSTANCE InputDelivery WITH pc <- step, own <- ownTurn
Rpc == INSTANCE RpcClient
Goal == INSTANCE GoalCommand WITH pc <- step
Inject == INSTANCE MemoryInject WITH pc <- step
Control == INSTANCE ThreadControl WITH pc <- step
Generation == INSTANCE GenerationCache WITH pc <- step, kept <- keptKeys

ASSUME InjectAssumption == GivenOptions \subseteq [Injectors -> Inject!Options]
ASSUME GenerationAssumption ==
  /\ GivenOrders \subseteq [Commands -> Generation!Orders] /\ Generation!Absent \notin Commands
  /\ Jobs \in Nat /\ MaxAttempts \in Nat \ {0} /\ MaxCompactions \in Nat /\ MaxCompactions >= 2

\* What the first of two injectors was asked for, with at most three settings that differ
\* from those of the second one.
Plain ==
  [self |-> FALSE, expectNoTurns |-> FALSE, binding |-> "unset", framing |-> "unset",
   purpose |-> FALSE, full |-> FALSE, file |-> FALSE, scope |-> "memory",
   allowDuplicate |-> FALSE, preview |-> FALSE, batch |-> <<a>>]

Settings ==
  [self : BOOLEAN, expectNoTurns : BOOLEAN, binding : {"unset", "current", "source"},
   framing : {"unset", "none", "boundaries"}, purpose : BOOLEAN, full : BOOLEAN, file : BOOLEAN,
   scope : {"memory", "checkpoint"}, allowDuplicate : BOOLEAN, preview : BOOLEAN,
   batch : {<<a>>, <<a, a>>}]

Varied ==
  {o \in Settings :
     /\ o.scope = "checkpoint" => o.file
     /\ Cardinality({s \in DOMAIN Plain : o[s] # Plain[s]}) <= 3}

MCOptions == {[i \in Injectors |-> IF i = i1 THEN o ELSE Plain] : o \in Varied}

\* An index of everything beside a diff that leaves the cache alone; an index of the newest
\* checkpoint beside another one that ignores the cache; and the latter beside a summary.
Order(name, limit, refresh, noCache) ==
  [command |-> name, limit |-> limit, refresh |-> refresh, noCache |-> noCache]

WholeIndex == Order("index", 0, FALSE, FALSE)
Newest == Order("index", 1, FALSE, FALSE)
NewestAnew == Order("index", 1, TRUE, FALSE)
Summary == Order("summarize", 0, FALSE, FALSE)
Difference == Order("diff", 0, FALSE, TRUE)

MCOrders ==
  {(i1 :> pair[1]) @@ (i2 :> pair[2]) :
     pair \in {<<WholeIndex, Difference>>, <<Newest, NewestAnew>>, <<NewestAnew, Summary>>}}

-----------------------------------------------------------------------------
(* The variables of a single command, and which ones the others use.       *)

inputOnly == <<accepted, held, channels, allowActive, expected, ownTurn, lookedAt, reported>>
rpcOnly == <<client, nextId, waiting, clock, deadline, looked, late, unanswered, inbox, extras,
             running, tracked, kept, ended>>
goalOnly == <<goal, made, shared, holds, charged, route, server, written, first, steady>>
injectOnly == <<active, turned, shown, onDisk, readable, opts, sent, arrived, behind, excused>>
controlOnly == <<terminal, started, settings, wanted, listed, handed, killed>>
generationOnly == <<compacted, cache, orders, advanced, job, tries, scanned, moved, keptKeys,
                    clearedFor>>
common == <<loaded, turn, last, mail, reply, command, page, step, outcome>>

Only(k, v) == kind = k \/ v = Unused
UsedBy(kinds, v) == kind \in kinds \/ v = Unused

Idle ==
  /\ UsedBy({"input", "inject", "control"}, loaded)
  /\ UsedBy({"input", "control"}, turn) /\ UsedBy({"input", "control"}, last)
  /\ UsedBy({"input", "goal", "inject", "control"}, mail)
  /\ UsedBy({"input", "goal", "inject", "control"}, reply)
  /\ UsedBy({"input", "goal", "inject", "control", "generation"}, step)
  /\ UsedBy({"input", "goal", "inject", "control", "generation"}, outcome)
  /\ UsedBy({"input", "goal", "control"}, command) /\ UsedBy({"goal", "control"}, page)
  /\ Only("input", accepted) /\ Only("input", held) /\ Only("input", channels)
  /\ Only("input", allowActive) /\ Only("input", expected) /\ Only("input", ownTurn)
  /\ Only("input", lookedAt) /\ Only("input", reported)
  /\ Only("rpc", client) /\ Only("rpc", nextId) /\ Only("rpc", waiting) /\ Only("rpc", clock)
  /\ Only("rpc", deadline) /\ Only("rpc", looked) /\ Only("rpc", late)
  /\ Only("rpc", unanswered) /\ Only("rpc", inbox)
  /\ Only("rpc", extras) /\ Only("rpc", running) /\ Only("rpc", tracked)
  /\ Only("rpc", kept) /\ Only("rpc", ended)
  /\ Only("goal", goal) /\ Only("goal", made) /\ Only("goal", shared) /\ Only("goal", holds)
  /\ Only("goal", charged) /\ Only("goal", route) /\ Only("goal", server)
  /\ Only("goal", written) /\ Only("goal", first) /\ Only("goal", steady)
  /\ Only("inject", active) /\ Only("inject", turned) /\ Only("inject", shown)
  /\ Only("inject", onDisk) /\ Only("inject", readable) /\ Only("inject", opts)
  /\ Only("inject", sent) /\ Only("inject", arrived) /\ Only("inject", behind)
  /\ Only("inject", excused)
  /\ Only("control", terminal) /\ Only("control", started) /\ Only("control", settings)
  /\ Only("control", wanted) /\ Only("control", listed) /\ Only("control", handed)
  /\ Only("control", killed)
  /\ Only("generation", compacted) /\ Only("generation", cache) /\ Only("generation", orders)
  /\ Only("generation", advanced) /\ Only("generation", job) /\ Only("generation", tries)
  /\ Only("generation", scanned) /\ Only("generation", moved)
  /\ Only("generation", keptKeys) /\ Only("generation", clearedFor)

CommandInit ==
  /\ kind \in {"recovery", "input", "rpc", "goal", "inject", "control", "generation"}
  /\ Init /\ (kind = "recovery" \/ thread = "none")
  /\ CASE kind = "input" -> Input!Init
       [] kind = "rpc" -> Rpc!Init
       [] kind = "goal" -> Goal!Init
       [] kind = "inject" -> Inject!Init
       [] kind = "control" -> Control!Init
       [] kind = "generation" -> Generation!Init
       [] OTHER -> TRUE
  /\ Idle

RecoveryStep ==
  /\ kind = "recovery" /\ Next
  /\ UNCHANGED <<kind, common, inputOnly, rpcOnly, goalOnly, injectOnly, controlOnly, generationOnly>>

InputStep ==
  /\ kind = "input" /\ Input!Next
  /\ UNCHANGED <<kind, vars, page, rpcOnly, goalOnly, injectOnly, controlOnly, generationOnly>>

RpcStep ==
  /\ kind = "rpc" /\ Rpc!Next
  /\ UNCHANGED <<kind, vars, common, inputOnly, goalOnly, injectOnly, controlOnly, generationOnly>>

GoalStep ==
  /\ kind = "goal" /\ Goal!Next
  /\ UNCHANGED <<kind, vars, loaded, turn, last, inputOnly, rpcOnly, injectOnly, controlOnly,
                 generationOnly>>

InjectStep ==
  /\ kind = "inject" /\ Inject!Next
  /\ UNCHANGED <<kind, vars, turn, last, command, page, inputOnly, rpcOnly, goalOnly, controlOnly,
                 generationOnly>>

ControlStep ==
  /\ kind = "control" /\ Control!Next
  /\ UNCHANGED <<kind, vars, inputOnly, rpcOnly, goalOnly, injectOnly, generationOnly>>

GenerationStep ==
  /\ kind = "generation" /\ Generation!Next
  /\ UNCHANGED <<kind, vars, loaded, turn, last, mail, reply, command, page, inputOnly, rpcOnly,
                 goalOnly, injectOnly, controlOnly>>

CommandNext ==
  \/ RecoveryStep \/ InputStep \/ RpcStep \/ GoalStep \/ InjectStep \/ ControlStep
  \/ GenerationStep

CommandSpec ==
  CommandInit /\ [][CommandNext]_<<kind, vars, common, inputOnly, rpcOnly, goalOnly, injectOnly,
                                   controlOnly, generationOnly>>

-----------------------------------------------------------------------------
(* What each of the commands guarantees, part by part; its module says     *)
(* what the parts mean.                                                    *)

(* InputDelivery: a result is true and names the turn that has the input,  *)
(* what may be tried again was not sent, and a running turn gets no input  *)
(* that was not allowed to steer it.                                       *)
InputSafe ==
  kind = "input" =>
    Input!TypeOK /\ Input!ResultIsTrue /\ Input!RetryMeansUnsent /\ Input!NoUnallowedSteer

(* RpcClient: a request ends in time and with its own answer, which an     *)
(* app-server that exits does not take with it but for the moment between  *)
(* select and poll, and no tracked notification is lost, repeated or put   *)
(* out of order.                                                           *)
ClientSafe ==
  kind = "rpc" =>
    /\ Rpc!TypeOK /\ Rpc!AnswerIsOwn /\ Rpc!NotificationsKept
    /\ Rpc!ExitLosesNoAnswer /\ Rpc!EndsInTime

(* GoalCommand: a goal that is replaced is fresh or untouched, the server  *)
(* that holds the thread charges the goal that is stored, and no command   *)
(* writes through two servers.                                             *)
GoalSafe ==
  kind = "goal" =>
    Goal!TypeOK /\ Goal!FreshOrUntouched /\ Goal!NoAccountingGap /\ Goal!NeverSwitches

(* MemoryInject: a memory is repeated on request or because the first copy *)
(* was not to be seen, what is sent is what the options promise, and what  *)
(* was refused was not sent.                                               *)
InjectSafe ==
  kind = "inject" =>
    Inject!TypeOK /\ Inject!RepeatHasCause /\ Inject!SentAsPromised /\ Inject!RefusedMeansUnsent

(* GenerationCache: no more requests than jobs, no description that was    *)
(* finished is lost or asked for again without need, and an index of a     *)
(* thread that has gone on says so.                                        *)
GenerationSafe ==
  kind = "generation" =>
    /\ Generation!TypeOK /\ Generation!JobsBound /\ Generation!FinishedStaysCached
    /\ Generation!RequestHasCause /\ Generation!AdvanceReported

(* ThreadControl: only the terminal that was named is ended, what is       *)
(* reported as over is over, and a refused command changed nothing.        *)
ControlSafe ==
  kind = "control" =>
    /\ Control!TypeOK /\ Control!EndsOnlyTheNamed
    /\ Control!ReportedIsOver /\ Control!RefusedMeansUnchanged
=============================================================================
