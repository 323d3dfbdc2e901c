----------------------------- MODULE GoalCommand -----------------------------
(***************************************************************************)
(* One codex-goalctl command that writes (update, replace, clear): how it  *)
(* chooses an app-server (connect_appserver) and what it does there        *)
(* (cli.py).  The goal is stored in a database all servers share; the      *)
(* server that holds the thread also keeps, in memory, to which goal it    *)
(* charges the running turn.  Only a write through that server changes     *)
(* both.  Other clients set and clear the goal, and load and unload the    *)
(* thread, between any two requests; a request may be refused, or its      *)
(* answer lost while it is still carried out.                              *)
(***************************************************************************)
EXTENDS Integers

CONSTANTS
  MaxGoals,    \* bound: goals that ever exist
  LoadedPages  \* pages of the list of loaded threads of the shared server

VARIABLES
  goal,          \* the stored goal: its id (0: there is none) and whose objective (external)
  made,          \* goals made so far (external)
  shared,        \* the shared server at unix://: absent, up or broken (external)
  holds,         \* the page of its loaded list the thread is on, or 0 (external)
  charged,       \* the goal to which the shared server charges the thread (external)
  mail, reply,   \* a write on its way and its answer (external)
  command,       \* update, replace or clear
  route,         \* auto, endpoint or standalone
  pc, page,      \* next step, page of the loaded list being read
  server,        \* the server of the connection: none, shared or own
  written,       \* servers that were sent a write
  first,         \* id of the goal when the command began
  steady,        \* the shared server has held the thread since the command began
  outcome

database == <<goal, made>>
sharedServer == <<shared, holds, charged>>
wire == <<mail, reply>>
request == <<command, route, first>>
vars == <<goal, made, shared, holds, charged, mail, reply, command, route, pc, page, server,
          written, first, steady, outcome>>

NoGoal == [id |-> 0, of |-> "nobody"]

TypeOK ==
  /\ goal \in [id : 0..MaxGoals, of : {"nobody", "us", "others"}] /\ made \in 0..MaxGoals
  /\ shared \in {"absent", "up", "broken"} /\ holds \in 0..LoadedPages
  /\ charged \in 0..MaxGoals
  /\ mail \in {"none", "clear", "set"} /\ reply \in {"none", "ok", "error"}
  /\ command \in {"update", "replace", "clear"} /\ route \in {"auto", "endpoint", "standalone"}
  /\ pc \in {"connect", "loadedList", "clear", "clearing", "set", "setting", "done"}
  /\ page \in 1..LoadedPages /\ server \in {"none", "shared", "own"}
  /\ written \subseteq {"shared", "own"} /\ first \in 0..MaxGoals /\ steady \in BOOLEAN
  /\ outcome \in {"none", "ok", "failed", "died"}
  /\ pc = "done" <=> outcome # "none"

Init ==
  /\ goal \in {NoGoal, [id |-> 1, of |-> "others"]} /\ made = 1
  /\ shared \in {"absent", "up", "broken"}
  /\ holds \in (IF shared = "up" THEN 0..LoadedPages ELSE {0})
  /\ charged = IF holds # 0 THEN goal.id ELSE 0
  /\ mail = "none" /\ reply = "none"
  /\ command \in {"update", "replace", "clear"} /\ route \in {"auto", "endpoint", "standalone"}
  /\ pc = "connect" /\ page = 1 /\ server = "none" /\ written = {}
  /\ first = goal.id /\ steady = (holds # 0) /\ outcome = "none"

-----------------------------------------------------------------------------
(* Goals, the shared server and its other clients (external). *)

client == <<command, route, pc, page, server, written, first, outcome>>

(* thread/goal/set changes the goal there is, or makes one. *)
StoreGoal(who) ==
  \/ /\ goal.id # 0
     /\ goal' = [goal EXCEPT !.of = who] /\ UNCHANGED made
  \/ /\ goal.id = 0 /\ made < MaxGoals
     /\ goal' = [id |-> made + 1, of |-> who] /\ made' = made + 1

ClearGoal == goal' = NoGoal /\ UNCHANGED made

(* Only the server that holds the thread learns to which goal to charge it. *)
Charge(through) == charged' = IF through = "shared" /\ holds # 0 THEN goal'.id ELSE charged

OthersWrite ==
  /\ StoreGoal("others") \/ ClearGoal
  /\ Charge("shared")
  /\ UNCHANGED <<shared, holds, wire, client, steady>>

Loads ==
  /\ shared = "up"
  /\ \/ holds = 0 /\ holds' \in 1..LoadedPages /\ charged' = goal.id
     \/ holds # 0 /\ holds' = 0 /\ charged' = 0
  /\ steady' = FALSE
  /\ UNCHANGED <<database, shared, wire, client>>

(* A write is carried out, or refused. *)
Serve ==
  /\ mail # "none" /\ mail' = "none"
  /\ \/ /\ IF mail = "set" THEN StoreGoal("us") ELSE ClearGoal
        /\ Charge(server)
        /\ reply' = IF pc \in {"clearing", "setting"} THEN "ok" ELSE "none"
     \/ /\ UNCHANGED <<database, charged>>
        /\ reply' = IF pc \in {"clearing", "setting"} THEN "error" ELSE "none"
  /\ UNCHANGED <<shared, holds, client, steady>>

-----------------------------------------------------------------------------
(* The client. *)

Goto(step) == pc' = step /\ UNCHANGED outcome
End(result) == pc' = "done" /\ outcome' = result

Operate == Goto(IF command = "update" THEN "set" ELSE "clear")

(* Mutant of MayStartOwn: an explicit endpoint that is gone is replaced.   *)
MayStartOwnAlways == TRUE

MayStartOwn == route = "auto"

(* connect_appserver: a server of its own if asked for, or if the shared   *)
(* one is not there and was not asked for; any other trouble is an error.  *)
Connect ==
  /\ pc = "connect"
  /\ \/ /\ route = "standalone" \/ (shared = "absent" /\ MayStartOwn)
        /\ server' = "own" /\ Operate
     \/ /\ route # "standalone" /\ shared = "absent" /\ ~MayStartOwn
        /\ End("failed") /\ UNCHANGED server
     \/ /\ route # "standalone" /\ shared = "up"
        /\ server' = "shared"
        /\ IF route = "auto" THEN Goto("loadedList") ELSE Operate
     \/ /\ route # "standalone" /\ shared = "broken"
        /\ End("failed") /\ UNCHANGED server
  /\ UNCHANGED <<database, sharedServer, wire, request, page, written, steady>>

(* Mutant of Found: only the first page of the loaded list is read.        *)
FoundOnFirstPage == IF holds = 1 THEN "yes" ELSE "no"

Found == IF holds = page THEN "yes" ELSE IF page < LoadedPages THEN "unknown" ELSE "no"

(* holds_thread, page by page; without the thread the shared server is left *)
(* alone.                                                                   *)
ReadLoadedPage ==
  /\ pc = "loadedList"
  /\ \/ Found = "yes" /\ Operate /\ UNCHANGED <<server, page>>
     \/ Found = "unknown" /\ page' = page + 1 /\ Goto("loadedList") /\ UNCHANGED server
     \/ Found = "no" /\ server' = "own" /\ Operate /\ UNCHANGED page
  /\ UNCHANGED <<database, sharedServer, wire, request, written, steady>>

Write(step, what, next) ==
  /\ pc = step
  /\ mail' = what /\ written' = written \union {server}
  /\ Goto(next)
  /\ UNCHANGED <<database, sharedServer, reply, request, page, server, steady>>

(* Mutant of AfterClear: replace sets its goal even if the clear failed.   *)
AfterClearAnyway == IF command = "replace" THEN Goto("set") ELSE End("failed")

(* replace sets its goal once the old one is cleared. *)
AfterClear ==
  CASE reply = "error" -> End("failed")
    [] reply = "ok" /\ command = "replace" -> Goto("set")
    [] OTHER -> End("ok")

Cleared ==
  /\ pc = "clearing" /\ reply # "none" /\ reply' = "none"
  /\ AfterClear
  /\ UNCHANGED <<database, sharedServer, mail, request, page, server, written, steady>>

WasSet ==
  /\ pc = "setting" /\ reply # "none" /\ reply' = "none"
  /\ End(IF reply = "ok" THEN "ok" ELSE "failed")
  /\ UNCHANGED <<database, sharedServer, mail, request, page, server, written, steady>>

(* An error, a lost connection, a timeout; or the process dies. *)
Fails ==
  /\ pc # "done" /\ reply' = "none"
  /\ \E result \in {"failed", "died"} : End(result)
  /\ UNCHANGED <<database, sharedServer, mail, request, page, server, written, steady>>

Next ==
  \/ OthersWrite \/ Loads \/ Serve
  \/ Connect \/ ReadLoadedPage
  \/ Write("clear", "clear", "clearing") \/ Write("set", "set", "setting")
  \/ Cleared \/ WasSet \/ Fails

Spec == Init /\ [][Next]_vars

-----------------------------------------------------------------------------
(* Properties. *)

(* replace never puts its objective on the counters of the goal that was   *)
(* there when it began: whatever fails, the thread has the old goal, none, *)
(* or a fresh one.                                                         *)
FreshOrUntouched ==
  command = "replace" /\ first # 0 => ~(goal.id = first /\ goal.of = "us")

(* By the default route a write to a thread that the shared server holds   *)
(* all along goes through that server, so its running turn is charged to   *)
(* the goal that is stored.                                                *)
NoAccountingGap == route = "auto" /\ steady => charged = goal.id

(* An explicit endpoint never falls back to a new process, and once a      *)
(* command has begun to write it does not change servers.                  *)
NeverSwitches ==
  /\ written # {"shared", "own"}
  /\ route = "endpoint" => "own" \notin written
-----------------------------------------------------------------------------
(* The inductive invariant that the theorems in CommandsProofs rest on.    *)

(* Where a write can be, and which one it is.                              *)
WriteShape ==
  /\ mail # "none" => pc \in {"clearing", "setting", "done"}
  /\ pc \in {"clearing", "setting"} => (mail = "none" <=> reply # "none")
  /\ reply # "none" => pc \in {"clearing", "setting"}
  /\ pc = "clearing" => mail # "set"
  /\ pc = "setting" => mail # "clear"

(* replace goes on to its own goal only when the goal it found is gone;    *)
(* ids are not given twice.                                                *)
ReplaceShape ==
  /\ goal.id <= made /\ first <= made
  /\ command = "replace" /\ first # 0 =>
       /\ pc \in {"set", "setting"} \/ mail = "set" \/ (pc = "clearing" /\ reply = "ok") =>
            goal.id # first
       /\ ~(goal.id = first /\ goal.of = "us")

(* The server of the connection, and the writes it was sent.               *)
ServerShape ==
  /\ pc \in {"clear", "clearing", "set", "setting"} \/ mail # "none" => server # "none"
  /\ written \subseteq {server}
  /\ pc \in {"connect", "loadedList"} => written = {}
  /\ pc = "loadedList" => route = "auto" /\ server = "shared"
  /\ route = "endpoint" => server # "own"

(* As long as the shared server holds the thread, the search for it in the *)
(* list of that server has not passed it.                                  *)
HoldShape ==
  route = "auto" /\ steady =>
    /\ holds # 0 /\ shared = "up" /\ charged = goal.id
    /\ pc \in {"connect", "loadedList"} => page <= holds
    /\ server # "own"

IInv == TypeOK /\ WriteShape /\ ReplaceShape /\ ServerShape /\ HoldShape
=============================================================================
