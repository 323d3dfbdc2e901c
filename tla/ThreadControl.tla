---------------------------- MODULE ThreadControl ----------------------------
(***************************************************************************)
(* The commands of codex-threadctl that act on what a loaded thread is     *)
(* doing: interrupt (with --wait), terminate-terminal and configure        *)
(* (appserver.py, configuration.py).  Turns and background terminals come  *)
(* and go between the requests, and the number of a process that ended is  *)
(* given to another one.                                                   *)
(***************************************************************************)
EXTENDS Integers

CONSTANTS
  MaxTurns,    \* bound: turns of the thread
  Processes,   \* numbers of processes, the pages of the terminal list in this order: 1..n
  MaxItems     \* bound: terminals that are ever started

ProcessIds == 1..Processes
Items == 1..MaxItems

VARIABLES
  loaded, turn, last,   \* the thread (external): loaded, running turn, newest turn
  terminal, started,    \* which terminal has a process number, 0 if none, and how many have
                        \* been started (external)
  settings,             \* the new settings apply (external)
  mail, reply,          \* a request on its way, and its answer (external)
  command, wanted,      \* the command, and the turn, process and item it names
  pc,
  listed,               \* the item found under the wanted process number, 0 if none
  page,                 \* next page of the terminal list
  handed,               \* the number changed hands after it was listed
  killed,               \* terminals ended by our request
  outcome

thread == <<loaded, turn, last>>
terminals == <<terminal, started>>
request == <<command, wanted>>
local == <<listed, page>>
vars == <<loaded, turn, last, terminal, started, settings, mail, reply, command, wanted, pc,
          listed, page, handed, killed, outcome>>

Operations == {"interrupt", "interruptAndWait", "terminate", "configure"}

TypeOK ==
  /\ loaded \in BOOLEAN /\ turn \in 0..MaxTurns /\ last \in 0..MaxTurns
  /\ terminal \in [ProcessIds -> Items \union {0}] /\ started \in 0..MaxItems
  /\ settings \in BOOLEAN
  /\ mail \in {"none", "interrupt", "terminate", "configure"}
  /\ reply \in {"none", "ok", "notRunning", "error"}
  /\ command \in Operations
  /\ wanted \in [turn : 1..MaxTurns, process : ProcessIds, item : Items]
  /\ pc \in {"loaded", "list", "check", "send", "sent", "wait", "done"}
  /\ listed \in Items \union {0} /\ page \in 1..(Processes + 1)
  /\ handed \in BOOLEAN /\ killed \subseteq Items
  /\ outcome \in {"none", "requested", "stopped", "terminated", "accepted", "refused", "failed",
                  "uncertain"}
  /\ pc = "done" <=> outcome # "none"

Init ==
  /\ loaded \in BOOLEAN /\ last = 1 /\ turn \in (IF loaded THEN {0, 1} ELSE {0})
  /\ started = Processes /\ terminal = [p \in ProcessIds |-> p]
  /\ settings = FALSE /\ mail = "none" /\ reply = "none"
  /\ command \in Operations
  /\ wanted \in [turn : {1}, process : ProcessIds, item : ProcessIds]
  /\ pc = "loaded" /\ listed = 0 /\ page = 1
  /\ handed = FALSE /\ killed = {} /\ outcome = "none"

-----------------------------------------------------------------------------
(* The thread and the app-server (external). *)

client == <<command, wanted, pc, listed, page, outcome>>

TurnChanges ==
  /\ \/ turn # 0 /\ turn' = 0 /\ UNCHANGED last
     \/ loaded /\ turn = 0 /\ last < MaxTurns /\ turn' = last + 1 /\ last' = last + 1
  /\ UNCHANGED <<loaded, terminals, settings, mail, reply, client, handed, killed>>

Unloads ==
  /\ loaded /\ turn = 0 /\ loaded' = FALSE
  /\ UNCHANGED <<turn, last, terminals, settings, mail, reply, client, handed, killed>>

Handed(p) == handed' = (handed \/ (p = wanted.process /\ page > p))

TerminalEnds ==
  /\ \E p \in ProcessIds :
       terminal[p] # 0 /\ terminal' = [terminal EXCEPT ![p] = 0] /\ Handed(p)
  /\ UNCHANGED <<thread, started, settings, mail, reply, client, killed>>

TerminalStarts ==
  /\ started < MaxItems /\ started' = started + 1
  /\ \E p \in ProcessIds :
       terminal[p] = 0 /\ terminal' = [terminal EXCEPT ![p] = started'] /\ Handed(p)
  /\ UNCHANGED <<thread, settings, mail, reply, client, killed>>

Answer(a) ==
  /\ mail' = "none"
  /\ reply' = IF pc = "sent" THEN a ELSE "none"
  /\ UNCHANGED <<thread, started, client, handed>>

(* An interruption is taken in only for the turn that runs. *)
ServeInterrupt ==
  /\ mail = "interrupt"
  /\ Answer(IF turn = wanted.turn THEN "ok" ELSE "error")
  /\ UNCHANGED <<terminal, settings, killed>>

(* The app-server looks at nothing but the process number. *)
ServeTerminate ==
  /\ mail = "terminate"
  /\ LET p == wanted.process
     IN  /\ terminal' = [terminal EXCEPT ![p] = 0]
         /\ killed' = killed \union ({terminal[p]} \ {0})
         /\ Answer(IF terminal[p] = 0 THEN "notRunning" ELSE "ok")
  /\ UNCHANGED settings

ServeConfigure ==
  /\ mail = "configure"
  /\ \/ loaded /\ settings' = TRUE /\ Answer("ok")
     \/ Answer("error") /\ UNCHANGED settings
  /\ UNCHANGED <<terminal, killed>>

-----------------------------------------------------------------------------
(* The client. *)

Goto(step) == pc' = step /\ UNCHANGED outcome

End(result) == pc' = "done" /\ outcome' = result

RequireLoaded ==
  /\ pc = "loaded"
  /\ IF loaded THEN Goto(IF command = "terminate" THEN "list" ELSE "send") ELSE End("refused")
  /\ UNCHANGED <<thread, terminals, settings, mail, reply, request, local, handed, killed>>

(* list_background_terminals reads every page before anything is compared. *)
ListTerminals ==
  /\ pc = "list"
  /\ listed' = IF page = wanted.process THEN terminal[page] ELSE listed
  /\ page' = page + 1
  /\ Goto(IF page = Processes THEN "check" ELSE "list")
  /\ UNCHANGED <<thread, terminals, settings, mail, reply, request, handed, killed>>

(* Mutant of IsTheOne: any terminal with the process number will do.       *)
IsAnyOne == listed # 0

IsTheOne == listed = wanted.item

CheckTerminal ==
  /\ pc = "check"
  /\ IF IsTheOne THEN Goto("send") ELSE End("refused")
  /\ UNCHANGED <<thread, terminals, settings, mail, reply, request, local, handed, killed>>

Send ==
  /\ pc = "send"
  /\ mail' = IF command = "interruptAndWait" THEN "interrupt" ELSE command
  /\ Goto("sent")
  /\ UNCHANGED <<thread, terminals, settings, reply, request, local, handed, killed>>

Answered ==
  /\ pc = "sent" /\ reply # "none" /\ reply' = "none"
  /\ CASE reply \in {"error", "notRunning"} ->
            End(IF command = "configure" THEN "refused" ELSE "failed")
       [] command = "interruptAndWait" -> Goto("wait")
       [] OTHER -> End(CASE command = "interrupt" -> "requested"
                         [] command = "terminate" -> "terminated"
                         [] command = "configure" -> "accepted")
  /\ UNCHANGED <<thread, terminals, settings, mail, request, local, handed, killed>>

(* Mutant of IsOver: the newest turn is looked at, whichever it is.        *)
IsOverOrNewest == turn # last \/ turn # 0

(* wait_for_turn_terminal follows exactly the turn it was asked about. *)
IsOver == turn # wanted.turn

SeesEnd ==
  /\ pc = "wait" /\ IsOver
  /\ End("stopped")
  /\ UNCHANGED <<thread, terminals, settings, mail, reply, request, local, handed, killed>>

(* Mutant of AfterFailure: a lost answer is taken for a refusal.           *)
RefusedAfterFailure == IF command = "configure" THEN "refused" ELSE "failed"

(* configure tells a lost answer from a failure before the request. *)
AfterFailure ==
  IF command # "configure" THEN "failed"
  ELSE IF pc = "loaded" THEN "refused" ELSE "uncertain"

Fails ==
  /\ pc # "done" /\ reply' = "none"
  /\ End(AfterFailure)
  /\ UNCHANGED <<thread, terminals, settings, mail, request, local, handed, killed>>

Next ==
  \/ TurnChanges \/ Unloads \/ TerminalEnds \/ TerminalStarts
  \/ ServeInterrupt \/ ServeTerminate \/ ServeConfigure
  \/ RequireLoaded \/ ListTerminals \/ CheckTerminal \/ Send \/ Answered \/ SeesEnd \/ Fails

Spec == Init /\ [][Next]_vars

-----------------------------------------------------------------------------
(* Properties. *)

(* No terminal is ended but the one that was named, by process and item,   *)
(* unless the process number passed to another between the listing and     *)
(* the request, which the app-server gives no means to prevent.            *)
EndsOnlyTheNamed == killed \subseteq {wanted.item} \/ handed

(* What is reported as terminated no longer runs, whatever became of its   *)
(* process number in the meantime; what is reported as stopped is over,    *)
(* even if the thread has begun another turn.                              *)
ReportedIsOver ==
  /\ outcome = "terminated" => \A p \in ProcessIds : terminal[p] # wanted.item
  /\ outcome = "stopped" => turn # wanted.turn

(* Settings that were refused do not come into force later. *)
RefusedMeansUnchanged ==
  command = "configure" /\ outcome = "refused" => ~settings /\ mail = "none"
-----------------------------------------------------------------------------
(* The inductive invariant that the theorems in CommandsProofs rest on.    *)

(* What the thread and its terminals are like whatever the client does.    *)
WorldShape ==
  /\ turn \in {0, last} /\ wanted.turn <= last
  /\ \A p \in ProcessIds : terminal[p] <= started
  /\ \A p, q \in ProcessIds : terminal[p] # 0 /\ terminal[p] = terminal[q] => p = q

(* Where a request can be, and which one it is.                            *)
RequestShape ==
  /\ mail \in {"none", IF command = "interruptAndWait" THEN "interrupt" ELSE command}
  /\ pc \in {"loaded", "list", "check", "send"} => mail = "none"
  /\ pc = "sent" => (mail = "none" <=> reply # "none")
  /\ reply # "none" => pc = "sent"
  /\ pc \in {"list", "check"} => command = "terminate"
  /\ pc = "wait" => mail = "none"

(* The item that was listed had the wanted process number, and no other    *)
(* process has it since; until the number changes hands it still has the   *)
(* number, or has ended.                                                   *)
ListedShape ==
  /\ pc = "loaded" => page = 1
  /\ pc = "list" => page <= Processes
  /\ page <= wanted.process => listed = 0 /\ ~handed
  /\ listed # 0 =>
       /\ listed <= started
       /\ \A p \in ProcessIds \ {wanted.process} : terminal[p] # listed
  /\ page > wanted.process /\ ~handed => terminal[wanted.process] \in {0, listed}
  /\ command = "terminate" =>
       /\ pc = "check" => page > wanted.process
       /\ pc \in {"send", "sent"} \/ mail = "terminate" =>
            listed = wanted.item /\ page > wanted.process
  /\ killed \subseteq {wanted.item} \/ handed

(* Nothing with the wanted item runs, now or later.                        *)
Over == wanted.item <= started /\ \A p \in ProcessIds : terminal[p] # wanted.item

AnswerShape ==
  /\ command = "terminate" /\ reply = "ok" => Over
  /\ outcome = "terminated" => Over
  /\ outcome = "stopped" => turn # wanted.turn
  /\ command = "configure" =>
       /\ pc \in {"loaded", "send"} => ~settings
       /\ mail = "configure" \/ reply \in {"error", "notRunning"} => ~settings
       /\ outcome = "refused" => ~settings /\ mail = "none"

IInv == TypeOK /\ WorldShape /\ RequestShape /\ ListedShape /\ AnswerShape
=============================================================================
