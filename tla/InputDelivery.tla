---------------------------- MODULE InputDelivery ----------------------------
(***************************************************************************)
(* One message sent to a thread as user input: start, steer, and the input *)
(* action of codex-wakectl (appserver.py: deliver_input, start_turn,       *)
(* steer_turn, confirm_input; delivery.py: deliver_action).  Between any   *)
(* two requests turns of the thread start and end and it is loaded or      *)
(* unloaded by others.  A request that changes something is sent,          *)
(* processed and answered in separate steps, and the client may give up    *)
(* in between.                                                             *)
(*                                                                         *)
(* turn/start on a thread that became busy steers the message into the     *)
(* running turn, though it names a turn of its own; confirm_input looks    *)
(* for the message itself to tell the two apart.                           *)
(***************************************************************************)
EXTENDS Integers

CONSTANTS
  MaxTurns,       \* bound: turns of the thread
  ConfirmTurns    \* how many of the newest turns confirm_input reads (5)

VARIABLES
  loaded, turn, last,   \* the thread (external): loaded, running turn, newest turn
  mail, reply,          \* a request on its way to the app-server, and the answer (external)
  accepted,             \* how the app-server took the message: none, new (a turn is to start
                        \* with it) or running (it is to enter the running turn) (external)
  held,                 \* the turn that holds the message (external)
  channels,             \* where this app-server shows items: notifications, items, turns
  command, allowActive, \* start, steer or input; --allow-active of an input action
  pc,
  expected,             \* turn to steer: given by the caller of steer, read by input
  own,                  \* the turn that the answer to turn/start names
  lookedAt,             \* newest turn when the client last read the status
  outcome, reported     \* outcome, "none" until the command ends; turnId in the result

thread == <<loaded, turn, last>>
external == <<loaded, turn, last, mail, accepted, held>>
request == <<channels, command, allowActive>>
local == <<expected, own, lookedAt>>
vars == <<loaded, turn, last, mail, reply, accepted, held, channels, command, allowActive,
          pc, expected, own, lookedAt, outcome, reported>>

NoTurn == 0
NeverStarts == MaxTurns + 1
TurnIds == 1..MaxTurns

Reading == {"loaded", "status", "activeTurn", "startLoaded", "startStatus", "steerLoaded"}
Sending == {"sendStart", "sendSteer"}
Waiting == {"starting", "steering"}

TypeOK ==
  /\ loaded \in BOOLEAN /\ turn \in TurnIds \union {NoTurn} /\ last \in 0..MaxTurns
  /\ mail \in {"none", "start", "steer"} /\ reply \in {"none", "ok", "error", "parent"}
  /\ accepted \in {"none", "new", "running"} /\ held \in TurnIds \union {NoTurn}
  /\ channels \subseteq {"notifications", "items", "turns"}
  /\ command \in {"start", "steer", "input"} /\ allowActive \in BOOLEAN
  /\ pc \in Reading \union Sending \union Waiting \union {"confirm", "done"}
  /\ expected \in TurnIds \union {NoTurn} /\ own \in TurnIds \union {NoTurn, NeverStarts}
  /\ lookedAt \in 0..MaxTurns
  /\ outcome \in {"none", "started", "steered", "pending", "failed", "uncertain", "died"}
  /\ reported \in TurnIds \union {NoTurn, NeverStarts}
  /\ pc = "done" <=> outcome # "none"

Init ==
  /\ loaded \in BOOLEAN /\ last \in {0, 1}
  /\ turn \in (IF loaded THEN {NoTurn, last} ELSE {NoTurn})
  /\ mail = "none" /\ reply = "none" /\ accepted = "none" /\ held = NoTurn
  /\ channels \in SUBSET {"notifications", "items", "turns"}
  /\ command \in {"start", "steer", "input"} /\ allowActive \in BOOLEAN
  /\ pc = CASE command = "input" -> "loaded"
            [] command = "start" -> "startLoaded"
            [] command = "steer" -> "steerLoaded"
  /\ expected \in (IF command = "steer" THEN TurnIds ELSE {NoTurn})
  /\ own = NoTurn /\ lookedAt = 0 /\ outcome = "none" /\ reported = NoTurn

-----------------------------------------------------------------------------
(* The thread, its other clients and the app-server (external). *)

Client == <<channels, command, allowActive, pc, expected, lookedAt, outcome, reported>>

TurnStarts ==
  /\ loaded /\ turn = NoTurn /\ accepted = "none" /\ last < MaxTurns
  /\ turn' = last + 1 /\ last' = last + 1
  /\ UNCHANGED <<loaded, mail, reply, accepted, held, own, Client>>

TurnEnds ==
  /\ turn # NoTurn /\ turn' = NoTurn
  /\ UNCHANGED <<loaded, last, mail, reply, accepted, held, own, Client>>

LoadChanges ==
  /\ turn = NoTurn /\ accepted = "none"
  /\ loaded' = ~loaded
  /\ UNCHANGED <<turn, last, mail, reply, accepted, held, own, Client>>

(* The accepted message reaches a turn: the running one, or a new one,     *)
(* which is the announced one if the thread was idle when it was accepted. *)
MessageArrives ==
  /\ \/ accepted = "running" /\ turn # NoTurn /\ held' = turn /\ UNCHANGED <<turn, last>>
     \/ /\ accepted # "none" /\ turn = NoTurn /\ last < MaxTurns
        /\ held' = last + 1 /\ turn' = last + 1 /\ last' = last + 1
  /\ accepted' = "none"
  /\ UNCHANGED <<loaded, mail, reply, own, Client>>

(* The announced turn fails to start. *)
MessageDropped ==
  /\ accepted # "none" /\ accepted' = "none"
  /\ own' = NeverStarts
  /\ UNCHANGED <<loaded, turn, last, mail, reply, held, Client>>

Answer(a) ==
  /\ mail' = "none"
  /\ reply' = IF pc \in Waiting THEN a ELSE "none"
  /\ UNCHANGED <<thread, Client>>

Refuse ==
  /\ \E a \in {"error", "parent"} : Answer(a)
  /\ UNCHANGED <<accepted, held, own>>

ServeStart ==
  /\ mail = "start"
  /\ \/ /\ loaded
        /\ own' = IF turn = NoTurn /\ last < MaxTurns THEN last + 1 ELSE NeverStarts
        /\ accepted' = IF turn = NoTurn THEN "new" ELSE "running"
        /\ Answer("ok") /\ UNCHANGED held
     \/ Refuse

ServeSteer ==
  /\ mail = "steer"
  /\ \/ /\ loaded /\ turn = expected /\ turn # NoTurn
        /\ held' = turn
        /\ Answer("ok") /\ UNCHANGED <<accepted, own>>
     \/ Refuse

-----------------------------------------------------------------------------
(* The client. *)

Goto(step) == pc' = step /\ UNCHANGED <<outcome, reported>>

(* Mutant of End: the command ends without saying how.                     *)
EndSilently(result, turnId) == pc' = "done" /\ reported' = turnId /\ UNCHANGED outcome

End(result, turnId) == pc' = "done" /\ outcome' = result /\ reported' = turnId

(* Mutant of CanStart: an active thread is started too.                    *)
CanStartAnything == loaded

CanStart == loaded /\ turn = NoTurn

RequireLoaded(step, next) ==
  /\ pc = step
  /\ IF loaded THEN Goto(next) ELSE End("pending", NoTurn)
  /\ UNCHANGED <<external, reply, request, local>>

(* deliver_input: an idle thread gets a turn of its own, an active one is  *)
(* steered if the job allows it, and otherwise left alone.                 *)
ReadStatus ==
  /\ pc = "status"
  /\ \/ CanStart /\ Goto("startLoaded")
     \/ ~CanStart /\ turn # NoTurn /\ allowActive /\ Goto("activeTurn")
     \/ ~CanStart /\ (turn = NoTurn \/ ~allowActive) /\ End("pending", NoTurn)
  /\ lookedAt' = last
  /\ UNCHANGED <<external, reply, request, expected, own>>

ReadActiveTurn ==
  /\ pc = "activeTurn"
  /\ IF turn # NoTurn THEN expected' = turn /\ Goto("steerLoaded")
     ELSE UNCHANGED expected /\ End("pending", NoTurn)
  /\ UNCHANGED <<external, reply, request, own, lookedAt>>

(* start_turn reads the status again. *)
ReadStartStatus ==
  /\ pc = "startStatus"
  /\ IF CanStart THEN Goto("sendStart") ELSE End("pending", NoTurn)
  /\ lookedAt' = last
  /\ UNCHANGED <<external, reply, request, expected, own>>

Send(step, what, next) ==
  /\ pc = step /\ mail' = what
  /\ Goto(next)
  /\ UNCHANGED <<thread, reply, accepted, held, request, local>>

SendStart == Send("sendStart", "start", "starting")
SendSteer == Send("sendSteer", "steer", "steering")

(* A refusal in so many words: input belongs to the native parent, or the  *)
(* thread is not in the state the request needs.                           *)
Refused ==
  /\ pc \in Waiting /\ reply \in {"error", "parent"}
  /\ End(IF reply = "parent" THEN "failed" ELSE "pending", NoTurn)
  /\ reply' = "none"
  /\ UNCHANGED <<external, request, local>>

Started ==
  /\ pc = "starting" /\ reply = "ok"
  /\ reply' = "none" /\ Goto("confirm")
  /\ UNCHANGED <<external, request, local>>

Steered ==
  /\ pc = "steering" /\ reply = "ok"
  /\ reply' = "none" /\ End("steered", expected)
  /\ UNCHANGED <<external, request, local>>

(* Mutant of Confirmed: the answer to turn/start is taken for the turn.    *)
ConfirmedByAnswer == own

(* The turn in which the message is seen: a notification, the newest items *)
(* or the newest turns, as far as the app-server offers them.              *)
Confirmed ==
  IF "notifications" \in channels \/ "items" \in channels
     \/ ("turns" \in channels /\ held > last - ConfirmTurns)
  THEN held ELSE NoTurn

Confirm ==
  /\ pc = "confirm" /\ Confirmed # NoTurn
  /\ End(IF Confirmed = own THEN "started" ELSE "steered", Confirmed)
  /\ UNCHANGED <<external, reply, request, local>>

(* Mutant of AfterFailure: a lost answer is taken for a refusal.           *)
RetryAfterFailure(step) == IF step = "confirm" THEN "uncertain" ELSE "pending"

(* A lost connection, a timeout, an unusable answer, a deadline. *)
AfterFailure(step) == IF step \in Reading THEN "pending" ELSE "uncertain"

Fails ==
  /\ pc # "done"
  /\ End(AfterFailure(pc), IF pc = "steering" THEN expected ELSE own)
  /\ reply' = "none"
  /\ UNCHANGED <<external, request, local>>

Dies ==
  /\ pc # "done"
  /\ End("died", NoTurn)
  /\ reply' = "none"
  /\ UNCHANGED <<external, request, local>>

Next ==
  \/ TurnStarts \/ TurnEnds \/ LoadChanges \/ MessageArrives \/ MessageDropped
  \/ ServeStart \/ ServeSteer
  \/ RequireLoaded("loaded", "status") \/ RequireLoaded("startLoaded", "startStatus")
  \/ RequireLoaded("steerLoaded", "sendSteer")
  \/ ReadStatus \/ ReadActiveTurn \/ ReadStartStatus
  \/ SendStart \/ SendSteer \/ Refused \/ Started \/ Steered \/ Confirm
  \/ Fails \/ Dies

Spec == Init /\ [][Next]_vars

-----------------------------------------------------------------------------
(* Properties. *)

(* A result names the turn that holds the message, and says "started" only *)
(* if that is the turn the app-server made for it: not when the thread     *)
(* became busy between the last look at it and the request.                *)
ResultIsTrue ==
  outcome \in {"started", "steered"} =>
    /\ held # NoTurn /\ reported = held
    /\ outcome = "started" => held = own

(* A command that ends in a state that is tried again, or in a refusal,    *)
(* has left nothing behind: the message is in no turn and on its way to    *)
(* none.                                                                   *)
RetryMeansUnsent ==
  outcome \in {"pending", "failed"} =>
    held = NoTurn /\ accepted = "none" /\ mail = "none"

(* Without permission to steer, the message enters no turn that was        *)
(* already there when the client last read the status: only one that began *)
(* after the thread was seen idle.                                         *)
NoUnallowedSteer ==
  command = "start" \/ (command = "input" /\ ~allowActive) =>
    (held # NoTurn => held > lookedAt)
-----------------------------------------------------------------------------
(* The inductive invariant that the theorems in CommandsProofs rest on.    *)

(* There is one copy of the message at most: on its way to the app-server, *)
(* accepted, or in a turn.  The client ends with a result that claims      *)
(* something only when it knows which of the three it is.                  *)
Unsent == mail = "none" /\ accepted = "none" /\ held = NoTurn

OneCopy ==
  /\ mail # "none" => accepted = "none" /\ held = NoTurn
  /\ accepted # "none" => held = NoTurn

(* What the client knows at each of its steps. *)
ClientShape ==
  /\ pc \in Reading \union Sending => Unsent /\ reply = "none"
  /\ pc \in Waiting => (mail = "none" <=> reply # "none")
  /\ reply # "none" => pc \in Waiting
  /\ reply \in {"error", "parent"} => Unsent
  /\ pc = "starting" => mail # "steer"
  /\ pc = "steering" => mail # "start" /\ accepted = "none"
  /\ pc = "steering" /\ reply = "ok" => held = expected /\ held # NoTurn
  /\ pc = "confirm" => mail = "none"

(* A result that claims something is final. *)
ResultShape ==
  /\ outcome \in {"pending", "failed"} => Unsent
  /\ outcome \in {"started", "steered"} =>
       /\ mail = "none" /\ accepted = "none"
       /\ held # NoTurn /\ reported = held
       /\ outcome = "started" => held = own

(* The command may not steer. *)
Limited == command = "start" \/ (command = "input" /\ ~allowActive)

(* Once the thread was seen idle, a turn that runs began after that.       *)
SteerShape ==
  /\ turn \in {NoTurn, last} /\ lookedAt <= last
  /\ command = "start" => pc \notin {"loaded", "status"}
  /\ Limited =>
       /\ pc \notin {"activeTurn", "steerLoaded", "sendSteer", "steering"} /\ mail # "steer"
       /\ pc = "sendStart" \/ mail = "start" \/ accepted # "none" =>
            (turn # NoTurn => turn > lookedAt)
       /\ held # NoTurn => held > lookedAt

IInv == TypeOK /\ OneCopy /\ ClientShape /\ ResultShape /\ SteerShape
=============================================================================
