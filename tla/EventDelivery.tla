---------------------------- MODULE EventDelivery ----------------------------
(***************************************************************************)
(* One delivery of an event by codex-wakectl (delivery.py, deliver_event)  *)
(* with the threadctl operations it is made of (attention.py,              *)
(* configuration.resume_thread, notify_thread, wake_thread, confirm_wake). *)
(* It talks to the app-server in a series of requests; between any two of  *)
(* them the target thread goes on: turns start and end, another client     *)
(* loads or unloads it or changes its goal, and a goal that was active     *)
(* when the thread was loaded starts a turn of its own some time later.    *)
(*                                                                         *)
(* A request that only reads is one step, or fails.  A request that        *)
(* changes something is sent, processed and answered in separate steps;    *)
(* the client may give up in between and never learns what became of it.   *)
(*                                                                         *)
(* The outcome is what cmd_run writes into the job: a success mode, or     *)
(* `pending` (tried again later), `failed` or `uncertain` (never again).   *)
(***************************************************************************)
EXTENDS Integers

CONSTANTS
  LeaseTimeouts,   \* DELIVERY_LEASE_TIMEOUTS: request timeouts a renewed lease lasts
  MaxTurns         \* bound: turns of the target thread

ASSUME BoundsAssumption == LeaseTimeouts \in Nat /\ MaxTurns \in Nat \ {0}

VARIABLES
  loaded, turn, last, goal, cont, coming,   \* the thread on the app-server (external):
    \* is it loaded, the running turn, the newest turn, is its goal active, will the goal
    \* start a turn because of loading, a turn that was accepted and has yet to start
  mail, reply,     \* a request on its way to the app-server, and the answer (external)
  injected,        \* the event is in the context of the thread
  attended,        \* a turn was running when it arrived, or started later
  touched,         \* another client changed the goal after our resume was processed
  action,          \* resume and notifyActive of the job's action
  pc,
  loading,         \* outcome of load_for_attention, "none" without --resume
  prev, goalWas,   \* previousTurnId and goalWasActive in the result of loading
  before,          \* continuation_before_event
  wasActive,       \* the status read before the injection was active
  own,             \* id of the turn that turn/start returned
  outcome,         \* "none" until the delivery ends
  spent            \* time the requests took at most, in request timeouts

thread == <<loaded, turn, last, goal, cont, coming>>
wire == <<mail, reply>>
ghost == <<injected, attended, touched>>
local == <<loading, prev, goalWas, before, wasActive, own>>
vars == <<loaded, turn, last, goal, cont, coming, mail, reply, injected, attended, touched,
          action, pc, loading, prev, goalWas, before, wasActive, own, outcome, spent>>

NoTurn == 0
NeverStarts == MaxTurns + 1
TurnIds == 1..MaxTurns

Successes == {"notifiedActive", "eventNotifiedActive", "resumedActive",
              "eventStarted", "resumedStarted", "resumedContinued"}
Outcomes == Successes \union {"none", "pending", "failed", "uncertain", "died"}

(* Steps before the event is sent, those after it is accepted, and those   *)
(* that wait for the answer to a request that changes something.           *)
Preparing == {"begin", "goal", "turns", "resume", "status", "latest", "inject"}
Waking == {"after", "watch", "wake", "wakeStatus", "confirm"}
Waiting == {"resuming", "injecting", "starting"}

TypeOK ==
  /\ loaded \in BOOLEAN /\ turn \in TurnIds \union {NoTurn} /\ last \in 0..MaxTurns
  /\ goal \in BOOLEAN /\ cont \in BOOLEAN /\ coming \in TurnIds \union {NoTurn}
  /\ mail \in {"none", "resume", "inject", "start"}
  /\ reply \in {"none", "ok", "error", "parent"}
  /\ injected \in BOOLEAN /\ attended \in BOOLEAN /\ touched \in BOOLEAN
  /\ action \in [resume : BOOLEAN, notifyActive : BOOLEAN]
  /\ pc \in Preparing \union Waking \union Waiting \union {"send", "start", "which", "done"}
  /\ loading \in {"none", "alreadyLoaded", "resumed"}
  /\ prev \in 0..MaxTurns /\ goalWas \in BOOLEAN
  /\ before \in BOOLEAN /\ wasActive \in BOOLEAN
  /\ own \in TurnIds \union {NoTurn, NeverStarts}
  /\ outcome \in Outcomes
  /\ pc = "done" <=> outcome # "none"
  /\ spent \in Nat

(* A run that had no need of the app-server for its condition connects     *)
(* after it renewed the lease: `initialize` is the first request.          *)
Init ==
  /\ loaded \in BOOLEAN /\ goal \in BOOLEAN
  /\ last \in {0, 1} /\ turn \in (IF loaded THEN {NoTurn, last} ELSE {NoTurn})
  /\ cont = FALSE /\ coming = NoTurn
  /\ mail = "none" /\ reply = "none"
  /\ injected = FALSE /\ attended = FALSE /\ touched = FALSE
  /\ action \in [resume : BOOLEAN, notifyActive : BOOLEAN]
  /\ pc = "begin" /\ loading = "none" /\ prev = NoTurn /\ goalWas = FALSE
  /\ before = FALSE /\ wasActive = FALSE /\ own = NoTurn
  /\ outcome = "none" /\ spent = 1

-----------------------------------------------------------------------------
(* The thread and its other clients (external). *)

StartTurn(t) ==
  /\ turn' = t /\ last' = t
  /\ attended' = (attended \/ injected)

Busy == turn # NoTurn \/ coming # NoTurn

(* By another client, or by the goal once the thread is loaded. *)
TurnStarts ==
  /\ loaded /\ ~Busy /\ last < MaxTurns
  /\ StartTurn(last + 1)
  /\ \/ cont' = cont
     \/ cont /\ goal /\ cont' = FALSE
  /\ UNCHANGED <<loaded, goal, coming, wire, injected, touched, action, pc, local, outcome, spent>>

TurnEnds ==
  /\ turn # NoTurn
  /\ turn' = NoTurn
  /\ UNCHANGED <<loaded, last, goal, cont, coming, wire, ghost, action, pc, local, outcome, spent>>

(* The turn a turn/start announced. *)
AnnouncedStarts ==
  /\ coming # NoTurn
  /\ StartTurn(coming)
  /\ coming' = NoTurn
  /\ UNCHANGED <<loaded, goal, cont, wire, injected, touched, action, pc, local, outcome, spent>>

AnnouncedFails ==
  /\ coming # NoTurn
  /\ coming' = NoTurn
  /\ own' = IF own = coming THEN NeverStarts ELSE own
  /\ UNCHANGED <<loaded, turn, last, goal, cont, wire, ghost, action, pc, loading, prev, goalWas,
                 before, wasActive, outcome, spent>>

GoalChanges ==
  /\ goal' = ~goal
  /\ touched' = TRUE
  /\ UNCHANGED <<loaded, turn, last, cont, coming, wire, injected, attended, action, pc, local,
                 outcome, spent>>

Load(byUs) ==
  /\ loaded' = TRUE
  /\ cont' = IF loaded THEN cont ELSE goal
  /\ touched' = IF byUs THEN FALSE ELSE touched

OtherLoads ==
  /\ ~loaded
  /\ Load(FALSE)
  /\ UNCHANGED <<turn, last, goal, coming, wire, injected, attended, action, pc, local, outcome, spent>>

Unloads ==
  /\ loaded /\ ~Busy
  /\ loaded' = FALSE /\ cont' = FALSE
  /\ UNCHANGED <<turn, last, goal, coming, wire, ghost, action, pc, local, outcome, spent>>

(* The app-server processes a request that changes something. *)
Answer(a) ==
  /\ mail' = "none"
  /\ reply' = IF pc \in Waiting THEN a ELSE "none"
  /\ UNCHANGED <<action, pc, loading, prev, goalWas, before, wasActive, outcome, spent>>

ServeResume ==
  /\ mail = "resume"
  /\ \/ /\ Load(TRUE)
        /\ Answer("ok")
     \/ /\ UNCHANGED <<loaded, cont, touched>>
        /\ Answer("error")
  /\ UNCHANGED <<turn, last, goal, coming, injected, attended, own>>

ServeInject ==
  /\ mail = "inject"
  /\ \/ /\ loaded
        /\ injected' = TRUE
        /\ attended' = (attended \/ turn # NoTurn)
        /\ Answer("ok")
     \/ /\ UNCHANGED <<injected, attended>>
        /\ \E a \in {"error", "parent"} : Answer(a)
  /\ UNCHANGED <<thread, touched, own>>

(* turn/start on a busy thread may name a turn that never starts. *)
ServeStart ==
  /\ mail = "start"
  /\ \/ /\ loaded /\ ~Busy /\ last < MaxTurns
        /\ coming' = last + 1 /\ own' = last + 1
        /\ Answer("ok")
     \/ /\ loaded /\ Busy
        /\ own' = NeverStarts /\ UNCHANGED coming
        /\ Answer("ok")
     \/ /\ UNCHANGED <<coming, own>>
        /\ \E a \in {"error", "parent"} : Answer(a)
  /\ UNCHANGED <<loaded, turn, last, goal, cont, ghost>>

-----------------------------------------------------------------------------
(* The client. *)

Outside == <<thread, mail, ghost, action>>

(* Mutant of GoTo: every request is tried twice.                           *)
GoToTwice(step, cost) ==
  /\ pc' = step
  /\ spent' = spent + 2 * cost
  /\ UNCHANGED outcome

GoTo(step, cost) ==
  /\ pc' = step
  /\ spent' = spent + cost
  /\ UNCHANGED outcome

(* Mutant of End: the delivery ends and says nothing.                      *)
EndSilently(result) ==
  /\ pc' = "done"
  /\ UNCHANGED <<outcome, spent>>

End(result) ==
  /\ pc' = "done"
  /\ outcome' = result
  /\ UNCHANGED spent

(* load_for_attention looks whether the thread is loaded; without --resume *)
(* the delivery ends here when it is not.                                  *)
Begin ==
  /\ pc = "begin"
  /\ \/ /\ loaded
        /\ loading' = IF action.resume THEN "alreadyLoaded" ELSE "none"
        /\ GoTo("status", 1)
     \/ /\ ~loaded /\ action.resume
        /\ GoTo("goal", 1) /\ UNCHANGED loading
     \/ /\ ~loaded /\ ~action.resume
        /\ End("pending") /\ UNCHANGED loading
  /\ UNCHANGED <<Outside, reply, prev, goalWas, before, wasActive, own>>

ReadGoal ==
  /\ pc = "goal"
  /\ goalWas' = goal
  /\ GoTo("turns", 1)
  /\ UNCHANGED <<Outside, reply, loading, prev, before, wasActive, own>>

ReadPrevious ==
  /\ pc = "turns"
  /\ prev' = last
  /\ GoTo("resume", 1)
  /\ UNCHANGED <<Outside, reply, loading, goalWas, before, wasActive, own>>

Send(request, step, cost) ==
  /\ mail' = request
  /\ GoTo(step, cost)
  /\ UNCHANGED <<thread, reply, ghost, action, local>>

(* resume_thread looks once more whether the thread is loaded. *)
SendResume == pc = "resume" /\ Send("resume", "resuming", 2)

Resumed ==
  /\ pc = "resuming" /\ reply # "none"
  /\ reply' = "none"
  /\ IF reply = "ok" THEN loading' = "resumed" /\ GoTo("status", 0)
     ELSE UNCHANGED loading /\ End("pending")
  /\ UNCHANGED <<Outside, prev, goalWas, before, wasActive, own>>

(* An active thread takes the event only with --notify-active or when it   *)
(* was loaded just now.                                                    *)
ReadStatus ==
  /\ pc = "status"
  /\ \/ /\ turn # NoTurn
        /\ action.notifyActive \/ loading = "resumed"
        /\ wasActive' = TRUE
        /\ before' = (loading = "resumed")
        /\ GoTo("inject", 1)
     \/ /\ loaded /\ turn = NoTurn
        /\ GoTo(IF loading = "resumed" THEN "latest" ELSE "inject", 1)
        /\ UNCHANGED <<wasActive, before>>
     \/ /\ \/ turn # NoTurn /\ ~action.notifyActive /\ loading # "resumed"
           \/ ~loaded
        /\ End("pending")
        /\ UNCHANGED <<wasActive, before>>
  /\ UNCHANGED <<Outside, reply, loading, prev, goalWas, own>>

NewTurn == last # NoTurn /\ last # prev

ContinuationBefore == NewTurn

ReadLatest ==
  /\ pc = "latest"
  /\ before' = ContinuationBefore
  /\ GoTo("inject", 1)
  /\ UNCHANGED <<Outside, reply, loading, prev, goalWas, wasActive, own>>

(* notify_thread: require_loaded, then thread/inject_items. *)
RequireLoaded ==
  /\ pc = "inject"
  /\ IF loaded THEN GoTo("send", 1) ELSE End("pending")
  /\ UNCHANGED <<Outside, reply, local>>

SendInject == pc = "send" /\ Send("inject", "injecting", 1)

Injected ==
  /\ pc = "injecting" /\ reply # "none"
  /\ reply' = "none"
  /\ CASE reply = "ok" ->
            GoTo(IF wasActive /\ loading # "resumed" THEN "which"
                 ELSE IF loading = "resumed" /\ ~before THEN "after" ELSE "wake", 0)
       [] reply = "error" -> End("pending")
       [] reply = "parent" -> End("failed")
  /\ UNCHANGED <<Outside, local>>

(* The id of the active turn is a courtesy; failing to get it is no error. *)
NameTurn ==
  /\ pc = "which"
  /\ pc' = "done" /\ outcome' = "notifiedActive" /\ spent' = spent + 1
  /\ UNCHANGED <<Outside, reply, local>>

(* Mutant of ExpectContinuation: the goal is not looked at a second time.  *)
ExpectAsLoaded == goalWas

ExpectContinuation == goalWas \/ goal

(* wake_after_load: a goal active on either side of the resume will start  *)
(* a turn, so none is started for the event.                               *)
AfterLoad ==
  /\ pc = "after"
  /\ IF ExpectContinuation THEN GoTo("watch", 1 + 2) ELSE GoTo("wake", 1)
  /\ UNCHANGED <<Outside, reply, local>>

Watch ==
  /\ pc = "watch"
  /\ NewTurn
  /\ End("resumedContinued")
  /\ UNCHANGED <<Outside, reply, local>>

(* wake_thread *)
WakeLoaded ==
  /\ pc = "wake"
  /\ IF loaded THEN GoTo("wakeStatus", 1) ELSE End("uncertain")
  /\ UNCHANGED <<Outside, reply, local>>

WakeStatus ==
  /\ pc = "wakeStatus"
  /\ CASE turn # NoTurn ->
            /\ pc' = "done" /\ spent' = spent + 2
            /\ outcome' = IF loading = "resumed" /\ wasActive THEN "resumedActive"
                          ELSE "eventNotifiedActive"
       [] turn = NoTurn /\ loaded -> GoTo("start", 1)
       [] OTHER -> End("uncertain")
  /\ UNCHANGED <<Outside, reply, local>>

SendStart == pc = "start" /\ Send("start", "starting", 1)

(* The answer names the turn; confirm_wake then polls for it. *)
Started ==
  /\ pc = "starting" /\ reply # "none"
  /\ reply' = "none"
  /\ CASE reply = "ok" -> GoTo("confirm", 2)
       [] reply = "error" -> End("uncertain")
       [] reply = "parent" -> End("failed")
  /\ UNCHANGED <<Outside, local>>

(* Mutant of Observed: the answer to turn/start is taken for the turn.     *)
ObservedAtOnce == own # NoTurn

(* A turn/started notification, or the turn among the newest five. *)
Observed == own \in TurnIds /\ own <= last

Confirm ==
  /\ pc = "confirm"
  /\ Observed
  /\ End(IF loading = "resumed" THEN "resumedStarted" ELSE "eventStarted")
  /\ UNCHANGED <<Outside, reply, local>>

(* Mutant of AfterFailure: a lost answer is always worth a retry.          *)
RetryAfterFailure(step) == "pending"

(* What a failed request, an unusable status, a deadline or a timeout at a *)
(* step makes of the job.                                                  *)
AfterFailure(step) ==
  IF step \in Preparing \union {"resuming"} THEN "pending" ELSE "uncertain"

(* An answer may be there and still be lost with the connection. *)
Fails ==
  /\ pc \in Preparing \union Waking \union Waiting \union {"send", "start"}
  /\ End(AfterFailure(pc))
  /\ reply' = "none"
  /\ UNCHANGED <<Outside, local>>

Crash ==
  /\ pc # "done"
  /\ End("died")
  /\ reply' = "none"
  /\ UNCHANGED <<Outside, local>>

World ==
  \/ TurnStarts \/ TurnEnds \/ AnnouncedStarts \/ AnnouncedFails
  \/ GoalChanges \/ OtherLoads \/ Unloads
  \/ ServeResume \/ ServeInject \/ ServeStart

Client ==
  \/ Begin \/ ReadGoal \/ ReadPrevious \/ SendResume \/ Resumed
  \/ ReadStatus \/ ReadLatest \/ RequireLoaded \/ SendInject \/ Injected \/ NameTurn
  \/ AfterLoad \/ Watch \/ WakeLoaded \/ WakeStatus \/ SendStart \/ Started \/ Confirm
  \/ Fails \/ Crash

Next == World \/ Client

Spec == Init /\ [][Next]_vars

-----------------------------------------------------------------------------
(* Properties. *)

(* An event is reported as started, as resumed and started, or as having   *)
(* entered active work only if it is in the context of the thread and a    *)
(* turn was running when it arrived or began afterwards, whatever other    *)
(* clients did between the requests.                                       *)
ConfirmedIsAttended ==
  outcome \in {"eventStarted", "resumedStarted", "resumedActive", "eventNotifiedActive"} =>
    injected /\ attended

(* A job goes back to pending, to be tried again, only if the event is not *)
(* in the thread and not on its way there: a lost answer is never taken    *)
(* for a refusal.                                                          *)
RetryMeansUnsent == outcome = "pending" => ~injected /\ mail # "inject"

(* After a resume the client starts no turn of its own while the resumed   *)
(* goal is still going to start one, even if the goal became active        *)
(* between the first look at it and the resume.  (A change of the goal     *)
(* after the resume, and a turn another client got in first, are beyond    *)
(* what it can see.)                                                       *)
NoTurnBesideContinuation ==
  [][pc = "start" /\ pc' = "starting" /\ loading = "resumed" /\ ~before /\ ~touched =>
       ~(cont /\ goal)]_vars

(* A delivery without --resume is over before the lease renewed for it is, *)
(* even if every request takes all of its timeout and the last poll begins *)
(* just before its deadline.                                               *)
LeaseFits == ~action.resume => spent <= LeaseTimeouts

(* What the documentation says of --notify-active: the event is injected   *)
(* into current work.                                                      *)
NotifiedIsAttended == outcome = "notifiedActive" => attended

(* What the comment in deliver_event says of a continuation: one that      *)
(* finished before the injection does not count as attention.              *)
ContinuationIsAttended == outcome = "resumedContinued" => attended
=============================================================================
