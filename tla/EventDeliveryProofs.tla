------------------------- MODULE EventDeliveryProofs -------------------------
(***************************************************************************)
(* Theorems about EventDelivery, for every lease and number of turns.      *)
(*                                                                         *)
(* The argument follows the event.  What the client knows of it is told by *)
(* the request that is under way: before `send` nothing is in the thread,  *)
(* while `injecting` the answer says whether it is, afterwards it is.      *)
(* Whatever turn runs from then on attends to it, and the only turn that   *)
(* can be announced is the next one.                                       *)
(***************************************************************************)
EXTENDS EventDelivery, TLAPS

(* The parts of TypeOK. *)
FlagsType ==
  /\ loaded \in BOOLEAN /\ goal \in BOOLEAN /\ cont \in BOOLEAN
  /\ injected \in BOOLEAN /\ attended \in BOOLEAN /\ touched \in BOOLEAN
  /\ goalWas \in BOOLEAN /\ before \in BOOLEAN /\ wasActive \in BOOLEAN

TurnsType ==
  /\ turn \in TurnIds \union {NoTurn} /\ last \in 0..MaxTurns
  /\ coming \in TurnIds \union {NoTurn} /\ prev \in 0..MaxTurns
  /\ own \in TurnIds \union {NoTurn, NeverStarts}

WireType ==
  /\ mail \in {"none", "resume", "inject", "start"}
  /\ reply \in {"none", "ok", "error", "parent"}

StepType ==
  /\ action \in [resume : BOOLEAN, notifyActive : BOOLEAN]
  /\ pc \in Preparing \union Waking \union Waiting \union {"send", "start", "which", "done"}
  /\ loading \in {"none", "alreadyLoaded", "resumed"}
  /\ outcome \in Outcomes
  /\ pc = "done" <=> outcome # "none"
  /\ spent \in Nat

(* A request is under way only while the client waits for its answer, or   *)
(* after it gave up.                                                       *)
WireShape ==
  /\ pc \notin Waiting \union {"done"} => mail = "none" /\ reply = "none"
  /\ mail = "resume" => pc \in {"resuming", "done"}
  /\ mail = "inject" => pc \in {"injecting", "done"}
  /\ mail = "start" => pc \in {"starting", "done"}
  /\ mail # "none" => reply = "none"

(* Where the event is. *)
EventShape ==
  /\ pc \in Preparing \union {"resuming", "send"} => ~injected
  /\ pc = "injecting" => (injected <=> reply = "ok")
  /\ pc \in Waking \union {"which", "start", "starting"} => injected
  /\ mail = "start" \/ coming # NoTurn => injected
  /\ RetryMeansUnsent

(* Which turns attend to it. *)
TurnShape ==
  /\ injected /\ turn # NoTurn => attended
  /\ coming # NoTurn => coming = last + 1 /\ turn = NoTurn
  /\ own \in TurnIds => own = coming \/ attended
  /\ ConfirmedIsAttended

(* After a resume that brought no turn before the event, no turn is        *)
(* started while the goal is as active as it was when it was looked at.    *)
GoalShape ==
  pc \in {"wake", "wakeStatus", "start"} /\ loading = "resumed" /\ ~before /\ ~touched => ~goal

(* What a delivery without --resume has spent at each step. *)
Spent ==
  [begin |-> 1, status |-> 2, inject |-> 3, send |-> 4, injecting |-> 5, which |-> 5,
   wake |-> 5, wakeStatus |-> 6, start |-> 7, starting |-> 8, confirm |-> 10]

LeaseShape ==
  ~action.resume =>
    /\ loading = "none"
    /\ IF pc = "done" THEN spent <= 10 ELSE pc \in DOMAIN Spent /\ spent = Spent[pc]

IInv ==
  /\ FlagsType /\ TurnsType /\ WireType /\ StepType
  /\ WireShape /\ EventShape /\ TurnShape /\ GoalShape /\ LeaseShape

-----------------------------------------------------------------------------
LEMMA TypeParts == FlagsType /\ TurnsType /\ WireType /\ StepType => TypeOK
  BY Zenon DEF FlagsType, TurnsType, WireType, StepType, TypeOK

LEMMA InitInv == Init => IInv
  <1> SUFFICES ASSUME Init PROVE IInv
    OBVIOUS
  <1> USE DEF Init
  <1>1. FlagsType
    BY DEF FlagsType
  <1>2. TurnsType /\ WireType
    BY BoundsAssumption DEF TurnsType, WireType, TurnIds, NoTurn
  <1>3. StepType
    BY DEF StepType, Preparing, Outcomes
  <1>4. WireShape
    BY DEF WireShape, Waiting
  <1>5. EventShape
    BY DEF EventShape, Preparing, Waking, RetryMeansUnsent, NoTurn
  <1>6. TurnShape
    BY DEF TurnShape, ConfirmedIsAttended, NoTurn, TurnIds
  <1>7. GoalShape
    BY DEF GoalShape
  <1>8. LeaseShape
    BY DEF LeaseShape, Spent
  <1> QED BY <1>1, <1>2, <1>3, <1>4, <1>5, <1>6, <1>7, <1>8 DEF IInv

-----------------------------------------------------------------------------
(* The thread, its other clients and the app-server. *)

LEMMA WorldSteps ==
  World => UNCHANGED <<action, pc, loading, prev, goalWas, before, wasActive, outcome, spent>>
  BY DEF World, TurnStarts, TurnEnds, AnnouncedStarts, AnnouncedFails, GoalChanges, OtherLoads,
         Unloads, ServeResume, ServeInject, ServeStart, Answer, local

LEMMA WorldFlags ==
  ASSUME IInv, World
  PROVE  FlagsType'
  <1> USE DEF IInv, FlagsType
  <1>1. CASE TurnStarts
    BY <1>1 DEF TurnStarts, StartTurn, local
  <1>2. CASE TurnEnds
    BY <1>2 DEF TurnEnds, ghost, local
  <1>3. CASE AnnouncedStarts
    BY <1>3 DEF AnnouncedStarts, StartTurn, local
  <1>4. CASE AnnouncedFails
    BY <1>4 DEF AnnouncedFails, ghost
  <1>5. CASE GoalChanges
    BY <1>5 DEF GoalChanges, local
  <1>6. CASE OtherLoads
    BY <1>6 DEF OtherLoads, Load, local
  <1>7. CASE Unloads
    BY <1>7 DEF Unloads, ghost, local
  <1>8. CASE ServeResume
    BY <1>8 DEF ServeResume, Load, Answer
  <1>9. CASE ServeInject
    BY <1>9 DEF ServeInject, Answer, thread
  <1>10. CASE ServeStart
    BY <1>10 DEF ServeStart, Answer, ghost
  <1> QED BY <1>1, <1>2, <1>3, <1>4, <1>5, <1>6, <1>7, <1>8, <1>9, <1>10 DEF World

LEMMA WorldTurns ==
  ASSUME IInv, World
  PROVE  TurnsType' /\ WireType'
  <1> USE BoundsAssumption DEF IInv, TurnsType, WireType, TurnIds, NoTurn, NeverStarts
  <1>1. CASE TurnStarts
    BY <1>1 DEF TurnStarts, StartTurn, local, wire
  <1>2. CASE AnnouncedStarts
    BY <1>2 DEF AnnouncedStarts, StartTurn, local, wire
  <1>3. CASE AnnouncedFails
    BY <1>3 DEF AnnouncedFails, wire
  <1>4. CASE TurnEnds \/ GoalChanges \/ OtherLoads \/ Unloads
    BY <1>4 DEF TurnEnds, GoalChanges, OtherLoads, Unloads, wire, local
  <1>5. CASE ServeResume
    BY <1>5 DEF ServeResume, Answer
  <1>6. CASE ServeInject
    BY <1>6 DEF ServeInject, Answer, thread
  <1>7. CASE ServeStart
    BY <1>7 DEF ServeStart, Answer, Busy
  <1> QED BY <1>1, <1>2, <1>3, <1>4, <1>5, <1>6, <1>7 DEF World

LEMMA WorldWire ==
  ASSUME IInv, World
  PROVE  WireShape'
  <1> USE WorldSteps DEF IInv, WireShape
  <1>1. CASE UNCHANGED wire
    BY <1>1 DEF wire
  <1>2. CASE ServeResume \/ ServeInject \/ ServeStart
    BY <1>2 DEF ServeResume, ServeInject, ServeStart, Answer, Waiting
  <1> QED BY <1>1, <1>2 DEF World, TurnStarts, TurnEnds, AnnouncedStarts, AnnouncedFails,
             GoalChanges, OtherLoads, Unloads

LEMMA WorldEvent ==
  ASSUME IInv, World
  PROVE  EventShape'
  <1> USE WorldSteps DEF IInv, EventShape, RetryMeansUnsent
  <1>1. CASE ServeInject
    <2>1. pc \in {"injecting", "done"} /\ outcome # "pending" /\ mail' = "none"
          /\ UNCHANGED <<coming, pc, outcome>>
      BY <1>1 DEF ServeInject, WireShape, Answer, thread
    <2>2. injected => injected'
      BY <1>1 DEF ServeInject
    <2>3. pc = "injecting" => (injected' <=> reply' = "ok")
      <3>1. pc = "injecting" => ~injected
        BY <1>1 DEF ServeInject, WireShape
      <3> QED BY <1>1, <3>1 DEF ServeInject, Answer, Waiting
    <2> QED BY <2>1, <2>2, <2>3 DEF Preparing, Waking
  <1>2. CASE ServeStart
    <2>1. /\ injected /\ UNCHANGED <<injected, pc, outcome>> /\ mail' = "none"
          /\ pc # "injecting"
      BY <1>2, WorldSteps DEF ServeStart, ghost, Answer, WireShape
    <2> QED BY <2>1
  <1>3. CASE ServeResume
    <2>1. UNCHANGED <<injected, pc, outcome, coming>> /\ mail' = "none" /\ pc # "injecting"
      BY <1>3, WorldSteps DEF ServeResume, Answer, WireShape
    <2> QED BY <2>1
  <1>4. CASE UNCHANGED <<mail, reply, injected>> /\ (coming' # NoTurn => coming # NoTurn)
    BY <1>4
  <1> QED BY <1>1, <1>2, <1>3, <1>4 DEF World, TurnStarts, TurnEnds, AnnouncedStarts,
             AnnouncedFails, GoalChanges, OtherLoads, Unloads, StartTurn, wire, ghost

LEMMA WorldTurn ==
  ASSUME IInv, World
  PROVE  TurnShape'
  <1>0. outcome' = outcome
    BY WorldSteps
  <1> USE <1>0, BoundsAssumption
      DEF IInv, TurnsType, TurnShape, ConfirmedIsAttended, TurnIds, NoTurn, NeverStarts
  <1>1. CASE TurnStarts
    BY <1>1 DEF TurnStarts, StartTurn, Busy, local
  <1>2. CASE AnnouncedStarts
    BY <1>2 DEF AnnouncedStarts, StartTurn, local, EventShape
  <1>3. CASE AnnouncedFails
    BY <1>3 DEF AnnouncedFails, ghost
  <1>4. CASE ServeInject
    <2>1. UNCHANGED <<turn, last, coming, own, outcome>>
      BY <1>4 DEF ServeInject, thread
    <2>2. (injected => injected') /\ (attended => attended')
      BY <1>4 DEF ServeInject
    <2>3. injected' /\ turn # NoTurn => attended'
      BY <1>4 DEF ServeInject
    <2> QED BY <2>1, <2>2, <2>3
  <1>5. CASE ServeStart
    BY <1>5 DEF ServeStart, Busy, ghost
  <1>6. CASE TurnEnds
    BY <1>6 DEF TurnEnds, ghost, local
  <1>7. ASSUME UNCHANGED <<turn, last, coming, own, injected, attended>>
        PROVE  TurnShape'
    <2>1. UNCHANGED <<turn, last, coming, own, outcome>>
      BY <1>7
    <2>2. (injected <=> injected') /\ (attended <=> attended')
      BY <1>7
    <2> QED BY <2>1, <2>2
  <1>8. CASE GoalChanges \/ OtherLoads \/ Unloads \/ ServeResume
    <2>1. UNCHANGED <<turn, last, coming, own, injected, attended>>
      BY <1>8 DEF GoalChanges, OtherLoads, Unloads, ServeResume, local, ghost
    <2> QED BY <2>1, <1>7
  <1> QED BY <1>1, <1>2, <1>3, <1>4, <1>5, <1>6, <1>8 DEF World

LEMMA WorldGoal ==
  ASSUME IInv, World
  PROVE  GoalShape' /\ LeaseShape'
  <1>1. LeaseShape'
    BY WorldSteps DEF IInv, LeaseShape
  <1>2. CASE GoalChanges
    <2>1. touched' = TRUE
      BY <1>2 DEF GoalChanges
    <2> QED BY <1>1, <2>1 DEF GoalShape
  <1>3. CASE ServeResume
    <2>1. pc' = pc /\ mail = "resume"
      BY <1>3, WorldSteps DEF ServeResume
    <2>2. pc \in {"resuming", "done"}
      BY <2>1 DEF IInv, WireShape
    <2> QED BY <1>1, <2>1, <2>2 DEF GoalShape
  <1>4. CASE UNCHANGED <<goal, touched>>
    <2>1. UNCHANGED <<pc, loading>> /\ (before <=> before')
      BY WorldSteps
    <2>2. goal' = goal /\ touched' = touched
      BY <1>4
    <2> QED BY <1>1, <2>1, <2>2 DEF IInv, GoalShape
  <1> QED BY <1>1, <1>2, <1>3, <1>4 DEF World, TurnStarts, TurnEnds, AnnouncedStarts, AnnouncedFails,
             OtherLoads, Unloads, ServeInject, ServeStart, StartTurn, Load, ghost, thread

-----------------------------------------------------------------------------
(* The client. *)

LEMMA ClientKeeps ==
  Client => UNCHANGED <<thread, ghost, action>> /\ UNCHANGED own
  BY DEF Client, Outside, Begin, ReadGoal, ReadPrevious, SendResume, Resumed, ReadStatus,
         ReadLatest, RequireLoaded, SendInject, Injected, NameTurn, AfterLoad, Watch, WakeLoaded,
         WakeStatus, SendStart, Started, Confirm, Fails, Crash, Send, local

LEMMA ClientFlags ==
  ASSUME IInv, Client
  PROVE  FlagsType'
  <1>1. loaded' \in BOOLEAN /\ goal' \in BOOLEAN /\ cont' \in BOOLEAN
    BY ClientKeeps DEF thread, IInv, FlagsType
  <1>2. injected' \in BOOLEAN /\ attended' \in BOOLEAN /\ touched' \in BOOLEAN
    BY ClientKeeps DEF ghost, IInv, FlagsType
  <1>3. goalWas' \in BOOLEAN /\ before' \in BOOLEAN /\ wasActive' \in BOOLEAN
    <2> USE DEF IInv, FlagsType
    <2>1. CASE Begin \/ ReadPrevious \/ Resumed
      BY <2>1 DEF Begin, ReadPrevious, Resumed
    <2>2. CASE ReadGoal
      BY <2>2 DEF ReadGoal
    <2>3. CASE ReadStatus
      BY <2>3 DEF ReadStatus
    <2>4. CASE ReadLatest
      BY <2>4 DEF ReadLatest, ContinuationBefore, NewTurn
    <2>5. CASE UNCHANGED local
      BY <2>5 DEF local
    <2> QED BY <2>1, <2>2, <2>3, <2>4, <2>5
            DEF Client, SendResume, RequireLoaded, SendInject, Injected, NameTurn, AfterLoad,
                Watch, WakeLoaded, WakeStatus, SendStart, Started, Confirm, Fails, Crash, Send
  <1> QED BY <1>1, <1>2, <1>3 DEF FlagsType

LEMMA ClientTurns ==
  ASSUME IInv, Client
  PROVE  TurnsType' /\ WireType'
  <1>0. UNCHANGED <<turn, last, coming, own>>
    BY ClientKeeps DEF thread
  <1>1. prev' \in 0..MaxTurns
    <2>1. prev' \in {prev, last}
      BY DEF Client, Begin, ReadGoal, ReadPrevious, SendResume, Resumed, ReadStatus,
         ReadLatest, RequireLoaded, SendInject, Injected, NameTurn, AfterLoad, Watch, WakeLoaded,
         WakeStatus, SendStart, Started, Confirm, Fails, Crash, Send, local
    <2> QED BY <2>1 DEF IInv, TurnsType
  <1>2. mail' \in {mail, "resume", "inject", "start"} /\ reply' \in {reply, "none"}
    BY DEF Client, Outside, Begin, ReadGoal, ReadPrevious, SendResume, Resumed, ReadStatus,
       ReadLatest, RequireLoaded, SendInject, Injected, NameTurn, AfterLoad, Watch, WakeLoaded,
       WakeStatus, SendStart, Started, Confirm, Fails, Crash, Send
  <1>3. TurnsType'
    BY <1>0, <1>1 DEF IInv, TurnsType
  <1>4. WireType'
    BY <1>2 DEF IInv, WireType
  <1> QED BY <1>3, <1>4

(* What the two answers lead to. *)
LEMMA InjectedLeads ==
  ASSUME IInv, Injected
  PROVE  /\ pc = "injecting" /\ reply' = "none" /\ UNCHANGED <<mail, loading, before>>
         /\ \/ /\ reply = "ok"
               /\ GoTo(IF wasActive /\ loading # "resumed" THEN "which"
                       ELSE IF loading = "resumed" /\ ~before THEN "after" ELSE "wake", 0)
            \/ reply = "error" /\ End("pending")
            \/ reply = "parent" /\ End("failed")
  <1>1. reply \in {"ok", "error", "parent"}
    BY DEF Injected, IInv, WireType
  <1> QED BY <1>1 DEF Injected, Outside, local

LEMMA StartedLeads ==
  ASSUME IInv, Started
  PROVE  /\ pc = "starting" /\ reply' = "none" /\ UNCHANGED <<mail, loading, before>>
         /\ \/ reply = "ok" /\ GoTo("confirm", 2)
            \/ reply = "error" /\ End("uncertain")
            \/ reply = "parent" /\ End("failed")
  <1>1. reply \in {"ok", "error", "parent"}
    BY DEF Started, IInv, WireType
  <1> QED BY <1>1 DEF Started, Outside, local
LEMMA ClientStepType ==
  ASSUME IInv, Client
  PROVE  StepType'
  <1>a. action' \in [resume : BOOLEAN, notifyActive : BOOLEAN]
    BY ClientKeeps DEF IInv, StepType
  <1>b. loading' \in {"none", "alreadyLoaded", "resumed"}
    <2>1. loading' \in {loading, "none", "alreadyLoaded", "resumed"}
      BY DEF Client, Begin, ReadGoal, ReadPrevious, SendResume, Resumed, ReadStatus,
         ReadLatest, RequireLoaded, SendInject, Injected, NameTurn, AfterLoad, Watch, WakeLoaded,
         WakeStatus, SendStart, Started, Confirm, Fails, Crash, Send, local
    <2> QED BY <2>1 DEF IInv, StepType
  <1> USE <1>a, <1>b
      DEF IInv, StepType, Preparing, Waking, Waiting, Outcomes, Successes, GoTo, End
  <1>1. CASE Begin
    BY <1>1 DEF Begin
  <1>2. CASE ReadGoal \/ ReadPrevious
    BY <1>2 DEF ReadGoal, ReadPrevious
  <1>3. CASE SendResume \/ SendInject \/ SendStart
    BY <1>3 DEF SendResume, SendInject, SendStart, Send
  <1>4. CASE Resumed
    BY <1>4 DEF Resumed
  <1>5. CASE ReadStatus
    BY <1>5 DEF ReadStatus
  <1>6. CASE ReadLatest
    BY <1>6 DEF ReadLatest
  <1>7. CASE RequireLoaded
    BY <1>7 DEF RequireLoaded
  <1>8. CASE Injected
    BY <1>8, InjectedLeads
  <1>9. CASE NameTurn
    BY <1>9 DEF NameTurn
  <1>10. CASE AfterLoad
    BY <1>10 DEF AfterLoad
  <1>11. CASE Watch
    BY <1>11 DEF Watch
  <1>12. CASE WakeLoaded
    BY <1>12 DEF WakeLoaded
  <1>13. CASE WakeStatus
    BY <1>13 DEF WakeStatus
  <1>14. CASE Started
    BY <1>14, StartedLeads
  <1>15. CASE Confirm
    BY <1>15 DEF Confirm
  <1>16. CASE Fails \/ Crash
    BY <1>16 DEF Fails, Crash, AfterFailure
  <1> QED BY <1>1, <1>2, <1>3, <1>4, <1>5, <1>6, <1>7, <1>8,
             <1>9, <1>10, <1>11, <1>12, <1>13, <1>14, <1>15, <1>16
          DEF Client

LEMMA ClientWire ==
  ASSUME IInv, Client
  PROVE  WireShape'
  <1> USE DEF IInv, WireShape, Preparing, Waking, Waiting, GoTo, End, Outside
  <1>1. CASE Begin
    BY <1>1 DEF Begin
  <1>2. CASE ReadGoal \/ ReadPrevious
    BY <1>2 DEF ReadGoal, ReadPrevious
  <1>3. CASE SendResume \/ SendInject \/ SendStart
    BY <1>3 DEF SendResume, SendInject, SendStart, Send
  <1>4. CASE Resumed
    BY <1>4 DEF Resumed
  <1>5. CASE ReadStatus
    BY <1>5 DEF ReadStatus
  <1>6. CASE ReadLatest
    BY <1>6 DEF ReadLatest
  <1>7. CASE RequireLoaded
    BY <1>7 DEF RequireLoaded
  <1>8. CASE Injected
    BY <1>8, InjectedLeads
  <1>9. CASE NameTurn
    BY <1>9 DEF NameTurn
  <1>10. CASE AfterLoad
    BY <1>10 DEF AfterLoad
  <1>11. CASE Watch
    BY <1>11 DEF Watch
  <1>12. CASE WakeLoaded
    BY <1>12 DEF WakeLoaded
  <1>13. CASE WakeStatus
    BY <1>13 DEF WakeStatus
  <1>14. CASE Started
    BY <1>14, StartedLeads
  <1>15. CASE Confirm
    BY <1>15 DEF Confirm
  <1>16. CASE Fails \/ Crash
    BY <1>16 DEF Fails, Crash, AfterFailure
  <1> QED BY <1>1, <1>2, <1>3, <1>4, <1>5, <1>6, <1>7, <1>8,
             <1>9, <1>10, <1>11, <1>12, <1>13, <1>14, <1>15, <1>16
          DEF Client

LEMMA ClientEvent ==
  ASSUME IInv, Client
  PROVE  EventShape'
  <1>a. (injected <=> injected') /\ coming' = coming
    BY ClientKeeps DEF ghost, thread
  <1> USE <1>a DEF IInv, StepType, WireShape, EventShape, RetryMeansUnsent, Preparing, Waking,
                  Waiting, GoTo, End, Outside
  <1>1. CASE Begin
    BY <1>1 DEF Begin
  <1>2. CASE ReadGoal \/ ReadPrevious
    BY <1>2 DEF ReadGoal, ReadPrevious
  <1>3. CASE SendResume \/ SendInject \/ SendStart
    BY <1>3 DEF SendResume, SendInject, SendStart, Send
  <1>4. CASE Resumed
    BY <1>4 DEF Resumed
  <1>5. CASE ReadStatus
    BY <1>5 DEF ReadStatus
  <1>6. CASE ReadLatest
    BY <1>6 DEF ReadLatest
  <1>7. CASE RequireLoaded
    BY <1>7 DEF RequireLoaded
  <1>8. CASE Injected
    BY <1>8, InjectedLeads
  <1>9. CASE NameTurn
    BY <1>9 DEF NameTurn
  <1>10. CASE AfterLoad
    BY <1>10 DEF AfterLoad
  <1>11. CASE Watch
    BY <1>11 DEF Watch
  <1>12. CASE WakeLoaded
    BY <1>12 DEF WakeLoaded
  <1>13. CASE WakeStatus
    BY <1>13 DEF WakeStatus
  <1>14. CASE Started
    BY <1>14, StartedLeads
  <1>15. CASE Confirm
    BY <1>15 DEF Confirm
  <1>16. CASE Fails \/ Crash
    BY <1>16 DEF Fails, Crash, AfterFailure
  <1> QED BY <1>1, <1>2, <1>3, <1>4, <1>5, <1>6, <1>7, <1>8,
             <1>9, <1>10, <1>11, <1>12, <1>13, <1>14, <1>15, <1>16
          DEF Client

LEMMA ClientTurn ==
  ASSUME IInv, Client
  PROVE  TurnShape'
  <1>1. UNCHANGED <<turn, last, coming, own, injected, attended>>
    BY ClientKeeps DEF thread, ghost
  <1>2. ASSUME outcome' \in {"eventStarted", "resumedStarted"}, outcome' # outcome
        PROVE  injected /\ attended
    <2>1. pc = "confirm" /\ Observed
      BY <1>2, InjectedLeads, StartedLeads DEF Client, Begin, ReadGoal, ReadPrevious, SendResume, Resumed, ReadStatus,
         ReadLatest, RequireLoaded, SendInject, Injected, NameTurn, AfterLoad, Watch, WakeLoaded,
         WakeStatus, SendStart, Started, Confirm, Fails, Crash, Send, AfterFailure, GoTo, End
    <2>2. own # coming
      BY <2>1 DEF Observed, IInv, TurnShape, TurnsType, TurnIds, NoTurn
    <2> QED BY <2>1, <2>2 DEF Observed, IInv, TurnShape, EventShape, Waking
  <1>3. ASSUME outcome' \in {"resumedActive", "eventNotifiedActive"}, outcome' # outcome
        PROVE  injected /\ attended
    <2>1. pc = "wakeStatus" /\ turn # NoTurn
      BY <1>3, InjectedLeads, StartedLeads DEF Client, Begin, ReadGoal, ReadPrevious, SendResume, Resumed, ReadStatus,
         ReadLatest, RequireLoaded, SendInject, Injected, NameTurn, AfterLoad, Watch, WakeLoaded,
         WakeStatus, SendStart, Started, Confirm, Fails, Crash, Send, AfterFailure, GoTo, End
    <2> QED BY <2>1 DEF IInv, TurnShape, EventShape, Waking
  <1>4. ConfirmedIsAttended'
    <2>1. outcome' = outcome => ConfirmedIsAttended'
      BY <1>1 DEF IInv, TurnShape, ConfirmedIsAttended
    <2> QED BY <1>1, <1>2, <1>3, <2>1 DEF ConfirmedIsAttended
  <1>5. (injected <=> injected') /\ (attended <=> attended')
    BY <1>1
  <1>6. UNCHANGED <<turn, last, coming, own>>
    BY <1>1
  <1> QED BY <1>4, <1>5, <1>6 DEF IInv, TurnShape

LEMMA ClientGoal ==
  ASSUME IInv, Client
  PROVE  GoalShape'
  <1>a. UNCHANGED <<goal, touched>>
    BY ClientKeeps DEF thread, ghost
  <1> USE <1>a DEF IInv, GoalShape, GoTo, End, Outside, local, ExpectContinuation
  <1>1. CASE Begin
    BY <1>1 DEF Begin
  <1>2. CASE ReadGoal \/ ReadPrevious
    BY <1>2 DEF ReadGoal, ReadPrevious
  <1>3. CASE SendResume \/ SendInject \/ SendStart
    BY <1>3 DEF SendResume, SendInject, SendStart, Send
  <1>4. CASE Resumed
    BY <1>4 DEF Resumed
  <1>5. CASE ReadStatus
    BY <1>5 DEF ReadStatus
  <1>6. CASE ReadLatest
    BY <1>6 DEF ReadLatest
  <1>7. CASE RequireLoaded
    BY <1>7 DEF RequireLoaded
  <1>8. CASE Injected
    BY <1>8, InjectedLeads
  <1>9. CASE NameTurn
    BY <1>9 DEF NameTurn
  <1>10. CASE AfterLoad
    BY <1>10 DEF AfterLoad
  <1>11. CASE Watch
    BY <1>11 DEF Watch
  <1>12. CASE WakeLoaded
    BY <1>12 DEF WakeLoaded
  <1>13. CASE WakeStatus
    BY <1>13 DEF WakeStatus
  <1>14. CASE Started
    BY <1>14, StartedLeads
  <1>15. CASE Confirm
    BY <1>15 DEF Confirm
  <1>16. CASE Fails \/ Crash
    BY <1>16 DEF Fails, Crash, AfterFailure
  <1> QED BY <1>1, <1>2, <1>3, <1>4, <1>5, <1>6, <1>7, <1>8,
             <1>9, <1>10, <1>11, <1>12, <1>13, <1>14, <1>15, <1>16
          DEF Client

LEMMA ClientLease ==
  ASSUME IInv, Client
  PROVE  LeaseShape'
  <1>a. action' = action
    BY ClientKeeps
  <1> USE <1>a DEF IInv, StepType, LeaseShape, Spent, GoTo, End, local
  <1>1. CASE Begin
    BY <1>1 DEF Begin
  <1>2. CASE ReadGoal \/ ReadPrevious
    BY <1>2 DEF ReadGoal, ReadPrevious
  <1>3. CASE SendResume \/ SendInject \/ SendStart
    BY <1>3 DEF SendResume, SendInject, SendStart, Send
  <1>4. CASE Resumed
    BY <1>4 DEF Resumed
  <1>5. CASE ReadStatus
    BY <1>5 DEF ReadStatus
  <1>6. CASE ReadLatest
    BY <1>6 DEF ReadLatest
  <1>7. CASE RequireLoaded
    BY <1>7 DEF RequireLoaded
  <1>8. CASE Injected
    BY <1>8, InjectedLeads
  <1>9. CASE NameTurn
    BY <1>9 DEF NameTurn
  <1>10. CASE AfterLoad
    BY <1>10 DEF AfterLoad
  <1>11. CASE Watch
    BY <1>11 DEF Watch
  <1>12. CASE WakeLoaded
    BY <1>12 DEF WakeLoaded
  <1>13. CASE WakeStatus
    BY <1>13 DEF WakeStatus
  <1>14. CASE Started
    BY <1>14, StartedLeads
  <1>15. CASE Confirm
    BY <1>15 DEF Confirm
  <1>16. CASE Fails \/ Crash
    BY <1>16 DEF Fails, Crash, AfterFailure
  <1> QED BY <1>1, <1>2, <1>3, <1>4, <1>5, <1>6, <1>7, <1>8,
             <1>9, <1>10, <1>11, <1>12, <1>13, <1>14, <1>15, <1>16
          DEF Client

-----------------------------------------------------------------------------
(* The theorems. *)

(* The invariant the theorems rest on.                                     *)
THEOREM DeliveryInvariance == Spec => []IInv
  <1>1. ASSUME IInv, World PROVE IInv'
    BY <1>1, WorldSteps, WorldFlags, WorldTurns, WorldWire, WorldEvent, WorldTurn, WorldGoal
    DEF IInv, StepType
  <1>2. ASSUME IInv, Client PROVE IInv'
    BY <1>2, ClientFlags, ClientTurns, ClientStepType, ClientWire, ClientEvent, ClientTurn,
       ClientGoal, ClientLease
    DEF IInv
  <1>3. ASSUME IInv, UNCHANGED vars PROVE IInv'
    <2>1. FlagsType' /\ TurnsType' /\ WireType' /\ StepType'
      BY <1>3 DEF IInv, vars, FlagsType, TurnsType, WireType, StepType
    <2>2. WireShape' /\ EventShape' /\ RetryMeansUnsent'
      BY <1>3 DEF IInv, vars, WireShape, EventShape, RetryMeansUnsent
    <2>3. TurnShape'
      BY <1>3 DEF IInv, vars, TurnShape, ConfirmedIsAttended
    <2>4. GoalShape' /\ LeaseShape'
      BY <1>3 DEF IInv, vars, GoalShape, LeaseShape
    <2> QED BY <2>1, <2>2, <2>3, <2>4 DEF IInv
  <1>4. IInv /\ [Next]_vars => IInv'
    BY <1>1, <1>2, <1>3 DEF Next
  <1> QED BY <1>4, InitInv, PTL DEF Spec

(* The delivery, the app-server and the thread keep to their types.        *)
THEOREM DeliveryTypeCorrect == Spec => []TypeOK
  <1>1. IInv => TypeOK
    BY TypeParts DEF IInv
  <1> QED BY <1>1, DeliveryInvariance, PTL

(* A delivery that reports a turn started or active work was attended to,  *)
(* whatever other clients did between its requests.                        *)
THEOREM ConfirmationSafety == Spec => []ConfirmedIsAttended
  <1>1. IInv => ConfirmedIsAttended
    BY DEF IInv, TurnShape
  <1> QED BY <1>1, DeliveryInvariance, PTL

(* A job is tried again only if its event never reached the thread and     *)
(* cannot reach it any more.                                               *)
THEOREM RetrySafety == Spec => []RetryMeansUnsent
  <1>1. IInv => RetryMeansUnsent
    BY DEF IInv, EventShape
  <1> QED BY <1>1, DeliveryInvariance, PTL

(* No turn is started beside the one the resumed goal is about to start.   *)
THEOREM ContinuationSafety == Spec => NoTurnBesideContinuation
  <1>1. IInv => [pc = "start" /\ pc' = "starting" /\ loading = "resumed" /\ ~before /\ ~touched =>
                   ~(cont /\ goal)]_vars
    BY DEF IInv, GoalShape
  <1>2. Spec => [][pc = "start" /\ pc' = "starting" /\ loading = "resumed" /\ ~before /\ ~touched =>
                     ~(cont /\ goal)]_vars
    BY <1>1, DeliveryInvariance, PTL
  <1> QED BY <1>2 DEF NoTurnBesideContinuation

(* Ten request timeouts are enough for a delivery without --resume.        *)
THEOREM LeaseSafety ==
  ASSUME LeaseTimeouts >= 10
  PROVE  Spec => []LeaseFits
  <1>1. IInv => LeaseFits
    <2> SUFFICES ASSUME IInv, ~action.resume PROVE spent <= LeaseTimeouts
      BY DEF LeaseFits
    <2>1. spent <= 10 /\ spent \in Nat
      BY DEF IInv, StepType, LeaseShape, Spent
    <2> QED BY <2>1, BoundsAssumption
  <1> QED BY <1>1, DeliveryInvariance, PTL
=============================================================================
