---------------------------- MODULE CommandsProofs ----------------------------
(***************************************************************************)
(* Theorems about the commands of MCCommands, for all values of the        *)
(* constants that its assumptions allow.                                   *)
(*                                                                         *)
(* One section for every command: its invariant (IInv of its module) holds *)
(* at first and every action keeps it.  The last two sections put them     *)
(* together: a behaviour of CommandSpec is that of one of the commands,    *)
(* and has what InputSafe, ClientSafe, GoalSafe, InjectSafe, ControlSafe   *)
(* and GenerationSafe say.                                                 *)
(***************************************************************************)
EXTENDS MCCommands, FiniteSetTheorems, SequenceTheorems, TLAPS

-----------------------------------------------------------------------------
(* An input that is to be delivered. *)

(* At first the message is with the client.                                *)
LEMMA InputInit ==
  ASSUME MaxTurns \in Nat \ {0}, Input!Init
  PROVE  Input!IInv
  <1> USE DEF Input!Init
  <1>1. /\ last \in 0..MaxTurns /\ turn \in Input!TurnIds \union {Input!NoTurn}
        /\ turn \in {Input!NoTurn, last}
    BY DEF Input!TurnIds, Input!NoTurn
  <1>2. /\ step \in {"loaded", "startLoaded", "steerLoaded"}
        /\ (command = "start" => step = "startLoaded")
        /\ (command = "input" => step = "loaded")
    OBVIOUS
  <1>3. Input!TypeOK
    BY <1>1, <1>2 DEF Input!TypeOK, Input!Reading
  <1>4. Input!OneCopy /\ Input!ClientShape /\ Input!ResultShape
    BY <1>2 DEF Input!OneCopy, Input!ClientShape, Input!ResultShape, Input!Unsent,
                Input!Waiting, Input!NoTurn
  <1>5. Input!SteerShape
    BY <1>1, <1>2 DEF Input!SteerShape, Input!Limited, Input!NoTurn
  <1> QED BY <1>3, <1>4, <1>5 DEF Input!IInv

(* Other clients of the thread.                                            *)
LEMMA InputThreadStep ==
  ASSUME MaxTurns \in Nat \ {0}, Input!IInv,
         Input!TurnStarts \/ Input!TurnEnds \/ Input!LoadChanges
  PROVE  Input!IInv'
  <1>0. Input!TypeOK /\ Input!OneCopy /\ Input!ClientShape /\ Input!ResultShape /\ Input!SteerShape
    BY DEF Input!IInv
  <1>1. UNCHANGED <<mail, reply, accepted, held, ownTurn, Input!Client>>
    BY DEF Input!TurnStarts, Input!TurnEnds, Input!LoadChanges
  <1>2. /\ loaded' \in BOOLEAN /\ turn' \in Input!TurnIds \union {Input!NoTurn}
        /\ last' \in last..MaxTurns /\ turn' \in {Input!NoTurn, last'}
        /\ (turn' = turn \/ turn' = Input!NoTurn \/ turn' = last + 1)
    <2>0. /\ loaded \in BOOLEAN /\ turn \in Input!TurnIds \union {Input!NoTurn}
          /\ last \in 0..MaxTurns
          /\ turn \in {Input!NoTurn, last}
      BY <1>0 DEF Input!TypeOK, Input!SteerShape
    <2>1. loaded' \in BOOLEAN
      BY <2>0 DEF Input!TurnStarts, Input!TurnEnds, Input!LoadChanges
    <2>2. CASE Input!TurnStarts
      BY <2>0, <2>1, <2>2 DEF Input!TurnStarts, Input!TurnIds, Input!NoTurn
    <2>3. CASE Input!TurnEnds
      BY <2>0, <2>1, <2>3 DEF Input!TurnEnds
    <2>4. CASE Input!LoadChanges
      BY <2>0, <2>1, <2>4 DEF Input!LoadChanges
    <2> QED BY <2>2, <2>3, <2>4
  <1>3. Input!TypeOK'
    BY <1>0, <1>1, <1>2 DEF Input!TypeOK, Input!Client
  <1>4. Input!OneCopy' /\ Input!ClientShape' /\ Input!ResultShape'
    BY <1>0, <1>1 DEF Input!OneCopy, Input!ClientShape, Input!ResultShape, Input!Unsent,
                      Input!Client
  <1>5. Input!SteerShape'
    BY <1>0, <1>1, <1>2 DEF Input!SteerShape, Input!Limited, Input!Client, Input!TypeOK,
                            Input!NoTurn
  <1> QED BY <1>3, <1>4, <1>5 DEF Input!IInv

(* The accepted message reaches a turn or is dropped.                      *)
LEMMA InputMessageStep ==
  ASSUME MaxTurns \in Nat \ {0}, Input!IInv, Input!MessageArrives \/ Input!MessageDropped
  PROVE  Input!IInv'
  <1>0. Input!TypeOK /\ Input!OneCopy /\ Input!ClientShape /\ Input!ResultShape /\ Input!SteerShape
    BY DEF Input!IInv
  <1>1. accepted # "none" /\ accepted' = "none" /\ UNCHANGED <<loaded, mail, reply, Input!Client>>
    BY DEF Input!MessageArrives, Input!MessageDropped
  <1>2. mail = "none" /\ held = Input!NoTurn
    BY <1>0, <1>1 DEF Input!OneCopy
  <1>3. /\ turn' \in Input!TurnIds \union {Input!NoTurn} /\ last' \in last..MaxTurns
        /\ turn' \in {Input!NoTurn, last'}
        /\ held' \in {Input!NoTurn, turn'} /\ (turn' = turn \/ turn' = last + 1)
        /\ ownTurn' \in Input!TurnIds \union {Input!NoTurn, Input!NeverStarts}
    BY <1>0, <1>2
    DEF Input!MessageArrives, Input!MessageDropped, Input!TypeOK, Input!SteerShape,
        Input!TurnIds, Input!NoTurn, Input!NeverStarts
  <1>4. Input!TypeOK'
    BY <1>0, <1>1, <1>3 DEF Input!TypeOK, Input!Client
  <1>5. Input!ClientShape'
    BY <1>0, <1>1, <1>2 DEF Input!ClientShape, Input!Unsent, Input!Client, Input!Waiting,
                            Input!Reading, Input!Sending
  <1>6. Input!OneCopy' /\ Input!ResultShape'
    BY <1>0, <1>1, <1>2 DEF Input!OneCopy, Input!ResultShape, Input!Unsent, Input!Client
  <1>7. Input!SteerShape'
    BY <1>0, <1>1, <1>2, <1>3 DEF Input!SteerShape, Input!Limited, Input!Client, Input!TypeOK,
                                  Input!NoTurn
  <1> QED BY <1>4, <1>5, <1>6, <1>7 DEF Input!IInv

(* The app-server answers.                                                 *)
LEMMA InputServeStep ==
  ASSUME MaxTurns \in Nat \ {0}, Input!IInv, Input!ServeStart \/ Input!ServeSteer
  PROVE  Input!IInv'
  <1>0. Input!TypeOK /\ Input!OneCopy /\ Input!ClientShape /\ Input!ResultShape /\ Input!SteerShape
    BY DEF Input!IInv
  <1>1. /\ mail # "none" /\ accepted = "none" /\ held = Input!NoTurn
        /\ step \notin Input!Reading \union Input!Sending
    BY <1>0 DEF Input!ServeStart, Input!ServeSteer, Input!OneCopy, Input!ClientShape, Input!Unsent
  <1>2. /\ mail' = "none" /\ UNCHANGED <<Input!thread, Input!Client>>
        /\ \E answer \in {"ok", "error", "parent"} :
             /\ reply' = IF step \in Input!Waiting THEN answer ELSE "none"
             /\ answer # "ok" => UNCHANGED <<accepted, held, ownTurn>>
             /\ mail = "start" => held' = held
             /\ mail = "steer" => accepted' = accepted /\ held' \in {Input!NoTurn, turn}
             /\ mail = "steer" /\ answer = "ok" =>
                  held' = turn /\ turn = expected /\ turn # Input!NoTurn
    BY <1>1 DEF Input!ServeStart, Input!ServeSteer, Input!Answer, Input!Refuse
  <1>3. /\ accepted' \in {"none", "new", "running"}
        /\ ownTurn' \in Input!TurnIds \union {Input!NoTurn, Input!NeverStarts}
        /\ held' \in Input!TurnIds \union {Input!NoTurn}
    BY <1>0 DEF Input!ServeStart, Input!ServeSteer, Input!Refuse, Input!TypeOK, Input!TurnIds,
                Input!NeverStarts
  <1>4. Input!TypeOK'
    BY <1>0, <1>2, <1>3 DEF Input!TypeOK, Input!thread, Input!Client
  <1>5. outcome \notin {"pending", "failed", "started", "steered"}
    BY <1>0, <1>1 DEF Input!ResultShape, Input!Unsent
  <1>6. Input!ResultShape'
    BY <1>2, <1>5 DEF Input!ResultShape, Input!Client
  <1>7. mail \in {"start", "steer"}
    BY <1>0, <1>1 DEF Input!TypeOK
  <1>8. Input!OneCopy'
    BY <1>1, <1>2, <1>7 DEF Input!OneCopy
  <1>9. Input!ClientShape'
    BY <1>0, <1>1, <1>2, <1>7 DEF Input!ClientShape, Input!Unsent, Input!Client, Input!Waiting,
                                  Input!Reading, Input!Sending
  <1>10. Input!SteerShape'
    BY <1>0, <1>1, <1>2, <1>7 DEF Input!SteerShape, Input!Limited, Input!thread, Input!Client,
                                  Input!NoTurn
  <1> QED BY <1>4, <1>6, <1>8, <1>9, <1>10 DEF Input!IInv

(* The looks at the thread before the request.                             *)
LEMMA InputLookStep ==
  ASSUME MaxTurns \in Nat \ {0}, Input!IInv,
         \/ Input!RequireLoaded("loaded", "status") \/ Input!RequireLoaded("startLoaded",
           "startStatus")
         \/ Input!RequireLoaded("steerLoaded", "sendSteer")
         \/ Input!ReadStatus \/ Input!ReadActiveTurn \/ Input!ReadStartStatus
  PROVE  Input!IInv'
  <1>0. Input!TypeOK /\ Input!OneCopy /\ Input!ClientShape /\ Input!ResultShape /\ Input!SteerShape
    BY DEF Input!IInv
  <1>1. UNCHANGED <<Input!external, reply, Input!request, ownTurn>> /\ step \in Input!Reading
    BY DEF Input!RequireLoaded, Input!ReadStatus, Input!ReadActiveTurn, Input!ReadStartStatus,
           Input!local, Input!Reading
  <1>2. Input!Unsent /\ reply = "none" /\ outcome = "none"
    BY <1>0, <1>1 DEF Input!ClientShape, Input!TypeOK, Input!Reading
  <1>3. \/ /\ step' \in Input!Reading \union Input!Sending /\ UNCHANGED <<outcome, reported>>
        \/ step' = "done" /\ outcome' = "pending" /\ reported' = Input!NoTurn
    BY DEF Input!RequireLoaded, Input!ReadStatus, Input!ReadActiveTurn, Input!ReadStartStatus,
           Input!Goto, Input!End, Input!Reading, Input!Sending
  <1>4. lookedAt' \in {lookedAt, last} /\ expected' \in {expected, turn}
    BY DEF Input!RequireLoaded, Input!ReadStatus, Input!ReadActiveTurn, Input!ReadStartStatus,
           Input!local
  <1>5. step' = "sendStart" => turn = Input!NoTurn
    BY DEF Input!RequireLoaded, Input!ReadStatus, Input!ReadActiveTurn, Input!ReadStartStatus,
           Input!Goto, Input!End, Input!CanStart
  <1>6. Input!Limited => step' \notin {"activeTurn", "steerLoaded", "sendSteer", "steering"}
    BY <1>0
    DEF Input!SteerShape, Input!Limited, Input!RequireLoaded, Input!ReadStatus,
        Input!ReadActiveTurn, Input!ReadStartStatus, Input!Goto, Input!End
  <1>7. command = "start" => step' \notin {"loaded", "status"}
    BY <1>0
    DEF Input!SteerShape, Input!RequireLoaded, Input!ReadStatus, Input!ReadActiveTurn,
        Input!ReadStartStatus, Input!Goto, Input!End
  <1>8. Input!TypeOK'
    <2>1. /\ step' \in Input!Reading \union Input!Sending \union Input!Waiting
                       \union {"confirm", "done"}
          /\ outcome' \in {"none", "pending"} /\ (step' = "done" <=> outcome' # "none")
          /\ reported' \in {reported, Input!NoTurn}
      BY <1>2, <1>3 DEF Input!Reading, Input!Sending
    <2>2. lookedAt' \in 0..MaxTurns /\ expected' \in Input!TurnIds \union {Input!NoTurn}
      BY <1>0, <1>4 DEF Input!TypeOK
    <2> QED BY <1>0, <1>1, <2>1, <2>2 DEF Input!TypeOK, Input!external, Input!request
  <1>9. Input!OneCopy' /\ Input!ResultShape'
    BY <1>0, <1>1, <1>2, <1>3 DEF Input!OneCopy, Input!ResultShape, Input!Unsent, Input!external
  <1>10. Input!ClientShape'
    BY <1>1, <1>2, <1>3 DEF Input!ClientShape, Input!Unsent, Input!external, Input!Reading,
                            Input!Sending, Input!Waiting
  <1>11. Input!SteerShape'
    <2>1. lookedAt' <= last /\ turn \in {Input!NoTurn, last}
      BY <1>0, <1>4 DEF Input!SteerShape, Input!TypeOK
    <2> QED BY <1>0, <1>1, <1>2, <1>5, <1>6, <1>7, <2>1
        DEF Input!SteerShape, Input!Limited, Input!Unsent, Input!external, Input!request
  <1> QED BY <1>8, <1>9, <1>10, <1>11 DEF Input!IInv

(* The client sends its request.                                           *)
LEMMA InputSendStep ==
  ASSUME MaxTurns \in Nat \ {0}, Input!IInv, Input!SendStart \/ Input!SendSteer
  PROVE  Input!IInv'
  <1>0. Input!TypeOK /\ Input!OneCopy /\ Input!ClientShape /\ Input!ResultShape /\ Input!SteerShape
    BY DEF Input!IInv
  <1>1. /\ \/ step = "sendStart" /\ step' = "starting" /\ mail' = "start"
           \/ step = "sendSteer" /\ step' = "steering" /\ mail' = "steer"
        /\ UNCHANGED <<Input!thread, reply, accepted, held, Input!request, Input!local, outcome,
          reported>>
    BY DEF Input!SendStart, Input!SendSteer, Input!Send, Input!Goto
  <1>2. Input!Unsent /\ reply = "none" /\ outcome = "none"
    BY <1>0, <1>1 DEF Input!ClientShape, Input!TypeOK, Input!Sending
  <1>3. Input!TypeOK'
    BY <1>0, <1>1, <1>2 DEF Input!TypeOK, Input!thread, Input!request, Input!local, Input!Waiting
  <1>4. Input!OneCopy' /\ Input!ResultShape'
    BY <1>1, <1>2 DEF Input!OneCopy, Input!ResultShape, Input!Unsent
  <1>5. Input!ClientShape'
    BY <1>1, <1>2 DEF Input!ClientShape, Input!Unsent, Input!Reading, Input!Sending, Input!Waiting
  <1>6. Input!SteerShape'
    BY <1>0, <1>1, <1>2 DEF Input!SteerShape, Input!Limited, Input!Unsent, Input!thread,
                            Input!request, Input!local
  <1> QED BY <1>3, <1>4, <1>5, <1>6 DEF Input!IInv

(* The answer comes, or the client stops waiting for it.                   *)
LEMMA InputAnswerStep ==
  ASSUME MaxTurns \in Nat \ {0}, Input!IInv,
         \/ Input!Refused \/ Input!Started \/ Input!Steered
         \/ Input!Confirm \/ Input!Fails \/ Input!Dies
  PROVE  Input!IInv'
  <1>0. Input!TypeOK /\ Input!OneCopy /\ Input!ClientShape /\ Input!ResultShape /\ Input!SteerShape
    BY DEF Input!IInv
  <1>1. /\ UNCHANGED <<Input!external, Input!request, Input!local>> /\ step # "done"
        /\ step' = "confirm" \/ step' = "done"
    BY DEF Input!Refused, Input!Started, Input!Steered, Input!Confirm, Input!Fails, Input!Dies,
           Input!Goto, Input!End, Input!Waiting
  <1>2. reply' = "none"
    BY <1>0 DEF Input!Refused, Input!Started, Input!Steered, Input!Confirm, Input!Fails,
                Input!Dies, Input!ClientShape, Input!Waiting
  <1>3. CASE Input!Started
    <2>1. step = "starting" /\ step' = "confirm" /\ mail = "none" /\ UNCHANGED <<outcome,
      reported>>
      BY <1>0, <1>3 DEF Input!Started, Input!Goto, Input!ClientShape, Input!Waiting
    <2>2. Input!TypeOK'
      BY <1>0, <1>1, <1>2, <2>1 DEF Input!TypeOK, Input!external, Input!request, Input!local
    <2>3. Input!OneCopy' /\ Input!ResultShape'
      BY <1>0, <1>1, <2>1 DEF Input!OneCopy, Input!ResultShape, Input!Unsent, Input!external,
                              Input!local
    <2>4. Input!ClientShape'
      BY <1>1, <1>2, <2>1 DEF Input!ClientShape, Input!external, Input!Reading, Input!Sending,
                              Input!Waiting
    <2>5. Input!SteerShape'
      BY <1>0, <1>1, <2>1 DEF Input!SteerShape, Input!Limited, Input!external, Input!request,
                              Input!local
    <2> QED BY <2>2, <2>3, <2>4, <2>5 DEF Input!IInv
  <1>4. CASE ~Input!Started
    <2>1. step' = "done" /\ outcome' # "none"
          /\ outcome' \in {"started", "steered", "pending", "failed", "uncertain", "died"}
          /\ reported' \in Input!TurnIds \union {Input!NoTurn, Input!NeverStarts}
      BY <1>0, <1>4
      DEF Input!Refused, Input!Steered, Input!Confirm, Input!Fails, Input!Dies, Input!End,
          Input!AfterFailure, Input!Confirmed, Input!TypeOK, Input!Reading
    <2>2. Input!TypeOK'
      BY <1>0, <1>1, <1>2, <2>1 DEF Input!TypeOK, Input!external, Input!request, Input!local
    <2>3. Input!OneCopy'
      BY <1>0, <1>1 DEF Input!OneCopy, Input!external
    <2>4. Input!ClientShape'
      BY <1>1, <1>2, <2>1 DEF Input!ClientShape, Input!Reading, Input!Sending, Input!Waiting
    <2>5. outcome' \in {"pending", "failed"} => Input!Unsent
      BY <1>0 , <1>4
      DEF Input!Refused, Input!Steered, Input!Confirm, Input!Fails, Input!Dies, Input!End,
          Input!AfterFailure, Input!ClientShape
    <2>6. outcome' \in {"started", "steered"} =>
            /\ mail = "none" /\ accepted = "none"
            /\ held # Input!NoTurn /\ reported' = held
            /\ outcome' = "started" => held = ownTurn
      BY <1>0, <1>4
      DEF Input!Refused, Input!Steered, Input!Confirm, Input!Fails, Input!Dies, Input!End,
          Input!AfterFailure, Input!Confirmed, Input!ClientShape,
          Input!OneCopy, Input!Waiting
    <2>7. Input!ResultShape'
      BY <1>1, <2>5, <2>6 DEF Input!ResultShape, Input!Unsent, Input!external, Input!local
    <2>8. Input!SteerShape'
      BY <1>0, <1>1, <2>1 DEF Input!SteerShape, Input!Limited, Input!external, Input!request,
                              Input!local
    <2> QED BY <2>2, <2>3, <2>4, <2>7, <2>8 DEF Input!IInv
  <1> QED BY <1>3, <1>4


-----------------------------------------------------------------------------
(* The request client. *)

Messages == Rpc!Answers \union Rpc!Extras

ExitParts == Rpc!ExitLosesNoAnswer /\ Rpc!GapShape /\ Rpc!ExitShape

(* What a message is.                                                      *)
LEMMA MessageFacts ==
  ASSUME NEW m \in Messages
  PROVE  /\ m.type \in {"result", "error", "nothing", "tracked", "untracked", "ask", "broken"}
         /\ m.type \in {"result", "error", "nothing"} => m.of \in Rpc!Ids
         /\ m.type \in {"tracked", "untracked", "ask", "broken"} => m.of \in 1..MaxExtras
  BY DEF Messages, Rpc!Answers, Rpc!Extras

(* The parts of the invariant, and what the numbers are.                   *)
LEMMA ClientFacts ==
  ASSUME Rpc!TypeOK
  PROVE  /\ inbox \in Seq(Messages) /\ tracked \in Seq(1..MaxExtras) /\ kept \in Seq(1..MaxExtras)
         /\ Len(inbox) \in Nat /\ Len(tracked) \in Nat /\ Len(kept) \in Nat
         /\ \A k \in 1..Len(inbox) : inbox[k] \in Messages
         /\ \A k \in Rpc!Unread : inbox[k].of \in 1..MaxExtras
         /\ \A j \in 1..Len(tracked) : tracked[j] \in 1..MaxExtras
         /\ \A j \in 1..Len(kept) : kept[j] \in 1..MaxExtras
         /\ MaxExtras \in Nat /\ extras \in 0..MaxExtras /\ extras \in Nat
  <1>1. inbox \in Seq(Messages) /\ tracked \in Seq(1..MaxExtras) /\ kept \in Seq(1..MaxExtras)
        /\ MaxExtras \in Nat /\ extras \in 0..MaxExtras
    BY ClientAssumption DEF Rpc!TypeOK, Messages
  <1>2. Len(inbox) \in Nat /\ Len(tracked) \in Nat /\ Len(kept) \in Nat
    BY <1>1, LenProperties
  <1>3. /\ \A k \in 1..Len(inbox) : inbox[k] \in Messages
        /\ \A j \in 1..Len(tracked) : tracked[j] \in 1..MaxExtras
        /\ \A j \in 1..Len(kept) : kept[j] \in 1..MaxExtras
    BY <1>1, ElementOfSeq
  <1>4. \A k \in Rpc!Unread : inbox[k].of \in 1..MaxExtras
    BY <1>3, MessageFacts DEF Rpc!Unread
  <1> QED BY <1>1, <1>2, <1>3, <1>4

(* At first nothing was asked, sent or read.                               *)
LEMMA ClientInit ==
  ASSUME Rpc!Init
  PROVE  Rpc!IInv
  <1> USE ClientAssumption DEF Rpc!Init
  <1>1. Rpc!TypeOK
    <2>1. <<>> \in Seq(Messages) /\ <<>> \in Seq(1..MaxExtras)
      BY EmptySeq
    <2>2. ended \in [Rpc!Ids -> Rpc!Endings] /\ \A i \in Rpc!Ids : ended[i].how = "none"
      BY DEF Rpc!Endings
    <2>3. \A i \in Rpc!Ids : i >= nextId
      BY DEF Rpc!Ids
    <2>4. ~looked /\ looked \in BOOLEAN /\ running \in BOOLEAN /\ late \subseteq Rpc!Ids
          /\ unanswered \subseteq Rpc!Ids
      OBVIOUS
    <2>5. nextId \in 1..(MaxRequests + 1) /\ waiting \in 0..(nextId - 1)
          /\ clock \in Nat /\ deadline \in Nat /\ extras \in 0..MaxExtras
      OBVIOUS
    <2>6. inbox \in Seq(Rpc!Answers \union Rpc!Extras)
      BY <2>1 DEF Messages
    <2> QED BY <2>1, <2>2, <2>3, <2>4, <2>5, <2>6 DEF Rpc!TypeOK
  <1>2. Len(inbox) = 0 /\ Len(tracked) = 0 /\ Len(kept) = 0
    BY EmptySeq
  <1>3. Rpc!NotificationsKept /\ Rpc!Numbered
    BY <1>2 DEF Rpc!NotificationsKept, Rpc!Numbered, Rpc!Unread
  <1>4. Rpc!AnswerIsOwn /\ Rpc!ExitShape /\ Rpc!GapShape /\ Rpc!ExitLosesNoAnswer
    BY DEF Rpc!AnswerIsOwn, Rpc!ExitShape, Rpc!GapShape, Rpc!ExitLosesNoAnswer
  <1>5. Rpc!TimeShape
    BY DEF Rpc!TimeShape
  <1> QED BY <1>1, <1>3, <1>4, <1>5 DEF Rpc!IInv

(* Nothing tracked is added to what the client has yet to read.            *)
LEMMA UntrackedSent ==
  ASSUME Rpc!IInv, NEW m \in Messages, m.type # "tracked", inbox' = Append(inbox, m),
         extras' \in extras..MaxExtras, UNCHANGED <<client, tracked, kept>>
  PROVE  Rpc!NotificationsKept' /\ Rpc!Numbered'
  <1>0. Rpc!TypeOK /\ Rpc!NotificationsKept /\ Rpc!Numbered
    BY DEF Rpc!IInv
  <1>1. inbox \in Seq(Messages) /\ Len(inbox) \in Nat /\ Len(tracked) \in Nat
    BY <1>0, ClientFacts
  <1>2. /\ Len(inbox') = Len(inbox) + 1 /\ inbox'[Len(inbox) + 1] = m
        /\ \A k \in 1..Len(inbox) : inbox'[k] = inbox[k]
    BY <1>1, AppendProperties
  <1>3. Rpc!Unread' = Rpc!Unread
    BY <1>1, <1>2 DEF Rpc!Unread
  <1>4. \A k \in Rpc!Unread : inbox'[k] = inbox[k]
    BY <1>2 DEF Rpc!Unread
  <1>5. Rpc!NotificationsKept'
    <2>1. {inbox'[k].of : k \in Rpc!Unread} = {inbox[k].of : k \in Rpc!Unread}
      BY <1>4
    <2> QED BY <1>0, <1>3, <1>4, <2>1 DEF Rpc!NotificationsKept
  <1>6. Rpc!Numbered'
    <2>1. /\ \A j \in 1..Len(tracked) : tracked[j] \in Nat
          /\ \A k \in Rpc!Unread : inbox[k].of \in Nat
          /\ extras \in Nat /\ extras' \in Nat /\ extras <= extras'
      BY <1>0, ClientFacts
    <2>2. ASSUME NEW j \in 1..Len(tracked) PROVE tracked[j] <= extras'
      <3>1. tracked[j] <= extras
        BY <1>0 DEF Rpc!Numbered
      <3> QED BY <2>1, <3>1
    <2>3. ASSUME NEW k \in Rpc!Unread PROVE inbox'[k].of <= extras'
      <3>1. inbox'[k].of = inbox[k].of /\ inbox[k].of <= extras
        BY <1>0, <1>4 DEF Rpc!Numbered
      <3> QED BY <2>1, <3>1
    <2> QED BY <1>3, <2>2, <2>3 DEF Rpc!Numbered
  <1> QED BY <1>5, <1>6

(* A tracked notification is the last one sent and the last one to read.   *)
LEMMA TrackedSent ==
  ASSUME Rpc!IInv, NEW m \in Messages, m.type = "tracked", m.of = extras + 1,
         extras < MaxExtras, extras' = extras + 1,
         inbox' = Append(inbox, m), tracked' = Append(tracked, m.of), UNCHANGED <<client, kept>>
  PROVE  Rpc!NotificationsKept' /\ Rpc!Numbered'
  <1>0. Rpc!TypeOK /\ Rpc!NotificationsKept /\ Rpc!Numbered
    BY DEF Rpc!IInv
  <1>1. /\ inbox \in Seq(Messages)
        /\ Len(inbox) \in Nat /\ Len(tracked) \in Nat /\ Len(kept) \in Nat
        /\ tracked \in Seq(1..MaxExtras) /\ extras \in Nat
        /\ \A j \in 1..Len(tracked) : tracked[j] \in Nat /\ tracked[j] <= extras
        /\ \A k \in Rpc!Unread : inbox[k].of \in Nat /\ inbox[k].of <= extras
        /\ m.of \in 1..MaxExtras
    BY <1>0, ClientFacts, MessageFacts DEF Rpc!Numbered
  <1>2. /\ Len(inbox') = Len(inbox) + 1 /\ inbox'[Len(inbox) + 1] = m
        /\ \A k \in 1..Len(inbox) : inbox'[k] = inbox[k]
    BY <1>1, AppendProperties
  <1>3. /\ Len(tracked') = Len(tracked) + 1 /\ tracked'[Len(tracked) + 1] = extras + 1
        /\ \A j \in 1..Len(tracked) : tracked'[j] = tracked[j]
    BY <1>1, AppendProperties
  <1>4. Rpc!Unread' = Rpc!Unread \union {Len(inbox) + 1}
    BY <1>1, <1>2 DEF Rpc!Unread
  <1>5. \A k \in Rpc!Unread : inbox'[k] = inbox[k] /\ k < Len(inbox) + 1
    BY <1>1, <1>2 DEF Rpc!Unread
  <1>6. Rpc!Numbered'
    <2>1. ASSUME NEW j \in 1..Len(tracked') PROVE tracked'[j] <= extras'
      <3>1. CASE j \in 1..Len(tracked)
        BY <1>1, <1>3, <3>1
      <3>2. CASE j = Len(tracked) + 1
        BY <1>1, <1>3, <3>2
      <3>3. j \in 1..Len(tracked) \/ j = Len(tracked) + 1
        BY <1>1, <1>3
      <3> QED BY <3>1, <3>2, <3>3
    <2>2. ASSUME NEW k \in Rpc!Unread' PROVE inbox'[k].of <= extras'
      <3>1. CASE k \in Rpc!Unread
        <4>1. inbox'[k].of = inbox[k].of /\ inbox[k].of \in Nat /\ inbox[k].of <= extras
          BY <1>1, <1>5, <3>1
        <4> QED BY <1>1, <4>1
      <3>2. CASE k = Len(inbox) + 1
        BY <1>1, <1>2, <3>2
      <3> QED BY <1>4, <3>1, <3>2
    <2> QED BY <2>1, <2>2 DEF Rpc!Numbered
  <1>7. ASSUME client = "threadctl" PROVE Rpc!NotificationsKept'
    <2>0. Len(kept) <= Len(tracked) /\ \A j \in 1..Len(kept) : kept[j] = tracked[j]
      BY <1>0, <1>7 DEF Rpc!NotificationsKept
    <2>1. Len(kept) <= Len(tracked') /\ \A j \in 1..Len(kept) : kept[j] = tracked'[j]
      BY <1>1, <1>3, <2>0
    <2>2. {inbox'[k].of : k \in Rpc!Unread'} = {inbox[k].of : k \in Rpc!Unread} \union {extras + 1}
      BY <1>2, <1>4, <1>5
    <2>3. {tracked'[j] : j \in (Len(kept) + 1)..Len(tracked')}
            = {tracked[j] : j \in (Len(kept) + 1)..Len(tracked)} \union {extras + 1}
      <3>1. (Len(kept) + 1)..Len(tracked')
              = ((Len(kept) + 1)..Len(tracked)) \union {Len(tracked) + 1}
        BY <1>1, <1>3, <2>0
      <3>2. \A j \in (Len(kept) + 1)..Len(tracked) : tracked'[j] = tracked[j]
        BY <1>1, <1>3
      <3> QED BY <1>3, <3>1, <3>2
    <2>4. \A j, k \in Rpc!Unread' : j < k => inbox'[j].of < inbox'[k].of
      <3> SUFFICES ASSUME NEW j \in Rpc!Unread', NEW k \in Rpc!Unread', j < k
                   PROVE  inbox'[j].of < inbox'[k].of
        OBVIOUS
      <3>1. j \in Rpc!Unread
        BY <1>1, <1>4, <1>5 DEF Rpc!Unread
      <3>2. CASE k \in Rpc!Unread
        BY <1>0, <1>5, <1>7, <3>1, <3>2 DEF Rpc!NotificationsKept
      <3>3. CASE k = Len(inbox) + 1
        <4>1. inbox'[j].of = inbox[j].of /\ inbox[j].of \in Nat /\ inbox[j].of <= extras
          BY <1>1, <1>5, <3>1
        <4>2. inbox'[k].of = extras + 1
          BY <1>2, <3>3
        <4> QED BY <1>1, <4>1, <4>2
      <3> QED BY <1>4, <3>2, <3>3
    <2>5. \A j, k \in 1..Len(tracked') : j < k => tracked'[j] < tracked'[k]
      <3> SUFFICES ASSUME NEW j \in 1..Len(tracked'), NEW k \in 1..Len(tracked'), j < k
                   PROVE  tracked'[j] < tracked'[k]
        OBVIOUS
      <3>1. j \in 1..Len(tracked)
        BY <1>1, <1>3
      <3>2. CASE k \in 1..Len(tracked)
        BY <1>0, <1>3, <1>7, <3>1, <3>2 DEF Rpc!NotificationsKept
      <3>3. CASE k = Len(tracked) + 1
        BY <1>1, <1>3, <3>1, <3>3
      <3>4. k \in 1..Len(tracked) \/ k = Len(tracked) + 1
        <4>1. Len(tracked) \in Nat /\ Len(tracked') = Len(tracked) + 1
          BY <1>1, <1>3
        <4> QED BY <4>1
      <3> QED BY <3>2, <3>3, <3>4
    <2>6. {inbox[k].of : k \in Rpc!Unread} = {tracked[j] : j \in (Len(kept) + 1)..Len(tracked)}
      BY <1>0, <1>7 DEF Rpc!NotificationsKept
    <2> QED BY <2>1, <2>2, <2>3, <2>4, <2>5, <2>6 DEF Rpc!NotificationsKept
  <1>8. client # "threadctl" => Rpc!NotificationsKept'
    BY DEF Rpc!NotificationsKept
  <1> QED BY <1>6, <1>7, <1>8

(* Nothing is sent or read.                                                *)
LEMMA NothingRead ==
  ASSUME Rpc!NotificationsKept, Rpc!Numbered, UNCHANGED <<client, inbox, extras, tracked, kept>>
  PROVE  Rpc!NotificationsKept' /\ Rpc!Numbered'
  <1>1. client' = client /\ inbox' = inbox /\ extras' = extras /\ tracked' = tracked /\ kept' = kept
    OBVIOUS
  <1>2. Rpc!Unread' = Rpc!Unread
    BY <1>1 DEF Rpc!Unread
  <1>3. Rpc!NotificationsKept'
    BY <1>1, <1>2 DEF Rpc!NotificationsKept
  <1>4. Rpc!Numbered'
    BY <1>1, <1>2 DEF Rpc!Numbered
  <1> QED BY <1>3, <1>4

(* What the app-server does changes nothing for a client that has seen the *)
(* exit, and what it says after select found nothing is said late.         *)
LEMMA ServerExitParts ==
  ASSUME Rpc!IInv, Rpc!ServerAnswers \/ Rpc!ServerSpeaks \/ Rpc!ServerExits
  PROVE  ExitParts'
  <1>0. Rpc!TypeOK /\ Rpc!ExitLosesNoAnswer /\ Rpc!GapShape /\ Rpc!ExitShape
    BY DEF Rpc!IInv
  <1>1. UNCHANGED <<client, waiting, looked, ended>> /\ running
    BY DEF Rpc!ServerAnswers, Rpc!ServerSpeaks, Rpc!ServerExits
  <1>2. Rpc!ExitShape' /\ Rpc!ExitLosesNoAnswer'
    BY <1>0, <1>1 DEF Rpc!ExitShape, Rpc!ExitLosesNoAnswer, Rpc!Ids
  <1>3. CASE Rpc!ServerExits
    <2>1. inbox' = inbox /\ late' = late
      BY <1>3 DEF Rpc!ServerExits
    <2> QED BY <1>0, <1>1, <1>2, <2>1 DEF Rpc!GapShape, ExitParts
  <1>4. CASE Rpc!ServerAnswers \/ Rpc!ServerSpeaks
    <2>1. PICK m \in Messages :
            /\ inbox' = Append(inbox, m)
            /\ looked => late \subseteq late'
            /\ looked /\ m.type \in {"result", "error", "nothing"} => m.of \in late'
      <3>1. CASE Rpc!ServerAnswers
        <4>1. PICK i \in unanswered, how \in {"result", "error", "nothing"} :
                Rpc!Put([type |-> how, of |-> i])
                /\ late' = IF looked THEN late \union {i} ELSE late
          BY <3>1 DEF Rpc!ServerAnswers
        <4>2. [type |-> how, of |-> i] \in Messages
          BY <1>0 DEF Messages, Rpc!Answers, Rpc!TypeOK
        <4> QED BY <4>1, <4>2 DEF Rpc!Put
      <3>2. CASE Rpc!ServerSpeaks
        <4>1. PICK type \in {"tracked", "untracked", "ask", "broken"} :
                Rpc!Put([type |-> type, of |-> extras'])
          BY <3>2 DEF Rpc!ServerSpeaks
        <4>2. extras' \in 1..MaxExtras /\ late' = late
          <5>1. extras < MaxExtras /\ extras' = extras + 1 /\ late' = late
            BY <3>2 DEF Rpc!ServerSpeaks
          <5> QED BY <1>0, <5>1, ClientFacts
        <4>3. [type |-> type, of |-> extras'] \in Messages
          BY <4>2 DEF Messages, Rpc!Extras
        <4> QED BY <4>1, <4>2, <4>3 DEF Rpc!Put
      <3> QED BY <1>4, <3>1, <3>2
    <2>2. /\ inbox \in Seq(Messages) /\ Len(inbox) \in Nat
          /\ Len(inbox') = Len(inbox) + 1 /\ inbox'[Len(inbox) + 1] = m
          /\ \A k \in 1..Len(inbox) : inbox'[k] = inbox[k]
      BY <1>0, <2>1, ClientFacts, AppendProperties
    <2>3. ASSUME looked, NEW k \in 1..Len(inbox'),
                 inbox'[k].type \in {"result", "error", "nothing"}
          PROVE  inbox'[k].of \in late'
      <3>1. CASE k = Len(inbox) + 1
        BY <2>1, <2>2, <2>3, <3>1
      <3>2. CASE k # Len(inbox) + 1
        <4>1. k \in 1..Len(inbox)
          BY <2>2, <3>2
        <4> QED BY <1>0, <2>1, <2>2, <2>3, <4>1 DEF Rpc!GapShape
      <3> QED BY <3>1, <3>2
    <2>4. Rpc!GapShape'
      BY <1>1, <2>3 DEF Rpc!GapShape
    <2> QED BY <1>2, <2>4 DEF ExitParts
  <1> QED BY <1>3, <1>4

(* Nor does the client: it reads and gives up only what select did not     *)
(* miss, and when it sees an exit, every answer that is there came late.   *)
LEMMA ClientExitParts ==
  ASSUME Rpc!IInv,
         Rpc!Request \/ Rpc!Receive \/ Rpc!TimesOut \/ Rpc!SeesExit \/ Rpc!Looks \/ Rpc!Polls
           \/ Rpc!Tick
  PROVE  ExitParts'
  <1>0. /\ Rpc!TypeOK /\ Rpc!ExitLosesNoAnswer /\ Rpc!GapShape /\ Rpc!ExitShape
        /\ looked => Rpc!OverPipes /\ waiting # 0
    BY DEF Rpc!IInv, Rpc!TypeOK
  <1>1. CASE Rpc!Request
    <2>1. waiting = 0 /\ running /\ UNCHANGED <<looked, ended>>
      BY <1>1 DEF Rpc!Request
    <2> QED BY <1>0, <2>1 DEF Rpc!ExitShape, Rpc!ExitLosesNoAnswer, Rpc!GapShape, Rpc!Ids, ExitParts
  <1>2. CASE Rpc!Receive \/ Rpc!TimesOut
    <2>1. waiting # 0 /\ ~looked /\ looked' = looked
      BY <1>2 DEF Rpc!Receive, Rpc!TimesOut
    <2>2. \A i \in Rpc!Ids : ended[i].how # "exited"
      BY <1>0, <2>1 DEF Rpc!ExitShape
    <2>3. \A i \in Rpc!Ids : ended'[i].how # "exited"
      <3>1. \/ UNCHANGED ended
            \/ \E how, id : how # "exited" /\ Rpc!Finish(how, id)
        BY <1>2 DEF Rpc!Receive, Rpc!TimesOut, Rpc!IsForUs
      <3>2. ended \in [Rpc!Ids -> Rpc!Endings]
        BY <1>0 DEF Rpc!TypeOK
      <3> QED BY <2>2, <3>1, <3>2 DEF Rpc!Finish
    <2> QED BY <2>1, <2>3 DEF Rpc!ExitShape, Rpc!ExitLosesNoAnswer, Rpc!GapShape, Rpc!Ids, ExitParts
  <1>3. CASE Rpc!SeesExit
    <2>1. /\ ~Rpc!OverPipes /\ ~running /\ inbox = <<>> /\ UNCHANGED <<looked, inbox, running>>
          /\ waiting' = 0
      BY <1>3 DEF Rpc!SeesExit, Rpc!Drained, Rpc!server, Rpc!Finish
    <2>2. Len(inbox') = 0
      BY <2>1, EmptySeq
    <2> QED BY <1>0, <2>1, <2>2
        DEF Rpc!ExitShape, Rpc!ExitLosesNoAnswer, Rpc!GapShape, Rpc!Ids, ExitParts
  <1>4. CASE Rpc!Looks
    <2>1. waiting # 0 /\ inbox' = <<>> /\ UNCHANGED <<ended>>
      BY <1>4 DEF Rpc!Looks, Rpc!Drained, Rpc!server
    <2>2. Len(inbox') = 0
      BY <2>1, EmptySeq
    <2> QED BY <1>0, <2>1, <2>2
        DEF Rpc!ExitShape, Rpc!ExitLosesNoAnswer, Rpc!GapShape, Rpc!Ids, ExitParts
  <1>5. CASE Rpc!Polls
    <2>1. looked /\ ~looked' /\ UNCHANGED <<client, late, inbox, running>>
      BY <1>5 DEF Rpc!Polls, Rpc!server
    <2>2. \A i \in Rpc!Ids : ended[i].how # "exited"
      BY <1>0, <2>1 DEF Rpc!ExitShape
    <2>3. CASE running
      <3>1. ended' = ended
        BY <1>5, <2>3 DEF Rpc!Polls
      <3> QED BY <2>1, <2>2, <3>1
          DEF Rpc!ExitShape, Rpc!ExitLosesNoAnswer, Rpc!GapShape, Rpc!Ids, ExitParts
    <2>4. CASE ~running
      <3>1. waiting' = 0 /\ Rpc!Finish("exited", 0)
        BY <1>5, <2>4 DEF Rpc!Polls, Rpc!Finish
      <3>2. \A i \in Rpc!Ids : ended'[i].how = "exited" => i = waiting
        <4>1. ended \in [Rpc!Ids -> Rpc!Endings]
          BY <1>0 DEF Rpc!TypeOK
        <4> QED BY <2>2, <3>1, <4>1 DEF Rpc!Finish
      <3>3. \A k \in 1..Len(inbox) :
              inbox[k].type \in {"result", "error"} => inbox[k].of \in late
        BY <1>0, <2>1 DEF Rpc!GapShape
      <3>4. Rpc!ExitLosesNoAnswer'
        BY <1>0, <2>1, <3>2, <3>3 DEF Rpc!ExitLosesNoAnswer, Rpc!OverPipes, Rpc!Ids
      <3>5. Rpc!ExitShape' /\ Rpc!GapShape'
        BY <2>1, <2>4, <3>1 DEF Rpc!ExitShape, Rpc!GapShape
      <3> QED BY <3>4, <3>5 DEF ExitParts
    <2> QED BY <2>3, <2>4
  <1>6. CASE Rpc!Tick
    <2>1. UNCHANGED <<client, waiting, looked, late, inbox, running, ended>>
      BY <1>6 DEF Rpc!Tick, Rpc!server
    <2> QED BY <1>0, <2>1
        DEF Rpc!ExitShape, Rpc!ExitLosesNoAnswer, Rpc!GapShape, Rpc!Ids, Rpc!OverPipes, ExitParts
  <1> QED BY <1>1, <1>2, <1>3, <1>4, <1>5, <1>6

(* The app-server answers, says something else or exits.                   *)
LEMMA ServerStep ==
  ASSUME Rpc!IInv, Rpc!ServerAnswers \/ Rpc!ServerSpeaks \/ Rpc!ServerExits
  PROVE  Rpc!IInv'
  <1>0. Rpc!TypeOK /\ Rpc!AnswerIsOwn /\ Rpc!NotificationsKept /\ Rpc!Numbered /\ ExitParts
        /\ Rpc!TimeShape
    BY DEF Rpc!IInv, ExitParts
  <1>1. UNCHANGED <<client, nextId, waiting, clock, deadline, looked, kept, ended>>
    BY DEF Rpc!ServerAnswers, Rpc!ServerSpeaks, Rpc!ServerExits
  <1>2. Rpc!AnswerIsOwn' /\ Rpc!TimeShape'
    BY <1>0, <1>1 DEF Rpc!AnswerIsOwn, Rpc!TimeShape, Rpc!Ids
  <1>3. ExitParts'
    BY ServerExitParts
  <1>4. CASE Rpc!ServerAnswers
    <2>1. PICK i \in unanswered, how \in {"result", "error", "nothing"} :
            /\ unanswered' = unanswered \ {i} /\ Rpc!Put([type |-> how, of |-> i])
            /\ late' = IF looked THEN late \union {i} ELSE late
      BY <1>4 DEF Rpc!ServerAnswers
    <2> DEFINE m == [type |-> how, of |-> i]
    <2>2. m \in Messages /\ m.type # "tracked"
      BY <1>0 DEF Messages, Rpc!Answers, Rpc!TypeOK
    <2>3. inbox' = Append(inbox, m) /\ UNCHANGED <<extras, running, tracked>>
      BY <1>4, <2>1 DEF Rpc!ServerAnswers, Rpc!Put
    <2> HIDE DEF m
    <2>4. Rpc!NotificationsKept' /\ Rpc!Numbered'
      BY <1>1, <2>2, <2>3, <1>0, ClientFacts, UntrackedSent
    <2>5. inbox' \in Seq(Messages) /\ unanswered' \subseteq Rpc!Ids /\ late' \subseteq Rpc!Ids
      BY <1>0, <2>1, <2>2, <2>3, ClientFacts, AppendProperties DEF Rpc!TypeOK
    <2>6. Rpc!TypeOK'
      BY <1>0, <1>1, <2>3, <2>5
      DEF Rpc!TypeOK, Messages, Rpc!Ids, Rpc!Answers, Rpc!Extras, Rpc!Endings, Rpc!OverPipes
    <2> QED BY <1>2, <1>3, <2>4, <2>6 DEF Rpc!IInv, ExitParts
  <1>5. CASE Rpc!ServerSpeaks
    <2>1. PICK type \in {"tracked", "untracked", "ask", "broken"} :
            /\ Rpc!Put([type |-> type, of |-> extras'])
            /\ tracked' = IF type = "tracked" THEN Append(tracked, extras') ELSE tracked
      BY <1>5 DEF Rpc!ServerSpeaks
    <2>2. extras < MaxExtras /\ extras' = extras + 1 /\ UNCHANGED <<late, unanswered, running>>
      BY <1>5 DEF Rpc!ServerSpeaks
    <2>3. extras' \in 1..MaxExtras /\ extras' \in extras..MaxExtras
      BY <1>0, <2>2, ClientFacts
    <2> DEFINE m == [type |-> type, of |-> extras']
    <2>4. m \in Messages /\ m.type = type /\ m.of = extras'
      BY <2>3 DEF Messages, Rpc!Extras
    <2>5. inbox' = Append(inbox, m)
      BY <2>1 DEF Rpc!Put
    <2> HIDE DEF m
    <2>6. Rpc!NotificationsKept' /\ Rpc!Numbered'
      <3>1. CASE type = "tracked"
        BY <1>1, <2>1, <2>2, <2>4, <2>5, <3>1, TrackedSent
      <3>2. CASE type # "tracked"
        BY <1>1, <2>1, <2>3, <2>4, <2>5, <3>2, UntrackedSent
      <3> QED BY <3>1, <3>2
    <2>7. inbox' \in Seq(Messages) /\ tracked' \in Seq(1..MaxExtras)
      BY <1>0, <2>1, <2>3, <2>4, <2>5, ClientFacts, AppendProperties
    <2>8. Rpc!TypeOK'
      BY <1>0, <1>1, <2>2, <2>3, <2>7
      DEF Rpc!TypeOK, Messages, Rpc!Ids, Rpc!Answers, Rpc!Extras, Rpc!Endings, Rpc!OverPipes
    <2> QED BY <1>2, <1>3, <2>6, <2>8 DEF Rpc!IInv, ExitParts
  <1>6. CASE Rpc!ServerExits
    <2>1. UNCHANGED <<late, unanswered, inbox, extras, tracked>> /\ running' \in BOOLEAN
      BY <1>6 DEF Rpc!ServerExits
    <2>2. Rpc!NotificationsKept' /\ Rpc!Numbered'
      BY <1>0, <1>1, <2>1, NothingRead
    <2>3. Rpc!TypeOK'
      BY <1>0, <1>1, <2>1
      DEF Rpc!TypeOK, Messages, Rpc!Ids, Rpc!Answers, Rpc!Extras, Rpc!Endings, Rpc!OverPipes
    <2> QED BY <1>2, <1>3, <2>2, <2>3 DEF Rpc!IInv, ExitParts
  <1> QED BY <1>4, <1>5, <1>6

(* The client sends a request, with a deadline of its own or a common one. *)
LEMMA RequestStep ==
  ASSUME Rpc!IInv, Rpc!Request
  PROVE  Rpc!IInv'
  <1>0. Rpc!TypeOK /\ Rpc!AnswerIsOwn /\ Rpc!NotificationsKept /\ Rpc!Numbered /\ ExitParts
        /\ Rpc!TimeShape
    BY DEF Rpc!IInv, ExitParts
  <1>1. /\ UNCHANGED <<client, clock, looked, late, inbox, extras, running, tracked, kept, ended>>
        /\ waiting = 0 /\ nextId \in Rpc!Ids /\ running
        /\ waiting' = nextId /\ nextId' = nextId + 1
        /\ unanswered' = unanswered \union {nextId} /\ deadline' = Rpc!Deadline
    BY DEF Rpc!Request
  <1>2. /\ nextId \in 1..MaxRequests /\ nextId' \in 1..(MaxRequests + 1)
        /\ waiting' \in 0..(nextId' - 1)
        /\ clock \in Nat /\ deadline \in Nat /\ Timeout \in Nat
    BY <1>0, <1>1, ClientAssumption DEF Rpc!Ids, Rpc!TypeOK
  <1>3. deadline' = IF client = "limitctl" THEN deadline ELSE clock + Timeout
    BY <1>1 DEF Rpc!Deadline
  <1>4. Rpc!TypeOK'
    <2>1. deadline' \in Nat /\ unanswered' \subseteq Rpc!Ids
      BY <1>0, <1>1, <1>2, <1>3 DEF Rpc!TypeOK
    <2>2. ASSUME NEW i \in Rpc!Ids
          PROVE  ended'[i].how = "none" <=> i = waiting' \/ i >= nextId'
      <3>1. ended[i].how = "none" <=> i = 0 \/ i >= nextId
        BY <1>0, <1>1 DEF Rpc!TypeOK
      <3>2. i >= nextId <=> i = nextId \/ i >= nextId + 1
        BY <1>2, ClientAssumption DEF Rpc!Ids
      <3>3. i # 0
        BY DEF Rpc!Ids
      <3> QED BY <1>1, <3>1, <3>2, <3>3
    <2>3. ~looked
      BY <1>0, <1>1 DEF Rpc!TypeOK
    <2> QED BY <1>0, <1>1, <1>2, <2>1, <2>2, <2>3
        DEF Rpc!TypeOK, Rpc!Ids, Rpc!Answers, Rpc!Extras, Rpc!Endings
  <1>5. Rpc!NotificationsKept' /\ Rpc!Numbered'
    BY <1>0, <1>1, NothingRead
  <1>6. Rpc!AnswerIsOwn' /\ ExitParts'
    BY <1>0, <1>1, ClientExitParts DEF Rpc!AnswerIsOwn, Rpc!Ids
  <1>7. Rpc!TimeShape'
    <2> DEFINE given == Timeout * (nextId - 1)
    <2>1. Timeout * (nextId' - 1) = given + Timeout /\ given \in Nat
      BY <1>1, <1>2
    <2>2. client # "limitctl" => clock <= given
      BY <1>0 DEF Rpc!TimeShape
    <2> HIDE DEF given
    <2>3. client # "limitctl" =>
            clock <= Timeout * (nextId' - 1) /\ deadline' <= Timeout * (nextId' - 1)
      <3>1. SUFFICES ASSUME client # "limitctl"
                     PROVE  clock <= given + Timeout /\ deadline' <= given + Timeout
        BY <2>1
      <3>2. deadline' = clock + Timeout
        BY <1>3, <3>1
      <3> QED BY <1>2, <2>1, <2>2, <3>1, <3>2
    <2> QED BY <1>0, <1>1, <1>3, <2>3 DEF Rpc!TimeShape
  <1> QED BY <1>4, <1>5, <1>6, <1>7 DEF Rpc!IInv, ExitParts

(* The client reads the oldest message; if that is a tracked notification, *)
(* it is the next of those sent.                                           *)
LEMMA OldestRead ==
  ASSUME Rpc!IInv, inbox # <<>>, inbox' = Tail(inbox), kept' = Rpc!Kept(Head(inbox)),
         UNCHANGED <<client, tracked, extras>>
  PROVE  /\ inbox' \in Seq(Messages) /\ kept' \in Seq(1..MaxExtras)
         /\ Rpc!NotificationsKept' /\ Rpc!Numbered'
  <1>0. Rpc!TypeOK /\ Rpc!NotificationsKept /\ Rpc!Numbered
    BY DEF Rpc!IInv
  <1> DEFINE m == Head(inbox)
  <1>1. /\ inbox \in Seq(Messages)
        /\ Len(inbox) \in Nat /\ Len(tracked) \in Nat /\ Len(kept) \in Nat
        /\ kept \in Seq(1..MaxExtras) /\ tracked \in Seq(1..MaxExtras)
        /\ \A k \in Rpc!Unread : inbox[k].of \in Nat
        /\ \A j \in 1..Len(tracked) : tracked[j] \in Nat
    BY <1>0, ClientFacts
  <1>2. /\ inbox' \in Seq(Messages) /\ Len(inbox) \in Nat \ {0} /\ Len(inbox') = Len(inbox) - 1
        /\ \A k \in 1..Len(inbox') : inbox'[k] = inbox[k + 1]
        /\ m = inbox[1] /\ m \in Messages
    BY <1>1, HeadTailProperties, EmptySeq
  <1>3. Rpc!Unread' = {k \in 1..(Len(inbox) - 1) : k + 1 \in Rpc!Unread}
    BY <1>1, <1>2 DEF Rpc!Unread
  <1>4. \A k \in Rpc!Unread' : k + 1 \in Rpc!Unread /\ inbox'[k] = inbox[k + 1] /\ k \in Nat
    BY <1>2, <1>3
  <1>5. \A k \in Rpc!Unread : k = 1 \/ (k - 1 \in Rpc!Unread' /\ inbox'[k - 1] = inbox[k])
    <2> SUFFICES ASSUME NEW k \in Rpc!Unread, k # 1
                 PROVE  k - 1 \in Rpc!Unread' /\ inbox'[k - 1] = inbox[k]
      OBVIOUS
    <2>1. k \in 1..Len(inbox) /\ k - 1 \in 1..(Len(inbox) - 1) /\ (k - 1) + 1 = k
      BY <1>1 DEF Rpc!Unread
    <2> QED BY <1>2, <1>3, <2>1
  <1>6. 1 \in Rpc!Unread <=> m.type = "tracked"
    BY <1>2 DEF Rpc!Unread
  <1>7. kept' = IF client = "threadctl" /\ m.type = "tracked" THEN Append(kept, m.of) ELSE kept
    BY DEF Rpc!Kept
  <1> HIDE DEF m
  <1>8. m.type = "tracked" => m.of \in 1..MaxExtras
    BY <1>2, MessageFacts
  <1>9. kept' \in Seq(1..MaxExtras)
    BY <1>1, <1>7, <1>8, AppendProperties
  <1>10. Rpc!Numbered'
    <2>1. ASSUME NEW k \in Rpc!Unread' PROVE inbox'[k].of <= extras
      BY <1>0, <1>4 DEF Rpc!Numbered
    <2> QED BY <1>0, <2>1 DEF Rpc!Numbered
  <1>11. ASSUME client = "threadctl" PROVE Rpc!NotificationsKept'
    <2> DEFINE Rest == (Len(kept) + 1)..Len(tracked)
    <2>0. /\ Len(kept) <= Len(tracked) /\ \A j \in 1..Len(kept) : kept[j] = tracked[j]
          /\ {inbox[k].of : k \in Rpc!Unread} = {tracked[j] : j \in Rest}
          /\ \A j, k \in Rpc!Unread : j < k => inbox[j].of < inbox[k].of
          /\ \A j, k \in 1..Len(tracked) : j < k => tracked[j] < tracked[k]
      BY <1>0, <1>11 DEF Rpc!NotificationsKept
    <2>1. \A j, k \in Rpc!Unread' : j < k => inbox'[j].of < inbox'[k].of
      <3> SUFFICES ASSUME NEW j \in Rpc!Unread', NEW k \in Rpc!Unread', j < k
                   PROVE  inbox'[j].of < inbox'[k].of
        OBVIOUS
      <3>1. j + 1 \in Rpc!Unread /\ k + 1 \in Rpc!Unread /\ j + 1 < k + 1
        BY <1>4
      <3> QED BY <1>4, <2>0, <3>1
    <2>2. CASE m.type # "tracked"
      <3>1. 1 \notin Rpc!Unread /\ kept' = kept
        BY <1>6, <1>7, <2>2
      <3>2. {inbox'[k].of : k \in Rpc!Unread'} = {inbox[k].of : k \in Rpc!Unread}
        <4>1. ASSUME NEW k \in Rpc!Unread' PROVE \E j \in Rpc!Unread : inbox'[k].of = inbox[j].of
          BY <1>4
        <4>2. ASSUME NEW k \in Rpc!Unread PROVE \E j \in Rpc!Unread' : inbox[k].of = inbox'[j].of
          BY <1>5, <3>1
        <4>3. {inbox'[k].of : k \in Rpc!Unread'} \subseteq {inbox[k].of : k \in Rpc!Unread}
          BY <4>1
        <4>4. {inbox[k].of : k \in Rpc!Unread} \subseteq {inbox'[k].of : k \in Rpc!Unread'}
          BY <4>2
        <4> QED BY <4>3, <4>4
      <3> QED BY <2>0, <2>1, <3>1, <3>2 DEF Rpc!NotificationsKept
    <2>3. CASE m.type = "tracked"
      <3>1. 1 \in Rpc!Unread /\ kept' = Append(kept, m.of) /\ m = inbox[1] /\ m.of \in Nat
        BY <1>1, <1>2, <1>6, <1>7, <1>11, <2>3
      <3>2. /\ Len(kept') = Len(kept) + 1 /\ kept'[Len(kept) + 1] = m.of
            /\ \A j \in 1..Len(kept) : kept'[j] = kept[j]
        <4>1. kept \in Seq(1..MaxExtras) /\ m.of \in 1..MaxExtras
          BY <1>1, <1>8, <2>3
        <4>2. /\ Len(Append(kept, m.of)) = Len(kept) + 1 /\ Append(kept, m.of)[Len(kept) + 1] = m.of
              /\ \A j \in 1..Len(kept) : Append(kept, m.of)[j] = kept[j]
          BY <4>1, AppendProperties
        <4> QED BY <3>1, <4>2
      <3>3. PICK n \in Rest : m.of = tracked[n]
        BY <2>0, <3>1
      <3>4. n = Len(kept) + 1
        <4> SUFFICES ASSUME n # Len(kept) + 1 PROVE FALSE
          OBVIOUS
        <4>1. /\ Len(kept) + 1 \in 1..Len(tracked) /\ n \in 1..Len(tracked) /\ Len(kept) + 1 < n
              /\ Len(kept) + 1 \in Rest
          BY <1>1, <3>3
        <4>2. tracked[Len(kept) + 1] < m.of /\ tracked[Len(kept) + 1] \in Nat
          BY <1>1, <2>0, <3>3, <4>1
        <4>3. PICK k \in Rpc!Unread : inbox[k].of = tracked[Len(kept) + 1]
          BY <2>0, <4>1
        <4>4. k = 1 \/ 1 < k
          BY <1>1 DEF Rpc!Unread
        <4>5. 1 < k => m.of < inbox[k].of
          BY <2>0, <3>1
        <4> QED BY <3>1, <4>2, <4>3, <4>4, <4>5
      <3>5. /\ Len(kept') <= Len(tracked)
            /\ \A j \in 1..Len(kept') : kept'[j] = tracked[j]
        BY <1>1, <2>0, <3>2, <3>3, <3>4
      <3>6. {inbox'[k].of : k \in Rpc!Unread'} = {tracked[j] : j \in (Len(kept') + 1)..Len(tracked)}
        <4>1. ASSUME NEW k \in Rpc!Unread'
              PROVE  \E j \in (Len(kept') + 1)..Len(tracked) : inbox'[k].of = tracked[j]
          <5>1. k + 1 \in Rpc!Unread /\ inbox'[k].of = inbox[k + 1].of /\ 1 < k + 1
            BY <1>3, <1>4
          <5>2. PICK j \in Rest : inbox[k + 1].of = tracked[j]
            BY <2>0, <5>1
          <5>3. m.of < inbox[k + 1].of
            BY <2>0, <3>1, <5>1
          <5>4. j # n
            BY <3>1, <3>3, <5>2, <5>3
          <5>5. j \in (Len(kept') + 1)..Len(tracked)
            BY <1>1, <3>2, <3>4, <5>2, <5>4
          <5> QED BY <5>1, <5>2, <5>5
        <4>2. ASSUME NEW j \in (Len(kept') + 1)..Len(tracked)
              PROVE  \E k \in Rpc!Unread' : inbox'[k].of = tracked[j]
          <5>1. j \in Rest /\ n < j /\ n \in 1..Len(tracked) /\ j \in 1..Len(tracked)
            BY <1>1, <3>2, <3>3, <3>4
          <5>2. PICK k \in Rpc!Unread : inbox[k].of = tracked[j]
            BY <2>0, <5>1
          <5>3. m.of < tracked[j]
            BY <2>0, <3>3, <5>1
          <5>4. k # 1
            BY <3>1, <5>2, <5>3
          <5>5. k - 1 \in Rpc!Unread' /\ inbox'[k - 1].of = tracked[j]
            BY <1>5, <5>2, <5>4
          <5> QED BY <5>5
        <4> DEFINE Left == (Len(kept') + 1)..Len(tracked)
        <4>3. {inbox'[k].of : k \in Rpc!Unread'} \subseteq {tracked[j] : j \in Left}
          BY <4>1
        <4>4. {tracked[j] : j \in Left} \subseteq {inbox'[k].of : k \in Rpc!Unread'}
          <5> SUFFICES ASSUME NEW j \in Left
                       PROVE  tracked[j] \in {inbox'[k].of : k \in Rpc!Unread'}
            OBVIOUS
          <5>1. PICK k \in Rpc!Unread' : inbox'[k].of = tracked[j]
            BY <4>2
          <5> QED BY <5>1
        <4> QED BY <4>3, <4>4
      <3> QED BY <2>0, <2>1, <3>5, <3>6 DEF Rpc!NotificationsKept
    <2> QED BY <2>2, <2>3
  <1>12. client # "threadctl" => Rpc!NotificationsKept'
    BY DEF Rpc!NotificationsKept
  <1> QED BY <1>2, <1>9, <1>10, <1>11, <1>12

(* A request that ends is the one under way.                               *)
LEMMA RequestEnds ==
  ASSUME Rpc!TypeOK, waiting # 0,
         NEW how \in {"result", "error", "invalid", "timeout", "exited"},
         NEW id \in Rpc!Ids \union {0},
         Rpc!Finish(how, id), UNCHANGED nextId
  PROVE  /\ waiting \in Rpc!Ids /\ waiting' = 0 /\ ended' \in [Rpc!Ids -> Rpc!Endings]
         /\ \A i \in Rpc!Ids :
              ended'[i] = IF i = waiting THEN [how |-> how, of |-> id] ELSE ended[i]
         /\ \A i \in Rpc!Ids : ended'[i].how = "none" <=> i = waiting' \/ i >= nextId
  <1>1. /\ nextId \in 1..(MaxRequests + 1) /\ waiting \in 0..(nextId - 1) /\ MaxRequests \in Nat
        /\ ended \in [Rpc!Ids -> Rpc!Endings]
        /\ \A i \in Rpc!Ids : ended[i].how = "none" <=> i = waiting \/ i >= nextId
    BY ClientAssumption DEF Rpc!TypeOK
  <1>2. waiting \in Rpc!Ids /\ waiting < nextId /\ \A i \in Rpc!Ids : i # 0
    BY <1>1 DEF Rpc!Ids
  <1>3. [how |-> how, of |-> id] \in Rpc!Endings
    BY DEF Rpc!Endings
  <1>4. /\ waiting' = 0 /\ ended' \in [Rpc!Ids -> Rpc!Endings]
        /\ \A i \in Rpc!Ids :
              ended'[i] = IF i = waiting THEN [how |-> how, of |-> id] ELSE ended[i]
    BY <1>1, <1>2, <1>3 DEF Rpc!Finish
  <1>5. ASSUME NEW i \in Rpc!Ids PROVE ended'[i].how = "none" <=> i = waiting' \/ i >= nextId
    <2>1. CASE i = waiting
      <3>1. ended'[i].how # "none" /\ ~(i >= nextId)
        BY <1>1, <1>2, <1>4, <2>1
      <3> QED BY <1>2, <1>4, <3>1
    <2>2. CASE i # waiting
      BY <1>1, <1>2, <1>4, <2>2
    <2> QED BY <2>1, <2>2
  <1> QED BY <1>2, <1>4, <1>5

(* The client reads a message, which may be the answer.                    *)
LEMMA ReceiveStep ==
  ASSUME Rpc!IInv, Rpc!Receive
  PROVE  Rpc!IInv'
  <1>0. Rpc!TypeOK /\ Rpc!AnswerIsOwn /\ Rpc!NotificationsKept /\ Rpc!Numbered /\ ExitParts
        /\ Rpc!TimeShape
    BY DEF Rpc!IInv, ExitParts
  <1> DEFINE m == Head(inbox)
  <1>1. /\ UNCHANGED <<client, nextId, clock, deadline, looked, late, unanswered, extras, running,
                       tracked>>
        /\ waiting # 0 /\ ~looked /\ inbox # <<>> /\ inbox' = Tail(inbox) /\ kept' = Rpc!Kept(m)
    BY DEF Rpc!Receive
  <1>2. \/ m.type = "broken" /\ Rpc!Finish("invalid", 0)
        \/ Rpc!IsForUs(m) /\ Rpc!Finish(IF m.type = "nothing" THEN "invalid" ELSE m.type, m.of)
        \/ UNCHANGED <<ended, waiting>>
    BY DEF Rpc!Receive
  <1>3. inbox' \in Seq(Messages) /\ kept' \in Seq(1..MaxExtras)
        /\ Rpc!NotificationsKept' /\ Rpc!Numbered'
    BY <1>1, OldestRead
  <1>4. m \in Messages
    BY <1>0, <1>1, ClientFacts, HeadTailProperties
  <1> HIDE DEF m
  <1>5. \/ UNCHANGED <<ended, waiting>>
        \/ \E how \in {"result", "error", "invalid"}, id \in Rpc!Ids \union {0} :
             /\ Rpc!Finish(how, id)
             /\ how \in {"result", "error"} => id = waiting
    <2>1. CASE Rpc!IsForUs(m) /\ Rpc!Finish(IF m.type = "nothing" THEN "invalid" ELSE m.type, m.of)
      <3>1. m.type \in {"result", "error", "nothing"} /\ m.of = waiting /\ m.of \in Rpc!Ids
        BY <1>4, <2>1, MessageFacts DEF Rpc!IsForUs
      <3>2. CASE m.type = "nothing"
        BY <2>1, <3>1, <3>2
      <3>3. CASE m.type # "nothing"
        BY <2>1, <3>1, <3>3
      <3> QED BY <3>2, <3>3
    <2> QED BY <1>2, <2>1
  <1>6. CASE UNCHANGED <<ended, waiting>>
    <2>1. Rpc!TypeOK'
      BY <1>0, <1>1, <1>3, <1>6
      DEF Rpc!TypeOK, Messages, Rpc!Ids, Rpc!Answers, Rpc!Extras, Rpc!Endings, Rpc!OverPipes
    <2>2. Rpc!AnswerIsOwn' /\ Rpc!TimeShape'
      BY <1>0, <1>1, <1>6 DEF Rpc!AnswerIsOwn, Rpc!TimeShape, Rpc!Ids
    <2>3. ExitParts'
      BY ClientExitParts
    <2> QED BY <1>3, <2>1, <2>2, <2>3 DEF Rpc!IInv, ExitParts
  <1>7. CASE \E how \in {"result", "error", "invalid"}, id \in Rpc!Ids \union {0} :
               /\ Rpc!Finish(how, id)
               /\ how \in {"result", "error"} => id = waiting
    <2>1. PICK how \in {"result", "error", "invalid"}, id \in Rpc!Ids \union {0} :
            /\ Rpc!Finish(how, id)
            /\ how \in {"result", "error"} => id = waiting
      BY <1>7
    <2>2. /\ waiting \in Rpc!Ids /\ waiting' = 0 /\ ended' \in [Rpc!Ids -> Rpc!Endings]
          /\ \A i \in Rpc!Ids :
               ended'[i] = IF i = waiting THEN [how |-> how, of |-> id] ELSE ended[i]
          /\ \A i \in Rpc!Ids : ended'[i].how = "none" <=> i = waiting' \/ i >= nextId
      BY <1>0, <1>1, <2>1, RequestEnds
    <2>3. waiting' \in 0..(nextId - 1)
      BY <1>0, <2>2, ClientAssumption DEF Rpc!TypeOK
    <2>4. Rpc!TypeOK'
      BY <1>0, <1>1, <1>3, <2>2, <2>3
      DEF Rpc!TypeOK, Messages, Rpc!Ids, Rpc!Answers, Rpc!Extras, Rpc!Endings, Rpc!OverPipes
    <2>5. Rpc!AnswerIsOwn'
      BY <1>0, <2>1, <2>2 DEF Rpc!AnswerIsOwn, Rpc!Ids
    <2>6. ExitParts'
      BY ClientExitParts
    <2>7. Rpc!TimeShape'
      BY <1>0, <1>1, <2>2 DEF Rpc!TimeShape
    <2> QED BY <1>3, <2>4, <2>5, <2>6, <2>7 DEF Rpc!IInv, ExitParts
  <1> QED BY <1>5, <1>6, <1>7

(* The deadline passes, or the app-server is seen to be gone.              *)
LEMMA GivesUpStep ==
  ASSUME Rpc!IInv, Rpc!TimesOut \/ Rpc!SeesExit \/ (Rpc!Polls /\ ~running)
  PROVE  Rpc!IInv'
  <1>0. Rpc!TypeOK /\ Rpc!AnswerIsOwn /\ Rpc!NotificationsKept /\ Rpc!Numbered /\ ExitParts
        /\ Rpc!TimeShape
    BY DEF Rpc!IInv, ExitParts
  <1>1. /\ UNCHANGED <<client, nextId, clock, deadline, late, unanswered, inbox, extras, running,
                       tracked, kept>>
        /\ waiting # 0 /\ looked' = FALSE
    BY <1>0 DEF Rpc!TimesOut, Rpc!SeesExit, Rpc!Polls, Rpc!server, Rpc!TypeOK
  <1>2. PICK how \in {"timeout", "exited"} : Rpc!Finish(how, 0)
    BY DEF Rpc!TimesOut, Rpc!SeesExit, Rpc!Polls
  <1>3. /\ waiting \in Rpc!Ids /\ waiting' = 0 /\ ended' \in [Rpc!Ids -> Rpc!Endings]
        /\ \A i \in Rpc!Ids :
              ended'[i] = IF i = waiting THEN [how |-> how, of |-> 0] ELSE ended[i]
        /\ \A i \in Rpc!Ids : ended'[i].how = "none" <=> i = waiting' \/ i >= nextId
    BY <1>0, <1>1, <1>2, RequestEnds
  <1>4. waiting' \in 0..(nextId - 1)
    BY <1>0, <1>3, ClientAssumption DEF Rpc!TypeOK
  <1>5. Rpc!TypeOK'
    BY <1>0, <1>1, <1>3, <1>4
    DEF Rpc!TypeOK, Messages, Rpc!Ids, Rpc!Answers, Rpc!Extras, Rpc!Endings, Rpc!OverPipes
  <1>6. Rpc!AnswerIsOwn'
    BY <1>0, <1>2, <1>3 DEF Rpc!AnswerIsOwn, Rpc!Ids
  <1>7. ExitParts'
    BY ClientExitParts
  <1>8. Rpc!TimeShape'
    BY <1>0, <1>1, <1>3 DEF Rpc!TimeShape
  <1>9. Rpc!NotificationsKept' /\ Rpc!Numbered'
    BY <1>0, <1>1, NothingRead
  <1> QED BY <1>5, <1>6, <1>7, <1>8, <1>9 DEF Rpc!IInv, ExitParts

(* Nothing is there to read, or the child still runs.                      *)
LEMMA LooksStep ==
  ASSUME Rpc!IInv, Rpc!Looks \/ (Rpc!Polls /\ running)
  PROVE  Rpc!IInv'
  <1>0. Rpc!TypeOK /\ Rpc!AnswerIsOwn /\ Rpc!NotificationsKept /\ Rpc!Numbered /\ ExitParts
        /\ Rpc!TimeShape
    BY DEF Rpc!IInv, ExitParts
  <1>1. /\ UNCHANGED <<client, nextId, waiting, clock, deadline, unanswered, inbox, extras, running,
                       tracked, kept, ended>>
        /\ late' \subseteq Rpc!Ids /\ looked' \in BOOLEAN
        /\ looked' => Rpc!OverPipes /\ waiting # 0
    BY <1>0 DEF Rpc!Looks, Rpc!Polls, Rpc!server, Rpc!TypeOK
  <1>2. Rpc!TypeOK'
    BY <1>0, <1>1
    DEF Rpc!TypeOK, Messages, Rpc!Ids, Rpc!Answers, Rpc!Extras, Rpc!Endings, Rpc!OverPipes
  <1>3. Rpc!AnswerIsOwn' /\ Rpc!TimeShape'
    BY <1>0, <1>1 DEF Rpc!AnswerIsOwn, Rpc!TimeShape, Rpc!Ids
  <1>4. Rpc!NotificationsKept' /\ Rpc!Numbered'
    BY <1>0, <1>1, NothingRead
  <1> QED BY <1>2, <1>3, <1>4, ClientExitParts DEF Rpc!IInv, ExitParts

(* Time passes, up to the deadline.                                        *)
LEMMA TickStep ==
  ASSUME Rpc!IInv, Rpc!Tick
  PROVE  Rpc!IInv'
  <1>0. Rpc!TypeOK /\ Rpc!AnswerIsOwn /\ Rpc!NotificationsKept /\ Rpc!Numbered /\ ExitParts
        /\ Rpc!TimeShape
    BY DEF Rpc!IInv, ExitParts
  <1>1. /\ UNCHANGED <<client, nextId, waiting, deadline, looked, late, unanswered, inbox, extras,
                       running, tracked, kept, ended>>
        /\ waiting # 0 /\ clock < deadline /\ clock' = clock + 1
    BY DEF Rpc!Tick, Rpc!server
  <1>2. /\ clock \in Nat /\ deadline \in Nat /\ clock' \in Nat
        /\ Timeout \in Nat /\ nextId \in Nat \ {0}
        /\ clock' <= deadline
    BY <1>0, <1>1, ClientAssumption DEF Rpc!TypeOK
  <1>3. Rpc!TypeOK'
    BY <1>0, <1>1, <1>2
    DEF Rpc!TypeOK, Messages, Rpc!Ids, Rpc!Answers, Rpc!Extras, Rpc!Endings, Rpc!OverPipes
  <1>4. Rpc!AnswerIsOwn' /\ ExitParts'
    BY <1>0, <1>1, ClientExitParts DEF Rpc!AnswerIsOwn, Rpc!Ids
  <1>5. Rpc!TimeShape'
    <2> DEFINE given == Timeout * (nextId - 1)
    <2>1. given \in Nat
      BY <1>2
    <2>2. client # "limitctl" => deadline <= given
      BY <1>0, <1>1 DEF Rpc!TimeShape
    <2>3. client = "limitctl" => deadline = Timeout
      BY <1>0 DEF Rpc!TimeShape
    <2> HIDE DEF given
    <2>4. client # "limitctl" => clock' <= given
      BY <1>2, <2>1, <2>2
    <2>5. client = "limitctl" => clock' <= Timeout
      BY <1>2, <2>3
    <2> QED BY <1>1, <2>2, <2>3, <2>4, <2>5 DEF Rpc!TimeShape, given
  <1>6. Rpc!NotificationsKept' /\ Rpc!Numbered'
    BY <1>0, <1>1, NothingRead
  <1> QED BY <1>3, <1>4, <1>5, <1>6 DEF Rpc!IInv, ExitParts

-----------------------------------------------------------------------------
(* A command that writes the goal. *)

(* At first the command has written nothing.                               *)
LEMMA GoalInit ==
  ASSUME Goal!Init
  PROVE  Goal!IInv
  <1> USE GoalAssumption DEF Goal!Init
  <1>1. goal.id \in {0, 1} /\ goal.of \in {"nobody", "others"}
        /\ goal \in [id : 0..MaxGoals, of : {"nobody", "us", "others"}]
    BY DEF Goal!NoGoal
  <1>2. holds \in 0..LoadedPages /\ (holds # 0 => shared = "up") /\ charged \in 0..MaxGoals
    BY <1>1
  <1>3. Goal!TypeOK
    BY <1>1, <1>2 DEF Goal!TypeOK
  <1>4. Goal!WriteShape /\ Goal!ServerShape
    BY DEF Goal!WriteShape, Goal!ServerShape
  <1>5. Goal!ReplaceShape
    BY <1>1 DEF Goal!ReplaceShape
  <1>6. Goal!HoldShape
    <2>1. steady => holds # 0
      OBVIOUS
    <2>2. holds # 0 => charged = goal.id /\ page <= holds
      BY <1>2
    <2>3. server # "own"
      OBVIOUS
    <2> HIDE DEF Goal!Init
    <2> QED BY <1>2, <2>1, <2>2, <2>3 DEF Goal!HoldShape
  <1> QED BY <1>3, <1>4, <1>5, <1>6 DEF Goal!IInv

(* A goal that is stored is the one there was, or has an id of its own.    *)
LEMMA StoredGoal ==
  ASSUME Goal!TypeOK, goal.id <= made, NEW who \in {"us", "others"}, Goal!StoreGoal(who)
  PROVE  /\ goal' \in [id : 0..MaxGoals, of : {"nobody", "us", "others"}] /\ goal'.of = who
         /\ made' \in made..MaxGoals /\ goal'.id <= made'
         /\ goal'.id = goal.id \/ goal'.id > made
  <1>1. goal \in [id : 0..MaxGoals, of : {"nobody", "us", "others"}] /\ made \in 0..MaxGoals
        /\ MaxGoals \in Nat
    BY GoalAssumption DEF Goal!TypeOK
  <1>2. CASE goal' = [goal EXCEPT !.of = who] /\ made' = made
    BY <1>1, <1>2
  <1>3. CASE made < MaxGoals /\ goal' = [id |-> made + 1, of |-> who] /\ made' = made + 1
    BY <1>1, <1>3
  <1> QED BY <1>2, <1>3 DEF Goal!StoreGoal

(* No goal is left, and the ids given so far stay given.                   *)
LEMMA ClearedGoal ==
  ASSUME Goal!TypeOK, Goal!ClearGoal
  PROVE  /\ goal' \in [id : 0..MaxGoals, of : {"nobody", "us", "others"}] /\ goal'.of = "nobody"
         /\ made' \in made..MaxGoals /\ goal'.id = 0 /\ goal'.id <= made'
  BY GoalAssumption DEF Goal!TypeOK, Goal!ClearGoal, Goal!NoGoal

(* Somebody else makes a goal, edits it or clears it.                      *)
LEMMA GoalOthersStep ==
  ASSUME Goal!IInv, Goal!OthersWrite
  PROVE  Goal!IInv'
  <1>0. Goal!TypeOK /\ Goal!WriteShape /\ Goal!ReplaceShape /\ Goal!ServerShape /\ Goal!HoldShape
    BY DEF Goal!IInv
  <1>1. UNCHANGED <<shared, holds, mail, reply, command, route, step, page, server, written, first,
                    outcome, steady>>
    BY DEF Goal!OthersWrite, Goal!wire, Goal!client
  <1>2. /\ goal' \in [id : 0..MaxGoals, of : {"nobody", "us", "others"}] /\ goal'.of # "us"
        /\ made' \in made..MaxGoals /\ goal'.id <= made'
        /\ goal'.id = goal.id \/ goal'.id > made \/ goal'.id = 0
    BY <1>0, StoredGoal, ClearedGoal DEF Goal!OthersWrite, Goal!ReplaceShape
  <1>3. charged' = IF holds # 0 THEN goal'.id ELSE charged
    BY DEF Goal!OthersWrite, Goal!Charge
  <1>4. charged' \in 0..MaxGoals /\ made' \in 0..MaxGoals
    BY <1>0, <1>2, <1>3, GoalAssumption DEF Goal!TypeOK
  <1>5. Goal!TypeOK'
    BY <1>0, <1>1, <1>2, <1>4 DEF Goal!TypeOK
  <1>6. Goal!WriteShape' /\ Goal!ServerShape'
    BY <1>0, <1>1 DEF Goal!WriteShape, Goal!ServerShape
  <1>7. Goal!ReplaceShape'
    <2>1. goal.id \in Nat /\ goal'.id \in Nat /\ made \in Nat /\ made' \in Nat /\ first \in Nat
          /\ first <= made /\ made <= made'
      BY <1>0, <1>2, <1>4, GoalAssumption DEF Goal!TypeOK, Goal!ReplaceShape
    <2>2. first # 0 /\ goal.id # first => goal'.id # first
      BY <1>2, <2>1
    <2> QED BY <1>0, <1>1, <1>2, <2>1, <2>2 DEF Goal!ReplaceShape
  <1>8. Goal!HoldShape'
    BY <1>0, <1>1, <1>3 DEF Goal!HoldShape
  <1> QED BY <1>5, <1>6, <1>7, <1>8 DEF Goal!IInv

(* Whoever loads or unloads the thread ends what the shared server held.   *)
LEMMA GoalLoadsStep ==
  ASSUME Goal!IInv, Goal!Loads
  PROVE  Goal!IInv'
  <1>0. Goal!TypeOK /\ Goal!WriteShape /\ Goal!ReplaceShape /\ Goal!ServerShape /\ Goal!HoldShape
    BY DEF Goal!IInv
  <1>1. UNCHANGED <<goal, made, shared, mail, reply, command, route, step, page, server, written,
                    first, outcome>> /\ ~steady' /\ steady' \in BOOLEAN
    BY DEF Goal!Loads, Goal!database, Goal!wire, Goal!client
  <1>2. holds' \in 0..LoadedPages /\ charged' \in 0..MaxGoals
    BY <1>0, GoalAssumption DEF Goal!Loads, Goal!TypeOK
  <1>3. Goal!TypeOK'
    BY <1>0, <1>1, <1>2 DEF Goal!TypeOK
  <1>4. Goal!WriteShape' /\ Goal!ServerShape' /\ Goal!ReplaceShape' /\ Goal!HoldShape'
    BY <1>0, <1>1 DEF Goal!WriteShape, Goal!ServerShape, Goal!ReplaceShape, Goal!HoldShape
  <1> QED BY <1>3, <1>4 DEF Goal!IInv

(* The write of the command is carried out, or refused.                    *)
LEMMA GoalServeStep ==
  ASSUME Goal!IInv, Goal!Serve
  PROVE  Goal!IInv'
  <1>0. Goal!TypeOK /\ Goal!WriteShape /\ Goal!ReplaceShape /\ Goal!ServerShape /\ Goal!HoldShape
    BY DEF Goal!IInv
  <1>1. /\ UNCHANGED <<shared, holds, command, route, step, page, server, written, first, outcome,
                       steady>>
        /\ mail \in {"clear", "set"} /\ mail' = "none"
    BY <1>0 DEF Goal!Serve, Goal!client, Goal!TypeOK
  <1>2. \E answer \in {"ok", "error"} :
          reply' = IF step \in {"clearing", "setting"} THEN answer ELSE "none"
    BY DEF Goal!Serve
  <1>3. Goal!WriteShape'
    BY <1>0, <1>1, <1>2 DEF Goal!WriteShape
  <1>4. Goal!ServerShape'
    BY <1>0, <1>1 DEF Goal!ServerShape
  <1>5. CASE UNCHANGED <<goal, made, charged>> /\ reply' # "ok"
    <2>1. Goal!TypeOK'
      BY <1>0, <1>1, <1>2, <1>5 DEF Goal!TypeOK
    <2>2. Goal!ReplaceShape' /\ Goal!HoldShape'
      BY <1>0, <1>1, <1>5 DEF Goal!ReplaceShape, Goal!HoldShape
    <2> QED BY <1>3, <1>4, <2>1, <2>2 DEF Goal!IInv
  <1>6. CASE /\ IF mail = "set" THEN Goal!StoreGoal("us") ELSE Goal!ClearGoal
             /\ Goal!Charge(server)
    <2>1. /\ goal' \in [id : 0..MaxGoals, of : {"nobody", "us", "others"}]
          /\ made' \in made..MaxGoals /\ goal'.id <= made'
          /\ mail = "set" => goal'.id = goal.id \/ goal'.id > made
          /\ mail = "clear" => goal'.id = 0
      BY <1>0, <1>1, <1>6, StoredGoal, ClearedGoal DEF Goal!ReplaceShape
    <2>2. charged' = IF server = "shared" /\ holds # 0 THEN goal'.id ELSE charged
      BY <1>6 DEF Goal!Charge
    <2>3. charged' \in 0..MaxGoals /\ made' \in 0..MaxGoals
      BY <1>0, <2>1, <2>2, GoalAssumption DEF Goal!TypeOK
    <2>4. Goal!TypeOK'
      BY <1>0, <1>1, <1>2, <2>1, <2>3 DEF Goal!TypeOK
    <2>5. Goal!ReplaceShape'
      <3>1. goal.id \in Nat /\ goal'.id \in Nat /\ made \in Nat /\ made' \in Nat /\ first \in Nat
            /\ first <= made /\ made <= made'
        BY <1>0, <2>1, <2>3, GoalAssumption DEF Goal!TypeOK, Goal!ReplaceShape
      <3>2. command = "replace" /\ first # 0 => goal'.id # first
        BY <1>0, <1>1, <2>1, <3>1 DEF Goal!ReplaceShape
      <3> QED BY <1>1, <2>1, <3>1, <3>2 DEF Goal!ReplaceShape
    <2>6. Goal!HoldShape'
      BY <1>0, <1>1, <2>2 DEF Goal!HoldShape, Goal!ServerShape, Goal!TypeOK
    <2> QED BY <1>3, <1>4, <2>4, <2>5, <2>6 DEF Goal!IInv
  <1> QED BY <1>5, <1>6 DEF Goal!Serve, Goal!database

(* The choice of the app-server.                                           *)
LEMMA GoalConnectStep ==
  ASSUME Goal!IInv, Goal!Connect \/ Goal!ReadLoadedPage
  PROVE  Goal!IInv'
  <1>0. Goal!TypeOK /\ Goal!WriteShape /\ Goal!ReplaceShape /\ Goal!ServerShape /\ Goal!HoldShape
    BY DEF Goal!IInv
  <1>1. /\ UNCHANGED <<goal, made, shared, holds, charged, mail, reply, command, route, first,
                       written, steady>>
        /\ step \in {"connect", "loadedList"} /\ written = {} /\ mail = "none" /\ reply = "none"
        /\ outcome = "none"
    BY <1>0 DEF Goal!Connect, Goal!ReadLoadedPage, Goal!database, Goal!sharedServer, Goal!wire,
                Goal!request, Goal!ServerShape, Goal!WriteShape, Goal!TypeOK
  <1>2. /\ page' \in 1..LoadedPages /\ server' \in {"none", "shared", "own"}
        /\ \/ /\ step' \in {"loadedList", "set", "clear"} /\ outcome' = "none"
              /\ step' = "set" => command = "update"
           \/ step' = "done" /\ outcome' = "failed"
    BY <1>0, <1>1, GoalAssumption
    DEF Goal!Connect, Goal!ReadLoadedPage, Goal!Operate, Goal!Goto, Goal!End, Goal!Found,
        Goal!TypeOK
  <1>3. Goal!TypeOK'
    BY <1>0, <1>1, <1>2 DEF Goal!TypeOK
  <1>4. Goal!WriteShape' /\ Goal!ReplaceShape'
    BY <1>0, <1>1, <1>2 DEF Goal!WriteShape, Goal!ReplaceShape
  <1>5. Goal!ServerShape'
    BY <1>0, <1>1, <1>2
    DEF Goal!Connect, Goal!ReadLoadedPage, Goal!Operate, Goal!Goto, Goal!End, Goal!MayStartOwn,
        Goal!ServerShape
  <1>6. Goal!HoldShape'
    <2>1. holds \in 0..LoadedPages /\ page \in 1..LoadedPages
      BY <1>0 DEF Goal!TypeOK
    <2> QED BY <1>0, <1>1, <1>2, <2>1, GoalAssumption
        DEF Goal!Connect, Goal!ReadLoadedPage, Goal!Operate, Goal!Goto, Goal!End, Goal!MayStartOwn,
            Goal!Found, Goal!HoldShape, Goal!ServerShape
  <1> QED BY <1>3, <1>4, <1>5, <1>6 DEF Goal!IInv

(* The command sends a write to the server it is connected to.             *)
LEMMA GoalWriteStep ==
  ASSUME Goal!IInv,
         Goal!Write("clear", "clear", "clearing") \/ Goal!Write("set", "set", "setting")
  PROVE  Goal!IInv'
  <1>0. Goal!TypeOK /\ Goal!WriteShape /\ Goal!ReplaceShape /\ Goal!ServerShape /\ Goal!HoldShape
    BY DEF Goal!IInv
  <1>1. /\ UNCHANGED <<goal, made, shared, holds, charged, reply, command, route, first, page,
                       server, steady, outcome>>
        /\ \/ step = "clear" /\ step' = "clearing" /\ mail' = "clear"
           \/ step = "set" /\ step' = "setting" /\ mail' = "set"
        /\ written' = written \union {server}
    BY DEF Goal!Write, Goal!Goto, Goal!database, Goal!sharedServer, Goal!request
  <1>2. server \in {"shared", "own"} /\ reply = "none" /\ outcome = "none"
    BY <1>0, <1>1 DEF Goal!ServerShape, Goal!WriteShape, Goal!TypeOK
  <1>3. Goal!TypeOK'
    BY <1>0, <1>1, <1>2 DEF Goal!TypeOK
  <1>4. Goal!WriteShape' /\ Goal!ReplaceShape' /\ Goal!ServerShape' /\ Goal!HoldShape'
    BY <1>0, <1>1, <1>2 DEF Goal!WriteShape, Goal!ReplaceShape, Goal!ServerShape, Goal!HoldShape
  <1> QED BY <1>3, <1>4 DEF Goal!IInv

(* The answer comes, or the client stops waiting for it.                   *)
LEMMA GoalAnswerStep ==
  ASSUME Goal!IInv, Goal!Cleared \/ Goal!WasSet \/ Goal!Fails
  PROVE  Goal!IInv'
  <1>0. Goal!TypeOK /\ Goal!WriteShape /\ Goal!ReplaceShape /\ Goal!ServerShape /\ Goal!HoldShape
    BY DEF Goal!IInv
  <1>1. /\ UNCHANGED <<goal, made, shared, holds, charged, mail, command, route, first, page,
                       server, written, steady>>
        /\ step # "done" /\ outcome = "none" /\ reply' = "none"
    BY <1>0 DEF Goal!Cleared, Goal!WasSet, Goal!Fails, Goal!database, Goal!sharedServer,
                Goal!request, Goal!TypeOK
  <1>2. \/ step' = "done" /\ outcome' \in {"ok", "failed", "died"}
        \/ /\ step = "clearing" /\ reply = "ok" /\ command = "replace"
           /\ step' = "set" /\ outcome' = "none"
    BY <1>1 DEF Goal!Cleared, Goal!WasSet, Goal!Fails, Goal!AfterClear, Goal!Goto, Goal!End
  <1>3. Goal!TypeOK'
    BY <1>0, <1>1, <1>2 DEF Goal!TypeOK
  <1>4. Goal!WriteShape' /\ Goal!ReplaceShape' /\ Goal!ServerShape' /\ Goal!HoldShape'
    BY <1>0, <1>1, <1>2 DEF Goal!WriteShape, Goal!ReplaceShape, Goal!ServerShape, Goal!HoldShape
  <1> QED BY <1>3, <1>4 DEF Goal!IInv

-----------------------------------------------------------------------------
(* Injectors of memories. *)

(* How often a batch names a memory: not at all if it is not asked for,    *)
(* and once if the batch repeats nothing.                                  *)
LEMMA InjectTimes ==
  ASSUME NEW o \in Inject!Options, NEW m \in Memories
  PROVE  /\ Inject!Times(m, o.batch) \in Nat
         /\ Inject!Times(m, o.batch) > 0 => \E i \in DOMAIN o.batch : o.batch[i] = m
         /\ Inject!BatchAllowed(o) /\ ~o.allowDuplicate => Inject!Times(m, o.batch) <= 1
  <1> DEFINE places == {i \in DOMAIN o.batch : o.batch[i] = m}
  <1>1. PICK n \in 1..2 : o.batch \in [1..n -> Memories]
    BY DEF Inject!Options
  <1>2. IsFiniteSet(places) /\ Cardinality(places) \in Nat
    <2>1. IsFiniteSet(1..n)
      <3>1. 1 \in Int /\ n \in Int
        OBVIOUS
      <3> HIDE DEF places
      <3> QED BY ONLY <3>1, FS_Interval
    <2>2. places \subseteq 1..n
      BY <1>1
    <2> QED BY <2>1, <2>2, FS_Subset, FS_CardinalityType
  <1>3. Inject!Times(m, o.batch) = Cardinality(places)
    BY DEF Inject!Times, Inject!Cardinality, Cardinality
  <1>4. Cardinality(places) > 0 => places # {}
    BY FS_EmptySet
  <1>5. ASSUME Inject!BatchAllowed(o), ~o.allowDuplicate
        PROVE  Cardinality(places) <= 1
    <2>1. \A i, j \in places : i = j
      BY <1>5 DEF Inject!BatchAllowed
    <2>2. CASE places = {}
      BY <2>2, FS_EmptySet
    <2>3. CASE places # {}
      <3>1. PICK i \in places : TRUE
        BY <2>3
      <3>2. places = {i}
        BY <2>1, <3>1
      <3>3. Cardinality({i}) = 1
        BY FS_Singleton
      <3> HIDE DEF places
      <3> QED BY <3>2, <3>3
    <2> QED BY <2>2, <2>3
  <1> QED BY <1>2, <1>3, <1>4, <1>5

(* The parts of the invariant.                                             *)
LEMMA InjectFacts ==
  ASSUME Inject!IInv
  PROVE  /\ Inject!TypeOK /\ Inject!RequestShape /\ Inject!AllowedShape /\ Inject!MissedShape
         /\ Inject!RepeatHasCause /\ Inject!SentAsPromised /\ Inject!RefusedMeansUnsent
  BY DEF Inject!IInv

(* At first no injector has asked for anything.                            *)
LEMMA InjectInit ==
  ASSUME Inject!Init
  PROVE  Inject!IInv
  <1> USE InjectAssumption DEF Inject!Init
  <1>1. /\ \A c \in Injectors : /\ step[c] = "options" /\ outcome[c] = "none"
                                /\ mail[c] = "none" /\ reply[c] = "none"
                                /\ sent[c] = Inject!NothingSent
        /\ \A m \in Memories : shown[m] \in {0, 1}
        /\ arrived = {}
    OBVIOUS
  <1>2. Inject!TypeOK
    <2>1. /\ loaded \in BOOLEAN /\ active \in BOOLEAN /\ turned \in BOOLEAN
          /\ shown \in [Memories -> Nat] /\ onDisk \subseteq Memories
          /\ readable \in BOOLEAN
      OBVIOUS
    <2>2. /\ mail \in [Injectors -> {"none", "inject"}]
          /\ reply \in [Injectors -> {"none", "ok", "error"}]
          /\ opts \in [Injectors -> Inject!Options]
      OBVIOUS
    <2>3. /\ step \in [Injectors -> {"options", "loaded", "turns", "source", "bind", "look",
                                     "send", "waiting", "done"}]
          /\ outcome \in [Injectors -> {"none", "accepted", "preview", "refused", "uncertain"}]
      OBVIOUS
    <2>4. /\ sent \in [Injectors -> Inject!Requests \union {Inject!NothingSent}]
          /\ arrived \subseteq Injectors /\ behind \in [Injectors -> SUBSET Memories]
          /\ excused \subseteq Memories
      OBVIOUS
    <2> HIDE DEF Inject!Init
    <2> QED BY <1>1, <2>1, <2>2, <2>3, <2>4 DEF Inject!TypeOK
  <1> HIDE DEF Inject!Init
  <1>3. Inject!RequestShape /\ Inject!AllowedShape /\ Inject!MissedShape
    BY <1>1 DEF Inject!RequestShape, Inject!AllowedShape, Inject!MissedShape
  <1>4. Inject!RepeatHasCause /\ Inject!SentAsPromised /\ Inject!RefusedMeansUnsent
    BY <1>1 DEF Inject!RepeatHasCause, Inject!SentAsPromised, Inject!RefusedMeansUnsent
  <1> QED BY <1>2, <1>3, <1>4 DEF Inject!IInv

(* Turns, compactions and writes to the disk put no memory into the        *)
(* thread.                                                                 *)
LEMMA InjectWorldStep ==
  ASSUME Inject!IInv,
         Inject!TurnChanges \/ Inject!Unloads \/ Inject!Compacts \/ Inject!Flushes
  PROVE  Inject!IInv'
  <1>0. /\ Inject!TypeOK /\ Inject!RequestShape /\ Inject!AllowedShape /\ Inject!MissedShape
        /\ Inject!RepeatHasCause /\ Inject!SentAsPromised /\ Inject!RefusedMeansUnsent
    BY InjectFacts
  <1>1. UNCHANGED <<readable, mail, reply, opts, step, outcome, sent, arrived, behind, excused>>
    BY DEF Inject!TurnChanges, Inject!Unloads, Inject!Compacts, Inject!Flushes, Inject!clients,
           Inject!ghost
  <1>2. /\ shown' \in [Memories -> Nat] /\ onDisk' \subseteq Memories
        /\ \A m \in Memories : shown'[m] = shown[m]
                               \/ (shown'[m] \in {0, 1} /\ (shown'[m] > 0 => shown[m] > 0))
    <2>1. CASE Inject!TurnChanges \/ Inject!Unloads \/ Inject!Flushes
      BY <1>0, <2>1 DEF Inject!TypeOK, Inject!TurnChanges, Inject!Unloads, Inject!Flushes
    <2>2. CASE Inject!Compacts
      BY <1>0, <2>2 DEF Inject!TypeOK, Inject!Compacts
    <2> QED BY <2>1, <2>2
  <1>3. loaded' \in BOOLEAN /\ active' \in BOOLEAN /\ turned' \in BOOLEAN
    BY <1>0 DEF Inject!TypeOK, Inject!TurnChanges, Inject!Unloads, Inject!Compacts, Inject!Flushes
  <1>4. Inject!TypeOK'
    BY <1>0, <1>1, <1>2, <1>3
    DEF Inject!TypeOK, Inject!Options, Inject!Requests, Inject!NothingSent, Inject!Unset
  <1>5. Inject!RequestShape' /\ Inject!SentAsPromised' /\ Inject!RefusedMeansUnsent'
    BY <1>0, <1>1
    DEF Inject!RequestShape, Inject!SentAsPromised, Inject!RefusedMeansUnsent,
        Inject!NothingSent
  <1>6. Inject!AllowedShape'
    BY <1>0, <1>1
    DEF Inject!AllowedShape, Inject!OptionsAllowed, Inject!SourceAllowed, Inject!BatchAllowed,
        Inject!ScopeAllowed, Inject!ScopeOf, Inject!Unset
  <1>7. Inject!MissedShape'
    <2> SUFFICES ASSUME NEW c \in Injectors, step[c] = "send" \/ mail[c] = "inject",
                        ~opts[c].allowDuplicate, NEW m \in Inject!Requested(c), shown'[m] > 0
                 PROVE  m \in behind[c]
      BY <1>1 DEF Inject!MissedShape, Inject!Requested
    <2>1. m \in Memories
      BY <1>0 DEF Inject!TypeOK, Inject!Options, Inject!Requested
    <2>2. shown[m] > 0
      BY <1>2, <2>1
    <2> QED BY <1>0, <2>2 DEF Inject!MissedShape
  <1>8. Inject!RepeatHasCause'
    BY <1>0, <1>1, <1>2 DEF Inject!RepeatHasCause
  <1> QED BY <1>4, <1>5, <1>6, <1>7, <1>8 DEF Inject!IInv

(* The app-server answers a request, with an error or having carried it    *)
(* out.                                                                    *)
LEMMA InjectAnswerStep ==
  ASSUME Inject!IInv, NEW c \in Injectors, Inject!ServeInject(c) \/ Inject!Refuse(c)
  PROVE  Inject!IInv'
  <1>0. /\ Inject!TypeOK /\ Inject!RequestShape /\ Inject!AllowedShape /\ Inject!MissedShape
        /\ Inject!RepeatHasCause /\ Inject!SentAsPromised /\ Inject!RefusedMeansUnsent
    BY InjectFacts
  <1>1. /\ mail[c] = "inject"
        /\ mail' = [mail EXCEPT ![c] = "none"]
        /\ UNCHANGED <<loaded, active, turned, onDisk, readable, opts, step, outcome, sent>>
    BY DEF Inject!ServeInject, Inject!Refuse, Inject!Answer, Inject!clients, Inject!world
  <1>2. PICK answer \in {"ok", "error"} :
          /\ reply' = [reply EXCEPT ![c] = IF step[c] = "waiting" THEN answer ELSE "none"]
          /\ IF answer = "ok" THEN Inject!ServeInject(c)
             ELSE UNCHANGED <<shown, arrived, behind, excused>>
    BY DEF Inject!ServeInject, Inject!Refuse, Inject!Answer, Inject!world, Inject!ghost
  <1>3. /\ mail'[c] = "none" /\ reply'[c] = IF step[c] = "waiting" THEN answer ELSE "none"
        /\ \A d \in Injectors : d # c => mail'[d] = mail[d] /\ reply'[d] = reply[d]
        /\ mail' \in [Injectors -> {"none", "inject"}]
        /\ reply' \in [Injectors -> {"none", "ok", "error"}]
    BY <1>0, <1>1, <1>2 DEF Inject!TypeOK
  <1>4. /\ \A m \in Memories :
             /\ Inject!Times(m, opts[c].batch) \in Nat
             /\ Inject!Times(m, opts[c].batch) > 0 => m \in Inject!Requested(c)
             /\ ~opts[c].allowDuplicate => Inject!Times(m, opts[c].batch) <= 1
        /\ Inject!Requested(c) \subseteq Memories
    <2>1. opts[c] \in Inject!Options
      BY <1>0 DEF Inject!TypeOK
    <2>2. Inject!BatchAllowed(opts[c])
      BY <1>0, <1>1 DEF Inject!AllowedShape
    <2>3. Inject!Requested(c) \subseteq Memories
      BY <2>1 DEF Inject!Options, Inject!Requested
    <2> QED BY <2>1, <2>2, <2>3, InjectTimes DEF Inject!Requested
  <1>5. ASSUME answer = "ok"
        PROVE  /\ \A m \in Memories :
                    shown'[m] = shown[m] + Inject!Times(m, opts[c].batch)
               /\ arrived' = arrived \union {c}
               /\ \A d \in Injectors : behind'[d] = behind[d] \union Inject!Requested(c)
               /\ opts[c].allowDuplicate => Memories \subseteq excused'
               /\ ~opts[c].allowDuplicate => excused' = excused \union behind[c]
               /\ excused \subseteq excused'
               /\ shown' \in [Memories -> Nat] /\ behind' \in [Injectors -> SUBSET Memories]
               /\ excused' \subseteq Memories
    <2>1. Inject!ServeInject(c)
      BY <1>2, <1>5
    <2>2. shown' = [m \in Memories |-> shown[m] + Inject!Times(m, opts[c].batch)]
      BY <2>1 DEF Inject!ServeInject
    <2>3. \A m \in Memories : shown[m] \in Nat
      BY <1>0 DEF Inject!TypeOK
    <2>4. /\ \A m \in Memories : shown'[m] = shown[m] + Inject!Times(m, opts[c].batch)
          /\ shown' \in [Memories -> Nat]
      <3>1. \A m \in Memories : shown[m] + Inject!Times(m, opts[c].batch) \in Nat
        BY <1>4, <2>3
      <3> QED BY <2>2, <3>1
    <2>5. behind' = [d \in Injectors |-> behind[d] \union Inject!Requested(c)]
      BY <2>1 DEF Inject!ServeInject
    <2>6. /\ behind \in [Injectors -> SUBSET Memories]
          /\ excused \subseteq Memories
      BY <1>0 DEF Inject!TypeOK
    <2>7. /\ \A d \in Injectors : behind'[d] = behind[d] \union Inject!Requested(c)
          /\ behind' \in [Injectors -> SUBSET Memories]
      BY <1>4, <2>5, <2>6
    <2>8. /\ arrived' = arrived \union {c}
          /\ excused' = excused \union (IF opts[c].allowDuplicate THEN Memories ELSE behind[c])
      BY <2>1 DEF Inject!ServeInject
    <2> QED BY <2>4, <2>6, <2>7, <2>8
  <1>6. ASSUME answer # "ok"
        PROVE  UNCHANGED <<shown, arrived, behind, excused>>
    BY <1>2, <1>6
  <1>7. Inject!TypeOK'
    <2>1. /\ shown' \in [Memories -> Nat] /\ behind' \in [Injectors -> SUBSET Memories]
          /\ excused' \subseteq Memories /\ arrived' \subseteq Injectors
      BY <1>0, <1>5, <1>6 DEF Inject!TypeOK
    <2> QED BY <1>0, <1>1, <1>3, <2>1
        DEF Inject!TypeOK, Inject!Options, Inject!Requests, Inject!NothingSent, Inject!Unset
  <1>8. Inject!RequestShape'
    <2> SUFFICES ASSUME NEW d \in Injectors
                 PROVE  /\ step[d] \notin {"waiting", "done"} =>
                             mail'[d] = "none" /\ d \notin arrived'
                        /\ step[d] = "waiting" => (mail'[d] = "none" <=> reply'[d] # "none")
                        /\ reply'[d] # "none" => step[d] = "waiting"
                        /\ mail'[d] = "inject" \/ reply'[d] = "error" => d \notin arrived'
      BY <1>1 DEF Inject!RequestShape
    <2>1. d \in arrived' => d \in arrived \/ (d = c /\ answer = "ok")
      BY <1>5, <1>6
    <2>2. step[c] \in {"waiting", "done"} /\ c \notin arrived
      BY <1>0, <1>1 DEF Inject!RequestShape
    <2>3. CASE d = c
      BY <1>3, <2>1, <2>2, <2>3
    <2>4. CASE d # c
      BY <1>0, <1>3, <2>1, <2>4 DEF Inject!RequestShape
    <2> QED BY <2>3, <2>4
  <1>9. Inject!AllowedShape'
    <2>1. \A d \in Injectors : mail'[d] = "inject" => mail[d] = "inject"
      BY <1>3
    <2> QED BY <1>0, <1>1, <2>1
        DEF Inject!AllowedShape, Inject!OptionsAllowed, Inject!SourceAllowed,
            Inject!BatchAllowed, Inject!ScopeAllowed, Inject!ScopeOf, Inject!Unset
  <1>10. Inject!MissedShape'
    <2> SUFFICES ASSUME NEW d \in Injectors, step[d] = "send" \/ mail'[d] = "inject",
                        ~opts[d].allowDuplicate, NEW m \in Inject!Requested(d), shown'[m] > 0
                 PROVE  m \in behind'[d]
      BY <1>1 DEF Inject!MissedShape, Inject!Requested
    <2>1. step[d] = "send" \/ mail[d] = "inject"
      BY <1>3
    <2>2. m \in Memories
      BY <1>0 DEF Inject!TypeOK, Inject!Options, Inject!Requested
    <2>3. shown[m] > 0 => m \in behind[d]
      BY <1>0, <2>1 DEF Inject!MissedShape
    <2>4. shown[m] \in Nat
      BY <1>0, <2>2 DEF Inject!TypeOK
    <2>5. CASE answer = "ok"
      <3>1. shown[m] > 0 \/ m \in Inject!Requested(c)
        BY <1>4, <1>5, <2>2, <2>4, <2>5
      <3> QED BY <1>5, <2>3, <2>5, <3>1
    <2>6. CASE answer # "ok"
      BY <1>6, <2>3, <2>6
    <2> QED BY <2>5, <2>6
  <1>11. Inject!RepeatHasCause'
    <2> SUFFICES ASSUME NEW m \in Memories, shown'[m] > 1
                 PROVE  m \in excused'
      BY DEF Inject!RepeatHasCause
    <2>1. shown[m] > 1 => m \in excused
      BY <1>0 DEF Inject!RepeatHasCause
    <2>2. shown[m] \in Nat
      BY <1>0 DEF Inject!TypeOK
    <2>3. CASE answer = "ok" /\ opts[c].allowDuplicate
      BY <1>5, <2>3
    <2>4. CASE answer = "ok" /\ ~opts[c].allowDuplicate
      <3>1. m \in excused \/ (shown[m] > 0 /\ m \in Inject!Requested(c))
        BY <1>4, <1>5, <2>1, <2>2, <2>4
      <3>2. shown[m] > 0 /\ m \in Inject!Requested(c) => m \in behind[c]
        BY <1>0, <1>1, <2>4 DEF Inject!MissedShape
      <3> QED BY <1>5, <2>4, <3>1, <3>2
    <2>5. CASE answer # "ok"
      BY <1>6, <2>1, <2>5
    <2> QED BY <2>3, <2>4, <2>5
  <1>12. Inject!SentAsPromised'
    BY <1>0, <1>1 DEF Inject!SentAsPromised, Inject!NothingSent
  <1>13. Inject!RefusedMeansUnsent'
    <2> SUFFICES ASSUME NEW d \in Injectors, outcome[d] \in {"refused", "preview"}
                 PROVE  d \notin arrived' /\ mail'[d] = "none"
      BY <1>1 DEF Inject!RefusedMeansUnsent
    <2>1. d \notin arrived /\ mail[d] = "none"
      BY <1>0 DEF Inject!RefusedMeansUnsent
    <2>2. d # c
      BY <1>1, <2>1
    <2> QED BY <1>3, <1>5, <1>6, <2>1, <2>2
  <1> QED BY <1>7, <1>8, <1>9, <1>10, <1>11, <1>12, <1>13 DEF Inject!IInv

(* What the steps of an injector leave to be shown, when the thread and    *)
(* what is remembered of it stay as they are: its own part.                *)
InjectorStep(c) ==
  /\ UNCHANGED <<loaded, active, turned, shown, onDisk, readable, opts, arrived, excused>>
  /\ mail' \in [Injectors -> {"none", "inject"}]
  /\ reply' \in [Injectors -> {"none", "ok", "error"}]
  /\ step' \in [Injectors -> {"options", "loaded", "turns", "source", "bind", "look", "send",
                              "waiting", "done"}]
  /\ outcome' \in [Injectors -> {"none", "accepted", "preview", "refused", "uncertain"}]
  /\ sent' \in [Injectors -> Inject!Requests \union {Inject!NothingSent}]
  /\ behind' \in [Injectors -> SUBSET Memories]
  /\ \A d \in Injectors : d # c =>
       /\ mail'[d] = mail[d] /\ reply'[d] = reply[d] /\ step'[d] = step[d]
       /\ outcome'[d] = outcome[d] /\ sent'[d] = sent[d] /\ behind'[d] = behind[d]
  /\ step'[c] = "done" <=> outcome'[c] # "none"
  /\ step'[c] \notin {"waiting", "done"} => mail'[c] = "none" /\ c \notin arrived
  /\ step'[c] = "waiting" => (mail'[c] = "none" <=> reply'[c] # "none")
  /\ reply'[c] # "none" => step'[c] = "waiting"
  /\ mail'[c] = "inject" \/ reply'[c] = "error" => c \notin arrived
  /\ step'[c] \in {"loaded", "turns", "source", "bind", "look", "send", "waiting"} =>
       Inject!OptionsAllowed(opts[c])
  /\ step'[c] \in {"bind", "look", "send", "waiting"} \/ mail'[c] = "inject" =>
       Inject!SourceAllowed(opts[c]) /\ Inject!BatchAllowed(opts[c]) /\ Inject!ScopeAllowed(opts[c])
  /\ (step'[c] = "send" \/ mail'[c] = "inject") /\ ~opts[c].allowDuplicate =>
       \A m \in Inject!Requested(c) : shown[m] > 0 => m \in behind'[c]
  /\ sent'[c] = sent[c] \/
       IF sent'[c].scope = "checkpoint"
         THEN ~sent'[c].framed /\ sent'[c].binding = "source" /\ ~opts[c].purpose /\ ~opts[c].self
         ELSE /\ opts[c].purpose \/ opts[c].self => sent'[c].framed
              /\ opts[c].self => sent'[c].binding = "current"
  /\ outcome'[c] \in {"refused", "preview"} => c \notin arrived /\ mail'[c] = "none"

(* An injector that keeps to its own part keeps the invariant.             *)
LEMMA InjectOwnPart ==
  ASSUME Inject!IInv, NEW c \in Injectors, InjectorStep(c)
  PROVE  Inject!IInv'
  <1>0. /\ Inject!TypeOK /\ Inject!RequestShape /\ Inject!AllowedShape /\ Inject!MissedShape
        /\ Inject!RepeatHasCause /\ Inject!SentAsPromised /\ Inject!RefusedMeansUnsent
    BY InjectFacts
  <1> USE DEF InjectorStep
  <1>1. Inject!TypeOK'
    <2>1. \A d \in Injectors : step'[d] = "done" <=> outcome'[d] # "none"
      BY <1>0 DEF Inject!TypeOK
    <2> QED BY <1>0, <2>1
        DEF Inject!TypeOK, Inject!Options, Inject!Requests, Inject!NothingSent, Inject!Unset
  <1>2. Inject!RequestShape'
    BY <1>0 DEF Inject!RequestShape
  <1>3. Inject!AllowedShape'
    <2> SUFFICES ASSUME NEW d \in Injectors
                 PROVE
                   /\ step'[d] \in {"loaded", "turns", "source", "bind", "look", "send", "waiting"}
                        => Inject!OptionsAllowed(opts[d])
                   /\ step'[d] \in {"bind", "look", "send", "waiting"} \/ mail'[d] = "inject" =>
                        /\ Inject!SourceAllowed(opts[d]) /\ Inject!BatchAllowed(opts[d])
                        /\ Inject!ScopeAllowed(opts[d])
      BY DEF Inject!AllowedShape, Inject!OptionsAllowed, Inject!SourceAllowed,
             Inject!BatchAllowed, Inject!ScopeAllowed, Inject!ScopeOf, Inject!Unset
    <2> QED BY <1>0 DEF Inject!AllowedShape
  <1>4. Inject!MissedShape'
    <2> SUFFICES ASSUME NEW d \in Injectors, step'[d] = "send" \/ mail'[d] = "inject",
                        ~opts[d].allowDuplicate, NEW m \in Inject!Requested(d), shown[m] > 0
                 PROVE  m \in behind'[d]
      BY DEF Inject!MissedShape, Inject!Requested
    <2> QED BY <1>0 DEF Inject!MissedShape
  <1>5. Inject!RepeatHasCause'
    BY <1>0 DEF Inject!RepeatHasCause
  <1>6. Inject!SentAsPromised'
    <2> SUFFICES ASSUME NEW d \in Injectors, sent'[d] # Inject!NothingSent
                 PROVE
                   IF sent'[d].scope = "checkpoint"
                     THEN /\ ~sent'[d].framed /\ sent'[d].binding = "source"
                          /\ ~opts[d].purpose /\ ~opts[d].self
                     ELSE /\ opts[d].purpose \/ opts[d].self => sent'[d].framed
                          /\ opts[d].self => sent'[d].binding = "current"
      BY DEF Inject!SentAsPromised, Inject!NothingSent
    <2>1. CASE sent'[d] = sent[d]
      BY <1>0, <2>1 DEF Inject!SentAsPromised
    <2>2. CASE sent'[d] # sent[d]
      <3>1. d = c
        BY <2>2
      <3> QED BY <2>2, <3>1
    <2> QED BY <2>1, <2>2
  <1>7. Inject!RefusedMeansUnsent'
    BY <1>0 DEF Inject!RefusedMeansUnsent
  <1> QED BY <1>1, <1>2, <1>3, <1>4, <1>5, <1>6, <1>7 DEF Inject!IInv

(* An injector checks something: its options, the thread, its source.      *)
LEMMA InjectCheckStep ==
  ASSUME Inject!IInv, NEW c \in Injectors,
         \/ Inject!CheckOptions(c) \/ Inject!CheckLoaded(c) \/ Inject!CheckTurns(c)
         \/ Inject!ReadSource(c) \/ Inject!Bind(c)
  PROVE  Inject!IInv'
  <1>0. Inject!TypeOK /\ Inject!RequestShape /\ Inject!AllowedShape
    BY InjectFacts
  <1>1. /\ step[c] \in {"options", "loaded", "turns", "source", "bind"}
        /\ UNCHANGED <<loaded, active, turned, shown, onDisk, readable, mail, reply, opts, sent,
                       arrived, behind, excused>>
        /\ \/ \E next \in {"loaded", "turns", "source", "bind", "look"} :
                /\ step' = [step EXCEPT ![c] = next] /\ outcome' = outcome
                /\ Inject!OptionsAllowed(opts[c])
                /\ next \in {"bind", "look"} =>
                     /\ Inject!SourceAllowed(opts[c]) /\ Inject!BatchAllowed(opts[c])
                     /\ Inject!ScopeAllowed(opts[c])
           \/ step' = [step EXCEPT ![c] = "done"] /\ outcome' = [outcome EXCEPT ![c] = "refused"]
    <2> USE DEF Inject!Step, Inject!Goto, Inject!End, Inject!world, Inject!ghost
    <2>1. CASE Inject!CheckOptions(c)
      BY <2>1 DEF Inject!CheckOptions
    <2>2. CASE Inject!CheckLoaded(c)
      BY <1>0, <2>2 DEF Inject!CheckLoaded, Inject!AllowedShape
    <2>3. CASE Inject!CheckTurns(c)
      BY <1>0, <2>3 DEF Inject!CheckTurns, Inject!AllowedShape
    <2>4. CASE Inject!ReadSource(c)
      BY <1>0, <2>4 DEF Inject!ReadSource, Inject!AllowedShape
    <2>5. CASE Inject!Bind(c)
      BY <1>0, <2>5 DEF Inject!Bind, Inject!AllowedShape
    <2> QED BY <2>1, <2>2, <2>3, <2>4, <2>5
  <1>2. /\ mail[c] = "none" /\ reply[c] = "none" /\ c \notin arrived /\ outcome[c] = "none"
    BY <1>0, <1>1 DEF Inject!RequestShape, Inject!TypeOK
  <1>3. InjectorStep(c)
    <2>1. CASE step' = [step EXCEPT ![c] = "done"] /\ outcome' = [outcome EXCEPT ![c] = "refused"]
      BY <1>0, <1>1, <1>2, <2>1 DEF InjectorStep, Inject!TypeOK
    <2>2. ASSUME NEW next \in {"loaded", "turns", "source", "bind", "look"},
                 step' = [step EXCEPT ![c] = next] /\ outcome' = outcome,
                 Inject!OptionsAllowed(opts[c]),
                 next \in {"bind", "look"} =>
                   /\ Inject!SourceAllowed(opts[c]) /\ Inject!BatchAllowed(opts[c])
                   /\ Inject!ScopeAllowed(opts[c])
          PROVE  InjectorStep(c)
      BY <1>0, <1>1, <1>2, <2>2 DEF InjectorStep, Inject!TypeOK
    <2> QED BY <1>1, <2>1, <2>2
  <1> QED BY <1>3, InjectOwnPart

(* An injector looks for its memories in the rollout.                      *)
LEMMA InjectLookStep ==
  ASSUME Inject!IInv, NEW c \in Injectors, Inject!LookForDuplicates(c)
  PROVE  Inject!IInv'
  <1>0. Inject!TypeOK /\ Inject!RequestShape /\ Inject!AllowedShape
    BY InjectFacts
  <1> DEFINE missed == {m \in Memories : shown[m] > 0} \ Inject!Seen
  <1>1. /\ step[c] = "look"
        /\ behind' = [behind EXCEPT ![c] = missed]
        /\ UNCHANGED <<loaded, active, turned, shown, onDisk, readable, mail, reply, opts, sent,
                       arrived, excused>>
        /\ \/ \E how \in {"refused", "preview"} :
                step' = [step EXCEPT ![c] = "done"] /\ outcome' = [outcome EXCEPT ![c] = how]
           \/ /\ step' = [step EXCEPT ![c] = "send"] /\ outcome' = outcome
              /\ Inject!Known(c) = {} \/ opts[c].allowDuplicate
    BY DEF Inject!LookForDuplicates, Inject!Goto, Inject!End, Inject!world
  <1>2. /\ mail[c] = "none" /\ reply[c] = "none" /\ c \notin arrived /\ outcome[c] = "none"
        /\ Inject!OptionsAllowed(opts[c]) /\ Inject!SourceAllowed(opts[c])
        /\ Inject!BatchAllowed(opts[c]) /\ Inject!ScopeAllowed(opts[c])
    BY <1>0, <1>1 DEF Inject!RequestShape, Inject!TypeOK, Inject!AllowedShape
  <1>3. /\ behind' \in [Injectors -> SUBSET Memories]
        /\ behind'[c] = missed
        /\ \A d \in Injectors : d # c => behind'[d] = behind[d]
    BY <1>0, <1>1 DEF Inject!TypeOK
  <1>4. Inject!Requested(c) \subseteq Memories
    BY <1>0 DEF Inject!TypeOK, Inject!Options, Inject!Requested
  <1>5. InjectorStep(c)
    <2>1. ASSUME NEW how \in {"refused", "preview"},
                 step' = [step EXCEPT ![c] = "done"] /\ outcome' = [outcome EXCEPT ![c] = how]
          PROVE  InjectorStep(c)
      <3> HIDE DEF missed
      <3> QED BY <1>0, <1>1, <1>2, <1>3, <2>1 DEF InjectorStep, Inject!TypeOK
    <2>2. CASE /\ step' = [step EXCEPT ![c] = "send"] /\ outcome' = outcome
               /\ Inject!Known(c) = {} \/ opts[c].allowDuplicate
      <3>1. ~opts[c].allowDuplicate =>
              \A m \in Inject!Requested(c) : shown[m] > 0 => m \in behind'[c]
        BY <1>3, <1>4, <2>2 DEF Inject!Known
      <3> HIDE DEF missed
      <3> QED BY <1>0, <1>1, <1>2, <1>3, <2>2, <3>1 DEF InjectorStep, Inject!TypeOK
    <2> QED BY <1>1, <2>1, <2>2
  <1> QED BY <1>5, InjectOwnPart

(* An injector sends its request: what its options and its source rule     *)
(* out makes it what was promised.                                         *)
LEMMA InjectSendStep ==
  ASSUME Inject!IInv, NEW c \in Injectors, Inject!SendInject(c)
  PROVE  Inject!IInv'
  <1>0. Inject!TypeOK /\ Inject!RequestShape /\ Inject!AllowedShape /\ Inject!MissedShape
    BY InjectFacts
  <1> DEFINE request == [scope |-> Inject!ScopeOf(opts[c]), binding |-> Inject!BindingOf(opts[c]),
                         framed |-> Inject!Framed(opts[c])]
  <1>1. /\ step[c] = "send"
        /\ mail' = [mail EXCEPT ![c] = "inject"]
        /\ sent' = [sent EXCEPT ![c] = request]
        /\ step' = [step EXCEPT ![c] = "waiting"]
        /\ UNCHANGED <<loaded, active, turned, shown, onDisk, readable, reply, opts, outcome,
                       arrived, behind, excused>>
    BY DEF Inject!SendInject, Inject!Goto, Inject!world, Inject!ghost
  <1>2. /\ reply[c] = "none" /\ c \notin arrived /\ outcome[c] = "none"
        /\ Inject!OptionsAllowed(opts[c]) /\ Inject!SourceAllowed(opts[c])
        /\ Inject!BatchAllowed(opts[c]) /\ Inject!ScopeAllowed(opts[c])
        /\ ~opts[c].allowDuplicate =>
             \A m \in Inject!Requested(c) : shown[m] > 0 => m \in behind[c]
    BY <1>0, <1>1 DEF Inject!RequestShape, Inject!TypeOK, Inject!AllowedShape, Inject!MissedShape
  <1>3. /\ request \in Inject!Requests
        /\ IF request.scope = "checkpoint"
             THEN ~request.framed /\ request.binding = "source" /\ ~opts[c].purpose /\ ~opts[c].self
             ELSE /\ opts[c].purpose \/ opts[c].self => request.framed
                  /\ opts[c].self => request.binding = "current"
    <2>1. opts[c] \in Inject!Options
      BY <1>0 DEF Inject!TypeOK
    <2>2. /\ Inject!ScopeOf(opts[c]) \in {"memory", "checkpoint"}
          /\ Inject!BindingOf(opts[c]) \in {"current", "source"}
          /\ Inject!Framed(opts[c]) \in BOOLEAN
      BY <2>1 DEF Inject!Options, Inject!ScopeOf, Inject!BindingOf, Inject!Framed, Inject!Unset
    <2>3. request \in Inject!Requests
      BY <2>2 DEF Inject!Requests
    <2>4. Inject!ScopeOf(opts[c]) = "checkpoint" =>
            /\ ~Inject!Framed(opts[c]) /\ Inject!BindingOf(opts[c]) = "source"
            /\ ~opts[c].purpose /\ ~opts[c].self
      BY <1>2, <2>1
      DEF Inject!Options, Inject!ScopeAllowed, Inject!BindingOf, Inject!Framed, Inject!Unset
    <2>5. Inject!ScopeOf(opts[c]) # "checkpoint" =>
            /\ opts[c].purpose \/ opts[c].self => Inject!Framed(opts[c])
            /\ opts[c].self => Inject!BindingOf(opts[c]) = "current"
      BY <1>2, <2>1, <2>2
      DEF Inject!Options, Inject!OptionsAllowed, Inject!BindingOf, Inject!Framed, Inject!Unset
    <2> QED BY <2>3, <2>4, <2>5
  <1>4. sent' \in [Injectors -> Inject!Requests \union {Inject!NothingSent}] /\ sent'[c] = request
    <2> HIDE DEF request
    <2> QED BY <1>0, <1>1, <1>3 DEF Inject!TypeOK
  <1>5. InjectorStep(c)
    <2> HIDE DEF request
    <2> QED BY <1>0, <1>1, <1>2, <1>3, <1>4 DEF InjectorStep, Inject!TypeOK
  <1> QED BY <1>5, InjectOwnPart

(* An injector gets its answer, or something fails.                        *)
LEMMA InjectEndStep ==
  ASSUME Inject!IInv, NEW c \in Injectors, Inject!Answered(c) \/ Inject!Fails(c)
  PROVE  Inject!IInv'
  <1>0. Inject!TypeOK /\ Inject!RequestShape /\ Inject!AllowedShape /\ Inject!MissedShape
    BY InjectFacts
  <1>1. PICK how \in {"accepted", "refused", "uncertain"} :
          /\ step[c] # "done" /\ step' = [step EXCEPT ![c] = "done"]
          /\ outcome' = [outcome EXCEPT ![c] = how]
          /\ reply' = [reply EXCEPT ![c] = "none"]
          /\ UNCHANGED <<loaded, active, turned, shown, onDisk, readable, mail, opts, sent,
                         arrived, behind, excused>>
          /\ how = "refused" => \/ step[c] \notin {"waiting", "done"}
                                \/ step[c] = "waiting" /\ reply[c] = "error"
    <2>1. reply[c] \in {"none", "ok", "error"}
      BY <1>0 DEF Inject!TypeOK
    <2> USE DEF Inject!End, Inject!world, Inject!ghost
    <2>2. CASE Inject!Answered(c)
      BY <2>1, <2>2 DEF Inject!Answered
    <2>3. CASE Inject!Fails(c)
      BY <2>3 DEF Inject!Fails, Inject!AfterFailure
    <2> QED BY <2>2, <2>3
  <1>2. /\ how = "refused" => mail[c] = "none" /\ c \notin arrived
        /\ mail[c] = "inject" => c \notin arrived
    BY <1>0, <1>1 DEF Inject!RequestShape, Inject!TypeOK
  <1>3. /\ mail[c] = "inject" => /\ Inject!SourceAllowed(opts[c]) /\ Inject!BatchAllowed(opts[c])
                                 /\ Inject!ScopeAllowed(opts[c])
        /\ mail[c] = "inject" /\ ~opts[c].allowDuplicate =>
             \A m \in Inject!Requested(c) : shown[m] > 0 => m \in behind[c]
    BY <1>0 DEF Inject!AllowedShape, Inject!MissedShape
  <1>4. InjectorStep(c)
    BY <1>0, <1>1, <1>2, <1>3 DEF InjectorStep, Inject!TypeOK
  <1> QED BY <1>4, InjectOwnPart

(* Every step keeps the invariant.                                         *)
LEMMA InjectNext ==
  ASSUME Inject!IInv, Inject!Next
  PROVE  Inject!IInv'
  BY InjectWorldStep, InjectAnswerStep, InjectCheckStep, InjectLookStep, InjectSendStep,
     InjectEndStep DEF Inject!Next

-----------------------------------------------------------------------------
(* A command that acts on what a loaded thread is doing. *)

(* At first the client has looked at nothing, and what it names may be     *)
(* gone.                                                                   *)
LEMMA ControlInit ==
  ASSUME Control!Init
  PROVE  Control!IInv
  <1> USE ControlAssumption, InputAssumption DEF Control!Init
  <1>1. /\ wanted \in [turn : 1..MaxTurns, process : Control!ProcessIds, item : Control!Items]
        /\ wanted.turn = 1 /\ wanted.process \in 1..Processes
    BY DEF Control!ProcessIds, Control!Items
  <1>2. /\ terminal \in [Control!ProcessIds -> Control!Items \union {0}]
        /\ \A p \in Control!ProcessIds : terminal[p] = p
    BY DEF Control!ProcessIds, Control!Items
  <1>3. turn \in {0, 1} /\ turn \in 0..MaxTurns /\ last \in 0..MaxTurns
    OBVIOUS
  <1>4. Control!TypeOK
    <2>1. started \in 0..MaxItems /\ page \in 1..(Processes + 1) /\ killed \subseteq Control!Items
      OBVIOUS
    <2>2. loaded \in BOOLEAN /\ settings \in BOOLEAN /\ handed \in BOOLEAN
      OBVIOUS
    <2>3. (step = "done" <=> outcome # "none") /\ mail = "none" /\ reply = "none" /\ listed = 0
          /\ step = "loaded" /\ outcome = "none" /\ command \in Control!Operations
      OBVIOUS
    <2> HIDE DEF Control!Init
    <2> QED BY <1>1, <1>2, <1>3, <2>1, <2>2, <2>3 DEF Control!TypeOK
  <1>5. Control!WorldShape
    BY <1>1, <1>2 DEF Control!WorldShape, Control!ProcessIds
  <1>6. Control!RequestShape
    BY DEF Control!RequestShape
  <1>7. Control!ListedShape
    BY <1>1 DEF Control!ListedShape
  <1>8. Control!AnswerShape
    BY DEF Control!AnswerShape
  <1> QED BY <1>4, <1>5, <1>6, <1>7, <1>8 DEF Control!IInv

(* The parts of the invariant.                                             *)
LEMMA ControlFacts ==
  ASSUME Control!IInv
  PROVE  /\ Control!TypeOK /\ Control!WorldShape /\ Control!RequestShape /\ Control!ListedShape
         /\ Control!AnswerShape
         /\ wanted.process \in Control!ProcessIds /\ wanted.item \in Control!Items
         /\ wanted.turn \in 1..MaxTurns
  BY DEF Control!IInv, Control!TypeOK

(* Turns begin and end, and the thread is unloaded and loaded.             *)
LEMMA ControlThreadStep ==
  ASSUME Control!IInv, Control!TurnChanges \/ Control!Unloads
  PROVE  Control!IInv'
  <1>0. /\ Control!TypeOK /\ Control!WorldShape /\ Control!RequestShape /\ Control!ListedShape
        /\ Control!AnswerShape /\ wanted.turn \in 1..MaxTurns
    BY ControlFacts
  <1>1. UNCHANGED <<terminal, started, settings, mail, reply, command, wanted, step, listed, page,
                    handed, killed, outcome>>
    BY DEF Control!TurnChanges, Control!Unloads, Control!terminals, Control!client
  <1>2. /\ loaded' \in BOOLEAN /\ turn' \in 0..MaxTurns /\ last' \in last..MaxTurns
        /\ turn' \in {0, last'} /\ (turn' = turn \/ turn' = 0 \/ turn' = last + 1)
    <2>0. /\ loaded \in BOOLEAN /\ turn \in 0..MaxTurns /\ last \in 0..MaxTurns
          /\ turn \in {0, last} /\ MaxTurns \in Nat
      BY <1>0, InputAssumption DEF Control!TypeOK, Control!WorldShape
    <2>1. loaded' \in BOOLEAN
      BY <2>0 DEF Control!TurnChanges, Control!Unloads
    <2> QED BY <2>0, <2>1 DEF Control!TurnChanges, Control!Unloads
  <1>3. last' \in 0..MaxTurns /\ wanted.turn <= last'
    BY <1>0, <1>2, InputAssumption DEF Control!TypeOK, Control!WorldShape
  <1>4. turn # wanted.turn => turn' # wanted.turn
    BY <1>0, <1>2, InputAssumption DEF Control!TypeOK, Control!WorldShape
  <1>5. Control!TypeOK'
    BY <1>0, <1>1, <1>2, <1>3 DEF Control!TypeOK, Control!ProcessIds, Control!Items
  <1>6. Control!WorldShape'
    BY <1>0, <1>1, <1>2, <1>3 DEF Control!WorldShape, Control!ProcessIds
  <1>7. Control!RequestShape' /\ Control!ListedShape'
    BY <1>0, <1>1 DEF Control!RequestShape, Control!ListedShape, Control!ProcessIds
  <1>8. Control!AnswerShape'
    BY <1>0, <1>1, <1>4 DEF Control!AnswerShape, Control!Over, Control!ProcessIds
  <1> QED BY <1>5, <1>6, <1>7, <1>8 DEF Control!IInv

(* A terminal ends, by itself or by our request: what was listed has its   *)
(* number or is gone, and what is over stays over.                         *)
LEMMA TerminalGone ==
  ASSUME Control!IInv, NEW p \in Control!ProcessIds, terminal' = [terminal EXCEPT ![p] = 0],
         UNCHANGED <<turn, last, started, wanted, listed, page>>
  PROVE  /\ terminal' \in [Control!ProcessIds -> Control!Items \union {0}]
         /\ Control!WorldShape' /\ (Control!Over => Control!Over')
         /\ listed # 0 =>
              /\ listed <= started
              /\ \A q \in Control!ProcessIds \ {wanted.process} : terminal'[q] # listed
         /\ page > wanted.process /\ ~handed => terminal'[wanted.process] \in {0, listed}
  <1>0. /\ Control!TypeOK /\ Control!WorldShape /\ Control!ListedShape
        /\ wanted.process \in Control!ProcessIds /\ wanted.item \in Control!Items
    BY ControlFacts
  <1>1. /\ terminal \in [Control!ProcessIds -> Control!Items \union {0}]
        /\ \A q \in Control!ProcessIds : terminal'[q] = IF q = p THEN 0 ELSE terminal[q]
        /\ terminal' \in [Control!ProcessIds -> Control!Items \union {0}]
    BY <1>0 DEF Control!TypeOK
  <1>2. started \in Nat /\ wanted.item # 0
    BY <1>0, ControlAssumption DEF Control!TypeOK, Control!Items
  <1>3. Control!WorldShape'
    BY <1>0, <1>1, <1>2 DEF Control!WorldShape, Control!ProcessIds
  <1>4. Control!Over => Control!Over'
    BY <1>1, <1>2 DEF Control!Over, Control!ProcessIds
  <1>5. page > wanted.process /\ ~handed => terminal'[wanted.process] \in {0, listed}
    BY <1>0, <1>1 DEF Control!ListedShape
  <1>6. listed # 0 =>
          /\ listed <= started
          /\ \A q \in Control!ProcessIds \ {wanted.process} : terminal'[q] # listed
    BY <1>0, <1>1 DEF Control!ListedShape
  <1> QED BY <1>1, <1>3, <1>4, <1>5, <1>6

(* A terminal that starts has an item that none had before.                *)
LEMMA TerminalNew ==
  ASSUME Control!IInv, NEW p \in Control!ProcessIds, terminal[p] = 0,
         started < MaxItems, started' = started + 1, terminal' = [terminal EXCEPT ![p] = started'],
         UNCHANGED <<turn, last, wanted, listed, page>>
  PROVE  /\ terminal' \in [Control!ProcessIds -> Control!Items \union {0}]
         /\ started' \in 0..MaxItems
         /\ Control!WorldShape' /\ (Control!Over => Control!Over')
         /\ listed # 0 =>
              /\ listed <= started'
              /\ \A q \in Control!ProcessIds \ {wanted.process} : terminal'[q] # listed
         /\ page > wanted.process /\ ~handed /\ p # wanted.process =>
              terminal'[wanted.process] \in {0, listed}
  <1>0. /\ Control!TypeOK /\ Control!WorldShape /\ Control!ListedShape
        /\ wanted.process \in Control!ProcessIds /\ wanted.item \in Control!Items
    BY ControlFacts
  <1>1. started \in Nat /\ wanted.item # 0 /\ started' \in Nat /\ started' \in Control!Items
        /\ listed \in Nat
    BY <1>0, ControlAssumption DEF Control!TypeOK, Control!Items
  <1>2. /\ terminal \in [Control!ProcessIds -> Control!Items \union {0}]
        /\ \A q \in Control!ProcessIds : terminal'[q] = IF q = p THEN started' ELSE terminal[q]
        /\ terminal' \in [Control!ProcessIds -> Control!Items \union {0}]
    BY <1>0, <1>1 DEF Control!TypeOK
  <1>3. \A q \in Control!ProcessIds : terminal[q] \in Nat /\ terminal[q] <= started
    BY <1>0, <1>2, ControlAssumption DEF Control!WorldShape, Control!Items
  <1>4. Control!WorldShape'
    <2>1. \A q \in Control!ProcessIds : terminal'[q] <= started'
      BY <1>1, <1>2, <1>3
    <2>2. \A q, r \in Control!ProcessIds :
            terminal'[q] # 0 /\ terminal'[q] = terminal'[r] => q = r
      BY <1>0, <1>1, <1>2, <1>3 DEF Control!WorldShape
    <2> QED BY <1>0, <2>1, <2>2 DEF Control!WorldShape, Control!ProcessIds
  <1>5. Control!Over => Control!Over'
    BY <1>0, <1>1, <1>2 DEF Control!Over, Control!ProcessIds, Control!Items
  <1>6. listed # 0 =>
          /\ listed <= started'
          /\ \A q \in Control!ProcessIds \ {wanted.process} : terminal'[q] # listed
    BY <1>0, <1>1, <1>2 DEF Control!ListedShape
  <1>7. page > wanted.process /\ ~handed /\ p # wanted.process =>
          terminal'[wanted.process] \in {0, listed}
    BY <1>0, <1>2 DEF Control!ListedShape
  <1> QED BY <1>1, <1>2, <1>4, <1>5, <1>6, <1>7 DEF Control!Items

(* A terminal starts or ends.                                              *)
LEMMA ControlTerminalStep ==
  ASSUME Control!IInv, Control!TerminalEnds \/ Control!TerminalStarts
  PROVE  Control!IInv'
  <1>0. /\ Control!TypeOK /\ Control!RequestShape /\ Control!ListedShape /\ Control!AnswerShape
        /\ wanted.process \in Control!ProcessIds
    BY ControlFacts
  <1>1. UNCHANGED <<loaded, turn, last, settings, mail, reply, command, wanted, step, listed, page,
                    killed, outcome>>
    BY DEF Control!TerminalEnds, Control!TerminalStarts, Control!thread, Control!client
  <1>2. PICK p \in Control!ProcessIds :
          /\ \/ started' = started /\ terminal' = [terminal EXCEPT ![p] = 0]
             \/ /\ started < MaxItems /\ started' = started + 1 /\ terminal[p] = 0
                /\ terminal' = [terminal EXCEPT ![p] = started']
          /\ Control!Handed(p)
    BY DEF Control!TerminalEnds, Control!TerminalStarts
  <1>3. /\ handed' <=> handed \/ (p = wanted.process /\ page > p)
        /\ handed' \in BOOLEAN
    BY <1>0, <1>2 DEF Control!Handed, Control!TypeOK
  <1>4. /\ terminal' \in [Control!ProcessIds -> Control!Items \union {0}]
        /\ started' \in 0..MaxItems
        /\ Control!WorldShape' /\ (Control!Over => Control!Over')
        /\ listed # 0 =>
             /\ listed <= started'
             /\ \A q \in Control!ProcessIds \ {wanted.process} : terminal'[q] # listed
        /\ page > wanted.process /\ ~handed' => terminal'[wanted.process] \in {0, listed}
    <2>1. CASE started' = started /\ terminal' = [terminal EXCEPT ![p] = 0]
      <3>1. started' \in 0..MaxItems
        BY <1>0, <2>1 DEF Control!TypeOK
      <3> QED BY <1>1, <1>3, <2>1, <3>1, TerminalGone
    <2>2. CASE /\ started < MaxItems /\ started' = started + 1 /\ terminal[p] = 0
               /\ terminal' = [terminal EXCEPT ![p] = started']
      BY <1>1, <1>3, <2>2, TerminalNew
    <2> QED BY <1>2, <2>1, <2>2
  <1>5. Control!TypeOK'
    BY <1>0, <1>1, <1>3, <1>4 DEF Control!TypeOK, Control!ProcessIds, Control!Items
  <1>6. Control!RequestShape'
    BY <1>0, <1>1 DEF Control!RequestShape
  <1>7. Control!ListedShape'
    <2>1. wanted.process \in Nat /\ page \in Nat
      BY <1>0, ControlAssumption DEF Control!TypeOK, Control!ProcessIds
    <2>2. page <= wanted.process => listed = 0 /\ ~handed'
      BY <1>0, <1>3, <2>1 DEF Control!ListedShape
    <2>3. killed \subseteq {wanted.item} \/ handed'
      BY <1>0, <1>3 DEF Control!ListedShape
    <2>4. command = "terminate" =>
            /\ step = "check" => page > wanted.process
            /\ step \in {"send", "sent"} \/ mail = "terminate" =>
                 listed = wanted.item /\ page > wanted.process
      BY <1>0 DEF Control!ListedShape
    <2>5. (step = "loaded" => page = 1) /\ (step = "list" => page <= Processes)
      BY <1>0 DEF Control!ListedShape
    <2> QED BY <1>1, <1>4, <2>2, <2>3, <2>4, <2>5 DEF Control!ListedShape, Control!ProcessIds
  <1>8. Control!AnswerShape'
    BY <1>0, <1>1, <1>4 DEF Control!AnswerShape
  <1> QED BY <1>4, <1>5, <1>6, <1>7, <1>8 DEF Control!IInv

(* The app-server takes in an interruption or settings, or refuses them.   *)
LEMMA ControlServeStep ==
  ASSUME Control!IInv, Control!ServeInterrupt \/ Control!ServeConfigure
  PROVE  Control!IInv'
  <1>0. /\ Control!TypeOK /\ Control!WorldShape /\ Control!RequestShape /\ Control!ListedShape
        /\ Control!AnswerShape
    BY ControlFacts
  <1>1. UNCHANGED <<loaded, turn, last, terminal, started, command, wanted, step, listed, page,
                    handed, killed, outcome>>
    BY DEF Control!ServeInterrupt, Control!ServeConfigure, Control!Answer, Control!thread,
           Control!client
  <1>2. /\ mail \in {"interrupt", "configure"} /\ mail' = "none"
        /\ settings' \in {settings, TRUE}
        /\ \E answer \in {"ok", "error"} :
             /\ reply' = IF step = "sent" THEN answer ELSE "none"
             /\ mail = "configure" /\ answer = "error" => settings' = settings
             /\ mail = "interrupt" => settings' = settings
    BY DEF Control!ServeInterrupt, Control!ServeConfigure, Control!Answer
  <1>3. settings' \in BOOLEAN /\ reply' \in {"none", "ok", "error"}
    BY <1>0, <1>2 DEF Control!TypeOK
  <1>4. Control!TypeOK'
    BY <1>0, <1>1, <1>2, <1>3 DEF Control!TypeOK, Control!ProcessIds, Control!Items
  <1>5. Control!WorldShape'
    BY <1>0, <1>1 DEF Control!WorldShape, Control!ProcessIds
  <1>6. Control!RequestShape'
    BY <1>0, <1>1, <1>2 DEF Control!RequestShape
  <1>7. Control!ListedShape'
    BY <1>0, <1>1, <1>2 DEF Control!ListedShape, Control!ProcessIds
  <1>8. command # "terminate"
    BY <1>0, <1>2 DEF Control!RequestShape, Control!TypeOK, Control!Operations
  <1>9. Control!AnswerShape'
    <2>1. command = "configure" => mail = "configure" /\ step \notin {"loaded", "send"}
      BY <1>0, <1>2 DEF Control!RequestShape
    <2>2. outcome # "terminated" \/ Control!Over'
      BY <1>0, <1>1 DEF Control!AnswerShape, Control!Over, Control!ProcessIds
    <2>3. command = "configure" => outcome # "refused"
      BY <1>0, <1>2 DEF Control!AnswerShape
    <2>4. command = "configure" /\ reply' \in {"error", "notRunning"} => ~settings'
      BY <1>0, <1>2, <2>1 DEF Control!AnswerShape
    <2> QED BY <1>0, <1>1, <1>2, <1>8, <2>1, <2>2, <2>3, <2>4 DEF Control!AnswerShape
  <1> QED BY <1>4, <1>5, <1>6, <1>7, <1>9 DEF Control!IInv

(* The app-server ends whatever has the wanted process number: what was    *)
(* listed there, unless the number changed hands.                          *)
LEMMA ControlTerminateStep ==
  ASSUME Control!IInv, Control!ServeTerminate
  PROVE  Control!IInv'
  <1>0. /\ Control!TypeOK /\ Control!WorldShape /\ Control!RequestShape /\ Control!ListedShape
        /\ Control!AnswerShape
        /\ wanted.process \in Control!ProcessIds /\ wanted.item \in Control!Items
    BY ControlFacts
  <1>1. UNCHANGED <<loaded, turn, last, started, settings, command, wanted, step, listed, page,
                    handed, outcome>>
    BY DEF Control!ServeTerminate, Control!Answer, Control!thread, Control!client
  <1>2. /\ mail = "terminate" /\ mail' = "none"
        /\ terminal' = [terminal EXCEPT ![wanted.process] = 0]
        /\ killed' = killed \union ({terminal[wanted.process]} \ {0})
        /\ reply' \in {"none", "ok", "notRunning"} /\ (step = "sent" <=> reply' # "none")
    BY DEF Control!ServeTerminate, Control!Answer
  <1>3. command = "terminate" /\ listed = wanted.item /\ page > wanted.process /\ listed # 0
    BY <1>0, <1>2, ControlAssumption
    DEF Control!RequestShape, Control!ListedShape, Control!TypeOK, Control!Operations, Control!Items
  <1>4. /\ terminal' \in [Control!ProcessIds -> Control!Items \union {0}]
        /\ Control!WorldShape'
        /\ listed <= started
        /\ \A q \in Control!ProcessIds \ {wanted.process} : terminal'[q] # listed
        /\ ~handed => terminal'[wanted.process] \in {0, listed}
    BY <1>0, <1>1, <1>2, <1>3, TerminalGone
  <1>5. terminal'[wanted.process] = 0 /\ terminal[wanted.process] \in Control!Items \union {0}
    BY <1>0, <1>2 DEF Control!TypeOK
  <1>6. Control!Over'
    BY <1>0, <1>1, <1>3, <1>4, <1>5 DEF Control!Over, Control!ProcessIds
  <1>7. killed' \subseteq Control!Items /\ (killed' \subseteq {wanted.item} \/ handed)
    BY <1>0, <1>2, <1>3, <1>5 DEF Control!TypeOK, Control!ListedShape
  <1>8. Control!TypeOK'
    BY <1>0, <1>1, <1>2, <1>4, <1>7 DEF Control!TypeOK, Control!ProcessIds, Control!Items
  <1>9. Control!RequestShape'
    BY <1>0, <1>1, <1>2 DEF Control!RequestShape
  <1>10. Control!ListedShape'
    <2>1. page \in Nat /\ wanted.process \in Nat
      BY <1>0, ControlAssumption DEF Control!TypeOK, Control!ProcessIds
    <2>2. ~(page <= wanted.process)
      BY <1>3, <2>1
    <2>3. (step = "loaded" => page = 1) /\ (step = "list" => page <= Processes)
      BY <1>0 DEF Control!ListedShape
    <2> QED BY <1>1, <1>2, <1>3, <1>4, <1>7, <2>2, <2>3 DEF Control!ListedShape, Control!ProcessIds
  <1>11. Control!AnswerShape'
    BY <1>0, <1>1, <1>2, <1>3, <1>6 DEF Control!AnswerShape
  <1> QED BY <1>4, <1>8, <1>9, <1>10, <1>11 DEF Control!IInv

(* The client looks for what it is to act on.                              *)
LEMMA ControlLookStep ==
  ASSUME Control!IInv, Control!RequireLoaded \/ Control!ListTerminals \/ Control!CheckTerminal
  PROVE  Control!IInv'
  <1>0. /\ Control!TypeOK /\ Control!WorldShape /\ Control!RequestShape /\ Control!ListedShape
        /\ Control!AnswerShape
        /\ wanted.process \in Control!ProcessIds /\ wanted.item \in Control!Items
    BY ControlFacts
  <1>1. /\ UNCHANGED <<loaded, turn, last, terminal, started, settings, mail, reply, command, wanted,
                       handed, killed>>
        /\ step \in {"loaded", "list", "check"} /\ mail = "none" /\ reply = "none"
        /\ outcome = "none"
    BY <1>0 DEF Control!RequireLoaded, Control!ListTerminals, Control!CheckTerminal, Control!thread,
                Control!terminals, Control!request, Control!RequestShape, Control!TypeOK
  <1>2. Control!WorldShape'
    BY <1>0, <1>1 DEF Control!WorldShape, Control!ProcessIds
  <1>3. CASE Control!ListTerminals
    <2>1. /\ step = "list" /\ page' = page + 1 /\ step' \in {"list", "check"} /\ outcome' = "none"
          /\ listed' = IF page = wanted.process THEN terminal[page] ELSE listed
          /\ step' = "check" => page = Processes
          /\ command = "terminate"
      BY <1>0, <1>1, <1>3 DEF Control!ListTerminals, Control!Goto, Control!RequestShape
    <2>2. page \in 1..Processes /\ page' \in 1..(Processes + 1) /\ page' \in Nat
          /\ wanted.process \in 1..Processes
      BY <1>0, <2>1, ControlAssumption DEF Control!TypeOK, Control!ListedShape, Control!ProcessIds
    <2>3. page \in Control!ProcessIds /\ terminal[page] \in Control!Items \union {0}
          /\ listed \in Control!Items \union {0} /\ listed' \in Control!Items \union {0}
      BY <1>0, <2>1, <2>2 DEF Control!TypeOK, Control!ProcessIds
    <2>4. Control!TypeOK'
      BY <1>0, <1>1, <2>1, <2>2, <2>3 DEF Control!TypeOK, Control!ProcessIds, Control!Items
    <2>5. Control!RequestShape'
      BY <1>0, <1>1, <2>1 DEF Control!RequestShape
    <2>6. Control!ListedShape'
      <3>1. page' <= wanted.process => listed' = 0 /\ ~handed
        BY <1>0, <2>1, <2>2 DEF Control!ListedShape
      <3>2. /\ step' = "check" => page' > wanted.process
            /\ step' = "list" => page' <= Processes
        BY <1>3, <2>1, <2>2, ControlAssumption DEF Control!ListTerminals, Control!Goto
      <3>3. CASE page = wanted.process
        <4>1. listed' = terminal[wanted.process] /\ listed = 0 /\ ~handed
          BY <1>0, <2>1, <2>2, <3>3 DEF Control!ListedShape
        <4>2. listed' # 0 => /\ listed' <= started
                             /\ \A q \in Control!ProcessIds \ {wanted.process} :
                                  terminal[q] # listed'
          BY <1>0, <4>1 DEF Control!WorldShape
        <4> QED BY <1>0, <1>1, <2>1, <2>2, <3>1, <3>2, <4>1, <4>2
            DEF Control!ListedShape, Control!ProcessIds
      <3>4. CASE page # wanted.process
        <4>1. listed' = listed /\ (page' > wanted.process => page > wanted.process)
          BY <2>1, <2>2, <3>4
        <4> QED BY <1>0, <1>1, <2>1, <3>1, <3>2, <4>1
            DEF Control!ListedShape, Control!ProcessIds
      <3> QED BY <3>3, <3>4
    <2>7. Control!AnswerShape'
      BY <1>0, <1>1, <2>1 DEF Control!AnswerShape, Control!Over, Control!ProcessIds
    <2> QED BY <1>2, <2>4, <2>5, <2>6, <2>7 DEF Control!IInv
  <1>4. CASE Control!RequireLoaded \/ Control!CheckTerminal
    <2>1. /\ UNCHANGED <<listed, page>>
          /\ \/ step' \in {"list", "send"} /\ outcome' = "none"
             \/ step' = "done" /\ outcome' = "refused"
          /\ step' = "list" => step = "loaded" /\ command = "terminate"
          /\ step' = "send" /\ command = "terminate" => step = "check" /\ listed = wanted.item
      BY <1>0, <1>1, <1>4
      DEF Control!RequireLoaded, Control!CheckTerminal, Control!Goto, Control!End,
                              Control!IsTheOne, Control!local, Control!RequestShape
    <2>2. Control!TypeOK'
      BY <1>0, <1>1, <2>1 DEF Control!TypeOK, Control!ProcessIds, Control!Items
    <2>3. Control!RequestShape'
      BY <1>0, <1>1, <2>1 DEF Control!RequestShape
    <2>4. step' = "list" => page <= Processes
      BY <1>0, <2>1, ControlAssumption DEF Control!ListedShape
    <2>5. Control!ListedShape'
      BY <1>0, <1>1, <2>1, <2>4 DEF Control!ListedShape, Control!ProcessIds
    <2>6. command = "configure" => step = "loaded"
      BY <1>0, <1>1 DEF Control!RequestShape
    <2>7. Control!AnswerShape'
      BY <1>0, <1>1, <2>1, <2>6 DEF Control!AnswerShape, Control!Over, Control!ProcessIds
    <2> QED BY <1>2, <2>2, <2>3, <2>5, <2>7 DEF Control!IInv
  <1> QED BY <1>1, <1>3, <1>4
      DEF Control!RequireLoaded, Control!ListTerminals, Control!CheckTerminal

(* The client sends its request.                                           *)
LEMMA ControlSendStep ==
  ASSUME Control!IInv, Control!Send
  PROVE  Control!IInv'
  <1>0. /\ Control!TypeOK /\ Control!WorldShape /\ Control!RequestShape /\ Control!ListedShape
        /\ Control!AnswerShape
    BY ControlFacts
  <1>1. /\ UNCHANGED <<loaded, turn, last, terminal, started, settings, reply, command, wanted,
                       listed, page, handed, killed, outcome>>
        /\ step = "send" /\ step' = "sent" /\ outcome = "none" /\ reply = "none" /\ mail = "none"
        /\ mail' = IF command = "interruptAndWait" THEN "interrupt" ELSE command
    BY <1>0 DEF Control!Send, Control!Goto, Control!thread, Control!terminals, Control!request,
                Control!local, Control!RequestShape, Control!TypeOK
  <1>2. Control!WorldShape'
    BY <1>0, <1>1 DEF Control!WorldShape, Control!ProcessIds
  <1>3. mail' \in {"interrupt", "terminate", "configure"}
    BY <1>0, <1>1 DEF Control!TypeOK, Control!Operations
  <1>4. Control!TypeOK'
    BY <1>0, <1>1, <1>3 DEF Control!TypeOK, Control!ProcessIds, Control!Items
  <1>5. Control!RequestShape'
    BY <1>0, <1>1, <1>3 DEF Control!RequestShape
  <1>6. Control!ListedShape'
    BY <1>0, <1>1 DEF Control!ListedShape, Control!ProcessIds
  <1>7. Control!AnswerShape'
    BY <1>0, <1>1 DEF Control!AnswerShape, Control!Over, Control!ProcessIds
  <1> QED BY <1>2, <1>4, <1>5, <1>6, <1>7 DEF Control!IInv

(* The answer comes, the turn is seen to be over, or the client gives up.  *)
LEMMA ControlAnswerStep ==
  ASSUME Control!IInv, Control!Answered \/ Control!SeesEnd \/ Control!Fails
  PROVE  Control!IInv'
  <1>0. /\ Control!TypeOK /\ Control!WorldShape /\ Control!RequestShape /\ Control!ListedShape
        /\ Control!AnswerShape
    BY ControlFacts
  <1>1. /\ UNCHANGED <<loaded, turn, last, terminal, started, settings, mail, command, wanted,
                       listed, page, handed, killed>>
        /\ step # "done" /\ outcome = "none" /\ reply' = "none"
    BY <1>0 DEF Control!Answered, Control!SeesEnd, Control!Fails, Control!thread, Control!terminals,
                Control!request, Control!local, Control!RequestShape, Control!TypeOK
  <1>2. \/ /\ step' = "done"
           /\ outcome' \in {"requested", "stopped", "terminated", "accepted", "refused", "failed",
                            "uncertain"}
           /\ outcome' = "terminated" => command = "terminate" /\ reply = "ok"
           /\ outcome' = "stopped" => turn # wanted.turn
           /\ command = "configure" /\ outcome' = "refused" =>
                step = "loaded" \/ (step = "sent" /\ reply \in {"error", "notRunning"})
        \/ step = "sent" /\ reply # "none" /\ step' = "wait" /\ outcome' = "none"
    BY <1>0, <1>1
    DEF Control!Answered, Control!SeesEnd, Control!Fails, Control!Goto, Control!End, Control!IsOver,
        Control!AfterFailure, Control!TypeOK, Control!Operations
  <1>3. Control!WorldShape'
    BY <1>0, <1>1 DEF Control!WorldShape, Control!ProcessIds
  <1>4. Control!TypeOK'
    BY <1>0, <1>1, <1>2 DEF Control!TypeOK, Control!ProcessIds, Control!Items
  <1>5. Control!RequestShape'
    BY <1>0, <1>1, <1>2 DEF Control!RequestShape
  <1>6. Control!ListedShape'
    BY <1>0, <1>1, <1>2 DEF Control!ListedShape, Control!ProcessIds
  <1>7. command = "configure" /\ outcome' = "refused" => ~settings /\ mail = "none"
    BY <1>0, <1>2 DEF Control!AnswerShape, Control!RequestShape
  <1>8. Control!AnswerShape'
    BY <1>0, <1>1, <1>2, <1>7 DEF Control!AnswerShape, Control!Over, Control!ProcessIds
  <1> QED BY <1>3, <1>4, <1>5, <1>6, <1>8 DEF Control!IInv

-----------------------------------------------------------------------------
(* A command that describes compactions. *)

(* The set operators of an instance are those of FiniteSets.               *)
LEMMA GenerationSets ==
  ASSUME NEW S
  PROVE  /\ Generation!IsFiniteSet(S) <=> IsFiniteSet(S)
         /\ Generation!Cardinality(S) = Cardinality(S)
  <1>1. Generation!IsFiniteSet(S) <=> IsFiniteSet(S)
    BY DEF Generation!IsFiniteSet, IsFiniteSet
  <1>2. Generation!Cardinality(S) = Cardinality(S)
    BY DEF Generation!Cardinality, Cardinality
  <1> QED BY <1>1, <1>2

(* At first no command has started and the cache is empty.                 *)
LEMMA GenerationInit ==
  ASSUME Generation!Init
  PROVE  Generation!IInv
  <1> USE GenerationAssumption DEF Generation!Init
  <1>1. /\ \A c \in Commands : /\ step[c] = "start" /\ outcome[c] = "none" /\ ~advanced[c]
                               /\ scanned[c] = 0 /\ keptKeys[c] = {}
        /\ \A c \in Commands, k \in Generation!Artifacts : job[c][k] = "no" /\ tries[c][k] = 0
        /\ \A k \in Generation!Artifacts : cache[k] = Generation!Absent
        /\ moved = {}
    OBVIOUS
  <1>2. compacted \in Seq(BOOLEAN) /\ Len(compacted) <= MaxCompactions
    <2>1. PICK n \in 0..2 : compacted \in [1..n -> BOOLEAN]
      BY DEF Generation!BoundedSeq, Generation!SeqOf
    <2>2. Len(compacted) = n /\ n \in Nat
      BY <2>1
    <2> QED BY <2>1, <2>2
  <1>3. Generation!TypeOK
    <2>1. /\ cache \in [Generation!Artifacts -> Commands \union {Generation!Absent}]
          /\ orders \in [Commands -> Generation!Orders]
      OBVIOUS
    <2>2. /\ step \in [Commands -> {"start", "working", "done"}]
          /\ outcome \in [Commands -> {"none", "described", "failed", "refused", "killed"}]
          /\ advanced \in [Commands -> BOOLEAN]
      OBVIOUS
    <2>3. /\ job \in [Commands -> [Generation!Artifacts ->
                        {"no", "queued"} \union Generation!Running \union Generation!Ended]]
          /\ tries \in [Commands -> [Generation!Artifacts -> 0..MaxAttempts]]
      OBVIOUS
    <2>4. /\ scanned \in [Commands -> 0..MaxCompactions] /\ moved \subseteq Commands
          /\ keptKeys \in [Commands -> SUBSET Generation!Artifacts]
          /\ clearedFor \in [Commands -> SUBSET Generation!Artifacts]
      OBVIOUS
    <2> HIDE DEF Generation!Init
    <2> QED BY <1>1, <1>2, <2>1, <2>2, <2>3, <2>4 DEF Generation!TypeOK
  <1> HIDE DEF Generation!Init
  <1>4. Generation!StartShape
    BY <1>1 DEF Generation!StartShape
  <1>5. Generation!TaskShape
    <2>1. \A c \in Commands : Generation!UnderWay(c) = {}
      BY <1>1 DEF Generation!UnderWay, Generation!Running
    <2>2. IsFiniteSet({}) /\ Cardinality({}) = 0
      BY FS_EmptySet
    <2>3. \A c \in Commands : /\ Generation!IsFiniteSet(Generation!UnderWay(c))
                              /\ Generation!Cardinality(Generation!UnderWay(c)) <= Jobs
      BY <2>1, <2>2, GenerationSets
    <2> QED BY <1>1, <2>3 DEF Generation!TaskShape
  <1>6. Generation!CacheShape
    BY <1>1 DEF Generation!CacheShape
  <1>7. Generation!ScanShape
    BY <1>1 DEF Generation!ScanShape
  <1>8. Generation!FinishedStaysCached /\ Generation!AdvanceReported
    BY <1>1 DEF Generation!FinishedStaysCached, Generation!AdvanceReported
  <1> QED BY <1>3, <1>4, <1>5, <1>6, <1>7, <1>8 DEF Generation!IInv

(* The parts of the invariant.                                             *)
LEMMA GenerationFacts ==
  ASSUME Generation!IInv
  PROVE  /\ Generation!TypeOK /\ Generation!StartShape /\ Generation!TaskShape
         /\ Generation!CacheShape /\ Generation!ScanShape
         /\ Generation!FinishedStaysCached /\ Generation!AdvanceReported
  BY DEF Generation!IInv

(* The thread is compacted.                                                *)
LEMMA GenerationCompactsStep ==
  ASSUME Generation!IInv, Generation!Compacts
  PROVE  Generation!IInv'
  <1>0. /\ Generation!TypeOK /\ Generation!StartShape /\ Generation!TaskShape
        /\ Generation!CacheShape /\ Generation!ScanShape
        /\ Generation!FinishedStaysCached /\ Generation!AdvanceReported
    BY GenerationFacts
  <1>1. /\ Len(compacted) < MaxCompactions
        /\ moved' = moved \union {c \in Commands : step[c] = "working"}
        /\ UNCHANGED <<cache, orders, step, outcome, advanced, job, tries, scanned, keptKeys,
                       clearedFor>>
    BY DEF Generation!Compacts
  <1>2. compacted' \in Seq(BOOLEAN) /\ Len(compacted') = Len(compacted) + 1
        /\ Len(compacted) \in Nat
    <2>1. PICK portable \in BOOLEAN : compacted' = Append(compacted, portable)
      BY DEF Generation!Compacts
    <2> QED BY <1>0, <2>1, AppendProperties, LenProperties DEF Generation!TypeOK
  <1>3. Generation!TypeOK'
    <2>1. Len(compacted') <= MaxCompactions /\ moved' \subseteq Commands
      BY <1>0, <1>1, <1>2, GenerationAssumption DEF Generation!TypeOK
    <2> QED BY <1>0, <1>1, <1>2, <2>1
        DEF Generation!TypeOK, Generation!Artifacts, Generation!Orders
  <1>4. Generation!StartShape'
    BY <1>0, <1>1 DEF Generation!StartShape, Generation!Artifacts
  <1>5. Generation!TaskShape' /\ Generation!CacheShape' /\ Generation!FinishedStaysCached'
    <2>1. Generation!TaskShape'
      BY <1>0, <1>1 DEF Generation!TaskShape, Generation!UnderWay, Generation!Artifacts
    <2>2. Generation!CacheShape' /\ Generation!FinishedStaysCached'
      BY <1>0, <1>1
      DEF Generation!CacheShape, Generation!FinishedStaysCached, Generation!Artifacts
    <2> QED BY <2>1, <2>2
  <1>6. Generation!ScanShape'
    <2> SUFFICES ASSUME NEW c \in Commands, step[c] = "working"
                 PROVE  /\ scanned[c] <= Len(compacted')
                        /\ c \in moved' /\ Len(compacted') # scanned[c]
      BY <1>1 DEF Generation!ScanShape
    <2>1. scanned[c] \in Nat /\ scanned[c] <= Len(compacted)
      BY <1>0, GenerationAssumption DEF Generation!TypeOK, Generation!ScanShape
    <2> QED BY <1>1, <1>2, <2>1
  <1>7. Generation!AdvanceReported'
    <2> SUFFICES ASSUME NEW c \in Commands, outcome[c] = "described"
                 PROVE  advanced[c] <=> c \in moved'
      BY <1>1 DEF Generation!AdvanceReported
    <2>1. step[c] # "working"
      BY <1>0 DEF Generation!TypeOK
    <2> QED BY <1>0, <1>1, <2>1 DEF Generation!AdvanceReported
  <1> QED BY <1>3, <1>4, <1>5, <1>6, <1>7 DEF Generation!IInv

(* The cache is cleared: every command that has started has to reckon with *)
(* that, the others have nothing to lose.                                  *)
LEMMA GenerationClearStep ==
  ASSUME Generation!IInv, Generation!ClearCache
  PROVE  Generation!IInv'
  <1>0. /\ Generation!TypeOK /\ Generation!StartShape /\ Generation!TaskShape
        /\ Generation!CacheShape /\ Generation!ScanShape
        /\ Generation!FinishedStaysCached /\ Generation!AdvanceReported
    BY GenerationFacts
  <1>1. /\ \A k \in Generation!Artifacts : cache'[k] = Generation!Absent
        /\ \A c \in Commands : keptKeys'[c] = {}
        /\ \A c \in Commands :
             clearedFor'[c] = IF step[c] = "start" THEN {} ELSE Generation!Artifacts
        /\ UNCHANGED <<compacted, orders, step, outcome, advanced, job, tries, scanned, moved>>
    BY DEF Generation!ClearCache
  <1>2. /\ cache' \in [Generation!Artifacts -> Commands \union {Generation!Absent}]
        /\ keptKeys' \in [Commands -> SUBSET Generation!Artifacts]
        /\ clearedFor' \in [Commands -> SUBSET Generation!Artifacts]
    BY DEF Generation!ClearCache
  <1>3. Generation!TypeOK'
    BY <1>0, <1>1, <1>2 DEF Generation!TypeOK, Generation!Artifacts, Generation!Orders
  <1>4. Generation!StartShape'
    BY <1>0, <1>1 DEF Generation!StartShape, Generation!Artifacts
  <1>5. Generation!TaskShape'
    BY <1>0, <1>1 DEF Generation!TaskShape, Generation!UnderWay, Generation!Artifacts
  <1>6. Generation!ScanShape' /\ Generation!AdvanceReported'
    BY <1>0, <1>1 DEF Generation!ScanShape, Generation!Latest, Generation!AdvanceReported
  <1>7. Generation!CacheShape'
    <2> SUFFICES ASSUME NEW c \in Commands, NEW k \in Generation!Artifacts
                 PROVE  orders[c].noCache =>
                          job[c][k] \notin {"look", "cached", "put"} /\ cache'[k] # c
      BY <1>1 DEF Generation!CacheShape, Generation!Artifacts
    <2> QED BY <1>0, <1>1, GenerationAssumption DEF Generation!CacheShape
  <1>8. Generation!FinishedStaysCached'
    <2> SUFFICES ASSUME NEW c \in Commands, NEW k \in Generation!Artifacts,
                        job[c][k] \in {"cached", "made"}
                 PROVE  k \in clearedFor'[c]
      BY <1>1 DEF Generation!FinishedStaysCached, Generation!Artifacts
    <2>1. step[c] # "start"
      BY <1>0 DEF Generation!StartShape
    <2> QED BY <1>1, <2>1
  <1> QED BY <1>3, <1>4, <1>5, <1>6, <1>7, <1>8 DEF Generation!IInv

(* A command scans the thread and plans its tasks, or finds nothing to do. *)
LEMMA GenerationStartStep ==
  ASSUME Generation!IInv, NEW c \in Commands, Generation!Start(c)
  PROVE  Generation!IInv'
  <1>0. /\ Generation!TypeOK /\ Generation!StartShape /\ Generation!TaskShape
        /\ Generation!CacheShape /\ Generation!ScanShape
        /\ Generation!FinishedStaysCached /\ Generation!AdvanceReported
    BY GenerationFacts
  <1>1. /\ step[c] = "start" /\ c \notin moved
        /\ \A k \in Generation!Artifacts : job[c][k] = "no" /\ tries[c][k] = 0
        /\ UNCHANGED <<compacted, cache, orders, advanced, tries, moved, clearedFor>>
        /\ scanned' = [scanned EXCEPT ![c] = Len(compacted)]
        /\ keptKeys' = [keptKeys EXCEPT ![c] =
                          {k \in Generation!Artifacts : cache[k] # Generation!Absent}]
    BY <1>0 DEF Generation!Start, Generation!StartShape
  <1>2. \/ /\ step' = [step EXCEPT ![c] = "done"] /\ outcome' = [outcome EXCEPT ![c] = "refused"]
           /\ job' = job
        \/ /\ step' = [step EXCEPT ![c] = "working"] /\ outcome' = outcome
           /\ Generation!Plan(orders[c]) # {}
           /\ job' = [job EXCEPT ![c] = [k \in Generation!Artifacts |->
                        IF k \in Generation!Plan(orders[c]) THEN "queued" ELSE "no"]]
    BY DEF Generation!Start, Generation!End
  <1>3. /\ \A d \in Commands : d # c =>
             /\ step'[d] = step[d] /\ outcome'[d] = outcome[d] /\ job'[d] = job[d]
             /\ scanned'[d] = scanned[d] /\ keptKeys'[d] = keptKeys[d]
        /\ \/ step'[c] = "done" /\ outcome'[c] = "refused"
           \/ step'[c] = "working" /\ outcome'[c] = "none"
        /\ \A k \in Generation!Artifacts : job'[c][k] \in {"no", "queued"}
        /\ scanned'[c] = Len(compacted)
        /\ keptKeys'[c] = {k \in Generation!Artifacts : cache[k] # Generation!Absent}
    BY <1>0, <1>1, <1>2 DEF Generation!TypeOK
  <1>4. Generation!TypeOK'
    <2>1. /\ step' \in [Commands -> {"start", "working", "done"}]
          /\ outcome' \in [Commands -> {"none", "described", "failed", "refused", "killed"}]
      BY <1>0, <1>2 DEF Generation!TypeOK
    <2>2. job' \in [Commands -> [Generation!Artifacts ->
                      {"no", "queued"} \union Generation!Running \union Generation!Ended]]
      <3>1. job \in [Commands -> [Generation!Artifacts ->
                      {"no", "queued"} \union Generation!Running \union Generation!Ended]]
        BY <1>0 DEF Generation!TypeOK
      <3>2. [k \in Generation!Artifacts |->
               IF k \in Generation!Plan(orders[c]) THEN "queued" ELSE "no"]
              \in [Generation!Artifacts ->
                     {"no", "queued"} \union Generation!Running \union Generation!Ended]
        OBVIOUS
      <3> QED BY <1>2, <3>1, <3>2
    <2>3. Len(compacted) \in 0..MaxCompactions
      BY <1>0, LenProperties, GenerationAssumption DEF Generation!TypeOK
    <2>4. /\ scanned' \in [Commands -> 0..MaxCompactions]
          /\ keptKeys' \in [Commands -> SUBSET Generation!Artifacts]
      BY <1>0, <1>1, <2>3 DEF Generation!TypeOK
    <2>5. /\ \A d \in Commands : step'[d] = "done" <=> outcome'[d] # "none"
          /\ \A d \in Commands : outcome'[d] = "described" =>
               \A k \in Generation!Artifacts : job'[d][k] \in {"no", "cached", "made"}
      <3>1. /\ \A d \in Commands : step[d] = "done" <=> outcome[d] # "none"
            /\ \A d \in Commands : outcome[d] = "described" =>
                 \A k \in Generation!Artifacts : job[d][k] \in {"no", "cached", "made"}
        BY <1>0 DEF Generation!TypeOK
      <3>2. ASSUME NEW d \in Commands
            PROVE  /\ step'[d] = "done" <=> outcome'[d] # "none"
                   /\ outcome'[d] = "described" => d # c /\ outcome[d] = "described"
        <4>1. CASE d = c
          BY <1>3, <4>1
        <4>2. CASE d # c
          BY <1>3, <3>1, <4>2
        <4> QED BY <4>1, <4>2
      <3>3. ASSUME NEW d \in Commands, outcome'[d] = "described", NEW k \in Generation!Artifacts
            PROVE  job'[d][k] \in {"no", "cached", "made"}
        <4>1. d # c /\ outcome[d] = "described"
          BY <3>2, <3>3
        <4>2. job'[d] = job[d]
          BY <1>3, <4>1
        <4> QED BY <3>1, <4>1, <4>2
      <3> QED BY <3>2, <3>3
    <2>6. /\ compacted \in Seq(BOOLEAN) /\ Len(compacted) <= MaxCompactions
          /\ cache \in [Generation!Artifacts -> Commands \union {Generation!Absent}]
          /\ orders \in [Commands -> Generation!Orders] /\ advanced \in [Commands -> BOOLEAN]
          /\ tries \in [Commands -> [Generation!Artifacts -> 0..MaxAttempts]]
          /\ moved \subseteq Commands
          /\ clearedFor \in [Commands -> SUBSET Generation!Artifacts]
      BY <1>0 DEF Generation!TypeOK
    <2> QED BY <1>1, <2>1, <2>2, <2>4, <2>5, <2>6
        DEF Generation!TypeOK, Generation!Artifacts, Generation!Orders, Generation!Running,
            Generation!Ended
  <1>5. Generation!StartShape'
    BY <1>0, <1>1, <1>3 DEF Generation!StartShape, Generation!Artifacts
  <1>6. Generation!TaskShape'
    <2> SUFFICES ASSUME NEW d \in Commands
                 PROVE  /\ Generation!IsFiniteSet(Generation!UnderWay(d)')
                        /\ Generation!Cardinality(Generation!UnderWay(d)') <= Jobs
                        /\ \A k \in Generation!Artifacts :
                             /\ job'[d][k] \in {"queued", "look"} => tries[d][k] = 0
                             /\ job'[d][k] = "call" => tries[d][k] < MaxAttempts
      BY <1>1 DEF Generation!TaskShape, Generation!Artifacts
    <2>1. CASE d = c
      <3>1. Generation!UnderWay(d)' = {}
        BY <1>3, <2>1 DEF Generation!UnderWay, Generation!Running, Generation!Artifacts
      <3>2. IsFiniteSet({}) /\ Cardinality({}) = 0
        BY FS_EmptySet
      <3>3. Generation!IsFiniteSet({}) /\ Generation!Cardinality({}) <= Jobs
        BY <3>2, GenerationSets, GenerationAssumption
      <3> QED BY <1>1, <1>3, <2>1, <3>1, <3>3
    <2>2. CASE d # c
      <3>1. Generation!UnderWay(d)' = Generation!UnderWay(d)
        BY <1>3, <2>2 DEF Generation!UnderWay, Generation!Artifacts
      <3> QED BY <1>0, <1>3, <2>2, <3>1 DEF Generation!TaskShape
    <2> QED BY <2>1, <2>2
  <1>7. Generation!CacheShape'
    <2> SUFFICES ASSUME NEW d \in Commands, NEW k \in Generation!Artifacts
                 PROVE  /\ orders[d].noCache =>
                             job'[d][k] \notin {"look", "cached", "put"} /\ cache[k] # d
                        /\ k \in keptKeys'[d] => cache[k] # Generation!Absent
                        /\ ~orders[d].noCache /\ ~orders[d].refresh /\ k \in keptKeys'[d] =>
                             tries[d][k] = 0 /\ job'[d][k] \notin {"call", "put", "made"}
      BY <1>1 DEF Generation!CacheShape, Generation!Artifacts
    <2>1. CASE d = c
      <3>1. orders[d].noCache => cache[k] # d
        BY <1>0 DEF Generation!CacheShape
      <3> QED BY <1>1, <1>3, <2>1, <3>1
    <2>2. CASE d # c
      BY <1>0, <1>3, <2>2 DEF Generation!CacheShape
    <2> QED BY <2>1, <2>2
  <1>8. Generation!ScanShape'
    <2> SUFFICES ASSUME NEW d \in Commands, step'[d] = "working"
                 PROVE  /\ scanned'[d] <= Len(compacted)
                        /\ d \in moved <=> Len(compacted) # scanned'[d]
                        /\ orders[d].command # "index" /\ d \notin moved => Generation!Latest
      BY <1>1 DEF Generation!ScanShape, Generation!Latest
    <2>1. CASE d = c
      <3>1. Len(compacted) \in Nat
        BY <1>0, LenProperties DEF Generation!TypeOK
      <3>2. Generation!Plan(orders[c]) # {}
        BY <1>0, <1>2, <2>1 DEF Generation!TypeOK
      <3>3. orders[c].command \in {"index", "summarize", "diff"}
        BY <1>0 DEF Generation!TypeOK, Generation!Orders
      <3>4. orders[c].command # "index" => Generation!Latest
        BY <3>2, <3>3 DEF Generation!Plan
      <3> QED BY <1>1, <1>3, <2>1, <3>1, <3>4
    <2>2. CASE d # c
      BY <1>0, <1>3, <2>2 DEF Generation!ScanShape
    <2> QED BY <2>1, <2>2
  <1>9. Generation!FinishedStaysCached' /\ Generation!AdvanceReported'
    BY <1>0, <1>1, <1>3
    DEF Generation!FinishedStaysCached, Generation!AdvanceReported, Generation!Artifacts
  <1> QED BY <1>4, <1>5, <1>6, <1>7, <1>8, <1>9 DEF Generation!IInv

(* A command ends, with all its tasks or because it is interrupted.        *)
LEMMA GenerationEndStep ==
  ASSUME Generation!IInv, NEW c \in Commands, Generation!Gather(c) \/ Generation!Killed(c)
  PROVE  Generation!IInv'
  <1>0. /\ Generation!TypeOK /\ Generation!StartShape /\ Generation!TaskShape
        /\ Generation!CacheShape /\ Generation!ScanShape
        /\ Generation!FinishedStaysCached /\ Generation!AdvanceReported
    BY GenerationFacts
  <1>1. /\ step[c] = "working"
        /\ UNCHANGED <<compacted, cache, orders, job, tries, scanned, moved, keptKeys, clearedFor>>
    BY DEF Generation!Gather, Generation!Killed
  <1>2. /\ step' = [step EXCEPT ![c] = "done"]
        /\ \/ /\ \/ outcome' = [outcome EXCEPT ![c] = "failed"]
                 \/ outcome' = [outcome EXCEPT ![c] = "killed"]
              /\ advanced' = advanced
           \/ /\ outcome' = [outcome EXCEPT ![c] = "described"]
              /\ \A k \in Generation!Artifacts : job[c][k] \in {"no", "cached", "made"}
              /\ advanced' = [advanced EXCEPT ![c] = Generation!Advanced(c)]
    BY DEF Generation!Gather, Generation!Killed, Generation!End, Generation!Ended
  <1>3. Generation!Advanced(c) \in BOOLEAN /\ (Generation!Advanced(c) <=> c \in moved)
    <2>1. /\ c \in moved <=> Len(compacted) # scanned[c]
          /\ orders[c].command # "index" /\ c \notin moved => Generation!Latest
      BY <1>0, <1>1 DEF Generation!ScanShape
    <2> QED BY <2>1 DEF Generation!Advanced
  <1>4. /\ \A d \in Commands : d # c =>
             step'[d] = step[d] /\ outcome'[d] = outcome[d] /\ advanced'[d] = advanced[d]
        /\ step'[c] = "done"
        /\ \/ outcome'[c] \in {"failed", "killed"}
           \/ /\ outcome'[c] = "described"
              /\ \A k \in Generation!Artifacts : job[c][k] \in {"no", "cached", "made"}
              /\ advanced'[c] <=> c \in moved
    BY <1>0, <1>2, <1>3 DEF Generation!TypeOK
  <1>5. Generation!TypeOK'
    <2>1. /\ step' \in [Commands -> {"start", "working", "done"}]
          /\ outcome' \in [Commands -> {"none", "described", "failed", "refused", "killed"}]
          /\ advanced' \in [Commands -> BOOLEAN]
      BY <1>0, <1>2, <1>3 DEF Generation!TypeOK
    <2>2. /\ \A d \in Commands : step'[d] = "done" <=> outcome'[d] # "none"
          /\ \A d \in Commands : outcome'[d] = "described" =>
               \A k \in Generation!Artifacts : job[d][k] \in {"no", "cached", "made"}
      BY <1>0, <1>4 DEF Generation!TypeOK
    <2> QED BY <1>0, <1>1, <2>1, <2>2 DEF Generation!TypeOK, Generation!Artifacts, Generation!Orders
  <1>6. Generation!StartShape' /\ Generation!ScanShape'
    BY <1>0, <1>1, <1>4
    DEF Generation!StartShape, Generation!ScanShape, Generation!Latest, Generation!Artifacts
  <1>7. Generation!TaskShape' /\ Generation!CacheShape' /\ Generation!FinishedStaysCached'
    BY <1>0, <1>1
    DEF Generation!TaskShape, Generation!CacheShape, Generation!FinishedStaysCached,
        Generation!UnderWay, Generation!Artifacts
  <1>8. Generation!AdvanceReported'
    BY <1>0, <1>1, <1>4 DEF Generation!AdvanceReported
  <1> QED BY <1>5, <1>6, <1>7, <1>8 DEF Generation!IInv

(* What the steps of a task have in common: it goes on, and sends at most  *)
(* one request.  Only a task that was queued takes a slot.                 *)
TaskStep(c, k, s) ==
  /\ s \in Generation!Running \union Generation!Ended
  /\ step[c] = "working" /\ Generation!Goes(c, k, s)
  /\ job[c][k] \in Generation!Running \/ (job[c][k] = "queued" /\ Generation!Slots(c) > 0)
  /\ UNCHANGED <<compacted, orders, step, outcome, advanced, scanned, moved, keptKeys, clearedFor>>
  /\ cache' \in [Generation!Artifacts -> Commands \union {Generation!Absent}]
  /\ \A j \in Generation!Artifacts :
       cache'[j] = cache[j] \/ (cache'[j] = c /\ ~orders[c].noCache)
  /\ tries' \in [Commands -> [Generation!Artifacts -> 0..MaxAttempts]]
  /\ \A d \in Commands, j \in Generation!Artifacts :
       d # c \/ j # k => tries'[d][j] = tries[d][j]
  /\ s = "look" => tries'[c][k] = 0
  /\ s = "call" => tries'[c][k] < MaxAttempts
  /\ orders[c].noCache => s \notin {"look", "cached", "put"}
  /\ ~orders[c].noCache /\ ~orders[c].refresh /\ k \in keptKeys[c] =>
       tries'[c][k] = 0 /\ s \notin {"call", "put", "made"}
  /\ ~orders[c].noCache /\ s \in {"cached", "made"} => cache'[k] # Generation!Absent

(* Every step of a task keeps the invariant.                               *)
LEMMA GenerationTask ==
  ASSUME Generation!IInv, NEW c \in Commands, NEW k \in Generation!Artifacts, NEW s,
         TaskStep(c, k, s)
  PROVE  Generation!IInv'
  <1> USE DEF TaskStep
  <1>0. /\ Generation!TypeOK /\ Generation!StartShape /\ Generation!TaskShape
        /\ Generation!CacheShape /\ Generation!ScanShape
        /\ Generation!FinishedStaysCached /\ Generation!AdvanceReported
    BY GenerationFacts
  <1>1. job' = [job EXCEPT ![c][k] = s]
    BY DEF Generation!Goes
  <1>2. /\ job' \in [Commands -> [Generation!Artifacts ->
                       {"no", "queued"} \union Generation!Running \union Generation!Ended]]
        /\ job'[c][k] = s
        /\ \A d \in Commands, j \in Generation!Artifacts :
             d # c \/ j # k => job'[d][j] = job[d][j]
    <2>1. job \in [Commands -> [Generation!Artifacts ->
                     {"no", "queued"} \union Generation!Running \union Generation!Ended]]
      BY <1>0 DEF Generation!TypeOK
    <2> QED BY <1>1, <2>1
  <1>3. Generation!Absent \notin Commands
    BY GenerationAssumption
  <1>4. s \notin {"no", "queued"}
    BY DEF Generation!Running, Generation!Ended
  <1>5. Generation!TypeOK'
    <2>1. /\ \A d \in Commands : step[d] = "done" <=> outcome[d] # "none"
          /\ \A d \in Commands : outcome[d] = "described" =>
               \A j \in Generation!Artifacts : job'[d][j] \in {"no", "cached", "made"}
      <3>1. outcome[c] = "none"
        BY <1>0 DEF Generation!TypeOK
      <3>2. /\ \A d \in Commands : step[d] = "done" <=> outcome[d] # "none"
            /\ \A d \in Commands : outcome[d] = "described" =>
                 \A j \in Generation!Artifacts : job[d][j] \in {"no", "cached", "made"}
        BY <1>0 DEF Generation!TypeOK
      <3>3. ASSUME NEW d \in Commands, outcome[d] = "described", NEW j \in Generation!Artifacts
            PROVE  job'[d][j] \in {"no", "cached", "made"}
        <4>1. d # c
          BY <3>1, <3>3
        <4>2. job'[d][j] = job[d][j]
          BY <1>2, <4>1
        <4> QED BY <3>2, <3>3, <4>2
      <3> QED BY <3>2, <3>3
    <2>2. /\ compacted \in Seq(BOOLEAN) /\ Len(compacted) <= MaxCompactions
          /\ orders \in [Commands -> Generation!Orders] /\ advanced \in [Commands -> BOOLEAN]
          /\ step \in [Commands -> {"start", "working", "done"}]
          /\ outcome \in [Commands -> {"none", "described", "failed", "refused", "killed"}]
          /\ scanned \in [Commands -> 0..MaxCompactions] /\ moved \subseteq Commands
          /\ keptKeys \in [Commands -> SUBSET Generation!Artifacts]
          /\ clearedFor \in [Commands -> SUBSET Generation!Artifacts]
      BY <1>0 DEF Generation!TypeOK
    <2> QED BY <1>2, <2>1, <2>2
        DEF Generation!TypeOK, Generation!Artifacts, Generation!Orders, Generation!Running,
            Generation!Ended
  <1>6. Generation!StartShape'
    BY <1>0, <1>2 DEF Generation!StartShape, Generation!Artifacts
  <1>7. Generation!TaskShape'
    <2> SUFFICES ASSUME NEW d \in Commands
                 PROVE  /\ Generation!IsFiniteSet(Generation!UnderWay(d)')
                        /\ Generation!Cardinality(Generation!UnderWay(d)') <= Jobs
                        /\ \A j \in Generation!Artifacts :
                             /\ job'[d][j] \in {"queued", "look"} => tries'[d][j] = 0
                             /\ job'[d][j] = "call" => tries'[d][j] < MaxAttempts
      BY DEF Generation!TaskShape, Generation!Artifacts
    <2>1. ASSUME NEW j \in Generation!Artifacts
          PROVE  /\ job'[d][j] \in {"queued", "look"} => tries'[d][j] = 0
                 /\ job'[d][j] = "call" => tries'[d][j] < MaxAttempts
      <3>1. CASE d = c /\ j = k
        BY <1>2, <1>4, <3>1
      <3>2. CASE d # c \/ j # k
        BY <1>0, <1>2, <3>2 DEF Generation!TaskShape
      <3> QED BY <3>1, <3>2
    <2>2. /\ Generation!IsFiniteSet(Generation!UnderWay(d))
          /\ Generation!Cardinality(Generation!UnderWay(d)) <= Jobs
      BY <1>0 DEF Generation!TaskShape
    <2>3. IsFiniteSet(Generation!UnderWay(d)) /\ Cardinality(Generation!UnderWay(d)) <= Jobs
      BY <2>2, GenerationSets
    <2>4. CASE d = c /\ job[c][k] = "queued"
      <3> DEFINE more == Generation!UnderWay(d) \union {k}
      <3>1. Generation!UnderWay(d)' \subseteq more
        BY <1>2 DEF Generation!UnderWay, Generation!Artifacts
      <3>2. k \notin Generation!UnderWay(d)
        BY <2>4 DEF Generation!UnderWay, Generation!Running
      <3>3. IsFiniteSet(more) /\ Cardinality(more) = Cardinality(Generation!UnderWay(d)) + 1
        BY <2>3, <3>2, FS_AddElement
      <3>4. Jobs - Cardinality(Generation!UnderWay(d)) > 0
        <4>1. Generation!Slots(c) > 0
          BY <2>4 DEF Generation!Running
        <4>2. Generation!Slots(c) = Jobs - Generation!Cardinality(Generation!UnderWay(c))
          BY DEF Generation!Slots, Generation!UnderWay
        <4> QED BY <2>4, <4>1, <4>2, GenerationSets
      <3>5. /\ IsFiniteSet(Generation!UnderWay(d)')
            /\ Cardinality(Generation!UnderWay(d)') <= Cardinality(more)
        BY <3>1, <3>3, FS_Subset
      <3>6. /\ Cardinality(Generation!UnderWay(d)) \in Nat
            /\ Cardinality(Generation!UnderWay(d)') \in Nat
        BY <2>3, <3>5, FS_CardinalityType
      <3>7. Cardinality(Generation!UnderWay(d)') <= Jobs
        BY <3>3, <3>4, <3>5, <3>6, GenerationAssumption
      <3> QED BY <2>1, <3>5, <3>7, GenerationSets
    <2>5. CASE d # c \/ job[c][k] # "queued"
      <3>1. Generation!UnderWay(d)' \subseteq Generation!UnderWay(d)
        BY <1>2, <2>5 DEF Generation!UnderWay, Generation!Artifacts
      <3>2. /\ IsFiniteSet(Generation!UnderWay(d)')
            /\ Cardinality(Generation!UnderWay(d)') <= Cardinality(Generation!UnderWay(d))
        BY <2>3, <3>1, FS_Subset
      <3>3. /\ Cardinality(Generation!UnderWay(d)) \in Nat
            /\ Cardinality(Generation!UnderWay(d)') \in Nat
        BY <2>3, <3>2, FS_CardinalityType
      <3>4. Cardinality(Generation!UnderWay(d)') <= Jobs
        BY <2>3, <3>2, <3>3, GenerationAssumption
      <3> QED BY <2>1, <3>2, <3>4, GenerationSets
    <2> QED BY <2>4, <2>5
  <1>8. Generation!CacheShape'
    <2> SUFFICES ASSUME NEW d \in Commands, NEW j \in Generation!Artifacts
                 PROVE  /\ orders[d].noCache =>
                             job'[d][j] \notin {"look", "cached", "put"} /\ cache'[j] # d
                        /\ j \in keptKeys[d] => cache'[j] # Generation!Absent
                        /\ ~orders[d].noCache /\ ~orders[d].refresh /\ j \in keptKeys[d] =>
                             tries'[d][j] = 0 /\ job'[d][j] \notin {"call", "put", "made"}
      BY DEF Generation!CacheShape, Generation!Artifacts
    <2>1. /\ orders[d].noCache => cache'[j] # d
          /\ j \in keptKeys[d] => cache'[j] # Generation!Absent
      BY <1>0, <1>3 DEF Generation!CacheShape
    <2>2. CASE d = c /\ j = k
      BY <1>2, <2>1, <2>2
    <2>3. CASE d # c \/ j # k
      BY <1>0, <1>2, <2>1, <2>3 DEF Generation!CacheShape
    <2> QED BY <2>2, <2>3
  <1>9. Generation!ScanShape' /\ Generation!AdvanceReported'
    BY <1>0 DEF Generation!ScanShape, Generation!Latest, Generation!AdvanceReported
  <1>10. Generation!FinishedStaysCached'
    <2> SUFFICES ASSUME NEW d \in Commands, NEW j \in Generation!Artifacts,
                        job'[d][j] \in {"cached", "made"}, ~orders[d].noCache
                 PROVE  cache'[j] # Generation!Absent \/ j \in clearedFor[d]
      BY DEF Generation!FinishedStaysCached, Generation!Artifacts
    <2>1. CASE d = c /\ j = k
      BY <1>2, <2>1
    <2>2. CASE d # c \/ j # k
      <3>1. cache[j] # Generation!Absent \/ j \in clearedFor[d]
        BY <1>0, <1>2, <2>2 DEF Generation!FinishedStaysCached
      <3> QED BY <1>3, <3>1
    <2> QED BY <2>1, <2>2
  <1> QED BY <1>5, <1>6, <1>7, <1>8, <1>9, <1>10 DEF Generation!IInv

(* A task passes the semaphore.                                            *)
LEMMA GenerationAcquireStep ==
  ASSUME Generation!IInv, NEW c \in Commands, NEW k \in Generation!Artifacts,
         Generation!Acquire(c, k)
  PROVE  Generation!IInv'
  <1>0. Generation!TypeOK /\ Generation!TaskShape
    BY GenerationFacts
  <1> DEFINE s == IF orders[c].noCache \/ orders[c].refresh THEN "call" ELSE "look"
  <1>1. /\ step[c] = "working" /\ job[c][k] = "queued" /\ Generation!Slots(c) > 0
        /\ Generation!Goes(c, k, s)
        /\ UNCHANGED <<compacted, cache, orders, step, outcome, advanced, tries, scanned, moved,
                       keptKeys, clearedFor>>
    BY DEF Generation!Acquire
  <1>2. tries[c][k] = 0 /\ 0 < MaxAttempts
    BY <1>0, <1>1, GenerationAssumption DEF Generation!TaskShape
  <1>3. /\ cache' \in [Generation!Artifacts -> Commands \union {Generation!Absent}]
        /\ tries' \in [Commands -> [Generation!Artifacts -> 0..MaxAttempts]]
    BY <1>0, <1>1 DEF Generation!TypeOK
  <1>4. s \in Generation!Running \union Generation!Ended
    BY DEF Generation!Running
  <1>5. /\ s \in {"call", "look"}
        /\ orders[c].noCache => s = "call"
        /\ ~orders[c].noCache /\ ~orders[c].refresh => s = "look"
    OBVIOUS
  <1> HIDE DEF s
  <1>20. TaskStep(c, k, s)
    BY <1>1, <1>2, <1>3, <1>4, <1>5 DEF TaskStep
  <1> QED BY <1>20, GenerationTask

(* A task asks the cache.                                                  *)
LEMMA GenerationLookStep ==
  ASSUME Generation!IInv, NEW c \in Commands, NEW k \in Generation!Artifacts,
         Generation!Look(c, k)
  PROVE  Generation!IInv'
  <1>0. Generation!TypeOK /\ Generation!TaskShape /\ Generation!CacheShape
    BY GenerationFacts
  <1>1. /\ step[c] = "working" /\ job[c][k] = "look"
        /\ UNCHANGED <<compacted, cache, orders, step, outcome, advanced, tries, scanned, moved,
                       keptKeys, clearedFor>>
    BY DEF Generation!Look
  <1>2. PICK s \in {"cached", "call", "failed"} :
          /\ Generation!Goes(c, k, s)
          /\ s = "cached" => cache[k] # Generation!Absent
          /\ s = "call" => cache[k] = Generation!Absent
    <2>1. CASE Generation!Goes(c, k, "failed")
      BY <2>1
    <2>2. CASE Generation!Goes(c, k, IF Generation!Found(k) THEN "cached" ELSE "call")
      BY <2>2 DEF Generation!Found
    <2> QED BY <2>1, <2>2 DEF Generation!Look
  <1>3. tries[c][k] = 0 /\ 0 < MaxAttempts
    BY <1>0, <1>1, GenerationAssumption DEF Generation!TaskShape
  <1>4. /\ cache' \in [Generation!Artifacts -> Commands \union {Generation!Absent}]
        /\ tries' \in [Commands -> [Generation!Artifacts -> 0..MaxAttempts]]
    BY <1>0, <1>1 DEF Generation!TypeOK
  <1>5. /\ s \in Generation!Running \union Generation!Ended
        /\ job[c][k] \in Generation!Running
    BY <1>1 DEF Generation!Running, Generation!Ended
  <1>6. ~orders[c].noCache /\ (k \in keptKeys[c] => cache[k] # Generation!Absent)
    BY <1>0, <1>1 DEF Generation!CacheShape
  <1>20. TaskStep(c, k, s)
    BY <1>1, <1>2, <1>3, <1>4, <1>5, <1>6 DEF TaskStep
  <1> QED BY <1>20, GenerationTask

(* A task sends a request to the model.                                    *)
LEMMA GenerationCallStep ==
  ASSUME Generation!IInv, NEW c \in Commands, NEW k \in Generation!Artifacts,
         Generation!Call(c, k)
  PROVE  Generation!IInv'
  <1>0. Generation!TypeOK /\ Generation!TaskShape /\ Generation!CacheShape
    BY GenerationFacts
  <1>1. /\ step[c] = "working" /\ job[c][k] = "call"
        /\ tries' = [tries EXCEPT ![c][k] = @ + 1]
        /\ UNCHANGED <<compacted, cache, orders, step, outcome, advanced, scanned, moved,
                       keptKeys, clearedFor>>
    BY DEF Generation!Call
  <1>2. tries[c][k] \in 0..MaxAttempts /\ tries[c][k] < MaxAttempts /\ MaxAttempts \in Nat
    BY <1>0, <1>1, GenerationAssumption DEF Generation!TypeOK, Generation!TaskShape
  <1>3. PICK s \in {"made", "put", "call", "failed"} :
          /\ Generation!Goes(c, k, s)
          /\ s = "made" => orders[c].noCache
          /\ s = "put" => ~orders[c].noCache
          /\ s = "call" => tries[c][k] + 1 < MaxAttempts
    <2>1. CASE Generation!Goes(c, k, Generation!Described(orders[c]))
      BY <2>1 DEF Generation!Described
    <2>2. ASSUME NEW retryable \in BOOLEAN,
                 Generation!Goes(c, k, Generation!Failed(c, k, retryable))
          PROVE  \E s \in {"call", "failed"} :
                   Generation!Goes(c, k, s) /\ (s = "call" => tries[c][k] + 1 < MaxAttempts)
      BY <2>2 DEF Generation!Failed
    <2> QED BY <2>1, <2>2 DEF Generation!Call
  <1>4. /\ tries' \in [Commands -> [Generation!Artifacts -> 0..MaxAttempts]]
        /\ tries'[c][k] = tries[c][k] + 1
        /\ \A d \in Commands, j \in Generation!Artifacts :
             d # c \/ j # k => tries'[d][j] = tries[d][j]
    <2>1. tries \in [Commands -> [Generation!Artifacts -> 0..MaxAttempts]]
      BY <1>0 DEF Generation!TypeOK
    <2>2. tries[c][k] + 1 \in 0..MaxAttempts
      BY <1>2
    <2> QED BY <1>1, <2>1, <2>2
  <1>5. cache' \in [Generation!Artifacts -> Commands \union {Generation!Absent}]
    BY <1>0, <1>1 DEF Generation!TypeOK
  <1>6. /\ s \in Generation!Running \union Generation!Ended
        /\ job[c][k] \in Generation!Running
    BY <1>1 DEF Generation!Running, Generation!Ended
  <1>7. orders[c].noCache \/ orders[c].refresh \/ k \notin keptKeys[c]
    BY <1>0, <1>1 DEF Generation!CacheShape
  <1>20. TaskStep(c, k, s)
    BY <1>1, <1>2, <1>3, <1>4, <1>5, <1>6, <1>7 DEF TaskStep
  <1> QED BY <1>20, GenerationTask

(* A task writes its description to the cache.                             *)
LEMMA GenerationPutStep ==
  ASSUME Generation!IInv, NEW c \in Commands, NEW k \in Generation!Artifacts,
         Generation!Put(c, k)
  PROVE  Generation!IInv'
  <1>0. Generation!TypeOK /\ Generation!CacheShape
    BY GenerationFacts
  <1>1. /\ step[c] = "working" /\ job[c][k] = "put"
        /\ UNCHANGED <<compacted, orders, step, outcome, advanced, tries, scanned, moved,
                       keptKeys, clearedFor>>
    BY DEF Generation!Put
  <1>2. /\ ~orders[c].noCache
        /\ orders[c].refresh \/ k \notin keptKeys[c]
    BY <1>0, <1>1 DEF Generation!CacheShape
  <1>3. PICK s \in {"made", "failed"} :
          /\ Generation!Goes(c, k, s)
          /\ s = "made" => cache' = [cache EXCEPT ![k] = c]
          /\ s = "failed" => cache' = cache
    BY DEF Generation!Put
  <1>4. cache \in [Generation!Artifacts -> Commands \union {Generation!Absent}]
    BY <1>0 DEF Generation!TypeOK
  <1>5. /\ cache' \in [Generation!Artifacts -> Commands \union {Generation!Absent}]
        /\ \A j \in Generation!Artifacts : cache'[j] = cache[j] \/ cache'[j] = c
        /\ s = "made" => cache'[k] = c
    BY <1>3, <1>4
  <1>6. tries' \in [Commands -> [Generation!Artifacts -> 0..MaxAttempts]]
    BY <1>0, <1>1 DEF Generation!TypeOK
  <1>7. /\ s \in Generation!Running \union Generation!Ended
        /\ job[c][k] \in Generation!Running
    BY <1>1 DEF Generation!Running, Generation!Ended
  <1>8. c # Generation!Absent
    BY GenerationAssumption
  <1>20. TaskStep(c, k, s)
    BY <1>1, <1>2, <1>3, <1>5, <1>6, <1>7, <1>8 DEF TaskStep
  <1> QED BY <1>20, GenerationTask

(* Every step of the commands keeps the invariant.                         *)
LEMMA GenerationNext ==
  ASSUME Generation!IInv, Generation!Next
  PROVE  Generation!IInv'
  <1>1. ASSUME NEW c \in Commands, NEW k \in Generation!Artifacts,
               \/ Generation!Acquire(c, k) \/ Generation!Look(c, k)
               \/ Generation!Call(c, k) \/ Generation!Put(c, k)
        PROVE  Generation!IInv'
    BY <1>1, GenerationAcquireStep, GenerationLookStep, GenerationCallStep, GenerationPutStep
  <1>2. ASSUME NEW c \in Commands,
               Generation!Start(c) \/ Generation!Gather(c) \/ Generation!Killed(c)
        PROVE  Generation!IInv'
    BY <1>2, GenerationStartStep, GenerationEndStep
  <1> QED BY <1>1, <1>2, GenerationCompactsStep, GenerationClearStep DEF Generation!Next

(* The invariant holds what the run checks.                                *)
LEMMA GenerationImplies ==
  ASSUME Generation!IInv
  PROVE  /\ Generation!TypeOK /\ Generation!JobsBound /\ Generation!FinishedStaysCached
         /\ Generation!RequestHasCause /\ Generation!AdvanceReported
  <1>0. /\ Generation!TypeOK /\ Generation!TaskShape /\ Generation!CacheShape
        /\ Generation!FinishedStaysCached /\ Generation!AdvanceReported
    BY GenerationFacts
  <1>1. Generation!JobsBound
    <2> SUFFICES ASSUME NEW c \in Commands
                 PROVE  Generation!Cardinality({k \in Generation!Artifacts : job[c][k] = "call"})
                          <= Jobs
      BY DEF Generation!JobsBound
    <2> DEFINE calls == {k \in Generation!Artifacts : job[c][k] = "call"}
    <2>1. /\ Generation!IsFiniteSet(Generation!UnderWay(c))
          /\ Generation!Cardinality(Generation!UnderWay(c)) <= Jobs
      BY <1>0 DEF Generation!TaskShape
    <2>2. IsFiniteSet(Generation!UnderWay(c)) /\ Cardinality(Generation!UnderWay(c)) <= Jobs
      BY <2>1, GenerationSets
    <2>3. calls \subseteq Generation!UnderWay(c)
      BY DEF Generation!UnderWay, Generation!Running
    <2>4. IsFiniteSet(calls) /\ Cardinality(calls) <= Cardinality(Generation!UnderWay(c))
      BY <2>2, <2>3, FS_Subset
    <2>5. Cardinality(calls) \in Nat /\ Cardinality(Generation!UnderWay(c)) \in Nat
      BY <2>2, <2>4, FS_CardinalityType
    <2>6. Cardinality(calls) <= Jobs
      <3> HIDE DEF calls
      <3> QED BY <2>2, <2>4, <2>5, GenerationAssumption
    <2> QED BY <2>6, GenerationSets
  <1>2. Generation!RequestHasCause
    <2>1. \A c \in Commands : keptKeys[c] \subseteq Generation!Artifacts
      BY <1>0 DEF Generation!TypeOK
    <2> QED BY <1>0, <2>1 DEF Generation!RequestHasCause, Generation!CacheShape
  <1> QED BY <1>0, <1>1, <1>2

-----------------------------------------------------------------------------
(* The commands together: a behaviour is that of one of them. *)

everything ==
  <<kind, vars, common, inputOnly, rpcOnly, goalOnly, injectOnly, controlOnly, generationOnly>>

(* A behaviour begins as that of its command.                              *)
LEMMA CommandBegins ==
  ASSUME CommandInit
  PROVE  /\ kind = "input" => Input!Init
         /\ kind = "rpc" => Rpc!Init
         /\ kind = "goal" => Goal!Init
         /\ kind = "inject" => Inject!Init
         /\ kind = "control" => Control!Init
         /\ kind = "generation" => Generation!Init
  BY DEF CommandInit

(* And goes on as that of its command.                                     *)
LEMMA CommandGoesOn ==
  ASSUME [CommandNext]_everything
  PROVE  /\ kind' = kind
         /\ kind = "input" => Input!Next \/ UNCHANGED Input!vars
         /\ kind = "rpc" => Rpc!Next \/ UNCHANGED Rpc!vars
         /\ kind = "goal" => Goal!Next \/ UNCHANGED Goal!vars
         /\ kind = "inject" => Inject!Next \/ UNCHANGED Inject!vars
         /\ kind = "control" => Control!Next \/ UNCHANGED Control!vars
         /\ kind = "generation" => Generation!Next \/ UNCHANGED Generation!vars
  <1>1. CASE CommandNext
    BY <1>1 DEF CommandNext, RecoveryStep, InputStep, RpcStep, GoalStep, InjectStep, ControlStep,
                GenerationStep
  <1>2. CASE UNCHANGED everything
    <2>1. kind' = kind
      BY <1>2 DEF everything
    <2>2. UNCHANGED Input!vars /\ UNCHANGED Rpc!vars /\ UNCHANGED Goal!vars
      BY <1>2 DEF everything, common, inputOnly, rpcOnly, goalOnly, Input!vars, Rpc!vars, Goal!vars
    <2>3. UNCHANGED Inject!vars /\ UNCHANGED Control!vars /\ UNCHANGED Generation!vars
      BY <1>2 DEF everything, common, injectOnly, controlOnly, generationOnly, Inject!vars,
                  Control!vars, Generation!vars
    <2> QED BY <2>1, <2>2, <2>3
  <1> QED BY <1>1, <1>2

(* Nothing happens to the input.                                           *)
LEMMA InputStays ==
  ASSUME Input!IInv, UNCHANGED Input!vars
  PROVE  Input!IInv'
  BY DEF Input!IInv, Input!vars, Input!TypeOK, Input!OneCopy, Input!ClientShape,
         Input!ResultShape, Input!SteerShape, Input!Unsent, Input!Limited

(* Nothing happens to a request.                                           *)
LEMMA ClientStays ==
  ASSUME Rpc!IInv, UNCHANGED Rpc!vars
  PROVE  Rpc!IInv'
  <1>0. Rpc!TypeOK /\ Rpc!AnswerIsOwn /\ Rpc!NotificationsKept /\ Rpc!Numbered /\ Rpc!ExitShape
        /\ Rpc!ExitLosesNoAnswer /\ Rpc!GapShape /\ Rpc!TimeShape
    BY DEF Rpc!IInv
  <1>1. UNCHANGED <<client, nextId, waiting, clock, deadline, looked, late, unanswered, inbox, extras,
                    running, tracked, kept, ended>>
    BY DEF Rpc!vars
  <1>2. Rpc!TypeOK'
    BY <1>0, <1>1
    DEF Rpc!TypeOK, Messages, Rpc!Ids, Rpc!Answers, Rpc!Extras, Rpc!Endings, Rpc!OverPipes
  <1>3. Rpc!AnswerIsOwn' /\ Rpc!ExitShape' /\ Rpc!TimeShape'
    BY <1>0, <1>1 DEF Rpc!AnswerIsOwn, Rpc!ExitShape, Rpc!TimeShape, Rpc!Ids
  <1>4. Rpc!ExitLosesNoAnswer' /\ Rpc!GapShape'
    BY <1>0, <1>1 DEF Rpc!ExitLosesNoAnswer, Rpc!GapShape, Rpc!Ids, Rpc!OverPipes
  <1>5. Rpc!NotificationsKept' /\ Rpc!Numbered'
    BY <1>0, <1>1, NothingRead
  <1> QED BY <1>2, <1>3, <1>4, <1>5 DEF Rpc!IInv

(* Nothing happens to a goal.                                              *)
LEMMA GoalStays ==
  ASSUME Goal!IInv, UNCHANGED Goal!vars
  PROVE  Goal!IInv'
  BY DEF Goal!IInv, Goal!vars, Goal!TypeOK, Goal!WriteShape, Goal!ReplaceShape,
         Goal!ServerShape, Goal!HoldShape

(* Nothing happens to an injector.                                         *)
LEMMA InjectStays ==
  ASSUME Inject!IInv, UNCHANGED Inject!vars
  PROVE  Inject!IInv'
  <1>0. /\ Inject!TypeOK /\ Inject!RequestShape /\ Inject!AllowedShape /\ Inject!MissedShape
        /\ Inject!RepeatHasCause /\ Inject!SentAsPromised /\ Inject!RefusedMeansUnsent
    BY InjectFacts
  <1>1. UNCHANGED <<loaded, active, turned, shown, onDisk, readable, mail, reply, opts, step,
                    outcome, sent, arrived, behind, excused>>
    BY DEF Inject!vars
  <1>2. Inject!TypeOK'
    BY <1>0, <1>1
    DEF Inject!TypeOK, Inject!Options, Inject!Requests, Inject!NothingSent, Inject!Unset
  <1>3. Inject!RequestShape' /\ Inject!SentAsPromised' /\ Inject!RefusedMeansUnsent'
        /\ Inject!RepeatHasCause'
    BY <1>0, <1>1
    DEF Inject!RequestShape, Inject!SentAsPromised, Inject!RefusedMeansUnsent,
        Inject!NothingSent, Inject!RepeatHasCause
  <1>4. Inject!AllowedShape' /\ Inject!MissedShape'
    BY <1>0, <1>1
    DEF Inject!AllowedShape, Inject!OptionsAllowed, Inject!SourceAllowed, Inject!BatchAllowed,
        Inject!ScopeAllowed, Inject!ScopeOf, Inject!Unset, Inject!MissedShape, Inject!Requested
  <1> QED BY <1>2, <1>3, <1>4 DEF Inject!IInv

(* Nothing happens to a terminal, a turn or the settings.                  *)
LEMMA ControlStays ==
  ASSUME Control!IInv, UNCHANGED Control!vars
  PROVE  Control!IInv'
  BY DEF Control!IInv, Control!vars, Control!TypeOK, Control!WorldShape, Control!RequestShape,
         Control!ListedShape, Control!AnswerShape, Control!Over, Control!ProcessIds,
         Control!Items

(* Nothing happens to the descriptions.                                    *)
LEMMA GenerationStays ==
  ASSUME Generation!IInv, UNCHANGED Generation!vars
  PROVE  Generation!IInv'
  <1>0. /\ Generation!TypeOK /\ Generation!StartShape /\ Generation!TaskShape
        /\ Generation!CacheShape /\ Generation!ScanShape
        /\ Generation!FinishedStaysCached /\ Generation!AdvanceReported
    BY GenerationFacts
  <1>1. UNCHANGED <<compacted, cache, orders, step, outcome, advanced, job, tries, scanned, moved,
                    keptKeys, clearedFor>>
    BY DEF Generation!vars
  <1>2. Generation!TypeOK'
    BY <1>0, <1>1
    DEF Generation!TypeOK, Generation!Artifacts, Generation!Orders, Generation!Running,
        Generation!Ended
  <1>3. Generation!StartShape' /\ Generation!CacheShape'
    BY <1>0, <1>1 DEF Generation!StartShape, Generation!CacheShape, Generation!Artifacts
  <1>5. Generation!TaskShape'
    BY <1>0, <1>1 DEF Generation!TaskShape, Generation!UnderWay, Generation!Artifacts
  <1>4. Generation!ScanShape' /\ Generation!FinishedStaysCached' /\ Generation!AdvanceReported'
    BY <1>0, <1>1
    DEF Generation!ScanShape, Generation!Latest, Generation!FinishedStaysCached,
        Generation!AdvanceReported, Generation!Artifacts
  <1> QED BY <1>2, <1>3, <1>4, <1>5 DEF Generation!IInv

-----------------------------------------------------------------------------
(* The theorems. *)

(* What holds of an input whatever the thread, its other clients and the   *)
(* app-server do.                                                          *)
LEMMA InputNext ==
  ASSUME MaxTurns \in Nat \ {0}, Input!IInv, Input!Next
  PROVE  Input!IInv'
  BY InputThreadStep, InputMessageStep, InputServeStep, InputLookStep, InputSendStep,
     InputAnswerStep DEF Input!Next

(* The parts of InputSafe follow.                                          *)
LEMMA InputFacts ==
  ASSUME Input!IInv
  PROVE  /\ Input!TypeOK /\ Input!ResultIsTrue /\ Input!RetryMeansUnsent
         /\ Input!NoUnallowedSteer
  BY DEF Input!IInv, Input!ResultShape, Input!SteerShape, Input!Unsent, Input!Limited,
         Input!ResultIsTrue, Input!RetryMeansUnsent, Input!NoUnallowedSteer

(* The delivery of an input keeps its invariant (delivery.py).             *)
THEOREM InputInvariance == Input!Spec => []Input!IInv
  <1>1. Input!Init => Input!IInv
    BY InputInit, InputAssumption
  <1>2. Input!IInv /\ [Input!Next]_(Input!vars) => Input!IInv'
    BY InputNext, InputStays, InputAssumption
  <1> QED BY <1>1, <1>2, PTL DEF Input!Spec

(* The client, its request and the thread keep to their types.             *)
THEOREM InputTypeCorrect == Input!Spec => []Input!TypeOK
  BY InputInvariance, InputFacts, PTL

(* The turn in a result holds the message, and only a turn that was made   *)
(* for the message is called started.                                      *)
THEOREM ResultSafety == Input!Spec => []Input!ResultIsTrue
  BY InputInvariance, InputFacts, PTL

(* What is tried again, or called refused, was not and will not be sent.   *)
THEOREM UnsentSafety == Input!Spec => []Input!RetryMeansUnsent
  BY InputInvariance, InputFacts, PTL

(* Without permission no turn is steered that ran when the client looked.  *)
THEOREM SteerSafety == Input!Spec => []Input!NoUnallowedSteer
  BY InputInvariance, InputFacts, PTL

(* All of it for the start, steer and input commands of a behaviour of     *)
(* CommandSpec: a result is true, what may be tried again was not sent,    *)
(* and a running turn gets no input that was not allowed to steer it.      *)
THEOREM InputSafety == CommandSpec => []InputSafe
  <1> DEFINE Inv == kind = "input" => Input!IInv
  <1>1. CommandInit => Inv
    BY CommandBegins, InputInit, InputAssumption
  <1>2. Inv /\ [CommandNext]_everything => Inv'
    BY CommandGoesOn, InputNext, InputStays, InputAssumption
  <1>3. Inv => InputSafe
    BY InputFacts DEF InputSafe
  <1> HIDE DEF Inv
  <1> QED BY <1>1, <1>2, <1>3, PTL DEF CommandSpec, everything

(* However the app-server answers, delays, interleaves and exits: a        *)
(* request ends in time and with its own answer, an exit takes no answer   *)
(* with it but one that a child wrote between select and poll, and no      *)
(* tracked notification is lost, repeated or put out of order              *)
(* (appserver.py).                                                         *)
THEOREM ClientSafety == CommandSpec => []ClientSafe
  <1> DEFINE Inv == kind = "rpc" => Rpc!IInv
  <1>1. CommandInit => Inv
    BY CommandBegins, ClientInit
  <1>2. Inv /\ [CommandNext]_everything => Inv'
    <2>1. Rpc!IInv /\ Rpc!Next => Rpc!IInv'
      <3>1. Rpc!IInv /\ Rpc!Polls => Rpc!IInv'
        BY GivesUpStep, LooksStep
      <3> QED BY <3>1, ServerStep, RequestStep, ReceiveStep, GivesUpStep, LooksStep, TickStep
          DEF Rpc!Next
    <2> QED BY <2>1, CommandGoesOn, ClientStays
  <1>3. Inv => ClientSafe
    <2>1. Rpc!IInv => Rpc!EndsInTime
      <3> SUFFICES ASSUME Rpc!TimeShape
                   PROVE  Rpc!EndsInTime
        BY DEF Rpc!IInv
      <3>1. CASE client = "limitctl"
        BY <3>1, ClientAssumption DEF Rpc!TimeShape, Rpc!EndsInTime
      <3>2. CASE client # "limitctl"
        BY <3>2 DEF Rpc!TimeShape, Rpc!EndsInTime
      <3> QED BY <3>1, <3>2
    <2> QED BY <2>1 DEF ClientSafe, Rpc!IInv
  <1> HIDE DEF Inv
  <1> QED BY <1>1, <1>2, <1>3, PTL DEF CommandSpec, everything

(* Whoever else changes the goal or loads the thread: a goal that is       *)
(* replaced is fresh or untouched, the server that holds the thread        *)
(* charges the stored goal, and no command writes through two servers      *)
(* (codex-goalctl).                                                        *)
THEOREM GoalSafety == CommandSpec => []GoalSafe
  <1> DEFINE Inv == kind = "goal" => Goal!IInv
  <1>1. CommandInit => Inv
    BY CommandBegins, GoalInit
  <1>2. Inv /\ [CommandNext]_everything => Inv'
    <2>1. Goal!IInv /\ Goal!Next => Goal!IInv'
      BY GoalOthersStep, GoalLoadsStep, GoalServeStep, GoalConnectStep, GoalWriteStep,
         GoalAnswerStep DEF Goal!Next
    <2> QED BY <2>1, CommandGoesOn, GoalStays
  <1>3. Inv => GoalSafe
    BY DEF GoalSafe, Goal!IInv, Goal!ReplaceShape, Goal!ServerShape, Goal!HoldShape,
           Goal!FreshOrUntouched, Goal!NoAccountingGap, Goal!NeverSwitches
  <1> HIDE DEF Inv
  <1> QED BY <1>1, <1>2, <1>3, PTL DEF CommandSpec, everything

(* However many injectors share a thread that is compacted and written     *)
(* late: a memory is repeated on request or because the first copy was not *)
(* to be seen, what is sent is what the options promise, and what is       *)
(* refused or previewed was not sent (cmd_inject).                         *)
THEOREM InjectSafety == CommandSpec => []InjectSafe
  <1> DEFINE Inv == kind = "inject" => Inject!IInv
  <1>1. CommandInit => Inv
    BY CommandBegins, InjectInit
  <1>2. Inv /\ [CommandNext]_everything => Inv'
    BY CommandGoesOn, InjectNext, InjectStays
  <1>3. Inv => InjectSafe
    BY InjectFacts DEF InjectSafe
  <1> HIDE DEF Inv
  <1> QED BY <1>1, <1>2, <1>3, PTL DEF CommandSpec, everything

(* Whatever starts and ends meanwhile: only the terminal that was named is *)
(* ended, unless its number changed hands after it was listed, what is     *)
(* reported as over is over, and a refused command changed nothing         *)
(* (codex-threadctl terminal, interrupt, config).                          *)
THEOREM ControlSafety == CommandSpec => []ControlSafe
  <1> DEFINE Inv == kind = "control" => Control!IInv
  <1>1. CommandInit => Inv
    BY CommandBegins, ControlInit
  <1>2. Inv /\ [CommandNext]_everything => Inv'
    <2>1. Control!IInv /\ Control!Next => Control!IInv'
      BY ControlThreadStep, ControlTerminalStep, ControlServeStep, ControlTerminateStep,
         ControlLookStep, ControlSendStep, ControlAnswerStep DEF Control!Next
    <2> QED BY <2>1, CommandGoesOn, ControlStays
  <1>3. Inv => ControlSafe
    BY DEF ControlSafe, Control!IInv, Control!ListedShape, Control!AnswerShape, Control!Over,
           Control!EndsOnlyTheNamed, Control!ReportedIsOver, Control!RefusedMeansUnchanged
  <1> HIDE DEF Inv
  <1> QED BY <1>1, <1>2, <1>3, PTL DEF CommandSpec, everything

(* For any number of commands that share the cache, jobs and attempts:     *)
(* there are no more requests than jobs, no description that was finished  *)
(* is lost or asked for again without need, and a command whose thread has *)
(* gone on says so (generated_commands.py, generation.py, cache.py).       *)
THEOREM GenerationSafety == CommandSpec => []GenerationSafe
  <1> DEFINE Inv == kind = "generation" => Generation!IInv
  <1>1. CommandInit => Inv
    BY CommandBegins, GenerationInit
  <1>2. Inv /\ [CommandNext]_everything => Inv'
    BY CommandGoesOn, GenerationNext, GenerationStays
  <1>3. Inv => GenerationSafe
    BY GenerationImplies DEF GenerationSafe
  <1> HIDE DEF Inv
  <1> QED BY <1>1, <1>2, <1>3, PTL DEF CommandSpec, everything
=============================================================================
