------------------------------ MODULE RpcClient ------------------------------
(***************************************************************************)
(* The request clients: one connection to the app-server, over a websocket *)
(* (threadctl and the tools built on it, and goalctl with a shared         *)
(* server), over the pipes of a child process (goalctl with a server of    *)
(* its own), and over pipes with one deadline for the whole exchange       *)
(* (limitctl).  A client has one request under way.                        *)
(* The app-server answers in any order, also after the client has given a  *)
(* request up, and sends notifications and requests of its own in between; *)
(* all of it arrives in the order it was sent.  threadctl keeps the        *)
(* notifications confirm_input and confirm_wake look for.                  *)
(***************************************************************************)
EXTENDS Integers, Sequences

CONSTANTS
  Timeout,      \* of a request, in ticks
  MaxRequests,  \* bound: requests of the client
  MaxExtras     \* bound: messages of the app-server that answer nothing

VARIABLES
  client,       \* threadctl, goalctl, goalctl with a child, or limitctl
  nextId,       \* id of the next request
  waiting,      \* id of the request under way, or 0
  clock, deadline,
  looked,       \* select found nothing to read, and the exit is to be polled
  late,         \* requests answered since select found nothing (external)
  unanswered,   \* requests the app-server has yet to answer (external)
  inbox,        \* messages on the connection, oldest first (external)
  extras,       \* messages sent that answer nothing (external)
  running,      \* the app-server runs (external)
  tracked,      \* the tracked notifications it sent (external)
  kept,         \* turn_notifications
  ended         \* what each request ended with

server == <<unanswered, inbox, extras, running, tracked>>
vars == <<client, nextId, waiting, clock, deadline, looked, late, unanswered, inbox, extras,
          running, tracked, kept, ended>>

Ids == 1..MaxRequests
Clients == {"threadctl", "goalctl", "goalctlChild", "limitctl"}
OverPipes == client \in {"goalctlChild", "limitctl"}

(* An answer has the id of its request; a notification has a number here   *)
(* to tell it from the others; a request of the app-server has an id of    *)
(* its own counting, which may be that of the request under way.           *)
Answers == [type : {"result", "error", "nothing"}, of : Ids]
Extras == [type : {"tracked", "untracked", "ask", "broken"}, of : 1..MaxExtras]

Endings == [how : {"none", "result", "error", "invalid", "timeout", "exited"}, of : Ids \union {0}]

TypeOK ==
  /\ client \in Clients
  /\ nextId \in 1..(MaxRequests + 1) /\ waiting \in 0..(nextId - 1)
  /\ clock \in Nat /\ deadline \in Nat
  /\ looked \in BOOLEAN /\ late \subseteq Ids
  /\ looked => OverPipes /\ waiting # 0
  /\ unanswered \subseteq Ids /\ inbox \in Seq(Answers \union Extras)
  /\ extras \in 0..MaxExtras /\ running \in BOOLEAN
  /\ tracked \in Seq(1..MaxExtras) /\ kept \in Seq(1..MaxExtras)
  /\ ended \in [Ids -> Endings]
  /\ \A i \in Ids : ended[i].how = "none" <=> i = waiting \/ i >= nextId

Init ==
  /\ client \in Clients
  /\ nextId = 1 /\ waiting = 0 /\ clock = 0 /\ deadline = Timeout
  /\ looked = FALSE /\ late = {}
  /\ unanswered = {} /\ inbox = <<>> /\ extras = 0 /\ running = TRUE
  /\ tracked = <<>> /\ kept = <<>>
  /\ ended = [i \in Ids |-> [how |-> "none", of |-> 0]]

-----------------------------------------------------------------------------
(* The app-server (external). *)

Put(m) == inbox' = Append(inbox, m)

ServerAnswers ==
  /\ running
  /\ \E i \in unanswered, how \in {"result", "error", "nothing"} :
       /\ unanswered' = unanswered \ {i}
       /\ Put([type |-> how, of |-> i])
       /\ late' = IF looked THEN late \union {i} ELSE late
  /\ UNCHANGED <<client, nextId, waiting, clock, deadline, looked, extras, running, tracked, kept,
                 ended>>

ServerSpeaks ==
  /\ running /\ extras < MaxExtras
  /\ extras' = extras + 1
  /\ \E type \in {"tracked", "untracked", "ask", "broken"} :
       /\ Put([type |-> type, of |-> extras'])
       /\ tracked' = IF type = "tracked" THEN Append(tracked, extras') ELSE tracked
  /\ UNCHANGED <<client, nextId, waiting, clock, deadline, looked, late, unanswered, running, kept,
                 ended>>

ServerExits ==
  /\ running /\ running' = FALSE
  /\ UNCHANGED <<client, nextId, waiting, clock, deadline, looked, late, unanswered, inbox, extras,
                 tracked, kept, ended>>

-----------------------------------------------------------------------------
(* The client. *)

(* Mutant of Deadline: limitctl gives every request its whole timeout.     *)
DeadlineAnew == clock + Timeout

(* read_account spreads one timeout over its requests. *)
Deadline == IF client = "limitctl" THEN deadline ELSE clock + Timeout

(* Nothing is sent to a connection that is gone or past the deadline.      *)
Request ==
  /\ waiting = 0 /\ nextId \in Ids /\ running
  /\ client = "limitctl" => clock < deadline
  /\ waiting' = nextId /\ nextId' = nextId + 1
  /\ unanswered' = unanswered \union {nextId}
  /\ deadline' = Deadline
  /\ UNCHANGED <<client, clock, looked, late, inbox, extras, running, tracked, kept, ended>>

Finish(how, id) ==
  /\ ended' = [ended EXCEPT ![waiting] = [how |-> how, of |-> id]]
  /\ waiting' = 0

(* Mutant of IsForUs: any answer will do.                                  *)
IsForUsAny(m) == m.type \in {"result", "error", "nothing"}

IsForUs(m) == m.type \in {"result", "error", "nothing"} /\ m.of = waiting

(* Mutant of Kept: the newest notification goes first.                     *)
KeptReversed(m) == IF client = "threadctl" /\ m.type = "tracked" THEN <<m.of>> \o kept ELSE kept

Kept(m) == IF client = "threadctl" /\ m.type = "tracked" THEN Append(kept, m.of) ELSE kept

(* The loop of request and wait_for: what has a method is kept or passed   *)
(* over, so is the answer to another request.                              *)
Receive ==
  /\ waiting # 0 /\ ~looked /\ inbox # <<>> /\ clock < deadline
  /\ LET m == Head(inbox)
     IN  /\ inbox' = Tail(inbox)
         /\ kept' = Kept(m)
         /\ CASE m.type = "broken" -> Finish("invalid", 0)
              [] IsForUs(m) ->
                   Finish(IF m.type = "nothing" THEN "invalid" ELSE m.type, m.of)
              [] OTHER -> UNCHANGED <<ended, waiting>>
  /\ UNCHANGED <<client, nextId, clock, deadline, looked, late, unanswered, extras, running, tracked>>

TimesOut ==
  /\ waiting # 0 /\ ~looked /\ clock >= deadline
  /\ Finish("timeout", 0)
  /\ UNCHANGED <<client, nextId, clock, deadline, looked, late, server, kept>>

(* Mutant of Drained: the exit is noticed before the output is read.       *)
DrainedAnyway == TRUE

Drained == inbox = <<>>

(* Over a websocket the end of the connection comes after all that was     *)
(* sent before it.                                                         *)
SeesExit ==
  /\ ~OverPipes /\ waiting # 0 /\ ~running /\ Drained
  /\ Finish("exited", 0)
  /\ UNCHANGED <<client, nextId, clock, deadline, looked, late, server, kept>>

(* Over pipes wait_for has select tell that there is nothing to read, and  *)
(* polls the exit of the child after that, whatever the child does between *)
(* the two.                                                                *)
Looks ==
  /\ OverPipes /\ waiting # 0 /\ ~looked /\ Drained /\ clock < deadline
  /\ looked' = TRUE /\ late' = {}
  /\ UNCHANGED <<client, nextId, waiting, clock, deadline, server, kept, ended>>

Polls ==
  /\ looked /\ looked' = FALSE
  /\ IF running THEN UNCHANGED <<ended, waiting>> ELSE Finish("exited", 0)
  /\ UNCHANGED <<client, nextId, clock, deadline, late, server, kept>>

Tick ==
  /\ waiting # 0 /\ clock < deadline
  /\ clock' = clock + 1
  /\ UNCHANGED <<client, nextId, waiting, deadline, looked, late, server, kept, ended>>

Next ==
  \/ ServerAnswers \/ ServerSpeaks \/ ServerExits
  \/ Request \/ Receive \/ TimesOut \/ SeesExit \/ Looks \/ Polls \/ Tick

Spec == Init /\ [][Next]_vars

-----------------------------------------------------------------------------
(* Properties. *)

(* What a request returns is the answer to that request, never a late      *)
(* answer to one given up before, nor a request of the app-server that     *)
(* happens to have its id.                                                 *)
AnswerIsOwn ==
  \A i \in Ids : ended[i].how \in {"result", "error"} => ended[i].of = i

(* No tracked notification is lost, repeated or put out of order, even if  *)
(* it arrives before, between or after answers to requests given up: those *)
(* kept are the first of those sent, and the others are still to be read,  *)
(* in the order they were sent.                                            *)
Unread == {k \in 1..Len(inbox) : inbox[k].type = "tracked"}

NotificationsKept ==
  client = "threadctl" =>
    /\ Len(kept) <= Len(tracked) /\ \A j \in 1..Len(kept) : kept[j] = tracked[j]
    /\ {inbox[k].of : k \in Unread} = {tracked[j] : j \in (Len(kept) + 1)..Len(tracked)}
    /\ \A j, k \in Unread : j < k => inbox[j].of < inbox[k].of
    /\ \A j, k \in 1..Len(tracked) : j < k => tracked[j] < tracked[k]

(* A request that fails because the app-server is gone was not answered    *)
(* before: the last output of a dying app-server is still read.  The one   *)
(* exception is a child that answers after select found nothing and exits  *)
(* before the poll: that answer, and no older one, is lost.                *)
ExitLosesNoAnswer ==
  \A i \in Ids : ended[i].how = "exited" =>
    \A k \in 1..Len(inbox) :
      inbox[k].type \in {"result", "error"} /\ inbox[k].of = i => OverPipes /\ i \in late

(* limitctl has its answer or gives up within one timeout however many     *)
(* requests that takes; the others within one timeout for each.            *)
EndsInTime == clock <= Timeout * (IF client = "limitctl" THEN 1 ELSE nextId - 1)
-----------------------------------------------------------------------------
(* The inductive invariant that the theorems in CommandsProofs rest on.    *)

(* The numbers of the notifications grow, so that there is always a next   *)
(* one and it is the first of its kind in the inbox.                       *)
Numbered ==
  /\ \A j \in 1..Len(tracked) : tracked[j] <= extras
  /\ \A k \in Unread : inbox[k].of <= extras

(* What arrived since select found nothing is what was sent since then;    *)
(* and after the exit was seen nothing is asked or sent any more.          *)
GapShape ==
  looked => \A k \in 1..Len(inbox) :
              inbox[k].type \in {"result", "error", "nothing"} => inbox[k].of \in late

ExitShape ==
  \A i \in Ids : ended[i].how = "exited" => ~running /\ waiting = 0

(* The time a client may still take is within what it was given.           *)
TimeShape ==
  /\ client = "limitctl" => deadline = Timeout /\ clock <= Timeout
  /\ client # "limitctl" =>
       /\ clock <= Timeout * (nextId - 1)
       /\ waiting # 0 => deadline <= Timeout * (nextId - 1)

IInv ==
  /\ TypeOK /\ AnswerIsOwn /\ NotificationsKept /\ ExitLosesNoAnswer
  /\ Numbered /\ GapShape /\ ExitShape /\ TimeShape
=============================================================================
