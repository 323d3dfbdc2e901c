------------------------------- MODULE Streams -------------------------------
(***************************************************************************)
(* One stream of streamctl (state.py) and the processes that use it.  The  *)
(* streams of a database are independent, so one is enough.                *)
(*                                                                         *)
(* append and ack are SQLite write transactions: BEGIN IMMEDIATE takes the *)
(* only write lock, and what the transaction wrote becomes visible to      *)
(* others in one step when it commits.  A process that dies before that    *)
(* leaves nothing.  list reads a snapshot of the committed state and waits *)
(* for nobody.                                                             *)
(*                                                                         *)
(* Around the commands stands the protocol the documentation asks callers  *)
(* to follow.  A writer that lost the result of an append looks for its    *)
(* entry before it appends again.  A reader lists after its durable        *)
(* acknowledgement or re-reads from an older position, and acknowledges    *)
(* the last position it was given, if it was given any.  Several sessions  *)
(* may share one reader identity.                                          *)
(***************************************************************************)
EXTENDS Integers, FiniteSets

CONSTANTS
  Writers,     \* callers of append
  Messages,    \* Messages[w]: number of messages w publishes, one after the other
  Sessions,    \* processes that list and acknowledge
  Readers,     \* reader identities
  ReaderOf,    \* ReaderOf[s]: the reader identity a session uses
  Limit,       \* list --limit, 0 for no limit
  NoWriter     \* the write lock is free

ASSUME WritersAssumption ==
  NoWriter \notin Writers \union Sessions /\ Messages \in [Writers -> Nat]
ASSUME SessionsAssumption == ReaderOf \in [Sessions -> Readers] /\ Writers \cap Sessions = {}
ASSUME LimitAssumption == Limit \in Nat

VARIABLES
  created,   \* the streams row exists
  tail,      \* column tail_position
  entries,   \* entries[p]: row of the entries table, p in the set of its positions
  ack,       \* ack[r]: column ack_through, 0 when the reader has no row
  lock,      \* who holds SQLite's write lock
  wpc,       \* wpc[w]: where the append of w is
  next,      \* next[w]: the message w is publishing
  draft,     \* draft[w]: the row its transaction has inserted and not committed
  spc,       \* spc[s]: where the session is
  view,      \* view[s]: what list returned: the positions and lastPosition
  seen       \* seen[r]: positions returned to a session of r that acknowledged them

table == <<created, tail, entries, ack>>
writing == <<wpc, next, draft>>
reading == <<spc, view, seen>>
vars == <<created, tail, entries, ack, lock, wpc, next, draft, spc, view, seen>>

NoDraft == [position |-> 0, author |-> NoWriter, text |-> 0, replyTo |-> 0]
NoView == [last |-> 0, got |-> {}]

Row == [position : Nat, author : Writers, text : Nat, replyTo : Nat]

TypeOK ==
  /\ created \in BOOLEAN
  /\ tail \in Nat
  /\ DOMAIN entries \subseteq Nat /\ \A p \in DOMAIN entries : entries[p] \in Row
  /\ ack \in [Readers -> Nat]
  /\ lock \in Writers \union Sessions \union {NoWriter}
  /\ wpc \in [Writers -> {"idle", "begun", "inserted", "unsure"}]
  /\ next \in [Writers -> Nat]
  /\ draft \in [Writers -> Row \union {NoDraft}]
  /\ spc \in [Sessions -> {"idle", "listed", "begun"}]
  /\ view \in [Sessions -> [last : Nat, got : SUBSET Nat]]
  /\ seen \in [Readers -> SUBSET Nat]

Init ==
  /\ created = FALSE /\ tail = 0 /\ entries = [p \in 1..0 |-> 0]
  /\ ack = [r \in Readers |-> 0]
  /\ lock = NoWriter
  /\ wpc = [w \in Writers |-> "idle"]
  /\ next = [w \in Writers |-> 1]
  /\ draft = [w \in Writers |-> NoDraft]
  /\ spc = [s \in Sessions |-> "idle"]
  /\ view = [s \in Sessions |-> NoView]
  /\ seen = [r \in Readers |-> {}]

Create ==
  /\ ~created
  /\ created' = TRUE
  /\ UNCHANGED <<tail, entries, ack, lock, writing, reading>>

-----------------------------------------------------------------------------
(* append *)

BeginAppend(w) ==
  /\ created
  /\ wpc[w] = "idle" /\ next[w] <= Messages[w]
  /\ lock = NoWriter
  /\ lock' = w
  /\ wpc' = [wpc EXCEPT ![w] = "begun"]
  /\ UNCHANGED <<table, next, draft, reading>>

Positions == DOMAIN entries

(* Mutant of ReplyExists: any position a reader may have heard of.         *)
ReplyPlausible(p) == p = 0 \/ p <= tail + 1

(* 0 stands for an entry that is no reply. *)
ReplyExists(p) == p = 0 \/ p \in Positions

(* Reads the tail, checks the reply, inserts the entry.  A row that is     *)
(* already there (PRIMARY KEY) makes the insert fail.                      *)
InsertEntry(w) ==
  /\ wpc[w] = "begun"
  /\ tail + 1 \notin Positions
  /\ \E replyTo \in 0..(tail + 1) :
       /\ ReplyExists(replyTo)
       /\ draft' = [draft EXCEPT ![w] =
            [position |-> tail + 1, author |-> w, text |-> next[w], replyTo |-> replyTo]]
  /\ wpc' = [wpc EXCEPT ![w] = "inserted"]
  /\ UNCHANGED <<table, lock, next, reading>>

Inserted(row) ==
  [p \in Positions \union {row.position} |-> IF p = row.position THEN row ELSE entries[p]]

(* Mutant of TailAfter: the tail is written in a transaction of its own,   *)
(* which a crash can prevent.                                              *)
TailNotMoved(row) == tail

TailAfter(row) == row.position

(* The entry and the new tail become visible together.  The caller may or  *)
(* may not learn of it.                                                    *)
CommitAppend(w) ==
  /\ wpc[w] = "inserted"
  /\ entries' = Inserted(draft[w])
  /\ tail' = TailAfter(draft[w])
  /\ lock' = NoWriter
  /\ draft' = [draft EXCEPT ![w] = NoDraft]
  /\ \/ /\ wpc' = [wpc EXCEPT ![w] = "idle"]
        /\ next' = [next EXCEPT ![w] = @ + 1]
     \/ /\ wpc' = [wpc EXCEPT ![w] = "unsure"]
        /\ UNCHANGED next
  /\ UNCHANGED <<created, ack, reading>>

(* An error or the death of the process rolls back.  The caller may know   *)
(* (it was told of the error) or not (the process died).                   *)
AbortAppend(w) ==
  /\ wpc[w] \in {"begun", "inserted"}
  /\ lock' = NoWriter
  /\ draft' = [draft EXCEPT ![w] = NoDraft]
  /\ \E step \in {"idle", "unsure"} : wpc' = [wpc EXCEPT ![w] = step]
  /\ UNCHANGED <<table, next, reading>>

(* Mutant of Found: the caller retries without looking.                    *)
NeverFound(w) == FALSE

Found(w) == \E p \in Positions : entries[p].author = w /\ entries[p].text = next[w]

(* An unsure caller lists the stream and takes the message as published    *)
(* if it finds it.                                                         *)
Reconcile(w) ==
  /\ wpc[w] = "unsure"
  /\ wpc' = [wpc EXCEPT ![w] = "idle"]
  /\ next' = IF Found(w) THEN [next EXCEPT ![w] = @ + 1] ELSE next
  /\ UNCHANGED <<table, lock, draft, reading>>

-----------------------------------------------------------------------------
(* list and ack *)

(* Mutant of Page: the listing includes the position it starts after.      *)
PageFrom(after) ==
  LET rest == {p \in Positions : p >= after}
  IN  IF Limit = 0 THEN rest
      ELSE {p \in rest : Cardinality({q \in rest : q < p}) < Limit}

(* Position > after ORDER BY position LIMIT ? *)
Page(after) ==
  LET rest == {p \in Positions : p > after}
  IN  IF Limit = 0 THEN rest
      ELSE {p \in rest : Cardinality({q \in rest : q < p}) < Limit}

(* Mutants of LastGiven: the tail instead of the last entry returned; the  *)
(* position before the first one when nothing was.                         *)
TailGiven(page) == tail
LastOrBefore(page) ==
  IF page = {} THEN -1 ELSE CHOOSE p \in page : \A q \in page : q <= p

(* lastPosition; 0 stands for null. *)
LastGiven(page) ==
  IF page = {} THEN 0 ELSE CHOOSE p \in page : \A q \in page : q <= p

(* One snapshot gives the tail, the acknowledgement and the entries.       *)
(* Without --after the listing starts at the acknowledgement.              *)
List(s) ==
  /\ created
  /\ spc[s] = "idle"
  /\ \E after \in 0..ack[ReaderOf[s]] :
       /\ after <= tail
       /\ view' = [view EXCEPT ![s] =
            [last |-> LastGiven(Page(after)), got |-> Page(after)]]
  /\ spc' = [spc EXCEPT ![s] = "listed"]
  /\ UNCHANGED <<table, lock, writing, seen>>

(* The session has nothing to acknowledge, gives up or dies.               *)
DropView(s) ==
  /\ spc[s] = "listed"
  /\ spc' = [spc EXCEPT ![s] = "idle"]
  /\ view' = [view EXCEPT ![s] = NoView]
  /\ UNCHANGED <<table, lock, writing, seen>>

BeginAck(s) ==
  /\ spc[s] = "listed"
  /\ view[s].got # {}
  /\ lock = NoWriter
  /\ lock' = s
  /\ spc' = [spc EXCEPT ![s] = "begun"]
  /\ UNCHANGED <<table, writing, view, seen>>

(* Mutant of AckAfter: the position asked for replaces the saved one.      *)
AckReplaced(r, through) == through

AckAfter(r, through) == IF through > ack[r] THEN through ELSE ack[r]

CommitAck(s) ==
  /\ spc[s] = "begun"
  /\ view[s].last <= tail
  /\ LET r == ReaderOf[s]
     IN  /\ ack' = [ack EXCEPT ![r] = AckAfter(r, view[s].last)]
         /\ seen' = [seen EXCEPT ![r] = @ \union view[s].got]
  /\ lock' = NoWriter
  /\ spc' = [spc EXCEPT ![s] = "idle"]
  /\ view' = [view EXCEPT ![s] = NoView]
  /\ UNCHANGED <<created, tail, entries, writing>>

AbortAck(s) ==
  /\ spc[s] = "begun"
  /\ lock' = NoWriter
  /\ spc' = [spc EXCEPT ![s] = "idle"]
  /\ view' = [view EXCEPT ![s] = NoView]
  /\ UNCHANGED <<table, writing, seen>>

WriterStep(w) ==
  BeginAppend(w) \/ InsertEntry(w) \/ CommitAppend(w) \/ AbortAppend(w) \/ Reconcile(w)

SessionStep(s) == List(s) \/ DropView(s) \/ BeginAck(s) \/ CommitAck(s) \/ AbortAck(s)

Next ==
  \/ Create
  \/ \E w \in Writers : WriterStep(w)
  \/ \E s \in Sessions : SessionStep(s)

Spec == Init /\ [][Next]_vars

-----------------------------------------------------------------------------
(* Properties. *)

(* The positions of a stream are 1, 2, ..., tail without a gap, also while *)
(* appends overlap, fail and die half way.                                 *)
Contiguous == Positions = 1..tail

(* A reply points to an entry that was there before it. *)
RepliesPointBack ==
  \A p \in Positions : entries[p].replyTo \in 0..(p - 1)

(* The stream is what its readers take it for: rows of the table, numbered *)
(* without a gap, whose replies lead back.                                 *)
WellFormed == TypeOK /\ Contiguous /\ RepliesPointBack

(* What the acknowledgement of a reader covers was returned to a session   *)
(* of that reader which then acknowledged it: no entry is passed over,     *)
(* whichever sessions share the identity and however stale their listings  *)
(* are.                                                                    *)
NothingPassedOver ==
  \A r \in Readers : 1..ack[r] \subseteq seen[r] /\ ack[r] <= tail

(* A writer that reconciles before it retries publishes no message twice   *)
(* and drops none.                                                         *)
PublishedOnce ==
  \A w \in Writers : \A n \in 1..Messages[w] :
    LET copies == {p \in Positions : entries[p].author = w /\ entries[p].text = n}
    IN  /\ Cardinality(copies) <= 1
        /\ n < next[w] => copies # {}

(* The stream is a log that only grows, with cursors that only advance.    *)
Log == INSTANCE StreamLog WITH
  Entries <- Row, size <- tail, log <- entries, mark <- ack
ImplementsLog == Log!LogSpec

=============================================================================
