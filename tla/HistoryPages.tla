---------------------------- MODULE HistoryPages ----------------------------
(***************************************************************************)
(* codex-threadctl items, messages, message and inspect (history.py): a    *)
(* reader fetches the history of a thread page by page, newest items       *)
(* first, and stops as soon as it has enough, while the thread goes on.    *)
(* Servers differ in what they can list, and the reader falls back from    *)
(* one listing to another.  The reader names items by their locators       *)
(* (turn and item id), which may repeat within a turn; here id is the      *)
(* locator, as a number: the place of the first item that has it.  Cursors *)
(* name places that growth at the end does not move.                       *)
(***************************************************************************)
EXTENDS Integers, Sequences, FiniteSets

CONSTANTS
  GivenQueries,    \* what the reader may have been asked for
  PageItems,       \* items in a page of items; a page of turns has one turn
  MaxStart, MaxItems, MaxGlitches   \* bounds: history at first and at last, wrong cursors

VARIABLES
  log, server, glitches,   \* the history, and what the server can list (external)
  query, pc,
  first, low,     \* the items the reader has: low..first, or the first ones of a turn
  cursors, pages, \* the cursors it was given, and the pages it asked for
  result, outcome,
  began           \* the length of the history when the reader began

vars == <<log, server, glitches, query, pc, first, low, cursors, pages, result, outcome, began>>

Types == {"userMessage", "agentMessage"}
NoItem == 0
NoTurn == 0
Queries ==
  [kind : {"items", "inspect"}, turn : Nat, after : Nat, before : Nat, types : SUBSET Types,
   limit : Nat]

(* items: full (with their turns), bare, or not at all. *)
Servers == [items : {"full", "bare", "no"}, turns : BOOLEAN]

TypeOK ==
  /\ log \in Seq([turn : Nat, id : Nat, type : Types]) /\ Len(log) <= MaxItems
  /\ server \in Servers /\ glitches \in 0..MaxGlitches /\ query \in Queries
  /\ pc \in {"items", "turns", "exact", "find", "whole", "newest", "inspect", "done"}
  /\ first \in 0..Len(log) /\ low \in 1..(Len(log) + 1) /\ low <= first + 1
  /\ cursors \subseteq 1..MaxItems /\ pages \in Nat /\ began \in 0..Len(log)
  /\ result \subseteq low..first /\ outcome \in {"none", "ok", "error"}
  /\ (pc = "done") = (outcome # "none")

Histories(n) ==
  {h \in [1..n -> [turn : 1..n, id : 1..n, type : Types]] :
     /\ n > 0 => h[1].turn = 1
     /\ \A i \in 1..(n - 1) : h[i + 1].turn \in {h[i].turn, h[i].turn + 1}
     /\ \A i \in 1..n :
          h[i].id = i \/ \E j \in 1..(i - 1) : h[j].turn = h[i].turn /\ h[i].id = h[j].id}

Begin(q) ==
  CASE q.kind = "inspect" -> "newest"
    [] q.turn # NoTurn -> "exact"
    [] OTHER -> "items"

Init ==
  /\ log \in UNION {Histories(n) : n \in 0..MaxStart}
  /\ server \in Servers /\ glitches = 0
  /\ query \in GivenQueries /\ pc = Begin(query)
  /\ first = 0 /\ low = 1 /\ cursors = {} /\ pages = 0
  /\ result = {} /\ outcome = "none" /\ began = Len(log)

-----------------------------------------------------------------------------
(* The thread (external).  Its next item is in the last turn or a new one, *)
(* and in the last turn its locator may be there already.                  *)

Grows ==
  /\ pc # "done" /\ Len(log) < MaxItems
  /\ \E type \in Types, step \in 0..1 :
       LET turn == IF log = <<>> THEN 1 ELSE log[Len(log)].turn + step
       IN  \E id \in {Len(log) + 1} \union {log[i].id : i \in {j \in DOMAIN log : log[j].turn = turn}} :
             log' = Append(log, [turn |-> turn, id |-> id, type |-> type])
  /\ UNCHANGED <<server, glitches, query, pc, first, low, cursors, pages, result, outcome, began>>

-----------------------------------------------------------------------------
(* The selection (range_entries, matches_type, limit) from the items E. *)

Matches(i) == query.types = {} \/ log[i].type \in query.types

(* Where the items E have a locator; the newest place counts when there    *)
(* are several, which no answer does that comes from all of them.          *)
Places(id, E) == {i \in E : log[i].id = id}
At(id, E) == CHOOSE i \in Places(id, E) : \A j \in Places(id, E) : j <= i

InRange(i, E) ==
  /\ query.after # NoItem => i > At(query.after, E)
  /\ query.before # NoItem => i < At(query.before, E)

Earliest(S, n) == {i \in S : Cardinality({j \in S : j <= i}) <= n}
Newest(S, n) == {i \in S : Cardinality({j \in S : j >= i}) <= n}
Limited(S) ==
  CASE query.limit = 0 -> S
    [] query.limit # 0 /\ query.after # NoItem -> Earliest(S, query.limit)
    [] OTHER -> Newest(S, query.limit)

(* resolve: a bound that is missing or ambiguous is an error. *)
Resolves(id, E) == id # NoItem => \E i \in E : Places(id, E) = {i}

Bounded(E) ==
  /\ Resolves(query.after, E) /\ Resolves(query.before, E)
  /\ query.after # NoItem /\ query.before # NoItem => At(query.after, E) < At(query.before, E)

Selected(E) == Limited({i \in E : InRange(i, E) /\ Matches(i)})

(* Mutant of Ends: the reader ends without saying how.                     *)
EndsSilently(how, entries) == pc' = "done" /\ result' = entries /\ UNCHANGED outcome

Ends(how, entries) == pc' = "done" /\ outcome' = how /\ result' = entries

Answers(E) == IF Bounded(E) THEN Ends("ok", Selected(E)) ELSE Ends("error", {})

Fails == Ends("error", {}) /\ UNCHANGED <<glitches, first, low, cursors, pages>>

Goes(step) ==
  /\ pc' = step /\ first' = 0 /\ low' = 1 /\ cursors' = {} /\ pages' = 0
  /\ UNCHANGED <<glitches, result, outcome>>

-----------------------------------------------------------------------------
(* Pages, newest first. *)

Top == IF pages = 0 THEN Len(log) ELSE first
Above == IF pages = 0 THEN Len(log) ELSE low - 1

TurnStart(i) == CHOOSE j \in 1..i : log[j].turn = log[i].turn
                                    /\ \A k \in 1..(j - 1) : log[k].turn # log[i].turn

(* The lowest item of the page under Above. *)
ItemPage == IF Above > PageItems THEN Above - PageItems + 1 ELSE 1
TurnPage == IF Above = 0 THEN 1 ELSE TurnStart(Above)

(* Mutant of NewCursor: a cursor is followed although it was given before. *)
AnyCursor(cursor) == TRUE

(* next_cursor: a cursor that was given before is an error.                *)
NewCursor(cursor) == cursor \notin cursors

Found(E) ==
  /\ query.after # NoItem => Places(query.after, E) # {}
  /\ query.before # NoItem => Places(query.before, E) # {}

(* Mutant of Enough: items of every type fill the limit.                   *)
EnoughOfAnyType(E) ==
  /\ Found(E)
  /\ \/ query.after # NoItem
     \/ query.limit # 0 /\ (Bounded(E) => Cardinality({i \in E : InRange(i, E)}) >= query.limit)

(* The bounds were found, and the limit can be filled from what is there   *)
(* or there is no range to fill it from.                                   *)
Enough(E) ==
  /\ Found(E)
  /\ \/ query.after # NoItem
     \/ /\ query.limit # 0
        /\ Bounded(E) => Cardinality({i \in E : InRange(i, E) /\ Matches(i)}) >= query.limit

(* One page down to bottom; enough, or the end of the history, ends the    *)
(* reading with the answer; a wrong cursor ends it without one.            *)
Page(bottom, enough, answer) ==
  /\ first' = Top /\ low' = bottom /\ pages' = pages + 1
  /\ IF enough \/ bottom = 1
     THEN answer /\ UNCHANGED <<glitches, cursors>>
     ELSE \E cursor \in {bottom} \union (IF glitches < MaxGlitches THEN cursors ELSE {}) :
            /\ glitches' = IF cursor = bottom THEN glitches ELSE glitches + 1
            /\ IF NewCursor(cursor)
               THEN cursors' = cursors \union {cursor} /\ UNCHANGED <<pc, result, outcome>>
               ELSE Ends("error", {}) /\ UNCHANGED cursors

(* native_thread_entries; without turns the items are of no use here.      *)
ReadItems ==
  /\ pc = "items"
  /\ IF server.items = "full" \/ (server.items = "bare" /\ log = <<>>)
     THEN Page(ItemPage, Enough(ItemPage..Top), Answers(ItemPage..Top))
     ELSE Goes("turns")
  /\ UNCHANGED <<log, server, query, began>>

(* bounded_turn_entries, recent_turn_entries, all_turn_entries.            *)
ReadTurns ==
  /\ pc = "turns"
  /\ IF server.turns THEN Page(TurnPage, Enough(TurnPage..Top), Answers(TurnPage..Top)) ELSE Fails
  /\ UNCHANGED <<log, server, query, began>>

-----------------------------------------------------------------------------
(* One turn (exact_turn_entries): its items, first ones first, then the    *)
(* turn itself; or the whole turn at once.                                 *)

Turn == {i \in DOMAIN log : log[i].turn = query.turn}

(* Mutant of MoreOfTurn: one page is taken for the whole turn.             *)
MoreOfTurnNever(upTo) == FALSE

MoreOfTurn(upTo) == upTo + 1 \in Turn

ReadExact ==
  /\ pc = "exact"
  /\ IF server.items = "no" THEN Goes("whole")
     ELSE IF Turn = {}
     THEN pc' = "find" /\ UNCHANGED <<glitches, first, low, cursors, pages, result, outcome>>
     ELSE LET start == CHOOSE i \in Turn : \A j \in Turn : i <= j
              from == IF pages = 0 THEN start ELSE first + 1
              upTo == CHOOSE i \in {j \in Turn : j >= from /\ j < from + PageItems} :
                        \A j \in Turn : j < from + PageItems => j <= i
          IN  /\ low' = start /\ first' = upTo /\ pages' = pages + 1
              /\ pc' = IF MoreOfTurn(upTo) THEN "exact" ELSE "find"
              /\ UNCHANGED <<glitches, cursors, result, outcome>>
  /\ UNCHANGED <<log, server, query, began>>

(* find_turn for the status and the times; a placeholder does where turns  *)
(* cannot be listed.                                                       *)
FindTurn ==
  /\ pc = "find"
  /\ IF server.turns /\ Turn = {} THEN Ends("error", {}) ELSE Answers(low..first)
  /\ UNCHANGED <<log, server, glitches, query, first, low, cursors, pages, began>>

ReadWhole ==
  /\ pc = "whole"
  /\ IF ~server.turns \/ Turn = {} THEN Fails
     ELSE LET start == CHOOSE i \in Turn : \A j \in Turn : i <= j
              end == CHOOSE i \in Turn : \A j \in Turn : i >= j
          IN  /\ low' = start /\ first' = end /\ pages' = 1 /\ UNCHANGED <<glitches, cursors>>
              /\ Answers(start..end)
  /\ UNCHANGED <<log, server, query, began>>

-----------------------------------------------------------------------------
(* inspect: the newest turns in one page of turns, or from the items       *)
(* (native_inspection_history).  limit: turns with items that name theirs, *)
(* and items otherwise.                                                    *)

TurnsOf(E) == {log[i].turn : i \in E}
OfNewestTurns(E) == {i \in E : log[i].turn \in Newest(TurnsOf(E), query.limit)}

ReadNewest ==
  /\ pc = "newest"
  /\ IF server.turns
     THEN LET all == DOMAIN log
              shown == OfNewestTurns(all)
          IN  /\ first' = Len(log) /\ pages' = 1 /\ UNCHANGED <<glitches, cursors>>
              /\ low' = IF shown = {} THEN 1 ELSE CHOOSE i \in shown : \A j \in shown : i <= j
              /\ Ends("ok", shown)
     ELSE Goes("inspect")
  /\ UNCHANGED <<log, server, query, began>>

(* Mutant of Surpassed: the reader stops when it saw that many turns.      *)
SurpassedAtLimit(E) ==
  IF server.items = "full" THEN Cardinality(TurnsOf(E)) >= query.limit
  ELSE Cardinality({i \in E : Matches(i)}) >= query.limit

(* A turn is complete when an older one shows.                             *)
Surpassed(E) ==
  IF server.items = "full" THEN Cardinality(TurnsOf(E)) > query.limit
  ELSE Cardinality({i \in E : Matches(i)}) >= query.limit

ReadInspected ==
  /\ pc = "inspect"
  /\ IF server.items = "no" THEN Fails
     ELSE LET E == ItemPage..Top
          IN  Page(ItemPage, Surpassed(E),
                   Ends("ok", IF server.items = "full" THEN OfNewestTurns(E)
                              ELSE Newest({i \in E : Matches(i)}, query.limit)))
  /\ UNCHANGED <<log, server, query, began>>

Next ==
  \/ Grows \/ ReadItems \/ ReadTurns \/ ReadExact \/ FindTurn \/ ReadWhole \/ ReadNewest
  \/ ReadInspected

Spec == Init /\ [][Next]_vars

-----------------------------------------------------------------------------
Done == pc = "done" /\ (server.items = "full" \/ server.turns)

(* A bound occurs again below what was read, in the listing whose pages    *)
(* divide turns.                                                           *)
RepeatedBelow ==
  /\ server.items = "full" /\ Bounded(low..first)
  /\ \E id \in {query.after, query.before} \ {NoItem} : Places(id, 1..(low - 1)) # {}

(* However early the reader stops, whichever listing it uses and however   *)
(* the thread grows meanwhile: the items it answers with are those of the  *)
(* whole history, as it was at some moment since the reader began; and     *)
(* when a bound is missing from that history, or ambiguous in it, the      *)
(* answer is an error.  The one exception is a bound that occurs again     *)
(* below what was read of a listing of items: then its newest occurrence   *)
(* is taken for the only one.                                              *)
SelectionIsWhole ==
  Done /\ query.kind = "items" /\ query.turn = NoTurn /\ glitches = 0 =>
    LET E == 1..first IN
    /\ first >= began
    /\ IF Bounded(E) THEN outcome = "ok" /\ result = Selected(E)
       ELSE outcome = "error" \/ (RepeatedBelow /\ outcome = "ok" /\ result = Selected(E))

(* inspect shows its turns with all the items they had at that moment.     *)
TurnsAreWhole ==
  Done /\ query.kind = "inspect" /\ glitches = 0 =>
    first >= began /\ outcome = "ok" /\ result = OfNewestTurns(1..first)

(* An exact turn has no gap and lacks none of the items it had when the    *)
(* reader began, and its bounds are not ambiguous.                         *)
TurnIsWhole ==
  pc = "done" /\ outcome = "ok" /\ query.turn # NoTurn =>
    /\ {i \in Turn : i <= began} \subseteq low..first
    /\ low..first \subseteq Turn
    /\ Bounded({i \in Turn : i <= first}) /\ result = Selected({i \in Turn : i <= first})

(* A server that gives a cursor twice does not make the reader go round in *)
(* circles: no page is asked for twice.                                    *)
NoPageTwice == pc \in {"items", "turns", "inspect"} => pages = Cardinality(cursors)
-----------------------------------------------------------------------------
(* The inductive invariant that the theorems in ReadingProofs rest on.     *)

(* Turns do not mix in the history, and locators are those of one turn.    *)
LogShape ==
  /\ \A i, j \in DOMAIN log : i <= j => log[i].turn <= log[j].turn
  /\ \A i \in DOMAIN log : log[i].id \in 1..i
  /\ \A i, j \in DOMAIN log : log[i].id = log[j].id => log[i].turn = log[j].turn

(* Which step answers which query, on which servers.                       *)
StepShape ==
  /\ query.kind = "inspect" => query.turn = NoTurn
  /\ pc \in {"items", "turns"} => query.kind = "items" /\ query.turn = NoTurn
  /\ pc \in {"exact", "find", "whole"} => query.kind = "items" /\ query.turn # NoTurn
  /\ pc \in {"newest", "inspect"} => query.kind = "inspect"
  /\ pc = "turns" => server.items # "full"
  /\ pc = "inspect" => ~server.turns
  /\ pc # "done" => result = {}

(* Every page was asked for with a cursor of its own, each below the ones  *)
(* before, and the first of them held the end of the history.              *)
CursorShape ==
  pc \in {"items", "turns", "inspect"} =>
    /\ pages = Cardinality(cursors)
    /\ \A c \in cursors : low <= c
    /\ pages # 0 => began <= first

(* The part of a turn that was read is its beginning, and all of it that   *)
(* was there at first once no more follows.                                *)
TurnShape ==
  /\ pc = "exact" /\ pages = 0 => first = 0 /\ low = 1
  /\ pc = "exact" /\ pages # 0 =>
       /\ low..first \subseteq Turn /\ first + 1 \in Turn
       /\ \A i \in Turn : low <= i
  /\ pc = "find" =>
       /\ {i \in Turn : i <= first} = low..first
       /\ \A i \in Turn : i <= began => i <= first

IInv ==
  /\ TypeOK /\ LogShape /\ StepShape /\ CursorShape /\ TurnShape
  /\ SelectionIsWhole /\ TurnsAreWhole /\ TurnIsWhole
=============================================================================
