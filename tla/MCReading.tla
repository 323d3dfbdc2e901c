------------------------------ MODULE MCReading ------------------------------
(***************************************************************************)
(* Instances, for TLC, of the commands that draw conclusions from what     *)
(* changes while they read it.  A behaviour is that of one of them, so     *)
(* they share the variables of the same name; those that a command does    *)
(* not have stay Unused.  GoalWatch has its variables to itself.           *)
(***************************************************************************)
EXTENDS MCGoalWatch

CONSTANTS
  Unused,
  Threads,                                                    \* TokenUsage, LimitHistory
  MaxReports, MaxInherited,                                   \* TokenUsage
  Missing, Tolerance, WindowLength, MaxSnapshots, MaxResets,  \* LimitHistory
  GivenQueries, PageItems, MaxStart, MaxItems, MaxGlitches,   \* HistoryPages
  Memories, FirstLines, MaxLines, MaxMoves                    \* RolloutScan

VARIABLES
  kind,
  step, log, files,
  counter, inherited, restarted, copied, archived, recent, read, counted,
  account, candidates, history,
  server, glitches, query, first, low, cursors, pages, result, outcome, began,
  file, part, place, moves, matches, at, half, got, cut

Usage == INSTANCE TokenUsage WITH pc <- step
Limits == INSTANCE LimitHistory WITH pc <- step
Pages == INSTANCE HistoryPages WITH pc <- step
Scan == INSTANCE RolloutScan WITH pc <- step, MaxStart <- FirstLines

(* There are finitely many threads, and the bounds are numbers.            *)
ASSUME UsageAssumption == IsFiniteSet(Threads) /\ MaxReports \in Nat /\ MaxInherited \in Nat

(* Windows are longer than the tolerance with the drift within it.         *)
ASSUME LimitsAssumption ==
  /\ MaxSnapshots \in Nat /\ MaxResets \in Nat
  /\ Tolerance \in Nat /\ WindowLength \in Nat
  /\ WindowLength > Tolerance + Tolerance \div 2

(* Ids and limits are numbers, an inspection is of no particular turn, and *)
(* a page of items has one.                                                *)
ASSUME PagesAssumption ==
  /\ GivenQueries \subseteq {q \in Pages!Queries : q.kind = "inspect" => q.turn = Pages!NoTurn}
  /\ PageItems \in Nat \ {0} /\ MaxStart \in Nat /\ MaxItems \in Nat /\ MaxGlitches \in Nat
  /\ MaxStart <= MaxItems

(* There are finitely many memories, and the bounds are numbers.           *)
ASSUME ScanAssumption ==
  /\ IsFiniteSet(Memories)
  /\ FirstLines \in Nat /\ MaxLines \in Nat /\ MaxMoves \in Nat /\ FirstLines <= MaxLines

\* Items of the thread, of one of its turns, and an inspection.
Query(kindOf, turn, after, before, types, limit) ==
  [kind |-> kindOf, turn |-> turn, after |-> after, before |-> before, types |-> types,
   limit |-> limit]

MCQueries ==
  {Query("items", 0, after, before, types, limit) :
     after \in {0, 1}, before \in {0, 3}, types \in {{}, {"agentMessage"}}, limit \in 0..1}
  \union {Query("items", 2, 0, 0, {}, 0), Query("items", 1, 1, 0, {"agentMessage"}, 1)}
  \union {Query("inspect", 0, 0, 0, types, 1) : types \in {{}, {"agentMessage"}}}

\* Neither runs nor threads have an order.
ReadingSymmetry == RunSymmetry \union Permutations(Threads)

-----------------------------------------------------------------------------
(* The variables of a single command, and which ones the others use.       *)

usageOnly == <<counter, inherited, restarted, copied, archived, recent, read, counted>>
limitsOnly == <<account, candidates, history>>
pagesOnly == <<server, glitches, query, first, low, cursors, pages, result, outcome>>
scanOnly == <<file, part, place, moves, matches, at, half, got, cut>>
common == <<step, log, files, began>>

Only(k, v) == kind = k \/ v = Unused
UsedBy(kinds, v) == kind \in kinds \/ v = Unused

Idle ==
  /\ UsedBy({"usage", "limits", "pages", "scan"}, step) /\ UsedBy({"usage", "limits", "pages"}, log)
  /\ UsedBy({"usage", "limits"}, files) /\ UsedBy({"pages", "scan"}, began)
  /\ Only("usage", counter) /\ Only("usage", inherited) /\ Only("usage", restarted)
  /\ Only("usage", copied) /\ Only("usage", archived)
  /\ Only("usage", recent) /\ Only("usage", read) /\ Only("usage", counted)
  /\ Only("limits", account) /\ Only("limits", candidates) /\ Only("limits", history)
  /\ Only("pages", server) /\ Only("pages", glitches) /\ Only("pages", query)
  /\ Only("pages", first) /\ Only("pages", low) /\ Only("pages", cursors)
  /\ Only("pages", pages) /\ Only("pages", result) /\ Only("pages", outcome)
  /\ Only("scan", file) /\ Only("scan", part) /\ Only("scan", place) /\ Only("scan", moves)
  /\ Only("scan", matches) /\ Only("scan", at) /\ Only("scan", half) /\ Only("scan", got)
  /\ Only("scan", cut)

ReadingInit ==
  /\ kind \in {"goal", "usage", "limits", "pages", "scan"}
  /\ Init /\ (kind = "goal" \/ cond = Milestones)
  /\ CASE kind = "usage" -> Usage!Init
       [] kind = "limits" -> Limits!Init
       [] kind = "pages" -> Pages!Init
       [] kind = "scan" -> Scan!Init
       [] OTHER -> TRUE
  /\ Idle

GoalStep ==
  /\ kind = "goal" /\ Next
  /\ UNCHANGED <<kind, common, usageOnly, limitsOnly, pagesOnly, scanOnly>>

UsageStep ==
  /\ kind = "usage" /\ Usage!Next
  /\ UNCHANGED <<kind, vars, began, limitsOnly, pagesOnly, scanOnly>>

LimitsStep ==
  /\ kind = "limits" /\ Limits!Next
  /\ UNCHANGED <<kind, vars, began, usageOnly, pagesOnly, scanOnly>>

PagesStep ==
  /\ kind = "pages" /\ Pages!Next
  /\ UNCHANGED <<kind, vars, files, usageOnly, limitsOnly, scanOnly>>

ScanStep ==
  /\ kind = "scan" /\ Scan!Next
  /\ UNCHANGED <<kind, vars, log, files, usageOnly, limitsOnly, pagesOnly>>

ReadingNext == GoalStep \/ UsageStep \/ LimitsStep \/ PagesStep \/ ScanStep

ReadingSpec ==
  ReadingInit /\ [][ReadingNext]_<<kind, vars, common, usageOnly, limitsOnly,
                                   pagesOnly, scanOnly>>

-----------------------------------------------------------------------------
(* What each of the commands guarantees, part by part; its module says     *)
(* what the parts mean.                                                    *)

(* TokenUsage: no id is given tokens that were not used under it, and      *)
(* those used in the files found are all counted.                          *)
UsageSafe == kind = "usage" => Usage!TypeOK /\ Usage!NeverOvercounted /\ Usage!NothingLeftOut

(* LimitHistory: the history of a limit never goes back, and no new state  *)
(* of it is left out.                                                      *)
LimitsSafe == kind = "limits" => Limits!TypeOK /\ Limits!HistoryMonotone /\ Limits!NewStatesKept

(* HistoryPages: an early stop selects what the whole history would have   *)
(* given, unless a bound repeats below it, turns are shown whole and read  *)
(* to their ends, and no page is read twice whatever cursors come.         *)
PagesSafe ==
  kind = "pages" =>
    /\ Pages!TypeOK /\ Pages!SelectionIsWhole /\ Pages!TurnsAreWhole
    /\ Pages!TurnIsWhole /\ Pages!NoPageTwice

(* RolloutScan: a growing file is read as it was at some moment, one that  *)
(* moves is not taken for two, a reference selects the memory it names,    *)
(* and a search shows each match with the checkpoint that has it.          *)
ScanSafe ==
  kind = "scan" =>
    /\ Scan!TypeOK /\ Scan!ScanIsAPrefix /\ Scan!MovedIsNotTwo
    /\ Scan!SelectedIsMeant /\ Scan!FoundWithItsHolder
=============================================================================
