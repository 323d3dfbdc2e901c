----------------------------- MODULE RolloutScan -----------------------------
(***************************************************************************)
(* A codex-memoryctl command finds the rollout of a thread and reads its   *)
(* memory: find_rollout, scan_rollout and load_rollout                     *)
(* (codex_memoryctl/rollouts.py), select_state (selectors.py),             *)
(* uncompacted_message_count (indexing.py) and search_rollout              *)
(* (discovery.py).                                                         *)
(*                                                                         *)
(* Nothing is locked.  While the command looks for the file the app-server *)
(* may archive or restore the thread, which moves it; while the command    *)
(* reads it the thread appends records, and a record may be read before    *)
(* all of it is there.  A record of the file is a message (which a search  *)
(* would find or not), a standalone memory, or a compaction and the        *)
(* memories of its replacement history; the model name and the session     *)
(* metadata, which nothing is decided by, are left out.                    *)
(***************************************************************************)
EXTENDS Naturals, FiniteSets, SequencesExt

CONSTANTS
  Memories,  \* the opaque memories of the thread
  MaxStart,  \* bound: records in the file at first
  MaxLines,  \* bound: records in the file
  MaxMoves   \* bound: moves of the file between the two directories

VARIABLES
  file,     \* the records in the file, the last of which may be half written
  part,     \* the half that is there: "none" when the last record is whole
  place,    \* the directory that the file is in
  moves,    \* history: how often it was moved
  pc,       \* the step of the command
  matches,  \* the directories in which the file was found
  at,       \* the lines read, those that were passed over included
  half,     \* whether the line after them was passed over half written
  got,      \* what was collected
  cut,      \* history: whether a record was missed, being read in halves
  began     \* history: the records in the file when the command began

vars == <<file, part, place, moves, pc, matches, at, half, got, cut, began>>

Message(hit) == [kind |-> "message", memories |-> {}, hit |-> hit]
Memory(m) == [kind |-> "memory", memories |-> {m}, hit |-> FALSE]
Compacted(ms) == [kind |-> "compacted", memories |-> ms, hit |-> FALSE]

Records ==
  {Message(hit) : hit \in BOOLEAN} \union {Memory(m) : m \in Memories}
    \union {Compacted(ms) : ms \in SUBSET Memories}

Directories == {"sessions", "archived"}

(* A half that shows what kind of record it is, one that does not show it  *)
(* yet, and one that ends within a character.                              *)
Halves == {"marked", "bare", "torn"}

Failures == {"not found", "several", "unreadable", "invalid", "not text"}
Looking == {"sessions", "archived", "check sessions", "check archived", "open"}

\* What scan_rollout has collected before the first line.
Nothing ==
  [states |-> <<>>, visible |-> {}, live |-> {}, messages |-> {}, count |-> 0, last |-> 0]

Init ==
  /\ file \in BoundedSeq(Records, MaxStart)
  /\ place \in Directories
  /\ part = "none" /\ moves = 0 /\ pc = "sessions" /\ matches = {}
  /\ at = 0 /\ half = FALSE /\ got = Nothing /\ cut = FALSE /\ began = Len(file)

-----------------------------------------------------------------------------
(* The thread and the app-server (external).                               *)

\* The file follows the thread into the archive and back.  An open file is read all the same.
Moves ==
  /\ pc \in Looking /\ moves < MaxMoves
  /\ place' \in Directories \ {place}
  /\ moves' = moves + 1
  /\ UNCHANGED <<file, part, pc, matches, at, half, got, cut, began>>

\* What is appended before the file is open might as well have been there at first.
Writes ==
  /\ pc = "reading" /\ part = "none" /\ Len(file) < MaxLines
  /\ \E r \in Records, h \in Halves \union {"none"} : file' = Append(file, r) /\ part' = h
  /\ UNCHANGED <<place, moves, pc, matches, at, half, got, cut, began>>

Completes ==
  /\ pc = "reading" /\ part # "none"
  /\ part' = "none"
  /\ UNCHANGED <<file, place, moves, pc, matches, at, half, got, cut, began>>

-----------------------------------------------------------------------------
(* find_rollout: both directories are searched, and only then is it asked  *)
(* which of the paths found are still files.                               *)

LookIn(directory, next) ==
  /\ pc = directory
  /\ matches' = matches \union ({directory} \intersect {place})
  /\ pc' = next
  /\ UNCHANGED <<file, part, place, moves, at, half, got, cut, began>>

\* Mutant of IsFile: the paths that were found are believed.
IsFileAnyway(directory) == directory \in Directories

IsFile(directory) == directory = place

Check(directory, before, after) ==
  /\ pc = before
  /\ matches' = {d \in matches : d = directory => IsFile(directory)}
  /\ pc' = after
  /\ UNCHANGED <<file, part, place, moves, at, half, got, cut, began>>

Open ==
  /\ pc = "open"
  /\ pc' = CASE matches = {} -> "not found"
             [] Cardinality(matches) > 1 -> "several"
             [] matches = {place} -> "reading"
             [] OTHER -> "unreadable"
  /\ UNCHANGED <<file, part, place, moves, matches, at, half, got, cut, began>>

Find ==
  \/ LookIn("sessions", "archived")
  \/ LookIn("archived", "check sessions")
  \/ Check("sessions", "check sessions", "check archived")
  \/ Check("archived", "check archived", "open")
  \/ Open

-----------------------------------------------------------------------------
(* scan_rollout, one line after the other.                                 *)

State(origin, r, index, line) ==
  [origin |-> origin, memory |-> CHOOSE m \in r.memories : TRUE, index |-> index, line |-> line]

\* Mutant of AfterCompaction: a compaction without a portable memory is passed over.
AfterPortable(g, r, line) ==
  IF Cardinality(r.memories) # 1 THEN g
  ELSE [g EXCEPT !.count = g.count + 1, !.last = line, !.visible = r.memories,
                 !.states = Append(@, State("checkpoint", r, g.count + 1, line)),
                 !.live = {Len(g.states) + 1}]

\* The memories and the visible states before a compaction are visible no more; it is a
\* portable checkpoint if it holds just one memory.
AfterCompaction(g, r, line) ==
  LET portable == Cardinality(r.memories) = 1
      index == g.count + 1
  IN  [g EXCEPT !.count = index, !.last = line, !.visible = r.memories,
                !.states = IF portable THEN Append(@, State("checkpoint", r, index, line))
                           ELSE @,
                !.live = IF portable THEN {Len(g.states) + 1} ELSE {}]

AfterMemory(g, r, line) ==
  [g EXCEPT !.visible = @ \union r.memories,
            !.states = Append(@, State("standalone", r, 0, line)),
            !.live = @ \union {Len(g.states) + 1}]

AfterMessage(g, r, line) == [g EXCEPT !.messages = @ \union {[line |-> line, hit |-> r.hit]}]

After(g, r, line) ==
  CASE r.kind = "compacted" -> AfterCompaction(g, r, line)
    [] r.kind = "memory" -> AfterMemory(g, r, line)
    [] OTHER -> AfterMessage(g, r, line)

Line == at + 1
IsHalf == Line = Len(file) /\ part # "none"

ReadRecord ==
  /\ pc = "reading" /\ Line <= Len(file) /\ ~IsHalf /\ ~half
  /\ got' = After(got, file[Line], Line)
  /\ at' = Line
  /\ UNCHANGED <<file, part, place, moves, pc, matches, half, cut, began>>

\* Half a record that shows its kind is no JSON and ends the scan; a character that is cut
\* is no UTF-8 and fails it.
ReadHalf ==
  /\ pc = "reading" /\ IsHalf /\ part \in {"marked", "torn"} /\ ~half
  /\ pc' = IF part = "marked" THEN "read" ELSE "not text"
  /\ UNCHANGED <<file, part, place, moves, matches, at, half, got, cut, began>>

\* One that does not show its kind is passed over, and the scan asks for the next line.
PassHalf ==
  /\ pc = "reading" /\ IsHalf /\ part = "bare" /\ ~half
  /\ half' = TRUE
  /\ UNCHANGED <<file, part, place, moves, pc, matches, at, got, cut, began>>

\* If the rest is there by then it is a line of its own: no JSON if it shows the kind, and
\* else passed over too.
ReadRest ==
  /\ pc = "reading" /\ half /\ ~IsHalf
  /\ \/ pc' = "invalid" /\ UNCHANGED <<at, half, cut>>
     \/ at' = Line /\ half' = FALSE /\ cut' = TRUE /\ UNCHANGED pc
  /\ UNCHANGED <<file, part, place, moves, matches, got, began>>

ReadEnd ==
  /\ pc = "reading" /\ (Line > Len(file) \/ (half /\ IsHalf))
  /\ pc' = "read"
  /\ UNCHANGED <<file, part, place, moves, matches, at, half, got, cut, began>>

Scan == ReadRecord \/ ReadHalf \/ PassHalf \/ ReadRest \/ ReadEnd

Next == Moves \/ Writes \/ Completes \/ Find \/ Scan

Spec == Init /\ [][Next]_vars

-----------------------------------------------------------------------------
(* What the commands make of it: the state that a reference selects, the   *)
(* number of messages after the last compaction, and a search.             *)

Selectors ==
  {[by |-> "latest"]} \union {[by |-> "index", index |-> i] : i \in 1..MaxLines}
    \union {[by |-> "memory", memories |-> ms] : ms \in SUBSET Memories \ {{}}}

Refused == [origin |-> "refused"]

\* States are named by their places, which are in the order of the lines.
CheckpointsOf(g) == {i \in DOMAIN g.states : g.states[i].origin = "checkpoint"}

\* Mutant of Latest: the newest portable checkpoint will do.
LatestPortable(g) == IF CheckpointsOf(g) = {} THEN DOMAIN g.states ELSE CheckpointsOf(g)

\* @latest is refused when the newest compaction is no portable checkpoint.
Latest(g) ==
  LET checkpoints == CheckpointsOf(g)
  IN  IF g.count > 0 /\ (checkpoints = {} \/ g.states[Max(checkpoints)].index # g.count) THEN {}
      ELSE IF checkpoints = {} THEN DOMAIN g.states ELSE checkpoints

\* The memories that a prefix of a digest stands for must be one.
OfMemories(g, ms) ==
  LET found == {i \in DOMAIN g.states : g.states[i].memory \in ms}
  IN  IF \A i, j \in found : g.states[i].memory = g.states[j].memory THEN found ELSE {}

\* The newest of the states that match, of the checkpoints among them if one is required.
Selected(g, selector, full) ==
  LET states == CASE selector.by = "latest" -> Latest(g)
                  [] selector.by = "index" ->
                       {i \in DOMAIN g.states : g.states[i].index = selector.index}
                  [] OTHER -> OfMemories(g, selector.memories)
      fit == IF full THEN states \intersect CheckpointsOf(g) ELSE states
  IN  IF fit = {} THEN Refused ELSE g.states[Max(fit)]

Uncompacted(g) == {m \in g.messages : m.line > g.last}

\* A match belongs to the first checkpoint after it, and to none (0) if there is none.
Holder(g, line) ==
  LET later == {s \in ToSet(g.states) : s.origin = "checkpoint" /\ s.line > line}
  IN  IF later = {} THEN 0 ELSE (CHOOSE s \in later : \A t \in later : s.line <= t.line).index

\* The matches of a checkpoint, their number and how far before it the last of them is.
Candidate(g, holder) ==
  LET lines == {m.line : m \in {n \in g.messages : n.hit /\ Holder(g, n.line) = holder}}
      line == IF holder = 0 THEN 0
              ELSE (CHOOSE s \in ToSet(g.states) : s.index = holder).line
  IN  [holder |-> holder, lines |-> lines,
       distance |-> IF holder = 0 THEN 0 ELSE line - CHOOSE l \in lines : \A k \in lines : k <= l]

\* Mutant of Before: the newest checkpoint comes first.
BeforeNewest(c, d) == c.holder > d.holder

\* Matches that no checkpoint holds come first, then the closest, then the newest.
Before(c, d) ==
  \/ c.holder = 0 /\ d.holder # 0
  \/ d.holder # 0 /\ c.distance < d.distance
  \/ d.holder # 0 /\ c.distance = d.distance /\ c.holder > d.holder

Candidates(g) == {Candidate(g, Holder(g, m.line)) : m \in {n \in g.messages : n.hit}}

\* Where a candidate is shown: after all that come before it.
Place(g, c) == Cardinality({d \in Candidates(g) : Before(d, c)}) + 1

-----------------------------------------------------------------------------
(* Properties.                                                             *)

TypeOK ==
  /\ file \in BoundedSeq(Records, MaxLines) /\ part \in Halves \union {"none"}
  /\ place \in Directories /\ matches \subseteq Directories /\ moves \in 0..MaxMoves
  /\ pc \in Looking \union {"reading", "read"} \union Failures
  /\ at \in 0..Len(file) /\ half \in BOOLEAN /\ cut \in BOOLEAN /\ began \in 0..Len(file)
  /\ got.count \in 0..MaxLines /\ got.visible \subseteq Memories
  /\ got.live \subseteq 1..Len(got.states)

\* The records among the lines read that are a compaction, and that hold just one memory.
Read == 1..at
Compactions == {i \in Read : file[i].kind = "compacted"}
Checkpoints == {i \in Compactions : Cardinality(file[i].memories) = 1}
Standalone == {i \in Read : file[i].kind = "memory"}
LastCompaction == CHOOSE i \in Compactions \union {0} : \A j \in Compactions : j <= i

(* What a scan collects from a file that grows under it is what the file   *)
(* held at some moment after the command began: the memories that are      *)
(* visible are those of its last compaction and the ones that came after   *)
(* it, and the states, the visible ones among them, the compactions        *)
(* and the messages after the last of them are all there.  The exception   *)
(* is a record that was read in halves.                                    *)
ScanIsAPrefix ==
  (pc = "read" /\ ~cut) =>
     /\ at >= began
     /\ got.count = Cardinality(Compactions)
     /\ got.visible = UNION {file[i].memories : i \in {j \in Read : /\ file[j].kind # "message"
                                                                   /\ j >= LastCompaction}}
     /\ {s.line : s \in ToSet(got.states)} = Checkpoints \union Standalone
     /\ {got.states[i].line : i \in got.live} =
          {i \in Checkpoints \union Standalone : i >= LastCompaction}
     /\ Cardinality(Uncompacted(got)) =
          Cardinality({i \in Read : file[i].kind = "message" /\ i > LastCompaction})

(* A reference selects what it says or is refused.  The latest state is    *)
(* the one of the last compaction, never one that was replaced since, and  *)
(* the N-th is that of the N-th compaction, portable or not; a prefix of a *)
(* digest never selects one of several memories.  Where a full checkpoint   *)
(* is required, nothing else is selected.                                  *)
SelectedIsMeant ==
  (pc = "read" /\ ~cut) =>
     \A selector \in Selectors, full \in BOOLEAN :
       LET s == Selected(got, selector, full)
       IN  s # Refused =>
             /\ full => s.line \in Checkpoints
             /\ CASE selector.by = "latest" ->
                    IF Compactions = {} THEN s.line = Max(Standalone) ELSE s.line = LastCompaction
               [] selector.by = "index" ->
                    /\ s.line \in Compactions
                    /\ Cardinality({i \in Compactions : i <= s.line}) = selector.index
               [] OTHER ->
                    \A i \in Checkpoints \union Standalone :
                      file[i].memories \intersect selector.memories # {} =>
                         /\ file[i].memories = {s.memory}
                         /\ i <= s.line \/ (full /\ i \in Standalone)

(* The matches of a search are shown once each, with the first portable    *)
(* checkpoint that was made after them; those that no checkpoint can hold  *)
(* come first, and of two checkpoints the one that is closer.              *)
FoundWithItsHolder ==
  (pc = "read" /\ ~cut) =>
     LET found == Candidates(got)
     IN  /\ \A i \in Read : file[i] = Message(TRUE) =>
              Cardinality({c \in found : i \in c.lines}) = 1
         /\ \A c \in found, i \in Read : i \in c.lines =>
              IF c.holder = 0 THEN \A j \in Checkpoints : j < i
              ELSE \E j \in Checkpoints :
                     /\ i < j /\ Cardinality({k \in Compactions : k <= j}) = c.holder
                     /\ \A k \in Checkpoints : ~(i < k /\ k < j)
         /\ \A c, d \in found : c # d =>
              /\ Place(got, c) # Place(got, d)
              /\ Place(got, c) < Place(got, d) =>
                   c.holder = 0 \/ (d.holder # 0 /\ c.distance <= d.distance)

(* A thread has one rollout, so a file that is moved while it is looked    *)
(* for is not taken for two unless it moves to and fro between the checks, *)
(* and it is always found if it stays.                                     *)
MovedIsNotTwo ==
  /\ pc = "several" => moves >= 3
  /\ pc \in {"not found", "unreadable"} => moves >= 1
-----------------------------------------------------------------------------
(* The inductive invariant that the theorems in ReadingProofs rest on.     *)

States ==
  [origin : {"checkpoint", "standalone"}, memory : Memories, index : Nat, line : Nat]

Collected ==
  [states : Seq(States), visible : SUBSET Memories, live : SUBSET Nat,
   messages : SUBSET [line : Nat, hit : BOOLEAN], count : Nat, last : Nat]

(* A path that is not where the file is was found before a move, and both  *)
(* paths are taken for files after three.                                  *)
PlaceShape ==
  /\ pc = "sessions" => matches = {}
  /\ pc = "archived" => matches \subseteq {"sessions"}
  /\ pc = "archived" /\ ~(place = "sessions" <=> "sessions" \in matches) => moves >= 1
  /\ pc \in {"check sessions", "check archived", "open"} /\ place \notin matches => moves >= 1
  /\ Directories \subseteq matches =>
       /\ pc = "check sessions" => moves >= 1 /\ (place = "sessions" => moves >= 2)
       /\ pc = "check archived" => moves >= 2 /\ (place = "archived" => moves >= 3)
       /\ pc = "open" => moves >= 3

(* The scan has not gone beyond what is written, and a half is of a record *)
(* that was not there when the command began.                              *)
LineShape ==
  /\ got \in Collected /\ got.count <= at
  /\ pc \in Looking => at = 0 /\ part = "none" /\ ~half /\ ~cut /\ got = Nothing
  /\ part # "none" => began < Len(file)
  /\ half => at < Len(file)
  /\ pc = "read" => at >= began

(* The states are those of the lines read, in their order.                 *)
StatesShape ==
  /\ {got.states[i].line : i \in DOMAIN got.states} = Checkpoints \union Standalone
  /\ \A i, j \in DOMAIN got.states : i < j => got.states[i].line < got.states[j].line
  /\ \A i \in DOMAIN got.states :
       LET s == got.states[i]
       IN  /\ file[s.line].memories = {s.memory}
           /\ s.line \in Compactions =>
                s.origin = "checkpoint" /\ s.index = Cardinality({k \in Compactions : k <= s.line})
           /\ s.line \notin Compactions => s.origin = "standalone" /\ s.index = 0

(* And so is the rest of what was collected.                               *)
SumShape ==
  /\ got.count = Cardinality(Compactions) /\ got.last = LastCompaction
  /\ got.visible = UNION {file[i].memories : i \in {j \in Read : /\ file[j].kind # "message"
                                                                /\ j >= LastCompaction}}
  /\ got.live = {i \in DOMAIN got.states : got.states[i].line >= LastCompaction}
  /\ got.messages = {[line |-> i, hit |-> file[i].hit] :
                       i \in {j \in Read : file[j].kind = "message"}}

IInv ==
  /\ TypeOK /\ PlaceShape /\ LineShape /\ MovedIsNotTwo
  /\ ~cut => StatesShape /\ SumShape
=============================================================================
