---------------------------- MODULE MemoryInject ----------------------------
(***************************************************************************)
(* codex-memoryctl inject (commands.py, cmd_inject): several injectors put *)
(* memories into one thread.  An injector checks its options, the thread   *)
(* and its source, looks into the rollout of the thread for memories that  *)
(* are already there, and then sends one request.  Meanwhile turns start   *)
(* and end, the thread is compacted, and what the app-server accepted      *)
(* reaches the rollout on disk some time later.                            *)
(***************************************************************************)
EXTENDS Integers, Sequences, FiniteSets

CONSTANTS
  Memories,
  Injectors,
  GivenOptions   \* the options the injectors may have been given: functions from Injectors

VARIABLES
  loaded, active, turned,   \* the thread (external): loaded, has a running turn, had a turn
  shown, onDisk,            \* how often a memory is in its context, and which of them the
                            \* rollout on disk shows (external)
  readable,                 \* the injectors can read that rollout (external)
  mail, reply,              \* requests under way, per injector, and the answers (external)
  opts, pc, outcome,        \* per injector
  sent,                     \* what an injector put into its request, NothingSent before
  arrived,                  \* injectors whose request was carried out
  behind,                   \* memories in the thread that an injector's look at the disk
                            \* missed: not written yet, or arrived after it
  excused                   \* memories repeated on request, or because they were missed

world == <<loaded, active, turned, shown, onDisk, readable>>
ghost == <<arrived, behind, excused>>
vars == <<loaded, active, turned, shown, onDisk, readable, mail, reply, opts, pc, outcome, sent, arrived,
          behind, excused>>

Unset == "unset"

(* scope: what a --file turns out to hold. *)
Options ==
  [self : BOOLEAN, expectNoTurns : BOOLEAN, binding : {Unset, "current", "source"},
   framing : {Unset, "none", "boundaries"}, purpose : BOOLEAN, full : BOOLEAN, file : BOOLEAN,
   scope : {"memory", "checkpoint"}, allowDuplicate : BOOLEAN, preview : BOOLEAN,
   batch : UNION {[1..n -> Memories] : n \in 1..2}]

Times(m, batch) == Cardinality({i \in DOMAIN batch : batch[i] = m})
Requested(c) == {opts[c].batch[i] : i \in DOMAIN opts[c].batch}

Requests == [scope : {"memory", "checkpoint"}, binding : {"current", "source"}, framed : BOOLEAN]
NothingSent == [scope |-> "none"]

TypeOK ==
  /\ loaded \in BOOLEAN /\ active \in BOOLEAN /\ turned \in BOOLEAN
  /\ shown \in [Memories -> Nat] /\ onDisk \subseteq Memories
  /\ readable \in BOOLEAN
  /\ mail \in [Injectors -> {"none", "inject"}]
  /\ reply \in [Injectors -> {"none", "ok", "error"}]
  /\ opts \in [Injectors -> Options]
  /\ pc \in [Injectors -> {"options", "loaded", "turns", "source", "bind", "look", "send",
                           "waiting", "done"}]
  /\ outcome \in [Injectors -> {"none", "accepted", "preview", "refused", "uncertain"}]
  /\ sent \in [Injectors -> Requests \union {NothingSent}]
  /\ arrived \subseteq Injectors /\ behind \in [Injectors -> SUBSET Memories]
  /\ excused \subseteq Memories
  /\ \A c \in Injectors : pc[c] = "done" <=> outcome[c] # "none"

Init ==
  /\ loaded = TRUE /\ active \in BOOLEAN /\ turned = active
  /\ onDisk \in SUBSET Memories /\ readable \in BOOLEAN
  /\ shown = [m \in Memories |-> IF m \in onDisk THEN 1 ELSE 0]
  /\ mail = [c \in Injectors |-> "none"] /\ reply = [c \in Injectors |-> "none"]
  /\ opts \in GivenOptions
  /\ pc = [c \in Injectors |-> "options"] /\ outcome = [c \in Injectors |-> "none"]
  /\ sent = [c \in Injectors |-> NothingSent]
  /\ arrived = {} /\ behind = [c \in Injectors |-> {}] /\ excused = {}

-----------------------------------------------------------------------------
(* The thread and the app-server (external). *)

clients == <<opts, pc, outcome, sent>>

TurnChanges ==
  /\ loaded /\ active' = ~active /\ turned' = TRUE
  /\ UNCHANGED <<loaded, shown, onDisk, readable, mail, reply, clients, ghost>>

Unloads ==
  /\ loaded /\ ~active /\ loaded' = FALSE
  /\ UNCHANGED <<active, turned, shown, onDisk, readable, mail, reply, clients, ghost>>

(* A compaction keeps some of the memories, in the context and on disk. *)
Compacts ==
  /\ loaded
  /\ \E kept \in SUBSET {m \in Memories : shown[m] > 0} :
       /\ shown' = [m \in Memories |-> IF m \in kept THEN 1 ELSE 0]
       /\ onDisk' = kept
  /\ UNCHANGED <<loaded, active, turned, readable, mail, reply, clients, ghost>>

Flushes ==
  /\ onDisk' = {m \in Memories : shown[m] > 0}
  /\ UNCHANGED <<loaded, active, turned, shown, readable, mail, reply, clients, ghost>>

Answer(c, a) ==
  /\ mail' = [mail EXCEPT ![c] = "none"]
  /\ reply' = [reply EXCEPT ![c] = IF pc[c] = "waiting" THEN a ELSE "none"]
  /\ UNCHANGED clients

ServeInject(c) ==
  /\ mail[c] = "inject" /\ loaded
  /\ shown' = [m \in Memories |-> shown[m] + Times(m, opts[c].batch)]
  /\ arrived' = arrived \union {c}
  /\ behind' = [d \in Injectors |-> behind[d] \union Requested(c)]
  /\ excused' = excused \union (IF opts[c].allowDuplicate THEN Memories ELSE behind[c])
  /\ Answer(c, "ok")
  /\ UNCHANGED <<loaded, active, turned, onDisk, readable>>

Refuse(c) ==
  /\ mail[c] = "inject"
  /\ Answer(c, "error")
  /\ UNCHANGED <<world, ghost>>

-----------------------------------------------------------------------------
(* An injector. *)

Goto(c, step) == pc' = [pc EXCEPT ![c] = step] /\ UNCHANGED outcome

End(c, result) ==
  /\ pc' = [pc EXCEPT ![c] = "done"]
  /\ outcome' = [outcome EXCEPT ![c] = result]

Step(c, step, ok, next) ==
  /\ pc[c] = step
  /\ IF ok THEN Goto(c, next) ELSE End(c, "refused")
  /\ UNCHANGED <<world, mail, reply, opts, sent, ghost>>

(* What the options rule out by themselves. *)
OptionsAllowed(o) ==
  /\ o.self => /\ o.purpose /\ ~o.expectNoTurns /\ ~o.full
               /\ o.binding \in {Unset, "current"} /\ o.framing \in {Unset, "boundaries"}
  /\ o.expectNoTurns => o.binding # "current"
  /\ o.framing = "none" => ~o.purpose
  /\ o.full => o.binding # "current" /\ o.framing # "boundaries" /\ ~o.purpose

CheckOptions(c) == Step(c, "options", OptionsAllowed(opts[c]), "loaded")

CheckLoaded(c) ==
  Step(c, "loaded", loaded, IF opts[c].expectNoTurns THEN "turns" ELSE "source")

CheckTurns(c) == Step(c, "turns", ~turned, "source")

ScopeOf(o) == IF o.file THEN o.scope ELSE IF o.full THEN "checkpoint" ELSE "memory"

(* Mutant of ScopeAllowed: what the options rule out is enough.            *)
ScopeAllowedAlways(o) == TRUE

(* A file may turn out to hold a full checkpoint, which goes to a fresh    *)
(* target as it is: the same rules, now by what was read.                  *)
ScopeAllowed(o) ==
  ScopeOf(o) = "checkpoint" =>
    ~o.self /\ o.binding # "current" /\ o.framing # "boundaries" /\ ~o.purpose

(* Mutant of BatchAllowed: the request itself may repeat a memory.         *)
BatchAllowedAlways(o) == TRUE

BatchAllowed(o) == (\A i, j \in DOMAIN o.batch : o.batch[i] = o.batch[j] => i = j) \/ o.allowDuplicate

BindingOf(o) ==
  IF o.binding # Unset THEN o.binding ELSE IF o.self THEN "current" ELSE "source"

Framed(o) ==
  IF o.framing # Unset THEN o.framing = "boundaries" ELSE ScopeOf(o) = "memory"

(* One state for a full checkpoint, one memory in a file. *)
SourceAllowed(o) == (o.full => ~o.file) /\ (o.full \/ o.file => Len(o.batch) = 1)

ReadSource(c) ==
  Step(c, "source", SourceAllowed(opts[c]) /\ BatchAllowed(opts[c]) /\ ScopeAllowed(opts[c]),
       IF BindingOf(opts[c]) = "current" THEN "bind" ELSE "look")

(* Current-turn binding needs a running turn at this moment. *)
Bind(c) == Step(c, "bind", active, "look")

(* A rollout on another machine is not looked at. *)
Seen == IF readable THEN onDisk ELSE {}

Known(c) == Requested(c) \intersect Seen

LookForDuplicates(c) ==
  /\ pc[c] = "look"
  /\ IF Known(c) # {} /\ ~opts[c].allowDuplicate THEN End(c, "refused")
     ELSE IF opts[c].preview THEN End(c, "preview") ELSE Goto(c, "send")
  /\ behind' = [behind EXCEPT ![c] = {m \in Memories : shown[m] > 0} \ Seen]
  /\ UNCHANGED <<world, mail, reply, opts, sent, arrived, excused>>

SendInject(c) ==
  /\ pc[c] = "send"
  /\ mail' = [mail EXCEPT ![c] = "inject"]
  /\ sent' = [sent EXCEPT ![c] = [scope |-> ScopeOf(opts[c]), binding |-> BindingOf(opts[c]),
                                  framed |-> Framed(opts[c])]]
  /\ Goto(c, "waiting")
  /\ UNCHANGED <<world, reply, opts, ghost>>

Answered(c) ==
  /\ pc[c] = "waiting" /\ reply[c] # "none"
  /\ reply' = [reply EXCEPT ![c] = "none"]
  /\ End(c, IF reply[c] = "ok" THEN "accepted" ELSE "refused")
  /\ UNCHANGED <<world, mail, opts, sent, ghost>>

(* Mutant of AfterFailure: a lost answer is taken for a refusal.           *)
RefusedAfterFailure(step) == "refused"

AfterFailure(step) == IF step \in {"send", "waiting"} THEN "uncertain" ELSE "refused"

(* A failed read, a model provider that is not allowed, a missing source,  *)
(* a lost answer.                                                          *)
Fails(c) ==
  /\ pc[c] # "done"
  /\ End(c, AfterFailure(pc[c]))
  /\ reply' = [reply EXCEPT ![c] = "none"]
  /\ UNCHANGED <<world, mail, opts, sent, ghost>>

Next ==
  \/ TurnChanges \/ Unloads \/ Compacts \/ Flushes
  \/ \E c \in Injectors :
       \/ ServeInject(c) \/ Refuse(c)
       \/ CheckOptions(c) \/ CheckLoaded(c) \/ CheckTurns(c) \/ ReadSource(c) \/ Bind(c)
       \/ LookForDuplicates(c) \/ SendInject(c) \/ Answered(c) \/ Fails(c)

Spec == Init /\ [][Next]_vars

-----------------------------------------------------------------------------
(* Properties. *)

(* A memory is in the thread twice only on request, or because a second    *)
(* injector was let through while the first one's memory was under way,    *)
(* not yet on disk, or in a rollout out of its reach.                      *)
RepeatHasCause == \A m \in Memories : shown[m] > 1 => m \in excused

(* Whatever the options, and whatever a file turned out to hold: a full    *)
(* checkpoint is sent as it is, bound to its source, without frame and     *)
(* purpose, and never to the own thread; a memory for the own thread, or   *)
(* one with a purpose, is framed so that it can be told from the thread's. *)
SentAsPromised ==
  \A c \in Injectors : sent[c] # NothingSent =>
    IF sent[c].scope = "checkpoint"
      THEN ~sent[c].framed /\ sent[c].binding = "source" /\ ~opts[c].purpose /\ ~opts[c].self
      ELSE /\ opts[c].purpose \/ opts[c].self => sent[c].framed
           /\ opts[c].self => sent[c].binding = "current"

(* An injection that is refused, or only previewed, has put nothing into   *)
(* the thread and never will.                                              *)
RefusedMeansUnsent ==
  \A c \in Injectors : outcome[c] \in {"refused", "preview"} =>
    c \notin arrived /\ mail[c] = "none"
-----------------------------------------------------------------------------
(* The inductive invariant that the theorems in CommandsProofs rest on.    *)

(* Where the request of an injector can be.                                *)
RequestShape ==
  \A c \in Injectors :
    /\ pc[c] \notin {"waiting", "done"} => mail[c] = "none" /\ c \notin arrived
    /\ pc[c] = "waiting" => (mail[c] = "none" <=> reply[c] # "none")
    /\ reply[c] # "none" => pc[c] = "waiting"
    /\ mail[c] = "inject" \/ reply[c] = "error" => c \notin arrived

(* What an injector has found to be allowed by the time it asks.           *)
AllowedShape ==
  \A c \in Injectors :
    /\ pc[c] \in {"loaded", "turns", "source", "bind", "look", "send", "waiting"} =>
         OptionsAllowed(opts[c])
    /\ pc[c] \in {"bind", "look", "send", "waiting"} \/ mail[c] = "inject" =>
         SourceAllowed(opts[c]) /\ BatchAllowed(opts[c]) /\ ScopeAllowed(opts[c])

(* From its look at the disk until its request is carried out an injector  *)
(* has missed every memory of its own that the thread has, unless it may   *)
(* repeat one.                                                             *)
MissedShape ==
  \A c \in Injectors : (pc[c] = "send" \/ mail[c] = "inject") /\ ~opts[c].allowDuplicate =>
    \A m \in Requested(c) : shown[m] > 0 => m \in behind[c]

IInv ==
  /\ TypeOK /\ RequestShape /\ AllowedShape /\ MissedShape
  /\ RepeatHasCause /\ SentAsPromised /\ RefusedMeansUnsent
=============================================================================
