---------------------------- MODULE RecoveryStore ----------------------------
(***************************************************************************)
(* The recovery settings that codex-threadctl keeps for a thread           *)
(* (recovery.py), as used by creation (appserver.py, create_thread), cold  *)
(* loading (configuration.py, resume_thread) and the `recovery` command.   *)
(*                                                                         *)
(* A cold load reads the record, sends its settings to the app-server with *)
(* those of a file, and after a confirmed answer saves both, unless the    *)
(* record was changed meanwhile.  Each access to the store is one SQLite   *)
(* transaction; callers, other clients and the app-server interleave.      *)
(***************************************************************************)
EXTENDS Naturals

CONSTANTS
  Callers,    \* invocations of the command
  Keys,       \* names of settings
  Native,     \* those that Codex records itself (NATIVE_KEYS)
  Values,     \* values of settings
  Secret,     \* the value that is an inline credential
  Files,      \* the settings callers give in files and flags
  MaxWrites   \* bound: writes to the record

Config == UNION {[S -> Values] : S \in SUBSET Keys}

ASSUME NativeAssumption == Native \subseteq Keys
ASSUME FilesAssumption == Files \subseteq Config
ASSUME MaxWritesAssumption == MaxWrites \in Nat

VARIABLES
  thread,  \* "none", "unloaded" or "loaded" (external)
  record,  \* the row: configuration and revision, 0 if there is no row
  stamp,   \* revisions handed out so far; stands for uuid4
  pc,      \* pc[c]: where caller c is
  file,    \* file[c]: the settings it was given
  keep,    \* keep[c]: remember_config
  seen,    \* seen[c]: the record it read
  served,  \* served[c]: the app-server processed its request (history)
  edited   \* edited[c]: another caller changed the record since c read it (history)

vars == <<thread, record, stamp, pc, file, keep, seen, served, edited>>
store == <<record, stamp, edited>>
own == <<file, keep, seen>>

-----------------------------------------------------------------------------
(* Configurations. *)

Empty == [k \in {} |-> Secret]
NoRecord == [config |-> Empty, revision |-> 0]

(* Mutant of Supplementary: what Codex records itself is saved as well.    *)
Everything(f) == f

Supplementary(f) == [k \in DOMAIN f \ Native |-> f[k]]

Inline(f) == \E k \in DOMAIN f \ Native : f[k] = Secret

(* Mutant of Overlay: only the settings of the file are submitted.         *)
FileAlone(saved, f) == f

Overlay(saved, f) ==
  [k \in DOMAIN saved \union DOMAIN f |-> IF k \in DOMAIN f THEN f[k] ELSE saved[k]]

Clean == {f \in Config : DOMAIN f \cap Native = {} /\ ~Inline(f)}
Records == [config : Clean, revision : 0..MaxWrites]

TypeOK ==
  /\ thread \in {"none", "unloaded", "loaded"}
  /\ record \in Records
  /\ stamp \in 0..MaxWrites
  /\ pc \in [Callers -> {"idle", "initialize", "remember", "list", "read", "sent", "save"}]
  /\ file \in [Callers -> Config]
  /\ keep \in [Callers -> BOOLEAN]
  /\ seen \in [Callers -> Records]
  /\ served \in [Callers -> BOOLEAN] /\ edited \in [Callers -> BOOLEAN]

Init ==
  /\ thread \in {"none", "unloaded", "loaded"}
  /\ record = NoRecord /\ stamp = 0
  /\ pc = [c \in Callers |-> "idle"]
  /\ file = [c \in Callers |-> Empty]
  /\ keep = [c \in Callers |-> FALSE]
  /\ seen = [c \in Callers |-> NoRecord]
  /\ served = [c \in Callers |-> FALSE] /\ edited = [c \in Callers |-> FALSE]

-----------------------------------------------------------------------------
(* The thread, as other clients and the app-server change it. *)

OthersLoad == thread = "unloaded" /\ thread' = "loaded" /\ UNCHANGED <<store, pc, own, served>>

Unload == thread = "loaded" /\ thread' = "unloaded" /\ UNCHANGED <<store, pc, own, served>>

-----------------------------------------------------------------------------
(* The store. *)

(* Commit of write_recovery: an empty configuration deletes the row.       *)
Write(c, config) ==
  /\ IF Supplementary(config) = Empty
     THEN record' = NoRecord /\ UNCHANGED stamp
     ELSE /\ stamp < MaxWrites
          /\ stamp' = stamp + 1
          /\ record' = [config |-> Supplementary(config), revision |-> stamp + 1]
  /\ edited' = [d \in Callers |-> edited[d] \/ (d # c /\ record' # record)]

(* Mutant of Current: the configuration is compared, not the revision.     *)
SameSettings(c) == record.config = seen[c].config

Current(c) == record.revision = seen[c].revision

Done(c) ==
  /\ pc' = [pc EXCEPT ![c] = "idle"]
  /\ file' = [file EXCEPT ![c] = Empty]
  /\ keep' = [keep EXCEPT ![c] = FALSE]
  /\ seen' = [seen EXCEPT ![c] = NoRecord]
  /\ served' = [served EXCEPT ![c] = FALSE]

-----------------------------------------------------------------------------
(* recovery THREAD --config-file, recovery THREAD --forget *)

Replace(c) ==
  /\ pc[c] = "idle"
  /\ \E f \in Files : ~Inline(f) /\ Write(c, f)
  /\ UNCHANGED <<thread, pc, own, served>>

Forget(c) ==
  /\ pc[c] = "idle"
  /\ Write(c, Empty)
  /\ UNCHANGED <<thread, pc, own, served>>

-----------------------------------------------------------------------------
(* create *)

Goto(c, step) == pc' = [pc EXCEPT ![c] = step]

(* thread/start is answered; without an answer the id is not known. *)
Create(c) ==
  /\ pc[c] = "idle"
  /\ thread = "none"
  /\ \E f \in Files : ~Inline(f) /\ file' = [file EXCEPT ![c] = f]
  /\ thread' = "loaded"
  /\ Goto(c, "initialize")
  /\ UNCHANGED <<store, keep, seen, served>>

Initialized(c) ==
  /\ pc[c] = "initialize"
  /\ IF Supplementary(file[c]) # Empty
     THEN Goto(c, "remember") /\ UNCHANGED <<own, served>>
     ELSE Done(c)
  /\ UNCHANGED <<thread, store>>

Remember(c) ==
  /\ pc[c] = "remember"
  /\ Write(c, file[c])
  /\ Done(c)
  /\ UNCHANGED thread

-----------------------------------------------------------------------------
(* load, wake --resume, send --wake --resume, deliver_event --resume *)

Load(c) ==
  /\ pc[c] = "idle"
  /\ thread # "none"
  /\ \E f \in Files : file' = [file EXCEPT ![c] = f]
  /\ \E k \in BOOLEAN : keep' = [keep EXCEPT ![c] = k]
  /\ Goto(c, "list")
  /\ UNCHANGED <<thread, store, seen, served>>

(* A loaded thread keeps its settings, and its record.                     *)
List(c) ==
  /\ pc[c] = "list"
  /\ IF thread = "loaded" THEN Done(c) ELSE Goto(c, "read") /\ UNCHANGED <<own, served>>
  /\ UNCHANGED <<thread, store>>

Submitted(c) == Overlay(seen[c].config, file[c])

(* The request is sent; with remember_config no credential may be in it.   *)
Read(c) ==
  /\ pc[c] = "read"
  /\ seen' = [seen EXCEPT ![c] = record]
  /\ edited' = [edited EXCEPT ![c] = FALSE]
  /\ keep[c] => ~Inline(Overlay(record.config, file[c]))
  /\ Goto(c, "sent")
  /\ UNCHANGED <<thread, record, stamp, file, keep, served>>

Serve(c) ==
  /\ pc[c] = "sent" /\ ~served[c]
  /\ served' = [served EXCEPT ![c] = TRUE]
  /\ thread' = "loaded"
  /\ UNCHANGED <<store, pc, own>>

(* save_requested: the file has supplementary settings. *)
SaveRequested(c) == keep[c] /\ Supplementary(file[c]) # Empty

Answered(c) ==
  /\ pc[c] = "sent" /\ served[c]
  /\ IF SaveRequested(c) THEN Goto(c, "save") /\ UNCHANGED <<own, served>> ELSE Done(c)
  /\ UNCHANGED <<thread, store>>

Save(c) ==
  /\ pc[c] = "save"
  /\ Current(c)
  /\ Write(c, Submitted(c))
  /\ Done(c)
  /\ UNCHANGED thread

(* recoverySaveFailed: the newer record is retained. *)
SaveRefused(c) ==
  /\ pc[c] = "save"
  /\ ~Current(c)
  /\ Done(c)
  /\ UNCHANGED <<thread, store>>

-----------------------------------------------------------------------------
(* Mutant of AfterLostAnswer: an uncertain load is taken for a success.    *)
SaveAnyway(c) == IF SaveRequested(c) THEN Goto(c, "save") /\ UNCHANGED <<own, served>> ELSE Done(c)

AfterLostAnswer(c) == Done(c)

(* The request is refused, its answer is lost, or the settings that were   *)
(* asked for are not confirmed.                                            *)
LoadFailed(c) ==
  /\ pc[c] = "sent"
  /\ AfterLostAnswer(c)
  /\ UNCHANGED <<thread, store>>

(* Any other step fails, or the process dies. *)
Fails(c) ==
  /\ pc[c] \notin {"idle", "sent"}
  /\ Done(c)
  /\ UNCHANGED <<thread, store>>

CallerStep(c) ==
  \/ Replace(c) \/ Forget(c)
  \/ Create(c) \/ Initialized(c) \/ Remember(c)
  \/ Load(c) \/ List(c) \/ Read(c) \/ Serve(c) \/ Answered(c) \/ Save(c) \/ SaveRefused(c)
  \/ LoadFailed(c) \/ Fails(c)

Next == OthersLoad \/ Unload \/ \E c \in Callers : CallerStep(c)

Spec == Init /\ [][Next]_vars

-----------------------------------------------------------------------------
(* Properties. *)

Saves(c) == pc[c] = "save" /\ pc'[c] = "idle" /\ record' # record

(* Reading, loading and saving work as one step on the record: a save      *)
(* keeps every setting that the record holds at that moment and the file   *)
(* does not override, whoever stored it, and takes the file's for others.  *)
Extends(c) ==
  /\ DOMAIN record'.config = DOMAIN record.config \union (DOMAIN file[c] \ Native)
  /\ \A k \in DOMAIN record'.config :
       record'.config[k] = IF k \in DOMAIN file[c] THEN file[c][k] ELSE record.config[k]

LoadExtends == [][\A c \in Callers : Saves(c) => Extends(c)]_vars

(* A load never saves over a change that another caller made after it read *)
(* the record, except that it cannot tell a record stored and forgotten    *)
(* meanwhile from one that never was.                                      *)
NewerRetained ==
  [][\A c \in Callers : Saves(c) /\ edited[c] => seen[c] = NoRecord /\ record = NoRecord]_vars

(* Settings of a load that was refused or whose outcome is unknown are not *)
(* saved.                                                                  *)
OnlyServedSaved == [][\A c \in Callers : Saves(c) => served[c]]_vars

(* What the documentation says: when another caller replaces or forgets    *)
(* the record during loading, the save fails.                              *)
EditRetained == [][\A c \in Callers : Saves(c) => ~edited[c]]_vars
=============================================================================
