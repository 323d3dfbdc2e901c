------------------------- MODULE RecoveryStoreProofs -------------------------
(***************************************************************************)
(* Theorems about RecoveryStore, for all callers, settings and files.      *)
(*                                                                         *)
(* A save is safe because a revision stands for one content: if the record *)
(* has the revision that was read, it is the record that was read, and     *)
(* nobody changed it since.  The one revision that does not say so is that *)
(* of an absent record.                                                    *)
(***************************************************************************)
EXTENDS RecoveryStore, TLAPS

(* A row with revision 0 is no row. *)
Absent(row) == row.revision = 0 => row = NoRecord

(* Revisions that were handed out identify the record. *)
Identified(c) ==
  /\ Absent(seen[c])
  /\ seen[c].revision <= stamp
  /\ seen[c].revision = record.revision => seen[c] = record
  /\ edited[c] /\ seen[c].revision # 0 => seen[c].revision # record.revision

(* What callers on the way to a write know. *)
Prepared(c) ==
  /\ pc[c] \in {"initialize", "remember"} => ~Inline(file[c])
  /\ pc[c] \in {"sent", "save"} /\ keep[c] => ~Inline(Submitted(c))
  /\ pc[c] = "save" => keep[c] /\ served[c]

RecordShape == Absent(record) /\ record.revision <= stamp

IInv ==
  /\ TypeOK
  /\ RecordShape
  /\ \A c \in Callers : Identified(c)
  /\ \A c \in Callers : Prepared(c)

-----------------------------------------------------------------------------
(* Configurations. *)

(* A configuration is a function from some keys to values. *)
LEMMA ConfigMember ==
  ASSUME NEW S \in SUBSET Keys, NEW f \in [S -> Values]
  PROVE  f \in Config
BY DEF Config

LEMMA ConfigShape ==
  ASSUME NEW f \in Config
  PROVE  /\ DOMAIN f \subseteq Keys
         /\ f \in [DOMAIN f -> Values]
         /\ \A k \in DOMAIN f : f[k] \in Values
BY DEF Config

(* The empty configuration may be stored. *)
LEMMA EmptyClean == Empty \in Clean /\ NoRecord \in Records
<1>1. Empty \in [{} -> Values] /\ DOMAIN Empty = {} BY DEF Empty
<1>2. Empty \in Config BY <1>1, ConfigMember
<1>3. Empty \in Clean BY <1>1, <1>2 DEF Clean, Inline
<1>4. QED BY <1>3, MaxWritesAssumption DEF NoRecord, Records

(* What recovery_config lets through may be stored. *)
LEMMA SupplementaryClean ==
  ASSUME NEW f \in Config, ~Inline(f)
  PROVE  Supplementary(f) \in Clean
<1>1. DOMAIN f \subseteq Keys /\ \A k \in DOMAIN f : f[k] \in Values BY ConfigShape
<1>2. Supplementary(f) \in [DOMAIN f \ Native -> Values] BY <1>1 DEF Supplementary
<1>3. Supplementary(f) \in Config BY <1>1, <1>2, ConfigMember
<1>4. QED BY <1>3, <1>2 DEF Clean, Inline, Supplementary

(* A configuration over a configuration is one. *)
LEMMA OverlayConfig ==
  ASSUME NEW f \in Config, NEW g \in Config
  PROVE  Overlay(f, g) \in Config
<1>1. /\ DOMAIN f \subseteq Keys /\ \A k \in DOMAIN f : f[k] \in Values
      /\ DOMAIN g \subseteq Keys /\ \A k \in DOMAIN g : g[k] \in Values
  BY ConfigShape
<1>2. Overlay(f, g) \in [DOMAIN f \union DOMAIN g -> Values] BY <1>1 DEF Overlay
<1>3. QED BY <1>1, <1>2, ConfigMember

(* A record holds a configuration. *)
LEMMA RecordsHoldConfigs ==
  ASSUME NEW row \in Records
  PROVE  row.config \in Config /\ row.config \in Clean /\ row.revision \in 0..MaxWrites
BY DEF Records, Clean

-----------------------------------------------------------------------------
(* Writing. *)

(* A write of acceptable settings leaves a proper record and a revision    *)
(* nobody has seen, or none.                                               *)
LEMMA WriteStep ==
  ASSUME IInv, NEW c \in Callers, NEW f \in Config, ~Inline(f), Write(c, f)
  PROVE  /\ record' \in Records /\ stamp' \in 0..MaxWrites /\ edited' \in [Callers -> BOOLEAN]
         /\ RecordShape'
         /\ stamp <= stamp'
         /\ record'.config = Supplementary(f)
         /\ record'.revision # 0 => record'.revision > stamp
<1>1. stamp \in 0..MaxWrites /\ edited \in [Callers -> BOOLEAN] BY DEF IInv, TypeOK
<1>2. edited' \in [Callers -> BOOLEAN] BY <1>1 DEF Write
<1>3. CASE Supplementary(f) = Empty
  <2>1. record' = NoRecord /\ stamp' = stamp BY <1>3 DEF Write
  <2>2. NoRecord.config = Empty /\ NoRecord.revision = 0 BY DEF NoRecord
  <2>3. QED BY <1>1, <1>2, <1>3, <2>1, <2>2, EmptyClean, MaxWritesAssumption
            DEF RecordShape, Absent
<1>4. CASE Supplementary(f) # Empty
  <2>1. /\ stamp' = stamp + 1 /\ stamp < MaxWrites
        /\ record' = [config |-> Supplementary(f), revision |-> stamp + 1]
    BY <1>4 DEF Write
  <2>2. Supplementary(f) \in Clean BY SupplementaryClean
  <2>3. record'.config = Supplementary(f) /\ record'.revision = stamp + 1 BY <2>1
  <2>4. record' \in Records BY <2>1, <2>2, <1>1, MaxWritesAssumption DEF Records
  <2>5. QED BY <1>1, <1>2, <2>1, <2>3, <2>4, MaxWritesAssumption DEF RecordShape, Absent
<1>5. QED BY <1>3, <1>4

(* What a caller read stays identified when another write is committed.    *)
LEMMA WriteIdentified ==
  ASSUME IInv, NEW c \in Callers, NEW f \in Config, ~Inline(f), Write(c, f),
         NEW d \in Callers, seen'[d] = seen[d]
  PROVE  Identified(d)'
<1>1. /\ record'.revision # 0 => record'.revision > stamp
      /\ stamp <= stamp' /\ stamp' \in Nat /\ RecordShape'
  BY WriteStep, MaxWritesAssumption
<1>2. Identified(d) /\ seen[d].revision \in Nat /\ stamp \in Nat
  BY MaxWritesAssumption DEF IInv, TypeOK, Records
<1>3. record'.revision \in Nat BY WriteStep DEF Records
<1>4. QED BY <1>1, <1>2, <1>3 DEF Identified, Absent, RecordShape

(* A caller that is done has seen nothing. *)
LEMMA DoneIdentified ==
  ASSUME IInv, NEW c \in Callers, Done(c), stamp' \in Nat, RecordShape'
  PROVE  Identified(c)'
<1>1. seen'[c] = NoRecord BY DEF IInv, TypeOK, Done
<1>2. NoRecord.revision = 0 BY DEF NoRecord
<1>3. QED BY <1>1, <1>2 DEF Identified, Absent, RecordShape

(* Done leaves the caller with well-typed local state, and the others      *)
(* alone.                                                                  *)
LEMMA DoneStep ==
  ASSUME IInv, NEW c \in Callers, Done(c)
  PROVE  /\ pc' \in [Callers -> {"idle", "initialize", "remember", "list", "read", "sent", "save"}]
         /\ file' \in [Callers -> Config] /\ keep' \in [Callers -> BOOLEAN]
         /\ seen' \in [Callers -> Records] /\ served' \in [Callers -> BOOLEAN]
         /\ \A d \in Callers : Prepared(d)'
         /\ \A d \in Callers \ {c} : seen'[d] = seen[d]
<1>1. Empty \in Config /\ NoRecord \in Records BY EmptyClean DEF Clean
<1>2. /\ pc' \in [Callers -> {"idle", "initialize", "remember", "list", "read", "sent", "save"}]
      /\ file' \in [Callers -> Config] /\ keep' \in [Callers -> BOOLEAN]
      /\ seen' \in [Callers -> Records] /\ served' \in [Callers -> BOOLEAN]
  BY <1>1 DEF IInv, TypeOK, Done
<1>3. pc'[c] = "idle" BY DEF IInv, TypeOK, Done
<1>4. \A d \in Callers \ {c} :
        /\ pc'[d] = pc[d] /\ file'[d] = file[d] /\ keep'[d] = keep[d]
        /\ seen'[d] = seen[d] /\ served'[d] = served[d]
  BY DEF IInv, TypeOK, Done
<1>5. \A d \in Callers : Prepared(d) BY DEF IInv
<1>6. \A d \in Callers : Prepared(d)' BY <1>3, <1>4, <1>5 DEF Prepared, Submitted
<1>7. QED BY <1>2, <1>4, <1>6
-----------------------------------------------------------------------------
(* Steps. *)

(* Initially nothing is stored and nobody is at work. *)
LEMMA Initially == Init => IInv
<1> SUFFICES ASSUME Init PROVE IInv OBVIOUS
<1>2. Empty \in Config /\ NoRecord \in Records BY EmptyClean DEF Clean
<1>3. NoRecord.revision = 0 BY DEF NoRecord
<1>4. TypeOK BY <1>2, MaxWritesAssumption DEF Init, TypeOK
<1>5. RecordShape BY <1>3 DEF Init, RecordShape, Absent
<1>6. \A c \in Callers : Identified(c)
  <2>1. SUFFICES ASSUME NEW c \in Callers PROVE Identified(c) OBVIOUS
  <2>2. seen[c] = NoRecord /\ record = NoRecord /\ stamp = 0 BY DEF Init
  <2>3. QED BY <1>3, <2>2 DEF Identified, Absent
<1>7. \A c \in Callers : Prepared(c) BY DEF Init, Prepared
<1>8. QED BY <1>4, <1>5, <1>6, <1>7 DEF IInv

(* A step that leaves the store alone and only moves caller c, to a step   *)
(* it is prepared for.                                                     *)
LEMMA MoveStep ==
  ASSUME IInv, NEW c \in Callers, UNCHANGED <<store, seen>>,
         thread' \in {"none", "unloaded", "loaded"},
         pc' \in [Callers -> {"idle", "initialize", "remember", "list", "read", "sent", "save"}],
         file' \in [Callers -> Config], keep' \in [Callers -> BOOLEAN],
         served' \in [Callers -> BOOLEAN],
         \A d \in Callers \ {c} :
           pc'[d] = pc[d] /\ file'[d] = file[d] /\ keep'[d] = keep[d] /\ served'[d] = served[d],
         Prepared(c)'
  PROVE  IInv'
<1>1. TypeOK' BY DEF IInv, TypeOK, store
<1>2. RecordShape' BY DEF IInv, RecordShape, Absent, store
<1>3. \A d \in Callers : Identified(d)' BY DEF IInv, Identified, Absent, store
<1>4. \A d \in Callers : Prepared(d) BY DEF IInv
<1>5. \A d \in Callers \ {c} : Prepared(d)' BY <1>4 DEF Prepared, Submitted, store
<1>6. QED BY <1>1, <1>2, <1>3, <1>5 DEF IInv

(* A caller that ends without writing. *)
LEMMA EndStep ==
  ASSUME IInv, NEW c \in Callers, Done(c), UNCHANGED <<thread, store>>
  PROVE  IInv'
<1>1. TypeOK' BY DoneStep DEF IInv, TypeOK, store
<1>2. RecordShape' BY DEF IInv, RecordShape, Absent, store
<1>3. stamp' \in Nat BY MaxWritesAssumption DEF IInv, TypeOK, store
<1>4. \A d \in Callers \ {c} : Identified(d)'
  BY DoneStep DEF IInv, Identified, Absent, store
<1>5. Identified(c)' BY <1>2, <1>3, DoneIdentified
<1>6. QED BY <1>1, <1>2, <1>4, <1>5, DoneStep DEF IInv

(* A caller that ends with a write. *)
LEMMA EndWriteStep ==
  ASSUME IInv, NEW c \in Callers, NEW f \in Config, ~Inline(f), Write(c, f), Done(c),
         UNCHANGED thread
  PROVE  IInv'
<1>1. TypeOK' BY DoneStep, WriteStep DEF IInv, TypeOK
<1>2. RecordShape' BY WriteStep
<1>3. stamp' \in Nat BY WriteStep, MaxWritesAssumption
<1>4. \A d \in Callers \ {c} : Identified(d)' BY DoneStep, WriteIdentified
<1>5. Identified(c)' BY <1>2, <1>3, DoneIdentified
<1>6. QED BY <1>1, <1>2, <1>4, <1>5, DoneStep DEF IInv

(* The recovery command. *)
LEMMA EditStep ==
  ASSUME IInv, NEW c \in Callers, NEW f \in Config, ~Inline(f), Write(c, f),
         UNCHANGED <<thread, pc, own, served>>
  PROVE  IInv'
<1>1. TypeOK' BY WriteStep DEF IInv, TypeOK, own
<1>2. RecordShape' BY WriteStep
<1>3. \A d \in Callers : Identified(d)' BY WriteIdentified DEF own
<1>4. \A d \in Callers : Prepared(d)' BY DEF IInv, Prepared, Submitted, own
<1>5. QED BY <1>1, <1>2, <1>3, <1>4 DEF IInv

(* Every step preserves the invariant. *)
LEMMA Invariance == IInv /\ [Next]_vars => IInv'
<1> SUFFICES ASSUME IInv, [Next]_vars PROVE IInv' OBVIOUS
<1>type. /\ pc \in [Callers -> {"idle", "initialize", "remember", "list", "read", "sent", "save"}]
         /\ file \in [Callers -> Config] /\ keep \in [Callers -> BOOLEAN]
         /\ served \in [Callers -> BOOLEAN] /\ seen \in [Callers -> Records]
         /\ record \in Records /\ thread \in {"none", "unloaded", "loaded"}
  BY DEF IInv, TypeOK
<1>ready. \A d \in Callers : Prepared(d) BY DEF IInv
<1>empty. Empty \in Config /\ ~Inline(Empty) /\ Supplementary(Empty) = Empty
  BY EmptyClean DEF Clean, Supplementary, Empty
<1>1. CASE UNCHANGED vars
  <2>1. TypeOK' BY <1>1 DEF IInv, TypeOK, vars
  <2>2. RecordShape' BY <1>1 DEF IInv, RecordShape, Absent, vars
  <2>3. \A d \in Callers : Identified(d)' BY <1>1 DEF IInv, Identified, Absent, vars
  <2>4. \A d \in Callers : Prepared(d)' BY <1>1 DEF IInv, Prepared, Submitted, vars
  <2>5. QED BY <2>1, <2>2, <2>3, <2>4 DEF IInv
<1>2. CASE OthersLoad \/ Unload
  <2>1. UNCHANGED <<store, pc, own, served>> /\ thread' \in {"unloaded", "loaded"}
    BY <1>2 DEF OthersLoad, Unload
  <2>2. TypeOK' BY <2>1 DEF IInv, TypeOK, store, own
  <2>3. RecordShape' BY <2>1 DEF IInv, RecordShape, Absent, store
  <2>4. \A d \in Callers : Identified(d)' BY <2>1 DEF IInv, Identified, Absent, store, own
  <2>5. \A d \in Callers : Prepared(d)' BY <2>1 DEF IInv, Prepared, Submitted, own
  <2>6. QED BY <2>2, <2>3, <2>4, <2>5 DEF IInv
<1>3. ASSUME NEW c \in Callers, CallerStep(c) PROVE IInv'
  <2>1. CASE Replace(c)
    <3>1. PICK f \in Files : ~Inline(f) /\ Write(c, f) BY <2>1 DEF Replace
    <3>2. f \in Config BY FilesAssumption
    <3>3. QED BY <2>1, <3>1, <3>2, EditStep DEF Replace
  <2>2. CASE Forget(c) BY <2>2, <1>empty, EditStep DEF Forget
  <2>3. CASE Create(c)
    <3>1. PICK f \in Files : ~Inline(f) /\ file' = [file EXCEPT ![c] = f] BY <2>3 DEF Create
    <3>2. f \in Config BY FilesAssumption
    <3>3. Prepared(c)' BY <2>3, <3>1, <3>2, <1>type DEF Create, Goto, Prepared
    <3>4. QED BY <2>3, <3>1, <3>2, <3>3, <1>type, MoveStep DEF Create, Goto, store
  <2>4. CASE Initialized(c)
    <3>1. CASE Supplementary(file[c]) # Empty
      <4>1. Goto(c, "remember") /\ UNCHANGED <<own, served, thread, store>>
        BY <2>4, <3>1 DEF Initialized
      <4>2. Prepared(c)' BY <2>4, <4>1, <1>type, <1>ready DEF Initialized, Goto, Prepared, own
      <4>3. QED BY <4>1, <4>2, <1>type, MoveStep DEF Goto, own
    <3>2. CASE Supplementary(file[c]) = Empty
      BY <2>4, <3>2, EndStep DEF Initialized
    <3>3. QED BY <3>1, <3>2
  <2>5. CASE Remember(c)
    <3>1. file[c] \in Config /\ ~Inline(file[c]) BY <2>5, <1>type, <1>ready DEF Remember, Prepared
    <3>2. QED BY <2>5, <3>1, EndWriteStep DEF Remember
  <2>6. CASE Load(c)
    <3>1. PICK f \in Files : file' = [file EXCEPT ![c] = f] BY <2>6 DEF Load
    <3>2. PICK k \in BOOLEAN : keep' = [keep EXCEPT ![c] = k] BY <2>6 DEF Load
    <3>3. f \in Config BY FilesAssumption
    <3>4. Prepared(c)' BY <2>6, <1>type DEF Load, Goto, Prepared
    <3>5. QED BY <2>6, <3>1, <3>2, <3>3, <3>4, <1>type, MoveStep DEF Load, Goto, store
  <2>7. CASE List(c)
    <3>1. CASE thread = "loaded" BY <2>7, <3>1, EndStep DEF List
    <3>2. CASE thread # "loaded"
      <4>1. Goto(c, "read") /\ UNCHANGED <<own, served, thread, store>> BY <2>7, <3>2 DEF List
      <4>2. Prepared(c)' BY <4>1, <1>type DEF Goto, Prepared
      <4>3. QED BY <4>1, <4>2, <1>type, MoveStep DEF Goto, own
    <3>3. QED BY <3>1, <3>2
  <2>8. CASE Read(c)
    <3>1. /\ seen' = [seen EXCEPT ![c] = record] /\ edited' = [edited EXCEPT ![c] = FALSE]
          /\ pc' = [pc EXCEPT ![c] = "sent"]
          /\ UNCHANGED <<thread, record, stamp, file, keep, served>>
      BY <2>8 DEF Read, Goto
    <3>2. TypeOK' BY <3>1, <1>type DEF IInv, TypeOK
    <3>3. RecordShape' BY <3>1 DEF IInv, RecordShape, Absent
    <3>4. \A d \in Callers \ {c} : Identified(d)'
      BY <3>1, <1>type DEF IInv, TypeOK, Identified, Absent
    <3>5. Identified(c)'
      BY <3>1, <1>type DEF IInv, TypeOK, RecordShape, Identified, Absent
    <3>6. \A d \in Callers \ {c} : Prepared(d)'
      BY <3>1, <1>type, <1>ready DEF Prepared, Submitted
    <3>7. Prepared(c)' BY <2>8, <3>1, <1>type DEF Read, Prepared, Submitted
    <3>8. QED BY <3>2, <3>3, <3>4, <3>5, <3>6, <3>7 DEF IInv
  <2>9. CASE Serve(c)
    <3>1. Prepared(c)' BY <2>9, <1>type, <1>ready DEF Serve, Prepared, Submitted, own
    <3>2. QED BY <2>9, <3>1, <1>type, MoveStep DEF Serve, own
  <2>10. CASE Answered(c)
    <3>1. CASE SaveRequested(c)
      <4>1. Goto(c, "save") /\ UNCHANGED <<own, served, thread, store>>
        BY <2>10, <3>1 DEF Answered
      <4>2. Prepared(c)'
        BY <2>10, <3>1, <4>1, <1>type, <1>ready
           DEF Answered, SaveRequested, Goto, Prepared, Submitted, own
      <4>3. QED BY <4>1, <4>2, <1>type, MoveStep DEF Goto, own
    <3>2. CASE ~SaveRequested(c) BY <2>10, <3>2, EndStep DEF Answered
    <3>3. QED BY <3>1, <3>2
  <2>11. CASE Save(c)
    <3>1. seen[c].config \in Config BY <1>type, RecordsHoldConfigs
    <3>2. Submitted(c) \in Config BY <3>1, <1>type, OverlayConfig DEF Submitted
    <3>3. ~Inline(Submitted(c)) BY <2>11, <1>ready DEF Save, Prepared
    <3>4. QED BY <2>11, <3>2, <3>3, EndWriteStep DEF Save
  <2>12. CASE SaveRefused(c) BY <2>12, EndStep DEF SaveRefused
  <2>13. CASE LoadFailed(c) BY <2>13, EndStep DEF LoadFailed, AfterLostAnswer
  <2>14. CASE Fails(c) BY <2>14, EndStep DEF Fails
  <2>15. QED BY <1>3, <2>1, <2>2, <2>3, <2>4, <2>5, <2>6, <2>7, <2>8, <2>9, <2>10, <2>11,
                <2>12, <2>13, <2>14 DEF CallerStep
<1>4. QED BY <1>1, <1>2, <1>3 DEF Next

-----------------------------------------------------------------------------
(* Theorems. *)

(* The invariant holds throughout. *)
LEMMA Always == Spec => []IInv
<1>1. Init => IInv BY Initially
<1>2. IInv /\ [Next]_vars => IInv' BY Invariance
<1>3. QED BY <1>1, <1>2, PTL DEF Spec

(* A step in which a load changes the record is its Save.                  *)
LEMMA SavesIsSave ==
  ASSUME IInv, [Next]_vars, NEW c \in Callers, Saves(c)
  PROVE  Save(c)
<1>1. pc \in [Callers -> {"idle", "initialize", "remember", "list", "read", "sent", "save"}]
  BY DEF IInv, TypeOK
<1>2. pc[c] = "save" /\ pc'[c] = "idle" /\ record' # record BY DEF Saves
<1>3. ~ UNCHANGED vars BY <1>2 DEF vars
<1>4. ~ OthersLoad /\ ~ Unload BY <1>2 DEF OthersLoad, Unload
<1>5. PICK d \in Callers : CallerStep(d) BY <1>3, <1>4 DEF Next
<1>6. ~ (Replace(d) \/ Forget(d)) BY <1>2 DEF Replace, Forget
<1>7. ~ (Create(d) \/ Initialized(d) \/ Load(d) \/ List(d) \/ Read(d) \/ Serve(d) \/ Answered(d))
  BY <1>2 DEF Create, Initialized, Load, List, Read, Serve, Answered, store
<1>8. ~ (SaveRefused(d) \/ LoadFailed(d) \/ Fails(d))
  BY <1>2 DEF SaveRefused, LoadFailed, Fails, store
<1>9. d = c \/ pc'[c] = pc[c]
  BY <1>1, <1>5, <1>6, <1>7, <1>8 DEF CallerStep, Remember, Save, Done
<1>10. d = c BY <1>2, <1>9
<1>11. ~ Remember(c) BY <1>2 DEF Remember
<1>12. QED BY <1>5, <1>6, <1>7, <1>8, <1>10, <1>11 DEF CallerStep

(* A save whose revision is current writes over the record that was read.  *)
LEMMA SaveWrites ==
  ASSUME IInv, NEW c \in Callers, Save(c)
  PROVE  /\ seen[c] = record
         /\ record'.config = Supplementary(Overlay(record.config, file[c]))
         /\ edited[c] => record = NoRecord
<1>1. seen[c] \in Records /\ file[c] \in Config BY DEF IInv, TypeOK
<1>2. Identified(c) /\ Prepared(c) BY DEF IInv
<1>3. seen[c] = record BY <1>2 DEF Save, Current, Identified
<1>4. edited[c] => record = NoRecord BY <1>2, <1>3 DEF Identified, Absent
<1>5. Submitted(c) \in Config BY <1>1, RecordsHoldConfigs, OverlayConfig DEF Submitted
<1>6. ~Inline(Submitted(c)) BY <1>2 DEF Save, Prepared
<1>7. record'.config = Supplementary(Submitted(c)) BY <1>5, <1>6, WriteStep DEF Save
<1>8. QED BY <1>3, <1>4, <1>7 DEF Submitted

(* The record holds supplementary settings without credentials, and every  *)
(* variable has its type.                                                  *)
THEOREM TypeCorrect == Spec => []TypeOK
<1>1. IInv => TypeOK BY DEF IInv
<1>2. QED BY <1>1, Always, PTL

(* Reading, loading and saving extend the record as one step would.        *)
THEOREM LoadsExtend == Spec => LoadExtends
<1>1. ASSUME IInv, [Next]_vars, NEW c \in Callers, Saves(c)
      PROVE  Extends(c)
  <2>1. Save(c) BY <1>1, SavesIsSave
  <2>2. record'.config = Supplementary(Overlay(record.config, file[c])) BY <1>1, <2>1, SaveWrites
  <2>3. record.config \in Clean BY <1>1, RecordsHoldConfigs DEF IInv, TypeOK
  <2>4. DOMAIN record.config \cap Native = {} BY <2>3 DEF Clean
  <2>5. QED BY <2>2, <2>4 DEF Supplementary, Overlay, Extends
<1>2. IInv /\ [Next]_vars => [\A c \in Callers : Saves(c) => Extends(c)]_vars BY <1>1
<1>3. QED BY <1>2, Always, PTL DEF Spec, LoadExtends

(* Nothing that another caller stored since the read is overwritten.       *)
THEOREM NewerIsRetained == Spec => NewerRetained
<1>1. ASSUME IInv, [Next]_vars, NEW c \in Callers, Saves(c), edited[c]
      PROVE  seen[c] = NoRecord /\ record = NoRecord
  BY <1>1, SavesIsSave, SaveWrites
<1>2. IInv /\ [Next]_vars =>
      [\A c \in Callers : Saves(c) /\ edited[c] => seen[c] = NoRecord /\ record = NoRecord]_vars
  BY <1>1
<1>3. QED BY <1>2, Always, PTL DEF Spec, NewerRetained

(* Only settings of a load that the app-server processed are saved.        *)
THEOREM OnlyServedIsSaved == Spec => OnlyServedSaved
<1>1. ASSUME IInv, [Next]_vars, NEW c \in Callers, Saves(c)
      PROVE  served[c]
  BY <1>1 DEF IInv, Prepared, Saves
<1>2. IInv /\ [Next]_vars => [\A c \in Callers : Saves(c) => served[c]]_vars BY <1>1
<1>3. QED BY <1>2, Always, PTL DEF Spec, OnlyServedSaved
=============================================================================
