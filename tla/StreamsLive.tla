----------------------------- MODULE StreamsLive -----------------------------
(***************************************************************************)
(* Progress of the readers of a stream.  Notices about new entries are not *)
(* part of streamctl and may all be lost: it is enough that a reader polls.*)
(***************************************************************************)
EXTENDS Streams

CONSTANT
  Horizon    \* bound: the positions the property is about

ASSUME HorizonAssumption == Horizon \in Nat

(* A listing without --after. *)
PollFromAck(s) ==
  List(s) /\ view'[s].got = Page(ack[ReaderOf[s]])

Useful(s) == view[s].last > ack[ReaderOf[s]]

(* No process keeps the write lock for ever, and SQLite's busy handler     *)
(* lets a waiting session have it some time.  A session polls from its     *)
(* acknowledgement again and again.  It may fail to store an               *)
(* acknowledgement any number of times, but gives up, or dies, only        *)
(* finitely often while it holds something new.                            *)
FairSpec ==
  /\ Spec
  /\ \A w \in Writers : WF_vars(InsertEntry(w) \/ CommitAppend(w) \/ AbortAppend(w))
  /\ \A s \in Sessions :
       /\ WF_vars(CommitAck(s) \/ AbortAck(s))
       /\ WF_vars(DropView(s) /\ ~Useful(s))
       /\ SF_vars(BeginAck(s) /\ Useful(s))
       /\ SF_vars(CommitAck(s) /\ Useful(s))
       /\ SF_vars(PollFromAck(s))
       /\ <>[][~(DropView(s) /\ Useful(s))]_vars

(* Every reader that keeps polling catches up with every entry, one page   *)
(* of the limit after the other.                                           *)
ReadersCatchUp ==
  \A s \in Sessions : \A p \in 1..Horizon : tail >= p ~> ack[ReaderOf[s]] >= p
=============================================================================
