---------------------------- MODULE StreamsProofs ----------------------------
(***************************************************************************)
(* Theorems about Streams, for all writers, messages, sessions, readers    *)
(* and page sizes.                                                         *)
(*                                                                         *)
(* Everything rests on the write lock: whoever has begun a transaction     *)
(* holds it, so the position after the tail, at which a row was inserted,  *)
(* is still free when it is committed.  A listing is a slice that begins   *)
(* at or before what its reader acknowledged; both only grow, so what is   *)
(* between them is empty when the acknowledgement is made.                 *)
(***************************************************************************)
EXTENDS Streams, BoundedSets

(* The holder of the write lock is in a transaction, and nobody else is.   *)
LockShape ==
  /\ \A w \in Writers : wpc[w] \in {"begun", "inserted"} <=> lock = w
  /\ \A s \in Sessions : spc[s] = "begun" <=> lock = s

(* A row that is inserted is the next one, and no copy of an older one.    *)
DraftShape(w) ==
  wpc[w] = "inserted" =>
    /\ draft[w] \in Row /\ draft[w].position = tail + 1
    /\ draft[w].author = w /\ draft[w].text = next[w] /\ draft[w].replyTo \in 0..tail

(* What a listing returned reaches back to what was acknowledged.          *)
ViewShape(s) ==
  /\ spc[s] = "begun" => view[s].got # {}
  /\ view[s].got # {} =>
       /\ view[s].last \in view[s].got /\ view[s].got \subseteq 1..tail
       /\ \A p \in 1..view[s].last : p \in view[s].got \/ p <= ack[ReaderOf[s]]

(* The entries of a writer are its messages before the one at hand, and    *)
(* that one when the result of an append was lost.                         *)
Texts(w) ==
  \A p \in Positions : entries[p].author = w =>
    entries[p].text < next[w] \/ (entries[p].text = next[w] /\ wpc[w] = "unsure")

Copies(w, n) == {p \in Positions : entries[p].author = w /\ entries[p].text = n}

OneCopy(w) ==
  \A n \in Nat : /\ \A p, q \in Copies(w, n) : p = q
                 /\ n \in 1..(next[w] - 1) => Copies(w, n) # {}

IInv ==
  /\ WellFormed /\ NothingPassedOver /\ LockShape
  /\ \A w \in Writers : DraftShape(w) /\ Texts(w) /\ OneCopy(w)
  /\ \A s \in Sessions : ViewShape(s)

-----------------------------------------------------------------------------
(* What list returns. *)

(* A page is a set of positions after the one it starts at, and has every  *)
(* such position before any of its own.                                    *)
LEMMA PageIsSlice ==
  ASSUME Contiguous, tail \in Nat, NEW after \in Nat
  PROVE  /\ Page(after) \subseteq 1..tail
         /\ \A p \in Page(after) : p > after
         /\ \A p \in Page(after) : \A q \in 1..p : q > after => q \in Page(after)
  <1> DEFINE Rest == {p \in Positions : p > after}
  <1> DEFINE Before(p) == {q \in Rest : q < p}
  <1>1. Positions = 1..tail
    BY DEF Contiguous
  <1>2. CASE Limit = 0
    <2>1. Page(after) = Rest
      BY <1>2 DEF Page
    <2> QED BY <2>1, <1>1
  <1>3. CASE Limit # 0
    <2>1. Page(after) = {p \in Rest : Cardinality(Before(p)) < Limit}
      BY <1>3 DEF Page
    <2>2. ASSUME NEW p \in Page(after), NEW q \in 1..p, q > after
          PROVE  q \in Page(after)
      <3>1. q \in Rest
        BY <2>1, <2>2, <1>1
      <3>2. Before(q) \in SUBSET Before(p) /\ Before(p) \in SUBSET (1..tail)
        BY <2>1, <2>2, <1>1
      <3>3. /\ Cardinality(Before(q)) <= Cardinality(Before(p))
            /\ Cardinality(Before(q)) \in Nat /\ Cardinality(Before(p)) \in Nat
        BY <3>2, FewerElements
      <3>4. Cardinality(Before(q)) < Limit
        <4>1. Cardinality(Before(p)) < Limit
          BY <2>1
        <4> HIDE DEF Before
        <4> QED BY <4>1, <3>3, LimitAssumption
      <3> QED BY <3>1, <3>4, <2>1
    <2> QED BY <2>1, <2>2, <1>1
  <1> QED BY <1>2, <1>3

LEMMA LastIsLast ==
  ASSUME NEW S \in SUBSET Int, \E p \in S : \A q \in S : q <= p,
         NEW L, L = CHOOSE p \in S : \A q \in S : q <= p
  PROVE  L \in S /\ \A q \in S : q <= L
  OBVIOUS

LEMMA LastIsGiven ==
  ASSUME NEW n \in Nat, NEW page \in SUBSET (1..n)
  PROVE  /\ LastGiven(page) \in Nat
         /\ page # {} => LastGiven(page) \in page /\ \A q \in page : q <= LastGiven(page)
  <1>1. CASE page = {}
    BY <1>1 DEF LastGiven
  <1>2. CASE page # {}
    <2>0. page \in SUBSET Int /\ page \in SUBSET Nat
      OBVIOUS
    <2>1. \E p \in page : \A q \in page : q <= p
      BY <1>2, HasLast
    <2>2. LastGiven(page) = CHOOSE p \in page : \A q \in page : q <= p
      BY <1>2 DEF LastGiven
    <2>3. LastGiven(page) \in page /\ \A q \in page : q <= LastGiven(page)
      BY <2>0, <2>1, <2>2, LastIsLast
    <2> QED BY <2>0, <2>3
  <1> QED BY <1>1, <1>2

-----------------------------------------------------------------------------
(* Init and the steps. *)

LEMMA InitInv == Init => IInv
  <1> SUFFICES ASSUME Init PROVE IInv
    OBVIOUS
  <1> USE DEF Init
  <1>1. Positions = {} /\ 1..tail = {}
    BY DEF Positions
  <1>2. TypeOK
    BY <1>1, WritersAssumption DEF TypeOK, Positions, NoView
  <1>3. Contiguous /\ RepliesPointBack
    BY <1>1 DEF Contiguous, RepliesPointBack
  <1>4. NothingPassedOver
    BY DEF NothingPassedOver
  <1>5. LockShape
    BY WritersAssumption DEF LockShape
  <1>6. ASSUME NEW w \in Writers PROVE DraftShape(w) /\ Texts(w) /\ OneCopy(w)
    <2>1. next[w] = 1 /\ wpc[w] = "idle"
      OBVIOUS
    <2> QED BY <2>1, <1>1 DEF DraftShape, Texts, OneCopy, Copies
  <1>7. ASSUME NEW s \in Sessions PROVE ViewShape(s)
    BY DEF ViewShape, NoView
  <1> QED BY <1>2, <1>3, <1>4, <1>5, <1>6, <1>7 DEF IInv, WellFormed

(* What a writer's transaction commits. *)
LEMMA Committed ==
  ASSUME IInv, NEW w \in Writers, CommitAppend(w)
  PROVE  /\ tail' = tail + 1 /\ Positions' = 1..(tail + 1) /\ Positions = 1..tail
         /\ DOMAIN entries' = 1..(tail + 1)
         /\ entries'[tail + 1] = draft[w] /\ draft[w] \in Row
         /\ \A p \in Positions : entries'[p] = entries[p]
  <1>1. draft[w] \in Row /\ draft[w].position = tail + 1 /\ tail \in Nat /\ Positions = 1..tail
    BY DEF CommitAppend, IInv, WellFormed, TypeOK, Contiguous, DraftShape
  <1>2. entries' = [p \in Positions \union {tail + 1} |->
                      IF p = tail + 1 THEN draft[w] ELSE entries[p]]
    BY <1>1 DEF CommitAppend, Inserted
  <1>3. Positions \union {tail + 1} = 1..(tail + 1)
    BY <1>1
  <1>4. tail' = tail + 1
    BY <1>1 DEF CommitAppend, TailAfter
  <1>5. Positions' = DOMAIN entries'
    BY DEF Positions
  <1>6. DOMAIN entries' = 1..(tail + 1)
    BY <1>2, <1>3
  <1>7. entries'[tail + 1] = draft[w]
    BY <1>2
  <1>8. ASSUME NEW p \in Positions PROVE entries'[p] = entries[p]
    <2>1. p # tail + 1
      BY <1>1
    <2> QED BY <2>1, <1>2
  <1> QED BY <1>1, <1>4, <1>5, <1>6, <1>7, <1>8

LEMMA TypeStep == IInv /\ [Next]_vars => TypeOK'
  <1> SUFFICES ASSUME IInv, [Next]_vars PROVE TypeOK'
    OBVIOUS
  <1>0. TypeOK /\ Contiguous
    BY DEF IInv, WellFormed
  <1> USE WritersAssumption, SessionsAssumption
  <1>1. CASE Create
    BY <1>0, <1>1 DEF Create, TypeOK, table, writing, reading
  <1>2. ASSUME NEW w \in Writers, BeginAppend(w) PROVE TypeOK'
    BY <1>0, <1>2 DEF BeginAppend, TypeOK, table, writing, reading
  <1>3. ASSUME NEW w \in Writers, InsertEntry(w) PROVE TypeOK'
    <2>1. PICK replyTo \in 0..(tail + 1) : draft' = [draft EXCEPT ![w] =
            [position |-> tail + 1, author |-> w, text |-> next[w], replyTo |-> replyTo]]
      BY <1>3 DEF InsertEntry
    <2>2. [position |-> tail + 1, author |-> w, text |-> next[w], replyTo |-> replyTo] \in Row
      BY <1>0 DEF TypeOK, Row
    <2>3. draft' \in [Writers -> Row \union {NoDraft}]
      BY <1>0, <2>1, <2>2 DEF TypeOK
    <2> QED BY <1>0, <1>3, <2>3 DEF InsertEntry, TypeOK, table, reading
  <1>4. ASSUME NEW w \in Writers, CommitAppend(w) PROVE TypeOK'
    <2>1. tail' \in Nat /\ DOMAIN entries' \subseteq Nat
      BY <1>0, <1>4, Committed DEF TypeOK
    <2>2. ASSUME NEW p \in DOMAIN entries' PROVE entries'[p] \in Row
      <3>1. p = tail + 1 \/ p \in Positions
        BY <1>0, <1>4, Committed DEF TypeOK
      <3> QED BY <3>1, <1>0, <1>4, Committed DEF TypeOK, Positions
    <2>3. wpc' \in [Writers -> {"idle", "begun", "inserted", "unsure"}] /\ next' \in [Writers -> Nat]
      BY <1>0, <1>4 DEF CommitAppend, TypeOK
    <2>4. draft' \in [Writers -> Row \union {NoDraft}]
      BY <1>0, <1>4 DEF CommitAppend, TypeOK
    <2> QED BY <1>0, <1>4, <2>1, <2>2, <2>3, <2>4 DEF CommitAppend, TypeOK, reading
  <1>5. ASSUME NEW w \in Writers, AbortAppend(w) PROVE TypeOK'
    BY <1>0, <1>5 DEF AbortAppend, TypeOK, table, reading
  <1>6. ASSUME NEW w \in Writers, Reconcile(w) PROVE TypeOK'
    BY <1>0, <1>6 DEF Reconcile, TypeOK, table, reading
  <1>7. ASSUME NEW s \in Sessions, List(s) PROVE TypeOK'
    <2>1. PICK after \in 0..ack[ReaderOf[s]] :
             view' = [view EXCEPT ![s] = [last |-> LastGiven(Page(after)), got |-> Page(after)]]
      BY <1>7 DEF List
    <2>2. after \in Nat
      BY <1>0 DEF TypeOK
    <2>3. Page(after) \in SUBSET (1..tail) /\ tail \in Nat
      BY <1>0, <2>2, PageIsSlice DEF TypeOK
    <2>4. LastGiven(Page(after)) \in Nat
      BY <2>3, LastIsGiven
    <2>5. Page(after) \in SUBSET Nat
      BY <2>3
    <2>6. view' \in [Sessions -> [last : Nat, got : SUBSET Nat]]
      BY <1>0, <2>1, <2>4, <2>5 DEF TypeOK
    <2> QED BY <1>0, <1>7, <2>6 DEF List, TypeOK, table, writing
  <1>8. ASSUME NEW s \in Sessions, DropView(s) \/ AbortAck(s) PROVE TypeOK'
    <2>1. NoView \in [last : Nat, got : SUBSET Nat]
      BY DEF NoView
    <2> QED BY <1>0, <1>8, <2>1 DEF DropView, AbortAck, TypeOK, table, writing
  <1>9. ASSUME NEW s \in Sessions, BeginAck(s) PROVE TypeOK'
    BY <1>0, <1>9 DEF BeginAck, TypeOK, table, writing
  <1>10. ASSUME NEW s \in Sessions, CommitAck(s) PROVE TypeOK'
    <2>1. NoView \in [last : Nat, got : SUBSET Nat]
      BY DEF NoView
    <2>2. ReaderOf[s] \in Readers /\ view[s].last \in Nat /\ view[s].got \in SUBSET Nat
      BY <1>0 DEF TypeOK
    <2>3. ack' \in [Readers -> Nat]
      BY <1>0, <1>10, <2>2 DEF CommitAck, AckAfter, TypeOK
    <2>4. seen' \in [Readers -> SUBSET Nat]
      BY <1>0, <1>10, <2>2 DEF CommitAck, TypeOK
    <2> QED BY <1>0, <1>10, <2>1, <2>3, <2>4 DEF CommitAck, TypeOK, writing
  <1>11. CASE UNCHANGED vars
    BY <1>0, <1>11 DEF vars, TypeOK
  <1> QED BY <1>1, <1>2, <1>3, <1>4, <1>5, <1>6, <1>7, <1>8, <1>9, <1>10, <1>11
          DEF Next, WriterStep, SessionStep

LEMMA ContiguousStep ==
  IInv /\ [Next]_vars => Contiguous' /\ RepliesPointBack' /\ tail <= tail'
  <1> SUFFICES ASSUME IInv, [Next]_vars
               PROVE  Contiguous' /\ RepliesPointBack' /\ tail <= tail'
    OBVIOUS
  <1>0. TypeOK /\ Contiguous /\ RepliesPointBack /\ tail \in Nat
    BY DEF IInv, WellFormed, TypeOK
  <1>1. ASSUME NEW w \in Writers, CommitAppend(w)
        PROVE  Contiguous' /\ RepliesPointBack' /\ tail <= tail'
    <2>1. Contiguous' /\ tail <= tail'
      BY <1>0, <1>1, Committed DEF Contiguous
    <2>2. draft[w].replyTo \in 0..tail
      BY <1>1 DEF IInv, DraftShape, CommitAppend
    <2>3. ASSUME NEW p \in Positions' PROVE entries'[p].replyTo \in 0..(p - 1)
      <3>1. p = tail + 1 \/ p \in Positions
        BY <1>0, <1>1, Committed
      <3>2. CASE p = tail + 1
        BY <1>0, <1>1, <2>2, <3>2, Committed
      <3>3. CASE p \in Positions
        BY <1>0, <1>1, <3>3, Committed DEF RepliesPointBack
      <3> QED BY <3>1, <3>2, <3>3
    <2> QED BY <2>1, <2>3 DEF RepliesPointBack
  <1>2. CASE UNCHANGED <<tail, entries>>
    BY <1>0, <1>2 DEF Contiguous, RepliesPointBack, Positions
  <1> QED BY <1>1, <1>2 DEF Next, WriterStep, SessionStep, Create, BeginAppend, InsertEntry,
             AbortAppend, Reconcile, List, DropView, BeginAck, CommitAck, AbortAck, vars, table

LEMMA LockStep == IInv /\ [Next]_vars => LockShape'
  <1> SUFFICES ASSUME IInv, [Next]_vars PROVE LockShape'
    OBVIOUS
  <1>0. TypeOK /\ LockShape
    BY DEF IInv, WellFormed
  <1> USE WritersAssumption, SessionsAssumption
  <1>1. ASSUME NEW w \in Writers, BeginAppend(w) PROVE LockShape'
    BY <1>0, <1>1 DEF BeginAppend, LockShape, TypeOK, reading
  <1>2. ASSUME NEW w \in Writers, InsertEntry(w) PROVE LockShape'
    BY <1>0, <1>2 DEF InsertEntry, LockShape, TypeOK, reading
  <1>3. ASSUME NEW w \in Writers, CommitAppend(w) PROVE LockShape'
    BY <1>0, <1>3 DEF CommitAppend, LockShape, TypeOK, reading
  <1>4. ASSUME NEW w \in Writers, AbortAppend(w) PROVE LockShape'
    BY <1>0, <1>4 DEF AbortAppend, LockShape, TypeOK, reading
  <1>5. ASSUME NEW w \in Writers, Reconcile(w) PROVE LockShape'
    BY <1>0, <1>5 DEF Reconcile, LockShape, TypeOK, reading
  <1>6. ASSUME NEW s \in Sessions, List(s) \/ DropView(s) PROVE LockShape'
    BY <1>0, <1>6 DEF List, DropView, LockShape, TypeOK, writing
  <1>7. ASSUME NEW s \in Sessions, BeginAck(s) PROVE LockShape'
    BY <1>0, <1>7 DEF BeginAck, LockShape, TypeOK, writing
  <1>8. ASSUME NEW s \in Sessions, CommitAck(s) \/ AbortAck(s) PROVE LockShape'
    BY <1>0, <1>8 DEF CommitAck, AbortAck, LockShape, TypeOK, writing
  <1>9. CASE Create \/ UNCHANGED vars
    BY <1>0, <1>9 DEF Create, vars, LockShape, writing, reading
  <1> QED BY <1>1, <1>2, <1>3, <1>4, <1>5, <1>6, <1>7, <1>8, <1>9
          DEF Next, WriterStep, SessionStep

LEMMA DraftStep ==
  ASSUME NEW v \in Writers
  PROVE  IInv /\ [Next]_vars => DraftShape(v)'
  <1> SUFFICES ASSUME IInv, [Next]_vars PROVE DraftShape(v)'
    OBVIOUS
  <1>0. TypeOK /\ LockShape /\ DraftShape(v) /\ Contiguous
    BY DEF IInv, WellFormed
  <1>1. ASSUME NEW w \in Writers, InsertEntry(w) PROVE DraftShape(v)'
    <2>1. PICK replyTo \in 0..(tail + 1) :
            /\ ReplyExists(replyTo)
            /\ draft' = [draft EXCEPT ![w] =
                 [position |-> tail + 1, author |-> w, text |-> next[w], replyTo |-> replyTo]]
      BY <1>1 DEF InsertEntry
    <2>2. replyTo \in 0..tail
      BY <1>0, <2>1 DEF ReplyExists, Contiguous, TypeOK
    <2>3. tail' = tail /\ next' = next /\ wpc' = [wpc EXCEPT ![w] = "inserted"]
      BY <1>1 DEF InsertEntry, table
    <2>4. CASE v = w
      <3>1. draft'[v] = [position |-> tail + 1, author |-> w, text |-> next[w], replyTo |-> replyTo]
        BY <1>0, <2>1, <2>4 DEF TypeOK
      <3>2. tail \in Nat /\ next[w] \in Nat
        BY <1>0 DEF TypeOK
      <3> QED BY <2>2, <2>3, <2>4, <3>1, <3>2 DEF DraftShape, Row
    <2>5. CASE v # w
      <3>1. draft'[v] = draft[v] /\ wpc'[v] = wpc[v]
        BY <1>0, <2>1, <2>3, <2>5 DEF TypeOK
      <3> QED BY <1>0, <2>3, <3>1 DEF DraftShape
    <2> QED BY <2>4, <2>5
  <1>2. ASSUME NEW w \in Writers, CommitAppend(w) PROVE DraftShape(v)'
    <2>1. wpc'[v] # "inserted"
      BY <1>0, <1>2 DEF CommitAppend, LockShape, TypeOK
    <2> QED BY <2>1 DEF DraftShape
  <1>3. ASSUME NEW w \in Writers, BeginAppend(w) \/ AbortAppend(w) \/ Reconcile(w)
        PROVE  DraftShape(v)'
    BY <1>0, <1>3 DEF BeginAppend, AbortAppend, Reconcile, table, DraftShape, TypeOK
  <1>4. CASE UNCHANGED <<tail, writing>>
    BY <1>0, <1>4 DEF DraftShape, writing
  <1> QED BY <1>1, <1>2, <1>3, <1>4 DEF Next, WriterStep, SessionStep, Create,
             List, DropView, BeginAck, CommitAck, AbortAck, vars, table, writing

(* Listings and acknowledgements: both only grow. *)
LEMMA AckStep ==
  IInv /\ [Next]_vars =>
    /\ NothingPassedOver'
    /\ \A r \in Readers : ack'[r] >= ack[r]
  <1> SUFFICES ASSUME IInv, [Next]_vars
               PROVE  NothingPassedOver' /\ \A r \in Readers : ack'[r] >= ack[r]
    OBVIOUS
  <1>0. /\ TypeOK /\ NothingPassedOver /\ tail <= tail' /\ tail \in Nat /\ tail' \in Nat
        /\ ack \in [Readers -> Nat]
    BY ContiguousStep, TypeStep DEF IInv, WellFormed, TypeOK
  <1>1. ASSUME NEW s \in Sessions, CommitAck(s)
        PROVE  NothingPassedOver' /\ \A r \in Readers : ack'[r] >= ack[r]
    <2> DEFINE c == ReaderOf[s]
    <2>1. c \in Readers /\ view[s].last \in Nat /\ view[s].got # {} /\ view[s].last <= tail
      BY <1>0, <1>1, SessionsAssumption DEF CommitAck, TypeOK, IInv, ViewShape
    <2>2. \A p \in 1..view[s].last : p \in view[s].got \/ p <= ack[c]
      BY <2>1 DEF IInv, ViewShape
    <2>3. /\ ack' = [ack EXCEPT ![c] = AckAfter(c, view[s].last)]
          /\ seen' = [seen EXCEPT ![c] = @ \union view[s].got] /\ tail' = tail
      BY <1>1 DEF CommitAck
    <2>4. ASSUME NEW r \in Readers
          PROVE  ack'[r] >= ack[r] /\ 1..ack'[r] \subseteq seen'[r] /\ ack'[r] <= tail'
      <3>1. 1..ack[r] \subseteq seen[r] /\ ack[r] <= tail /\ ack[r] \in Nat
        BY <1>0 DEF NothingPassedOver
      <3>2. CASE r # c
        BY <1>0, <2>3, <3>1, <3>2 DEF TypeOK
      <3>3. CASE r = c
        <4>1. ack'[r] = AckAfter(r, view[s].last) /\ seen'[r] = seen[r] \union view[s].got
          BY <1>0, <2>3, <3>3 DEF TypeOK
        <4>2. ack'[r] = ack[r] \/ (ack'[r] = view[s].last /\ ack'[r] > ack[r])
          BY <4>1 DEF AckAfter
        <4>3. 1..ack'[r] \subseteq seen'[r]
          BY <2>1, <2>2, <3>1, <3>3, <4>1, <4>2
        <4> QED BY <2>1, <2>3, <3>1, <4>2, <4>3
      <3> QED BY <3>2, <3>3
    <2> QED BY <2>4 DEF NothingPassedOver
  <1>2. CASE UNCHANGED <<ack, seen>>
    <2>1. ASSUME NEW r \in Readers PROVE ack[r] <= tail'
      BY <1>0 DEF NothingPassedOver
    <2> QED BY <1>0, <1>2, <2>1 DEF NothingPassedOver
  <1> QED BY <1>1, <1>2 DEF Next, WriterStep, SessionStep, Create, BeginAppend, InsertEntry,
             CommitAppend, AbortAppend, Reconcile, List, DropView, BeginAck, AbortAck, vars,
             table, reading

LEMMA ViewStep ==
  ASSUME NEW t \in Sessions
  PROVE  IInv /\ [Next]_vars => ViewShape(t)'
  <1> SUFFICES ASSUME IInv, [Next]_vars PROVE ViewShape(t)'
    OBVIOUS
  <1>0. /\ TypeOK /\ Contiguous /\ ViewShape(t) /\ tail <= tail'
        /\ tail \in Nat /\ tail' \in Nat /\ ReaderOf[t] \in Readers
        /\ \A r \in Readers : ack[r] \in Nat /\ ack'[r] \in Nat /\ ack'[r] >= ack[r]
    BY ContiguousStep, TypeStep, AckStep, SessionsAssumption DEF IInv, WellFormed, TypeOK
  <1>1. CASE view'[t] = view[t] /\ (spc'[t] = "begun" => spc[t] = "begun" \/ view[t].got # {})
    <2>1. ASSUME view[t].got # {}
          PROVE  /\ view[t].last \in view[t].got /\ view[t].got \subseteq 1..tail'
                 /\ \A p \in 1..view[t].last : p \in view[t].got \/ p <= ack'[ReaderOf[t]]
      BY <1>0, <2>1 DEF ViewShape
    <2> QED BY <1>0, <1>1, <2>1 DEF ViewShape
  <1>2. CASE view'[t] = NoView /\ spc'[t] # "begun"
    BY <1>2 DEF ViewShape, NoView
  <1>3. CASE List(t)
    <2>1. PICK after \in 0..ack[ReaderOf[t]] :
             view' = [view EXCEPT ![t] = [last |-> LastGiven(Page(after)), got |-> Page(after)]]
      BY <1>3 DEF List
    <2>2. after \in Nat /\ after <= ack'[ReaderOf[t]]
      BY <1>0
    <2>3. /\ Page(after) \subseteq 1..tail
          /\ \A p \in Page(after) : \A q \in 1..p : q > after => q \in Page(after)
      BY <1>0, <2>2, PageIsSlice
    <2>4. view'[t] = [last |-> LastGiven(Page(after)), got |-> Page(after)] /\ spc'[t] = "listed"
      BY <1>0, <1>3, <2>1 DEF List, TypeOK
    <2>5. Page(after) # {} => LastGiven(Page(after)) \in Page(after)
      BY <1>0, <2>3, LastIsGiven
    <2>6. ASSUME Page(after) # {}, NEW p \in 1..LastGiven(Page(after))
          PROVE  p \in Page(after) \/ p <= ack'[ReaderOf[t]]
      <3>1. p > after => p \in Page(after)
        BY <2>3, <2>5, <2>6
      <3> QED BY <1>0, <2>2, <3>1
    <2>7. Page(after) \subseteq 1..tail'
      BY <1>0, <2>3
    <2> QED BY <2>4, <2>5, <2>6, <2>7 DEF ViewShape
  <1>4. ASSUME NEW s \in Sessions, SessionStep(s), ~List(t)
        PROVE  \/ view'[t] = view[t] /\ (spc'[t] = "begun" => spc[t] = "begun" \/ view[t].got # {})
               \/ view'[t] = NoView /\ spc'[t] # "begun"
    BY <1>0, <1>4 DEF SessionStep, List, DropView, BeginAck, CommitAck, AbortAck, TypeOK
  <1>5. ASSUME UNCHANGED reading
        PROVE  view'[t] = view[t] /\ (spc'[t] = "begun" => spc[t] = "begun" \/ view[t].got # {})
    BY <1>5 DEF reading
  <1> QED BY <1>1, <1>2, <1>3, <1>4, <1>5 DEF Next, WriterStep, Create, BeginAppend,
             InsertEntry, CommitAppend, AbortAppend, Reconcile, vars, reading

-----------------------------------------------------------------------------
(* What the writers publish. *)

LEMMA TextsStep ==
  ASSUME NEW v \in Writers
  PROVE  IInv /\ [Next]_vars => Texts(v)'
  <1> SUFFICES ASSUME IInv, [Next]_vars PROVE Texts(v)'
    OBVIOUS
  <1>0. /\ TypeOK /\ LockShape /\ Texts(v) /\ DraftShape(v) /\ next[v] \in Nat
        /\ \A p \in Positions : entries[p].text \in Nat
    BY DEF IInv, WellFormed, TypeOK, Positions, Row
  <1>1. ASSUME NEW w \in Writers, CommitAppend(w) PROVE Texts(v)'
    <2>1. ASSUME NEW p \in Positions', entries'[p].author = v
          PROVE  entries'[p].text < next'[v]
                   \/ (entries'[p].text = next'[v] /\ wpc'[v] = "unsure")
      <3>1. p = tail + 1 \/ p \in Positions
        BY <1>1, Committed DEF IInv, WellFormed, TypeOK
      <3>2. CASE p = tail + 1
        <4>1. draft[w].author = w /\ draft[w].text = next[w] /\ entries'[p] = draft[w]
          BY <1>1, <3>2, Committed DEF CommitAppend, IInv, DraftShape
        <4>2. v = w /\ entries'[p].text = next[v]
          BY <2>1, <4>1
        <4> QED BY <1>0, <1>1, <4>2 DEF CommitAppend, TypeOK
      <3>3. CASE p \in Positions
        <4>1. entries'[p] = entries[p]
          BY <1>1, <3>3, Committed
        <4>2. CASE v = w
          <5>1. entries[p].text < next[v] /\ entries[p].text \in Nat
            BY <1>0, <1>1, <2>1, <3>3, <4>1, <4>2 DEF Texts, CommitAppend
          <5>2. next'[v] = next[v] + 1 \/ next'[v] = next[v]
            BY <1>0, <1>1, <4>2 DEF CommitAppend, TypeOK
          <5> QED BY <1>0, <4>1, <5>1, <5>2
        <4>3. CASE v # w
          <5>1. next'[v] = next[v] /\ wpc'[v] = wpc[v]
            BY <1>0, <1>1, <4>3 DEF CommitAppend, TypeOK
          <5> QED BY <1>0, <2>1, <3>3, <4>1, <5>1 DEF Texts
        <4> QED BY <4>2, <4>3
      <3> QED BY <3>1, <3>2, <3>3
    <2> QED BY <2>1 DEF Texts
  <1>2. ASSUME NEW w \in Writers, Reconcile(w) PROVE Texts(v)'
    <2>1. entries' = entries /\ Positions' = Positions
      BY <1>2 DEF Reconcile, table, Positions
    <2>2. CASE v = w
      <3>1. wpc'[v] = "idle" /\ next'[v] = IF Found(v) THEN next[v] + 1 ELSE next[v]
        BY <1>0, <1>2, <2>2 DEF Reconcile, TypeOK
      <3>2. ASSUME NEW p \in Positions, entries[p].author = v PROVE entries[p].text < next'[v]
        <4>1. entries[p].text \in Nat /\ entries[p].text <= next[v]
          BY <1>0, <3>2 DEF Texts
        <4>2. ~Found(v) => entries[p].text # next[v]
          BY <3>2 DEF Found
        <4> QED BY <1>0, <3>1, <4>1, <4>2
      <3> QED BY <2>1, <3>2 DEF Texts
    <2>3. CASE v # w
      <3>1. next'[v] = next[v] /\ wpc'[v] = wpc[v]
        BY <1>0, <1>2, <2>3 DEF Reconcile, TypeOK
      <3> QED BY <1>0, <2>1, <3>1 DEF Texts
    <2> QED BY <2>2, <2>3
  <1>3. ASSUME NEW w \in Writers, BeginAppend(w) \/ InsertEntry(w) \/ AbortAppend(w)
        PROVE  Texts(v)'
    <2>1. entries' = entries /\ Positions' = Positions /\ next' = next
      BY <1>3 DEF BeginAppend, InsertEntry, AbortAppend, table, Positions
    <2>2. wpc[v] = "unsure" => wpc'[v] = "unsure"
      BY <1>0, <1>3 DEF BeginAppend, InsertEntry, AbortAppend, TypeOK
    <2> QED BY <1>0, <2>1, <2>2 DEF Texts
  <1>4. CASE UNCHANGED <<entries, wpc, next>>
    BY <1>0, <1>4 DEF Texts, Positions
  <1> QED BY <1>1, <1>2, <1>3, <1>4 DEF Next, WriterStep, SessionStep, Create,
             List, DropView, BeginAck, CommitAck, AbortAck, vars, table, writing

LEMMA OneCopyStep ==
  ASSUME NEW v \in Writers
  PROVE  IInv /\ [Next]_vars => OneCopy(v)'
  <1> SUFFICES ASSUME IInv, [Next]_vars PROVE OneCopy(v)'
    OBVIOUS
  <1>0. TypeOK /\ OneCopy(v) /\ Texts(v) /\ next[v] \in Nat
    BY DEF IInv, WellFormed, TypeOK
  <1>1. ASSUME NEW w \in Writers, CommitAppend(w) PROVE OneCopy(v)'
    <2>1. draft[w].author = w /\ draft[w].text = next[w] /\ tail \in Nat
      BY <1>1 DEF CommitAppend, IInv, DraftShape, WellFormed, TypeOK
    <2>2. /\ Positions' = Positions \union {tail + 1} /\ tail + 1 \notin Positions
          /\ entries'[tail + 1] = draft[w]
          /\ \A p \in Positions : entries'[p] = entries[p]
      <3>1. 1..(tail + 1) = (1..tail) \union {tail + 1} /\ tail + 1 \notin 1..tail
        BY <2>1
      <3> QED BY <1>1, <3>1, Committed
    <2>3. ASSUME NEW n \in Nat
          PROVE  Copies(v, n)' =
                   Copies(v, n) \union (IF v = w /\ n = next[w] THEN {tail + 1} ELSE {})
      BY <2>1, <2>2 DEF Copies
    <2>4. CASE v = w
      <3>1. Copies(v, next[v]) = {}
        BY <1>0, <1>1, <2>4 DEF Texts, Copies, CommitAppend
      <3>2. next'[v] = next[v] + 1 \/ next'[v] = next[v]
        BY <1>0, <1>1, <2>4 DEF CommitAppend, TypeOK
      <3>3. ASSUME NEW n \in Nat
            PROVE  /\ \A p, q \in Copies(v, n)' : p = q
                   /\ n \in 1..(next'[v] - 1) => Copies(v, n)' # {}
        <4>1. CASE n = next[v]
          BY <2>3, <2>4, <3>1, <4>1
        <4>2. CASE n # next[v]
          <5>1. Copies(v, n)' = Copies(v, n)
            BY <2>3, <2>4, <4>2
          <5>2. n \in 1..(next'[v] - 1) => n \in 1..(next[v] - 1)
            BY <1>0, <3>2, <4>2
          <5> QED BY <1>0, <5>1, <5>2 DEF OneCopy
        <4> QED BY <4>1, <4>2
      <3> QED BY <3>3 DEF OneCopy
    <2>5. CASE v # w
      <3>1. next'[v] = next[v]
        BY <1>0, <1>1, <2>5 DEF CommitAppend, TypeOK
      <3>2. \A n \in Nat : Copies(v, n)' = Copies(v, n)
        BY <2>3, <2>5
      <3> QED BY <1>0, <3>1, <3>2 DEF OneCopy
    <2> QED BY <2>4, <2>5
  <1>2. ASSUME entries' = entries PROVE \A n \in Nat : Copies(v, n)' = Copies(v, n)
    BY <1>2 DEF Copies, Positions
  <1>3. ASSUME NEW w \in Writers, Reconcile(w) PROVE OneCopy(v)'
    <2>1. \A n \in Nat : Copies(v, n)' = Copies(v, n)
      BY <1>2, <1>3 DEF Reconcile, table
    <2>2. next'[v] = next[v] \/ (next'[v] = next[v] + 1 /\ Copies(v, next[v]) # {})
      BY <1>0, <1>3 DEF Reconcile, Found, Copies, TypeOK
    <2>3. ASSUME NEW n \in Nat, n \in 1..(next'[v] - 1) PROVE Copies(v, n) # {}
      <3>1. n \in 1..(next[v] - 1) \/ (n = next[v] /\ Copies(v, next[v]) # {})
        BY <1>0, <2>2, <2>3
      <3> QED BY <1>0, <3>1 DEF OneCopy
    <2> QED BY <1>0, <2>1, <2>3 DEF OneCopy
  <1>4. CASE UNCHANGED <<entries, next>>
    BY <1>0, <1>2, <1>4 DEF OneCopy
  <1> QED BY <1>1, <1>3, <1>4 DEF Next, WriterStep, SessionStep, Create, BeginAppend,
             InsertEntry, AbortAppend, List, DropView, BeginAck, CommitAck, AbortAck, vars,
             table, writing

-----------------------------------------------------------------------------
(* The theorems. *)

(* The invariant the theorems rest on.                                     *)
THEOREM StreamInvariance == Spec => []IInv
  <1>1. IInv /\ [Next]_vars => IInv'
    BY TypeStep, ContiguousStep, LockStep, DraftStep, AckStep, ViewStep, TextsStep, OneCopyStep
    DEF IInv, WellFormed
  <1> QED BY <1>1, InitInv, PTL DEF Spec

(* The positions of a stream are 1, 2, ..., tail and replies lead back,    *)
(* however appends of any number of writers overlap, fail and die.         *)
THEOREM StreamIsWellFormed == Spec => []WellFormed
  <1>1. IInv => WellFormed
    BY DEF IInv
  <1> QED BY <1>1, StreamInvariance, PTL

(* No acknowledgement passes over an entry that no session of the reader   *)
(* was given, for any page size and any sharing of identities.             *)
THEOREM AcknowledgedIsSeen == Spec => []NothingPassedOver
  <1>1. IInv => NothingPassedOver
    BY DEF IInv
  <1> QED BY <1>1, StreamInvariance, PTL

(* A writer that looks for its entry before it appends again publishes     *)
(* every message once, whatever results it loses.                          *)
THEOREM ReconciledIsOnce == Spec => []PublishedOnce
  <1>1. ASSUME IInv, NEW w \in Writers, NEW n \in 1..Messages[w]
        PROVE  /\ Cardinality(Copies(w, n)) <= 1
               /\ n < next[w] => Copies(w, n) # {}
    <2>1. OneCopy(w) /\ n \in Nat /\ n >= 1 /\ next[w] \in Nat
      BY <1>1, WritersAssumption DEF IInv, WellFormed, TypeOK
    <2>2. CASE Copies(w, n) = {}
      BY <2>1, <2>2, FS_EmptySet DEF OneCopy
    <2>3. ASSUME NEW p \in Copies(w, n) PROVE Cardinality(Copies(w, n)) <= 1
      <3>1. Copies(w, n) = {p}
        BY <2>1, <2>3 DEF OneCopy
      <3> QED BY <3>1, FS_Singleton
    <2> QED BY <2>1, <2>2, <2>3 DEF OneCopy
  <1>2. IInv => PublishedOnce
    BY <1>1 DEF PublishedOnce, Copies
  <1> QED BY <1>2, StreamInvariance, PTL

LEMMA LogStep == IInv /\ [Next]_vars => [Log!Append \/ Log!Advance]_(Log!lvars)
  <1> SUFFICES ASSUME IInv, [Next]_vars PROVE [Log!Append \/ Log!Advance]_(Log!lvars)
    OBVIOUS
  <1>0. TypeOK /\ tail \in Nat
    BY DEF IInv, WellFormed, TypeOK
  <1>1. ASSUME NEW w \in Writers, CommitAppend(w) PROVE Log!Append
    BY <1>1, Committed DEF CommitAppend, Log!Append
  <1>2. ASSUME NEW s \in Sessions, CommitAck(s) PROVE Log!Advance \/ UNCHANGED Log!lvars
    <2> DEFINE c == ReaderOf[s]
    <2> DEFINE l == view[s].last
    <2>1. c \in Readers /\ l \in Nat /\ ack[c] \in Nat /\ l <= tail
      BY <1>0, <1>2, SessionsAssumption DEF CommitAck, TypeOK
    <2>2. ack' = [ack EXCEPT ![c] = AckAfter(c, l)] /\ tail' = tail /\ entries' = entries
      BY <1>2 DEF CommitAck
    <2>3. CASE l > ack[c]
      <3>1. l \in 1..tail /\ ack' = [ack EXCEPT ![c] = l]
        BY <1>0, <2>1, <2>2, <2>3 DEF AckAfter
      <3> QED BY <2>1, <2>2, <2>3, <3>1 DEF Log!Advance
    <2>4. CASE ~(l > ack[c])
      <3>1. ack' = ack
        BY <1>0, <2>1, <2>2, <2>4 DEF AckAfter, TypeOK
      <3> QED BY <2>2, <3>1 DEF Log!lvars
    <2> QED BY <2>3, <2>4
  <1>3. CASE UNCHANGED <<tail, entries, ack>>
    BY <1>3 DEF Log!lvars
  <1> QED BY <1>1, <1>2, <1>3 DEF Next, WriterStep, SessionStep, Create, BeginAppend,
             InsertEntry, AbortAppend, Reconcile, List, DropView, BeginAck, AbortAck, vars, table

(* Every behaviour of the processes is a behaviour of the log: the stream  *)
(* grows at its end by one entry at a time, and cursors move forward only. *)
THEOREM StreamIsLog == Spec => ImplementsLog
  <1>1. Init => Log!LogInit
    BY DEF Init, Log!LogInit
  <1>2. Spec => Log!LogInit /\ [][Log!Append \/ Log!Advance]_(Log!lvars)
    BY <1>1, LogStep, StreamInvariance, PTL DEF Spec
  <1> QED BY <1>2 DEF ImplementsLog, Log!LogSpec
=============================================================================
