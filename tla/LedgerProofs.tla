---------------------------- MODULE LedgerProofs ----------------------------
(***************************************************************************)
(* For every set of writers, events and orders and every bound on the      *)
(* ledger: the ledger's tables keep their types, the hash chain never      *)
(* dangles, the committed fills table holds each reported fill exactly     *)
(* once, the books balance, the committed tables only ever go from one     *)
(* replay of the ledger to a newer one (ProjectedLedger), and exposure is  *)
(* the same for every order of delivery.  For every venue, executor and    *)
(* number of other runs: the verdict of a reconciliation is right, a       *)
(* complete ledger raises no false alarm, and a blocked one pauses.        *)
(*                                                                         *)
(* FillsExactlyOnce is not inductive.  A step of the replay decides by the *)
(* keys already in the table, while the property speaks of the log, so the *)
(* invariant adds that the table covers the log: every fill replayed so    *)
(* far has a row under its key (FillsCovered).  This, the balance and the  *)
(* equality with Replay are kept for the uncommitted tables of a running   *)
(* rebuild, from which the committed ones are taken.                       *)
(*                                                                         *)
(* Nor is a right verdict: what the command compares is read from tables   *)
(* that other runs refill.  ReadsHold says where each of them stems from   *)
(* at each step, ReplayTells what such a replay tells of the venue.        *)
(*                                                                         *)
(* Replay and the sums of BooksBalance are recursive functions.  That they *)
(* obey their recursion is shown by least counterexamples                  *)
(* (LeastOfNaturals): over the number of events, and over the size of a    *)
(* set of rows.                                                            *)
(***************************************************************************)
EXTENDS ExecutionLedger, Reconciliation, FiniteSetTheorems, WellFoundedInduction, TLAPS

(* The account of the first n of some rows, whatever the variables are.    *)
Reports(rows, n) ==
  {i \in 1..n : /\ IsFill(rows[i].event)
                /\ \A j \in 1..(i - 1) :
                     IsFill(rows[j].event) =>
                       FillKey(rows[j].event, j) # FillKey(rows[i].event, i)}

ExactlyTheReports(rows, t, n) == t.fills = {FillRowOf(rows[i].event, i) : i \in Reports(rows, n)}

FillsCovered(rows, t, n) ==
  \A j \in 1..n : IsFill(rows[j].event) =>
     \E f \in t.fills : f.key = FillKey(rows[j].event, j)

Accounts(rows, t, n) == ExactlyTheReports(rows, t, n) /\ FillsCovered(rows, t, n)

Accounted(t, n) == Accounts(log, t, n)

-----------------------------------------------------------------------------
(* The cost of a fill is its quantity by its price.                        *)
LEMMA IntProduct ==
  ASSUME NEW m \in Int, NEW n \in Int
  PROVE  m * n \in Int
OBVIOUS

LEMMA FillCostIsInt ==
  ASSUME NEW e \in Event, e.type = "FILL"
  PROVE  SignedCost(e) \in Int
<1>1. e.qty \in Nat /\ e.price \in Int
  BY DEF Event
<1>2. SignedQuantity(e) \in Int
  BY <1>1 DEF SignedQuantity
<1> QED
  BY <1>1, <1>2, IntProduct DEF SignedCost

(* What one replayed row does to the tables keeps their types.             *)
LEMMA ApplyEventTyped ==
  ASSUME NEW t \in Tables, NEW e \in Event, NEW id \in Nat
  PROVE  ApplyEvent(t, e, id) \in Tables
<1> DEFINE u == ApplyEvent(t, e, id)
<1>1. ASSUME IsOrderEvent(e)
      PROVE  e.order \in Orders /\ e.qty \in Nat /\ e.symbol \in Symbols /\ e.status \in Statuses
             /\ e.reduce \in BOOLEAN
  BY <1>1 DEF IsOrderEvent, Event
<1>2. ASSUME IsOrderEvent(e) PROVE OrderRowAfter(t, e, id) \in OrderRow
  <2>1. t.orders[e.order] \in OrderRow \cup {NoRow}
    BY <1>1, <1>2 DEF Tables
  <2> QED
    BY <2>1, <1>1, <1>2, NamesAreDistinct DEF OrderRowAfter, OrderRow
<1>3. u.orders \in [Orders -> OrderRow \cup {NoRow}]
  BY <1>1, <1>2 DEF ApplyEvent, Tables
<1>4. ASSUME IsFill(e)
      PROVE  FillRowOf(e, id) \in FillRow /\ SignedQuantity(e) \in Int /\ e.symbol \in Symbols
  <2>1. e.order \in Orders /\ e.qty \in Nat /\ e.symbol \in Symbols
        /\ e.fill \in FillIds \cup {NoFill}
    BY <1>4 DEF IsFill, Event
  <2>2. SignedQuantity(e) \in Int
    BY <2>1 DEF SignedQuantity
  <2>3. FillKey(e, id) \in FillIds \cup Nat
    BY <2>1 DEF FillKey
  <2> QED
    BY <2>1, <2>2, <2>3 DEF FillRowOf, FillRow
<1>5. u.fills \in SUBSET FillRow
  BY <1>4 DEF ApplyEvent, Tables, Unseen
<1>6. u.positions \in [Symbols -> Int \cup {NoRow}]
  <2>1. ASSUME IsFill(e) PROVE NetAfter(t, e) \in Int
    BY <1>4, <2>1, NamesAreDistinct DEF NetAfter, Tables
  <2> QED
    BY <1>4, <2>1 DEF ApplyEvent, Tables, Unseen
<1>7. ASSUME e.type = "RISK_BLOCK" PROVE e.reason \in Reasons
  BY <1>7 DEF Event
<1>8. u.risk \in SUBSET Reasons
  BY <1>7 DEF ApplyEvent, Tables
<1>9. u.entry \in [Symbols -> Entry]
  <2>1. ASSUME IsFill(e) PROVE EntryAfter(t, e) \in Entry
    <3>1. SignedCost(e) \in Int
      BY <2>1, FillCostIsInt DEF IsFill
    <3>2. t.entry[e.symbol] \in Entry
      BY <1>4, <2>1 DEF Tables
    <3> QED
      BY <1>4, <2>1, <3>1, <3>2 DEF EntryAfter, Entry
  <2> QED
    BY <1>4, <2>1 DEF ApplyEvent, Tables, Unseen
<1> QED
  BY <1>3, <1>5, <1>6, <1>8, <1>9 DEF ApplyEvent, Tables

(* The tables a rebuild starts from are well typed and account for nothing.*)
LEMMA EmptyTablesTyped == EmptyTables \in Tables
BY DEF EmptyTables, Tables, NoEntry, Entry

(* Every row's event is one the replay understands.                        *)
LEMMA LoggedEvent ==
  ASSUME TypeOK, NEW i \in 1..Len(log)
  PROVE  log[i] \in Row /\ log[i].event \in Event
<1>1. log[i] \in Row
  BY DEF TypeOK
<1>2. log[i].event \in Events
  BY <1>1 DEF Row
<1> QED
  BY <1>1, <1>2, EventsAreEvents

(* Appending a row changes nothing about the rows before it.               *)
LEMMA AppendKeepsPrefix ==
  ASSUME TypeOK, NEW row, log' = Append(log, row)
  PROVE  /\ Len(log') = Len(log) + 1
         /\ \A i \in 1..Len(log) : log'[i] = log[i]
         /\ log'[Len(log) + 1] = row
BY DEF TypeOK

THEOREM TypeCorrect == Spec => []TypeOK
<1>1. Init => TypeOK
  BY EmptyTablesTyped DEF Init, TypeOK, Idle
<1>2. TypeOK /\ [Next]_vars => TypeOK'
  <2> SUFFICES ASSUME TypeOK, [Next]_vars PROVE TypeOK'
    OBVIOUS
  <2>1. ASSUME NEW w \in Writers, NEW e \in Events, ReadHead(w, e) PROVE TypeOK'
    <3>1. DigestAt(Len(log)) \in Seq(Events)
      <4>1. CASE Len(log) = 0
        BY <4>1 DEF DigestAt
      <4>2. CASE Len(log) # 0
        <5>1. Len(log) \in 1..Len(log)
          BY <4>2 DEF TypeOK
        <5>2. log[Len(log)].digest \in Seq(Events)
          BY <5>1, LoggedEvent DEF Row
        <5> QED
          BY <5>2, <4>2 DEF DigestAt
      <4> QED
        BY <4>1, <4>2
    <3>2. [pc |-> "read", event |-> e, previous |-> DigestAt(Len(log)), seen |-> Len(log)]
            \in Pending
      BY <3>1 DEF Pending, TypeOK
    <3> QED
      BY <2>1, <3>2 DEF ReadHead, TypeOK
  <2>2. ASSUME NEW w \in Writers, InsertEvent(w) PROVE TypeOK'
    <3>1. appender[w] \in Pending
      BY <2>2 DEF InsertEvent, TypeOK
    <3> DEFINE row == [event    |-> appender[w].event,
                       previous |-> appender[w].previous,
                       digest   |-> Append(appender[w].previous, appender[w].event),
                       seen     |-> appender[w].seen]
    <3>2. row \in Row
      BY <3>1 DEF Pending, Row
    <3>3. log' \in Seq(Row) /\ Len(log') = Len(log) + 1
      BY <2>2, <3>2 DEF InsertEvent, TypeOK
    <3>4. appender' \in [Writers -> Pending \cup {Idle}]
      BY <2>2 DEF InsertEvent, TypeOK
    <3> QED
      BY <2>2, <3>3, <3>4 DEF InsertEvent, TypeOK
  <2>3. ASSUME NEW w \in Writers, AppendFails(w) PROVE TypeOK'
    BY <2>3 DEF AppendFails, TypeOK
  <2>4. ASSUME BeginRebuild PROVE TypeOK'
    BY <2>4, EmptyTablesTyped DEF BeginRebuild, TypeOK
  <2>5. ASSUME ReplayRow PROVE TypeOK'
    <3>1. cursor + 1 \in 1..Len(log)
      BY <2>5 DEF ReplayRow, TypeOK
    <3>2. log[cursor + 1].event \in Event
      BY <3>1, LoggedEvent
    <3>3. work' \in Tables
      BY <2>5, <3>1, <3>2, ApplyEventTyped DEF ReplayRow, TypeOK
    <3> QED
      BY <2>5, <3>1, <3>3 DEF ReplayRow, TypeOK
  <2>6. ASSUME CommitRebuild PROVE TypeOK'
    BY <2>6 DEF CommitRebuild, TypeOK
  <2>7. ASSUME RebuildFails PROVE TypeOK'
    BY <2>7 DEF RebuildFails, TypeOK
  <2>8. ASSUME UNCHANGED vars PROVE TypeOK'
    BY <2>8 DEF vars, TypeOK, Row, Pending, Tables
  <2> QED
    BY <2>1, <2>2, <2>3, <2>4, <2>5, <2>6, <2>7, <2>8 DEF Next
<1> QED
  BY <1>1, <1>2, PTL DEF Spec

-----------------------------------------------------------------------------
(* Rows already in the log keep their account when a row is appended.      *)
LEMMA AccountsStable ==
  ASSUME NEW rows, NEW more, NEW t, NEW n \in Nat, Accounts(rows, t, n),
         \A i \in 1..n : more[i] = rows[i]
  PROVE  Accounts(more, t, n)
<1>1. Reports(more, n) = Reports(rows, n)
  <2>1. \A i \in 1..n : \A j \in 1..(i - 1) : j \in 1..n
    OBVIOUS
  <2> QED
    BY <2>1 DEF Reports
<1>2. Reports(rows, n) \subseteq 1..n
  BY DEF Reports
<1>3. ExactlyTheReports(more, t, n)
  BY <1>1, <1>2 DEF Accounts, ExactlyTheReports
<1>4. FillsCovered(more, t, n)
  BY DEF Accounts, FillsCovered
<1> QED
  BY <1>3, <1>4 DEF Accounts

(* The replay of one more row keeps the account: the row is a first report *)
(* exactly when its key is not in the table yet.                           *)
LEMMA AccountsStep ==
  ASSUME NEW rows, NEW t, NEW n \in Nat, Accounts(rows, t, n)
  PROVE  Accounts(rows, ApplyEvent(t, rows[n + 1].event, n + 1), n + 1)
<1> DEFINE e == rows[n + 1].event
           u == ApplyEvent(t, e, n + 1)
           Fresh == IsFill(e) /\ \A j \in 1..n :
                      IsFill(rows[j].event) => FillKey(rows[j].event, j) # FillKey(e, n + 1)
<1>1. Reports(rows, n + 1) = Reports(rows, n) \cup (IF Fresh THEN {n + 1} ELSE {})
  <2>1. 1..(n + 1) = 1..n \cup {n + 1}
    OBVIOUS
  <2>2. n + 1 \notin 1..n /\ (n + 1) - 1 = n
    OBVIOUS
  <2> QED
    BY <2>1, <2>2 DEF Reports
<1>2. Unseen(t, e, n + 1) <=> Fresh
  <2>1. ASSUME Unseen(t, e, n + 1) PROVE Fresh
    BY <2>1 DEF Unseen, Accounts, FillsCovered
  <2>2. ASSUME Fresh PROVE Unseen(t, e, n + 1)
    <3>1. \A f \in t.fills : \E i \in Reports(rows, n) : f = FillRowOf(rows[i].event, i)
      BY DEF Accounts, ExactlyTheReports
    <3>2. \A i \in Reports(rows, n) : i \in 1..n /\ IsFill(rows[i].event)
      BY DEF Reports
    <3>3. \A f \in t.fills : f.key # FillKey(e, n + 1)
      BY <2>2, <3>1, <3>2 DEF FillRowOf
    <3> QED
      BY <2>2, <3>3 DEF Unseen
  <2> QED
    BY <2>1, <2>2
<1>3. u.fills = IF Fresh THEN t.fills \cup {FillRowOf(e, n + 1)} ELSE t.fills
  BY <1>2 DEF ApplyEvent
<1>4. ExactlyTheReports(rows, u, n + 1)
  <2> HIDE DEF Fresh, u
  <2>1. CASE Fresh
    BY <2>1, <1>1, <1>3 DEF ExactlyTheReports, Accounts
  <2>2. CASE ~Fresh
    BY <2>2, <1>1, <1>3 DEF ExactlyTheReports, Accounts
  <2> QED
    BY <2>1, <2>2
<1>5. FillsCovered(rows, u, n + 1)
  <2> SUFFICES ASSUME NEW j \in 1..(n + 1), IsFill(rows[j].event)
               PROVE  \E f \in u.fills : f.key = FillKey(rows[j].event, j)
    BY DEF FillsCovered
  <2>1. CASE j \in 1..n
    <3>1. PICK f \in t.fills : f.key = FillKey(rows[j].event, j)
      BY <2>1 DEF Accounts, FillsCovered
    <3> QED
      BY <3>1, <1>3
  <2>2. CASE j = n + 1 /\ Unseen(t, e, n + 1)
    <3>1. FillRowOf(e, n + 1) \in u.fills
      BY <2>2, <1>2, <1>3
    <3> QED
      BY <2>2, <3>1 DEF FillRowOf
  <2>3. CASE j = n + 1 /\ ~Unseen(t, e, n + 1)
    <3>1. PICK f \in t.fills : f.key = FillKey(e, n + 1)
      BY <2>3 DEF Unseen
    <3> QED
      BY <2>3, <3>1, <1>3
  <2> QED
    BY <2>1, <2>2, <2>3
<1> QED
  BY <1>4, <1>5 DEF Accounts

(* Tables that were just deleted account for the empty prefix.             *)
LEMMA AccountsEmpty ==
  ASSUME NEW rows
  PROVE  Accounts(rows, EmptyTables, 0)
BY DEF Accounts, ExactlyTheReports, FillsCovered, Reports, EmptyTables

(* A rebuild replays the log as it is, an append leaves its rows alone.    *)
LEMMA AccountedStep ==
  ASSUME TypeOK, Accounted(work, cursor), Accounted(proj, checkpoint), [Next]_vars
  PROVE  Accounted(work, cursor)' /\ Accounted(proj, checkpoint)'
<1>1. cursor \in Nat /\ checkpoint \in Nat
  BY DEF TypeOK
<1>2. ASSUME NEW w \in Writers, InsertEvent(w)
      PROVE  Accounted(work, cursor)' /\ Accounted(proj, checkpoint)'
  <2>1. \A i \in 1..Len(log) : log'[i] = log[i]
    BY <1>2, AppendKeepsPrefix DEF InsertEvent
  <2>2. UNCHANGED <<work, cursor, proj, checkpoint>>
    BY <1>2 DEF InsertEvent
  <2>3. /\ \A i \in 1..cursor : log'[i] = log[i]
        /\ \A i \in 1..checkpoint : log'[i] = log[i]
    BY <2>1 DEF TypeOK
  <2>4. Accounts(log', work, cursor)
    BY <1>1, <2>3, AccountsStable, Zenon DEF Accounted
  <2>5. Accounts(log', proj, checkpoint)
    BY <1>1, <2>3, AccountsStable, Zenon DEF Accounted
  <2> QED
    BY <2>2, <2>4, <2>5 DEF Accounted
<1>3. CASE BeginRebuild
  <2>1. Accounts(log, EmptyTables, 0)
    BY AccountsEmpty
  <2> QED
    BY <1>3, <2>1 DEF BeginRebuild, Accounted
<1>4. CASE ReplayRow
  <2>1. Accounts(log, ApplyEvent(work, log[cursor + 1].event, cursor + 1), cursor + 1)
    BY <1>1, AccountsStep, Zenon DEF Accounted
  <2> QED
    BY <1>4, <2>1 DEF ReplayRow, Accounted
<1>5. CASE CommitRebuild
  BY <1>5 DEF CommitRebuild, Accounted
<1>6. CASE UNCHANGED <<log, cursor, work, proj, checkpoint>>
  BY <1>6 DEF Accounted
<1> QED
  BY <1>2, <1>3, <1>4, <1>5, <1>6 DEF Next, ReadHead, AppendFails, RebuildFails, vars

(* Each fill the ledger reports up to the checkpoint has exactly one row   *)
(* in the committed fills table (rebuild_execution_projections).           *)
THEOREM ExactlyOnce == Spec => []FillsExactlyOnce
<1>1. Init => Accounted(work, cursor) /\ Accounted(proj, checkpoint)
  BY AccountsEmpty DEF Init, Accounted
<1>2. TypeOK /\ Accounted(work, cursor) /\ Accounted(proj, checkpoint) /\ [Next]_vars
        => Accounted(work, cursor)' /\ Accounted(proj, checkpoint)'
  BY AccountedStep
<1>3. Accounted(proj, checkpoint) => FillsExactlyOnce
  BY DEF Accounted, Accounts, ExactlyTheReports, Reports, FillsExactlyOnce, ExactFills, FirstReports
<1> QED
  BY <1>1, <1>2, <1>3, TypeCorrect, PTL DEF Spec

(* Every previous_digest is the digest of an earlier row, whatever appends *)
(* overlap (append_execution_event).                                       *)
THEOREM ChainAlwaysRooted == Spec => []ChainRooted
<1> DEFINE HeadsRooted == \A w \in Writers : appender[w] # Idle =>
                            /\ appender[w].seen \in 0..Len(log)
                            /\ appender[w].previous = DigestAt(appender[w].seen)
<1>1. Init => ChainRooted /\ HeadsRooted
  BY DEF Init, ChainRooted
<1>2. TypeOK /\ ChainRooted /\ HeadsRooted /\ [Next]_vars => ChainRooted' /\ HeadsRooted'
  <2> SUFFICES ASSUME TypeOK, ChainRooted, HeadsRooted, [Next]_vars
               PROVE  ChainRooted' /\ HeadsRooted'
    OBVIOUS
  <2>1. ASSUME NEW w \in Writers, NEW e \in Events, ReadHead(w, e)
        PROVE  ChainRooted' /\ HeadsRooted'
    <3>1. ChainRooted'
      BY <2>1 DEF ReadHead, ChainRooted, DigestAt
    <3>2. HeadsRooted'
      BY <2>1 DEF ReadHead, DigestAt, TypeOK, Pending
    <3> QED
      BY <3>1, <3>2
  <2>2. ASSUME NEW w \in Writers, InsertEvent(w) PROVE ChainRooted' /\ HeadsRooted'
    <3>1. /\ Len(log') = Len(log) + 1
          /\ \A i \in 1..Len(log) : log'[i] = log[i]
          /\ log'[Len(log) + 1] =
               [event    |-> appender[w].event,
                previous |-> appender[w].previous,
                digest   |-> Append(appender[w].previous, appender[w].event),
                seen     |-> appender[w].seen]
      BY <2>2, AppendKeepsPrefix DEF InsertEvent
    <3>2. Len(log) \in Nat /\ appender[w] # Idle
      BY <2>2 DEF TypeOK, InsertEvent
    <3>3. \A n \in 0..Len(log) : DigestAt(n)' = DigestAt(n)
      BY <3>1, <3>2 DEF DigestAt
    <3>4. appender[w].seen \in 0..Len(log) /\ appender[w].previous = DigestAt(appender[w].seen)
      BY <3>2
    <3>5. ASSUME NEW i \in 1..Len(log')
          PROVE  /\ log'[i].seen < i
                 /\ log'[i].previous = DigestAt(log[i].seen)'
                 /\ log'[i].digest = Append(log'[i].previous, log'[i].event)
      <4>1. CASE i \in 1..Len(log)
        <5>1. /\ log[i].seen < i /\ log[i].previous = DigestAt(log[i].seen)
              /\ log[i].digest = Append(log[i].previous, log[i].event)
          BY <4>1 DEF ChainRooted
        <5>2. log[i].seen \in Nat
          BY <4>1, LoggedEvent DEF Row
        <5>3. log[i].seen \in 0..Len(log)
          BY <5>1, <5>2, <4>1, <3>2
        <5> QED
          BY <5>1, <5>3, <4>1, <3>1, <3>3
      <4>2. CASE i = Len(log) + 1
        <5>1. log'[i].seen = appender[w].seen /\ log'[i].previous = appender[w].previous
              /\ log'[i].digest = Append(appender[w].previous, appender[w].event)
              /\ log'[i].event = appender[w].event
          BY <4>2, <3>1
        <5> QED
          BY <5>1, <4>2, <3>2, <3>3, <3>4
      <4> QED
        BY <4>1, <4>2, <3>1, <3>2
    <3>6. ChainRooted'
      BY <3>5 DEF ChainRooted
    <3>7. HeadsRooted'
      BY <2>2, <3>1, <3>2, <3>3 DEF InsertEvent, TypeOK
    <3> QED
      BY <3>6, <3>7
  <2>3. ASSUME NEW w \in Writers, AppendFails(w) PROVE ChainRooted' /\ HeadsRooted'
    BY <2>3 DEF AppendFails, ChainRooted, DigestAt, TypeOK
  <2>4. ASSUME UNCHANGED <<log, appender>> PROVE ChainRooted' /\ HeadsRooted'
    BY <2>4 DEF ChainRooted, DigestAt
  <2> QED
    BY <2>1, <2>2, <2>3, <2>4
    DEF Next, BeginRebuild, ReplayRow, CommitRebuild, RebuildFails, vars
<1> QED
  BY <1>1, <1>2, TypeCorrect, PTL DEF Spec

-----------------------------------------------------------------------------
(* What the recursive function of Replay computes                          *)

(* What stands in for induction: a smallest counterexample.                *)
LEMMA LeastOfNaturals ==
  ASSUME NEW S \in SUBSET Nat, S # {}
  PROVE  \E x \in S : \A y \in S : x <= y
<1> DEFINE Less == {ss \in Nat \X Nat : ss[1] < ss[2]}
<1>1. IsWellFoundedOn(Less, Nat)
  BY NatLessThanWellFounded, Zenon DEF OpToRel
<1> HIDE DEF Less
<1>2. PICK x \in S : \A y \in S : ~(<<y, x>> \in Less)
  BY <1>1, WFMin, Zenon
<1>3. ASSUME NEW y \in S PROVE x <= y
  <2>1. x \in Nat /\ y \in Nat /\ <<y, x>> \notin Less
    BY <1>2
  <2>2. ~(y < x)
    BY <2>1 DEF Less
  <2> QED
    BY <2>1, <2>2
<1> QED
  BY <1>3

(* A replay of the first n events, as the function Replay chooses it.      *)
IsReplay(events, n, after) ==
  after = [k \in 0..n |-> IF k = 0 THEN EmptyTables ELSE ApplyEvent(after[k - 1], events[k], k)]

LEMMA ReplayExtends ==
  ASSUME NEW events, NEW n \in Nat, NEW after, IsReplay(events, n, after)
  PROVE  \E more : IsReplay(events, n + 1, more)
<1> DEFINE After(k) == IF k \in 0..n THEN after[k] ELSE ApplyEvent(after[n], events[n + 1], n + 1)
           more == [k \in 0..(n + 1) |-> After(k)]
<1>1. \A k \in 0..n : after[k] = IF k = 0 THEN EmptyTables ELSE ApplyEvent(after[k - 1], events[k], k)
  BY DEF IsReplay
<1>2. ASSUME NEW k \in 0..(n + 1)
      PROVE  After(k) = IF k = 0 THEN EmptyTables ELSE ApplyEvent(more[k - 1], events[k], k)
  <2>1. CASE k = 0
    BY <1>1, <2>1
  <2>2. CASE k # 0 /\ k \in 0..n
    <3>1. k - 1 \in 0..n /\ k - 1 \in 0..(n + 1)
      BY <2>2
    <3>2. more[k - 1] = after[k - 1]
      BY <3>1
    <3> QED
      BY <1>1, <2>2, <3>2
  <2>3. CASE k = n + 1
    <3>1. k - 1 = n /\ k # 0 /\ k \notin 0..n /\ n \in 0..n /\ n \in 0..(n + 1)
      BY <2>3
    <3>2. more[n] = after[n]
      BY <3>1
    <3> QED
      BY <2>3, <3>1, <3>2
  <2> QED
    BY <2>1, <2>2, <2>3
<1>3. IsReplay(events, n + 1, more)
  <2> HIDE DEF After
  <2> DEFINE rest(k) == IF k = 0 THEN EmptyTables ELSE ApplyEvent(more[k - 1], events[k], k)
  <2>1. \A k \in 0..(n + 1) : After(k) = rest(k)
    BY <1>2
  <2>2. more = [k \in 0..(n + 1) |-> rest(k)]
    <3> HIDE DEF rest
    <3> QED
      BY <2>1
  <2> HIDE DEF more
  <2> QED
    BY <2>2 DEF IsReplay
<1> QED
  BY <1>3

(* Every list of events has a replay: a least number of events without one *)
(* would be one more than a number of events with one.                     *)
LEMMA ReplayExists ==
  ASSUME NEW events, NEW n \in Nat
  PROVE  \E after : IsReplay(events, n, after)
<1> DEFINE Without == {m \in Nat : ~\E after : IsReplay(events, m, after)}
<1> SUFFICES ASSUME Without # {} PROVE FALSE
  OBVIOUS
<1>1. PICK m \in Without : \A k \in Without : m <= k
  BY LeastOfNaturals
<1>2. CASE m = 0
  <2> DEFINE after == [k \in 0..0 |-> EmptyTables]
  <2>1. \A k \in 0..0 : k = 0
    OBVIOUS
  <2>2. IsReplay(events, 0, after)
    BY <2>1 DEF IsReplay
  <2> QED
    BY <1>1, <1>2, <2>2
<1>3. CASE m # 0
  <2>1. m - 1 \in Nat /\ (m - 1) + 1 = m /\ ~(m <= m - 1) /\ m \in Nat
    BY <1>3
  <2>2. \E after : IsReplay(events, m - 1, after)
    BY <1>1, <2>1
  <2>3. \E more : IsReplay(events, (m - 1) + 1, more)
    BY <2>1, <2>2, ReplayExtends
  <2> QED
    BY <1>1, <2>1, <2>3
<1> QED
  BY <1>2, <1>3

LEMMA ReplayIsOne ==
  ASSUME NEW events, Len(events) \in Nat
  PROVE  \E after : IsReplay(events, Len(events), after) /\ Replay(events) = after[Len(events)]
<1> DEFINE after == CHOOSE g : IsReplay(events, Len(events), g)
<1>1. IsReplay(events, Len(events), after)
  BY ReplayExists, Zenon
<1>2. Replay(events) = after[Len(events)]
  BY Zenon DEF Replay, IsReplay
<1> QED
  BY <1>1, <1>2

SameUpTo(events, others, n) == \A k \in 1..n : others[k] = events[k]

LEMMA ReplaysAgree ==
  ASSUME NEW events, NEW others, NEW n \in Nat, NEW m \in Nat, n <= m,
         SameUpTo(events, others, n),
         NEW g, NEW h, IsReplay(events, n, g), IsReplay(others, m, h)
  PROVE  \A k \in 0..n : h[k] = g[k]
<1> DEFINE Bad == {k \in 0..n : h[k] # g[k]}
<1> SUFFICES ASSUME Bad # {} PROVE FALSE
  OBVIOUS
<1>0. Bad \subseteq Nat
  OBVIOUS
<1>1. PICK k \in Bad : \A j \in Bad : k <= j
  BY <1>0, LeastOfNaturals
<1>2. /\ g[k] = IF k = 0 THEN EmptyTables ELSE ApplyEvent(g[k - 1], events[k], k)
      /\ h[k] = IF k = 0 THEN EmptyTables ELSE ApplyEvent(h[k - 1], others[k], k)
  <2>1. k \in 0..n /\ k \in 0..m
    OBVIOUS
  <2> QED
    BY <2>1 DEF IsReplay
<1>3. k # 0
  BY <1>2
<1>4. k - 1 \in 0..n /\ ~(k <= k - 1) /\ k \in 1..n
  BY <1>3
<1>5. h[k - 1] = g[k - 1]
  BY <1>1, <1>4
<1> QED
  BY <1>2, <1>4, <1>5 DEF SameUpTo

LEMMA ReplayNothing ==
  ASSUME NEW events, Len(events) = 0
  PROVE  Replay(events) = EmptyTables
<1>1. PICK after : IsReplay(events, 0, after) /\ Replay(events) = after[0]
  BY ReplayIsOne
<1>2. 0 \in 0..0
  OBVIOUS
<1> QED
  BY <1>1, <1>2 DEF IsReplay

LEMMA ReplayOneMore ==
  ASSUME NEW events, NEW more, NEW n \in Nat, Len(events) = n, Len(more) = n + 1,
         SameUpTo(events, more, n)
  PROVE  Replay(more) = ApplyEvent(Replay(events), more[n + 1], n + 1)
<1>1. PICK g : IsReplay(events, n, g) /\ Replay(events) = g[n]
  BY ReplayIsOne
<1>2. PICK h : IsReplay(more, n + 1, h) /\ Replay(more) = h[n + 1]
  BY ReplayIsOne
<1>3. n \in 0..n /\ n + 1 \in 0..(n + 1) /\ n + 1 # 0 /\ (n + 1) - 1 = n /\ n <= n + 1 /\ n + 1 \in Nat
  OBVIOUS
<1>4. h[n] = g[n]
  <2>1. \A k \in 0..n : h[k] = g[k]
    BY <1>1, <1>2, <1>3, ReplaysAgree
  <2> QED
    BY <1>3, <2>1
<1>5. h[n + 1] = ApplyEvent(h[n], more[n + 1], n + 1)
  BY <1>2, <1>3 DEF IsReplay
<1> QED
  BY <1>1, <1>2, <1>4, <1>5

-----------------------------------------------------------------------------
(* The refinement.  The rows of a running rebuild are a replay of the rows *)
(* it has read, so what it commits is a replay of the whole ledger.        *)
ReplayedSoFar == lock = "rebuild" => work = Replay(PayloadsTo(cursor))

LEMMA PayloadsLength ==
  ASSUME NEW n \in Nat
  PROVE  Len(PayloadsTo(n)) = n /\ \A k \in 1..n : PayloadsTo(n)[k] = log[k].event
<1>1. PayloadsTo(n) \in Seq({log[k].event : k \in 1..n})
  BY DEF PayloadsTo
<1>2. DOMAIN PayloadsTo(n) = 1..n
  BY DEF PayloadsTo
<1> QED
  BY <1>1, <1>2 DEF PayloadsTo

(* The abstract module replays by the same definitions.                    *)
LEMMA SameReplay ==
  ASSUME NEW es
  PROVE  Promise!Replay(es) = Replay(es)
BY Zenon DEF Promise!Replay, Replay, Promise!EmptyTables, EmptyTables, Promise!ApplyEvent, ApplyEvent,
    Promise!IsOrderEvent, IsOrderEvent, Promise!OrderRowAfter, OrderRowAfter, Promise!Unseen, Unseen,
    Promise!IsFill, IsFill, Promise!FillKey, FillKey, Promise!FillRowOf, FillRowOf,
    Promise!SignedQuantity, SignedQuantity, Promise!NetAfter, NetAfter,
    Promise!SignedCost, SignedCost, Promise!EntryAfter, EntryAfter, Promise!NoEntry, NoEntry

LEMMA ReplayedSoFarHolds ==
  ASSUME TypeOK, ReplayedSoFar, [Next]_vars
  PROVE  ReplayedSoFar'
<1>1. cursor \in Nat
  BY DEF TypeOK
<1>2. CASE BeginRebuild
  <2>1. (Replay(PayloadsTo(cursor)) = EmptyTables)'
    <3>1. cursor' = 0
      BY <1>2 DEF BeginRebuild
    <3>2. Len(PayloadsTo(0)') = 0
      BY DEF PayloadsTo
    <3>3. PayloadsTo(cursor)' = PayloadsTo(0)'
      BY <3>1 DEF PayloadsTo
    <3> QED
      BY <3>2, <3>3, ReplayNothing
  <2> QED
    BY <1>2, <2>1 DEF BeginRebuild, ReplayedSoFar
<1>3. CASE ReplayRow
  <2>1. log' = log /\ cursor' = cursor + 1
        /\ work' = ApplyEvent(work, log[cursor + 1].event, cursor + 1)
        /\ work = Replay(PayloadsTo(cursor))
    BY <1>3 DEF ReplayRow, ReplayedSoFar
  <2>2. PayloadsTo(cursor)' = PayloadsTo(cursor + 1)
    BY <2>1 DEF PayloadsTo
  <2>3. /\ Len(PayloadsTo(cursor)) = cursor /\ Len(PayloadsTo(cursor + 1)) = cursor + 1
        /\ SameUpTo(PayloadsTo(cursor), PayloadsTo(cursor + 1), cursor)
        /\ PayloadsTo(cursor + 1)[cursor + 1] = log[cursor + 1].event
    BY <1>1, PayloadsLength DEF SameUpTo
  <2>4. Replay(PayloadsTo(cursor + 1))
          = ApplyEvent(Replay(PayloadsTo(cursor)), PayloadsTo(cursor + 1)[cursor + 1], cursor + 1)
    BY <1>1, <2>3, ReplayOneMore, Zenon
  <2>5. work' = Replay(PayloadsTo(cursor)')
    BY <2>1, <2>2, <2>3, <2>4
  <2> QED
    BY <2>5 DEF ReplayedSoFar
<1>4. CASE lock' = "free"
  BY <1>4 DEF ReplayedSoFar
<1>5. CASE UNCHANGED <<log, lock, cursor, work>>
  BY <1>5 DEF ReplayedSoFar, PayloadsTo
<1>6. ASSUME NEW w \in Writers, InsertEvent(w)
      PROVE  lock' = "free"
  BY <1>6 DEF InsertEvent
<1> QED
  BY <1>2, <1>3, <1>4, <1>5, <1>6
  DEF Next, ReadHead, AppendFails, CommitRebuild, RebuildFails, vars

LEMMA AppendIsFunction ==
  ASSUME NEW s, NEW n \in Nat, NEW f, s = [i \in 1..n |-> f[i]], NEW e
  PROVE  Append(s, e) = [i \in 1..(n + 1) |-> IF i \in 1..n THEN s[i] ELSE e]
OBVIOUS

(* Each step is one of the abstract ledger's, or none.                     *)
LEMMA StepRefines ==
  ASSUME TypeOK, ReplayedSoFar, [Next]_vars
  PROVE  [Promise!Next]_<<PayloadsTo(Len(log)), proj, checkpoint>>
<1> DEFINE events == PayloadsTo(Len(log))
<1>1. Len(log) \in Nat
  BY DEF TypeOK
<1>2. ASSUME NEW w \in Writers, InsertEvent(w)
      PROVE  Promise!Next
  <2> DEFINE e == appender[w].event
  <2>1. e \in Events
    BY <1>2 DEF InsertEvent, TypeOK, Pending
  <2>2. /\ Len(log') = Len(log) + 1
        /\ \A i \in 1..Len(log) : log'[i] = log[i]
        /\ log'[Len(log) + 1].event = e
    BY <1>2, AppendKeepsPrefix DEF InsertEvent
  <2>3. events' = Append(events, e)
    <3>1. events' = [i \in 1..(Len(log) + 1) |-> log'[i].event]
      BY <2>2 DEF PayloadsTo
    <3>2. events = [i \in 1..Len(log) |-> log[i].event]
      BY DEF PayloadsTo
    <3>3. Len(events) = Len(log)
      BY <1>1, PayloadsLength
    <3>4. Append(events, e)
            = [i \in 1..(Len(log) + 1) |-> IF i \in 1..Len(log) THEN events[i] ELSE e]
      <4>1. events = [i \in 1..Len(log) |-> events[i]]
        BY <3>2
      <4> HIDE DEF events, e
      <4> QED
        BY <1>1, <4>1, AppendIsFunction
    <3>5. \A i \in 1..(Len(log) + 1) :
            log'[i].event = IF i \in 1..Len(log) THEN events[i] ELSE e
      BY <1>1, <2>2, <3>2
    <3> HIDE DEF events, e
    <3> QED
      BY <3>1, <3>4, <3>5
  <2>4. proj' = proj /\ checkpoint' = checkpoint
    BY <1>2 DEF InsertEvent
  <2>5. Promise!Record(e)
    BY <2>3, <2>4 DEF Promise!Record
  <2> QED
    BY <2>1, <2>5 DEF Promise!Next
<1>3. CASE CommitRebuild
  <2>1. cursor = Len(log) /\ proj' = work /\ checkpoint' = Len(log) /\ log' = log
        /\ work = Replay(PayloadsTo(cursor))
    BY <1>3 DEF CommitRebuild, ReplayedSoFar
  <2>2. proj' = Promise!Replay(events) /\ checkpoint' = Len(events)
    BY <1>1, <2>1, SameReplay, PayloadsLength
  <2>3. events' = events
    BY <2>1 DEF PayloadsTo
  <2> QED
    BY <2>2, <2>3 DEF Promise!Next, Promise!Project
<1>4. CASE UNCHANGED <<log, proj, checkpoint>>
  BY <1>4 DEF PayloadsTo
<1> QED
  BY <1>2, <1>3, <1>4
  DEF Next, ReadHead, AppendFails, BeginRebuild, ReplayRow, RebuildFails, vars

(* Readers of the projections only ever see tables that go in one step     *)
(* from one replay of the ledger to a newer one, although appends overlap, *)
(* a rebuild deletes and inserts row by row, and rebuilds die half way     *)
(* (rebuild_execution_projections, append_execution_event).                *)
THEOREM LedgerRefinesPromise == Spec => ImplementsProjectedLedger
<1>1. Init => Promise!Init /\ ReplayedSoFar
  <2> SUFFICES ASSUME Init PROVE Promise!Init /\ ReplayedSoFar
    OBVIOUS
  <2>1. log = <<>> /\ proj = EmptyTables /\ checkpoint = 0 /\ lock = "free"
    BY DEF Init
  <2>2. PayloadsTo(Len(log)) = <<>>
    BY <2>1 DEF PayloadsTo
  <2>3. Promise!EmptyTables = EmptyTables
    BY Zenon DEF Promise!EmptyTables, EmptyTables, Promise!NoEntry, NoEntry
  <2> QED
    BY <2>1, <2>2, <2>3 DEF Promise!Init, ReplayedSoFar
<1>2. TypeOK /\ ReplayedSoFar /\ [Next]_vars => ReplayedSoFar'
  BY ReplayedSoFarHolds
<1>3. TypeOK /\ ReplayedSoFar /\ [Next]_vars
        => [Promise!Next]_<<PayloadsTo(Len(log)), proj, checkpoint>>
  BY StepRefines
<1> QED
  BY <1>1, <1>2, <1>3, TypeCorrect, PTL DEF Spec, ImplementsProjectedLedger, Promise!Spec

-----------------------------------------------------------------------------
(* What the recursive function of SumFunctionOnSet computes                *)

Picked(s) == CHOOSE x \in s : TRUE

SumOf(f, s, g) == IF s = {} THEN 0 ELSE f[Picked(s)] + g[s \ {Picked(s)}]

IsSum(f, D, g) == g = [s \in D |-> SumOf(f, s, g)]

SameTerms(e, f, S) == \A x \in S : e[x] = f[x]

IntTerms(f, S) == \A x \in S : f[x] \in Int

(* g holds the sums of f over the subsets of U.                            *)
Sums(f, U, g) == IsSum(f, SUBSET U, g)

UpTo(U, n) == {s \in SUBSET U : Cardinality(s) <= n}

(* A set without one of its elements is one smaller.                       *)
OneSmaller(U, s, r) ==
  /\ r \in SUBSET U
  /\ Cardinality(s) \in Nat /\ Cardinality(r) \in Nat
  /\ Cardinality(r) = Cardinality(s) - 1

LEMMA OneFewer ==
  ASSUME NEW U, IsFiniteSet(U), NEW s \in SUBSET U, NEW x \in s
  PROVE  OneSmaller(U, s, s \ {x})
<1>1. IsFiniteSet(s)
  BY FS_Subset
<1>2. IsFiniteSet(s \ {x}) /\ Cardinality(s \ {x}) = Cardinality(s) - 1
  BY <1>1, FS_RemoveElement
<1>3. Cardinality(s) \in Nat /\ Cardinality(s \ {x}) \in Nat
  BY <1>1, <1>2, FS_CardinalityType
<1> QED
  BY <1>2, <1>3 DEF OneSmaller

LEMMA PickedIsIn ==
  ASSUME NEW s, s # {}
  PROVE  Picked(s) \in s
BY DEF Picked

LEMMA SumExtends ==
  ASSUME NEW f, NEW U, IsFiniteSet(U), NEW n \in Nat, NEW g, IsSum(f, UpTo(U, n), g)
  PROVE  \E h : IsSum(f, UpTo(U, n + 1), h)
<1> DEFINE Value(s) == IF s \in UpTo(U, n) THEN g[s] ELSE SumOf(f, s, g)
           h == [s \in UpTo(U, n + 1) |-> Value(s)]
<1>1. ASSUME NEW s \in UpTo(U, n + 1)
      PROVE  Value(s) = SumOf(f, s, g)
  BY DEF IsSum
<1>2. ASSUME NEW s \in UpTo(U, n + 1), s # {}
      PROVE  s \ {Picked(s)} \in UpTo(U, n) /\ s \ {Picked(s)} \in UpTo(U, n + 1)
  <2>1. s \in SUBSET U /\ Picked(s) \in s
    BY <1>2, PickedIsIn DEF UpTo
  <2>2. OneSmaller(U, s, s \ {Picked(s)})
    BY <2>1, OneFewer, Zenon
  <2>3. Cardinality(s) <= n + 1
    BY Zenon DEF UpTo
  <2> DEFINE r == s \ {Picked(s)}
  <2> HIDE DEF r
  <2>4. r \in SUBSET U /\ Cardinality(r) <= n /\ Cardinality(r) <= n + 1
    BY <2>2, <2>3 DEF r, OneSmaller
  <2> QED
    BY <2>4 DEF r, UpTo
<1>3. ASSUME NEW s \in UpTo(U, n + 1)
      PROVE  Value(s) = SumOf(f, s, h)
  <2>1. CASE s = {}
    BY <1>1, <2>1 DEF SumOf
  <2>2. CASE s # {}
    <3> DEFINE r == s \ {Picked(s)}
    <3>1. r \in UpTo(U, n) /\ r \in UpTo(U, n + 1)
      BY <1>2, <2>2
    <3> HIDE DEF r
    <3>2. h[r] = g[r]
      BY <3>1
    <3> HIDE DEF h, Value
    <3>3. SumOf(f, s, h) = SumOf(f, s, g)
      BY <2>2, <3>2 DEF SumOf, r
    <3> QED
      BY <1>1, <3>3
  <2> QED
    BY <2>1, <2>2
<1>4. h = [s \in UpTo(U, n + 1) |-> SumOf(f, s, h)]
  <2> DEFINE Term(s) == SumOf(f, s, h)
  <2>1. \A s \in UpTo(U, n + 1) : Value(s) = Term(s)
    BY <1>3
  <2>2. h = [s \in UpTo(U, n + 1) |-> Term(s)]
    <3> HIDE DEF Term, Value
    <3> QED
      BY <2>1
  <2> HIDE DEF h
  <2> QED
    BY <2>2
<1> HIDE DEF h
<1> QED
  BY <1>4 DEF Sums, IsSum

LEMMA SumExists ==
  ASSUME NEW f, NEW U, IsFiniteSet(U)
  PROVE  \E g : Sums(f, U, g)
<1> DEFINE Without == {m \in Nat : ~\E g : IsSum(f, UpTo(U, m), g)}
<1>1. Cardinality(U) \in Nat /\ UpTo(U, Cardinality(U)) = SUBSET U
  BY FS_CardinalityType, FS_Subset DEF UpTo
<1>2. Without = {}
  <2> SUFFICES ASSUME Without # {} PROVE FALSE
    OBVIOUS
  <2>1. PICK m \in Without : \A k \in Without : m <= k
    BY LeastOfNaturals
  <2>2. CASE m = 0
    <3> DEFINE g == [s \in UpTo(U, 0) |-> 0]
    <3>1. \A s \in UpTo(U, 0) : s = {}
      <4> SUFFICES ASSUME NEW s \in UpTo(U, 0) PROVE s = {}
        OBVIOUS
      <4>1. IsFiniteSet(s) /\ Cardinality(s) <= 0
        BY FS_Subset DEF UpTo
      <4>2. Cardinality(s) = 0
        BY <4>1, FS_CardinalityType
      <4> QED
        BY <4>1, <4>2, FS_EmptySet
    <3>2. IsSum(f, UpTo(U, 0), g)
      BY <3>1 DEF Sums, IsSum, SumOf
    <3> QED
      BY <2>1, <2>2, <3>2
  <2>3. CASE m # 0
    <3>1. m - 1 \in Nat /\ (m - 1) + 1 = m /\ ~(m <= m - 1) /\ m \in Nat
      BY <2>3
    <3>2. \E g : IsSum(f, UpTo(U, m - 1), g)
      BY <2>1, <3>1
    <3>3. \E h : IsSum(f, UpTo(U, (m - 1) + 1), h)
      BY <3>1, <3>2, SumExtends
    <3> QED
      BY <2>1, <3>1, <3>3
  <2> QED
    BY <2>2, <2>3
<1>3. \E g : IsSum(f, UpTo(U, Cardinality(U)), g)
  BY <1>1, <1>2
<1> QED
  BY <1>1, <1>3, Zenon DEF Sums

LEMMA SumIsOne ==
  ASSUME NEW f, NEW U, IsFiniteSet(U)
  PROVE  \E g : Sums(f, U, g) /\ SumFunctionOnSet(f, U) = g[U]
<1> DEFINE g == CHOOSE h : Sums(f, U, h)
<1>1. Sums(f, U, g)
  BY SumExists, Zenon
<1>2. SumFunctionOnSet(f, U) = g[U]
  BY Zenon DEF SumFunctionOnSet, FoldFunctionOnSet, MapThenFoldSet, Sums, IsSum, SumOf, Picked
<1> QED
  BY <1>1, <1>2

(* Least counterexamples by size: a sum over a subset is the same number   *)
(* whatever set it is taken from, and is the same for equal terms.         *)
LEMMA SumsAgree ==
  ASSUME NEW f, NEW e, NEW U, IsFiniteSet(U), NEW S \in SUBSET U, SameTerms(e, f, S),
         NEW g, NEW h, Sums(f, U, g), Sums(e, S, h)
  PROVE  h[S] = g[S]
<1> DEFINE Bad == {n \in Nat : \E s \in SUBSET S : Cardinality(s) = n /\ h[s] # g[s]}
<1>1. ASSUME NEW s \in SUBSET S, h[s] # g[s]
      PROVE  Cardinality(s) \in Bad
  BY <1>1, FS_Subset, FS_CardinalityType
<1>2. Bad = {}
  <2> SUFFICES ASSUME Bad # {} PROVE FALSE
    OBVIOUS
  <2>1. PICK n \in Bad : \A k \in Bad : n <= k
    BY LeastOfNaturals
  <2>2. PICK s \in SUBSET S : Cardinality(s) = n /\ h[s] # g[s]
    BY <2>1
  <2>0. n \in Nat
    BY <2>1
  <2> HIDE DEF Bad
  <2>3. s \in SUBSET U /\ g[s] = SumOf(f, s, g) /\ h[s] = SumOf(e, s, h)
    BY DEF Sums, IsSum
  <2>4. s # {}
    BY <2>2, <2>3 DEF SumOf
  <2> DEFINE r == s \ {Picked(s)}
  <2>5. r \in SUBSET S /\ Cardinality(r) = n - 1 /\ n \in Int /\ Picked(s) \in S
    <3>0. IsFiniteSet(S)
      BY FS_Subset
    <3>1. Picked(s) \in s
      BY <2>4, PickedIsIn, Zenon
    <3>2. OneSmaller(S, s, r)
      BY <3>0, <2>2, <3>1, OneFewer, Zenon
    <3> HIDE DEF r
    <3> QED
      BY <2>0, <2>2, <3>1, <3>2 DEF OneSmaller
  <2>6. Cardinality(r) \notin Bad
    BY <2>1, <2>5
  <2>7. h[r] = g[r]
    BY <1>1, <2>5, <2>6
  <2> QED
    BY <2>2, <2>3, <2>4, <2>5, <2>7 DEF SumOf, SameTerms
<1> QED
  BY <1>1, <1>2

LEMMA SumOfSubset ==
  ASSUME NEW f, NEW e, NEW U, IsFiniteSet(U), NEW S \in SUBSET U, SameTerms(e, f, S),
         NEW g, Sums(f, U, g)
  PROVE  SumFunctionOnSet(e, S) = g[S]
<1>1. IsFiniteSet(S) /\ S \in SUBSET S
  BY FS_Subset
<1>2. PICK h : Sums(e, S, h) /\ SumFunctionOnSet(e, S) = h[S]
  BY <1>1, SumIsOne
<1>3. h[S] = g[S]
  <2>1. Sums(e, S, h)
    BY <1>2
  <2> QED
    BY <2>1, SumsAgree
<1> QED
  BY <1>2, <1>3

LEMMA SumsAreInt ==
  ASSUME NEW f, NEW U, IsFiniteSet(U), IntTerms(f, U), NEW g, Sums(f, U, g)
  PROVE  \A s \in SUBSET U : g[s] \in Int
<1> DEFINE Bad == {n \in Nat : \E s \in SUBSET U : Cardinality(s) = n /\ g[s] \notin Int}
<1>1. ASSUME NEW s \in SUBSET U, g[s] \notin Int
      PROVE  Cardinality(s) \in Bad
  BY <1>1, FS_Subset, FS_CardinalityType
<1>2. Bad = {}
  <2> SUFFICES ASSUME Bad # {} PROVE FALSE
    OBVIOUS
  <2>1. PICK n \in Bad : \A k \in Bad : n <= k
    BY LeastOfNaturals
  <2>2. PICK s \in SUBSET U : Cardinality(s) = n /\ g[s] \notin Int
    BY <2>1
  <2>0. n \in Nat
    BY <2>1
  <2> HIDE DEF Bad
  <2>3. g[s] = SumOf(f, s, g)
    BY DEF Sums, IsSum
  <2>4. s # {}
    BY <2>2, <2>3 DEF SumOf
  <2> DEFINE r == s \ {Picked(s)}
  <2>5. r \in SUBSET U /\ Cardinality(r) = n - 1 /\ n \in Int /\ Picked(s) \in U
    <3>1. Picked(s) \in s
      BY <2>4, PickedIsIn, Zenon
    <3>2. OneSmaller(U, s, r)
      BY <2>2, <3>1, OneFewer, Zenon
    <3> HIDE DEF r
    <3> QED
      BY <2>0, <2>2, <3>1, <3>2 DEF OneSmaller
  <2>6. Cardinality(r) \notin Bad
    BY <2>1, <2>5
  <2>7. g[r] \in Int
    BY <1>1, <2>5, <2>6
  <2>8. f[Picked(s)] \in Int
    BY <2>5 DEF IntTerms
  <2> QED
    BY <2>2, <2>3, <2>4, <2>7, <2>8 DEF SumOf
<1> QED
  BY <1>1, <1>2

(* Whichever element is taken out first, the sum is the same.              *)
LEMMA AnyElementFirst ==
  ASSUME NEW f, NEW U, IsFiniteSet(U), IntTerms(f, U), NEW g, Sums(f, U, g)
  PROVE  \A x \in U : g[U] = f[x] + g[U \ {x}]
<1> DEFINE Holds(s) == \A x \in s : g[s] = f[x] + g[s \ {x}]
           Bad == {n \in Nat : \E s \in SUBSET U : Cardinality(s) = n /\ ~Holds(s)}
<1>1. ASSUME NEW s \in SUBSET U, ~Holds(s)
      PROVE  Cardinality(s) \in Bad
  <2> HIDE DEF Holds
  <2> QED
    BY <1>1, FS_Subset, FS_CardinalityType
<1>2. Bad = {}
  <2> SUFFICES ASSUME Bad # {} PROVE FALSE
    OBVIOUS
  <2>1. PICK n \in Bad : \A k \in Bad : n <= k
    BY LeastOfNaturals
  <2>2. PICK s \in SUBSET U : Cardinality(s) = n /\ ~Holds(s)
    BY <2>1
  <2>0. n \in Nat
    BY <2>1
  <2> HIDE DEF Bad
  <2>3. PICK x \in s : g[s] # f[x] + g[s \ {x}]
    BY <2>2
  <2> DEFINE p == Picked(s)
             r == s \ {p}
             both == r \ {x}
  <2>4. p \in s /\ s # {}
    BY <2>3, PickedIsIn
  <2>5. g[s] = f[p] + g[r]
    BY <2>4 DEF Sums, IsSum, SumOf
  <2>6. x # p
    BY <2>3, <2>5
  <2>7. /\ r \in SUBSET U /\ Cardinality(r) = n - 1 /\ n \in Int
        /\ s \ {x} \in SUBSET U /\ Cardinality(s \ {x}) = n - 1
    <3>1. OneSmaller(U, s, r)
      BY <2>4, OneFewer, Zenon
    <3>2. OneSmaller(U, s, s \ {x})
      BY <2>3, OneFewer, Zenon
    <3> HIDE DEF r
    <3> QED
      BY <2>0, <2>2, <3>1, <3>2 DEF OneSmaller
  <2>8. n - 1 \notin Bad
    BY <2>1, <2>7
  <2>9. Holds(r) /\ Holds(s \ {x})
    <3> HIDE DEF Holds, p, r
    <3> QED
      BY <1>1, <2>7, <2>8
  <2>10. g[r] = f[x] + g[both]
    BY <2>3, <2>6, <2>9
  <2>11. g[s \ {x}] = f[p] + g[both]
    <3>1. (s \ {x}) \ {p} = both /\ p \in s \ {x}
      BY <2>4, <2>6
    <3> QED
      BY <2>9, <3>1
  <2>12. f[x] \in Int /\ f[p] \in Int /\ g[both] \in Int
    <3>1. both \in SUBSET U /\ x \in U /\ p \in U
      BY <2>3, <2>4
    <3> HIDE DEF both, p
    <3>2. g[both] \in Int
      BY <3>1, SumsAreInt, Zenon
    <3> QED
      BY <3>1, <3>2 DEF IntTerms
  <2> HIDE DEF p, r, both, Holds
  <2> QED
    BY <2>3, <2>5, <2>10, <2>11, <2>12
<1>3. Holds(U)
  BY <1>1, <1>2
<1> QED
  BY <1>3

(* What the proofs of this module use of sums: an empty one is zero, and   *)
(* one more row adds its term, whatever function the terms are read from.  *)
LEMMA SumNone ==
  ASSUME NEW f
  PROVE  SumFunctionOnSet(f, {}) = 0
<1>1. PICK g : Sums(f, {}, g) /\ SumFunctionOnSet(f, {}) = g[{}]
  BY SumIsOne, FS_EmptySet
<1> QED
  BY <1>1 DEF Sums, IsSum, SumOf

LEMMA SumsOfSameTerms ==
  ASSUME NEW e, NEW f, NEW S, IsFiniteSet(S), SameTerms(e, f, S)
  PROVE  SumFunctionOnSet(e, S) = SumFunctionOnSet(f, S)
<1>1. PICK g : Sums(f, S, g) /\ SumFunctionOnSet(f, S) = g[S]
  BY SumIsOne
<1>2. S \in SUBSET S
  OBVIOUS
<1>3. SumFunctionOnSet(e, S) = g[S]
  BY <1>1, <1>2, SumOfSubset
<1> QED
  BY <1>1, <1>3

(* What the sum over S becomes with x, S's terms being the same.           *)
Grows(e, f, S, x) ==
  /\ SumFunctionOnSet(f, S) \in Int
  /\ SumFunctionOnSet(e, S) = SumFunctionOnSet(f, S)
  /\ SumFunctionOnSet(e, S \cup {x}) = SumFunctionOnSet(f, S) + e[x]

LEMMA SumOneMore ==
  ASSUME NEW e, NEW f, NEW S, IsFiniteSet(S), NEW x, x \notin S, SameTerms(e, f, S),
         IntTerms(e, S \cup {x})
  PROVE  Grows(e, f, S, x)
<1> DEFINE U == S \cup {x}
<1>1. IsFiniteSet(U) /\ S \in SUBSET U /\ U \in SUBSET U /\ U \ {x} = S /\ x \in U
  BY FS_AddElement
<1>2. IntTerms(e, U)
  OBVIOUS
<1>3. SumFunctionOnSet(f, S) = SumFunctionOnSet(e, S)
  BY SumsOfSameTerms
<1> HIDE DEF U
<1>4. PICK g : Sums(e, U, g)
  BY <1>1, SumExists
<1>5. SameTerms(e, e, S) /\ SameTerms(e, e, U)
  BY DEF SameTerms
<1>6. SumFunctionOnSet(e, S) = g[S]
  BY <1>1, <1>4, <1>5, SumOfSubset
<1>7. SumFunctionOnSet(e, U) = g[U]
  BY <1>1, <1>4, <1>5, SumOfSubset
<1>8. g[U] = e[x] + g[S] /\ g[S] \in Int
  <2>1. \A y \in U : g[U] = e[y] + g[U \ {y}]
    BY <1>1, <1>2, <1>4, AnyElementFirst
  <2>2. \A s \in SUBSET U : g[s] \in Int
    BY <1>1, <1>2, <1>4, SumsAreInt, Zenon
  <2>3. e[x] \in Int
    BY <1>1, <1>2 DEF IntTerms
  <2> QED
    BY <1>1, <2>1, <2>2
<1>9. e[x] \in Int
  BY <1>1, <1>2 DEF IntTerms
<1> QED
  BY <1>3, <1>6, <1>7, <1>8, <1>9 DEF U, Grows

-----------------------------------------------------------------------------
Size(f) == IF f.signed < 0 THEN -f.signed ELSE f.signed

(* One more row, and the sums over any of the rows before it.              *)
LEMMA SumsGrow ==
  ASSUME NEW e, NEW f, NEW old, IsFiniteSet(old), NEW x, x \notin old,
         SameTerms(e, f, old), IntTerms(e, old \cup {x}), NEW S \in SUBSET old
  PROVE  Grows(e, f, S, x)
<1>1. IsFiniteSet(S) /\ x \notin S
  BY FS_Subset
<1>2. SameTerms(e, f, S) /\ IntTerms(e, S \cup {x})
  BY DEF SameTerms, IntTerms
<1> QED
  BY <1>1, <1>2, SumOneMore, Zenon

(* A row that is new to the fills table adds its size to its order and     *)
(* its signed quantity to its symbol, and to no other.                     *)
LEMMA OneRowMore ==
  ASSUME NEW t \in Tables, IsFiniteSet(t.fills), NEW u, NEW x \in FillRow, x \notin t.fills,
         u.fills = t.fills \cup {x}
  PROVE  /\ \A o : /\ FilledByRows(t, o) \in Int
                   /\ FilledByRows(u, o) = FilledByRows(t, o)
                                             + (IF x.order = o THEN Size(x) ELSE 0)
         /\ \A s : /\ NetByRows(t, s) \in Int
                   /\ NetByRows(u, s) = NetByRows(t, s)
                                          + (IF x.symbol = s THEN x.signed ELSE 0)
<1> DEFINE Sizes(fills) == [f \in fills |-> IF f.signed < 0 THEN -f.signed ELSE f.signed]
           Signs(fills) == [f \in fills |-> f.signed]
           OfOrder(fills, o) == {f \in fills : f.order = o}
           OfSymbol(fills, s) == {f \in fills : f.symbol = s}
<1>1. u.fills \in SUBSET FillRow
  BY DEF Tables
<1>2. \A f \in FillRow : f.signed \in Int
  BY DEF FillRow
<1>3. /\ IntTerms(Sizes(u.fills), t.fills \cup {x}) /\ IntTerms(Signs(u.fills), t.fills \cup {x})
      /\ SameTerms(Sizes(u.fills), Sizes(t.fills), t.fills)
      /\ SameTerms(Signs(u.fills), Signs(t.fills), t.fills)
  BY <1>1, <1>2 DEF IntTerms, SameTerms
<1>4. Sizes(u.fills)[x] = Size(x) /\ Signs(u.fills)[x] = x.signed
  BY DEF Size
<1>5. /\ \A o : FilledByRows(t, o) = SumFunctionOnSet(Sizes(t.fills), OfOrder(t.fills, o))
      /\ \A o : FilledByRows(u, o) = SumFunctionOnSet(Sizes(u.fills), OfOrder(u.fills, o))
      /\ \A s : NetByRows(t, s) = SumFunctionOnSet(Signs(t.fills), OfSymbol(t.fills, s))
      /\ \A s : NetByRows(u, s) = SumFunctionOnSet(Signs(u.fills), OfSymbol(u.fills, s))
  BY DEF FilledByRows, NetByRows
<1>6. ASSUME NEW o
      PROVE  /\ OfOrder(t.fills, o) \in SUBSET t.fills
             /\ OfOrder(u.fills, o) = IF x.order = o THEN OfOrder(t.fills, o) \cup {x}
                                                     ELSE OfOrder(t.fills, o)
  OBVIOUS
<1>7. ASSUME NEW s
      PROVE  /\ OfSymbol(t.fills, s) \in SUBSET t.fills
             /\ OfSymbol(u.fills, s) = IF x.symbol = s THEN OfSymbol(t.fills, s) \cup {x}
                                                       ELSE OfSymbol(t.fills, s)
  OBVIOUS
<1> HIDE DEF Sizes, Signs, OfOrder, OfSymbol
<1>8. ASSUME NEW S \in SUBSET t.fills
      PROVE  Grows(Sizes(u.fills), Sizes(t.fills), S, x)
  BY <1>3, SumsGrow, Zenon
<1>9. ASSUME NEW S \in SUBSET t.fills
      PROVE  Grows(Signs(u.fills), Signs(t.fills), S, x)
  BY <1>3, SumsGrow, Zenon
<1>10. ASSUME NEW o
       PROVE  /\ FilledByRows(t, o) \in Int
              /\ FilledByRows(u, o) = FilledByRows(t, o) + (IF x.order = o THEN Size(x) ELSE 0)
  <2> DEFINE S == OfOrder(t.fills, o)
  <2>1. S \in SUBSET t.fills
    BY <1>6
  <2>2. FilledByRows(t, o) = SumFunctionOnSet(Sizes(t.fills), S)
    BY <1>5
  <2>3. Grows(Sizes(u.fills), Sizes(t.fills), S, x)
    BY <1>8, <2>1
  <2> HIDE DEF S
  <2>4. CASE x.order = o
    <3>1. FilledByRows(u, o) = SumFunctionOnSet(Sizes(u.fills), S \cup {x})
      BY <1>5, <1>6, <2>4 DEF S
    <3> QED
      BY <1>4, <2>2, <2>3, <2>4, <3>1 DEF Grows
  <2>5. CASE x.order # o
    <3>1. FilledByRows(u, o) = SumFunctionOnSet(Sizes(u.fills), S)
      BY <1>5, <1>6, <2>5 DEF S
    <3> QED
      BY <2>2, <2>3, <2>5, <3>1 DEF Grows
  <2> QED
    BY <2>2, <2>3, <2>4, <2>5 DEF Grows
<1>11. ASSUME NEW s
       PROVE  /\ NetByRows(t, s) \in Int
              /\ NetByRows(u, s) = NetByRows(t, s) + (IF x.symbol = s THEN x.signed ELSE 0)
  <2> DEFINE S == OfSymbol(t.fills, s)
  <2>1. S \in SUBSET t.fills
    BY <1>7
  <2>2. NetByRows(t, s) = SumFunctionOnSet(Signs(t.fills), S)
    BY <1>5
  <2>3. Grows(Signs(u.fills), Signs(t.fills), S, x)
    BY <1>9, <2>1
  <2> HIDE DEF S
  <2>4. CASE x.symbol = s
    <3>1. NetByRows(u, s) = SumFunctionOnSet(Signs(u.fills), S \cup {x})
      BY <1>5, <1>7, <2>4 DEF S
    <3> QED
      BY <1>4, <2>2, <2>3, <2>4, <3>1 DEF Grows
  <2>5. CASE x.symbol # s
    <3>1. NetByRows(u, s) = SumFunctionOnSet(Signs(u.fills), S)
      BY <1>5, <1>7, <2>5 DEF S
    <3> QED
      BY <2>2, <2>3, <2>5, <3>1 DEF Grows
  <2> QED
    BY <2>2, <2>3, <2>4, <2>5 DEF Grows
<1> QED
  BY <1>10, <1>11

(* The columns the sums are compared with, after one more replayed row.    *)
LEMMA ColumnsAfter ==
  ASSUME NEW t \in Tables, NEW e \in Event, NEW id \in Nat, NEW u, u = ApplyEvent(t, e, id)
  PROVE  /\ \A o \in Orders :
              /\ Filled(t)[o] \in Int
              /\ Filled(u)[o] = Filled(t)[o]
                                  + (IF Unseen(t, e, id) /\ e.order = o THEN e.qty ELSE 0)
         /\ \A s \in Symbols :
              /\ Net(t)[s] \in Int
              /\ Net(u)[s] = Net(t)[s]
                               + (IF Unseen(t, e, id) /\ e.symbol = s THEN SignedQuantity(e) ELSE 0)
<1>1. ASSUME IsFill(e)
      PROVE  IsOrderEvent(e) /\ e.symbol \in Symbols
  BY <1>1 DEF IsFill, IsOrderEvent, Event
<1>2. ASSUME IsOrderEvent(e)
      PROVE  e.order \in Orders /\ e.qty \in Nat /\ SignedQuantity(e) \in Int
  <2>1. e.order \in Orders /\ e.qty \in Nat
    BY <1>2 DEF IsOrderEvent, Event
  <2> QED
    BY <2>1 DEF SignedQuantity
<1>3. ASSUME NEW o \in Orders
      PROVE  /\ Filled(t)[o] \in Int
             /\ Filled(u)[o] = Filled(t)[o]
                                 + (IF Unseen(t, e, id) /\ e.order = o THEN e.qty ELSE 0)
  <2>1. t.orders[o] \in OrderRow \cup {NoRow} /\ t.orders \in [Orders -> OrderRow \cup {NoRow}]
    BY DEF Tables
  <2>2. Filled(t)[o] = (IF t.orders[o] = NoRow THEN 0 ELSE t.orders[o].filled)
        /\ Filled(u)[o] = (IF u.orders[o] = NoRow THEN 0 ELSE u.orders[o].filled)
    BY DEF Filled
  <2>3. Filled(t)[o] \in Int
    BY <2>1, <2>2 DEF OrderRow
  <2>4. CASE IsOrderEvent(e) /\ e.order = o
    <3>1. u.orders[o] = OrderRowAfter(t, e, id)
      BY <2>1, <2>4 DEF ApplyEvent
    <3>2. u.orders[o].filled = Filled(t)[o] + (IF Unseen(t, e, id) THEN e.qty ELSE 0)
      BY <2>2, <2>4, <3>1 DEF OrderRowAfter
    <3>3. OrderRowAfter(t, e, id) \in OrderRow
      <4>1. e.qty \in Nat /\ e.status \in Statuses /\ e.reduce \in BOOLEAN
        BY <2>4 DEF IsOrderEvent, Event
      <4> QED
        BY <2>1, <2>4, <4>1 DEF OrderRowAfter, OrderRow
    <3>4. u.orders[o] # NoRow
      BY <3>1, <3>3, NamesAreDistinct
    <3> QED
      BY <2>2, <2>3, <2>4, <3>2, <3>4
  <2>5. CASE ~(IsOrderEvent(e) /\ e.order = o)
    <3>1. u.orders[o] = t.orders[o]
      BY <2>1, <2>5 DEF ApplyEvent
    <3>2. ~(Unseen(t, e, id) /\ e.order = o)
      BY <1>1, <2>5 DEF Unseen
    <3> QED
      BY <2>2, <2>3, <3>1, <3>2
  <2> QED
    BY <2>4, <2>5
<1>4. ASSUME NEW s \in Symbols
      PROVE  /\ Net(t)[s] \in Int
             /\ Net(u)[s] = Net(t)[s]
                              + (IF Unseen(t, e, id) /\ e.symbol = s THEN SignedQuantity(e) ELSE 0)
  <2>1. t.positions[s] \in Int \cup {NoRow} /\ t.positions \in [Symbols -> Int \cup {NoRow}]
    BY DEF Tables
  <2>2. Net(t)[s] = (IF t.positions[s] = NoRow THEN 0 ELSE t.positions[s])
        /\ Net(u)[s] = (IF u.positions[s] = NoRow THEN 0 ELSE u.positions[s])
    BY DEF Net
  <2>3. Net(t)[s] \in Int
    BY <2>1, <2>2
  <2>4. CASE Unseen(t, e, id) /\ e.symbol = s
    <3>1. u.positions[s] = Net(t)[s] + SignedQuantity(e)
      BY <2>1, <2>2, <2>4 DEF ApplyEvent, NetAfter
    <3>2. SignedQuantity(e) \in Int
      BY <1>1, <1>2, <2>4 DEF Unseen
    <3>3. u.positions[s] # NoRow
      BY <2>3, <3>1, <3>2, NamesAreDistinct
    <3> QED
      BY <2>2, <2>3, <2>4, <3>1, <3>3
  <2>5. CASE ~(Unseen(t, e, id) /\ e.symbol = s)
    <3>1. u.positions[s] = t.positions[s]
      BY <2>1, <2>5 DEF ApplyEvent
    <3> QED
      BY <2>2, <2>3, <2>5, <3>1
  <2> QED
    BY <2>4, <2>5
<1> QED
  BY <1>3, <1>4

InBalance(t) == IsFiniteSet(t.fills) /\ Balanced(t)

(* A replayed row adds to an order and a symbol what its fills row adds to *)
(* their sums, and nothing when the fill was seen before.                  *)
LEMMA BalanceStep ==
  ASSUME NEW t \in Tables, NEW e \in Event, NEW id \in Nat, InBalance(t)
  PROVE  InBalance(ApplyEvent(t, e, id))
<1> DEFINE u == ApplyEvent(t, e, id)
<1>1. u = ApplyEvent(t, e, id) /\ u.fills = IF Unseen(t, e, id) THEN t.fills \cup {FillRowOf(e, id)}
                                                                ELSE t.fills
  BY DEF ApplyEvent
<1> HIDE DEF u
<1>2. /\ \A o \in Orders :
           /\ Filled(t)[o] \in Int
           /\ Filled(u)[o] = Filled(t)[o] + (IF Unseen(t, e, id) /\ e.order = o THEN e.qty ELSE 0)
      /\ \A s \in Symbols :
           /\ Net(t)[s] \in Int
           /\ Net(u)[s] = Net(t)[s]
                            + (IF Unseen(t, e, id) /\ e.symbol = s THEN SignedQuantity(e) ELSE 0)
  BY <1>1, ColumnsAfter
<1>3. CASE Unseen(t, e, id)
  <2> DEFINE x == FillRowOf(e, id)
  <2>1. e.order \in Orders /\ e.qty \in Nat /\ e.symbol \in Symbols
        /\ e.fill \in FillIds \cup {NoFill}
    BY <1>3 DEF Unseen, IsFill, Event
  <2>2. FillKey(e, id) \in FillIds \cup Nat /\ SignedQuantity(e) \in Int
    BY <2>1 DEF FillKey, SignedQuantity
  <2>3. x \in FillRow /\ x.order = e.order /\ x.symbol = e.symbol /\ x.signed = SignedQuantity(e)
        /\ x.key = FillKey(e, id)
    BY <2>1, <2>2 DEF FillRowOf, FillRow
  <2> HIDE DEF x
  <2>4. x \notin t.fills
    BY <1>3, <2>3 DEF Unseen
  <2>5. Size(x) = e.qty
    BY <2>1, <2>3 DEF Size, SignedQuantity
  <2>6. u.fills = t.fills \cup {x}
    BY <1>1, <1>3 DEF x
  <2>7. /\ \A o : /\ FilledByRows(t, o) \in Int
                  /\ FilledByRows(u, o) = FilledByRows(t, o) + (IF x.order = o THEN Size(x) ELSE 0)
        /\ \A s : /\ NetByRows(t, s) \in Int
                  /\ NetByRows(u, s) = NetByRows(t, s) + (IF x.symbol = s THEN x.signed ELSE 0)
    BY <2>3, <2>4, <2>6, OneRowMore DEF InBalance
  <2>8. IsFiniteSet(u.fills)
    BY <2>6, FS_AddElement DEF InBalance
  <2>9. ASSUME NEW o \in Orders PROVE Filled(u)[o] = FilledByRows(u, o)
    BY <1>2, <1>3, <2>3, <2>5, <2>7 DEF InBalance, Balanced
  <2>10. ASSUME NEW s \in Symbols PROVE Net(u)[s] = NetByRows(u, s)
    BY <1>2, <1>3, <2>3, <2>7 DEF InBalance, Balanced
  <2> QED
    BY <1>1, <2>8, <2>9, <2>10 DEF InBalance, Balanced
<1>4. CASE ~Unseen(t, e, id)
  <2>1. u.fills = t.fills
    BY <1>1, <1>4
  <2>2. \A o : FilledByRows(u, o) = FilledByRows(t, o)
    BY <2>1 DEF FilledByRows
  <2>3. \A s : NetByRows(u, s) = NetByRows(t, s)
    BY <2>1 DEF NetByRows
  <2>4. ASSUME NEW o \in Orders PROVE Filled(u)[o] = FilledByRows(u, o)
    BY <1>2, <1>4, <2>2 DEF InBalance, Balanced
  <2>5. ASSUME NEW s \in Symbols PROVE Net(u)[s] = NetByRows(u, s)
    BY <1>2, <1>4, <2>3 DEF InBalance, Balanced
  <2> QED
    BY <1>1, <2>1, <2>4, <2>5 DEF InBalance, Balanced
<1> QED
  BY <1>3, <1>4

LEMMA BalanceOfNothing == InBalance(EmptyTables)
<1>1. IsFiniteSet(EmptyTables.fills) /\ EmptyTables.fills = {}
  BY FS_EmptySet DEF EmptyTables
<1>2. ASSUME NEW o \in Orders
      PROVE  Filled(EmptyTables)[o] = 0 /\ FilledByRows(EmptyTables, o) = 0
  <2>1. {f \in EmptyTables.fills : f.order = o} = {}
    BY <1>1
  <2>2. FilledByRows(EmptyTables, o) = 0
    BY <2>1, SumNone DEF FilledByRows
  <2> QED
    BY <2>2 DEF Filled, EmptyTables
<1>3. ASSUME NEW s \in Symbols
      PROVE  Net(EmptyTables)[s] = 0 /\ NetByRows(EmptyTables, s) = 0
  <2>1. {f \in EmptyTables.fills : f.symbol = s} = {}
    BY <1>1
  <2>2. NetByRows(EmptyTables, s) = 0
    BY <2>1, SumNone DEF NetByRows
  <2> QED
    BY <2>2 DEF Net, EmptyTables
<1> QED
  BY <1>1, <1>2, <1>3 DEF InBalance, Balanced

BooksInBalance == TypeOK /\ InBalance(work) /\ InBalance(proj)

(* The running and the committed tables stay in balance, whichever rebuild *)
(* dies where.                                                             *)
LEMMA BalanceHolds ==
  ASSUME BooksInBalance, [Next]_vars, TypeOK'
  PROVE  BooksInBalance'
<1>1. ASSUME UNCHANGED <<work, proj>>
      PROVE  BooksInBalance'
  BY <1>1 DEF BooksInBalance
<1>2. CASE BeginRebuild
  BY <1>2, BalanceOfNothing DEF BeginRebuild, BooksInBalance
<1>3. CASE ReplayRow
  <2>1. cursor + 1 \in 1..Len(log)
    BY <1>3 DEF ReplayRow, BooksInBalance, TypeOK
  <2>2. log[cursor + 1].event \in Event /\ work \in Tables /\ cursor + 1 \in Nat
    BY <2>1, LoggedEvent DEF BooksInBalance, TypeOK
  <2>3. InBalance(ApplyEvent(work, log[cursor + 1].event, cursor + 1))
    BY <2>2, BalanceStep DEF BooksInBalance
  <2> QED
    BY <1>3, <2>3 DEF ReplayRow, BooksInBalance
<1>4. CASE CommitRebuild
  BY <1>4 DEF CommitRebuild, BooksInBalance
<1>5. CASE RebuildFails
  BY <1>1, <1>5 DEF RebuildFails
<1>6. CASE UNCHANGED vars
  BY <1>1, <1>6 DEF vars
<1>7. ASSUME NEW w \in Writers, InsertEvent(w) \/ AppendFails(w)
      PROVE  BooksInBalance'
  BY <1>1, <1>7 DEF InsertEvent, AppendFails
<1>8. ASSUME NEW w \in Writers, NEW e \in Events, ReadHead(w, e)
      PROVE  BooksInBalance'
  BY <1>1, <1>8 DEF ReadHead
<1> QED
  BY <1>2, <1>3, <1>4, <1>5, <1>6, <1>7, <1>8 DEF Next

(* Duplicated deliveries, overlapping appends and rebuilds that die leave  *)
(* the filled quantities and net positions a reader sees equal to the sums *)
(* of the fills rows it sees (the one `seen_fill_ids` test that decides    *)
(* both in rebuild_execution_projections, and its single commit).          *)
THEOREM BooksAlwaysBalance == Spec => []BooksBalance
<1>1. Init => BooksInBalance
  BY EmptyTablesTyped, BalanceOfNothing DEF Init, BooksInBalance, TypeOK, Idle
<1>2. BooksInBalance /\ [Next]_vars /\ TypeOK' => BooksInBalance'
  BY BalanceHolds
<1>3. BooksInBalance => BooksBalance
  BY DEF BooksInBalance, InBalance, BooksBalance
<1> QED
  BY <1>1, <1>2, <1>3, TypeCorrect, PTL DEF Spec

-----------------------------------------------------------------------------
(* The gateway's sums.  They are the sums of the same recursive function,  *)
(* so SumNone and SumsGrow hold of them.                                   *)
Qty(fills) == [f \in fills |-> f.qty]
Signed(fills) == [f \in fills |-> SignedQuantity(f)]
Costs(fills) == [f \in fills |-> SignedCost(f)]
OfOrder(fills, o) == {f \in fills : f.order = o}
OfSymbol(fills, s) == {f \in fills : f.symbol = s}

QtySums(S, g) ==
  g = [s \in SUBSET S |-> IF s = {} THEN 0 ELSE Picked(s).qty + g[s \ {Picked(s)}]]

SignedSums(S, g) ==
  g = [s \in SUBSET S |-> IF s = {} THEN 0 ELSE SignedQuantity(Picked(s)) + g[s \ {Picked(s)}]]

CostSums(S, g) ==
  g = [s \in SUBSET S |-> IF s = {} THEN 0 ELSE SignedCost(Picked(s)) + g[s \ {Picked(s)}]]

LEMMA FilledQtyIsSum ==
  ASSUME NEW fills, IsFiniteSet(fills), NEW o
  PROVE  FilledQty(fills, o) = SumFunctionOnSet(Qty(fills), OfOrder(fills, o))
<1> DEFINE S == OfOrder(fills, o)
<1>1. IsFiniteSet(S) /\ S \in SUBSET S /\ S \in SUBSET fills
  BY FS_Subset DEF OfOrder
<1>2. FilledQty(fills, o) = (CHOOSE g : QtySums(S, g))[S]
  BY Zenon DEF FilledQty, Sum, MapThenSumSet, MapThenFoldSet, QtySums, Picked, OfOrder
<1>3. ASSUME NEW g
      PROVE  QtySums(S, g) <=> Sums(Qty(fills), S, g)
  <2>1. ASSUME NEW s \in SUBSET S
        PROVE  (IF s = {} THEN 0 ELSE Picked(s).qty + g[s \ {Picked(s)}]) = SumOf(Qty(fills), s, g)
    <3>1. s # {} => Picked(s) \in fills
      BY <1>1, PickedIsIn
    <3> QED
      BY <3>1 DEF SumOf, Qty
  <2> HIDE DEF S
  <2>2. [s \in SUBSET S |-> IF s = {} THEN 0 ELSE Picked(s).qty + g[s \ {Picked(s)}]]
          = [s \in SUBSET S |-> SumOf(Qty(fills), s, g)]
    BY <2>1
  <2> QED
    BY <2>2, Zenon DEF QtySums, Sums, IsSum
<1> HIDE DEF S
<1>4. (CHOOSE g : QtySums(S, g)) = CHOOSE g : Sums(Qty(fills), S, g)
  BY <1>3, Zenon
<1>5. Sums(Qty(fills), S, CHOOSE g : Sums(Qty(fills), S, g))
  BY <1>1, SumExists, Zenon
<1>6. SameTerms(Qty(fills), Qty(fills), S)
  BY DEF SameTerms
<1>7. SumFunctionOnSet(Qty(fills), S) = (CHOOSE g : Sums(Qty(fills), S, g))[S]
  <2> DEFINE f == Qty(fills)
             h == CHOOSE g : Sums(Qty(fills), S, g)
  <2>1. Sums(f, S, h) /\ SameTerms(f, f, S)
    BY <1>5, <1>6
  <2> HIDE DEF f, h
  <2>2. SumFunctionOnSet(f, S) = h[S]
    BY <1>1, <2>1, SumOfSubset
  <2> QED
    BY <2>2 DEF f, h
<1> QED
  BY <1>2, <1>4, <1>7 DEF S

LEMMA NetQtyIsSum ==
  ASSUME NEW fills, IsFiniteSet(fills), NEW s0
  PROVE  NetQty(fills, s0) = SumFunctionOnSet(Signed(fills), OfSymbol(fills, s0))
<1> DEFINE S == OfSymbol(fills, s0)
<1>1. IsFiniteSet(S) /\ S \in SUBSET S /\ S \in SUBSET fills
  BY FS_Subset DEF OfSymbol
<1>2. NetQty(fills, s0) = (CHOOSE g : SignedSums(S, g))[S]
  BY Zenon DEF NetQty, Sum, MapThenSumSet, MapThenFoldSet, SignedSums, Picked, OfSymbol
<1>3. ASSUME NEW g
      PROVE  SignedSums(S, g) <=> Sums(Signed(fills), S, g)
  <2>1. ASSUME NEW s \in SUBSET S
        PROVE  (IF s = {} THEN 0 ELSE SignedQuantity(Picked(s)) + g[s \ {Picked(s)}])
                 = SumOf(Signed(fills), s, g)
    <3>1. s # {} => Picked(s) \in fills
      BY <1>1, PickedIsIn
    <3> QED
      BY <3>1 DEF SumOf, Signed
  <2> HIDE DEF S
  <2>2. [s \in SUBSET S |-> IF s = {} THEN 0 ELSE SignedQuantity(Picked(s)) + g[s \ {Picked(s)}]]
          = [s \in SUBSET S |-> SumOf(Signed(fills), s, g)]
    BY <2>1
  <2> QED
    BY <2>2, Zenon DEF SignedSums, Sums, IsSum
<1> HIDE DEF S
<1>4. (CHOOSE g : SignedSums(S, g)) = CHOOSE g : Sums(Signed(fills), S, g)
  BY <1>3, Zenon
<1>5. Sums(Signed(fills), S, CHOOSE g : Sums(Signed(fills), S, g))
  BY <1>1, SumExists, Zenon
<1>6. SameTerms(Signed(fills), Signed(fills), S)
  BY DEF SameTerms
<1>7. SumFunctionOnSet(Signed(fills), S) = (CHOOSE g : Sums(Signed(fills), S, g))[S]
  <2> DEFINE f == Signed(fills)
             h == CHOOSE g : Sums(Signed(fills), S, g)
  <2>1. Sums(f, S, h) /\ SameTerms(f, f, S)
    BY <1>5, <1>6
  <2> HIDE DEF f, h
  <2>2. SumFunctionOnSet(f, S) = h[S]
    BY <1>1, <2>1, SumOfSubset
  <2> QED
    BY <2>2 DEF f, h
<1> QED
  BY <1>2, <1>4, <1>7 DEF S

LEMMA NetCostIsSum ==
  ASSUME NEW fills, IsFiniteSet(fills), NEW s0
  PROVE  NetCost(fills, s0) = SumFunctionOnSet(Costs(fills), OfSymbol(fills, s0))
<1> DEFINE S == OfSymbol(fills, s0)
<1>1. IsFiniteSet(S) /\ S \in SUBSET S /\ S \in SUBSET fills
  BY FS_Subset DEF OfSymbol
<1>2. NetCost(fills, s0) = (CHOOSE g : CostSums(S, g))[S]
  BY Zenon DEF NetCost, Sum, MapThenSumSet, MapThenFoldSet, CostSums, Picked, OfSymbol
<1>3. ASSUME NEW g
      PROVE  CostSums(S, g) <=> Sums(Costs(fills), S, g)
  <2>1. ASSUME NEW s \in SUBSET S
        PROVE  (IF s = {} THEN 0 ELSE SignedCost(Picked(s)) + g[s \ {Picked(s)}])
                 = SumOf(Costs(fills), s, g)
    <3>1. s # {} => Picked(s) \in fills
      BY <1>1, PickedIsIn
    <3> QED
      BY <3>1 DEF SumOf, Costs
  <2> HIDE DEF S
  <2>2. [s \in SUBSET S |-> IF s = {} THEN 0 ELSE SignedCost(Picked(s)) + g[s \ {Picked(s)}]]
          = [s \in SUBSET S |-> SumOf(Costs(fills), s, g)]
    BY <2>1
  <2> QED
    BY <2>2, Zenon DEF CostSums, Sums, IsSum
<1> HIDE DEF S
<1>4. (CHOOSE g : CostSums(S, g)) = CHOOSE g : Sums(Costs(fills), S, g)
  BY <1>3, Zenon
<1>5. Sums(Costs(fills), S, CHOOSE g : Sums(Costs(fills), S, g))
  BY <1>1, SumExists, Zenon
<1>6. SameTerms(Costs(fills), Costs(fills), S)
  BY DEF SameTerms
<1>7. SumFunctionOnSet(Costs(fills), S) = (CHOOSE g : Sums(Costs(fills), S, g))[S]
  <2> DEFINE f == Costs(fills)
             h == CHOOSE g : Sums(Costs(fills), S, g)
  <2>1. Sums(f, S, h) /\ SameTerms(f, f, S)
    BY <1>5, <1>6
  <2> HIDE DEF f, h
  <2>2. SumFunctionOnSet(f, S) = h[S]
    BY <1>1, <2>1, SumOfSubset
  <2> QED
    BY <2>2 DEF f, h
<1> QED
  BY <1>2, <1>4, <1>7 DEF S

LEMMA NoFillsNoSums ==
  /\ \A o : FilledQty({}, o) = 0
  /\ \A s : NetQty({}, s) = 0
  /\ \A s : NetCost({}, s) = 0
<1>1. /\ \A o : OfOrder({}, o) = {}
      /\ \A s : OfSymbol({}, s) = {}
  BY DEF OfOrder, OfSymbol
<1> QED
  BY <1>1, FS_EmptySet, FilledQtyIsSum, NetQtyIsSum, NetCostIsSum, SumNone

Amounts(fills) == \A x \in fills : x.qty \in Int /\ SignedQuantity(x) \in Int

(* One more fill adds to its order and to its symbol, and to no other.     *)
LEMMA OneAmountMore ==
  ASSUME NEW fills, IsFiniteSet(fills), NEW f, f \notin fills, Amounts(fills \cup {f})
  PROVE  /\ IsFiniteSet(fills \cup {f})
         /\ \A o : /\ FilledQty(fills, o) \in Int
                   /\ FilledQty(fills \cup {f}, o)
                        = FilledQty(fills, o) + (IF f.order = o THEN f.qty ELSE 0)
         /\ \A s : /\ NetQty(fills, s) \in Int
                   /\ NetQty(fills \cup {f}, s)
                        = NetQty(fills, s) + (IF f.symbol = s THEN SignedQuantity(f) ELSE 0)
<1> DEFINE more == fills \cup {f}
<1>1. IsFiniteSet(more)
  BY FS_AddElement
<1>3. /\ IntTerms(Qty(more), fills \cup {f}) /\ IntTerms(Signed(more), fills \cup {f})
      /\ SameTerms(Qty(more), Qty(fills), fills) /\ SameTerms(Signed(more), Signed(fills), fills)
  BY <1>1 DEF IntTerms, SameTerms, Qty, Signed, Amounts
<1>4. Qty(more)[f] = f.qty /\ Signed(more)[f] = SignedQuantity(f)
  BY DEF Qty, Signed
<1>5. ASSUME NEW o
      PROVE  /\ OfOrder(fills, o) \in SUBSET fills
             /\ OfOrder(more, o) = IF f.order = o THEN OfOrder(fills, o) \cup {f}
                                                  ELSE OfOrder(fills, o)
  BY DEF OfOrder
<1>6. ASSUME NEW s
      PROVE  /\ OfSymbol(fills, s) \in SUBSET fills
             /\ OfSymbol(more, s) = IF f.symbol = s THEN OfSymbol(fills, s) \cup {f}
                                                    ELSE OfSymbol(fills, s)
  BY DEF OfSymbol
<1> HIDE DEF more
<1>7. ASSUME NEW S \in SUBSET fills
      PROVE  Grows(Qty(more), Qty(fills), S, f)
  BY <1>3, SumsGrow, Zenon
<1>8. ASSUME NEW S \in SUBSET fills
      PROVE  Grows(Signed(more), Signed(fills), S, f)
  BY <1>3, SumsGrow, Zenon
<1>9. ASSUME NEW o
      PROVE  /\ FilledQty(fills, o) \in Int
             /\ FilledQty(more, o) = FilledQty(fills, o) + (IF f.order = o THEN f.qty ELSE 0)
  <2>1. /\ FilledQty(fills, o) = SumFunctionOnSet(Qty(fills), OfOrder(fills, o))
        /\ FilledQty(more, o) = SumFunctionOnSet(Qty(more), OfOrder(more, o))
    BY <1>1, FilledQtyIsSum
  <2>2. Grows(Qty(more), Qty(fills), OfOrder(fills, o), f)
    BY <1>5, <1>7
  <2>3. CASE f.order = o
    <3>1. OfOrder(more, o) = OfOrder(fills, o) \cup {f}
      BY <1>5, <2>3
    <3> QED
      BY <1>4, <2>1, <2>2, <2>3, <3>1 DEF Grows
  <2>4. CASE f.order # o
    <3>1. OfOrder(more, o) = OfOrder(fills, o)
      BY <1>5, <2>4
    <3> QED
      BY <2>1, <2>2, <2>4, <3>1 DEF Grows
  <2> QED
    BY <2>3, <2>4
<1>10. ASSUME NEW s
       PROVE  /\ NetQty(fills, s) \in Int
              /\ NetQty(more, s) = NetQty(fills, s)
                                     + (IF f.symbol = s THEN SignedQuantity(f) ELSE 0)
  <2>1. /\ NetQty(fills, s) = SumFunctionOnSet(Signed(fills), OfSymbol(fills, s))
        /\ NetQty(more, s) = SumFunctionOnSet(Signed(more), OfSymbol(more, s))
    BY <1>1, NetQtyIsSum
  <2>2. Grows(Signed(more), Signed(fills), OfSymbol(fills, s), f)
    BY <1>6, <1>8
  <2>3. CASE f.symbol = s
    <3>1. OfSymbol(more, s) = OfSymbol(fills, s) \cup {f}
      BY <1>6, <2>3
    <3> QED
      BY <1>4, <2>1, <2>2, <2>3, <3>1 DEF Grows
  <2>4. CASE f.symbol # s
    <3>1. OfSymbol(more, s) = OfSymbol(fills, s)
      BY <1>6, <2>4
    <3> QED
      BY <2>1, <2>2, <2>4, <3>1 DEF Grows
  <2> QED
    BY <2>3, <2>4
<1> QED
  BY <1>1, <1>9, <1>10 DEF more

LEMMA OneFillMore ==
  ASSUME NEW fills \in SUBSET Fill, IsFiniteSet(fills), NEW f \in Fill, f \notin fills
  PROVE  /\ IsFiniteSet(fills \cup {f})
         /\ \A o : /\ FilledQty(fills, o) \in Int
                   /\ FilledQty(fills \cup {f}, o)
                        = FilledQty(fills, o) + (IF f.order = o THEN f.qty ELSE 0)
         /\ \A s : /\ NetQty(fills, s) \in Int
                   /\ NetQty(fills \cup {f}, s)
                        = NetQty(fills, s) + (IF f.symbol = s THEN SignedQuantity(f) ELSE 0)
<1>1. Amounts(fills \cup {f})
  BY DEF Amounts, Fill, SignedQuantity
<1> QED
  BY <1>1, OneAmountMore, Zenon

(* And adds its cost to its symbol.                                        *)
LEMMA OneCostMore ==
  ASSUME NEW fills \in SUBSET Fill, IsFiniteSet(fills), NEW f \in Fill, f \notin fills
  PROVE  \A s : /\ NetCost(fills, s) \in Int
                /\ NetCost(fills \cup {f}, s)
                     = NetCost(fills, s) + (IF f.symbol = s THEN SignedCost(f) ELSE 0)
<1> DEFINE more == fills \cup {f}
<1>1. IsFiniteSet(more)
  BY FS_AddElement
<1>2. ASSUME NEW x \in more
      PROVE  SignedCost(x) \in Int
  <2>1. x.qty \in Nat /\ x.price \in Int
    BY DEF Fill
  <2>2. SignedQuantity(x) \in Int
    BY <2>1 DEF SignedQuantity
  <2> QED
    BY <2>1, <2>2, IntProduct DEF SignedCost
<1>3. /\ IntTerms(Costs(more), fills \cup {f})
      /\ SameTerms(Costs(more), Costs(fills), fills)
  BY <1>2 DEF IntTerms, SameTerms, Costs
<1>4. Costs(more)[f] = SignedCost(f)
  BY DEF Costs
<1>5. ASSUME NEW s
      PROVE  /\ OfSymbol(fills, s) \in SUBSET fills
             /\ OfSymbol(more, s) = IF f.symbol = s THEN OfSymbol(fills, s) \cup {f}
                                                    ELSE OfSymbol(fills, s)
  BY DEF OfSymbol
<1> HIDE DEF more
<1>6. ASSUME NEW S \in SUBSET fills
      PROVE  Grows(Costs(more), Costs(fills), S, f)
  BY <1>3, SumsGrow, Zenon
<1>7. ASSUME NEW s
      PROVE  /\ NetCost(fills, s) \in Int
             /\ NetCost(more, s) = NetCost(fills, s)
                                     + (IF f.symbol = s THEN SignedCost(f) ELSE 0)
  <2>1. /\ NetCost(fills, s) = SumFunctionOnSet(Costs(fills), OfSymbol(fills, s))
        /\ NetCost(more, s) = SumFunctionOnSet(Costs(more), OfSymbol(more, s))
    BY <1>1, NetCostIsSum
  <2>2. Grows(Costs(more), Costs(fills), OfSymbol(fills, s), f)
    BY <1>5, <1>6
  <2>3. CASE f.symbol = s
    <3>1. OfSymbol(more, s) = OfSymbol(fills, s) \cup {f}
      BY <1>5, <2>3
    <3> QED
      BY <1>4, <2>1, <2>2, <2>3, <3>1 DEF Grows
  <2>4. CASE f.symbol # s
    <3>1. OfSymbol(more, s) = OfSymbol(fills, s)
      BY <1>5, <2>4
    <3> QED
      BY <2>1, <2>2, <2>4, <3>1 DEF Grows
  <2> QED
    BY <2>3, <2>4
<1> QED
  BY <1>7 DEF more

(* So the sums of every finite set of fills are integers.                  *)
LEMMA NetIsInt ==
  ASSUME NEW fills \in SUBSET Fill, IsFiniteSet(fills), NEW s
  PROVE  NetQty(fills, s) \in Int
<1>1. CASE fills = {}
  BY <1>1, NoFillsNoSums
<1>2. CASE fills # {}
  <2>1. PICK f : f \in fills
    BY <1>2
  <2> DEFINE rest == fills \ {f}
  <2>2. rest \in SUBSET Fill /\ IsFiniteSet(rest) /\ f \notin rest /\ f \in Fill
        /\ fills = rest \cup {f}
    BY <2>1, FS_RemoveElement
  <2> HIDE DEF rest
  <2>3. /\ NetQty(rest, s) \in Int
        /\ NetQty(rest \cup {f}, s) = NetQty(rest, s) + (IF f.symbol = s THEN SignedQuantity(f) ELSE 0)
    BY <2>2, OneFillMore
  <2>4. SignedQuantity(f) \in Int
    BY <2>2 DEF Fill, SignedQuantity
  <2> QED
    BY <2>2, <2>3, <2>4
<1> QED
  BY <1>1, <1>2

-----------------------------------------------------------------------------
(* The last of some rows.                                                  *)
LEMMA MaxIsIn ==
  ASSUME NEW n \in Nat, NEW S \in SUBSET (1..n), S # {}
  PROVE  Max(S) \in S /\ \A y \in S : Max(S) >= y
<1> DEFINE Down == {n - y : y \in S}
<1>1. Down \in SUBSET Nat /\ Down # {}
  OBVIOUS
<1>2. PICK d \in Down : \A c \in Down : d <= c
  BY <1>1, LeastOfNaturals
<1>3. PICK x \in S : d = n - x
  OBVIOUS
<1>4. \A y \in S : x >= y
  <2> SUFFICES ASSUME NEW y \in S PROVE x >= y
    OBVIOUS
  <2>1. n - y \in Down
    OBVIOUS
  <2>2. d <= n - y
    BY <1>2, <2>1
  <2>3. x \in Int /\ y \in Int
    OBVIOUS
  <2> HIDE DEF Down
  <2> QED
    BY <1>3, <2>2, <2>3
<1> HIDE DEF Down
<1> QED
  BY <1>4, Zenon DEF Max

LEMMA MaxOfOneMore ==
  ASSUME NEW n \in Nat, NEW S \in SUBSET (1..n)
  PROVE  Max(S \cup {n + 1}) = n + 1
<1> DEFINE T == S \cup {n + 1}
<1>1. T \in SUBSET (1..(n + 1)) /\ T # {} /\ n + 1 \in T /\ n + 1 \in Nat
  OBVIOUS
<1> HIDE DEF T
<1>2. Max(T) \in T /\ Max(T) >= n + 1
  BY <1>1, MaxIsIn
<1>3. Max(T) \in 1..(n + 1)
  BY <1>1, <1>2
<1>4. Max(T) = n + 1
  BY <1>2, <1>3
<1> QED
  BY <1>4 DEF T

-----------------------------------------------------------------------------
(* What a replay of the executor's reports tells of the gateway's fills.   *)

(* ReportFill's row.                                                       *)
ReportOf(f) ==
  [type |-> "FILL", order |-> f.order, fill |-> f.id, symbol |-> f.symbol,
   side |-> f.side, qty |-> f.qty, price |-> f.price, status |-> "FILL", reduce |-> FALSE]

LedgerOfReports ==
  /\ ledger \in Seq(Event)
  /\ \A i \in 1..Len(ledger) : ledger[i].type = "FILL" => \E f \in Fills : ledger[i] = ReportOf(f)

LEMMA PrefixRows ==
  ASSUME LedgerOfReports, NEW k \in 0..Len(ledger)
  PROVE  /\ Len(Prefix(k)) = k
         /\ \A i \in 1..k : Prefix(k)[i] = ledger[i]
         /\ Prefix(k) = [i \in 1..k |-> ledger[i]]
<1>1. ledger \in Seq(Event) /\ k \in Nat
  BY DEF LedgerOfReports
<1>2. Prefix(k) = [i \in 1..k |-> ledger[i]]
  BY <1>1 DEF Prefix
<1>3. [i \in 1..k |-> ledger[i]] \in Seq(Event)
  BY <1>1
<1> QED
  BY <1>1, <1>2, <1>3

LEMMA WholePrefix ==
  ASSUME LedgerOfReports
  PROVE  Prefix(Len(ledger)) = ledger
<1>1. Len(ledger) \in 0..Len(ledger) /\ ledger \in Seq(Event)
  BY DEF LedgerOfReports
<1>2. Prefix(Len(ledger)) = [i \in 1..Len(ledger) |-> ledger[i]]
  BY <1>1, PrefixRows
<1> QED
  BY <1>1, <1>2

(* The tables after the first k rows.                                      *)
After(k) == Replay(Prefix(k))

LEMMA NextRow ==
  ASSUME LedgerOfReports, NEW k \in Nat, k + 1 <= Len(ledger)
  PROVE  After(k + 1) = ApplyEvent(After(k), ledger[k + 1], k + 1)
<1>1. k \in 0..Len(ledger) /\ k + 1 \in 0..Len(ledger) /\ k + 1 \in 1..(k + 1)
  BY DEF LedgerOfReports
<1>2. /\ Len(Prefix(k)) = k /\ \A i \in 1..k : Prefix(k)[i] = ledger[i]
      /\ Len(Prefix(k + 1)) = k + 1 /\ \A i \in 1..(k + 1) : Prefix(k + 1)[i] = ledger[i]
  BY <1>1, PrefixRows
<1>3. SameUpTo(Prefix(k), Prefix(k + 1), k)
  BY <1>2 DEF SameUpTo
<1>4. Replay(Prefix(k + 1)) = ApplyEvent(Replay(Prefix(k)), Prefix(k + 1)[k + 1], k + 1)
  BY <1>2, <1>3, ReplayOneMore, Zenon
<1> QED
  BY <1>1, <1>2, <1>4 DEF After

LEMMA NoRows ==
  ASSUME LedgerOfReports
  PROVE  After(0) = EmptyTables
<1>1. Len(Prefix(0)) = 0
  BY PrefixRows DEF LedgerOfReports
<1> QED
  BY <1>1, ReplayNothing DEF After

RowsOfReports(rows) ==
  /\ rows \in Seq(Event)
  /\ \A i \in 1..Len(rows) : rows[i].type = "FILL" => \E f \in Fills : rows[i] = ReportOf(f)

(* A fill of the venue is known by its id.                                 *)
LEMMA ReportedInRows ==
  ASSUME NEW rows, RowsOfReports(rows), NEW k \in 0..Len(rows)
  PROVE  {f \in Fills : ReportsOf(SubSeq(rows, 1, k), f.id) # {}}
           = {f \in Fills : \E i \in 1..k : rows[i] = ReportOf(f)}
<1>1. rows \in Seq(Event) /\ k \in Nat
  BY DEF RowsOfReports
<1>2. Len(SubSeq(rows, 1, k)) = k
      /\ \A i \in 1..k : SubSeq(rows, 1, k)[i] = rows[i] /\ i \in 1..Len(rows)
  BY <1>1
<1>3. ASSUME NEW f \in Fills, NEW i \in 1..k, rows[i].type = "FILL", rows[i].fill = f.id
      PROVE  rows[i] = ReportOf(f)
  <2>1. PICK g \in Fills : rows[i] = ReportOf(g)
    BY <1>2, <1>3 DEF RowsOfReports
  <2>2. g.id = f.id
    BY <1>3, <2>1 DEF ReportOf
  <2>3. g = f
    BY <2>2, FillsAreFills
  <2> QED
    BY <2>1, <2>3
<1>4. ASSUME NEW f \in Fills
      PROVE  ReportsOf(SubSeq(rows, 1, k), f.id) # {} <=> \E i \in 1..k : rows[i] = ReportOf(f)
  <2>1. ReportsOf(SubSeq(rows, 1, k), f.id)
          = {i \in 1..k : rows[i].type = "FILL" /\ rows[i].fill = f.id}
    BY <1>2 DEF ReportsOf
  <2>2. ReportOf(f).type = "FILL" /\ ReportOf(f).fill = f.id
    BY DEF ReportOf
  <2> QED
    BY <1>3, <2>1, <2>2
<1> QED
  BY <1>4

LEMMA ReportedIsInRows ==
  ASSUME LedgerOfReports, NEW k \in 0..Len(ledger)
  PROVE  ReportedFills(k) = {f \in Fills : \E i \in 1..k : ledger[i] = ReportOf(f)}
<1>1. RowsOfReports(ledger)
  BY DEF LedgerOfReports, RowsOfReports
<1> QED
  BY <1>1, ReportedInRows DEF ReportedFills, Prefix

(* What one more row reports.                                              *)
LEMMA NextReports ==
  ASSUME LedgerOfReports, NEW k \in Nat, k + 1 <= Len(ledger)
  PROVE  /\ \A f \in Fills : ledger[k + 1] = ReportOf(f) =>
              ReportedFills(k + 1) = ReportedFills(k) \cup {f}
         /\ ledger[k + 1].type # "FILL" => ReportedFills(k + 1) = ReportedFills(k)
         /\ \A o \in Orders :
              EventsOf(k + 1, o) = IF IsOrderEvent(ledger[k + 1]) /\ ledger[k + 1].order = o
                                     THEN EventsOf(k, o) \cup {k + 1} ELSE EventsOf(k, o)
<1>1. k \in 0..Len(ledger) /\ k + 1 \in 0..Len(ledger) /\ k + 1 \in 1..Len(ledger)
  BY DEF LedgerOfReports
<1>2. 1..(k + 1) = 1..k \cup {k + 1} /\ k + 1 \notin 1..k
  OBVIOUS
<1>3. /\ ReportedFills(k) = {f \in Fills : \E i \in 1..k : ledger[i] = ReportOf(f)}
      /\ ReportedFills(k + 1) = {f \in Fills : \E i \in 1..(k + 1) : ledger[i] = ReportOf(f)}
  BY <1>1, ReportedIsInRows
<1>4. ASSUME NEW f \in Fills, NEW g \in Fills, ReportOf(f) = ReportOf(g)
      PROVE  f = g
  <2>1. f.id = g.id
    BY <1>4 DEF ReportOf
  <2> QED
    BY <2>1, FillsAreFills
<1>5. ASSUME NEW f \in Fills, ledger[k + 1] = ReportOf(f)
      PROVE  ReportedFills(k + 1) = ReportedFills(k) \cup {f}
  BY <1>2, <1>3, <1>4, <1>5
<1>6. ASSUME ledger[k + 1].type # "FILL"
      PROVE  ReportedFills(k + 1) = ReportedFills(k)
  <2>1. \A f \in Fills : ledger[k + 1] # ReportOf(f)
    BY <1>6 DEF ReportOf
  <2> QED
    BY <1>2, <1>3, <2>1
<1>7. ASSUME NEW o \in Orders
      PROVE  EventsOf(k + 1, o) = IF IsOrderEvent(ledger[k + 1]) /\ ledger[k + 1].order = o
                                    THEN EventsOf(k, o) \cup {k + 1} ELSE EventsOf(k, o)
  <2>1. (IsOrderEvent(ledger[k + 1]) /\ ledger[k + 1].order = o)
          <=> (ledger[k + 1].type \in {"ORDER", "FILL"} /\ ledger[k + 1].order = o)
    BY NamesAreDistinct DEF IsOrderEvent
  <2> QED
    BY <1>2, <2>1 DEF EventsOf
<1> QED
  BY <1>5, <1>6, <1>7

(* The first k rows and the tables their replay leaves.                    *)
FilledTold(k, t) == \A o \in Orders : Filled(t)[o] = FilledQty(ReportedFills(k), o)

NetTold(k, t) ==
  /\ \A s \in Symbols : Net(t)[s] = NetQty(ReportedFills(k), s)
  /\ \A f \in ReportedFills(k) : t.positions[f.symbol] # NoRow

EntryTold(k, t) ==
  \A s \in Symbols : t.entry[s] = [cost |-> NetCost(ReportedFills(k), s),
                                   qty |-> NetQty(ReportedFills(k), s)]

OrdersTold(k, t) ==
  /\ \A o \in Orders : t.orders[o] = NoRow <=> EventsOf(k, o) = {}
  /\ \A o \in Orders : t.orders[o] # NoRow => t.orders[o].reduce = ledger[Max(EventsOf(k, o))].reduce

KeysTold(k, t) ==
  /\ \A f \in ReportedFills(k) : \E row \in t.fills : row.key = f.id
  /\ \A row \in t.fills : \E f \in ReportedFills(k) : row.key = f.id

Tells(k, t) ==
  /\ t \in Tables
  /\ IsFiniteSet(ReportedFills(k))
  /\ FilledTold(k, t)
  /\ NetTold(k, t)
  /\ EntryTold(k, t)
  /\ OrdersTold(k, t)
  /\ KeysTold(k, t)

(* A report is not seen before exactly when its fill was not reported.     *)
LEMMA UnseenIsUnreported ==
  ASSUME NEW k \in Nat, NEW t, KeysTold(k, t), NEW f \in Fills, NEW id
  PROVE  /\ Unseen(t, ReportOf(f), id) <=> f \notin ReportedFills(k)
         /\ IsFill(ReportOf(f)) /\ FillRowOf(ReportOf(f), id).key = f.id
<1>1. f \in Fill
  BY FillsAreFills
<1>2. f.id \in FillIds /\ f.order \in Orders
  BY <1>1 DEF Fill
<1>3. FillKey(ReportOf(f), id) = f.id
  BY <1>2, NamesAreDistinct DEF FillKey, ReportOf
<1>4. IsFill(ReportOf(f))
  BY <1>2, NamesAreDistinct DEF IsFill, ReportOf
<1>5. \A g \in ReportedFills(k) : g \in Fills
  BY DEF ReportedFills
<1>6. \A g \in Fills : g.id = f.id => g = f
  BY FillsAreFills
<1>7. (\A row \in t.fills : row.key # f.id) <=> f \notin ReportedFills(k)
  BY <1>5, <1>6 DEF KeysTold
<1> QED
  BY <1>3, <1>4, <1>7 DEF Unseen, FillRowOf

LEMMA OrdersToldStep ==
  ASSUME LedgerOfReports, NEW k \in Nat, k + 1 <= Len(ledger), NEW t \in Tables, OrdersTold(k, t)
  PROVE  OrdersTold(k + 1, ApplyEvent(t, ledger[k + 1], k + 1))
<1> DEFINE e == ledger[k + 1]
           u == ApplyEvent(t, e, k + 1)
<1>1. e \in Event
  BY DEF LedgerOfReports
<1>2. ASSUME NEW o \in Orders
      PROVE  /\ u.orders[o] = NoRow <=> EventsOf(k + 1, o) = {}
             /\ u.orders[o] # NoRow => u.orders[o].reduce = ledger[Max(EventsOf(k + 1, o))].reduce
  <2>1. EventsOf(k, o) \in SUBSET (1..k)
    BY DEF EventsOf
  <2>2. CASE IsOrderEvent(e) /\ e.order = o
    <3>1. EventsOf(k + 1, o) = EventsOf(k, o) \cup {k + 1}
      BY <2>2, NextReports
    <3>2. Max(EventsOf(k + 1, o)) = k + 1
      BY <2>1, <3>1, MaxOfOneMore
    <3>3. u.orders[o] = OrderRowAfter(t, e, k + 1)
      BY <2>2 DEF ApplyEvent, Tables
    <3>4. OrderRowAfter(t, e, k + 1) \in OrderRow
      <4>1. e.qty \in Nat /\ e.status \in Statuses /\ e.reduce \in BOOLEAN /\ k + 1 \in Nat
            /\ t.orders[e.order] \in OrderRow \cup {NoRow}
        BY <1>1, <2>2 DEF IsOrderEvent, Event, Tables
      <4> DEFINE row == t.orders[e.order]
                 size == IF row = NoRow THEN e.qty ELSE row.qty
                 filled == (IF row = NoRow THEN 0 ELSE row.filled)
                             + (IF Unseen(t, e, k + 1) THEN e.qty ELSE 0)
      <4>2. size \in Nat /\ filled \in Nat
        <5>1. row # NoRow => row.qty \in Nat /\ row.filled \in Nat
          BY <4>1 DEF OrderRow
        <5> DEFINE before == IF row = NoRow THEN 0 ELSE row.filled
                   more == IF Unseen(t, e, k + 1) THEN e.qty ELSE 0
        <5>2. before \in Nat /\ more \in Nat /\ size \in Nat
          <6> HIDE DEF e, row
          <6> QED
            BY <4>1, <5>1
        <5> HIDE DEF before, more
        <5>3. before + more \in Nat
          BY <5>2
        <5> QED
          BY <5>2, <5>3 DEF before, more
      <4>3. OrderRowAfter(t, e, k + 1)
              = [qty |-> size, filled |-> filled, status |-> e.status, reduce |-> e.reduce,
                 last |-> k + 1]
        BY DEF OrderRowAfter
      <4> HIDE DEF row, size, filled, e
      <4> QED
        BY <4>1, <4>2, <4>3 DEF OrderRow
    <3>5. u.orders[o] # NoRow
      BY <3>3, <3>4, NamesAreDistinct
    <3>6. u.orders[o].reduce = e.reduce
      BY <3>3 DEF OrderRowAfter
    <3> QED
      BY <3>1, <3>2, <3>5, <3>6
  <2>3. CASE ~(IsOrderEvent(e) /\ e.order = o)
    <3>1. EventsOf(k + 1, o) = EventsOf(k, o)
      BY <2>3, NextReports
    <3>2. u.orders[o] = t.orders[o]
      BY <2>3 DEF ApplyEvent, Tables
    <3> QED
      BY <3>1, <3>2 DEF OrdersTold
  <2> QED
    BY <2>2, <2>3
<1> QED
  BY <1>2 DEF OrdersTold

(* A fill not reported before adds its cost and its quantity to the entry  *)
(* price of its symbol; no other row touches it.                           *)
LEMMA EntryToldStep ==
  ASSUME LedgerOfReports, NEW k \in Nat, k + 1 <= Len(ledger), NEW t, Tells(k, t)
  PROVE  EntryTold(k + 1, ApplyEvent(t, ledger[k + 1], k + 1))
<1> DEFINE e == ledger[k + 1]
           old == ReportedFills(k)
           new == ReportedFills(k + 1)
           u == ApplyEvent(t, e, k + 1)
<1>1. e \in Event /\ t.entry \in [Symbols -> Entry]
  BY DEF LedgerOfReports, Tells, Tables
<1>2. u.entry = IF Unseen(t, e, k + 1) THEN [t.entry EXCEPT ![e.symbol] = EntryAfter(t, e)]
                                        ELSE t.entry
  BY DEF ApplyEvent
<1>3. \A s \in Symbols : t.entry[s] = [cost |-> NetCost(old, s), qty |-> NetQty(old, s)]
  BY DEF Tells, EntryTold
<1>4. old \in SUBSET Fill /\ IsFiniteSet(old)
  <2>1. old \in SUBSET Fills
    BY DEF ReportedFills
  <2> QED
    BY <2>1, FillsAreFills DEF Tells
<1>5. ASSUME new = old, ~Unseen(t, e, k + 1)
      PROVE  EntryTold(k + 1, u)
  <2>1. u.entry = t.entry
    BY <1>2, <1>5
  <2> HIDE DEF u
  <2> QED
    BY <1>3, <1>5, <2>1 DEF EntryTold
<1>6. CASE e.type # "FILL"
  <2>1. new = old
    BY <1>6, NextReports
  <2>2. ~Unseen(t, e, k + 1)
    BY <1>6 DEF Unseen, IsFill
  <2> QED
    BY <1>5, <2>1, <2>2
<1>7. ASSUME NEW f \in Fills, e = ReportOf(f)
      PROVE  EntryTold(k + 1, u)
  <2>1. new = old \cup {f}
    BY <1>7, NextReports
  <2>2. Unseen(t, e, k + 1) <=> f \notin old
    BY <1>7, UnseenIsUnreported DEF Tells
  <2>3. CASE f \in old
    BY <1>5, <2>1, <2>2, <2>3
  <2>4. CASE f \notin old
    <3> HIDE DEF u, new, old, e
    <3>1. f \in Fill /\ f.symbol \in Symbols
      BY FillsAreFills DEF Fill
    <3>2. e.symbol = f.symbol /\ SignedQuantity(e) = SignedQuantity(f) /\ e.price = f.price
      BY <1>7 DEF ReportOf, SignedQuantity
    <3>3. SignedCost(e) = SignedCost(f)
      BY <3>2 DEF SignedCost
    <3>4. ASSUME NEW s
          PROVE  /\ NetQty(new, s) = NetQty(old, s)
                                       + (IF f.symbol = s THEN SignedQuantity(f) ELSE 0)
                 /\ NetCost(new, s) = NetCost(old, s)
                                        + (IF f.symbol = s THEN SignedCost(f) ELSE 0)
                 /\ NetQty(old, s) \in Int /\ NetCost(old, s) \in Int
      BY <1>4, <2>1, <2>4, <3>1, OneFillMore, OneCostMore
    <3>5. u.entry = [t.entry EXCEPT ![f.symbol] = EntryAfter(t, e)]
      BY <1>2, <2>2, <2>4, <3>2
    <3>6. EntryAfter(t, e) = [cost |-> NetCost(old, f.symbol) + SignedCost(f),
                              qty |-> NetQty(old, f.symbol) + SignedQuantity(f)]
      <4>1. t.entry[f.symbol] = [cost |-> NetCost(old, f.symbol), qty |-> NetQty(old, f.symbol)]
        BY <1>3, <3>1
      <4>2. t.entry[f.symbol].cost = NetCost(old, f.symbol)
            /\ t.entry[f.symbol].qty = NetQty(old, f.symbol)
        BY <4>1
      <4> QED
        BY <3>2, <3>3, <4>2, Zenon DEF EntryAfter
    <3>7. ASSUME NEW s \in Symbols
          PROVE  u.entry[s] = [cost |-> NetCost(new, s), qty |-> NetQty(new, s)]
      <4>1. CASE s = f.symbol
        <5>1. u.entry[s] = EntryAfter(t, e)
          BY <1>1, <3>1, <3>5, <4>1
        <5>2. /\ NetCost(new, s) = NetCost(old, f.symbol) + SignedCost(f)
              /\ NetQty(new, s) = NetQty(old, f.symbol) + SignedQuantity(f)
          BY <3>4, <4>1
        <5> QED
          BY <3>6, <5>1, <5>2
      <4>2. CASE s # f.symbol
        <5>1. u.entry[s] = t.entry[s]
          BY <1>1, <3>5, <4>2
        <5>2. /\ NetCost(new, s) = NetCost(old, s) + 0 /\ NetQty(new, s) = NetQty(old, s) + 0
              /\ NetQty(old, s) \in Int /\ NetCost(old, s) \in Int
          BY <3>4, <4>2
        <5>3. NetCost(new, s) = NetCost(old, s) /\ NetQty(new, s) = NetQty(old, s)
          BY <5>2
        <5> QED
          BY <1>3, <5>1, <5>3
      <4> QED
        BY <4>1, <4>2
    <3> QED
      BY <3>7 DEF EntryTold, new
  <2> QED
    BY <2>3, <2>4
<1>8. CASE e.type = "FILL"
  <2>1. \E f \in Fills : e = ReportOf(f)
    <3>1. k + 1 \in 1..Len(ledger)
      BY DEF LedgerOfReports
    <3> QED
      BY <1>8, <3>1 DEF LedgerOfReports
  <2> QED
    BY <1>7, <2>1
<1> QED
  BY <1>6, <1>8

(* What a fill not reported before adds to, and what every other row keeps.*)
LEMMA TellsStep ==
  ASSUME LedgerOfReports, NEW k \in Nat, k + 1 <= Len(ledger), NEW t, Tells(k, t)
  PROVE  Tells(k + 1, ApplyEvent(t, ledger[k + 1], k + 1))
<1> DEFINE e == ledger[k + 1]
           old == ReportedFills(k)
           new == ReportedFills(k + 1)
           u == ApplyEvent(t, e, k + 1)
<1>1. e \in Event /\ t \in Tables /\ k + 1 \in Nat
  BY DEF LedgerOfReports, Tells
<1>2. u \in Tables
  BY <1>1, ApplyEventTyped
<1>3. OrdersTold(k + 1, u)
  BY <1>1, OrdersToldStep DEF Tells
<1>4. u = ApplyEvent(t, e, k + 1) /\ EntryTold(k + 1, u)
  BY EntryToldStep
<1>5. /\ \A o \in Orders :
           /\ Filled(t)[o] \in Int
           /\ Filled(u)[o] = Filled(t)[o]
                               + (IF Unseen(t, e, k + 1) /\ e.order = o THEN e.qty ELSE 0)
      /\ \A s \in Symbols :
           /\ Net(t)[s] \in Int
           /\ Net(u)[s] = Net(t)[s]
                            + (IF Unseen(t, e, k + 1) /\ e.symbol = s THEN SignedQuantity(e) ELSE 0)
  <2> HIDE DEF u, e
  <2> QED
    BY <1>1, <1>4, ColumnsAfter
<1>6. /\ u.fills = IF Unseen(t, e, k + 1) THEN t.fills \cup {FillRowOf(e, k + 1)} ELSE t.fills
      /\ Unseen(t, e, k + 1) => e.symbol \in Symbols /\ SignedQuantity(e) \in Int
      /\ u.positions = IF Unseen(t, e, k + 1)
                         THEN [t.positions EXCEPT ![e.symbol] = NetAfter(t, e)] ELSE t.positions
  <2>1. Unseen(t, e, k + 1) => e.symbol \in Symbols /\ e.qty \in Nat
    BY <1>1 DEF Unseen, IsFill, Event
  <2> QED
    BY <2>1 DEF ApplyEvent, SignedQuantity
<1>7. ASSUME NEW s \in Symbols, t.positions[s] # NoRow \/ (Unseen(t, e, k + 1) /\ e.symbol = s)
      PROVE  u.positions[s] # NoRow
  <2>1. t.positions \in [Symbols -> Int \cup {NoRow}]
    BY <1>1 DEF Tables
  <2>2. CASE Unseen(t, e, k + 1) /\ e.symbol = s
    <3>1. NetAfter(t, e) \in Int
      BY <1>6, <2>1, <2>2 DEF NetAfter
    <3>2. u.positions[s] = NetAfter(t, e)
      BY <1>6, <2>1, <2>2
    <3> QED
      BY <3>1, <3>2, NamesAreDistinct
  <2>3. CASE ~(Unseen(t, e, k + 1) /\ e.symbol = s)
    <3>1. u.positions[s] = t.positions[s]
      BY <1>6, <2>1, <2>3
    <3> QED
      BY <1>7, <2>3, <3>1
  <2> QED
    BY <2>2, <2>3
<1>8. old \in SUBSET Fill /\ IsFiniteSet(old) /\ \A f \in old : f.symbol \in Symbols
  <2>1. old \in SUBSET Fills
    BY DEF ReportedFills
  <2> QED
    BY <2>1, FillsAreFills DEF Fill, Tells
<1>9. ASSUME new = old, ~Unseen(t, e, k + 1)
      PROVE  Tells(k + 1, u)
  <2> HIDE DEF u
  <2>1. FilledTold(k + 1, u)
    <3>1. \A o \in Orders : Filled(t)[o] = FilledQty(old, o)
      BY DEF Tells, FilledTold
    <3>2. ASSUME NEW o \in Orders PROVE Filled(u)[o] = FilledQty(new, o)
      <4>1. Filled(t)[o] \in Int /\ Filled(u)[o] = Filled(t)[o] + 0
        BY <1>5, <1>9
      <4>2. Filled(u)[o] = Filled(t)[o]
        BY <4>1
      <4> QED
        BY <1>9, <3>1, <4>2
    <3> QED
      BY <3>2 DEF FilledTold
  <2>2. NetTold(k + 1, u)
    <3>1. /\ \A s \in Symbols : Net(t)[s] = NetQty(old, s)
          /\ \A f \in old : t.positions[f.symbol] # NoRow
      BY DEF Tells, NetTold
    <3>2. ASSUME NEW s \in Symbols PROVE Net(u)[s] = NetQty(new, s)
      <4>1. Net(t)[s] \in Int /\ Net(u)[s] = Net(t)[s] + 0
        BY <1>5, <1>9
      <4>2. Net(u)[s] = Net(t)[s]
        BY <4>1
      <4> QED
        BY <1>9, <3>1, <4>2
    <3>3. \A f \in new : u.positions[f.symbol] # NoRow
      BY <1>7, <1>8, <1>9, <3>1
    <3> QED
      BY <3>2, <3>3 DEF NetTold
  <2>3. KeysTold(k + 1, u)
    BY <1>6, <1>9 DEF KeysTold, Tells
  <2> QED
    BY <1>2, <1>3, <1>4, <1>8, <1>9, <2>1, <2>2, <2>3 DEF Tells
<1>10. CASE e.type # "FILL"
  <2>1. new = old
    BY <1>10, NextReports
  <2>2. ~Unseen(t, e, k + 1)
    BY <1>10 DEF Unseen, IsFill
  <2> QED
    BY <1>9, <2>1, <2>2
<1>11. ASSUME NEW f \in Fills, e = ReportOf(f)
       PROVE  Tells(k + 1, u)
  <2>1. new = old \cup {f}
    BY <1>11, NextReports
  <2>2. /\ Unseen(t, e, k + 1) <=> f \notin old
        /\ FillRowOf(e, k + 1).key = f.id
    BY <1>11, UnseenIsUnreported DEF Tells
  <2>3. CASE f \in old
    BY <1>9, <2>1, <2>2, <2>3
  <2>4. CASE f \notin old
    <3> HIDE DEF u, new, old, e
    <3>1. f \in Fill /\ f.symbol \in Symbols
      BY FillsAreFills DEF Fill
    <3>2. e.order = f.order /\ e.qty = f.qty /\ e.symbol = f.symbol
          /\ SignedQuantity(e) = SignedQuantity(f)
      BY <1>11 DEF ReportOf, SignedQuantity
    <3>3. /\ IsFiniteSet(new)
          /\ \A o : /\ FilledQty(old, o) \in Int
                    /\ FilledQty(new, o) = FilledQty(old, o) + (IF f.order = o THEN f.qty ELSE 0)
          /\ \A s : /\ NetQty(old, s) \in Int
                    /\ NetQty(new, s) = NetQty(old, s)
                                          + (IF f.symbol = s THEN SignedQuantity(f) ELSE 0)
      BY <1>8, <2>1, <2>4, <3>1, OneFillMore
    <3>4. FilledTold(k + 1, u)
      <4>1. \A o \in Orders : Filled(t)[o] = FilledQty(old, o)
        BY DEF Tells, FilledTold, old
      <4>2. ASSUME NEW o \in Orders PROVE Filled(u)[o] = FilledQty(new, o)
        <5>1. Filled(u)[o] = Filled(t)[o] + (IF e.order = o THEN e.qty ELSE 0)
          BY <1>5, <2>2, <2>4
        <5>2. FilledQty(new, o) = FilledQty(old, o) + (IF e.order = o THEN e.qty ELSE 0)
          BY <3>2, <3>3
        <5> QED
          BY <4>1, <5>1, <5>2
      <4> QED
        BY <4>2 DEF FilledTold, new
    <3>5. NetTold(k + 1, u)
      <4>1. /\ \A s \in Symbols : Net(t)[s] = NetQty(old, s)
            /\ \A g \in old : t.positions[g.symbol] # NoRow
        BY DEF Tells, NetTold, old
      <4>2. ASSUME NEW s \in Symbols PROVE Net(u)[s] = NetQty(new, s)
        <5>1. Net(u)[s] = Net(t)[s] + (IF e.symbol = s THEN SignedQuantity(e) ELSE 0)
          BY <1>5, <2>2, <2>4
        <5>2. NetQty(new, s) = NetQty(old, s) + (IF e.symbol = s THEN SignedQuantity(e) ELSE 0)
          BY <3>2, <3>3
        <5> QED
          BY <4>1, <5>1, <5>2
      <4>3. \A g \in new : u.positions[g.symbol] # NoRow
        BY <1>7, <1>8, <2>1, <2>2, <2>4, <3>1, <3>2, <4>1
      <4> QED
        BY <4>2, <4>3 DEF NetTold, new
    <3>6. KeysTold(k + 1, u)
      <4>1. /\ \A g \in old : \E row \in t.fills : row.key = g.id
            /\ \A row \in t.fills : \E g \in old : row.key = g.id
        BY DEF Tells, KeysTold, old
      <4>2. u.fills = t.fills \cup {FillRowOf(e, k + 1)}
        BY <1>6, <2>2, <2>4
      <4>3. /\ \A g \in new : \E row \in u.fills : row.key = g.id
            /\ \A row \in u.fills : \E g \in new : row.key = g.id
        BY <2>1, <2>2, <4>1, <4>2
      <4> QED
        BY <4>3 DEF KeysTold, new
    <3> QED
      BY <1>2, <1>3, <1>4, <3>3, <3>4, <3>5, <3>6 DEF Tells, new
  <2> QED
    BY <2>3, <2>4
<1>12. CASE e.type = "FILL"
  <2>1. \E f \in Fills : e = ReportOf(f)
    <3>1. k + 1 \in 1..Len(ledger)
      BY DEF LedgerOfReports
    <3> QED
      BY <1>12, <3>1 DEF LedgerOfReports
  <2> QED
    BY <1>11, <2>1
<1> QED
  BY <1>10, <1>12

LEMMA TellsNothing ==
  ASSUME LedgerOfReports
  PROVE  Tells(0, EmptyTables)
<1>1. ReportedFills(0) = {}
  <2>1. 0 \in 0..Len(ledger)
    BY DEF LedgerOfReports
  <2> QED
    BY <2>1, ReportedIsInRows
<1>2. /\ \A o \in Orders : EventsOf(0, o) = {} /\ EmptyTables.orders[o] = NoRow
      /\ \A s \in Symbols : EmptyTables.positions[s] = NoRow
      /\ EmptyTables.fills = {}
  BY DEF EventsOf, EmptyTables
<1>3. FilledTold(0, EmptyTables)
  BY <1>1, <1>2, NoFillsNoSums DEF FilledTold, Filled
<1>4. NetTold(0, EmptyTables)
  BY <1>1, <1>2, NoFillsNoSums DEF NetTold, Net
<1>5. OrdersTold(0, EmptyTables)
  BY <1>2 DEF OrdersTold
<1>6. KeysTold(0, EmptyTables)
  BY <1>1, <1>2 DEF KeysTold
<1>7. EntryTold(0, EmptyTables)
  BY <1>1, NoFillsNoSums DEF EntryTold, EmptyTables, NoEntry
<1> QED
  BY <1>1, <1>3, <1>4, <1>5, <1>6, <1>7, EmptyTablesTyped, FS_EmptySet DEF Tells

(* A least prefix whose replay does not tell its fills would be one row    *)
(* longer than one whose replay does.                                      *)
LEMMA ReplayTells ==
  ASSUME LedgerOfReports
  PROVE  \A k \in 0..Len(ledger) : Tells(k, After(k))
<1> DEFINE Bad == {k \in 0..Len(ledger) : ~Tells(k, After(k))}
<1> SUFFICES ASSUME Bad # {} PROVE FALSE
  OBVIOUS
<1>0. Len(ledger) \in Nat
  BY DEF LedgerOfReports
<1>1. Bad \in SUBSET Nat
  OBVIOUS
<1>2. PICK k \in Bad : \A j \in Bad : k <= j
  BY <1>1, LeastOfNaturals
<1>3. k # 0
  <2>1. Tells(0, After(0))
    BY NoRows, TellsNothing
  <2> QED
    BY <1>2, <2>1
<1> DEFINE j == k - 1
<1>4. j \in Nat /\ j + 1 = k /\ j \in 0..Len(ledger) /\ ~(k <= j) /\ k <= Len(ledger)
  BY <1>0, <1>3
<1>5. Tells(j, After(j))
  BY <1>2, <1>4
<1> HIDE DEF j
<1>6. Tells(j + 1, After(j + 1))
  BY <1>4, <1>5, TellsStep, NextRow
<1>7. ~Tells(k, After(k))
  OBVIOUS
<1> QED
  BY <1>4, <1>6, <1>7

-----------------------------------------------------------------------------
(* Types of the command's state.  Beyond types: a ledger row that reports  *)
(* a fill is the report of one of the venue's.                             *)
CheckNames == {"stale", "orphan", "filled", "reduce_only", "missing", "duplicate", "drift"}

Running == {"base", "overlay", "orders", "fills", "positions", "compare", "act", "done"}

CommandState ==
  [pc : Running \cup {"idle"}, snap : GatewayStateSnapshot, begun : Nat, pass : {1, 2},
   local : Tables, sound : BOOLEAN, compared : Nat, step : Nat, resumed : BOOLEAN]

CommandTypeOK ==
  /\ LedgerOfReports
  /\ tables \in Tables
  /\ venue \in [open : SUBSET Orders, fills : SUBSET Fills] /\ IsFiniteSet(venue.fills)
  /\ artifact \in {"paper", "paused"}
  /\ rec \in CommandState

(* The executor's appends, as one step.                                    *)
ExecutorAppends(e) ==
  /\ e \in Event
  /\ e.type = "FILL" => \E f \in Fills : e = ReportOf(f)
  /\ ledger' = Append(ledger, e)
  /\ UNCHANGED <<tables, venue, artifact, rec, runs>>

LEMMA AppendsAreReports ==
  ASSUME CommandTypeOK
  PROVE  /\ \A o \in Orders : \A s \in Symbols, reduce \in {FALSE, (o \in ReduceOnly)} :
              ReportOrder(o, s, reduce) => \E e : ExecutorAppends(e)
         /\ \A f \in Fills : ReportFill(f) => \E e : ExecutorAppends(e)
         /\ \A s \in Symbols, p \in Prices \cup {NoPrice} :
              ReportAccount(s, p) => \E e : ExecutorAppends(e)
<1>1. ASSUME NEW o \in Orders, NEW s \in Symbols, NEW reduce \in {FALSE, (o \in ReduceOnly)},
             ReportOrder(o, s, reduce)
      PROVE  \E e : ExecutorAppends(e)
  <2> DEFINE e == [type |-> "ORDER", order |-> o, symbol |-> s, side |-> "BUY", qty |-> 1,
                   status |-> "ORDER_ACK", reduce |-> reduce]
  <2>1. reduce \in BOOLEAN
    <3> DEFINE flag == o \in ReduceOnly
    <3>1. flag \in BOOLEAN
      OBVIOUS
    <3>2. reduce \in {FALSE, flag}
      OBVIOUS
    <3> HIDE DEF flag
    <3> QED
      BY <3>1, <3>2
  <2>2. e \in Event
    BY <2>1, ReportsHaveStatuses DEF Event
  <2>3. e.type # "FILL"
    OBVIOUS
  <2>4. ExecutorAppends(e)
    BY <1>1, <2>2, <2>3 DEF ReportOrder, ExecutorAppends
  <2> QED
    BY <2>4
<1>2. ASSUME NEW f \in Fills, ReportFill(f)
      PROVE  \E e : ExecutorAppends(e)
  <2>1. f \in Fill
    BY FillsAreFills
  <2>2. ReportOf(f) \in Event
    BY <2>1, ReportsHaveStatuses DEF Event, Fill, ReportOf
  <2>3. ExecutorAppends(ReportOf(f))
    BY <1>2, <2>2 DEF ReportFill, ExecutorAppends, ReportOf
  <2> QED
    BY <2>3
<1>3. ASSUME NEW s \in Symbols, NEW p \in Prices \cup {NoPrice}, ReportAccount(s, p)
      PROVE  \E e : ExecutorAppends(e)
  <2> DEFINE e == [type |-> "SNAPSHOT", symbol |-> s, net |-> NetQty(venue.fills, s),
                   entry |-> p]
  <2>1. venue.fills \in SUBSET Fill /\ IsFiniteSet(venue.fills)
    BY FillsAreFills DEF CommandTypeOK
  <2>2. NetQty(venue.fills, s) \in Int
    BY <2>1, NetIsInt
  <2>3. e \in Event
    BY <2>2, PricesAreNats DEF Event
  <2>4. e.type # "FILL"
    OBVIOUS
  <2>5. ExecutorAppends(e)
    BY <1>3, <2>3, <2>4 DEF ReportAccount, ExecutorAppends
  <2> QED
    BY <2>5
<1> QED
  BY <1>1, <1>2, <1>3

(* The overlay, with its two columns named.                                *)
LastSnapshot(s) == ledger[Max(SnapshotEvents(ledger, s))]

NetOverlaid(t) ==
  [s \in Symbols |-> IF SnapshotEvents(ledger, s) # {} THEN LastSnapshot(s).net
                     ELSE t.positions[s]]

EntryOverlaid(t) ==
  [s \in Symbols |-> IF SnapshotEvents(ledger, s) # {} THEN EntryStated(LastSnapshot(s).entry)
                     ELSE t.entry[s]]

LEMMA OverlayTyped ==
  ASSUME LedgerOfReports, NEW t \in Tables
  PROVE  /\ Overlay(t, ledger) \in Tables
         /\ Overlay(t, ledger).orders = t.orders /\ Overlay(t, ledger).fills = t.fills
         /\ Overlay(t, ledger).positions = NetOverlaid(t)
         /\ Overlay(t, ledger).entry = EntryOverlaid(t)
         /\ \A s \in Symbols : SnapshotEvents(ledger, s) # {} =>
              Max(SnapshotEvents(ledger, s)) \in SnapshotEvents(ledger, s)
<1>1. ASSUME NEW s \in Symbols, SnapshotEvents(ledger, s) # {}
      PROVE  /\ Max(SnapshotEvents(ledger, s)) \in SnapshotEvents(ledger, s)
             /\ LastSnapshot(s).net \in Int
             /\ EntryStated(LastSnapshot(s).entry) \in Entry
  <2>1. SnapshotEvents(ledger, s) \in SUBSET (1..Len(ledger)) /\ Len(ledger) \in Nat
    BY DEF SnapshotEvents, LedgerOfReports
  <2>2. Max(SnapshotEvents(ledger, s)) \in SnapshotEvents(ledger, s)
    BY <1>1, <2>1, MaxIsIn
  <2>3. \A i \in SnapshotEvents(ledger, s) : ledger[i] \in Event /\ ledger[i].type = "SNAPSHOT"
    BY <2>1 DEF SnapshotEvents, LedgerOfReports
  <2>4. \A e \in Event : e.type = "SNAPSHOT" => e.net \in Int /\ e.entry \in Nat \cup {NoPrice}
    BY DEF Event
  <2>5. \A p \in Nat \cup {NoPrice} : EntryStated(p) \in Entry
    BY DEF EntryStated, NoEntry, Entry
  <2> QED
    BY <2>2, <2>3, <2>4, <2>5 DEF LastSnapshot
<1>2. NetOverlaid(t) \in [Symbols -> Int \cup {NoRow}] /\ EntryOverlaid(t) \in [Symbols -> Entry]
  BY <1>1 DEF Tables, NetOverlaid, EntryOverlaid
<1>3. Overlay(t, ledger) = [t EXCEPT !.positions = NetOverlaid(t), !.entry = EntryOverlaid(t)]
  BY DEF Overlay, NetOverlaid, EntryOverlaid, LastSnapshot
<1> DEFINE u == Overlay(t, ledger)
           p == NetOverlaid(t)
           q == EntryOverlaid(t)
<1>4. /\ p \in [Symbols -> Int \cup {NoRow}] /\ q \in [Symbols -> Entry]
      /\ u = [t EXCEPT !.positions = p, !.entry = q]
  BY <1>2, <1>3
<1> HIDE DEF u, p, q
<1>5. /\ u \in Tables /\ u.orders = t.orders /\ u.fills = t.fills
      /\ u.positions = p /\ u.entry = q
  BY <1>4 DEF Tables
<1> QED
  BY <1>1, <1>5, Zenon DEF u, p, q

LEMMA ReplayedTables ==
  ASSUME LedgerOfReports
  PROVE  /\ \A k \in 0..Len(ledger) : After(k) \in Tables
         /\ Replay(ledger) = After(Len(ledger)) /\ Replay(ledger) \in Tables
<1>1. \A k \in 0..Len(ledger) : After(k) \in Tables
  BY ReplayTells DEF Tells
<1>2. Replay(ledger) = After(Len(ledger))
  BY WholePrefix DEF After
<1> QED
  BY <1>1, <1>2 DEF LedgerOfReports

(* The checks that failed, by name.                                        *)
LEMMA BlockersMean ==
  ASSUME NEW l, NEW events, NEW snap, NEW told
  PROVE  LET c == Checks(l, events, snap, told) IN
         /\ Blockers(l, events, snap, told) \in SUBSET CheckNames
         /\ \A b \in CheckNames : b \in Blockers(l, events, snap, told) <=> c[b]
<1> DEFINE c == Checks(l, events, snap, told)
<1>1. DOMAIN c = CheckNames
  BY DEF Checks, CheckNames
<1>2. Blockers(l, events, snap, told) = {b \in DOMAIN c : c[b]}
  BY DEF Blockers
<1> HIDE DEF c
<1>3. Blockers(l, events, snap, told) = {b \in CheckNames : c[b]}
  BY <1>1, <1>2
<1>4. /\ Blockers(l, events, snap, told) \in SUBSET CheckNames
      /\ \A b \in CheckNames : b \in Blockers(l, events, snap, told) <=> c[b]
  BY <1>3
<1> QED
  BY <1>4 DEF c

LEMMA NoRunTyped == NoRun \in CommandState
<1>1. NoSnapshot \in GatewayStateSnapshot
  BY DEF NoSnapshot, GatewayStateSnapshot
<1> QED
  BY <1>1, EmptyTablesTyped DEF NoRun, CommandState, Running

LEMMA LedgerGrows ==
  ASSUME LedgerOfReports, NEW e, ExecutorAppends(e)
  PROVE  /\ LedgerOfReports'
         /\ Len(ledger') = Len(ledger) + 1
         /\ \A i \in 1..Len(ledger) : ledger'[i] = ledger[i]
         /\ \A k \in 0..Len(ledger) : SubSeq(ledger', 1, k) = SubSeq(ledger, 1, k)
<1>1. ledger \in Seq(Event) /\ e \in Event /\ ledger' = Append(ledger, e)
  BY DEF LedgerOfReports, ExecutorAppends
<1>2. /\ ledger' \in Seq(Event) /\ Len(ledger') = Len(ledger) + 1
      /\ \A i \in 1..Len(ledger) : ledger'[i] = ledger[i]
      /\ ledger'[Len(ledger) + 1] = e
  BY <1>1
<1>3. LedgerOfReports'
  <2>1. ASSUME NEW i \in 1..Len(ledger'), ledger'[i].type = "FILL"
        PROVE  \E f \in Fills : ledger'[i] = ReportOf(f)
    <3>1. CASE i \in 1..Len(ledger)
      BY <1>2, <2>1, <3>1 DEF LedgerOfReports
    <3>2. CASE i = Len(ledger) + 1
      BY <1>2, <2>1, <3>2 DEF ExecutorAppends
    <3> QED
      BY <1>1, <1>2, <3>1, <3>2
  <2> QED
    BY <1>2, <2>1 DEF LedgerOfReports, ReportOf
<1>4. ASSUME NEW k \in 0..Len(ledger)
      PROVE  SubSeq(ledger', 1, k) = SubSeq(ledger, 1, k)
  <2>1. k \in Nat /\ k <= Len(ledger) /\ k <= Len(ledger')
    BY <1>1, <1>2
  <2>2. SubSeq(ledger', 1, k) = [i \in 1..k |-> ledger'[i]]
    BY <1>2, <2>1
  <2>3. SubSeq(ledger, 1, k) = [i \in 1..k |-> ledger[i]]
    BY <1>1, <2>1
  <2>4. \A i \in 1..k : ledger'[i] = ledger[i]
    BY <1>1, <1>2, <2>1
  <2> QED
    BY <2>2, <2>3, <2>4
<1> QED
  BY <1>2, <1>3, <1>4

(* What each step of the command leaves its record as.                     *)
LEMMA CommandSteps ==
  ASSUME CommandTypeOK
  PROVE  /\ \A snap \in Snapshots(venue) : LoadSnapshot(snap) =>
              /\ rec' \in CommandState /\ rec'.pc = "base" /\ rec'.begun = Len(ledger)
              /\ rec'.step = 0 /\ rec'.compared = 0
         /\ RebuildBase => /\ rec' \in CommandState /\ rec'.pc = "overlay"
                           /\ rec'.begun = rec.begun /\ rec'.compared = rec.compared
         /\ RebuildOverlay => /\ rec' \in CommandState /\ rec'.pc \in {"base", "orders"}
                              /\ rec'.begun = rec.begun /\ rec'.compared = rec.compared
         /\ LoadOrders => /\ rec' \in CommandState /\ rec'.pc = "fills"
                          /\ rec'.begun = rec.begun /\ rec'.compared = rec.compared
                          /\ rec'.local.orders = tables.orders
         /\ LoadFills => /\ rec' \in CommandState /\ rec'.pc = "positions"
                         /\ rec'.begun = rec.begun /\ rec'.compared = rec.compared
                         /\ rec'.local.orders = rec.local.orders
                         /\ rec'.local.fills = tables.fills
         /\ LoadPositions => /\ rec' \in CommandState /\ rec'.pc = "compare"
                             /\ rec'.begun = rec.begun /\ rec'.compared = rec.compared
                             /\ rec'.local.orders = rec.local.orders
                             /\ rec'.local.fills = rec.local.fills
                             /\ rec'.local.positions = tables.positions
                             /\ rec'.local.entry = tables.entry
<1>1. tables \in Tables /\ rec \in CommandState /\ ledger \in Seq(Event)
  BY DEF CommandTypeOK, LedgerOfReports
<1>2. ASSUME NEW snap \in Snapshots(venue), LoadSnapshot(snap)
      PROVE  /\ rec' \in CommandState /\ rec'.pc = "base" /\ rec'.begun = Len(ledger)
             /\ rec'.step = 0 /\ rec'.compared = 0
  <2>1. snap \in GatewayStateSnapshot
    BY DEF Snapshots
  <2>2. rec' = [NoRun EXCEPT !.pc = "base", !.snap = snap, !.begun = Len(ledger)]
    BY <1>2 DEF LoadSnapshot
  <2> DEFINE n == Len(ledger)
  <2>5. n \in Nat
    BY <1>1
  <2>6. rec' = [NoRun EXCEPT !.pc = "base", !.snap = snap, !.begun = n]
    BY <2>2
  <2> HIDE DEF n
  <2>7. rec' \in CommandState /\ rec'.pc = "base" /\ rec'.begun = n
    BY <2>1, <2>5, <2>6, NoRunTyped DEF CommandState, Running
  <2>3. rec' \in CommandState /\ rec'.pc = "base" /\ rec'.begun = Len(ledger)
    BY <2>7 DEF n
  <2>4. rec'.step = 0 /\ rec'.compared = 0
    BY <2>2 DEF NoRun
  <2> QED
    BY <2>3, <2>4
<1>3. ASSUME RebuildBase
      PROVE  /\ rec' \in CommandState /\ rec'.pc = "overlay"
             /\ rec'.begun = rec.begun /\ rec'.compared = rec.compared
  BY <1>1, <1>3 DEF RebuildBase, CommandState, Running
<1>4. ASSUME RebuildOverlay
      PROVE  /\ rec' \in CommandState /\ rec'.pc \in {"base", "orders"}
             /\ rec'.begun = rec.begun /\ rec'.compared = rec.compared
  BY <1>1, <1>4 DEF RebuildOverlay, CommandState, Running
<1>5. ASSUME LoadOrders
      PROVE  /\ rec' \in CommandState /\ rec'.pc = "fills"
             /\ rec'.begun = rec.begun /\ rec'.compared = rec.compared
             /\ rec'.local.orders = tables.orders
  BY <1>1, <1>5 DEF LoadOrders, CommandState, Running, Tables
<1>6. ASSUME LoadFills
      PROVE  /\ rec' \in CommandState /\ rec'.pc = "positions"
             /\ rec'.begun = rec.begun /\ rec'.compared = rec.compared
             /\ rec'.local.orders = rec.local.orders /\ rec'.local.fills = tables.fills
  BY <1>1, <1>6 DEF LoadFills, CommandState, Running, Tables
<1>7. ASSUME LoadPositions
      PROVE  /\ rec' \in CommandState /\ rec'.pc = "compare"
             /\ rec'.begun = rec.begun /\ rec'.compared = rec.compared
             /\ rec'.local.orders = rec.local.orders /\ rec'.local.fills = rec.local.fills
             /\ rec'.local.positions = tables.positions /\ rec'.local.entry = tables.entry
  BY <1>1, <1>7 DEF LoadPositions, CommandState, Running, Tables
<1> QED
  BY <1>2, <1>3, <1>4, <1>5, <1>6, <1>7

LEMMA VerdictSteps ==
  ASSUME CommandTypeOK
  PROVE  /\ \A told \in Stated : Compare(told) =>
              LET found == Blockers(rec.local, ledger, rec.snap, told) IN
              /\ rec' \in CommandState /\ rec'.pc = (IF found = {} THEN "done" ELSE "act")
              /\ found # {} => rec'.sound = FileIsSound(rec.begun, rec.snap, told)
              /\ rec'.compared = Len(ledger)
              /\ rec'.begun = rec.begun /\ rec'.snap = rec.snap /\ rec'.step = rec.step
              /\ rec'.resumed = rec.resumed
         /\ Journal => /\ rec' \in CommandState /\ rec'.pc \in {"act", "done"}
                       /\ rec'.step = rec.step + 1 /\ rec'.begun = 0 /\ rec'.compared = 0
                       /\ rec'.resumed = (rec.step + 1 > 1 /\ rec.resumed)
         /\ Resume => /\ rec' \in CommandState /\ rec'.pc = rec.pc /\ rec'.snap = rec.snap
                      /\ rec'.begun = rec.begun /\ rec'.local = rec.local
                      /\ rec'.compared = rec.compared /\ rec'.sound = rec.sound
                      /\ rec'.step = rec.step /\ rec'.resumed = (rec.pc # "idle")
<1>1. tables \in Tables /\ rec \in CommandState /\ ledger \in Seq(Event)
  BY DEF CommandTypeOK, LedgerOfReports
<1>2. ASSUME NEW told \in Stated, Compare(told)
      PROVE  LET found == Blockers(rec.local, ledger, rec.snap, told) IN
             /\ rec' \in CommandState /\ rec'.pc = (IF found = {} THEN "done" ELSE "act")
             /\ found # {} => rec'.sound = FileIsSound(rec.begun, rec.snap, told)
             /\ rec'.compared = Len(ledger)
             /\ rec'.begun = rec.begun /\ rec'.snap = rec.snap /\ rec'.step = rec.step
             /\ rec'.resumed = rec.resumed
  <2> DEFINE found == Blockers(rec.local, ledger, rec.snap, told)
             n == Len(ledger)
             flag == FileIsSound(rec.begun, rec.snap, told)
  <2>1. rec' = IF found = {}
                 THEN [rec EXCEPT !.pc = "done", !.compared = n]
                 ELSE [rec EXCEPT !.pc = "act", !.compared = n, !.local = EmptyTables,
                                  !.sound = flag]
    BY <1>2 DEF Compare
  <2>2. n \in Nat /\ flag \in BOOLEAN
    BY <1>1 DEF FileIsSound
  <2> HIDE DEF found, n, flag
  <2>3. CASE found = {}
    <3>1. /\ rec' \in CommandState /\ rec'.pc = "done" /\ rec'.compared = n
          /\ rec'.begun = rec.begun /\ rec'.snap = rec.snap /\ rec'.step = rec.step
          /\ rec'.resumed = rec.resumed
      BY <1>1, <2>1, <2>2, <2>3 DEF CommandState, Running
    <3> QED
      BY <2>3, <3>1 DEF found, n
  <2>4. CASE found # {}
    <3>1. rec' = [rec EXCEPT !.pc = "act", !.compared = n, !.local = EmptyTables,
                             !.sound = flag]
      BY <2>1, <2>4
    <3>2. /\ rec' \in CommandState /\ rec'.pc = "act" /\ rec'.compared = n
          /\ rec'.begun = rec.begun /\ rec'.snap = rec.snap /\ rec'.step = rec.step
          /\ rec'.resumed = rec.resumed /\ rec'.sound = flag
      BY <1>1, <2>2, <3>1, EmptyTablesTyped DEF CommandState, Running
    <3> QED
      BY <2>4, <3>2 DEF found, n, flag
  <2> QED
    BY <2>3, <2>4
<1>3. ASSUME Journal
      PROVE  /\ rec' \in CommandState /\ rec'.pc \in {"act", "done"}
             /\ rec'.step = rec.step + 1 /\ rec'.begun = 0 /\ rec'.compared = 0
             /\ rec'.resumed = (rec.step + 1 > 1 /\ rec.resumed)
  <2> DEFINE i == rec.step + 1
             flag == i > 1 /\ rec.resumed
             next == IF i = Len(SafeActions) THEN "done" ELSE "act"
  <2>1. rec' = [NoRun EXCEPT !.step = i, !.resumed = flag, !.pc = next]
    BY <1>3 DEF Journal
  <2>2. flag \in BOOLEAN /\ next \in {"act", "done"}
    OBVIOUS
  <2>3. i \in Nat
    BY <1>1 DEF CommandState
  <2> HIDE DEF i, flag, next
  <2>4. rec' \in CommandState /\ rec'.pc = next /\ rec'.step = i /\ rec'.resumed = flag
    BY <2>1, <2>2, <2>3, NoRunTyped DEF CommandState, Running
  <2>5. rec'.begun = 0 /\ rec'.compared = 0
    BY <2>1 DEF NoRun
  <2> QED
    BY <2>2, <2>4, <2>5 DEF i, flag
<1>4. ASSUME Resume
      PROVE  /\ rec' \in CommandState /\ rec'.pc = rec.pc /\ rec'.snap = rec.snap
             /\ rec'.begun = rec.begun /\ rec'.local = rec.local
             /\ rec'.compared = rec.compared /\ rec'.sound = rec.sound
             /\ rec'.step = rec.step /\ rec'.resumed = (rec.pc # "idle")
  BY <1>1, <1>4 DEF Resume, CommandState
<1> QED
  BY <1>2, <1>3, <1>4

(* The steps by what they do to the ledger, the tables and the command.    *)
LEMMA StepKinds ==
  ASSUME CommandTypeOK, [ReconcileNext]_reconcileVars
  PROVE  \/ \E e : ExecutorAppends(e)
         \/ \E snap \in Snapshots(venue) : LoadSnapshot(snap)
         \/ RebuildBase \/ RebuildOverlay \/ LoadOrders \/ LoadFills \/ LoadPositions
         \/ \E told \in Stated : Compare(told)
         \/ Journal \/ OtherBase \/ OtherOverlay \/ Resume
         \/ UNCHANGED <<ledger, tables, artifact>> /\ rec' = NoRun
         \/ UNCHANGED <<ledger, tables, artifact, rec>>
<1>1. ASSUME NEW o \in Orders, NEW s \in Symbols, NEW reduce \in {FALSE, (o \in ReduceOnly)},
             ReportOrder(o, s, reduce)
      PROVE  \E e : ExecutorAppends(e)
  BY <1>1, AppendsAreReports, Zenon
<1>2. ASSUME NEW f \in Fills, ReportFill(f)
      PROVE  \E e : ExecutorAppends(e)
  BY <1>2, AppendsAreReports, Zenon
<1>3. ASSUME NEW s \in Symbols, NEW p \in Prices \cup {NoPrice}, ReportAccount(s, p)
      PROVE  \E e : ExecutorAppends(e)
  BY <1>3, AppendsAreReports, Zenon
<1>4. ASSUME Finish \/ Crash
      PROVE  UNCHANGED <<ledger, tables, artifact>> /\ rec' = NoRun
  BY <1>4 DEF Finish, Crash
<1>5. ASSUME NEW o \in Orders, VenueAccepts(o)
      PROVE  UNCHANGED <<ledger, tables, artifact, rec>>
  BY <1>5 DEF VenueAccepts
<1>6. ASSUME NEW f \in Fills, NEW closes \in BOOLEAN, VenueExecutes(f, closes)
      PROVE  UNCHANGED <<ledger, tables, artifact, rec>>
  BY <1>6 DEF VenueExecutes
<1>7. ASSUME UNCHANGED reconcileVars
      PROVE  UNCHANGED <<ledger, tables, artifact, rec>>
  BY <1>7 DEF reconcileVars
<1> QED
  BY <1>1, <1>2, <1>3, <1>4, <1>5, <1>6, <1>7, Zenon DEF ReconcileNext

(* The venue's fills stay finitely many and its own.                       *)
LEMMA VenueTyped ==
  ASSUME CommandTypeOK, [ReconcileNext]_reconcileVars
  PROVE  venue' \in [open : SUBSET Orders, fills : SUBSET Fills] /\ IsFiniteSet(venue'.fills)
<1>1. venue \in [open : SUBSET Orders, fills : SUBSET Fills] /\ IsFiniteSet(venue.fills)
  BY DEF CommandTypeOK
<1>2. ASSUME NEW o \in Orders, VenueAccepts(o)
      PROVE  venue' \in [open : SUBSET Orders, fills : SUBSET Fills] /\ IsFiniteSet(venue'.fills)
  BY <1>1, <1>2 DEF VenueAccepts
<1>3. ASSUME NEW f \in Fills, NEW closes \in BOOLEAN, VenueExecutes(f, closes)
      PROVE  venue' \in [open : SUBSET Orders, fills : SUBSET Fills] /\ IsFiniteSet(venue'.fills)
  <2>1. IsFiniteSet(venue.fills \cup {f})
    BY <1>1, FS_AddElement
  <2> QED
    BY <1>1, <1>3, <2>1 DEF VenueExecutes
<1>4. ASSUME UNCHANGED venue
      PROVE  venue' \in [open : SUBSET Orders, fills : SUBSET Fills] /\ IsFiniteSet(venue'.fills)
  BY <1>1, <1>4
<1> QED
  BY <1>2, <1>3, <1>4
  DEF ReconcileNext, reconcileVars, ReportOrder, ReportFill, ReportAccount, LoadSnapshot,
      RebuildBase, RebuildOverlay, LoadOrders, LoadFills, LoadPositions, Compare, Journal,
      Finish, Crash, OtherBase, OtherOverlay, Resume

LEMMA CommandTyped ==
  ASSUME CommandTypeOK, [ReconcileNext]_reconcileVars
  PROVE  CommandTypeOK'
<1>1. venue' \in [open : SUBSET Orders, fills : SUBSET Fills] /\ IsFiniteSet(venue'.fills)
  BY VenueTyped
<1>2. LedgerOfReports /\ tables \in Tables /\ artifact \in {"paper", "paused"}
      /\ rec \in CommandState
  BY DEF CommandTypeOK
<1>3. ASSUME LedgerOfReports', tables' \in Tables, artifact' \in {"paper", "paused"},
             rec' \in CommandState
      PROVE  CommandTypeOK'
  BY <1>1, <1>3 DEF CommandTypeOK
<1>4. ASSUME UNCHANGED ledger
      PROVE  LedgerOfReports'
  BY <1>2, <1>4 DEF LedgerOfReports, ReportOf
<1> HIDE DEF LedgerOfReports
<1>5. ASSUME NEW e, ExecutorAppends(e)
      PROVE  CommandTypeOK'
  <2>1. LedgerOfReports'
    BY <1>2, <1>5, LedgerGrows, Zenon
  <2> QED
    BY <1>2, <1>3, <1>5, <2>1 DEF ExecutorAppends
<1>6. ASSUME UNCHANGED <<ledger, tables, artifact>>, rec' \in CommandState
      PROVE  CommandTypeOK'
  BY <1>2, <1>3, <1>4, <1>6
<1>7. CASE RebuildBase \/ OtherBase
  <2>1. tables' \in Tables
    BY <1>2, <1>7, ReplayedTables DEF RebuildBase, OtherBase
  <2>2. rec' \in CommandState
    BY <1>2, <1>7, CommandSteps DEF OtherBase
  <2>3. UNCHANGED <<ledger, artifact>>
    BY <1>7 DEF RebuildBase, OtherBase
  <2> QED
    BY <1>2, <1>3, <1>4, <2>1, <2>2, <2>3
<1>8. CASE RebuildOverlay \/ OtherOverlay
  <2>1. tables' \in Tables
    BY <1>2, <1>8, OverlayTyped DEF RebuildOverlay, OtherOverlay
  <2>2. rec' \in CommandState
    BY <1>2, <1>8, CommandSteps DEF OtherOverlay
  <2>3. UNCHANGED <<ledger, artifact>>
    BY <1>8 DEF RebuildOverlay, OtherOverlay
  <2> QED
    BY <1>2, <1>3, <1>4, <2>1, <2>2, <2>3
<1>9. ASSUME NEW snap \in Snapshots(venue), LoadSnapshot(snap)
      PROVE  CommandTypeOK'
  <2>1. rec' \in CommandState
    BY <1>9, CommandSteps
  <2> QED
    BY <1>6, <1>9, <2>1 DEF LoadSnapshot
<1>10. CASE LoadOrders \/ LoadFills \/ LoadPositions
  <2>1. rec' \in CommandState
    BY <1>10, CommandSteps
  <2> QED
    BY <1>6, <1>10, <2>1 DEF LoadOrders, LoadFills, LoadPositions
<1>11. ASSUME NEW told \in Stated, Compare(told)
       PROVE  CommandTypeOK'
  <2>1. rec' \in CommandState
    BY <1>11, VerdictSteps
  <2> QED
    BY <1>6, <1>11, <2>1 DEF Compare
<1>12. CASE Journal
  <2>1. rec' \in CommandState
    BY <1>12, VerdictSteps
  <2>2. artifact' \in {"paper", "paused"} /\ UNCHANGED <<ledger, tables>>
    BY <1>2, <1>12 DEF Journal
  <2> QED
    BY <1>2, <1>3, <1>4, <2>1, <2>2
<1>13. CASE Resume
  <2>1. rec' \in CommandState
    BY <1>13, VerdictSteps
  <2>2. artifact' \in {"paper", "paused"} /\ UNCHANGED <<ledger, tables>>
    BY <1>13 DEF Resume
  <2> QED
    BY <1>2, <1>3, <1>4, <2>1, <2>2
<1>14. CASE UNCHANGED <<ledger, tables, artifact>> /\ rec' = NoRun
  BY <1>6, <1>14, NoRunTyped
<1>15. CASE UNCHANGED <<ledger, tables, artifact, rec>>
  BY <1>2, <1>6, <1>15
<1> QED
  BY StepKinds, <1>5, <1>7, <1>8, <1>9, <1>10, <1>11, <1>12, <1>13, <1>14, <1>15

(* Whatever the venue, the executor, the other runs and the operators do,  *)
(* the command's state keeps its types and the ledger's fill rows remain   *)
(* reports of the venue's fills.                                           *)
LEMMA CommandTypeCorrect == ReconcileSpec => []CommandTypeOK
<1>1. ReconcileInit => CommandTypeOK
  <2> SUFFICES ASSUME ReconcileInit PROVE CommandTypeOK
    OBVIOUS
  <2>1. ledger = <<>> /\ tables = EmptyTables /\ venue = [open |-> {}, fills |-> {}]
        /\ artifact \in {"paper", "paused"} /\ rec = NoRun
    BY DEF ReconcileInit
  <2>2. LedgerOfReports
    BY <2>1 DEF LedgerOfReports
  <2>3. venue \in [open : SUBSET Orders, fills : SUBSET Fills] /\ IsFiniteSet(venue.fills)
    BY <2>1, FS_EmptySet
  <2> QED
    BY <2>1, <2>2, <2>3, EmptyTablesTyped, NoRunTyped DEF CommandTypeOK
<1>2. CommandTypeOK /\ [ReconcileNext]_reconcileVars => CommandTypeOK'
  BY CommandTyped
<1> QED
  BY <1>1, <1>2, PTL DEF ReconcileSpec

-----------------------------------------------------------------------------
(* Whatever was journaled since the pause, the artifact is paused or an    *)
(* operator resumed it, and an idle command has journaled nothing.         *)
PausedSinceJournal ==
  /\ rec.pc = "idle" => rec.step = 0
  /\ rec.step # 0 => artifact = "paused" \/ rec.resumed

LEMMA PausedHolds ==
  ASSUME CommandTypeOK, PausedSinceJournal, [ReconcileNext]_reconcileVars
  PROVE  PausedSinceJournal'
<1>1. rec.step \in Nat /\ rec.pc \in Running \cup {"idle"}
  BY DEF CommandTypeOK, CommandState
<1>2. ASSUME rec' = NoRun
      PROVE  PausedSinceJournal'
  BY <1>2 DEF NoRun, PausedSinceJournal
<1>3. ASSUME UNCHANGED <<artifact, rec>>
      PROVE  PausedSinceJournal'
  BY <1>3 DEF PausedSinceJournal
<1>4. ASSUME artifact' = artifact, rec'.step = rec.step, rec'.resumed = rec.resumed,
             rec'.pc # "idle"
      PROVE  PausedSinceJournal'
  BY <1>4 DEF PausedSinceJournal
<1>5. CASE RebuildBase \/ RebuildOverlay \/ LoadOrders \/ LoadFills \/ LoadPositions
  <2>1. artifact' = artifact /\ rec'.step = rec.step /\ rec'.resumed = rec.resumed
        /\ rec'.pc # "idle"
    <3>1. rec \in CommandState
      BY DEF CommandTypeOK
    <3>2. CASE RebuildBase \/ RebuildOverlay
      BY <3>1, <3>2 DEF RebuildBase, RebuildOverlay, CommandState
    <3>3. CASE LoadOrders
      BY <3>1, <3>3 DEF LoadOrders, CommandState
    <3>4. CASE LoadFills
      BY <3>1, <3>4 DEF LoadFills, CommandState
    <3>5. CASE LoadPositions
      BY <3>1, <3>5 DEF LoadPositions, CommandState
    <3> QED
      BY <1>5, <3>2, <3>3, <3>4, <3>5
  <2> QED
    BY <2>1, <1>4
<1>6. ASSUME NEW snap \in Snapshots(venue), LoadSnapshot(snap)
      PROVE  PausedSinceJournal'
  BY <1>6, CommandSteps DEF PausedSinceJournal
<1>7. ASSUME NEW told \in Stated, Compare(told)
      PROVE  PausedSinceJournal'
  <2>1. artifact' = artifact
    BY <1>7 DEF Compare
  <2> QED
    BY <1>4, <1>7, <2>1, VerdictSteps
<1>8. CASE Journal
  <2>1. /\ artifact' = IF SafeActions[rec.step + 1] = "pause_artifact" THEN "paused" ELSE artifact
        /\ rec'.resumed = (rec.step + 1 > 1 /\ rec.resumed) /\ rec'.pc # "idle"
    BY <1>8, VerdictSteps DEF Journal
  <2>2. CASE rec.step = 0
    <3>1. SafeActions[1] = "pause_artifact"
      BY DEF SafeActions
    <3>2. artifact' = "paused"
      BY <2>1, <2>2, <3>1
    <3> QED
      BY <2>1, <3>2 DEF PausedSinceJournal
  <2>3. CASE rec.step # 0
    <3>1. rec.step + 1 > 1
      BY <1>1, <2>3
    <3> QED
      BY <2>1, <2>3, <3>1 DEF PausedSinceJournal
  <2> QED
    BY <2>2, <2>3
<1>9. CASE Resume
  BY <1>9, VerdictSteps DEF PausedSinceJournal
<1>10. ASSUME NEW e, ExecutorAppends(e)
       PROVE  PausedSinceJournal'
  BY <1>3, <1>10 DEF ExecutorAppends
<1>11. CASE OtherBase \/ OtherOverlay
  BY <1>3, <1>11 DEF OtherBase, OtherOverlay
<1> QED
  BY StepKinds, <1>2, <1>3, <1>5, <1>6, <1>7, <1>8, <1>9, <1>10, <1>11

(* A report that says "blocked" leaves the artifact paused unless an       *)
(* operator resumed it (_journal_safe_actions, _apply_override_db_effect). *)
(* The property speaks of the finished report only; the invariant holds    *)
(* from the first journaled action on.                                     *)
THEOREM BlockedAlwaysPauses == ReconcileSpec => []BlockedIsPaused
<1>1. ReconcileInit => PausedSinceJournal
  BY DEF ReconcileInit, PausedSinceJournal, NoRun
<1>2. CommandTypeOK /\ PausedSinceJournal /\ [ReconcileNext]_reconcileVars => PausedSinceJournal'
  BY PausedHolds
<1>3. PausedSinceJournal => BlockedIsPaused
  BY DEF PausedSinceJournal, BlockedIsPaused, Matched
<1> QED
  BY <1>1, <1>2, <1>3, CommandTypeCorrect, PTL DEF ReconcileSpec

-----------------------------------------------------------------------------
(* Where the tables and what the command read of them come from: each of   *)
(* the orders and the fills from one replay of the ledger since the        *)
(* command began, not necessarily the same one.  The positions come from a *)
(* replay, or from the overlay, and only matter while nobody appends.      *)
Told(rows, k) == Replay(SubSeq(rows, 1, k))

OrdersFrom(rows, n, x) == \E k \in n..Len(rows) : x = Told(rows, k).orders

FillsFrom(rows, n, x) == \E k \in n..Len(rows) : x = Told(rows, k).fills

SamePositions(x, y) == x.positions = y.positions /\ x.entry = y.entry

PositionsFrom(rows, n, x) ==
  Len(rows) = n => \/ SamePositions(x, Replay(rows))
                   \/ SamePositions(x, Overlay(Replay(rows), rows))

TablesFrom(rows, n, t) ==
  OrdersFrom(rows, n, t.orders) /\ FillsFrom(rows, n, t.fills) /\ PositionsFrom(rows, n, t)

ReadsFrom(rows, t, r) ==
  /\ r.begun \in 0..Len(rows) /\ r.compared \in 0..Len(rows)
  /\ r.pc \in {"overlay", "orders", "fills", "positions"} => TablesFrom(rows, r.begun, t)
  /\ r.pc \in {"fills", "positions", "compare"} => OrdersFrom(rows, r.begun, r.local.orders)
  /\ r.pc \in {"positions", "compare"} => FillsFrom(rows, r.begun, r.local.fills)
  /\ r.pc = "compare" => PositionsFrom(rows, r.begun, r.local)

ReadsHold == ReadsFrom(ledger, tables, rec)

LEMMA ToldIsAfter ==
  ASSUME NEW k
  PROVE  Told(ledger, k) = After(k)
BY DEF Told, After, Prefix

(* A replay of the ledger as it is, and its overlay.                       *)
LEMMA FreshTables ==
  ASSUME LedgerOfReports, NEW n \in 0..Len(ledger)
  PROVE  TablesFrom(ledger, n, Replay(ledger))
<1>1. Len(ledger) \in n..Len(ledger)
  BY DEF LedgerOfReports
<1>2. Replay(ledger) = Told(ledger, Len(ledger))
  BY ToldIsAfter, ReplayedTables
<1>3. OrdersFrom(ledger, n, Replay(ledger).orders) /\ FillsFrom(ledger, n, Replay(ledger).fills)
  BY <1>1, <1>2, Zenon DEF OrdersFrom, FillsFrom
<1>4. PositionsFrom(ledger, n, Replay(ledger))
  BY DEF PositionsFrom, SamePositions
<1> QED
  BY <1>3, <1>4 DEF TablesFrom

LEMMA OverlaidTables ==
  ASSUME LedgerOfReports, NEW n \in 0..Len(ledger), NEW t \in Tables, TablesFrom(ledger, n, t)
  PROVE  TablesFrom(ledger, n, Overlay(t, ledger))
<1> DEFINE u == Overlay(t, ledger)
           base == Replay(ledger)
<1>1. u.orders = t.orders /\ u.fills = t.fills
  BY OverlayTyped
<1>2. base \in Tables /\ t \in Tables
  BY ReplayedTables
<1>3. ASSUME Len(ledger) = n
      PROVE  SamePositions(u, Overlay(base, ledger))
  <2>1. SamePositions(t, base) \/ SamePositions(t, Overlay(base, ledger))
    BY <1>3 DEF TablesFrom, PositionsFrom
  <2>2. ASSUME NEW v \in Tables
        PROVE  /\ Overlay(v, ledger).positions = NetOverlaid(v)
               /\ Overlay(v, ledger).entry = EntryOverlaid(v)
    BY OverlayTyped
  <2> HIDE DEF u, base
  <2>3. NetOverlaid(t) = NetOverlaid(base) /\ EntryOverlaid(t) = EntryOverlaid(base)
    <3>1. CASE SamePositions(t, base)
      BY <3>1 DEF SamePositions, NetOverlaid, EntryOverlaid
    <3>2. CASE SamePositions(t, Overlay(base, ledger))
      <4>1. t.positions = NetOverlaid(base) /\ t.entry = EntryOverlaid(base)
        BY <1>2, <2>2, <3>2 DEF SamePositions
      <4> QED
        BY <4>1 DEF NetOverlaid, EntryOverlaid
    <3> QED
      BY <2>1, <3>1, <3>2
  <2> QED
    BY <1>2, <2>2, <2>3 DEF SamePositions, u
<1>4. PositionsFrom(ledger, n, u)
  BY <1>3 DEF PositionsFrom
<1> HIDE DEF u
<1> QED
  BY <1>1, <1>4 DEF TablesFrom, u

(* A row more leaves the earlier replays what they were.                   *)
LEMMA FromGrows ==
  ASSUME LedgerOfReports, NEW e, ExecutorAppends(e), NEW n \in 0..Len(ledger), NEW x
  PROVE  /\ OrdersFrom(ledger, n, x) => OrdersFrom(ledger', n, x)
         /\ FillsFrom(ledger, n, x) => FillsFrom(ledger', n, x)
         /\ PositionsFrom(ledger', n, x)
<1>1. /\ Len(ledger') = Len(ledger) + 1 /\ Len(ledger) \in Nat
      /\ \A k \in 0..Len(ledger) : SubSeq(ledger', 1, k) = SubSeq(ledger, 1, k)
  <2>1. Len(ledger) \in Nat
    BY DEF LedgerOfReports
  <2> QED
    BY <2>1, LedgerGrows, Zenon
<1>2. \A k \in n..Len(ledger) : k \in 0..Len(ledger) /\ k \in n..Len(ledger')
  BY <1>1
<1>3. \A k \in n..Len(ledger) : Told(ledger', k) = Told(ledger, k)
  BY <1>1, <1>2, Zenon DEF Told
<1>4. OrdersFrom(ledger, n, x) => OrdersFrom(ledger', n, x)
  <2> SUFFICES ASSUME OrdersFrom(ledger, n, x) PROVE OrdersFrom(ledger', n, x)
    OBVIOUS
  <2>1. PICK k \in n..Len(ledger) : x = Told(ledger, k).orders
    BY DEF OrdersFrom
  <2>2. k \in n..Len(ledger') /\ x = Told(ledger', k).orders
    BY <1>2, <1>3, <2>1
  <2> QED
    BY <2>2 DEF OrdersFrom
<1>5. FillsFrom(ledger, n, x) => FillsFrom(ledger', n, x)
  <2> SUFFICES ASSUME FillsFrom(ledger, n, x) PROVE FillsFrom(ledger', n, x)
    OBVIOUS
  <2>1. PICK k \in n..Len(ledger) : x = Told(ledger, k).fills
    BY DEF FillsFrom
  <2>2. k \in n..Len(ledger') /\ x = Told(ledger', k).fills
    BY <1>2, <1>3, <2>1
  <2> QED
    BY <2>2 DEF FillsFrom
<1>6. PositionsFrom(ledger', n, x)
  BY <1>1 DEF PositionsFrom
<1> QED
  BY <1>4, <1>5, <1>6

LEMMA ReadsStep ==
  ASSUME CommandTypeOK, ReadsHold, [ReconcileNext]_reconcileVars
  PROVE  ReadsHold'
<1>1. LedgerOfReports /\ tables \in Tables /\ rec \in CommandState /\ Len(ledger) \in Nat
  BY DEF CommandTypeOK, LedgerOfReports
<1>2. rec.begun \in 0..Len(ledger) /\ rec.compared \in 0..Len(ledger)
  BY DEF ReadsHold, ReadsFrom
<1>3. ASSUME NEW e, ExecutorAppends(e)
      PROVE  ReadsHold'
  <2>1. Len(ledger') = Len(ledger) + 1
    BY <1>1, <1>3, LedgerGrows, Zenon
  <2>2. rec' = rec /\ tables' = tables
    BY <1>3 DEF ExecutorAppends
  <2>3. ASSUME NEW x
        PROVE  /\ OrdersFrom(ledger, rec.begun, x) => OrdersFrom(ledger', rec.begun, x)
               /\ FillsFrom(ledger, rec.begun, x) => FillsFrom(ledger', rec.begun, x)
               /\ PositionsFrom(ledger', rec.begun, x)
    BY <1>1, <1>2, <1>3, FromGrows, Zenon
  <2>4. rec.begun \in 0..Len(ledger') /\ rec.compared \in 0..Len(ledger')
    BY <1>1, <1>2, <2>1
  <2>5. ReadsFrom(ledger', tables, rec)
    BY <2>3, <2>4 DEF ReadsHold, ReadsFrom, TablesFrom
  <2> QED
    BY <2>2, <2>5 DEF ReadsHold
<1>4. ASSUME NEW snap \in Snapshots(venue), LoadSnapshot(snap)
      PROVE  ReadsHold'
  <2>1. /\ rec'.pc = "base" /\ rec'.begun = Len(ledger) /\ rec'.compared = 0 /\ ledger' = ledger
    BY <1>4, CommandSteps DEF LoadSnapshot
  <2> QED
    BY <1>1, <2>1 DEF ReadsHold, ReadsFrom
<1>5. TablesFrom(ledger, rec.begun, Replay(ledger))
  BY <1>1, <1>2, FreshTables
<1>6. CASE RebuildBase
  <2>1. /\ rec'.pc = "overlay" /\ rec'.begun = rec.begun /\ rec'.compared = rec.compared
        /\ ledger' = ledger /\ tables' = Replay(ledger)
    BY <1>6, CommandSteps DEF RebuildBase
  <2> QED
    BY <1>2, <1>5, <2>1 DEF ReadsHold, ReadsFrom
<1>7. CASE RebuildOverlay
  <2>1. /\ rec.pc = "overlay" /\ rec'.pc \in {"base", "orders"}
        /\ rec'.begun = rec.begun /\ rec'.compared = rec.compared
        /\ ledger' = ledger /\ tables' = Overlay(tables, ledger)
    BY <1>7, CommandSteps DEF RebuildOverlay
  <2>2. TablesFrom(ledger, rec.begun, tables)
    BY <2>1 DEF ReadsHold, ReadsFrom
  <2>3. TablesFrom(ledger, rec.begun, Overlay(tables, ledger))
    BY <1>1, <1>2, <2>2, OverlaidTables
  <2> QED
    BY <1>2, <2>1, <2>3 DEF ReadsHold, ReadsFrom
<1>8. CASE LoadOrders
  <2>1. /\ rec.pc = "orders" /\ rec'.pc = "fills"
        /\ rec'.begun = rec.begun /\ rec'.compared = rec.compared
        /\ rec'.local.orders = tables.orders /\ ledger' = ledger /\ tables' = tables
    BY <1>8, CommandSteps DEF LoadOrders
  <2> QED
    BY <1>2, <2>1 DEF ReadsHold, ReadsFrom, TablesFrom
<1>9. CASE LoadFills
  <2>1. /\ rec.pc = "fills" /\ rec'.pc = "positions"
        /\ rec'.begun = rec.begun /\ rec'.compared = rec.compared
        /\ rec'.local.orders = rec.local.orders /\ rec'.local.fills = tables.fills
        /\ ledger' = ledger /\ tables' = tables
    BY <1>9, CommandSteps DEF LoadFills
  <2> QED
    BY <1>2, <2>1 DEF ReadsHold, ReadsFrom, TablesFrom
<1>10. CASE LoadPositions
  <2>1. /\ rec.pc = "positions" /\ rec'.pc = "compare"
        /\ rec'.begun = rec.begun /\ rec'.compared = rec.compared
        /\ rec'.local.orders = rec.local.orders /\ rec'.local.fills = rec.local.fills
        /\ rec'.local.positions = tables.positions /\ rec'.local.entry = tables.entry
        /\ ledger' = ledger /\ tables' = tables
    BY <1>10, CommandSteps DEF LoadPositions
  <2>2. PositionsFrom(ledger, rec.begun, tables) => PositionsFrom(ledger, rec.begun, rec'.local)
    BY <2>1 DEF PositionsFrom, SamePositions
  <2> QED
    BY <1>2, <2>1, <2>2 DEF ReadsHold, ReadsFrom, TablesFrom
<1>11. ASSUME NEW told \in Stated, Compare(told)
       PROVE  ReadsHold'
  <2>1. /\ rec'.pc \in {"done", "act"} /\ rec'.begun = rec.begun /\ rec'.compared = Len(ledger)
        /\ ledger' = ledger
    BY <1>11, VerdictSteps DEF Compare
  <2> QED
    BY <1>1, <1>2, <2>1 DEF ReadsHold, ReadsFrom
<1>12. CASE Journal
  <2>1. /\ rec'.pc \in {"done", "act"} /\ rec'.begun = 0 /\ rec'.compared = 0 /\ ledger' = ledger
    BY <1>12, VerdictSteps DEF Journal
  <2> QED
    BY <1>1, <2>1 DEF ReadsHold, ReadsFrom
<1>13. CASE Resume
  <2>1. /\ rec'.pc = rec.pc /\ rec'.begun = rec.begun /\ rec'.compared = rec.compared
        /\ rec'.local = rec.local /\ ledger' = ledger /\ tables' = tables
    BY <1>13, VerdictSteps DEF Resume
  <2> QED
    BY <2>1 DEF ReadsHold, ReadsFrom
<1>14. CASE OtherBase
  <2>1. rec' = rec /\ ledger' = ledger /\ tables' = Replay(ledger)
    BY <1>14 DEF OtherBase
  <2>2. ReadsFrom(ledger, Replay(ledger), rec)
    BY <1>5 DEF ReadsHold, ReadsFrom
  <2> QED
    BY <2>1, <2>2 DEF ReadsHold
<1>15. CASE OtherOverlay
  <2>1. /\ rec' = rec /\ ledger' = ledger /\ tables' = Overlay(tables, ledger)
        /\ rec.pc \in {"overlay", "orders", "fills", "positions"}
    BY <1>15, Zenon DEF OtherOverlay, Exposed
  <2>2. TablesFrom(ledger, rec.begun, tables)
    BY <2>1 DEF ReadsHold, ReadsFrom
  <2>3. TablesFrom(ledger, rec.begun, Overlay(tables, ledger))
    BY <1>1, <1>2, <2>2, OverlaidTables
  <2>4. ReadsFrom(ledger, Overlay(tables, ledger), rec)
    BY <2>3 DEF ReadsHold, ReadsFrom
  <2> QED
    BY <2>1, <2>4 DEF ReadsHold
<1>16. CASE UNCHANGED <<ledger, tables, artifact>> /\ rec' = NoRun
  <2>1. rec'.pc = "idle" /\ rec'.begun = 0 /\ rec'.compared = 0 /\ ledger' = ledger
    BY <1>16 DEF NoRun
  <2> QED
    BY <1>1, <2>1 DEF ReadsHold, ReadsFrom
<1>17. CASE UNCHANGED <<ledger, tables, artifact, rec>>
  BY <1>17 DEF ReadsHold
<1> QED
  BY StepKinds, <1>3, <1>4, <1>6, <1>7, <1>8, <1>9, <1>10, <1>11, <1>12, <1>13, <1>14, <1>15,
     <1>16, <1>17

-----------------------------------------------------------------------------
(* The verdict, over given rows and a given state of the command.          *)
ReportedIn(rows, k) == {f \in Fills : ReportsOf(SubSeq(rows, 1, k), f.id) # {}}

EventsIn(rows, k, o) == {i \in 1..k : rows[i].type \in {"ORDER", "FILL"} /\ rows[i].order = o}

TrueMatch(rows, r) ==
  /\ r.snap.fills \subseteq ReportedIn(rows, Len(rows))
  /\ ~DuplicatesIn(SubSeq(rows, 1, r.compared))
  /\ \E n \in r.begun..Len(rows) : \A o \in r.snap.open :
       /\ EventsIn(rows, n, o) # {}
       /\ FilledQty(ReportedIn(rows, n), o) = FilledQty(r.snap.fills, o)

Complete(rows, n, snap) ==
  /\ ReportedIn(rows, n) = snap.fills
  /\ ~DuplicatesIn(SubSeq(rows, 1, n))
  /\ \A o \in snap.open : /\ EventsIn(rows, n, o) # {}
                           /\ rows[Max(EventsIn(rows, n, o))].reduce = (o \in ReduceOnly)
  /\ \A s \in Symbols : \A i \in SnapshotEvents(SubSeq(rows, 1, n), s) :
       i = Max(SnapshotEvents(SubSeq(rows, 1, n), s)) => rows[i].net = NetQty(snap.fills, s)
  /\ \A s \in snap.listed : \E f \in snap.fills : f.symbol = s

Verdict(rows, r) ==
  /\ r.pc = "done" /\ r.step = 0 => TrueMatch(rows, r)
  /\ r.pc = "act" /\ r.step = 0 /\ r.compared = r.begun /\ r.sound
       => ~Complete(rows, r.begun, r.snap)

LEMMA VerdictMeans ==
  Verdict(ledger, rec) <=> MatchedIsTrue /\ CompleteLedgerMatches
<1>1. \A k : ReportedIn(ledger, k) = ReportedFills(k)
  BY DEF ReportedIn, ReportedFills, Prefix
<1>2. \A k, o : EventsIn(ledger, k, o) = EventsOf(k, o)
  BY DEF EventsIn, EventsOf
<1>3. TrueMatch(ledger, rec) <=>
        LET snap == rec.snap IN
        /\ snap.fills \subseteq ReportedFills(Len(ledger))
        /\ ~DuplicatesIn(Prefix(rec.compared))
        /\ \E n \in rec.begun..Len(ledger) : \A o \in snap.open :
             /\ EventsOf(n, o) # {}
             /\ FilledQty(ReportedFills(n), o) = FilledQty(snap.fills, o)
  BY <1>1, <1>2 DEF TrueMatch, Prefix
<1>4. Complete(ledger, rec.begun, rec.snap) <=> LedgerComplete(rec.begun, rec.snap)
  BY <1>1, <1>2 DEF Complete, LedgerComplete, Prefix
<1> QED
  BY <1>3, <1>4, Zenon DEF Verdict, MatchedIsTrue, CompleteLedgerMatches, Matched, Halting

(* A row appended after the verdict leaves it true.                        *)
LEMMA VerdictGrows ==
  ASSUME CommandTypeOK, NEW e, ExecutorAppends(e), NEW r \in CommandState,
         r.begun \in 0..Len(ledger), r.compared \in 0..Len(ledger), Verdict(ledger, r)
  PROVE  Verdict(ledger', r)
<1>1. LedgerOfReports /\ Len(ledger) \in Nat
  BY DEF CommandTypeOK, LedgerOfReports
<1>2. /\ LedgerOfReports'
      /\ Len(ledger') = Len(ledger) + 1
      /\ \A i \in 1..Len(ledger) : ledger'[i] = ledger[i]
      /\ \A k \in 0..Len(ledger) : SubSeq(ledger', 1, k) = SubSeq(ledger, 1, k)
  BY <1>1, LedgerGrows, Zenon
<1>3. \A k \in 0..Len(ledger) : ReportedIn(ledger', k) = ReportedIn(ledger, k)
  BY <1>2, Zenon DEF ReportedIn
<1>4. ASSUME NEW k \in 0..Len(ledger), NEW o
      PROVE  EventsIn(ledger', k, o) = EventsIn(ledger, k, o)
  BY <1>1, <1>2 DEF EventsIn
<1>5. ReportedIn(ledger, Len(ledger)) \subseteq ReportedIn(ledger', Len(ledger'))
  <2>1. RowsOfReports(ledger) /\ RowsOfReports(ledger')
    BY <1>1, <1>2 DEF LedgerOfReports, RowsOfReports, ReportOf
  <2>2. Len(ledger) \in 0..Len(ledger) /\ Len(ledger') \in 0..Len(ledger')
        /\ \A i \in 1..Len(ledger) : i \in 1..Len(ledger')
    BY <1>1, <1>2
  <2>3. ReportedIn(ledger, Len(ledger))
          = {f \in Fills : \E i \in 1..Len(ledger) : ledger[i] = ReportOf(f)}
    BY <2>1, <2>2, ReportedInRows, Zenon DEF ReportedIn
  <2>4. ReportedIn(ledger', Len(ledger'))
          = {f \in Fills : \E i \in 1..Len(ledger') : ledger'[i] = ReportOf(f)}
    BY <2>1, <2>2, ReportedInRows, Zenon DEF ReportedIn
  <2> QED
    BY <1>2, <2>2, <2>3, <2>4
<1>6. TrueMatch(ledger, r) => TrueMatch(ledger', r)
  <2> SUFFICES ASSUME TrueMatch(ledger, r) PROVE TrueMatch(ledger', r)
    OBVIOUS
  <2>1. r.snap.fills \subseteq ReportedIn(ledger', Len(ledger'))
    BY <1>5 DEF TrueMatch
  <2>2. ~DuplicatesIn(SubSeq(ledger', 1, r.compared))
    BY <1>2 DEF TrueMatch
  <2>3. PICK n \in r.begun..Len(ledger) : \A o \in r.snap.open :
          /\ EventsIn(ledger, n, o) # {}
          /\ FilledQty(ReportedIn(ledger, n), o) = FilledQty(r.snap.fills, o)
    BY DEF TrueMatch
  <2>4. n \in 0..Len(ledger) /\ n \in r.begun..Len(ledger')
    BY <1>1, <1>2
  <2>5. \A o \in r.snap.open :
          /\ EventsIn(ledger', n, o) # {}
          /\ FilledQty(ReportedIn(ledger', n), o) = FilledQty(r.snap.fills, o)
    BY <1>3, <1>4, <2>3, <2>4
  <2> QED
    BY <2>1, <2>2, <2>4, <2>5 DEF TrueMatch
<1>7. Complete(ledger', r.begun, r.snap) => Complete(ledger, r.begun, r.snap)
  <2> SUFFICES ASSUME Complete(ledger', r.begun, r.snap) PROVE Complete(ledger, r.begun, r.snap)
    OBVIOUS
  <2> DEFINE n == r.begun
             rows == SubSeq(ledger, 1, n)
  <2>1. n \in Nat /\ n <= Len(ledger) /\ 1..n \subseteq 1..Len(ledger)
    BY <1>1
  <2>2. SubSeq(ledger', 1, n) = rows /\ ReportedIn(ledger', n) = ReportedIn(ledger, n)
    BY <1>2, <1>3
  <2>3. \A o : EventsIn(ledger', n, o) = EventsIn(ledger, n, o)
    BY <1>4
  <2>4. \A i \in 1..n : ledger'[i] = ledger[i]
    BY <1>2, <2>1
  <2>5. ASSUME NEW o \in r.snap.open
        PROVE  /\ EventsIn(ledger, n, o) # {}
               /\ ledger[Max(EventsIn(ledger, n, o))].reduce = (o \in ReduceOnly)
    <3>1. /\ EventsIn(ledger, n, o) # {}
          /\ ledger'[Max(EventsIn(ledger, n, o))].reduce = (o \in ReduceOnly)
      BY <2>3 DEF Complete
    <3>2. EventsIn(ledger, n, o) \in SUBSET (1..n)
      BY DEF EventsIn
    <3>3. Max(EventsIn(ledger, n, o)) \in 1..n
      <4> HIDE DEF n
      <4>1. Max(EventsIn(ledger, n, o)) \in EventsIn(ledger, n, o)
        BY <2>1, <3>1, <3>2, MaxIsIn, Zenon
      <4> QED
        BY <3>2, <4>1
    <3> QED
      BY <2>4, <3>1, <3>3
  <2>6. ASSUME NEW s \in Symbols, NEW i \in SnapshotEvents(rows, s), i = Max(SnapshotEvents(rows, s))
        PROVE  ledger[i].net = NetQty(r.snap.fills, s)
    <3>1. ledger'[i].net = NetQty(r.snap.fills, s)
      BY <2>2, <2>6 DEF Complete
    <3>2. i \in 1..n
      <4>1. Len(rows) = n
        BY <1>1, PrefixRows DEF Prefix
      <4> QED
        BY <4>1 DEF SnapshotEvents
    <3> QED
      BY <2>4, <3>1, <3>2
  <2>7. /\ ReportedIn(ledger, n) = r.snap.fills /\ ~DuplicatesIn(rows)
        /\ \A s \in r.snap.listed : \E f \in r.snap.fills : f.symbol = s
    BY <2>2 DEF Complete
  <2> QED
    BY <2>5, <2>6, <2>7 DEF Complete
<1> QED
  BY <1>6, <1>7 DEF Verdict

-----------------------------------------------------------------------------
(* What a comparison that finds nothing has seen, although the orders and  *)
(* the fills it compares may stem from two different replays.              *)
LEMMA NothingFoundIsTrue ==
  ASSUME LedgerOfReports, NEW snap \in GatewayStateSnapshot, NEW n \in 0..Len(ledger),
         NEW l \in Tables, OrdersFrom(ledger, n, l.orders), FillsFrom(ledger, n, l.fills),
         NEW told, Blockers(l, ledger, snap, told) = {}
  PROVE  /\ snap.fills \subseteq ReportedIn(ledger, Len(ledger))
         /\ ~DuplicatesIn(ledger)
         /\ \E m \in n..Len(ledger) : \A o \in snap.open :
              /\ EventsIn(ledger, m, o) # {}
              /\ FilledQty(ReportedIn(ledger, m), o) = FilledQty(snap.fills, o)
<1> DEFINE c == Checks(l, ledger, snap, told)
           known == {o \in snap.open : l.orders[o] # NoRow}
<1>1. ~c["orphan"] /\ ~c["filled"] /\ ~c["missing"] /\ ~c["duplicate"]
  <2>1. \A b \in CheckNames : ~c[b]
    <3> HIDE DEF c
    <3>1. \A b \in CheckNames : b \in Blockers(l, ledger, snap, told) <=> c[b]
      BY BlockersMean, Zenon DEF c
    <3> QED
      BY <3>1
  <2> HIDE DEF c
  <2> QED
    BY <2>1 DEF CheckNames
<1>2. /\ known = snap.open
      /\ \A o \in known : l.orders[o].filled = FilledQty(snap.fills, o)
      /\ \A f \in snap.fills : \E row \in l.fills : row.key = f.id
      /\ ~DuplicatesIn(ledger)
  BY <1>1 DEF Checks
<1> HIDE DEF c
<1>3. /\ Len(ledger) \in Nat /\ n \in Nat
      /\ \A k \in n..Len(ledger) : k \in 0..Len(ledger)
  BY DEF LedgerOfReports
<1>4. snap.open \in SUBSET Orders /\ snap.fills \in SUBSET Fills
  BY DEF GatewayStateSnapshot
<1>5. \A k : ReportedIn(ledger, k) = ReportedFills(k)
  BY DEF ReportedIn, ReportedFills, Prefix
<1>6. \A k, o : EventsIn(ledger, k, o) = EventsOf(k, o)
  BY DEF EventsIn, EventsOf
<1>7. snap.fills \subseteq ReportedIn(ledger, Len(ledger))
  <2>1. PICK k \in n..Len(ledger) : l.fills = After(k).fills
    BY ToldIsAfter DEF FillsFrom
  <2>2. KeysTold(k, After(k))
    BY <1>3, ReplayTells DEF Tells
  <2>3. ASSUME NEW f \in snap.fills
        PROVE  f \in ReportedFills(k)
    <3>1. PICK row \in l.fills : row.key = f.id
      BY <1>2
    <3>2. PICK g \in ReportedFills(k) : row.key = g.id
      BY <2>1, <2>2 DEF KeysTold
    <3>3. g \in Fills /\ f \in Fills /\ g.id = f.id
      BY <1>4, <3>1, <3>2 DEF ReportedFills
    <3>4. g = f
      BY <3>3, FillsAreFills
    <3> QED
      BY <3>2, <3>4
  <2>4. k \in 0..Len(ledger) /\ Len(ledger) \in 0..Len(ledger)
        /\ \A i \in 1..k : i \in 1..Len(ledger)
    BY <1>3
  <2>5. /\ ReportedFills(k) = {f \in Fills : \E i \in 1..k : ledger[i] = ReportOf(f)}
        /\ ReportedFills(Len(ledger))
             = {f \in Fills : \E i \in 1..Len(ledger) : ledger[i] = ReportOf(f)}
    BY <2>4, ReportedIsInRows
  <2> QED
    BY <1>5, <2>3, <2>4, <2>5
<1>8. \E m \in n..Len(ledger) : \A o \in snap.open :
        /\ EventsIn(ledger, m, o) # {}
        /\ FilledQty(ReportedIn(ledger, m), o) = FilledQty(snap.fills, o)
  <2>1. PICK m \in n..Len(ledger) : l.orders = After(m).orders
    BY ToldIsAfter DEF OrdersFrom
  <2>2. OrdersTold(m, After(m)) /\ FilledTold(m, After(m))
    BY <1>3, ReplayTells DEF Tells
  <2>3. ASSUME NEW o \in snap.open
        PROVE  /\ EventsOf(m, o) # {}
               /\ FilledQty(ReportedFills(m), o) = FilledQty(snap.fills, o)
    <3>1. o \in Orders /\ o \in known
      BY <1>2, <1>4
    <3>2. l.orders[o] # NoRow /\ l.orders[o].filled = FilledQty(snap.fills, o)
      BY <1>2, <3>1
    <3>3. After(m).orders[o] # NoRow /\ After(m).orders[o].filled = FilledQty(snap.fills, o)
      BY <2>1, <3>2
    <3>4. EventsOf(m, o) # {}
      BY <2>2, <3>1, <3>3 DEF OrdersTold
    <3>5. Filled(After(m))[o] = After(m).orders[o].filled
      BY <3>1, <3>3 DEF Filled
    <3>6. Filled(After(m))[o] = FilledQty(ReportedFills(m), o)
      BY <2>2, <3>1 DEF FilledTold
    <3> QED
      BY <3>3, <3>4, <3>5, <3>6
  <2> QED
    BY <1>5, <1>6, <2>3
<1> QED
  BY <1>2, <1>7, <1>8

(* What a comparison finds with a ledger that tells all of the snapshot    *)
(* and to which nobody has appended since.                                 *)
LEMMA CompleteFindsNothing ==
  ASSUME LedgerOfReports, NEW snap \in GatewayStateSnapshot, NEW n, n = Len(ledger),
         NEW l \in Tables, OrdersFrom(ledger, n, l.orders), FillsFrom(ledger, n, l.fills),
         PositionsFrom(ledger, n, l), Complete(ledger, n, snap),
         NEW told \in Stated, FileIsSound(n, snap, told)
  PROVE  Blockers(l, ledger, snap, told) = {}
<1> DEFINE t == After(n)
           c == Checks(l, ledger, snap, told)
           known == {o \in snap.open : l.orders[o] # NoRow}
<1>1. n \in Nat /\ n \in 0..Len(ledger) /\ n..Len(ledger) = {n}
  BY DEF LedgerOfReports
<1>2. l.orders = t.orders /\ l.fills = t.fills
  <2>1. /\ \E k \in n..Len(ledger) : l.orders = After(k).orders
        /\ \E k \in n..Len(ledger) : l.fills = After(k).fills
    BY ToldIsAfter DEF OrdersFrom, FillsFrom
  <2> HIDE DEF t
  <2> QED
    BY <1>1, <2>1 DEF t
<1>3. /\ Replay(ledger) = t /\ Prefix(n) = ledger /\ t \in Tables
  BY <1>1, ReplayedTables, WholePrefix
<1>4. \/ l.positions = t.positions /\ l.entry = t.entry
      \/ l.positions = NetOverlaid(t) /\ l.entry = EntryOverlaid(t)
  BY <1>3, OverlayTyped DEF PositionsFrom, SamePositions
<1>5. FilledTold(n, t) /\ NetTold(n, t) /\ EntryTold(n, t) /\ OrdersTold(n, t) /\ KeysTold(n, t)
  BY <1>1, ReplayTells DEF Tells
<1>6. /\ snap.open \in SUBSET Orders /\ snap.fills \in SUBSET Fills
      /\ snap.listed \in SUBSET Symbols
  BY DEF GatewayStateSnapshot
<1>7. ReportedFills(n) = snap.fills
  BY DEF Complete, ReportedIn, ReportedFills, Prefix
<1>8. \A o \in snap.open : /\ EventsOf(n, o) # {}
                            /\ ledger[Max(EventsOf(n, o))].reduce = (o \in ReduceOnly)
  BY DEF Complete, EventsIn, EventsOf
<1>9. ~DuplicatesIn(ledger)
  BY <1>3 DEF Complete, Prefix
<1>10. \A s \in Symbols : \A i \in SnapshotEvents(ledger, s) :
         i = Max(SnapshotEvents(ledger, s)) => ledger[i].net = NetQty(snap.fills, s)
  BY <1>3 DEF Complete, Prefix
<1>11. \A s \in snap.listed : \E f \in snap.fills : f.symbol = s
  BY DEF Complete
<1> HIDE DEF t
<1>12. known = snap.open
  <2>1. \A o \in snap.open : t.orders[o] # NoRow
    BY <1>5, <1>6, <1>8 DEF OrdersTold
  <2> QED
    BY <1>2, <2>1
<1>13. \A o \in known : l.orders[o].filled = FilledQty(snap.fills, o)
  <2> SUFFICES ASSUME NEW o \in known PROVE t.orders[o].filled = FilledQty(snap.fills, o)
    BY <1>2
  <2>1. o \in Orders /\ t.orders[o] # NoRow
    BY <1>2, <1>6
  <2>2. Filled(t)[o] = t.orders[o].filled
    BY <2>1 DEF Filled
  <2> QED
    BY <1>5, <1>7, <2>1, <2>2 DEF FilledTold
<1>14. \A o \in known : l.orders[o].reduce = (o \in ReduceOnly)
  <2> SUFFICES ASSUME NEW o \in known PROVE t.orders[o].reduce = (o \in ReduceOnly)
    BY <1>2
  <2>1. o \in Orders /\ t.orders[o] # NoRow /\ o \in snap.open
    BY <1>2, <1>6
  <2>2. t.orders[o].reduce = ledger[Max(EventsOf(n, o))].reduce
    BY <1>5, <2>1 DEF OrdersTold
  <2>3. ledger[Max(EventsOf(n, o))].reduce = (o \in ReduceOnly)
    BY <1>8, <2>1
  <2> QED
    BY <2>2, <2>3
<1>15. \A f \in snap.fills : \E row \in l.fills : row.key = f.id
  BY <1>2, <1>5, <1>7 DEF KeysTold
<1>16. ~told.stale /\ ~told.repeats /\ told.stale \in BOOLEAN /\ told.repeats \in BOOLEAN
  BY DEF FileIsSound, Stated
<1>17. ASSUME NEW s \in snap.listed
       PROVE  l.positions[s] = NetQty(snap.fills, s) /\ ~EntryDiffers(l.entry[s], told.entry[s])
  <2>1. s \in Symbols
    BY <1>6
  <2>2. PICK f \in snap.fills : f.symbol = s
    BY <1>11
  <2>3. t.positions[s] # NoRow
    BY <1>5, <1>7, <2>2 DEF NetTold
  <2>4. Net(t)[s] = t.positions[s]
    BY <2>1, <2>3 DEF Net
  <2>5. t.positions[s] = NetQty(snap.fills, s)
    BY <1>5, <1>7, <2>1, <2>4 DEF NetTold
  <2>6. t.entry[s] = [cost |-> NetCost(snap.fills, s), qty |-> NetQty(snap.fills, s)]
    BY <1>5, <1>7, <2>1 DEF EntryTold
  <2>7. ~EntryDiffers(t.entry[s], told.entry[s])
    BY <2>6, Zenon DEF FileIsSound, PricesFollow
  <2>8. ASSUME SnapshotEvents(ledger, s) # {}
        PROVE  /\ LastSnapshot(s).net = NetQty(snap.fills, s)
               /\ ~EntryDiffers(EntryStated(LastSnapshot(s).entry), told.entry[s])
    <3>1. Max(SnapshotEvents(ledger, s)) \in SnapshotEvents(ledger, s)
      BY <1>3, <2>1, <2>8, OverlayTyped
    <3>2. \A i \in SnapshotEvents(ledger, s) :
            i = Max(SnapshotEvents(ledger, s)) =>
              ~EntryDiffers(EntryStated(ledger[i].entry), told.entry[s])
      BY <1>3, Zenon DEF FileIsSound, PricesFollow
    <3> QED
      BY <1>10, <2>1, <3>1, <3>2, Zenon DEF LastSnapshot
  <2>9. CASE l.positions = NetOverlaid(t) /\ l.entry = EntryOverlaid(t)
    <3>1. CASE SnapshotEvents(ledger, s) = {}
      <4>1. l.positions[s] = t.positions[s] /\ l.entry[s] = t.entry[s]
        BY <2>1, <2>9, <3>1 DEF NetOverlaid, EntryOverlaid
      <4> QED
        BY <2>5, <2>7, <4>1
    <3>2. CASE SnapshotEvents(ledger, s) # {}
      <4>1. /\ l.positions[s] = LastSnapshot(s).net
            /\ l.entry[s] = EntryStated(LastSnapshot(s).entry)
        BY <2>1, <2>9, <3>2 DEF NetOverlaid, EntryOverlaid
      <4> QED
        BY <2>8, <3>2, <4>1
    <3> QED
      BY <3>1, <3>2
  <2>10. CASE l.positions = t.positions /\ l.entry = t.entry
    BY <2>5, <2>7, <2>10
  <2> QED
    BY <1>4, <2>9, <2>10
<1>18. Drifted(l, snap, told) = {}
  BY <1>17 DEF Drifted
<1>19. \A b \in CheckNames : ~c[b]
  <2>1. c = [stale |-> told.stale,
             orphan |-> known # snap.open,
             filled |-> \E o \in known : l.orders[o].filled # FilledQty(snap.fills, o),
             reduce_only |-> \E o \in known : l.orders[o].reduce # (o \in ReduceOnly),
             missing |-> \E f \in snap.fills : \A row \in l.fills : row.key # f.id,
             duplicate |-> told.repeats \/ DuplicatesIn(ledger),
             drift |-> Drifted(l, snap, told) # {}]
    BY Zenon DEF Checks
  <2>2. /\ told.stale = FALSE
        /\ (known # snap.open) = FALSE
        /\ (\E o \in known : l.orders[o].filled # FilledQty(snap.fills, o)) = FALSE
        /\ (\E o \in known : l.orders[o].reduce # (o \in ReduceOnly)) = FALSE
        /\ (\E f \in snap.fills : \A row \in l.fills : row.key # f.id) = FALSE
        /\ (told.repeats \/ DuplicatesIn(ledger)) = FALSE
        /\ (Drifted(l, snap, told) # {}) = FALSE
    <3>1. DuplicatesIn(ledger) \in BOOLEAN
      BY DEF DuplicatesIn
    <3> QED
      BY <1>9, <1>12, <1>13, <1>14, <1>15, <1>16, <1>18, <3>1
  <2> HIDE DEF c
  <2>3. c = [stale |-> FALSE, orphan |-> FALSE, filled |-> FALSE, reduce_only |-> FALSE,
             missing |-> FALSE, duplicate |-> FALSE, drift |-> FALSE]
    BY <2>1, <2>2, Zenon
  <2> QED
    BY <2>3 DEF CheckNames
<1>20. /\ Blockers(l, ledger, snap, told) \in SUBSET CheckNames
       /\ \A b \in CheckNames : b \in Blockers(l, ledger, snap, told) <=> c[b]
  <2> HIDE DEF c
  <2> QED
    BY BlockersMean, Zenon DEF c
<1> HIDE DEF c
<1> QED
  BY <1>19, <1>20

LEMMA CompareIsRight ==
  ASSUME CommandTypeOK, ReadsHold, NEW told \in Stated, Compare(told)
  PROVE  Verdict(ledger, rec') /\ ledger' = ledger
<1> DEFINE found == Blockers(rec.local, ledger, rec.snap, told)
<1>1. /\ LedgerOfReports /\ rec \in CommandState
      /\ rec.pc = "compare" /\ ledger' = ledger
  BY DEF CommandTypeOK, Compare
<1>2. rec.local \in Tables /\ rec.snap \in GatewayStateSnapshot
  BY <1>1 DEF CommandState
<1>3. /\ rec'.pc = (IF found = {} THEN "done" ELSE "act")
      /\ found # {} => rec'.sound = FileIsSound(rec.begun, rec.snap, told)
      /\ rec'.compared = Len(ledger)
      /\ rec'.begun = rec.begun /\ rec'.snap = rec.snap
  BY VerdictSteps
<1>4. /\ rec.begun \in 0..Len(ledger)
      /\ OrdersFrom(ledger, rec.begun, rec.local.orders)
      /\ FillsFrom(ledger, rec.begun, rec.local.fills)
      /\ PositionsFrom(ledger, rec.begun, rec.local)
  BY <1>1 DEF ReadsHold, ReadsFrom
<1>5. ASSUME found = {}
      PROVE  TrueMatch(ledger, rec')
  <2>1. /\ rec.snap.fills \subseteq ReportedIn(ledger, Len(ledger))
        /\ ~DuplicatesIn(ledger)
        /\ \E m \in rec.begun..Len(ledger) : \A o \in rec.snap.open :
             /\ EventsIn(ledger, m, o) # {}
             /\ FilledQty(ReportedIn(ledger, m), o) = FilledQty(rec.snap.fills, o)
    BY <1>1, <1>2, <1>4, <1>5, NothingFoundIsTrue, Zenon
  <2>2. SubSeq(ledger, 1, Len(ledger)) = ledger
    BY <1>1, WholePrefix DEF Prefix
  <2> HIDE DEF found
  <2> QED
    BY <1>3, <2>1, <2>2, Zenon DEF TrueMatch
<1>6. ASSUME found # {}, rec'.compared = rec'.begun, rec'.sound,
             Complete(ledger, rec'.begun, rec'.snap)
      PROVE  FALSE
  <2>1. rec.begun = Len(ledger) /\ Complete(ledger, rec.begun, rec.snap)
        /\ FileIsSound(rec.begun, rec.snap, told)
    BY <1>3, <1>6, Zenon
  <2> QED
    BY <1>1, <1>2, <1>4, <1>6, <2>1, CompleteFindsNothing, Zenon
<1> HIDE DEF found
<1> QED
  BY <1>1, <1>3, <1>5, <1>6 DEF Verdict

LEMMA VerdictStep ==
  ASSUME CommandTypeOK, ReadsHold, Verdict(ledger, rec), [ReconcileNext]_reconcileVars
  PROVE  Verdict(ledger', rec')
<1>1. rec \in CommandState /\ rec.begun \in 0..Len(ledger) /\ rec.compared \in 0..Len(ledger)
  BY DEF CommandTypeOK, ReadsHold, ReadsFrom
<1>2. ASSUME rec'.pc \notin {"act", "done"}
      PROVE  Verdict(ledger', rec')
  BY <1>2 DEF Verdict
<1>3. ASSUME NEW e, ExecutorAppends(e)
      PROVE  Verdict(ledger', rec')
  <2>1. rec' = rec
    BY <1>3 DEF ExecutorAppends
  <2>2. Verdict(ledger', rec)
    BY <1>1, <1>3, VerdictGrows
  <2> QED
    BY <2>1, <2>2
<1>4. ASSUME NEW snap \in Snapshots(venue), LoadSnapshot(snap)
      PROVE  Verdict(ledger', rec')
  BY <1>2, <1>4, CommandSteps
<1>5. CASE RebuildBase \/ RebuildOverlay \/ LoadOrders \/ LoadFills \/ LoadPositions
  BY <1>2, <1>5, CommandSteps
<1>6. ASSUME NEW told \in Stated, Compare(told)
      PROVE  Verdict(ledger', rec')
  BY <1>6, CompareIsRight
<1>7. CASE Journal
  <2>1. rec'.step = rec.step + 1 /\ rec.step \in Nat
    BY <1>1, <1>7, VerdictSteps DEF CommandState
  <2>2. rec'.step # 0
    BY <2>1
  <2> QED
    BY <2>2 DEF Verdict
<1>8. CASE Resume
  <2>1. /\ rec'.pc = rec.pc /\ rec'.snap = rec.snap /\ rec'.begun = rec.begun
        /\ rec'.compared = rec.compared /\ rec'.sound = rec.sound /\ rec'.step = rec.step
        /\ ledger' = ledger
    BY <1>8, VerdictSteps DEF Resume
  <2>2. TrueMatch(ledger, rec) => TrueMatch(ledger', rec')
    BY <2>1, Zenon DEF TrueMatch
  <2> QED
    BY <2>1, <2>2, Zenon DEF Verdict
<1>9. CASE OtherBase \/ OtherOverlay
  BY <1>9 DEF OtherBase, OtherOverlay
<1>10. CASE UNCHANGED <<ledger, tables, artifact>> /\ rec' = NoRun
  BY <1>2, <1>10 DEF NoRun
<1>11. CASE UNCHANGED <<ledger, tables, artifact, rec>>
  BY <1>11
<1> QED
  BY StepKinds, <1>3, <1>4, <1>5, <1>6, <1>7, <1>8, <1>9, <1>10, <1>11

VerdictHolds == Verdict(ledger, rec)

LEMMA VerdictAlwaysHolds == ReconcileSpec => []VerdictHolds
<1>1. ReconcileInit => ReadsHold /\ VerdictHolds
  <2> SUFFICES ASSUME ReconcileInit PROVE ReadsHold /\ VerdictHolds
    OBVIOUS
  <2>1. ledger = <<>> /\ rec.pc = "idle" /\ rec.begun = 0 /\ rec.compared = 0
    BY DEF ReconcileInit, NoRun
  <2>2. rec.begun \in 0..Len(ledger) /\ rec.compared \in 0..Len(ledger)
    BY <2>1
  <2> QED
    BY <2>1, <2>2 DEF ReadsHold, ReadsFrom, VerdictHolds, Verdict
<1>2. CommandTypeOK /\ ReadsHold /\ VerdictHolds /\ [ReconcileNext]_reconcileVars
        => ReadsHold' /\ VerdictHolds'
  <2> SUFFICES ASSUME CommandTypeOK, ReadsHold, VerdictHolds, [ReconcileNext]_reconcileVars
               PROVE  ReadsHold' /\ VerdictHolds'
    OBVIOUS
  <2>1. ReadsHold'
    BY ReadsStep
  <2>2. Verdict(ledger', rec')
    BY VerdictStep DEF VerdictHolds
  <2> QED
    BY <2>1, <2>2 DEF VerdictHolds
<1> QED
  BY <1>1, <1>2, CommandTypeCorrect, PTL DEF ReconcileSpec

(* A matched verdict is right about the ledger itself, although the tables *)
(* the command compares are committed in two transactions, read in three,  *)
(* and refilled by other runs of the command between them                  *)
(* (reconcile_projection_with_gateway, _load_local_projection).            *)
THEOREM MatchedAlwaysTrue == ReconcileSpec => []MatchedIsTrue
<1>1. VerdictHolds => MatchedIsTrue
  BY VerdictMeans DEF VerdictHolds
<1> QED
  BY <1>1, VerdictAlwaysHolds, PTL

(* No false alarm: a ledger that tells all the gateway's snapshot tells,   *)
(* and to which nobody appends meanwhile, never halts the artifact         *)
(* (_reconciliation_blockers), whatever half-finished rebuild of another   *)
(* run the tables are read from, where the gateway's file is fresh, repeats*)
(* no fill and states no entry price but what its fills come to (net cost  *)
(* by net quantity, as rebuild_execution_projections counts it).           *)
THEOREM CompleteAlwaysMatches == ReconcileSpec => []CompleteLedgerMatches
<1>1. VerdictHolds => CompleteLedgerMatches
  BY VerdictMeans DEF VerdictHolds
<1> QED
  BY <1>1, VerdictAlwaysHolds, PTL

-----------------------------------------------------------------------------
(* Every order of delivery.  Replays of one ledger in two orders cannot be *)
(* compared row by row; both are compared with the set of the fills that   *)
(* were delivered, each named by its fill_id, or by its row in the ledger  *)
(* when it has none.                                                       *)
Delivered(events, j) ==
  [key |-> FillKey(events[j], j), order |-> events[j].order, symbol |-> events[j].symbol,
   side |-> events[j].side, qty |-> events[j].qty]

(* What the first k rows deliver when row i of the ledger arrives as p[i]. *)
FillsAt(events, p, k) == {i \in 1..k : IsFill(events[p[i]])}

DeliveredIn(events, p, k) == {Delivered(events, p[i]) : i \in FillsAt(events, p, k)}

KeysIn(events, p, k) == {FillKey(events[p[i]], i) : i \in FillsAt(events, p, k)}

BlocksIn(events, p, k) ==
  {events[p[i]].reason : i \in {m \in 1..k : events[p[m]].type = "RISK_BLOCK"}}

(* Two rows are one fill under the keys of the replay exactly when they    *)
(* are one fill under the names of the ledger.                             *)
LEMMA SameFillAnyOrder ==
  ASSUME OneFillPerId, NEW n \in Nat, NEW events \in [1..n -> Events],
         NEW p \in Bijection(1..n, 1..n), NEW i \in 1..n, NEW m \in 1..n, i # m,
         IsFill(events[p[i]]), IsFill(events[p[m]])
  PROVE  FillKey(events[p[i]], i) = FillKey(events[p[m]], m)
           <=> Delivered(events, p[i]) = Delivered(events, p[m])
<1> DEFINE d == events[p[i]]
           e == events[p[m]]
<1>1. p[i] \in 1..n /\ p[m] \in 1..n /\ p[i] # p[m]
  BY DEF Bijection, Injection, Surjection, IsInjective
<1>2. d \in Events /\ e \in Events /\ d \in Event /\ e \in Event
  BY <1>1, EventsAreEvents
<1>3. d.fill \in FillIds \cup {NoFill} /\ e.fill \in FillIds \cup {NoFill}
  BY <1>2 DEF Event, IsFill
<1>4. i \in Nat /\ m \in Nat /\ p[i] \in Nat /\ p[m] \in Nat
  BY <1>1
<1>5. d.fill = e.fill /\ d.fill # NoFill =>
        d.order = e.order /\ d.symbol = e.symbol /\ d.side = e.side /\ d.qty = e.qty
  BY <1>2 DEF OneFillPerId
<1> HIDE DEF d, e
<1>6. FillKey(d, i) = FillKey(e, m) <=> d.fill = e.fill /\ d.fill # NoFill
  BY <1>3, <1>4, NamesAreDistinct DEF FillKey
<1>7. FillKey(d, p[i]) = FillKey(e, p[m]) <=> d.fill = e.fill /\ d.fill # NoFill
  BY <1>1, <1>3, <1>4, NamesAreDistinct DEF FillKey
<1> QED
  BY <1>5, <1>6, <1>7 DEF Delivered, d, e

(* So the seen_fill_ids of a replay tell which fills are delivered again.  *)
LEMMA UnseenIsNew ==
  ASSUME OneFillPerId, NEW n \in Nat, NEW events \in [1..n -> Events],
         NEW p \in Bijection(1..n, 1..n), NEW k \in Nat, k + 1 <= n,
         NEW t, {row.key : row \in t.fills} = KeysIn(events, p, k)
  PROVE  Unseen(t, events[p[k + 1]], k + 1)
           <=> /\ IsFill(events[p[k + 1]])
               /\ Delivered(events, p[k + 1]) \notin DeliveredIn(events, p, k)
<1> DEFINE e == events[p[k + 1]]
<1> SUFFICES ASSUME IsFill(e)
             PROVE  (\A f \in t.fills : f.key # FillKey(e, k + 1))
                      <=> Delivered(events, p[k + 1]) \notin DeliveredIn(events, p, k)
  BY DEF Unseen
<1>1. (\A f \in t.fills : f.key # FillKey(e, k + 1)) <=> FillKey(e, k + 1) \notin KeysIn(events, p, k)
  OBVIOUS
<1>2. ASSUME NEW i \in FillsAt(events, p, k)
      PROVE  FillKey(events[p[i]], i) = FillKey(e, k + 1)
               <=> Delivered(events, p[i]) = Delivered(events, p[k + 1])
  <2>1. i \in 1..n /\ k + 1 \in 1..n /\ i # k + 1 /\ IsFill(events[p[i]])
    BY DEF FillsAt
  <2> QED
    BY <2>1, SameFillAnyOrder
<1> QED
  BY <1>1, <1>2 DEF KeysIn, DeliveredIn

LEMMA OneMoreArrives ==
  ASSUME NEW n \in Nat, NEW events \in [1..n -> Events], NEW p \in Bijection(1..n, 1..n),
         NEW k \in Nat, k + 1 <= n
  PROVE  /\ events[p[k + 1]] \in Event
         /\ IsFill(events[p[k + 1]]) =>
              /\ DeliveredIn(events, p, k + 1)
                   = DeliveredIn(events, p, k) \cup {Delivered(events, p[k + 1])}
              /\ KeysIn(events, p, k + 1)
                   = KeysIn(events, p, k) \cup {FillKey(events[p[k + 1]], k + 1)}
         /\ ~IsFill(events[p[k + 1]]) =>
              /\ DeliveredIn(events, p, k + 1) = DeliveredIn(events, p, k)
              /\ KeysIn(events, p, k + 1) = KeysIn(events, p, k)
         /\ events[p[k + 1]].type = "RISK_BLOCK" =>
              BlocksIn(events, p, k + 1) = BlocksIn(events, p, k) \cup {events[p[k + 1]].reason}
         /\ events[p[k + 1]].type # "RISK_BLOCK" =>
              BlocksIn(events, p, k + 1) = BlocksIn(events, p, k)
<1>1. k + 1 \in 1..n /\ 1..(k + 1) = 1..k \cup {k + 1}
  OBVIOUS
<1>2. p[k + 1] \in 1..n
  BY <1>1 DEF Bijection, Injection
<1>3. events[p[k + 1]] \in Event
  BY <1>2, EventsAreEvents
<1>4. FillsAt(events, p, k + 1)
        = IF IsFill(events[p[k + 1]]) THEN FillsAt(events, p, k) \cup {k + 1}
                                      ELSE FillsAt(events, p, k)
  BY <1>1 DEF FillsAt
<1>5. BlocksIn(events, p, k + 1)
        = BlocksIn(events, p, k) \cup (IF events[p[k + 1]].type = "RISK_BLOCK"
                                         THEN {events[p[k + 1]].reason} ELSE {})
  <2>1. {m \in 1..(k + 1) : events[p[m]].type = "RISK_BLOCK"}
          = {m \in 1..k : events[p[m]].type = "RISK_BLOCK"}
              \cup (IF events[p[k + 1]].type = "RISK_BLOCK" THEN {k + 1} ELSE {})
    BY <1>1
  <2> QED
    BY <2>1 DEF BlocksIn
<1> QED
  BY <1>3, <1>4, <1>5 DEF DeliveredIn, KeysIn

(* What the tables hold of the fills delivered, in whatever order.         *)
Carries(events, p, k, t) ==
  LET fills == DeliveredIn(events, p, k) IN
  /\ t \in Tables
  /\ IsFiniteSet(fills) /\ Amounts(fills)
  /\ {row.key : row \in t.fills} = KeysIn(events, p, k)
  /\ \A o \in Orders : Filled(t)[o] = FilledQty(fills, o)
  /\ \A s \in Symbols : Net(t)[s] = NetQty(fills, s)
  /\ \A s \in Symbols : t.positions[s] # NoRow <=> \E d \in fills : d.symbol = s
  /\ t.risk = BlocksIn(events, p, k)

LEMMA CarriesStep ==
  ASSUME OneFillPerId, NEW n \in Nat, NEW events \in [1..n -> Events],
         NEW p \in Bijection(1..n, 1..n), NEW k \in Nat, k + 1 <= n,
         NEW t, Carries(events, p, k, t)
  PROVE  Carries(events, p, k + 1, ApplyEvent(t, events[p[k + 1]], k + 1))
<1> DEFINE e == events[p[k + 1]]
           d == Delivered(events, p[k + 1])
           old == DeliveredIn(events, p, k)
           new == DeliveredIn(events, p, k + 1)
           u == ApplyEvent(t, e, k + 1)
<1>1. e \in Event /\ k + 1 \in Nat
  BY OneMoreArrives
<1>2. /\ t \in Tables /\ IsFiniteSet(old) /\ Amounts(old)
      /\ {row.key : row \in t.fills} = KeysIn(events, p, k)
      /\ \A o \in Orders : Filled(t)[o] = FilledQty(old, o)
      /\ \A s \in Symbols : Net(t)[s] = NetQty(old, s)
      /\ \A s \in Symbols : t.positions[s] # NoRow <=> \E x \in old : x.symbol = s
      /\ t.risk = BlocksIn(events, p, k)
  BY DEF Carries
<1>3. u \in Tables
  BY <1>1, <1>2, ApplyEventTyped
<1>4. Unseen(t, e, k + 1) <=> IsFill(e) /\ d \notin old
  BY <1>2, UnseenIsNew
<1>5. /\ IsFill(e) => new = old \cup {d}
      /\ ~IsFill(e) => new = old
  BY OneMoreArrives
<1>6. u.risk = BlocksIn(events, p, k + 1)
  <2>1. u.risk = IF e.type = "RISK_BLOCK" THEN t.risk \cup {e.reason} ELSE t.risk
    BY DEF ApplyEvent
  <2>2. /\ e.type = "RISK_BLOCK" =>
             BlocksIn(events, p, k + 1) = BlocksIn(events, p, k) \cup {e.reason}
        /\ e.type # "RISK_BLOCK" => BlocksIn(events, p, k + 1) = BlocksIn(events, p, k)
    BY OneMoreArrives
  <2>3. t.risk = BlocksIn(events, p, k)
    BY <1>2
  <2> HIDE DEF u, e
  <2>4. CASE e.type = "RISK_BLOCK"
    BY <2>1, <2>2, <2>3, <2>4
  <2>5. CASE e.type # "RISK_BLOCK"
    BY <2>1, <2>2, <2>3, <2>5
  <2> QED
    BY <2>4, <2>5
<1>7. {row.key : row \in u.fills} = KeysIn(events, p, k + 1)
  <2>1. /\ IsFill(e) => KeysIn(events, p, k + 1) = KeysIn(events, p, k) \cup {FillKey(e, k + 1)}
        /\ ~IsFill(e) => KeysIn(events, p, k + 1) = KeysIn(events, p, k)
    BY OneMoreArrives
  <2>2. u.fills = IF Unseen(t, e, k + 1) THEN t.fills \cup {FillRowOf(e, k + 1)} ELSE t.fills
    BY DEF ApplyEvent
  <2>3. FillRowOf(e, k + 1).key = FillKey(e, k + 1)
    BY DEF FillRowOf
  <2> HIDE DEF u, e
  <2>4. CASE Unseen(t, e, k + 1)
    <3>1. IsFill(e)
      BY <2>4 DEF Unseen
    <3> QED
      BY <1>2, <2>1, <2>2, <2>3, <2>4, <3>1
  <2>5. CASE ~Unseen(t, e, k + 1) /\ IsFill(e)
    <3>1. FillKey(e, k + 1) \in KeysIn(events, p, k)
      BY <1>2, <2>5 DEF Unseen
    <3> QED
      BY <1>2, <2>1, <2>2, <2>5, <3>1
  <2>6. CASE ~Unseen(t, e, k + 1) /\ ~IsFill(e)
    BY <1>2, <2>1, <2>2, <2>6
  <2> QED
    BY <2>4, <2>5, <2>6
<1>8. /\ \A o \in Orders :
           /\ Filled(t)[o] \in Int
           /\ Filled(u)[o] = Filled(t)[o]
                               + (IF Unseen(t, e, k + 1) /\ e.order = o THEN e.qty ELSE 0)
      /\ \A s \in Symbols :
           /\ Net(t)[s] \in Int
           /\ Net(u)[s] = Net(t)[s]
                            + (IF Unseen(t, e, k + 1) /\ e.symbol = s THEN SignedQuantity(e) ELSE 0)
  <2>1. u = ApplyEvent(t, e, k + 1)
    OBVIOUS
  <2> HIDE DEF u, e
  <2> QED
    BY <1>1, <1>2, <2>1, ColumnsAfter
<1>9. CASE ~Unseen(t, e, k + 1)
  <2>1. new = old
    BY <1>4, <1>5, <1>9
  <2>2. u.positions = t.positions
    BY <1>9 DEF ApplyEvent
  <2> HIDE DEF u, e, old, new
  <2>3. \A o \in Orders : Filled(u)[o] = FilledQty(new, o)
    <3> SUFFICES ASSUME NEW o \in Orders PROVE Filled(u)[o] = FilledQty(new, o)
      OBVIOUS
    <3>1. Filled(t)[o] \in Int /\ Filled(u)[o] = Filled(t)[o] + 0
      BY <1>8, <1>9
    <3>2. Filled(u)[o] = Filled(t)[o]
      BY <3>1
    <3> QED
      BY <1>2, <2>1, <3>2
  <2>4. \A s \in Symbols : Net(u)[s] = NetQty(new, s)
    <3> SUFFICES ASSUME NEW s \in Symbols PROVE Net(u)[s] = NetQty(new, s)
      OBVIOUS
    <3>1. Net(t)[s] \in Int /\ Net(u)[s] = Net(t)[s] + 0
      BY <1>8, <1>9
    <3>2. Net(u)[s] = Net(t)[s]
      BY <3>1
    <3> QED
      BY <1>2, <2>1, <3>2
  <2>5. /\ IsFiniteSet(new) /\ Amounts(new)
        /\ \A s \in Symbols : u.positions[s] # NoRow <=> \E x \in new : x.symbol = s
    BY <1>2, <2>1, <2>2
  <2> QED
    BY <1>3, <1>6, <1>7, <2>3, <2>4, <2>5 DEF Carries, u, e, new
<1>10. CASE Unseen(t, e, k + 1)
  <2>1. new = old \cup {d} /\ d \notin old
    BY <1>4, <1>5, <1>10
  <2>2. /\ e.order \in Orders /\ e.symbol \in Symbols /\ e.qty \in Nat /\ e.side \in {"BUY", "SELL"}
    BY <1>1, <1>10 DEF Unseen, IsFill, Event
  <2>3. /\ d.order = e.order /\ d.symbol = e.symbol /\ d.qty = e.qty
        /\ SignedQuantity(d) = SignedQuantity(e)
    BY DEF Delivered, SignedQuantity
  <2>4. SignedQuantity(e) \in Int
    BY <2>2 DEF SignedQuantity
  <2>5. /\ NetAfter(t, e) \in Int
        /\ u.positions = [t.positions EXCEPT ![e.symbol] = NetAfter(t, e)]
        /\ t.positions \in [Symbols -> Int \cup {NoRow}]
    <3>1. t.positions \in [Symbols -> Int \cup {NoRow}]
      BY <1>2 DEF Tables
    <3>2. t.positions[e.symbol] \in Int \cup {NoRow}
      BY <2>2, <3>1
    <3>3. NetAfter(t, e) \in Int
      BY <2>4, <3>2 DEF NetAfter
    <3> QED
      BY <1>10, <3>1, <3>3 DEF ApplyEvent
  <2> HIDE DEF u, e, d, old, new
  <2>6. Amounts(new)
    BY <1>2, <2>1, <2>2, <2>3, <2>4 DEF Amounts
  <2>7. /\ IsFiniteSet(new)
        /\ \A o : /\ FilledQty(old, o) \in Int
                  /\ FilledQty(new, o) = FilledQty(old, o) + (IF d.order = o THEN d.qty ELSE 0)
        /\ \A s : /\ NetQty(old, s) \in Int
                  /\ NetQty(new, s) = NetQty(old, s)
                                        + (IF d.symbol = s THEN SignedQuantity(d) ELSE 0)
    <3>1. IsFiniteSet(old) /\ d \notin old /\ Amounts(old \cup {d})
      BY <1>2, <2>1, <2>6
    <3>2. /\ IsFiniteSet(old \cup {d})
          /\ \A o : /\ FilledQty(old, o) \in Int
                    /\ FilledQty(old \cup {d}, o)
                         = FilledQty(old, o) + (IF d.order = o THEN d.qty ELSE 0)
          /\ \A s : /\ NetQty(old, s) \in Int
                    /\ NetQty(old \cup {d}, s)
                         = NetQty(old, s) + (IF d.symbol = s THEN SignedQuantity(d) ELSE 0)
      BY <3>1, OneAmountMore, Zenon
    <3> QED
      BY <2>1, <3>2
  <2>8. \A o \in Orders : Filled(u)[o] = FilledQty(new, o)
    <3> SUFFICES ASSUME NEW o \in Orders PROVE Filled(u)[o] = FilledQty(new, o)
      OBVIOUS
    <3>1. Filled(u)[o] = Filled(t)[o] + (IF e.order = o THEN e.qty ELSE 0)
      BY <1>8, <1>10
    <3>2. FilledQty(new, o) = FilledQty(old, o) + (IF e.order = o THEN e.qty ELSE 0)
      BY <2>3, <2>7
    <3> QED
      BY <1>2, <3>1, <3>2
  <2>9. \A s \in Symbols : Net(u)[s] = NetQty(new, s)
    <3> SUFFICES ASSUME NEW s \in Symbols PROVE Net(u)[s] = NetQty(new, s)
      OBVIOUS
    <3>1. Net(u)[s] = Net(t)[s] + (IF e.symbol = s THEN SignedQuantity(e) ELSE 0)
      BY <1>8, <1>10
    <3>2. NetQty(new, s) = NetQty(old, s) + (IF e.symbol = s THEN SignedQuantity(e) ELSE 0)
      BY <2>3, <2>7
    <3> QED
      BY <1>2, <3>1, <3>2
  <2>10. \A s \in Symbols : u.positions[s] # NoRow <=> \E x \in new : x.symbol = s
    <3> SUFFICES ASSUME NEW s \in Symbols
                 PROVE  u.positions[s] # NoRow <=> \E x \in new : x.symbol = s
      OBVIOUS
    <3>1. CASE s = e.symbol
      <4>1. u.positions[s] = NetAfter(t, e)
        BY <2>5, <3>1
      <4>2. u.positions[s] # NoRow
        BY <2>5, <4>1, NamesAreDistinct
      <4> QED
        BY <2>1, <2>3, <3>1, <4>2
    <3>2. CASE s # e.symbol
      <4>1. u.positions[s] = t.positions[s]
        BY <2>5, <3>2
      <4> QED
        BY <1>2, <2>1, <2>3, <3>2, <4>1
    <3> QED
      BY <3>1, <3>2
  <2> QED
    BY <1>3, <1>6, <1>7, <2>6, <2>7, <2>8, <2>9, <2>10 DEF Carries, u, e, new
<1> QED
  BY <1>9, <1>10

LEMMA CarriesNothing ==
  ASSUME NEW events, NEW p
  PROVE  Carries(events, p, 0, EmptyTables)
<1>1. /\ DeliveredIn(events, p, 0) = {} /\ KeysIn(events, p, 0) = {} /\ BlocksIn(events, p, 0) = {}
  BY DEF DeliveredIn, KeysIn, BlocksIn, FillsAt
<1>2. /\ \A o \in Orders : Filled(EmptyTables)[o] = 0
      /\ \A s \in Symbols : Net(EmptyTables)[s] = 0 /\ EmptyTables.positions[s] = NoRow
      /\ EmptyTables.fills = {} /\ EmptyTables.risk = {}
  BY DEF EmptyTables, Filled, Net
<1>3. {row.key : row \in EmptyTables.fills} = {}
  BY <1>2
<1> QED
  BY <1>1, <1>2, <1>3, EmptyTablesTyped, NoFillsNoSums, FS_EmptySet DEF Carries, Amounts

(* A least prefix that does not carry its fills would be one row longer    *)
(* than one that does.                                                     *)
LEMMA ReplayCarries ==
  ASSUME OneFillPerId, NEW n \in Nat, NEW events \in [1..n -> Events],
         NEW p \in Bijection(1..n, 1..n)
  PROVE  Carries(events, p, n, Replay([i \in 1..n |-> events[p[i]]]))
<1> DEFINE arrived == [i \in 1..n |-> events[p[i]]]
<1>0. Len(arrived) = n
  <2>1. \A i \in 1..n : p[i] \in 1..n
    BY DEF Bijection, Injection
  <2>2. arrived \in Seq(Events) /\ DOMAIN arrived = 1..n
    BY <2>1
  <2> HIDE DEF arrived
  <2> QED
    BY <2>2
<1>1. PICK after : IsReplay(arrived, n, after) /\ Replay(arrived) = after[n]
  <2> HIDE DEF arrived
  <2> QED
    BY <1>0, ReplayIsOne
<1>2. /\ \A k \in 0..n : k = 0 => after[k] = EmptyTables
      /\ \A k \in 0..n : k # 0 => after[k] = ApplyEvent(after[k - 1], arrived[k], k)
  <2> HIDE DEF arrived
  <2> QED
    BY <1>1 DEF IsReplay
<1> DEFINE Bad == {k \in 0..n : ~Carries(events, p, k, after[k])}
<1>3. Bad = {}
  <2> SUFFICES ASSUME Bad # {} PROVE FALSE
    OBVIOUS
  <2>0. Bad \in SUBSET Nat
    OBVIOUS
  <2>1. PICK k \in Bad : \A j \in Bad : k <= j
    BY <2>0, LeastOfNaturals
  <2>2. k # 0
    <3>1. Carries(events, p, 0, EmptyTables)
      BY CarriesNothing
    <3> QED
      BY <1>2, <2>1, <3>1
  <2> DEFINE j == k - 1
  <2>3. j \in Nat /\ j + 1 = k /\ j \in 0..n /\ ~(k <= j) /\ j + 1 <= n /\ k \in 1..n
    BY <2>2
  <2>4. Carries(events, p, j, after[j])
    BY <2>1, <2>3
  <2>5. after[k] = ApplyEvent(after[j], events[p[k]], k)
    BY <1>2, <2>2, <2>3
  <2> HIDE DEF j
  <2>6. Carries(events, p, j + 1, ApplyEvent(after[j], events[p[j + 1]], j + 1))
    BY <2>3, <2>4, CarriesStep
  <2>7. ~Carries(events, p, k, after[k])
    OBVIOUS
  <2> QED
    BY <2>3, <2>5, <2>6, <2>7
<1>4. n \in 0..n
  OBVIOUS
<1> QED
  BY <1>1, <1>3, <1>4

(* All rows together deliver the same in every order.                      *)
LEMMA AllArrive ==
  ASSUME NEW n \in Nat, NEW events \in [1..n -> Events], NEW p \in Bijection(1..n, 1..n)
  PROVE  /\ DeliveredIn(events, p, n)
              = {Delivered(events, j) : j \in {m \in 1..n : IsFill(events[m])}}
         /\ BlocksIn(events, p, n)
              = {events[j].reason : j \in {m \in 1..n : events[m].type = "RISK_BLOCK"}}
<1>1. /\ \A i \in 1..n : p[i] \in 1..n
      /\ \A j \in 1..n : \E i \in 1..n : p[i] = j
  BY DEF Bijection, Injection, Surjection
<1> QED
  BY <1>1 DEF DeliveredIn, FillsAt, BlocksIn

(* Positions, filled quantities and risk blocks of tables that carry the   *)
(* same fills and blocks are the same.                                     *)
LEMMA SameFillsSameExposure ==
  ASSUME NEW events, NEW p, NEW q, NEW n, NEW t, NEW u,
         Carries(events, p, n, t), Carries(events, q, n, u),
         DeliveredIn(events, p, n) = DeliveredIn(events, q, n),
         BlocksIn(events, p, n) = BlocksIn(events, q, n)
  PROVE  t.positions = u.positions /\ Filled(t) = Filled(u) /\ t.risk = u.risk
<1>1. /\ \A o \in Orders : Filled(t)[o] = Filled(u)[o]
      /\ \A s \in Symbols : Net(t)[s] = Net(u)[s]
      /\ \A s \in Symbols : t.positions[s] # NoRow <=> u.positions[s] # NoRow
      /\ t.risk = u.risk
  BY DEF Carries
<1>2. Filled(t) = Filled(u)
  <2>1. Filled(t) = [o \in Orders |-> Filled(t)[o]] /\ Filled(u) = [o \in Orders |-> Filled(u)[o]]
    BY DEF Filled
  <2> QED
    BY <1>1, <2>1
<1>3. t.positions = u.positions
  <2>1. t.positions \in [Symbols -> Int \cup {NoRow}] /\ u.positions \in [Symbols -> Int \cup {NoRow}]
    BY DEF Carries, Tables
  <2>2. ASSUME NEW s \in Symbols
        PROVE  t.positions[s] = u.positions[s]
    <3>1. CASE t.positions[s] = NoRow
      BY <1>1, <3>1
    <3>2. CASE t.positions[s] # NoRow
      <4>1. Net(t)[s] = t.positions[s] /\ Net(u)[s] = u.positions[s]
        BY <1>1, <3>2 DEF Net
      <4> QED
        BY <1>1, <4>1
    <3> QED
      BY <3>1, <3>2
  <2> QED
    BY <2>1, <2>2
<1> QED
  BY <1>1, <1>2, <1>3

(* Whatever order the events of the overlapping appends reach the ledger   *)
(* in, and whichever of them are delivered again, a replay leaves the same *)
(* positions, filled quantities and risk blocks                            *)
(* (rebuild_execution_projections), provided that the reports of one fill  *)
(* agree.                                                                  *)
THEOREM DeliveryOrderNeverMatters ==
  ASSUME OneFillPerId
  PROVE  Spec => []DeliveryOrderIrrelevant
<1>1. TypeOK => DeliveryOrderIrrelevant
  <2> SUFFICES ASSUME TypeOK PROVE DeliveryOrderIrrelevant
    OBVIOUS
  <2> DEFINE n == Len(log)
             events == PayloadsTo(n)
             same == [i \in 1..n |-> i]
  <2>1. n \in Nat
    BY DEF TypeOK
  <2>2. events \in [1..n -> Events]
    <3>1. \A i \in 1..n : log[i].event \in Events
      BY LoggedEvent DEF Row
    <3> QED
      BY <3>1 DEF PayloadsTo
  <2>3. same \in Bijection(1..n, 1..n)
    <3> HIDE DEF n
    <3> QED
      BY <2>1 DEF Bijection, Injection, Surjection, IsInjective
  <2>4. [i \in 1..n |-> events[same[i]]] = events
    <3> HIDE DEF n, events
    <3> QED
      BY <2>2
  <2> HIDE DEF n, events, same
  <2>5. Carries(events, same, n, Replay(events))
    BY <2>1, <2>2, <2>3, <2>4, ReplayCarries
  <2>6. ASSUME NEW p \in Bijection(1..n, 1..n)
        PROVE  LET there == Replay([i \in 1..n |-> events[p[i]]]) IN
               /\ there.positions = Replay(events).positions
               /\ Filled(there) = Filled(Replay(events))
               /\ there.risk = Replay(events).risk
    <3>1. Carries(events, p, n, Replay([i \in 1..n |-> events[p[i]]]))
      BY <2>1, <2>2, ReplayCarries
    <3>2. /\ DeliveredIn(events, p, n) = DeliveredIn(events, same, n)
          /\ BlocksIn(events, p, n) = BlocksIn(events, same, n)
      BY <2>1, <2>2, <2>3, AllArrive
    <3> QED
      BY <2>5, <3>1, <3>2, SameFillsSameExposure
  <2> QED
    BY <2>6 DEF DeliveryOrderIrrelevant, n, events
<1> QED
  BY <1>1, TypeCorrect, PTL
=============================================================================
