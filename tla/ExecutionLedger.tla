--------------------------- MODULE ExecutionLedger ---------------------------
(***************************************************************************)
(* The SQLite execution ledger of memory/store.py.                         *)
(*                                                                         *)
(* Several processes call append_execution_event on one database file.     *)
(* The call reads the newest event_digest in one statement (autocommit)    *)
(* and inserts its own row, chained to what it read, in a later            *)
(* transaction, so appends of different processes overlap.                 *)
(*                                                                         *)
(* rebuild_execution_projections deletes the projection tables, which      *)
(* takes SQLite's write lock, replays every row in event_id order and      *)
(* commits the tables with a replay checkpoint.  A crash rolls it back.    *)
(***************************************************************************)
EXTENDS LedgerReplay, FiniteSets, Functions

CONSTANTS
  Writers,    (* processes that append events                              *)
  Events,     (* the events they may append                                *)
  MaxEvents   (* bound: rows the ledger may hold                           *)

ASSUME EventsAreEvents == Events \subseteq Event
ASSUME MaxEventsIsNat == MaxEvents \in Nat

VARIABLES
  log,      (* execution_events in event_id order                          *)
  appender, (* what each writer read and is about to insert                *)
  lock,     (* who holds the write lock: "free" or "rebuild"               *)
  cursor,   (* rows the running rebuild has replayed                       *)
  work,     (* its uncommitted projection tables                           *)
  proj,     (* the committed projection tables                             *)
  checkpoint (* last_event_id of the newest replay checkpoint              *)

vars == <<log, appender, lock, cursor, work, proj, checkpoint>>

(***************************************************************************)
(* event_digest is SHA-256 over the previous digest and the payload: equal *)
(* exactly for equal histories of payloads, so a digest is represented by  *)
(* that history.  The empty history is the empty previous_digest of the    *)
(* first row.  `seen` is a history field: the event_id the digest came     *)
(* from.                                                                   *)
(***************************************************************************)
Row == [event : Events, previous : Seq(Events), digest : Seq(Events), seen : Nat]

Idle == [pc |-> "idle"]
Pending == [pc : {"read"}, event : Events, previous : Seq(Events), seen : Nat]

DigestAt(n) == IF n = 0 THEN <<>> ELSE log[n].digest

InFlight == {w \in Writers : appender[w] # Idle}

PayloadsTo(n) == [i \in 1..n |-> log[i].event]

Init ==
  /\ log = <<>>
  /\ appender = [w \in Writers |-> Idle]
  /\ lock = "free"
  /\ cursor = 0
  /\ work = EmptyTables
  /\ proj = EmptyTables
  /\ checkpoint = 0

(* append_execution_event up to its SELECT of the newest digest.  Readers  *)
(* are never blocked by the write lock (WAL journal).                      *)
ReadHead(w, e) ==
  /\ appender[w] = Idle
  /\ Len(log) + Cardinality(InFlight) < MaxEvents
  /\ appender' = [appender EXCEPT ![w] =
                    [pc |-> "read", event |-> e,
                     previous |-> DigestAt(Len(log)), seen |-> Len(log)]]
  /\ UNCHANGED <<log, lock, cursor, work, proj, checkpoint>>

(* Mutant: the digest forgets the digest it is chained to.                 *)
UnchainedInsert(w) ==
  /\ appender[w] # Idle
  /\ lock = "free"
  /\ log' = Append(log, [event |-> appender[w].event, previous |-> <<>>,
                         digest |-> <<appender[w].event>>, seen |-> appender[w].seen])
  /\ appender' = [appender EXCEPT ![w] = Idle]
  /\ UNCHANGED <<lock, cursor, work, proj, checkpoint>>

(* The INSERT and its commit: one transaction that needs the write lock.   *)
InsertEvent(w) ==
  /\ appender[w] # Idle
  /\ lock = "free"
  /\ log' = Append(log,
              [event    |-> appender[w].event,
               previous |-> appender[w].previous,
               digest   |-> Append(appender[w].previous, appender[w].event),
               seen     |-> appender[w].seen])
  /\ appender' = [appender EXCEPT ![w] = Idle]
  /\ UNCHANGED <<lock, cursor, work, proj, checkpoint>>

(* The process dies before its commit, or the busy timeout expires while   *)
(* another connection holds the lock: no row is written.                   *)
AppendFails(w) ==
  /\ appender[w] # Idle
  /\ appender' = [appender EXCEPT ![w] = Idle]
  /\ UNCHANGED <<log, lock, cursor, work, proj, checkpoint>>

(* The first DELETE opens the transaction and takes the write lock; the    *)
(* SELECT of all rows that follows reads the log as it is under the lock.  *)
BeginRebuild ==
  /\ lock = "free"
  /\ lock' = "rebuild"
  /\ cursor' = 0
  /\ work' = EmptyTables
  /\ UNCHANGED <<log, appender, proj, checkpoint>>

ReplayRow ==
  /\ lock = "rebuild"
  /\ cursor < Len(log)
  /\ cursor' = cursor + 1
  /\ work' = ApplyEvent(work, log[cursor + 1].event, cursor + 1)
  /\ UNCHANGED <<log, appender, lock, proj, checkpoint>>

(* Mutant: the checkpoint names the next event_id instead of the last.     *)
CommitPastEnd ==
  /\ lock = "rebuild"
  /\ cursor = Len(log)
  /\ proj' = work
  /\ checkpoint' = Len(log) + 1
  /\ lock' = "free"
  /\ UNCHANGED <<log, appender, cursor, work>>

(* Mutant: the tables are committed before the replay reached the end.     *)
CommitEarly ==
  /\ lock = "rebuild"
  /\ proj' = work
  /\ checkpoint' = Len(log)
  /\ lock' = "free"
  /\ UNCHANGED <<log, appender, cursor, work>>

(* The tables and the checkpoint become visible together.                  *)
CommitRebuild ==
  /\ lock = "rebuild"
  /\ cursor = Len(log)
  /\ proj' = work
  /\ checkpoint' = Len(log)
  /\ lock' = "free"
  /\ UNCHANGED <<log, appender, cursor, work>>

(* A crash, or an exception inside the loop: the connection closes without *)
(* commit and SQLite rolls the deletes and inserts back.                   *)
RebuildFails ==
  /\ lock = "rebuild"
  /\ lock' = "free"
  /\ UNCHANGED <<log, appender, cursor, work, proj, checkpoint>>

Next ==
  \/ \E w \in Writers, e \in Events : ReadHead(w, e)
  \/ \E w \in Writers : InsertEvent(w)
  \/ \E w \in Writers : AppendFails(w)
  \/ BeginRebuild
  \/ ReplayRow
  \/ CommitRebuild
  \/ RebuildFails

Spec == Init /\ [][Next]_vars

-----------------------------------------------------------------------------
(* Types of the ledger's tables and of the appends and rebuild in flight.  *)
TypeOK ==
  /\ log \in Seq(Row)
  /\ appender \in [Writers -> Pending \cup {Idle}]
  /\ lock \in {"free", "rebuild"}
  /\ cursor \in 0..Len(log)
  /\ work \in Tables
  /\ proj \in Tables
  /\ checkpoint \in 0..Len(log)

(* The event_ids up to n that report a fill no earlier event reported.     *)
FirstReports(n) ==
  {i \in 1..n : /\ IsFill(log[i].event)
                /\ \A j \in 1..(i - 1) :
                     IsFill(log[j].event) =>
                       FillKey(log[j].event, j) # FillKey(log[i].event, i)}

ExactFills(t, n) == t.fills = {FillRowOf(log[i].event, i) : i \in FirstReports(n)}

(* Whatever was delivered twice, and whatever crashed, the committed fills *)
(* table holds exactly one row for each fill reported up to the checkpoint *)
(* and that row is the first report's (store.py's seen_fill_ids under the  *)
(* write lock of the rebuild transaction).                                 *)
FillsExactlyOnce == ExactFills(proj, checkpoint)

Promise == INSTANCE ProjectedLedger
             WITH events <- PayloadsTo(Len(log)), tables <- proj, upTo <- checkpoint

(* Readers of the projection (reconciliation, dashboards) see tables that  *)
(* go in one step from one replay of the ledger to a newer one, although   *)
(* appends overlap, the deletes and inserts of a rebuild are separate      *)
(* statements, and rebuilds die half way.                                  *)
ImplementsProjectedLedger == Promise!Spec

Filled(t) == [o \in Orders |-> IF t.orders[o] = NoRow THEN 0 ELSE t.orders[o].filled]

Net(t) == [s \in Symbols |-> IF t.positions[s] = NoRow THEN 0 ELSE t.positions[s]]

(* What the rows of the fills table add up to.                             *)
FilledByRows(t, o) ==
  SumFunctionOnSet([f \in t.fills |-> IF f.signed < 0 THEN -f.signed ELSE f.signed],
                   {f \in t.fills : f.order = o})

NetByRows(t, s) ==
  SumFunctionOnSet([f \in t.fills |-> f.signed], {f \in t.fills : f.symbol = s})

Balanced(t) ==
  /\ \A o \in Orders : Filled(t)[o] = FilledByRows(t, o)
  /\ \A s \in Symbols : Net(t)[s] = NetByRows(t, s)

(* The three tables a reader combines agree with each other: the filled    *)
(* quantity of an order and the net position of a symbol are the sums of   *)
(* the rows of the fills table, duplicates and crashes included.           *)
BooksBalance == Balanced(proj)

(* A fill_id names one execution: the fills reported under it agree.       *)
OneFillPerId ==
  \A d, e \in Events :
    IsFill(d) /\ IsFill(e) /\ d.fill = e.fill /\ d.fill # NoFill =>
      /\ d.order = e.order
      /\ d.symbol = e.symbol
      /\ d.side = e.side
      /\ d.qty = e.qty

(* Exposure does not depend on the order in which the processes' events    *)
(* reached the ledger: replaying any permutation of it gives the same net  *)
(* positions, filled quantities and risk blocks (only status, price and    *)
(* the row's metadata are the last writer's).  It takes that the reports   *)
(* of one fill agree (OneFillPerId).                                       *)
DeliveryOrderIrrelevant ==
  LET events == PayloadsTo(Len(log))
      here   == Replay(events)
  IN \A p \in Bijection(1..Len(log), 1..Len(log)) :
       LET there == Replay([i \in 1..Len(log) |-> events[p[i]]]) IN
       /\ there.positions = here.positions
       /\ Filled(there) = Filled(here)
       /\ there.risk = here.risk

(* Every previous_digest is the digest some earlier row really had (or the *)
(* empty one): overlapping appends may fork the chain, they never dangle.  *)
ChainRooted ==
  \A i \in 1..Len(log) :
    /\ log[i].seen < i
    /\ log[i].previous = DigestAt(log[i].seen)
    /\ log[i].digest = Append(log[i].previous, log[i].event)
=============================================================================
