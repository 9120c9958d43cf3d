--------------------------- MODULE Reconciliation ---------------------------
(***************************************************************************)
(* execution/reconciliation.py reconcile_projection_with_gateway: rebuild  *)
(* the projection tables from the ledger, compare them with a snapshot of  *)
(* the gateway, and pause the artifact when they disagree.                 *)
(*                                                                         *)
(* The function is a sequence of separate SQLite transactions.  Between    *)
(* two of them the executor appends events, the venue trades on, and other *)
(* operators' runs of the same command delete and refill the same tables.  *)
(* The base rebuild is one step here: ExecutionLedger refines that step.   *)
(*                                                                         *)
(* The second phase reads account events that list positions.  The         *)
(* executor of this repository appends its account events without a list,  *)
(* and the repository's tests one with it: they come from outside.         *)
(***************************************************************************)
EXTENDS LedgerReplay, FiniteSetsExt

CONSTANTS
  Fills,        (* the fills the venue may execute                         *)
  Prices,       (* the entry prices an account or the gateway may state    *)
  ReduceOnly,   (* the orders submitted as reduce-only                     *)
  MaxReports,   (* bound: rows the ledger may hold                         *)
  MaxRuns       (* bound: reconciliations that may be started              *)

Fill == [id : FillIds, order : Orders, symbol : Symbols, side : {"BUY", "SELL"},
         qty : Nat, price : Nat]

ASSUME FillsAreFills ==
  /\ Fills \subseteq Fill
  /\ \A f, g \in Fills : f.id = g.id => f = g
ASSUME PricesAreNats == Prices \subseteq Nat
ASSUME ReduceOnlyAreOrders == ReduceOnly \subseteq Orders
ASSUME ReportsHaveStatuses == {"ORDER_ACK", "FILL"} \subseteq Statuses

VARIABLES
  ledger,    (* the events of execution_events in event_id order           *)
  tables,    (* the committed projection tables                            *)
  venue,     (* the gateway's truth: open orders and executed fills        *)
  artifact,  (* artifacts.rollout_stage of the artifact under paper trading*)
  rec,       (* what the command is doing and what it has read             *)
  runs       (* reconciliations started                                    *)

reconcileVars == <<ledger, tables, venue, artifact, rec, runs>>

-----------------------------------------------------------------------------
(* The gateway.  A snapshot lists its open orders with their filled        *)
(* quantities, its fills, and the positions it holds; whether a symbol     *)
(* with no position is listed is the gateway's choice.  What else its file *)
(* says is Stated: that the account is stale, a fill listed twice, and the *)
(* entry price of a position, if any.                                      *)
Sum(S, Op(_)) == MapThenSumSet(Op, S)

FilledQty(fills, o) == Sum({f \in fills : f.order = o}, LAMBDA f : f.qty)
NetQty(fills, s) == Sum({f \in fills : f.symbol = s}, SignedQuantity)
NetCost(fills, s) == Sum({f \in fills : f.symbol = s}, SignedCost)

GatewayStateSnapshot ==
  [open : SUBSET Orders, fills : SUBSET Fills, listed : SUBSET Symbols]

Stated == [stale : BOOLEAN, repeats : BOOLEAN, entry : [Symbols -> Prices \cup {NoPrice}]]

Snapshots(v) ==
  {snap \in GatewayStateSnapshot :
     /\ snap.open = v.open
     /\ snap.fills = v.fills
     /\ {s \in Symbols : NetQty(v.fills, s) # 0} \subseteq snap.listed}

-----------------------------------------------------------------------------
(* The second phase of a rebuild: every account snapshot event overwrites  *)
(* the positions row of its symbol, entry price included, whatever fills   *)
(* came after it.                                                          *)
SnapshotEvents(events, s) ==
  {i \in 1..Len(events) : events[i].type = "SNAPSHOT" /\ events[i].symbol = s}

EntryStated(p) == IF p = NoPrice THEN NoEntry ELSE [cost |-> p, qty |-> 1]

Overlay(t, events) ==
  LET last(s) == events[Max(SnapshotEvents(events, s))]
      told(s) == SnapshotEvents(events, s) # {}
  IN  [t EXCEPT !.positions = [s \in Symbols |-> IF told(s) THEN last(s).net ELSE t.positions[s]],
                !.entry = [s \in Symbols |-> IF told(s) THEN EntryStated(last(s).entry)
                                           ELSE t.entry[s]]]

(* GROUP BY fill_id HAVING COUNT( * ) > 1 over the ledger itself.          *)
ReportsOf(events, id) ==
  {i \in 1..Len(events) : events[i].type = "FILL" /\ events[i].fill = id}

DuplicatesIn(events) == \E id \in FillIds : Cardinality(ReportsOf(events, id)) > 1

(* The two prices are compared where both sides have one.                  *)
EntryDiffers(entry, p) ==
  /\ p # NoPrice
  /\ entry.qty # 0
  /\ entry.cost \notin {p * entry.qty, -(p * entry.qty)}

Drifted(local, snap, told) ==
  {s \in snap.listed : \/ local.positions[s] # NetQty(snap.fills, s)
                       \/ EntryDiffers(local.entry[s], told.entry[s])}

(* Mutant: fills the ledger does not know are not looked for.              *)
ChecksWithoutMissing(local, events, snap, told) ==
  LET known == {o \in snap.open : local.orders[o] # NoRow} IN
  [stale       |-> told.stale,
   orphan      |-> known # snap.open,
   filled      |-> \E o \in known : local.orders[o].filled # FilledQty(snap.fills, o),
   reduce_only |-> \E o \in known : local.orders[o].reduce # (o \in ReduceOnly),
   missing     |-> FALSE,
   duplicate   |-> told.repeats \/ DuplicatesIn(events),
   drift       |-> Drifted(local, snap, told) # {}]

(* _reconciliation_blockers on orders, fills and positions.  Only what it  *)
(* says of the account's figures (risk_state, funding, equity, cash, pnl)  *)
(* is left out: their ledgers are not modelled.                            *)
Checks(local, events, snap, told) ==
  LET known == {o \in snap.open : local.orders[o] # NoRow} IN
  [stale       |-> told.stale,
   orphan      |-> known # snap.open,
   filled      |-> \E o \in known : local.orders[o].filled # FilledQty(snap.fills, o),
   reduce_only |-> \E o \in known : local.orders[o].reduce # (o \in ReduceOnly),
   missing     |-> \E f \in snap.fills : \A row \in local.fills : row.key # f.id,
   duplicate   |-> told.repeats \/ DuplicatesIn(events),
   drift       |-> Drifted(local, snap, told) # {}]

Blockers(local, events, snap, told) ==
  LET checks == Checks(local, events, snap, told) IN {b \in DOMAIN checks : checks[b]}

(* Mutant: the artifact is flattened but never paused.                     *)
SafeActionsUnpaused == <<"cancel_all", "flatten_all", "force_reconcile">>

(* _safe_actions_for_blockers, each journaled in a transaction of its own. *)
SafeActions == <<"pause_artifact", "cancel_all", "flatten_all", "force_reconcile">>

-----------------------------------------------------------------------------
Prefix(n) == SubSeq(ledger, 1, n)

(* The entry prices the gateway's file states are those that follow from   *)
(* the fills as the replay counts them, net cost by net quantity, and no   *)
(* account snapshot event has put another in their place.                  *)
PricesFollow(n, snap, told) ==
  \A s \in snap.listed :
    /\ ~EntryDiffers([cost |-> NetCost(snap.fills, s), qty |-> NetQty(snap.fills, s)],
                     told.entry[s])
    /\ \A i \in SnapshotEvents(Prefix(n), s) :
         i = Max(SnapshotEvents(Prefix(n), s)) =>
           ~EntryDiffers(EntryStated(ledger[i].entry), told.entry[s])

(* The gateway's file gives no reason of its own to block.                 *)
FileIsSound(n, snap, told) ==
  ~told.stale /\ ~told.repeats /\ PricesFollow(n, snap, told)

(* History fields: begun, the ledger's length when the snapshot was taken; *)
(* compared, its length at the comparison; sound, whether the file it read *)
(* was FileIsSound; resumed, whether an operator resumed the artifact      *)
(* since.                                                                  *)
NoSnapshot == [open |-> {}, fills |-> {}, listed |-> {}]
NoRun == [pc |-> "idle", snap |-> NoSnapshot, begun |-> 0, pass |-> 1, local |-> EmptyTables,
         sound |-> FALSE, compared |-> 0, step |-> 0, resumed |-> FALSE]

ReconcileInit ==
  /\ ledger = <<>>
  /\ tables = EmptyTables
  /\ venue = [open |-> {}, fills |-> {}]
  /\ artifact \in {"paper", "paused"}
  /\ rec = NoRun
  /\ runs = 0

(* The venue accepts an order, executes part of it, or closes it.          *)
VenueAccepts(o) ==
  /\ o \notin venue.open
  /\ \A f \in venue.fills : f.order # o
  /\ venue' = [venue EXCEPT !.open = @ \cup {o}]
  /\ UNCHANGED <<ledger, tables, artifact, rec, runs>>

VenueExecutes(f, closes) ==
  /\ f.order \in venue.open
  /\ f \notin venue.fills
  /\ venue' = [open |-> IF closes THEN venue.open \ {f.order} ELSE venue.open,
               fills |-> venue.fills \cup {f}]
  /\ UNCHANGED <<ledger, tables, artifact, rec, runs>>

(* The executor's appends: an order event with or without its reduce_only  *)
(* metadata, a fill (again and again, or never).                           *)
ReportOrder(o, s, reduce) ==
  /\ Len(ledger) < MaxReports
  /\ ledger' = Append(ledger,
       [type |-> "ORDER", order |-> o, symbol |-> s, side |-> "BUY", qty |-> 1,
        status |-> "ORDER_ACK", reduce |-> reduce])
  /\ UNCHANGED <<tables, venue, artifact, rec, runs>>

ReportFill(f) ==
  /\ Len(ledger) < MaxReports
  /\ f \in venue.fills
  /\ ledger' = Append(ledger,
       [type |-> "FILL", order |-> f.order, fill |-> f.id, symbol |-> f.symbol,
        side |-> f.side, qty |-> f.qty, price |-> f.price, status |-> "FILL", reduce |-> FALSE])
  /\ UNCHANGED <<tables, venue, artifact, rec, runs>>

(* An account event that lists the venue's position in a symbol, with the  *)
(* venue's entry price or none.                                            *)
ReportAccount(s, p) ==
  /\ Len(ledger) < MaxReports
  /\ ledger' = Append(ledger,
       [type |-> "SNAPSHOT", symbol |-> s, net |-> NetQty(venue.fills, s), entry |-> p])
  /\ UNCHANGED <<tables, venue, artifact, rec, runs>>

-----------------------------------------------------------------------------
(* The snapshot file is read before anything else.                         *)
LoadSnapshot(snap) ==
  /\ rec.pc = "idle"
  /\ runs < MaxRuns
  /\ rec' = [NoRun EXCEPT !.pc = "base", !.snap = snap, !.begun = Len(ledger)]
  /\ runs' = runs + 1
  /\ UNCHANGED <<ledger, tables, venue, artifact>>

(* Mutant: the function trusts the tables the last rebuild left.           *)
RebuildSkipped ==
  /\ rec.pc = "base"
  /\ rec' = [rec EXCEPT !.pc = "overlay"]
  /\ UNCHANGED <<ledger, tables, venue, artifact, runs>>

(* rebuild_execution_projections, the first transaction of a pass.         *)
RebuildBase ==
  /\ rec.pc = "base"
  /\ tables' = Replay(ledger)
  /\ rec' = [rec EXCEPT !.pc = "overlay"]
  /\ UNCHANGED <<ledger, venue, artifact, runs>>

(* The second transaction of a pass; the whole pass is run twice.          *)
RebuildOverlay ==
  /\ rec.pc = "overlay"
  /\ tables' = Overlay(tables, ledger)
  /\ rec' = [rec EXCEPT !.pc = IF rec.pass = 1 THEN "base" ELSE "orders",
                        !.pass = 2]
  /\ UNCHANGED <<ledger, venue, artifact, runs>>

(* _load_local_projection: one SELECT per table, each on its own snapshot  *)
(* of the database.                                                        *)
LoadOrders ==
  /\ rec.pc = "orders"
  /\ rec' = [rec EXCEPT !.pc = "fills", !.local.orders = tables.orders]
  /\ UNCHANGED <<ledger, tables, venue, artifact, runs>>

LoadFills ==
  /\ rec.pc = "fills"
  /\ rec' = [rec EXCEPT !.pc = "positions", !.local.fills = tables.fills]
  /\ UNCHANGED <<ledger, tables, venue, artifact, runs>>

LoadPositions ==
  /\ rec.pc = "positions"
  /\ rec' = [rec EXCEPT !.pc = "compare", !.local.positions = tables.positions,
                        !.local.entry = tables.entry]
  /\ UNCHANGED <<ledger, tables, venue, artifact, runs>>

(* The comparison; _local_duplicate_fill_count reads the ledger as of now. *)
(* What the gateway's file states besides orders, fills and positions is   *)
(* read here and nowhere else, so it is chosen here.  What was read of the *)
(* tables is done with once a blocker is found; which one is found changes *)
(* nothing but the report.                                                 *)
Compare(told) ==
  /\ rec.pc = "compare"
  /\ LET found == Blockers(rec.local, ledger, rec.snap, told) IN
       rec' = IF found = {}
                THEN [rec EXCEPT !.pc = "done", !.compared = Len(ledger)]
                ELSE [rec EXCEPT !.pc = "act", !.compared = Len(ledger), !.local = EmptyTables,
                                 !.sound = FileIsSound(rec.begun, rec.snap, told)]
  /\ UNCHANGED <<ledger, tables, venue, artifact, runs>>

(* apply_human_override for the next safe action: only pause_artifact      *)
(* changes anything besides the journal.  What was compared is forgotten.  *)
Journal ==
  /\ rec.pc = "act"
  /\ LET i == rec.step + 1 IN
       /\ artifact' = IF SafeActions[i] = "pause_artifact" THEN "paused" ELSE artifact
       /\ rec' = [NoRun EXCEPT !.step = i, !.resumed = (i > 1 /\ rec.resumed),
                              !.pc = IF i = Len(SafeActions) THEN "done" ELSE "act"]
  /\ UNCHANGED <<ledger, tables, venue, runs>>

(* The report is written and the command ends.                             *)
Finish ==
  /\ rec.pc = "done"
  /\ rec' = NoRun
  /\ UNCHANGED <<ledger, tables, venue, artifact, runs>>

(* The process dies; what it committed stays.                              *)
Crash ==
  /\ rec.pc \notin {"idle", "done"}
  /\ rec' = NoRun
  /\ UNCHANGED <<ledger, tables, venue, artifact, runs>>

(* Other runs of the command, any number of them at any point: what        *)
(* touches this one are their two kinds of transaction.  Only from its     *)
(* second rebuild to its last read: before, its own rebuild hides them.    *)
Exposed ==
  \/ rec.pc = "overlay" /\ rec.pass = 2
  \/ rec.pc \in {"orders", "fills", "positions"}

OtherBase ==
  /\ Exposed
  /\ tables' = Replay(ledger)
  /\ UNCHANGED <<ledger, venue, artifact, rec, runs>>

OtherOverlay ==
  /\ Exposed
  /\ tables' = Overlay(tables, ledger)
  /\ UNCHANGED <<ledger, venue, artifact, rec, runs>>

(* resume_artifact, issued by an operator.                                 *)
Resume ==
  /\ artifact = "paused"
  /\ artifact' = "paper"
  /\ rec' = [rec EXCEPT !.resumed = rec.pc # "idle"]
  /\ UNCHANGED <<ledger, tables, venue, runs>>

ReconcileNext ==
  \/ \E o \in Orders : VenueAccepts(o)
  \/ \E f \in Fills, closes \in BOOLEAN : VenueExecutes(f, closes)
  \/ \E o \in Orders : \E s \in Symbols, reduce \in {FALSE, (o \in ReduceOnly)} :
       ReportOrder(o, s, reduce)
  \/ \E f \in Fills : ReportFill(f)
  \/ \E s \in Symbols, p \in Prices \cup {NoPrice} : ReportAccount(s, p)
  \/ \E snap \in Snapshots(venue) : LoadSnapshot(snap)
  \/ RebuildBase \/ RebuildOverlay
  \/ LoadOrders \/ LoadFills \/ LoadPositions
  \/ \E told \in Stated : Compare(told)
  \/ Journal \/ Finish \/ Crash
  \/ OtherBase \/ OtherOverlay
  \/ Resume

ReconcileSpec == ReconcileInit /\ [][ReconcileNext]_reconcileVars

-----------------------------------------------------------------------------
(* The venue's fills of which the first n rows of the ledger hold a report.*)
ReportedFills(n) == {f \in Fills : ReportsOf(Prefix(n), f.id) # {}}

EventsOf(n, o) ==
  {i \in 1..n : ledger[i].type \in {"ORDER", "FILL"} /\ ledger[i].order = o}

Matched == rec.pc = "done" /\ rec.step = 0
Halting == rec.pc = "act" /\ rec.step = 0

(* A matched verdict is right about the ledger itself, not just about      *)
(* tables that other processes keep deleting and refilling: every fill of  *)
(* the gateway is in the ledger, none was there twice, and for one state   *)
(* of the ledger since the snapshot every open order is known with exactly *)
(* the filled quantity the gateway reports.                                *)
MatchedIsTrue ==
  Matched =>
    LET snap == rec.snap IN
    /\ snap.fills \subseteq ReportedFills(Len(ledger))
    /\ ~DuplicatesIn(Prefix(rec.compared))
    /\ \E n \in rec.begun..Len(ledger) : \A o \in snap.open :
         /\ EventsOf(n, o) # {}
         /\ FilledQty(ReportedFills(n), o) = FilledQty(snap.fills, o)

(* The ledger tells all the snapshot tells: each fill once, every open     *)
(* order, its reduce_only flag last, and no account snapshot that a fill   *)
(* has outdated.                                                           *)
LedgerComplete(n, snap) ==
  /\ ReportedFills(n) = snap.fills
  /\ ~DuplicatesIn(Prefix(n))
  /\ \A o \in snap.open : /\ EventsOf(n, o) # {}
                           /\ ledger[Max(EventsOf(n, o))].reduce = (o \in ReduceOnly)
  /\ \A s \in Symbols : \A i \in SnapshotEvents(Prefix(n), s) :
       i = Max(SnapshotEvents(Prefix(n), s)) => ledger[i].net = NetQty(snap.fills, s)
  /\ \A s \in snap.listed : \E f \in snap.fills : f.symbol = s

(* No false alarm: with a complete ledger nobody appends to meanwhile, and *)
(* a gateway file that is fresh, repeats no fill and states entry prices   *)
(* that follow from its fills, the artifact is not halted, even when       *)
(* another reconciler is between the two transactions of its own rebuild.  *)
(* The premise on prices is needed: of a buy of 2 at 100 and a sell of 1   *)
(* at 120 the replay makes an entry price of 80.  A gateway that keeps the *)
(* price of what is held at 100 blocks a ledger that lacks nothing.        *)
CompleteLedgerMatches ==
  Halting /\ rec.compared = rec.begun /\ rec.sound => ~LedgerComplete(rec.begun, rec.snap)

(* A report that says "blocked" leaves the artifact paused unless an       *)
(* operator resumed it afterwards, whatever other runs do meanwhile.       *)
BlockedIsPaused ==
  rec.pc = "done" /\ ~Matched => artifact = "paused" \/ rec.resumed

(* docs/runbooks/halt_and_repair.md:11 lists "position mismatch" among the *)
(* conditions that stop exposure growth; the code compares only symbols    *)
(* the gateway lists, with positions an older account snapshot may have    *)
(* overwritten.  So a matched verdict over a ledger nobody appended to may *)
(* leave a position on the books that the gateway does not hold.           *)
PositionMismatchDetected ==
  Matched /\ rec.compared = rec.begun =>
    \A s \in Symbols :
      (IF rec.local.positions[s] = NoRow THEN 0 ELSE rec.local.positions[s])
        = NetQty(rec.snap.fills, s)
=============================================================================
