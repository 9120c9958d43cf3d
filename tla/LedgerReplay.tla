---------------------------- MODULE LedgerReplay ----------------------------
(***************************************************************************)
(* How one row of the append-only table execution_events changes the      *)
(* projection tables orders_live, fills, positions and risk_state when     *)
(* memory/store.py rebuild_execution_projections replays it.  Pure         *)
(* operators: ExecutionLedger drives them one row at a time under the      *)
(* write lock, Reconciliation uses the whole replay at once.               *)
(***************************************************************************)
EXTENDS Integers, Sequences

CONSTANTS
  Orders,    (* order_id_client values                                     *)
  FillIds,   (* metadata.fill_id values the gateway hands out              *)
  Symbols,
  Statuses,  (* the status column, or the event type where it is NULL      *)
  Reasons,   (* reason_code of a RISK_BLOCK                                *)
  NoOrder,   (* order_id_client IS NULL                                    *)
  NoFill,    (* metadata carries no fill_id                                *)
  NoPrice,   (* a position event that states no entry_price                *)
  NoRow      (* the table has no row under this key                        *)

(***************************************************************************)
(* A row as far as the replay reads it.  The event types fall into the     *)
(* classes the loop tells apart: the ten order events that are not fills,  *)
(* the three fill events, RISK_BLOCK, and the account snapshots that only  *)
(* the second phase of a reconciliation reads.  A NULL price counts as 0.  *)
(***************************************************************************)
Event ==
       [type : {"ORDER"}, order : Orders \cup {NoOrder}, symbol : Symbols,
        side : {"BUY", "SELL"}, qty : Nat, status : Statuses, reduce : BOOLEAN]
  \cup [type : {"FILL"}, order : Orders \cup {NoOrder}, fill : FillIds \cup {NoFill},
        symbol : Symbols, side : {"BUY", "SELL"}, qty : Nat, price : Nat,
        status : Statuses, reduce : BOOLEAN]
  \cup [type : {"RISK_BLOCK"}, reason : Reasons]
  \cup [type : {"SNAPSHOT"}, symbol : Symbols, net : Int, entry : Nat \cup {NoPrice}]

(* reduce is the metadata_json column as far as anyone reads it back.       *)
OrderRow == [qty : Nat, filled : Nat, status : Statuses, reduce : BOOLEAN, last : Nat]

FillRow == [key : FillIds \cup Nat, order : Orders, symbol : Symbols,
            signed : Int, source : Nat]

(* positions.entry_price: the size of cost / qty, NULL where qty is 0.      *)
Entry == [cost : Int, qty : Int]

(* The columns net_qty and entry_price of the table positions are kept     *)
(* apart, as positions and entry.                                          *)
Tables == [orders : [Orders -> OrderRow \cup {NoRow}],
           fills : SUBSET FillRow,
           positions : [Symbols -> Int \cup {NoRow}],
           entry : [Symbols -> Entry],
           risk : SUBSET Reasons]

ASSUME NamesAreDistinct ==
  /\ NoOrder \notin Orders
  /\ NoFill \notin FillIds
  /\ NoPrice \notin Nat
  /\ NoRow \notin OrderRow
  /\ NoRow \notin Int
  /\ FillIds \cap Nat = {}

NoEntry == [cost |-> 0, qty |-> 0]

(* The DELETE FROM the four projection tables that opens every rebuild.    *)
EmptyTables ==
  [orders    |-> [o \in Orders |-> NoRow],
   fills     |-> {},
   positions |-> [s \in Symbols |-> NoRow],
   entry     |-> [s \in Symbols |-> NoEntry],
   risk      |-> {}]

(* A SELL lowers the position, every other side raises it.                 *)
SignedQuantity(e) == IF e.side = "SELL" THEN -e.qty ELSE e.qty

SignedCost(e) == SignedQuantity(e) * e.price

(* A fill without a fill_id is keyed by its own event_id.                  *)
FillKey(e, id) == IF e.fill = NoFill THEN id ELSE e.fill

(* Only a fill that names its client order reaches the fills table.        *)
IsFill(e) == e.type = "FILL" /\ e.order # NoOrder

IsOrderEvent(e) == e.type \in {"ORDER", "FILL"} /\ e.order # NoOrder

FillRowOf(e, id) ==
  [key |-> FillKey(e, id), order |-> e.order, symbol |-> e.symbol,
   signed |-> SignedQuantity(e), source |-> id]

(* A symbol gets its positions row with its first fill.                    *)
NetAfter(t, e) ==
  (IF t.positions[e.symbol] = NoRow THEN 0 ELSE t.positions[e.symbol]) + SignedQuantity(e)

(* position_cost and position_qty of the symbol: the entry price of what   *)
(* is held is the net cost of all its fills by their net quantity, so a    *)
(* part sold at another price than it was bought moves it.                 *)
EntryAfter(t, e) ==
  [cost |-> t.entry[e.symbol].cost + SignedCost(e),
   qty  |-> t.entry[e.symbol].qty + SignedQuantity(e)]

(* Mutant: a fill is recognised by its event_id, never by its fill_id.     *)
UnseenByEvent(t, e, id) == IsFill(e) /\ \A f \in t.fills : f.source # id

(* seen_fill_ids is the set of keys of the rows inserted so far.           *)
Unseen(t, e, id) == IsFill(e) /\ \A f \in t.fills : f.key # FillKey(e, id)

(* Mutant: the filled quantity grows on every delivery of a fill.          *)
OrderRowGrowing(t, e, id) ==
  LET row == t.orders[e.order] IN
  [qty    |-> IF row = NoRow THEN e.qty ELSE row.qty,
   filled |-> (IF row = NoRow THEN 0 ELSE row.filled)
              + (IF IsFill(e) THEN e.qty ELSE 0),
   status |-> e.status,
   reduce |-> e.reduce,
   last   |-> id]

(* Mutant: a fill event is taken to report the cumulative quantity.        *)
OrderRowCumulative(t, e, id) ==
  LET row == t.orders[e.order] IN
  [qty    |-> IF row = NoRow THEN e.qty ELSE row.qty,
   filled |-> IF IsFill(e) THEN e.qty ELSE IF row = NoRow THEN 0 ELSE row.filled,
   status |-> e.status,
   reduce |-> e.reduce,
   last   |-> id]

(* The quantity of the first event of an order stays; the filled quantity  *)
(* grows by fills not seen before; the rest is the last event's.           *)
OrderRowAfter(t, e, id) ==
  LET row == t.orders[e.order] IN
  [qty    |-> IF row = NoRow THEN e.qty ELSE row.qty,
   filled |-> (IF row = NoRow THEN 0 ELSE row.filled)
              + (IF Unseen(t, e, id) THEN e.qty ELSE 0),
   status |-> e.status,
   reduce |-> e.reduce,
   last   |-> id]

(* One iteration of the replay loop on the event with event_id id.         *)
ApplyEvent(t, e, id) ==
  [orders    |-> IF IsOrderEvent(e)
                   THEN [t.orders EXCEPT ![e.order] = OrderRowAfter(t, e, id)]
                   ELSE t.orders,
   fills     |-> IF Unseen(t, e, id) THEN t.fills \cup {FillRowOf(e, id)} ELSE t.fills,
   positions |-> IF Unseen(t, e, id)
                   THEN [t.positions EXCEPT ![e.symbol] = NetAfter(t, e)]
                   ELSE t.positions,
   entry     |-> IF Unseen(t, e, id)
                   THEN [t.entry EXCEPT ![e.symbol] = EntryAfter(t, e)]
                   ELSE t.entry,
   risk      |-> IF e.type = "RISK_BLOCK" THEN t.risk \cup {e.reason} ELSE t.risk]

(* The tables after replaying a whole sequence of events from nothing.     *)
Replay(events) ==
  LET after[n \in 0..Len(events)] ==
        IF n = 0 THEN EmptyTables ELSE ApplyEvent(after[n - 1], events[n], n)
  IN  after[Len(events)]
=============================================================================
