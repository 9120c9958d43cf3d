------------------------------ MODULE BookSync ------------------------------
(***************************************************************************)
(* The order book rebuilt from recorded depth updates                      *)
(* (execution/paper_streams.py).                                           *)
(*                                                                         *)
(* A venue changes its book one level at a time and publishes the changes  *)
(* in updates U..u, each naming the final id of the update before it (pu). *)
(* The collector records what it receives under an id made of the payload  *)
(* hash, so a second delivery REPLACEs the first row and moves its receive *)
(* time.  Updates may be lost.                                             *)
(*                                                                         *)
(* rebuild_and_record_paper_book_state seeds a snapshot, reads the rows    *)
(* ordered by event time, receive time and id, and applies them one by one *)
(* (PaperBookStateBuilder.apply_depth_payload).  The id is a hash: rows    *)
(* that tie on both times come in any order.                               *)
(***************************************************************************)
EXTENDS Integers, Sequences, FiniteSets

CONSTANTS
  Levels,       (* the (side, price) pairs of the book                     *)
  MaxQty,       (* bound: quantities are 0..MaxQty, 0 removes the level    *)
  MaxChanges,   (* bound: changes the venue makes                          *)
  MaxDeliveries,(* bound: updates the collector receives                   *)
  MaxStaleness, (* max_staleness_ms, in clock ticks                        *)
  SendsPrevious,(* whether the venue's updates carry pu (USD-M: always)    *)
  NoId          (* an absent pu                                            *)

ASSUME BookSyncAssumption ==
  /\ MaxQty \in Nat /\ MaxChanges \in Nat /\ MaxDeliveries \in Nat
  /\ MaxStaleness \in Nat /\ SendsPrevious \in BOOLEAN /\ NoId \notin Nat

VARIABLES
  venue,     (* per change: the level it touched and the book after it     *)
  published, (* the updates the venue has sent, in order                   *)
  rows,      (* paper_stream_events: update index -> its receive time      *)
  clock,     (* receive time, which need not advance between deliveries    *)
  snapshot,  (* the REST snapshot handed to the rebuild                    *)
  pc,        (* "idle", "replaying" or "done"                              *)
  now,       (* now_utc of the rebuild                                     *)
  queue,     (* the rows the rebuild selected, in ORDER BY order           *)
  cursor,    (* how many of them were applied                              *)
  book,      (* the builder's book                                         *)
  health     (* the aggregate status recorded in executor_health           *)

vars == <<venue, published, rows, clock, snapshot, pc, now, queue, cursor, book, health>>

Book == [Levels -> 0..MaxQty]
Change == [level : Levels, book : Book]
Empty == [l \in Levels |-> 0]

BookAt(n) == IF n = 0 THEN Empty ELSE venue[n].book
LastId == Len(venue)
LastPublished == IF published = <<>> THEN 0 ELSE published[Len(published)].final
LastTime == IF published = <<>> THEN 0 ELSE published[Len(published)].time

Update == [first : Nat, final : Nat, prev : Nat \cup {NoId}, time : Nat,
           levels : SUBSET Levels, qty : Book]
Snapshot == [id : Nat, qty : Book, received : Nat]
NoSnapshot == [id |-> 0, qty |-> Empty, received |-> 0]

(* One record of _books: quantities, the ids, the counters and the status. *)
LocalBook == [snap : Nat, last : Nat, qty : Book, status : {"seeded", "active", "resync_required"},
              applied : Nat, gaps : Nat, dropped : Nat, received : Nat]

(* Mutant: last_depth_update_id is unset until the first applied update.   *)
SeededUnset(s) == [snap |-> s.id, last |-> NoId, qty |-> s.qty, status |-> "seeded",
                   applied |-> 0, gaps |-> 0, dropped |-> 0, received |-> s.received]

(* seed_snapshot.                                                          *)
Seeded(s) == [snap |-> s.id, last |-> s.id, qty |-> s.qty, status |-> "seeded",
              applied |-> 0, gaps |-> 0, dropped |-> 0, received |-> s.received]

Init ==
  /\ venue = <<>>
  /\ published = <<>>
  /\ rows = [i \in {} |-> 0]
  /\ clock = 0
  /\ snapshot = NoSnapshot
  /\ pc = "idle"
  /\ now = 0
  /\ queue = <<>>
  /\ cursor = 0
  /\ book = Seeded(NoSnapshot)
  /\ health = "none"

-----------------------------------------------------------------------------
(* The venue sets one level to another quantity (0 removes it).            *)
VenueChanges(l, q) ==
  /\ LastId < MaxChanges
  /\ q # BookAt(LastId)[l]
  /\ venue' = Append(venue, [level |-> l, book |-> [BookAt(LastId) EXCEPT ![l] = q]])
  /\ UNCHANGED <<published, rows, clock, snapshot, pc, now, queue, cursor, book, health>>

(* It publishes the changes since its last update: absolute quantities of  *)
(* the touched levels, stamped with a non-decreasing event time.           *)
VenuePublishes(t) ==
  /\ LastPublished < LastId
  /\ t \in {LastTime, LastTime + 1}
  /\ published' = Append(published,
       [first  |-> LastPublished + 1,
        final  |-> LastId,
        prev   |-> IF SendsPrevious THEN LastPublished ELSE NoId,
        time   |-> t,
        levels |-> {venue[k].level : k \in (LastPublished + 1)..LastId},
        qty    |-> BookAt(LastId)])
  /\ UNCHANGED <<venue, rows, clock, snapshot, pc, now, queue, cursor, book, health>>

(* record_paper_stream_event of an update that arrives, perhaps again.     *)
Receive(i, tick) ==
  /\ i \in 1..Len(published)
  /\ clock + tick < MaxDeliveries
  /\ clock' = clock + tick
  /\ rows' = [j \in DOMAIN rows \cup {i} |-> IF j = i THEN clock' ELSE rows[j]]
  /\ UNCHANGED <<venue, published, snapshot, pc, now, queue, cursor, book, health>>

(* The operator saves a REST snapshot of the book for the rebuild.         *)
TakeSnapshot ==
  /\ pc # "replaying"
  /\ snapshot' = [id |-> LastId, qty |-> BookAt(LastId), received |-> clock]
  /\ UNCHANGED <<venue, published, rows, clock, pc, now, queue, cursor, book, health>>

-----------------------------------------------------------------------------
Ordered(i, j) ==
  \/ published[i].time < published[j].time
  \/ published[i].time = published[j].time /\ rows[i] <= rows[j]

(* Mutant: the SELECT orders by the receive time alone.                    *)
RowOrdersByReceipt ==
  {q \in [1..Cardinality(DOMAIN rows) -> DOMAIN rows] :
     /\ \A i, j \in DOMAIN q : i < j => q[i] # q[j] /\ rows[q[i]] <= rows[q[j]]}

(* The orders the SELECT may return its rows in.                           *)
RowOrders ==
  {q \in [1..Cardinality(DOMAIN rows) -> DOMAIN rows] :
     /\ \A i, j \in DOMAIN q : i < j => q[i] # q[j] /\ Ordered(q[i], q[j])}

SelectedRow == [update : Update, at : Nat]

(* Seeding and the read-only SELECT: rows recorded later are not seen.     *)
BeginRebuild ==
  /\ pc # "replaying"
  /\ \E q \in RowOrders :
       queue' = [k \in 1..Len(q) |-> [update |-> published[q[k]], at |-> rows[q[k]]]]
  /\ now' = clock
  /\ book' = Seeded(snapshot)
  /\ cursor' = 0
  /\ pc' = "replaying"
  /\ UNCHANGED <<venue, published, rows, clock, snapshot, health>>

(* apply_depth_payload: an update older than the snapshot is dropped, the  *)
(* first applied one must contain the snapshot's id, the others must       *)
(* continue the last one.                                                  *)
Bridges(b, u) == u.first <= b.snap /\ b.snap <= u.final

Continues(b, u) ==
  IF u.prev # NoId THEN u.prev = b.last ELSE u.first <= b.last + 1

IsStaleUpdate(b, u) == u.final < b.snap

Gap(b, u) ==
  IF b.applied = 0 THEN ~Bridges(b, u) ELSE ~Continues(b, u)

(* Mutant: an applied update makes the book active again.                  *)
AppliedAndActive(b, u, at) ==
  [b EXCEPT !.qty = [l \in Levels |-> IF l \in u.levels THEN u.qty[l] ELSE b.qty[l]],
            !.last = u.final, !.applied = @ + 1, !.received = at, !.status = "active"]

(* Mutant: levels removed by the update (quantity 0) stay in the book.     *)
AppliedWithoutRemovals(b, u, at) ==
  [b EXCEPT !.qty = [l \in Levels |-> IF l \in u.levels /\ u.qty[l] > 0
                                        THEN u.qty[l] ELSE b.qty[l]],
            !.last = u.final, !.applied = @ + 1, !.received = at,
            !.status = IF @ = "resync_required" THEN @ ELSE "active"]

(* _apply_book_side on both sides, then the ids, counters and status; a    *)
(* book that once needed a resync keeps saying so.                         *)
Applied(b, u, at) ==
  [b EXCEPT !.qty = [l \in Levels |-> IF l \in u.levels THEN u.qty[l] ELSE b.qty[l]],
            !.last = u.final, !.applied = @ + 1, !.received = at,
            !.status = IF @ = "resync_required" THEN @ ELSE "active"]

ApplyPayload(b, u, at) ==
  IF IsStaleUpdate(b, u) THEN [b EXCEPT !.dropped = @ + 1]
  ELSE IF Gap(b, u) THEN [b EXCEPT !.status = "resync_required", !.gaps = @ + 1]
  ELSE Applied(b, u, at)

ApplyNext ==
  /\ pc = "replaying"
  /\ cursor < Len(queue)
  /\ cursor' = cursor + 1
  /\ book' = ApplyPayload(book, queue[cursor + 1].update, queue[cursor + 1].at)
  /\ UNCHANGED <<venue, published, rows, clock, snapshot, pc, now, queue, health>>

(* _aggregate_book_status of the one book.                                 *)
AggregateStatus(b) ==
  IF b.status = "resync_required" THEN "resync_required"
  ELSE IF now - b.received > MaxStaleness THEN "stale"
  ELSE "active"

FinishRebuild ==
  /\ pc = "replaying"
  /\ cursor = Len(queue)
  /\ health' = AggregateStatus(book)
  /\ pc' = "done"
  /\ UNCHANGED <<venue, published, rows, clock, snapshot, now, queue, cursor, book>>

Next ==
  \/ \E l \in Levels, q \in 0..MaxQty : VenueChanges(l, q)
  \/ \E t \in 0..MaxChanges : VenuePublishes(t)
  \/ \E i \in 1..MaxChanges, tick \in {0, 1} : Receive(i, tick)
  \/ TakeSnapshot
  \/ BeginRebuild
  \/ ApplyNext
  \/ FinishRebuild

Spec == Init /\ [][Next]_vars

-----------------------------------------------------------------------------
(* Mutant: the replay compares first ids even when the update carries pu.  *)
ReplayGapsByFirstId(q) ==
  {i \in 2..Len(q) : q[i].update.first > q[i - 1].update.final + 1}

(* replay_paper_stream_events: the gaps it counts over the same rows.      *)
ReplayGaps(q) ==
  {i \in 2..Len(q) :
     LET u == q[i].update
         before == q[i - 1].update.final
     IN IF u.prev # NoId THEN u.prev # before ELSE u.first > before + 1}

GapCount(q) == Cardinality(ReplayGaps(q))

-----------------------------------------------------------------------------
(* Types of the venue, the recorded rows and the rebuild.                  *)
TypeOK ==
  /\ venue \in Seq(Change)
  /\ published \in Seq(Update)
  /\ DOMAIN rows \subseteq 1..Len(published)
  /\ \A i \in DOMAIN rows : rows[i] \in Nat
  /\ clock \in Nat /\ now \in Nat
  /\ snapshot \in Snapshot
  /\ pc \in {"idle", "replaying", "done"}
  /\ queue \in Seq(SelectedRow)
  /\ cursor \in 0..Len(queue)
  /\ book \in LocalBook
  /\ health \in {"none", "active", "stale", "resync_required"}

(* Whatever updates were lost, delivered twice or read in the wrong order, *)
(* the rebuilt book is at every moment the venue's own book as it was at   *)
(* last_depth_update_id, also after a resync was called for                *)
(* (apply_depth_payload).                                                  *)
BookIsVenueBook ==
  /\ book.last \in 0..LastId
  /\ book.qty = BookAt(book.last)

Selected == {queue[k].update : k \in 1..Len(queue)}
Relevant == {u \in Selected : ~IsStaleUpdate(book, u)}

DistinctTimes == \A u, w \in Selected : u # w => u.time # w.time

(* The rows hold every update from the one that contains the snapshot on,  *)
(* and event times tell them apart.                                        *)
CompleteRecording ==
  /\ DistinctTimes
  /\ \E u \in Relevant : Bridges(book, u)
  /\ \A i \in 1..Len(published) :
       (/\ book.snap <= published[i].final
        /\ \E w \in Selected : published[i].final <= w.final)
          => published[i] \in Selected

(* A finished rebuild that does not ask for a resync misses nothing: no    *)
(* recorded update is newer than the book, and every update the venue      *)
(* published between the snapshot and the book was recorded and applied.   *)
(* Nor does it cry wolf: with a complete recording it never asks, in       *)
(* whatever order the rows were received.                                  *)
ResyncIffGap ==
  pc = "done" =>
    /\ book.status # "resync_required" =>
         /\ \A u \in Selected : u.final <= book.last
         /\ \A i \in 1..Len(published) :
              (book.snap < published[i].final /\ published[i].final <= book.last)
                => published[i] \in Selected
         /\ book.applied = Cardinality(Relevant)
    /\ CompleteRecording => book.status # "resync_required"

(* The two readers of the same rows agree: if the stream replay counted no *)
(* gap and an update that contains the snapshot was recorded, the book     *)
(* needed no resync; and with a book that needed none, every gap it        *)
(* counted touches a row older than the snapshot.                          *)
ReadersAgree ==
  pc = "done" =>
    /\ (GapCount(queue) = 0 /\ \E u \in Relevant : Bridges(book, u))
         => book.status # "resync_required"
    /\ book.status # "resync_required" =>
         \A i \in ReplayGaps(queue) :
           \E k \in {i - 1, i} : IsStaleUpdate(book, queue[k].update)
=============================================================================
