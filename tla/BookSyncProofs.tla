--------------------------- MODULE BookSyncProofs ---------------------------
(***************************************************************************)
(* For every set of levels, every history of the venue and every loss,     *)
(* repetition and order of updates: the rebuilt book is the venue's book   *)
(* at last_depth_update_id, a resync is asked for exactly when an update   *)
(* that matters is missing, and the two readers of the rows agree.  The    *)
(* venue must send pu, as USD-M futures do; the types need no such thing.  *)
(*                                                                         *)
(* None of it is inductive.  An update only carries the levels it touched, *)
(* so one must know that the others did not change in between: Coherent    *)
(* says so of the venue's history, and SoundUpdate ties each published,    *)
(* and therefore each selected, update to that history.  What a rebuild    *)
(* has seen is said of the rows up to its cursor (NoGapSoFar) and of the   *)
(* order the venue published in (Timeline).                                *)
(***************************************************************************)
EXTENDS BookSync, FiniteSetTheorems, WellFoundedInduction, TLAPS

VenueTyped == venue \in Seq(Change)

(* A level no change from m+1 to n touches has one quantity at m and n.    *)
Coherent ==
  \A m, n \in 0..LastId : m <= n =>
    \A l \in Levels :
      (\A k \in (m + 1)..n : venue[k].level # l) => BookAt(m)[l] = BookAt(n)[l]

SoundUpdate(u) ==
  /\ u.first \in Nat /\ u.final \in Nat
  /\ 0 < u.first /\ u.first <= u.final /\ u.final <= LastId
  /\ u.prev # NoId /\ u.prev + 1 = u.first /\ u.prev \in Nat
  /\ u.levels = {venue[k].level : k \in u.first..u.final}
  /\ u.qty = BookAt(u.final)

Published == {published[i] : i \in 1..Len(published)}

PublishedSound ==
  /\ published \in Seq(Update)
  /\ \A u \in Published : SoundUpdate(u)

RowsKnown == DOMAIN rows \subseteq 1..Len(published)

QueueSound ==
  /\ Len(queue) \in Nat
  /\ \A u \in Selected : SoundUpdate(u)

SnapshotSound == snapshot.id \in 0..LastId /\ snapshot.qty = BookAt(snapshot.id)

(* Before the first applied update the book is still the snapshot.         *)
BookSound ==
  /\ book.snap \in 0..LastId
  /\ book.applied \in Nat
  /\ book.applied = 0 => book.last = book.snap
  /\ DOMAIN book = {"snap", "last", "qty", "status", "applied", "gaps", "dropped", "received"}
  /\ BookIsVenueBook

IInv ==
  /\ VenueTyped /\ Coherent /\ PublishedSound /\ RowsKnown
  /\ cursor \in Nat /\ QueueSound /\ SnapshotSound /\ BookSound

-----------------------------------------------------------------------------
(* The venue's book at each of its ids is a book.                          *)
LEMMA BookAtTyped ==
  ASSUME VenueTyped, NEW n \in 0..LastId
  PROVE  BookAt(n) \in Book
<1>2. Empty \in Book
  BY BookSyncAssumption DEF Empty, Book
<1>3. CASE n = 0
  BY <1>2, <1>3 DEF BookAt
<1>4. CASE n # 0
  <2>1. n \in 1..Len(venue)
    BY <1>4 DEF LastId, VenueTyped
  <2>2. venue[n] \in Change
    BY <2>1 DEF VenueTyped
  <2>3. venue[n].book \in Book
    BY <2>2 DEF Change
  <2> QED
    BY <1>4, <2>3 DEF BookAt
<1> QED
  BY <1>3, <1>4

(* An update that starts at or before the id after m and ends at or after  *)
(* m turns the book at m into the book at its final id.                    *)
LEMMA UpdateAdvancesBook ==
  ASSUME VenueTyped, Coherent, NEW u, SoundUpdate(u),
         NEW m \in 0..LastId, u.first <= m + 1, m <= u.final
  PROVE  [l \in Levels |-> IF l \in u.levels THEN u.qty[l] ELSE BookAt(m)[l]]
           = BookAt(u.final)
<1>1. u.final \in 0..LastId
  BY DEF SoundUpdate, LastId, VenueTyped
<1>2. BookAt(u.final) \in [Levels -> 0..MaxQty]
  BY <1>1, BookAtTyped DEF Book
<1>3. ASSUME NEW l \in Levels, l \notin u.levels
      PROVE  BookAt(m)[l] = BookAt(u.final)[l]
  <2>1. \A k \in (m + 1)..u.final : k \in u.first..u.final
    BY <1>1 DEF SoundUpdate, LastId, VenueTyped
  <2>2. \A k \in (m + 1)..u.final : venue[k].level # l
    BY <1>3, <2>1 DEF SoundUpdate
  <2> QED
    BY <1>1, <2>2 DEF Coherent
<1>4. u.qty = BookAt(u.final)
  BY DEF SoundUpdate
<1> QED
  BY <1>2, <1>3, <1>4

(* A step of the venue leaves its past alone.                              *)
LEMMA PastStands ==
  ASSUME VenueTyped, NEW l \in Levels, NEW q \in 0..MaxQty, VenueChanges(l, q)
  PROVE  /\ LastId' = LastId + 1
         /\ \A k \in 1..LastId : venue'[k] = venue[k]
         /\ venue'[LastId + 1] = [level |-> l, book |-> [BookAt(LastId) EXCEPT ![l] = q]]
         /\ \A n \in 0..LastId : BookAt(n)' = BookAt(n)
<1>1. /\ LastId' = LastId + 1
      /\ \A k \in 1..LastId : venue'[k] = venue[k]
      /\ venue'[LastId + 1] = [level |-> l, book |-> [BookAt(LastId) EXCEPT ![l] = q]]
  BY DEF VenueChanges, VenueTyped, LastId
<1>2. \A n \in 0..LastId : n = 0 \/ n \in 1..LastId
  BY DEF LastId, VenueTyped
<1> QED
  BY <1>1, <1>2 DEF BookAt

(* Updates stay sound when the venue moves on.                             *)
LEMMA SoundStable ==
  ASSUME VenueTyped, NEW l \in Levels, NEW q \in 0..MaxQty, VenueChanges(l, q),
         NEW u, SoundUpdate(u)
  PROVE  /\ u.final <= LastId'
         /\ u.levels = {venue'[k].level : k \in u.first..u.final}
         /\ u.qty = BookAt(u.final)'
<1>1. LastId \in Nat
  BY DEF LastId, VenueTyped
<1>2. \A k \in u.first..u.final : k \in 1..LastId
  BY <1>1 DEF SoundUpdate
<1>3. u.final \in 0..LastId
  BY <1>1 DEF SoundUpdate
<1>4. /\ LastId' = LastId + 1
      /\ \A k \in 1..LastId : venue'[k] = venue[k]
      /\ BookAt(u.final)' = BookAt(u.final)
  BY <1>3, PastStands
<1> QED
  BY <1>1, <1>2, <1>4 DEF SoundUpdate

LEMMA InitIInv == Init => IInv
<1> SUFFICES ASSUME Init PROVE IInv
  OBVIOUS
<1>1. LastId = 0
  BY DEF Init, LastId
<1>2. VenueTyped /\ PublishedSound /\ RowsKnown /\ QueueSound /\ cursor \in Nat
  BY DEF Init, VenueTyped, PublishedSound, RowsKnown, QueueSound, Published, Selected
<1>3. Coherent
  BY <1>1 DEF Coherent
<1>4. SnapshotSound /\ BookSound
  BY <1>1 DEF Init, SnapshotSound, BookSound, BookIsVenueBook, Seeded, NoSnapshot, BookAt
<1> QED
  BY <1>2, <1>3, <1>4 DEF IInv

(* The venue's history stays coherent: its next book differs from the last *)
(* one only at the level it touched.                                       *)
LEMMA VenueStep ==
  ASSUME IInv, NEW l \in Levels, NEW q \in 0..MaxQty, VenueChanges(l, q)
  PROVE  IInv'
<1> DEFINE N == LastId
<1>1. VenueTyped /\ Coherent /\ N \in Nat
  BY DEF IInv, VenueTyped, LastId
<1>2. /\ LastId' = N + 1
      /\ \A k \in 1..N : venue'[k] = venue[k]
      /\ venue'[N + 1] = [level |-> l, book |-> [BookAt(N) EXCEPT ![l] = q]]
      /\ \A n \in 0..N : BookAt(n)' = BookAt(n)
  BY <1>1, PastStands
<1>3. BookAt(N) \in Book
  BY <1>1, BookAtTyped
<1>4. VenueTyped'
  <2>1. [level |-> l, book |-> [BookAt(N) EXCEPT ![l] = q]] \in Change
    BY <1>3 DEF Book, Change
  <2> QED
    BY <1>1, <2>1 DEF VenueTyped, VenueChanges
<1>5. \A n \in Nat : n = N + 1 => BookAt(n)' = [BookAt(N) EXCEPT ![l] = q]
  BY <1>1, <1>2 DEF BookAt
<1>6. Coherent'
  <2> SUFFICES ASSUME NEW m \in 0..(N + 1), NEW n \in 0..(N + 1), m <= n, NEW k \in Levels,
                      \A i \in (m + 1)..n : venue'[i].level # k
               PROVE  BookAt(m)'[k] = BookAt(n)'[k]
    BY <1>2 DEF Coherent
  <2>1. CASE n \in 0..N
    <3>1. m \in 0..N /\ \A i \in (m + 1)..n : i \in 1..N
      BY <2>1, <1>1
    <3> QED
      BY <2>1, <3>1, <1>1, <1>2 DEF Coherent
  <2>2. CASE n = N + 1 /\ m = N + 1
    BY <2>2
  <2>3. CASE n = N + 1 /\ m \in 0..N
    <3>1. N + 1 \in (m + 1)..n
      BY <2>3, <1>1
    <3>2. k # l
      BY <3>1, <1>2
    <3>3. \A i \in (m + 1)..N : i \in (m + 1)..n /\ i \in 1..N
      BY <2>3, <1>1
    <3>4. BookAt(m)[k] = BookAt(N)[k]
      BY <3>3, <2>3, <1>1, <1>2 DEF Coherent
    <3>5. BookAt(n)'[k] = BookAt(N)[k]
      <4>1. BookAt(n)' = [BookAt(N) EXCEPT ![l] = q]
        BY <2>3, <1>1, <1>5
      <4> QED
        BY <4>1, <1>3, <3>2 DEF Book
    <3> QED
      BY <3>4, <3>5, <2>3, <1>2
  <2> QED
    BY <2>1, <2>2, <2>3, <1>1
<1>7. UNCHANGED <<published, rows, snapshot, queue, cursor, book>>
  BY DEF VenueChanges
<1>8. PublishedSound' /\ QueueSound' /\ RowsKnown' /\ cursor' \in Nat
  <2>1. ASSUME NEW u, SoundUpdate(u) PROVE SoundUpdate(u)'
    BY <2>1, <1>1, SoundStable DEF SoundUpdate
  <2>2. Published' = Published /\ Selected' = Selected
    BY <1>7 DEF Published, Selected
  <2> QED
    BY <2>1, <2>2, <1>7 DEF IInv, PublishedSound, QueueSound, RowsKnown
<1>9. SnapshotSound' /\ BookSound'
  BY <1>1, <1>2, <1>7 DEF IInv, SnapshotSound, BookSound, BookIsVenueBook
<1> QED
  BY <1>4, <1>6, <1>8, <1>9 DEF IInv

(* Applying any selected update leaves the venue's book at the new id: it  *)
(* contains the snapshot, or its pu is the book's id.                      *)
LEMMA ApplyStep ==
  ASSUME IInv, ApplyNext
  PROVE  IInv'
<1> DEFINE u == queue[cursor + 1].update
           at == queue[cursor + 1].at
<1>1. UNCHANGED <<venue, published, rows, snapshot, queue>> /\ cursor' = cursor + 1
      /\ book' = ApplyPayload(book, u, at)
  BY DEF ApplyNext
<1>2. SoundUpdate(u)
  <2>1. cursor + 1 \in 1..Len(queue)
    BY DEF ApplyNext, IInv, QueueSound
  <2> QED
    BY <2>1 DEF IInv, QueueSound, Selected
<1>3. LastId \in Nat /\ book.last \in 0..LastId /\ book.snap \in 0..LastId
  BY DEF IInv, BookSound, BookIsVenueBook, LastId, VenueTyped
<1>4. BookSound'
  <2> HIDE DEF u, at
  <2>1. CASE IsStaleUpdate(book, u)
    <3>1. book' = [book EXCEPT !.dropped = @ + 1]
      BY <1>1, <2>1 DEF ApplyPayload
    <3> QED
      BY <1>1, <3>1 DEF IInv, BookSound, BookIsVenueBook, BookAt, LastId
  <2>2. CASE ~IsStaleUpdate(book, u) /\ Gap(book, u)
    <3>1. book' = [book EXCEPT !.status = "resync_required", !.gaps = @ + 1]
      BY <1>1, <2>2 DEF ApplyPayload
    <3> QED
      BY <1>1, <3>1 DEF IInv, BookSound, BookIsVenueBook, BookAt, LastId
  <2>3. CASE ~IsStaleUpdate(book, u) /\ ~Gap(book, u)
    <3>1. book' = Applied(book, u, at)
      BY <1>1, <2>3 DEF ApplyPayload
    <3>2. u.first <= book.last + 1 /\ book.last <= u.final
      <4>1. CASE book.applied = 0
        BY <4>1, <2>3, <1>2, <1>3 DEF Gap, Bridges, IInv, BookSound, SoundUpdate
      <4>2. CASE book.applied # 0
        BY <4>2, <2>3, <1>2, <1>3 DEF Gap, Continues, SoundUpdate
      <4> QED
        BY <4>1, <4>2
    <3>3. [l \in Levels |-> IF l \in u.levels THEN u.qty[l] ELSE BookAt(book.last)[l]]
            = BookAt(u.final)
      BY <3>2, <1>2, <1>3, UpdateAdvancesBook DEF IInv
    <3>4. book.qty = BookAt(book.last)
      BY DEF IInv, BookSound, BookIsVenueBook
    <3>5. /\ book'.qty = [l \in Levels |-> IF l \in u.levels THEN u.qty[l] ELSE book.qty[l]]
          /\ book'.last = u.final /\ book'.snap = book.snap /\ book'.applied = book.applied + 1
          /\ DOMAIN book' = DOMAIN book
      BY <3>1 DEF Applied, IInv, BookSound
    <3>6. book'.qty = BookAt(u.final)
      BY <3>3, <3>4, <3>5
    <3>7. u.final \in 0..LastId
      BY <1>2, <1>3 DEF SoundUpdate
    <3>8. BookIsVenueBook'
      BY <1>1, <3>5, <3>6, <3>7 DEF BookIsVenueBook, BookAt, LastId
    <3>9. book'.snap \in 0..LastId' /\ book'.applied \in Nat /\ book'.applied # 0
      BY <1>1, <1>3, <3>5 DEF IInv, BookSound, LastId
    <3> QED
      BY <3>5, <3>8, <3>9 DEF IInv, BookSound
  <2> QED
    BY <2>1, <2>2, <2>3
<1>5. VenueTyped' /\ Coherent' /\ RowsKnown' /\ SnapshotSound'
  BY <1>1 DEF IInv, VenueTyped, Coherent, RowsKnown, SnapshotSound, BookAt, LastId
<1>6. \A w : SoundUpdate(w) => SoundUpdate(w)'
  BY <1>1 DEF SoundUpdate, BookAt, LastId
<1>7. PublishedSound' /\ QueueSound'
  BY <1>1, <1>6 DEF IInv, PublishedSound, QueueSound, Published, Selected
<1>8. cursor' \in Nat
  BY <1>1 DEF IInv
<1> QED
  BY <1>4, <1>5, <1>7, <1>8 DEF IInv

LEMMA IInvStep ==
  ASSUME SendsPrevious
  PROVE  IInv /\ [Next]_vars => IInv'
<1> SUFFICES ASSUME IInv, [Next]_vars PROVE IInv'
  OBVIOUS
<1>1. ASSUME UNCHANGED venue, VenueTyped, Coherent
      PROVE  VenueTyped' /\ Coherent' /\ \A u : SoundUpdate(u) => SoundUpdate(u)'
  BY <1>1 DEF VenueTyped, Coherent, SoundUpdate, BookAt, LastId
<1>2. ASSUME UNCHANGED venue, UNCHANGED book, BookSound PROVE BookSound'
  BY <1>2 DEF BookSound, BookIsVenueBook, BookAt, LastId
<1>3. ASSUME UNCHANGED venue, UNCHANGED snapshot, SnapshotSound PROVE SnapshotSound'
  BY <1>3 DEF SnapshotSound, BookAt, LastId
<1>4. ASSUME UNCHANGED venue, UNCHANGED queue, IInv PROVE QueueSound'
  BY <1>1, <1>4 DEF QueueSound, Selected, IInv
<1>5. ASSUME UNCHANGED venue, UNCHANGED published, IInv PROVE PublishedSound'
  BY <1>1, <1>5 DEF PublishedSound, Published, IInv
<1>6. ASSUME NEW l \in Levels, NEW q \in 0..MaxQty, VenueChanges(l, q) PROVE IInv'
  BY <1>6, VenueStep
<1>7. ASSUME NEW t \in 0..MaxChanges, VenuePublishes(t) PROVE IInv'
  <2> DEFINE u == [first  |-> LastPublished + 1,
                   final  |-> LastId,
                   prev   |-> IF SendsPrevious THEN LastPublished ELSE NoId,
                   time   |-> t,
                   levels |-> {venue[k].level : k \in (LastPublished + 1)..LastId},
                   qty    |-> BookAt(LastId)]
  <2>1. /\ published' = Append(published, u) /\ LastPublished < LastId
        /\ UNCHANGED <<venue, rows, snapshot, queue, cursor, book>>
    BY <1>7 DEF VenuePublishes
  <2>2. LastId \in Nat /\ LastPublished \in Nat
    BY DEF IInv, VenueTyped, LastId, LastPublished, PublishedSound, Published, SoundUpdate
  <2>3. SoundUpdate(u)
    BY <2>1, <2>2, BookSyncAssumption DEF SoundUpdate
  <2>4. u \in Update
    <3>1. BookAt(LastId) \in Book
      BY <2>2, BookAtTyped DEF IInv
    <3>2. \A k \in (LastPublished + 1)..LastId : venue[k].level \in Levels
      <4>1. \A k \in (LastPublished + 1)..LastId : k \in 1..Len(venue)
        BY <2>2 DEF LastId
      <4>2. \A k \in 1..Len(venue) : venue[k] \in Change
        BY DEF IInv, VenueTyped
      <4> QED
        BY <4>1, <4>2 DEF Change
    <3>3. t \in Nat
      BY BookSyncAssumption
    <3> QED
      BY <2>2, <3>1, <3>2, <3>3 DEF Update
  <2>5. PublishedSound'
    <3>1. /\ published' \in Seq(Update) /\ Len(published') = Len(published) + 1
          /\ \A i \in 1..Len(published) : published'[i] = published[i]
          /\ published'[Len(published) + 1] = u /\ Len(published) \in Nat
      BY <2>1, <2>4 DEF IInv, PublishedSound
    <3>2. Published' = Published \cup {u}
      <4>1. 1..Len(published') = 1..Len(published) \cup {Len(published) + 1}
        BY <3>1
      <4> HIDE DEF u
      <4> QED
        BY <3>1, <4>1 DEF Published
    <3> HIDE DEF u
    <3>3. \A w \in Published \cup {u} : SoundUpdate(w)'
      BY <1>1, <2>1, <2>3 DEF IInv, PublishedSound
    <3> QED
      BY <3>1, <3>2, <3>3 DEF PublishedSound
  <2>6. RowsKnown'
    BY <2>1 DEF IInv, RowsKnown, PublishedSound
  <2> QED
    BY <2>1, <2>5, <2>6, <1>1, <1>2, <1>3, <1>4 DEF IInv
<1>8. ASSUME NEW i \in 1..MaxChanges, NEW tick \in {0, 1}, Receive(i, tick) PROVE IInv'
  <2>1. RowsKnown'
    BY <1>8 DEF Receive, RowsKnown, IInv
  <2> QED
    BY <1>8, <2>1, <1>1, <1>2, <1>3, <1>4, <1>5 DEF Receive, IInv
<1>9. ASSUME TakeSnapshot PROVE IInv'
  <2>1. SnapshotSound'
    BY <1>9 DEF TakeSnapshot, SnapshotSound, BookAt, LastId, IInv, VenueTyped
  <2>2. RowsKnown'
    BY <1>9 DEF TakeSnapshot, RowsKnown, IInv
  <2> QED
    BY <1>9, <2>1, <2>2, <1>1, <1>2, <1>4, <1>5 DEF TakeSnapshot, IInv
<1>10. ASSUME BeginRebuild PROVE IInv'
  <2>1. /\ UNCHANGED <<venue, published, rows, snapshot>>
        /\ cursor' = 0 /\ book' = Seeded(snapshot)
    BY <1>10 DEF BeginRebuild
  <2>2. PICK q \in RowOrders :
          queue' = [k \in 1..Len(q) |-> [update |-> published[q[k]], at |-> rows[q[k]]]]
    BY <1>10 DEF BeginRebuild
  <2>3. PICK n \in Nat : q \in [1..n -> DOMAIN rows]
    <3>1. DOMAIN rows \subseteq 1..Len(published) /\ Len(published) \in Nat
      BY DEF IInv, RowsKnown, PublishedSound
    <3>2. IsFiniteSet(1..Len(published))
      BY <3>1, FS_Interval
    <3>3. Cardinality(DOMAIN rows) \in Nat
      BY <3>1, <3>2, FS_Subset, FS_CardinalityType
    <3> QED
      BY <2>2, <3>3 DEF RowOrders
  <2>4. Len(q) = n
    BY <2>3
  <2>5. QueueSound'
    <3>1. Len(queue') = n /\ \A k \in 1..n : queue'[k].update = published[q[k]]
      BY <2>2, <2>4
    <3>2. \A k \in 1..n : q[k] \in 1..Len(published)
      BY <2>3 DEF IInv, RowsKnown
    <3>3. Selected' \subseteq Published
      BY <3>1, <3>2 DEF Selected, Published
    <3>4. \A u \in Published : SoundUpdate(u)'
      BY <2>1, <1>1 DEF IInv, PublishedSound
    <3> QED
      BY <3>1, <3>3, <3>4 DEF QueueSound
  <2>6. BookSound'
    BY <2>1 DEF IInv, SnapshotSound, BookSound, BookIsVenueBook, Seeded, BookAt, LastId
  <2>7. RowsKnown'
    BY <2>1 DEF IInv, RowsKnown
  <2> QED
    BY <2>1, <2>5, <2>6, <2>7, <1>1, <1>3, <1>5 DEF IInv
<1>11. ASSUME ApplyNext PROVE IInv'
  BY <1>11, ApplyStep
<1>12. ASSUME FinishRebuild \/ UNCHANGED vars PROVE IInv'
  <2>1. UNCHANGED <<venue, published, rows, snapshot, queue, cursor, book>>
    BY <1>12 DEF FinishRebuild, vars
  <2>2. RowsKnown'
    BY <2>1 DEF IInv, RowsKnown
  <2> QED
    BY <2>1, <2>2, <1>1, <1>2, <1>3, <1>4, <1>5 DEF IInv
<1> QED
  BY <1>6, <1>7, <1>8, <1>9, <1>10, <1>11, <1>12 DEF Next

(* Whatever the collector lost or received twice, the rebuilt book is the  *)
(* venue's book at last_depth_update_id (apply_depth_payload).             *)
THEOREM BookAlwaysVenueBook ==
  ASSUME SendsPrevious
  PROVE  Spec => []BookIsVenueBook
<1>1. IInv => BookIsVenueBook
  BY DEF IInv, BookSound
<1> QED
  BY <1>1, IInvStep, InitIInv, PTL DEF Spec

-----------------------------------------------------------------------------
(* Types                                                                   *)

LEMMA VenuePublishTyped ==
  ASSUME TypeOK, NEW t \in 0..MaxChanges, VenuePublishes(t)
  PROVE  published' \in Seq(Update)
<1> DEFINE u == [first  |-> LastPublished + 1,
                 final  |-> LastId,
                 prev   |-> IF SendsPrevious THEN LastPublished ELSE NoId,
                 time   |-> t,
                 levels |-> {venue[k].level : k \in (LastPublished + 1)..LastId},
                 qty    |-> BookAt(LastId)]
<1>1. LastId \in Nat /\ LastPublished \in Nat
  <2>1. venue \in Seq(Change) /\ published \in Seq(Update)
    BY DEF TypeOK
  <2>2. published # <<>> => Len(published) \in 1..Len(published)
    BY <2>1
  <2>3. published # <<>> => published[Len(published)] \in Update
    BY <2>1, <2>2
  <2> QED
    BY <2>1, <2>3 DEF LastId, LastPublished, Update
<1>2. BookAt(LastId) \in Book
  BY <1>1, BookAtTyped DEF TypeOK, VenueTyped
<1>3. \A k \in (LastPublished + 1)..LastId : venue[k].level \in Levels
  <2>1. \A k \in (LastPublished + 1)..LastId : k \in 1..Len(venue)
    BY <1>1 DEF LastId
  <2>2. \A k \in 1..Len(venue) : venue[k] \in Change
    BY DEF TypeOK
  <2> QED
    BY <2>1, <2>2 DEF Change
<1>4. t \in Nat
  BY BookSyncAssumption
<1>5. u \in Update
  BY <1>1, <1>2, <1>3, <1>4 DEF Update
<1>6. published' = Append(published, u)
  BY DEF VenuePublishes
<1> QED
  BY <1>5, <1>6 DEF TypeOK

(* The rows of the SELECT are a sequence of recorded updates.              *)
LEMMA SelectedTyped ==
  ASSUME TypeOK, NEW q \in RowOrders
  PROVE  /\ Len(q) \in Nat
         /\ \A k \in 1..Len(q) : q[k] \in DOMAIN rows /\ q[k] \in 1..Len(published)
         /\ \A i, j \in 1..Len(q) : i < j => q[i] # q[j] /\ Ordered(q[i], q[j])
<1>1. DOMAIN rows \subseteq 1..Len(published) /\ Len(published) \in Nat
  BY DEF TypeOK
<1>2. IsFiniteSet(1..Len(published))
  BY <1>1, FS_Interval
<1>3. Cardinality(DOMAIN rows) \in Nat
  BY <1>1, <1>2, FS_Subset, FS_CardinalityType
<1>4. PICK n \in Nat : n = Cardinality(DOMAIN rows)
  BY <1>3
<1>5. /\ q \in [1..n -> DOMAIN rows]
      /\ \A i, j \in DOMAIN q : i < j => q[i] # q[j] /\ Ordered(q[i], q[j])
  BY <1>4 DEF RowOrders
<1>6. Len(q) = n /\ DOMAIN q = 1..n
  BY <1>4, <1>5
<1> QED
  BY <1>1, <1>4, <1>5, <1>6

LEMMA ResyncFields ==
  ASSUME NEW b \in LocalBook
  PROVE  LET r == [b EXCEPT !.status = "resync_required", !.gaps = @ + 1]
         IN r.snap = b.snap /\ r.status = "resync_required"
<1> DEFINE r1 == [b EXCEPT !.status = "resync_required"]
<1>1. r1 \in LocalBook /\ r1.snap = b.snap /\ r1.status = "resync_required"
  BY DEF LocalBook
<1> HIDE DEF r1
<1>2. LET r == [r1 EXCEPT !.gaps = b.gaps + 1] IN r.snap = b.snap /\ r.status = "resync_required"
  BY <1>1 DEF LocalBook
<1> QED
  BY <1>2 DEF r1

(* One field of the builder's book at a time.                              *)
LEMMA FieldTyped ==
  ASSUME NEW b \in LocalBook, NEW n \in Nat
  PROVE  /\ \A q \in Book : [b EXCEPT !.qty = q] \in LocalBook
         /\ \A s \in {"seeded", "active", "resync_required"} :
              [b EXCEPT !.status = s] \in LocalBook
         /\ [b EXCEPT !.last = n] \in LocalBook
         /\ [b EXCEPT !.applied = n] \in LocalBook
         /\ [b EXCEPT !.gaps = n] \in LocalBook
         /\ [b EXCEPT !.dropped = n] \in LocalBook
         /\ [b EXCEPT !.received = n] \in LocalBook
BY DEF LocalBook

LEMMA AppliedTyped ==
  ASSUME NEW b \in LocalBook, NEW u \in Update, NEW at \in Nat
  PROVE  /\ Applied(b, u, at) \in LocalBook
         /\ Applied(b, u, at).snap = b.snap /\ Applied(b, u, at).last = u.final
         /\ Applied(b, u, at).applied = b.applied + 1
         /\ Applied(b, u, at).status = IF b.status = "resync_required" THEN b.status ELSE "active"
<1> DEFINE q == [l \in Levels |-> IF l \in u.levels THEN u.qty[l] ELSE b.qty[l]]
           s == IF b.status = "resync_required" THEN b.status ELSE "active"
           b1 == [b EXCEPT !.qty = q]
           b2 == [b1 EXCEPT !.last = u.final]
           b3 == [b2 EXCEPT !.applied = b.applied + 1]
           b4 == [b3 EXCEPT !.received = at]
           b5 == [b4 EXCEPT !.status = s]
<1>1. /\ q \in Book /\ s \in {"seeded", "active", "resync_required"}
      /\ u.final \in Nat /\ b.applied + 1 \in Nat
  BY DEF Update, LocalBook, Book
<1>2. Applied(b, u, at) = b5
  BY DEF Applied
<1> HIDE DEF q, s
<1>3. b1 \in LocalBook /\ b1.snap = b.snap
  BY <1>1, FieldTyped DEF LocalBook
<1> HIDE DEF b1
<1>4. b2 \in LocalBook /\ b2.snap = b.snap /\ b2.last = u.final
  BY <1>1, <1>3, FieldTyped DEF LocalBook
<1> HIDE DEF b2
<1>5. b3 \in LocalBook /\ b3.snap = b.snap /\ b3.last = u.final /\ b3.applied = b.applied + 1
  BY <1>1, <1>4, FieldTyped DEF LocalBook
<1> HIDE DEF b3
<1>6. b4 \in LocalBook /\ b4.snap = b.snap /\ b4.last = u.final /\ b4.applied = b.applied + 1
  BY <1>5, FieldTyped DEF LocalBook
<1> HIDE DEF b4
<1>7. /\ b5 \in LocalBook /\ b5.snap = b.snap /\ b5.last = u.final
      /\ b5.applied = b.applied + 1 /\ b5.status = s
  BY <1>1, <1>6, FieldTyped DEF LocalBook
<1> HIDE DEF b5
<1> QED
  BY <1>2, <1>7 DEF s

LEMMA SelectedRowTyped ==
  ASSUME TypeOK, NEW k \in 1..Len(queue)
  PROVE  book \in LocalBook /\ queue[k].update \in Update /\ queue[k].at \in Nat
<1>1. queue \in Seq(SelectedRow) /\ book \in LocalBook
  BY DEF TypeOK
<1>2. queue[k] \in SelectedRow
  BY <1>1
<1> QED
  BY <1>1, <1>2 DEF SelectedRow

LEMMA ApplyTyped ==
  ASSUME TypeOK, ApplyNext
  PROVE  book' \in LocalBook
<1> DEFINE row == queue[cursor + 1]
<1>1. cursor + 1 \in 1..Len(queue)
  BY DEF TypeOK, ApplyNext
<1>3. row.update \in Update /\ row.at \in Nat /\ book \in LocalBook
  BY <1>1, SelectedRowTyped
<1>4. book' = ApplyPayload(book, row.update, row.at)
  BY DEF ApplyNext
<1> HIDE DEF row
<1>5. Applied(book, row.update, row.at) \in LocalBook
  BY <1>3, AppliedTyped
<1>6. book.dropped + 1 \in Nat /\ book.gaps + 1 \in Nat
  BY <1>3 DEF LocalBook
<1>7. [book EXCEPT !.dropped = book.dropped + 1] \in LocalBook
  BY <1>3, <1>6, FieldTyped
<1>8. [book EXCEPT !.status = "resync_required"] \in LocalBook
  BY <1>3, FieldTyped, 0 \in Nat
<1>9. [[book EXCEPT !.status = "resync_required"] EXCEPT !.gaps = book.gaps + 1] \in LocalBook
  BY <1>6, <1>8, FieldTyped
<1> QED
  BY <1>4, <1>5, <1>7, <1>9 DEF ApplyPayload

LEMMA TypesStep == TypeOK /\ [Next]_vars => TypeOK'
<1> SUFFICES ASSUME TypeOK, [Next]_vars PROVE TypeOK'
  OBVIOUS
<1>1. ASSUME NEW l \in Levels, NEW q \in 0..MaxQty, VenueChanges(l, q) PROVE TypeOK'
  <2>1. LastId \in 0..LastId
    BY DEF TypeOK, LastId
  <2>2. BookAt(LastId) \in Book
    BY <2>1, BookAtTyped DEF TypeOK, VenueTyped
  <2>3. [level |-> l, book |-> [BookAt(LastId) EXCEPT ![l] = q]] \in Change
    BY <2>2 DEF Book, Change
  <2>4. venue' \in Seq(Change)
    BY <1>1, <2>3 DEF TypeOK, VenueChanges
  <2> QED
    BY <1>1, <2>4 DEF TypeOK, VenueChanges
<1>2. ASSUME NEW t \in 0..MaxChanges, VenuePublishes(t) PROVE TypeOK'
  <2>1. published' \in Seq(Update)
    BY <1>2, VenuePublishTyped
  <2>2. Len(published') = Len(published) + 1
    BY <1>2 DEF VenuePublishes, TypeOK
  <2>3. DOMAIN rows \subseteq 1..Len(published')
    BY <2>2 DEF TypeOK
  <2> QED
    BY <1>2, <2>1, <2>3 DEF TypeOK, VenuePublishes
<1>3. ASSUME NEW i \in 1..MaxChanges, NEW tick \in {0, 1}, Receive(i, tick) PROVE TypeOK'
  BY <1>3 DEF TypeOK, Receive
<1>4. ASSUME TakeSnapshot PROVE TypeOK'
  <2>1. LastId \in 0..LastId
    BY DEF TypeOK, LastId
  <2>2. BookAt(LastId) \in Book
    BY <2>1, BookAtTyped DEF TypeOK, VenueTyped
  <2> QED
    BY <1>4, <2>1, <2>2 DEF TypeOK, TakeSnapshot, Snapshot
<1>5. ASSUME BeginRebuild PROVE TypeOK'
  <2>1. PICK q \in RowOrders :
          queue' = [k \in 1..Len(q) |-> [update |-> published[q[k]], at |-> rows[q[k]]]]
    BY <1>5 DEF BeginRebuild
  <2>2. Len(q) \in Nat /\ \A k \in 1..Len(q) : q[k] \in DOMAIN rows /\ q[k] \in 1..Len(published)
    BY <2>1, SelectedTyped
  <2>3. PICK n \in Nat : n = Len(q)
    BY <2>2
  <2>4. \A k \in 1..n : published[q[k]] \in Update /\ rows[q[k]] \in Nat
    BY <2>2, <2>3 DEF TypeOK
  <2>5. queue' = [k \in 1..n |-> [update |-> published[q[k]], at |-> rows[q[k]]]]
    BY <2>1, <2>3
  <2>6. queue' \in Seq(SelectedRow)
    BY <2>4, <2>5 DEF SelectedRow
  <2>7. Seeded(snapshot) \in LocalBook
    BY DEF TypeOK, Seeded, Snapshot, LocalBook
  <2>8. 0 \in 0..Len(queue')
    BY <2>6
  <2> QED
    BY <1>5, <2>6, <2>7, <2>8 DEF TypeOK, BeginRebuild
<1>6. ASSUME ApplyNext PROVE TypeOK'
  <2>1. cursor' \in 0..Len(queue')
    BY <1>6 DEF ApplyNext, TypeOK
  <2>2. book' \in LocalBook
    BY <1>6, ApplyTyped
  <2> QED
    BY <1>6, <2>1, <2>2 DEF ApplyNext, TypeOK
<1>7. ASSUME FinishRebuild PROVE TypeOK'
  BY <1>7 DEF TypeOK, FinishRebuild, AggregateStatus
<1>8. ASSUME UNCHANGED vars PROVE TypeOK'
  BY <1>8 DEF TypeOK, vars
<1> QED
  BY <1>1, <1>2, <1>3, <1>4, <1>5, <1>6, <1>7, <1>8 DEF Next

LEMMA TypesInit == Init => TypeOK
<1> SUFFICES ASSUME Init PROVE TypeOK
  OBVIOUS
<1>1. Empty \in Book
  BY BookSyncAssumption DEF Empty, Book
<1>2. NoSnapshot \in Snapshot
  BY <1>1 DEF NoSnapshot, Snapshot
<1>3. Seeded(NoSnapshot) \in LocalBook
  BY <1>1 DEF NoSnapshot, Seeded, LocalBook
<1> QED
  BY <1>2, <1>3 DEF Init, TypeOK

(* What the venue sends, what the collector records and what the rebuild   *)
(* makes of it stay what they are, whether the updates carry pu or not.    *)
THEOREM TypeCorrect == Spec => []TypeOK
  BY TypesInit, TypesStep, PTL DEF Spec

-----------------------------------------------------------------------------
(* What a rebuild without a resync has seen.  The invariant speaks of the  *)
(* selected rows up to the cursor, and of the order in which the venue     *)
(* published its updates, which is all that is needed of the venue.        *)

(* A selected row's update, and whether it is older than the snapshot.     *)
Row(k) == queue[k].update

Stale(k) == IsStaleUpdate(book, Row(k))

(* What is known of the order in which the venue published: of two updates *)
(* one is over before the other starts, later ones are not stamped         *)
(* earlier, and each but the first continues another one.                  *)
Timeline ==
  /\ \A u, w \in Published : u = w \/ u.final <= w.prev \/ w.final <= u.prev
  /\ \A u, w \in Published : u.time < w.time => u.final <= w.prev
  /\ \A u \in Published : u.prev = 0 \/ \E w \in Published : w.final = u.prev
  /\ \A i, j \in 1..Len(published) : i < j => published[i].final < published[j].final

(* The last update is the one the next one continues.                      *)
Frontier ==
  /\ \A u \in Published : u.final <= LastPublished /\ u.time <= LastTime
  /\ LastPublished = 0 \/ \E u \in Published : u.final = LastPublished

(* The rebuild reads published updates, each once, in the order of their   *)
(* event times.                                                            *)
QueueInOrder ==
  /\ \A k \in 1..Len(queue) : Row(k) \in Published
  /\ \A i, j \in 1..Len(queue) : i < j => Row(i) # Row(j) /\ Row(i).time <= Row(j).time

(* The updates read that are not older than the snapshot.                 *)
Counted == {Row(k) : k \in {i \in 1..cursor : ~Stale(i)}}

(* As long as no gap was met, the rows applied are those that count, and   *)
(* they are all the venue published from the snapshot to the book.         *)
NoGapSoFar ==
  /\ book.applied = 0 => book.last = book.snap /\ \A k \in 1..cursor : Stale(k)
  /\ book.applied # 0 => \E k \in 1..cursor : ~Stale(k) /\ book.last = Row(k).final
  /\ book.snap <= book.last /\ \A k \in 1..cursor : Row(k).final <= book.last
  /\ \A w \in Published : book.snap < w.final /\ w.final <= book.last
       => \E k \in 1..cursor : w = Row(k)
  /\ IsFiniteSet(Counted) /\ book.applied = Cardinality(Counted)
  /\ cursor > 0 /\ ~Stale(cursor) => book.last = Row(cursor).final
  /\ \A i \in 2..cursor : ~Stale(i - 1) /\ ~Stale(i) => Row(i).prev = Row(i - 1).final

(* The replay counts no gap, and a row contains the snapshot.              *)
Chained == \A i \in 2..Len(queue) : Row(i).prev = Row(i - 1).final

Bridged == \E k \in 1..Len(queue) : Bridges(book, Row(k))

(* A rebuild that calls for a resync has met a gap: neither a complete     *)
(* recording nor a chain of pu over the snapshot lets it.                  *)
RebuildSound ==
  /\ cursor \in 0..Len(queue)
  /\ pc = "done" => cursor = Len(queue)
  /\ QueueInOrder
  /\ book.status # "resync_required" => NoGapSoFar
  /\ CompleteRecording => book.status # "resync_required"
  /\ Chained /\ Bridged => book.status # "resync_required"

Replayed == TypeOK /\ IInv /\ Timeline /\ Frontier /\ RebuildSound

LEMMA LeastOfNaturals ==
  ASSUME NEW S \in SUBSET Nat, S # {}
  PROVE  \E x \in S : \A y \in S : x <= y
<1> DEFINE Less == {ss \in Nat \X Nat : ss[1] < ss[2]}
<1>1. IsWellFoundedOn(Less, Nat)
  BY NatLessThanWellFounded, Zenon DEF OpToRel
<1> HIDE DEF Less
<1>2. PICK x \in S : \A y \in S : ~(<<y, x>> \in Less)
  BY <1>1, WFMin, Zenon
<1>3. ASSUME NEW y \in S PROVE x <= y
  <2>1. x \in Nat /\ y \in Nat /\ <<y, x>> \notin Less
    BY <1>2
  <2>2. ~(y < x)
    BY <2>1 DEF Less
  <2> QED
    BY <2>1, <2>2
<1> QED
  BY <1>3

LEMMA PublishedFacts ==
  ASSUME TypeOK, PublishedSound, NEW u \in Published
  PROVE  /\ u.first \in Nat /\ u.final \in Nat /\ u.prev \in Nat /\ u.time \in Nat
         /\ u.prev # NoId /\ u.prev + 1 = u.first /\ u.prev < u.final /\ 0 < u.final
<1>1. SoundUpdate(u)
  BY DEF PublishedSound
<1>2. u \in Update
  BY DEF TypeOK, Published
<1> QED
  BY <1>1, <1>2 DEF SoundUpdate, Update

LEMMA RowFacts ==
  ASSUME TypeOK, PublishedSound, QueueInOrder, NEW k \in 1..Len(queue)
  PROVE  /\ Row(k) \in Published /\ Row(k) \in Selected
         /\ Row(k).first \in Nat /\ Row(k).final \in Nat /\ Row(k).prev \in Nat /\ Row(k).time \in Nat
         /\ Row(k).prev # NoId /\ Row(k).prev + 1 = Row(k).first
         /\ Row(k).prev < Row(k).final /\ 0 < Row(k).final
<1>1. Row(k) \in Published
  BY DEF QueueInOrder
<1>2. Row(k) \in Selected
  BY DEF Selected, Row
<1> QED
  BY <1>1, <1>2, PublishedFacts

LEMMA BookFacts ==
  ASSUME TypeOK
  PROVE  /\ book.snap \in Nat /\ book.applied \in Nat /\ book.last \in Nat
         /\ Len(queue) \in Nat /\ cursor \in Nat /\ Len(published) \in Nat
BY DEF TypeOK, LocalBook

-----------------------------------------------------------------------------
(* When no update is a gap                                                 *)

(* Each row is over before the next one starts.                            *)
OneByOne == \A i, j \in 1..Len(queue) : i < j => Row(i).final <= Row(j).prev

(* Event times that differ put the rows in the venue's order.              *)
LEMMA TimesOrder ==
  ASSUME TypeOK, PublishedSound, Timeline, QueueInOrder, DistinctTimes
  PROVE  OneByOne
<1> SUFFICES ASSUME NEW i \in 1..Len(queue), NEW j \in 1..Len(queue), i < j
             PROVE  Row(i).final <= Row(j).prev
  BY DEF OneByOne
<1>1. Row(i) # Row(j) /\ Row(i).time <= Row(j).time
  BY DEF QueueInOrder
<1>2. /\ Row(i) \in Selected /\ Row(j) \in Selected /\ Row(i).time \in Nat /\ Row(j).time \in Nat
      /\ Row(i) \in Published /\ Row(j) \in Published
  BY RowFacts
<1>3. Row(i).time # Row(j).time
  BY <1>1, <1>2 DEF DistinctTimes
<1>4. Row(i).time < Row(j).time
  BY <1>1, <1>2, <1>3
<1> QED
  BY <1>2, <1>4 DEF Timeline

(* So does a chain of pu, one row at a time.                               *)
LEMMA ChainOrder ==
  ASSUME TypeOK, PublishedSound, QueueInOrder, Chained
  PROVE  OneByOne
<1> DEFINE Bad == {j \in 1..Len(queue) :
                     \E i \in 1..Len(queue) : i < j /\ ~(Row(i).final <= Row(j).prev)}
<1>0. Len(queue) \in Nat
  BY BookFacts
<1>1. ASSUME Bad # {} PROVE FALSE
  <2>1. Bad \in SUBSET Nat
    BY <1>0
  <2>2. PICK j \in Bad : \A k \in Bad : j <= k
    BY <1>1, <2>1, LeastOfNaturals
  <2>3. PICK i \in 1..Len(queue) : i < j /\ ~(Row(i).final <= Row(j).prev)
    BY <2>2
  <2>4. j \in 2..Len(queue) /\ j - 1 \in 1..Len(queue) /\ j \in 1..Len(queue) /\ i \in Nat
    BY <1>0, <2>2, <2>3
  <2>5. Row(j).prev = Row(j - 1).final
    BY <2>4 DEF Chained
  <2>6. /\ Row(i).final \in Nat /\ Row(j).prev \in Nat
        /\ Row(j - 1).final \in Nat /\ Row(j - 1).prev \in Nat /\ Row(j - 1).prev < Row(j - 1).final
    BY <2>4, RowFacts
  <2>7. i < j - 1
    <3>1. i # j - 1
      BY <2>3, <2>5, <2>6
    <3> QED
      BY <2>3, <2>4, <3>1
  <2>8. ~(Row(i).final <= Row(j - 1).prev)
    BY <2>3, <2>5, <2>6
  <2>9. j - 1 \in Bad
    BY <2>4, <2>7, <2>8
  <2> QED
    BY <2>2, <2>4, <2>9
<1> QED
  BY <1>1 DEF OneByOne

(* The first row that counts contains the snapshot, if any row does.       *)
LEMMA FirstBridges ==
  ASSUME TypeOK, PublishedSound, QueueInOrder, NoGapSoFar, OneByOne, Bridged,
         book.applied = 0, NEW c \in 1..Len(queue), c = cursor + 1, ~Stale(c)
  PROVE  ~Gap(book, Row(c))
<1>1. /\ book.snap \in Nat /\ cursor \in Nat /\ Len(queue) \in Nat
  BY BookFacts
<1>2. PICK k \in 1..Len(queue) : Bridges(book, Row(k))
  BY DEF Bridged
<1>3. /\ Row(k).first \in Nat /\ Row(k).final \in Nat /\ Row(k).prev \in Nat
      /\ Row(k).prev + 1 = Row(k).first /\ Row(c).final \in Nat
  BY RowFacts
<1>4. ~Stale(k)
  BY <1>1, <1>2, <1>3 DEF Stale, IsStaleUpdate, Bridges
<1>5. k \notin 1..cursor
  BY <1>4 DEF NoGapSoFar
<1>6. ~(c < k)
  <2>1. ASSUME c < k PROVE FALSE
    <3>1. Row(c).final <= Row(k).prev
      BY <2>1 DEF OneByOne
    <3>2. Row(c).final < book.snap
      BY <1>1, <1>2, <1>3, <3>1 DEF Bridges
    <3> QED
      BY <3>2 DEF Stale, IsStaleUpdate
  <2> QED
    BY <2>1
<1>7. k = c
  BY <1>1, <1>5, <1>6
<1> QED
  BY <1>2, <1>7 DEF Gap

(* With a complete recording, the next row that counts continues the last  *)
(* one: what the venue sent in between would have been read in between.    *)
LEMMA CompleteHasNoGap ==
  ASSUME TypeOK, PublishedSound, Timeline, QueueInOrder, NoGapSoFar, CompleteRecording,
         NEW c \in 1..Len(queue), c = cursor + 1, ~Stale(c)
  PROVE  ~Gap(book, Row(c))
<1>1. OneByOne
  BY TimesOrder DEF CompleteRecording
<1>2. CASE book.applied = 0
  <2>1. PICK b \in Relevant : Bridges(book, b)
    BY DEF CompleteRecording
  <2>2. PICK k \in 1..Len(queue) : b = Row(k)
    BY <2>1 DEF Relevant, Selected, Row
  <2>3. Bridged
    BY <2>1, <2>2 DEF Bridged
  <2> QED
    BY <1>1, <1>2, <2>3, FirstBridges
<1>3. CASE book.applied # 0
  <2> DEFINE u == Row(c)
  <2>0. book.snap \in Nat /\ book.last \in Nat /\ cursor \in Nat /\ Len(queue) \in Nat
    BY BookFacts
  <2>1. PICK j \in 1..cursor : ~Stale(j) /\ book.last = Row(j).final
    BY <1>3 DEF NoGapSoFar
  <2>2. j \in 1..Len(queue) /\ j < c
    BY <2>0, <2>1
  <2>3. /\ u \in Published /\ u \in Selected /\ u.prev \in Nat /\ u.final \in Nat
        /\ u.prev < u.final /\ u.prev # NoId
        /\ Row(j).final \in Nat /\ 0 < Row(j).final
    BY <2>2, RowFacts
  <2>4. book.last <= u.prev
    BY <1>1, <2>1, <2>2 DEF OneByOne
  <2>5. PICK v \in Published : v.final = u.prev
    BY <2>1, <2>3, <2>4 DEF Timeline
  <2>6. PICK m \in 1..Len(published) : v = published[m]
    BY DEF Published
  <2>7. v \in Selected
    <3>1. book.snap <= v.final
      BY <2>0, <2>3, <2>4, <2>5 DEF NoGapSoFar
    <3>2. v.final <= u.final
      BY <2>3, <2>5
    <3> QED
      BY <2>3, <2>6, <3>1, <3>2 DEF CompleteRecording
  <2>8. PICK k \in 1..Len(queue) : v = Row(k)
    BY <2>7 DEF Selected, Row
  <2>9. k \in 1..cursor
    <3>1. ~(c < k)
      <4>1. ASSUME c < k PROVE FALSE
        <5>1. u.final <= Row(k).prev
          BY <1>1, <4>1 DEF OneByOne
        <5>2. Row(k).prev \in Nat /\ Row(k).prev < Row(k).final /\ Row(k).final \in Nat
          BY RowFacts
        <5> QED
          BY <2>3, <2>5, <2>8, <5>1, <5>2
      <4> QED
        BY <4>1
    <3>2. k # c
      BY <2>3, <2>5, <2>8
    <3> QED
      BY <2>0, <3>1, <3>2
  <2>10. v.final <= book.last
    BY <2>8, <2>9 DEF NoGapSoFar
  <2>11. u.prev = book.last
    BY <2>0, <2>3, <2>4, <2>5, <2>10
  <2> QED
    BY <1>3, <2>3, <2>11 DEF Gap, Continues
<1> QED
  BY <1>2, <1>3

(* In a chain that contains the snapshot, the next row continues the one   *)
(* before it, which is the last applied.                                   *)
LEMMA ChainHasNoGap ==
  ASSUME TypeOK, PublishedSound, QueueInOrder, NoGapSoFar, Chained, Bridged,
         NEW c \in 1..Len(queue), c = cursor + 1, ~Stale(c)
  PROVE  ~Gap(book, Row(c))
<1>1. OneByOne
  BY ChainOrder
<1>2. CASE book.applied = 0
  BY <1>1, <1>2, FirstBridges
<1>3. CASE book.applied # 0
  <2>0. book.last \in Nat /\ cursor \in Nat /\ Len(queue) \in Nat
    BY BookFacts
  <2>1. PICK j \in 1..cursor : ~Stale(j) /\ book.last = Row(j).final
    BY <1>3 DEF NoGapSoFar
  <2>2. cursor \in 1..cursor /\ cursor \in 1..Len(queue) /\ j \in 1..Len(queue) /\ j <= cursor
    BY <2>0, <2>1
  <2>3. /\ Row(cursor).final \in Nat /\ Row(cursor).prev \in Nat
        /\ Row(cursor).prev < Row(cursor).final /\ Row(j).final \in Nat
    BY <2>2, RowFacts
  <2>4. Row(cursor).final <= book.last
    BY <2>2 DEF NoGapSoFar
  <2>5. ~(j < cursor)
    <3>1. j < cursor => Row(j).final <= Row(cursor).prev
      BY <1>1, <2>2 DEF OneByOne
    <3> QED
      BY <2>1, <2>3, <2>4, <3>1
  <2>6. j = cursor
    BY <2>0, <2>1, <2>5
  <2>7. Row(c).prev = book.last
    <3>1. c \in 2..Len(queue) /\ c - 1 = cursor
      BY <2>0, <2>2
    <3> QED
      BY <2>1, <2>6, <3>1 DEF Chained
  <2>8. Row(c).prev # NoId
    BY RowFacts
  <2> QED
    BY <1>3, <2>7, <2>8 DEF Gap, Continues
<1> QED
  BY <1>2, <1>3

-----------------------------------------------------------------------------
(* One row more                                                            *)

(* What a row taken leaves alone.                                          *)
LEMMA RowsStay ==
  ASSUME TypeOK, ApplyNext
  PROVE  /\ queue' = queue /\ published' = published /\ pc' = pc /\ pc # "done"
         /\ cursor + 1 \in 1..Len(queue) /\ cursor' = cursor + 1
         /\ 1..cursor' = 1..cursor \cup {cursor + 1}
         /\ book'.snap = book.snap
         /\ \A k : Row(k)' = Row(k) /\ (Stale(k)' <=> Stale(k))
         /\ Published' = Published /\ Selected' = Selected
         /\ (CompleteRecording' <=> CompleteRecording)
         /\ (Chained' <=> Chained) /\ (Bridged' <=> Bridged)
         /\ (QueueInOrder' <=> QueueInOrder)
<1> DEFINE row == queue[cursor + 1]
<1>1. /\ queue' = queue /\ published' = published /\ pc' = pc /\ pc # "done"
      /\ cursor + 1 \in 1..Len(queue) /\ cursor' = cursor + 1
      /\ book' = ApplyPayload(book, row.update, row.at)
  BY DEF ApplyNext, TypeOK
<1>2. 1..cursor' = 1..cursor \cup {cursor + 1}
  BY <1>1 DEF TypeOK
<1>3. book'.snap = book.snap
  <2>1. row.update \in Update /\ row.at \in Nat /\ book \in LocalBook
    BY <1>1, SelectedRowTyped
  <2> HIDE DEF row
  <2>2. Applied(book, row.update, row.at).snap = book.snap
    BY <2>1, AppliedTyped
  <2>3. [book EXCEPT !.dropped = @ + 1].snap = book.snap
    BY <2>1 DEF LocalBook
  <2>4. [book EXCEPT !.status = "resync_required", !.gaps = @ + 1].snap = book.snap
    BY <2>1, ResyncFields
  <2> QED
    BY <1>1, <2>2, <2>3, <2>4 DEF ApplyPayload
<1>4. \A k : Row(k)' = Row(k) /\ (Stale(k)' <=> Stale(k))
  BY <1>1, <1>3 DEF Row, Stale, IsStaleUpdate
<1>5. Published' = Published /\ Selected' = Selected
  BY <1>1 DEF Published, Selected
<1>6. Relevant' = Relevant
  BY <1>3, <1>5 DEF Relevant, IsStaleUpdate
<1>7. CompleteRecording' <=> CompleteRecording
  BY <1>1, <1>3, <1>5, <1>6 DEF CompleteRecording, DistinctTimes, Bridges
<1>8. (Chained' <=> Chained) /\ (Bridged' <=> Bridged) /\ (QueueInOrder' <=> QueueInOrder)
  BY <1>1, <1>3, <1>4, <1>5 DEF Chained, Bridged, QueueInOrder, Bridges
<1> QED
  BY <1>1, <1>2, <1>3, <1>4, <1>5, <1>7, <1>8

LEMMA StaleKeeps ==
  ASSUME Replayed, ApplyNext, Stale(cursor + 1), NoGapSoFar,
         book'.applied = book.applied, book'.last = book.last
  PROVE  NoGapSoFar'
<1> DEFINE c == cursor + 1
<1>1. /\ c \in 1..Len(queue) /\ cursor' = c /\ 1..cursor' = 1..cursor \cup {c}
      /\ book'.snap = book.snap /\ Published' = Published
      /\ \A k : Row(k)' = Row(k) /\ (Stale(k)' <=> Stale(k))
  BY RowsStay DEF Replayed
<1>2. /\ book.snap \in Nat /\ book.last \in Nat /\ cursor \in Nat
      /\ Row(c).final \in Nat /\ Row(c).final < book.snap
  <2>1. TypeOK /\ PublishedSound /\ QueueInOrder
    BY DEF Replayed, IInv, RebuildSound
  <2>2. Row(c).final < book.snap
    BY DEF Stale, IsStaleUpdate
  <2> QED
    BY <1>1, <2>1, <2>2, RowFacts, BookFacts
<1>3. Counted' = Counted
  <2>1. Counted' = {Row(k) : k \in {i \in 1..cursor' : ~Stale(i)}}
    BY <1>1 DEF Counted
  <2>2. {i \in 1..cursor' : ~Stale(i)} = {i \in 1..cursor : ~Stale(i)}
    BY <1>1
  <2> QED
    BY <2>1, <2>2 DEF Counted
<1>4. \A k \in 1..cursor' : Row(k).final <= book.last
  BY <1>1, <1>2 DEF NoGapSoFar
<1>5. ~Stale(cursor') => FALSE
  BY <1>1
<1>6. \A i \in 2..cursor' : ~Stale(i - 1) /\ ~Stale(i) => Row(i).prev = Row(i - 1).final
  <2>1. \A i \in 2..cursor' : i = c \/ i \in 2..cursor
    BY <1>1, <1>2
  <2> QED
    BY <2>1 DEF NoGapSoFar
<1>7. /\ book'.applied = 0 => book'.last = book'.snap /\ \A k \in 1..cursor' : Stale(k)
      /\ book'.applied # 0 => \E k \in 1..cursor' : ~Stale(k) /\ book'.last = Row(k).final
      /\ \A w \in Published : book'.snap < w.final /\ w.final <= book'.last
           => \E k \in 1..cursor' : w = Row(k)
  BY <1>1 DEF NoGapSoFar
<1> HIDE DEF c
<1> QED
  BY <1>1, <1>3, <1>4, <1>5, <1>6, <1>7 DEF NoGapSoFar

LEMMA AppliedKeeps ==
  ASSUME Replayed, ApplyNext, ~Stale(cursor + 1), ~Gap(book, Row(cursor + 1)), NoGapSoFar,
         book'.applied = book.applied + 1, book'.last = Row(cursor + 1).final
  PROVE  NoGapSoFar'
<1> DEFINE c == cursor + 1
           u == Row(c)
<1>1. /\ c \in 1..Len(queue) /\ cursor' = c /\ 1..cursor' = 1..cursor \cup {c}
      /\ book'.snap = book.snap /\ Published' = Published
      /\ \A k : Row(k)' = Row(k) /\ (Stale(k)' <=> Stale(k))
  BY RowsStay DEF Replayed
<1>2. TypeOK /\ PublishedSound /\ QueueInOrder /\ Timeline
  BY DEF Replayed, IInv, RebuildSound
<1>3. /\ book.snap \in Nat /\ book.last \in Nat /\ cursor \in Nat /\ Len(queue) \in Nat
      /\ book.applied \in Nat
  BY <1>2, BookFacts
<1>4. /\ u \in Published /\ u.final \in Nat /\ u.prev \in Nat /\ u.first \in Nat
      /\ u.prev # NoId /\ u.prev + 1 = u.first /\ u.prev < u.final
  BY <1>1, <1>2, RowFacts
<1>5. \A k \in 1..cursor : Row(k).final \in Nat
  <2>1. \A k \in 1..cursor : k \in 1..Len(queue)
    BY <1>1, <1>3
  <2> QED
    BY <1>2, <2>1, RowFacts
<1>6. book.snap <= u.final
  BY <1>3, <1>4 DEF Stale, IsStaleUpdate
<1>7. /\ book.applied = 0 => u.first <= book.snap
      /\ book.applied # 0 => u.prev = book.last
  BY <1>4 DEF Gap, Bridges, Continues
<1>8. book.last <= u.final
  BY <1>3, <1>4, <1>6, <1>7 DEF NoGapSoFar
<1>9. \A k \in 1..cursor' : Row(k).final <= u.final
  <2>1. \A k \in 1..cursor : Row(k).final <= book.last
    BY DEF NoGapSoFar
  <2>2. \A k \in 1..cursor : Row(k).final <= u.final
    BY <1>3, <1>4, <1>5, <1>8, <2>1
  <2> QED
    BY <1>1, <1>4, <2>2
<1>10. ASSUME NEW w \in Published, book.snap < w.final, w.final <= u.final
       PROVE  \E k \in 1..cursor' : w = Row(k)
  <2>1. w.final \in Nat /\ w.prev \in Nat /\ w.prev < w.final
    BY <1>2, PublishedFacts
  <2>2. w = u \/ w.final <= u.prev
    <3>1. ~(u.final <= w.prev)
      BY <1>4, <1>10, <2>1
    <3> QED
      BY <1>2, <1>4, <3>1 DEF Timeline
  <2>3. CASE w = u
    BY <1>1, <2>3
  <2>4. CASE w.final <= u.prev
    <3>1. book.applied # 0
      BY <1>3, <1>4, <1>7, <1>10, <2>1, <2>4
    <3>2. w.final <= book.last
      BY <1>7, <2>4, <3>1
    <3>3. \E k \in 1..cursor : w = Row(k)
      BY <1>10, <3>2 DEF NoGapSoFar
    <3> QED
      BY <1>1, <3>3
  <2> QED
    BY <2>2, <2>3, <2>4
<1>11. IsFiniteSet(Counted)' /\ book'.applied = Cardinality(Counted)'
  <2>1. Counted' = {Row(k) : k \in {i \in 1..cursor' : ~Stale(i)}}
    BY <1>1 DEF Counted
  <2>2. {i \in 1..cursor' : ~Stale(i)} = {i \in 1..cursor : ~Stale(i)} \cup {c}
    BY <1>1
  <2>3. Counted' = Counted \cup {u}
    BY <2>1, <2>2 DEF Counted
  <2>4. u \notin Counted
    <3>1. \A k \in 1..cursor : k \in 1..Len(queue) /\ k < c
      BY <1>1, <1>3
    <3>2. \A k \in 1..cursor : Row(k) # Row(c)
      BY <1>1, <1>2, <3>1 DEF QueueInOrder
    <3> QED
      BY <3>2 DEF Counted
  <2>5. IsFiniteSet(Counted) /\ book.applied = Cardinality(Counted)
    BY DEF NoGapSoFar
  <2> HIDE DEF c, u
  <2>6. IsFiniteSet(Counted \cup {u}) /\ Cardinality(Counted \cup {u}) = Cardinality(Counted) + 1
    BY <2>4, <2>5, FS_AddElement
  <2> QED
    BY <2>3, <2>5, <2>6
<1>12. \A i \in 2..cursor' : ~Stale(i - 1) /\ ~Stale(i) => Row(i).prev = Row(i - 1).final
  <2> SUFFICES ASSUME NEW i \in 2..cursor', ~Stale(i - 1), ~Stale(i)
               PROVE  Row(i).prev = Row(i - 1).final
    OBVIOUS
  <2>1. CASE i \in 2..cursor
    BY <2>1 DEF NoGapSoFar
  <2>2. CASE i = c
    <3>1. i - 1 = cursor /\ cursor \in 1..cursor /\ cursor > 0
      BY <1>1, <1>3, <2>2
    <3>2. book.last = Row(cursor).final /\ book.applied # 0
      BY <3>1 DEF NoGapSoFar
    <3> QED
      BY <1>7, <2>2, <3>1, <3>2
  <2> QED
    BY <1>1, <1>3, <2>1, <2>2
<1>13. book'.applied # 0 /\ ~Stale(c) /\ c \in 1..cursor' /\ book'.last = u.final
  BY <1>1, <1>3
<1> HIDE DEF c, u
<1>14. /\ book'.applied # 0 => \E k \in 1..cursor' : ~Stale(k) /\ book'.last = Row(k).final
       /\ ~Stale(cursor') => book'.last = Row(cursor').final
  BY <1>1, <1>13 DEF u
<1>15. book'.snap <= book'.last /\ \A k \in 1..cursor' : Row(k).final <= book'.last
  BY <1>1, <1>6, <1>9, <1>13
<1>16. \A w \in Published : book'.snap < w.final /\ w.final <= book'.last
         => \E k \in 1..cursor' : w = Row(k)
  BY <1>1, <1>10, <1>13
<1> QED
  BY <1>1, <1>11, <1>12, <1>13, <1>14, <1>15, <1>16 DEF NoGapSoFar

LEMMA ApplySound ==
  ASSUME Replayed, ApplyNext
  PROVE  RebuildSound'
<1> DEFINE c == cursor + 1
           at == queue[c].at
<1>1. /\ TypeOK /\ PublishedSound /\ Timeline /\ RebuildSound /\ QueueInOrder
  BY DEF Replayed, IInv, RebuildSound
<1>2. /\ c \in 1..Len(queue) /\ cursor' = c /\ queue' = queue /\ pc' # "done"
      /\ QueueInOrder'
      /\ (CompleteRecording' <=> CompleteRecording)
      /\ (Chained' <=> Chained) /\ (Bridged' <=> Bridged)
  BY <1>1, RowsStay
<1>3. book' = ApplyPayload(book, Row(c), at)
  BY DEF ApplyNext, Row
<1>4. Row(c) \in Update /\ at \in Nat /\ book \in LocalBook
  BY <1>1, <1>2, SelectedRowTyped DEF Row
<1> HIDE DEF at
<1>5. CASE Stale(c)
  <2>1. book' = [book EXCEPT !.dropped = @ + 1]
    BY <1>3, <1>5 DEF ApplyPayload, Stale
  <2>2. book'.applied = book.applied /\ book'.last = book.last /\ book'.status = book.status
    BY <1>4, <2>1 DEF LocalBook
  <2>3. book'.status # "resync_required" => NoGapSoFar'
    BY <1>1, <1>5, <2>2, StaleKeeps DEF RebuildSound
  <2> QED
    BY <1>1, <1>2, <2>2, <2>3 DEF RebuildSound
<1>6. CASE ~Stale(c) /\ Gap(book, Row(c))
  <2>1. book' = [book EXCEPT !.status = "resync_required", !.gaps = @ + 1]
    BY <1>3, <1>6 DEF ApplyPayload, Stale
  <2>2. book'.status = "resync_required"
    BY <1>4, <2>1, ResyncFields
  <2>3. ~CompleteRecording
    BY <1>1, <1>2, <1>6, CompleteHasNoGap DEF RebuildSound
  <2>4. ~(Chained /\ Bridged)
    BY <1>1, <1>2, <1>6, ChainHasNoGap DEF RebuildSound
  <2> QED
    BY <1>2, <2>2, <2>3, <2>4 DEF RebuildSound
<1>7. CASE ~Stale(c) /\ ~Gap(book, Row(c))
  <2>1. book' = Applied(book, Row(c), at)
    BY <1>3, <1>7 DEF ApplyPayload, Stale
  <2>2. /\ book'.applied = book.applied + 1 /\ book'.last = Row(c).final
        /\ book'.status = "resync_required" <=> book.status = "resync_required"
    BY <1>4, <2>1, AppliedTyped
  <2>3. book'.status # "resync_required" => NoGapSoFar'
    BY <1>1, <1>7, <2>2, AppliedKeeps DEF RebuildSound
  <2> QED
    BY <1>1, <1>2, <2>2, <2>3 DEF RebuildSound
<1> QED
  BY <1>5, <1>6, <1>7

-----------------------------------------------------------------------------
(* The other steps                                                         *)

LEMMA ReplayedInit == Init => Replayed
<1> SUFFICES ASSUME Init PROVE Replayed
  OBVIOUS
<1>1. TypeOK /\ IInv
  BY TypesInit, InitIInv
<1>2. published = <<>> /\ queue = <<>> /\ cursor = 0 /\ pc = "idle"
      /\ book.applied = 0 /\ book.last = book.snap /\ book.snap = 0 /\ book.status = "seeded"
  BY DEF Init, Seeded, NoSnapshot
<1>3. Published = {} /\ Timeline /\ Frontier
  BY <1>2 DEF Published, Timeline, Frontier, LastPublished
<1>4. Counted = {}
  BY <1>2 DEF Counted
<1>5. NoGapSoFar
  BY <1>2, <1>3, <1>4, FS_EmptySet DEF NoGapSoFar
<1>6. RebuildSound
  BY <1>2, <1>5 DEF RebuildSound, QueueInOrder
<1> QED
  BY <1>1, <1>3, <1>6 DEF Replayed

(* The venue's next update continues the last one.                         *)
LEMMA PublishTimeline ==
  ASSUME SendsPrevious, Replayed, NEW t \in 0..MaxChanges, VenuePublishes(t)
  PROVE  /\ Timeline' /\ Frontier'
         /\ \E u : /\ Published' = Published \cup {u}
                   /\ u.final \in Nat /\ LastPublished < u.final
         /\ \A i \in 1..Len(published) : published'[i] = published[i]
         /\ Len(published') = Len(published) + 1
         /\ LastPublished \in Nat
<1> DEFINE N == Len(published)
           u == [first  |-> LastPublished + 1,
                 final  |-> LastId,
                 prev   |-> IF SendsPrevious THEN LastPublished ELSE NoId,
                 time   |-> t,
                 levels |-> {venue[k].level : k \in (LastPublished + 1)..LastId},
                 qty    |-> BookAt(LastId)]
<1>1. TypeOK /\ PublishedSound /\ Timeline /\ Frontier
  BY DEF Replayed, IInv
<1>2. N \in Nat /\ published \in Seq(Update)
  BY <1>1 DEF TypeOK
<1>3. LastPublished \in Nat /\ LastTime \in Nat
  <2>1. published # <<>> => N \in 1..N /\ published[N] \in Update
    BY <1>2
  <2> QED
    BY <2>1 DEF LastPublished, LastTime, Update
<1>4. u.final \in Nat /\ LastPublished < u.final /\ u.prev = LastPublished /\ u.time = t
  BY <1>1 DEF VenuePublishes, TypeOK, LastId
<1>5. t \in Nat /\ LastTime <= t
  BY <1>3, BookSyncAssumption DEF VenuePublishes
<1>6. published' = Append(published, u)
  BY DEF VenuePublishes
<1> HIDE DEF u
<1>7. /\ Len(published') = N + 1 /\ published'[N + 1] = u
      /\ \A i \in 1..N : published'[i] = published[i]
  BY <1>2, <1>6
<1>8. Published' = Published \cup {u}
  <2>1. 1..Len(published') = 1..N \cup {N + 1}
    BY <1>2, <1>7
  <2> QED
    BY <1>7, <2>1 DEF Published
<1>9. /\ LastPublished' = u.final /\ LastTime' = u.time
  BY <1>2, <1>7 DEF LastPublished, LastTime
<1>10. \A w \in Published : /\ w.final \in Nat /\ w.prev \in Nat /\ w.time \in Nat
                            /\ w.final <= LastPublished /\ w.time <= LastTime
  BY <1>1, PublishedFacts DEF Frontier
<1>11. Timeline'
  <2>1. \A v, w \in Published' : v = w \/ v.final <= w.prev \/ w.final <= v.prev
    BY <1>1, <1>4, <1>8, <1>10 DEF Timeline
  <2>2. ASSUME NEW v \in Published', NEW w \in Published', v.time < w.time
        PROVE  v.final <= w.prev
    <3>1. CASE v \in Published /\ w \in Published
      BY <1>1, <2>2, <3>1 DEF Timeline
    <3>2. CASE v \in Published /\ w = u
      BY <1>4, <1>10, <3>2
    <3>3. CASE v = u /\ w \in Published
      BY <1>3, <1>4, <1>5, <1>10, <2>2, <3>3
    <3>4. CASE v = u /\ w = u
      BY <1>4, <1>5, <2>2, <3>4
    <3> QED
      BY <1>8, <2>2, <3>1, <3>2, <3>3, <3>4
  <2>3. \A v \in Published' : v.prev = 0 \/ \E w \in Published' : w.final = v.prev
    BY <1>1, <1>4, <1>8 DEF Timeline, Frontier
  <2>4. ASSUME NEW i \in 1..Len(published'), NEW j \in 1..Len(published'), i < j
        PROVE  published'[i].final < published'[j].final
    <3>1. CASE j \in 1..N
      BY <1>1, <1>2, <1>7, <2>4, <3>1 DEF Timeline
    <3>2. CASE j = N + 1
      <4>1. i \in 1..N /\ published[i] \in Published
        BY <1>2, <1>7, <2>4, <3>2 DEF Published
      <4> QED
        BY <1>3, <1>4, <1>7, <1>10, <3>2, <4>1
    <3> QED
      BY <1>2, <1>7, <2>4, <3>1, <3>2
  <2> QED
    BY <2>1, <2>2, <2>3, <2>4 DEF Timeline
<1>12. Frontier'
  <2>1. \A w \in Published' : w.final <= u.final /\ w.time <= u.time
    BY <1>3, <1>4, <1>5, <1>8, <1>10
  <2>2. u \in Published'
    BY <1>8
  <2> QED
    BY <1>9, <2>1, <2>2 DEF Frontier
<1> HIDE DEF N
<1> QED
  BY <1>3, <1>4, <1>7, <1>8, <1>11, <1>12 DEF N

(* An update published during or after a rebuild is newer than its book.   *)
LEMMA PublishSound ==
  ASSUME SendsPrevious, Replayed, NEW t \in 0..MaxChanges, VenuePublishes(t)
  PROVE  RebuildSound'
<1>1. TypeOK /\ PublishedSound /\ RebuildSound /\ QueueInOrder /\ Frontier
  BY DEF Replayed, IInv, RebuildSound
<1>2. /\ queue' = queue /\ cursor' = cursor /\ book' = book /\ pc' = pc
  BY DEF VenuePublishes
<1>3. PICK u : /\ Published' = Published \cup {u}
               /\ u.final \in Nat /\ LastPublished < u.final
  BY PublishTimeline
<1>4. /\ \A i \in 1..Len(published) : published'[i] = published[i]
      /\ Len(published') = Len(published) + 1 /\ LastPublished \in Nat
  BY PublishTimeline
<1>5. /\ \A k : Row(k)' = Row(k) /\ (Stale(k)' <=> Stale(k))
      /\ Counted' = Counted /\ Selected' = Selected /\ Relevant' = Relevant
  BY <1>2 DEF Row, Stale, Counted, Selected, Relevant
<1>6. (Chained' <=> Chained) /\ (Bridged' <=> Bridged)
  BY <1>2, <1>5 DEF Chained, Bridged
<1>7. QueueInOrder'
  BY <1>1, <1>2, <1>3, <1>5 DEF QueueInOrder
<1>8. CompleteRecording' => CompleteRecording
  <2>1. \A i \in 1..Len(published) : i \in 1..Len(published')
    BY <1>4, BookFacts, <1>1
  <2> QED
    BY <1>2, <1>4, <1>5, <2>1 DEF CompleteRecording, DistinctTimes
<1>9. ASSUME NoGapSoFar PROVE NoGapSoFar'
  <2>1. ASSUME book.snap < u.final, u.final <= book.last PROVE FALSE
    <3>1. book.snap \in Nat /\ book.last \in Nat /\ cursor \in Nat /\ Len(queue) \in Nat
      BY <1>1, BookFacts
    <3>2. book.last \in Nat /\ book.last <= LastPublished
      <4>1. CASE book.applied = 0
        <5>1. book.last = book.snap
          BY <1>9, <4>1 DEF NoGapSoFar
        <5> QED
          BY <1>3, <2>1, <3>1, <5>1
      <4>2. CASE book.applied # 0
        <5>1. PICK k \in 1..cursor : book.last = Row(k).final
          BY <1>9, <4>2 DEF NoGapSoFar
        <5>2. Row(k) \in Published
          <6>1. k \in 1..Len(queue)
            BY <1>1, <3>1, <5>1 DEF TypeOK
          <6> QED
            BY <1>1, <6>1 DEF QueueInOrder
        <5> QED
          BY <1>1, <3>1, <5>1, <5>2 DEF Frontier
      <4> QED
        BY <4>1, <4>2
    <3> QED
      BY <1>3, <1>4, <2>1, <3>2
  <2>2. \A w \in Published' : book.snap < w.final /\ w.final <= book.last
          => \E k \in 1..cursor : w = Row(k)
    BY <1>3, <1>9, <2>1 DEF NoGapSoFar
  <2> QED
    BY <1>2, <1>5, <1>9, <2>2 DEF NoGapSoFar
<1> QED
  BY <1>1, <1>2, <1>6, <1>7, <1>8, <1>9 DEF RebuildSound

(* The rows are selected in the order of their event times, each once.     *)
LEMMA BeginSound ==
  ASSUME Replayed, BeginRebuild
  PROVE  RebuildSound'
<1>1. TypeOK /\ PublishedSound /\ Timeline
  BY DEF Replayed, IInv
<1>2. PICK q \in RowOrders :
        queue' = [k \in 1..Len(q) |-> [update |-> published[q[k]], at |-> rows[q[k]]]]
  BY DEF BeginRebuild
<1>3. PICK n \in Nat : n = Len(q)
  BY <1>1, SelectedTyped
<1>4. /\ \A k \in 1..n : q[k] \in 1..Len(published)
      /\ \A i, j \in 1..n : i < j => q[i] # q[j] /\ Ordered(q[i], q[j])
  BY <1>1, <1>3, SelectedTyped
<1>5. queue' = [k \in 1..n |-> [update |-> published[q[k]], at |-> rows[q[k]]]]
  BY <1>2, <1>3
<1>6. /\ Len(queue') = n
      /\ \A k \in 1..n : Row(k)' = published[q[k]]
  BY <1>5 DEF Row
<1>7. Published' = Published
  BY DEF BeginRebuild, Published
<1>8. QueueInOrder'
  <2>1. \A k \in 1..n : Row(k)' \in Published
    BY <1>4, <1>6 DEF Published
  <2>2. ASSUME NEW i \in 1..n, NEW j \in 1..n, i < j
        PROVE  Row(i)' # Row(j)' /\ Row(i)'.time <= Row(j)'.time
    <3>1. q[i] \in 1..Len(published) /\ q[j] \in 1..Len(published) /\ q[i] # q[j]
      BY <1>4, <2>2
    <3>2. published[q[i]] \in Published /\ published[q[j]] \in Published
      BY <3>1 DEF Published
    <3>3. /\ published[q[i]].final \in Nat /\ published[q[j]].final \in Nat
          /\ published[q[i]].time \in Nat /\ published[q[j]].time \in Nat
      BY <1>1, <3>2, PublishedFacts
    <3>4. Len(published) \in Nat
      BY <1>1, BookFacts
    <3>5. q[i] < q[j] \/ q[j] < q[i]
      BY <3>1, <3>4
    <3>6. published[q[i]].final # published[q[j]].final
      BY <1>1, <3>1, <3>3, <3>5 DEF Timeline
    <3>7. published[q[i]].time <= published[q[j]].time
      <4>1. Ordered(q[i], q[j])
        BY <1>4, <2>2
      <4>2. \/ published[q[i]].time < published[q[j]].time
            \/ published[q[i]].time = published[q[j]].time
        BY <4>1 DEF Ordered
      <4> QED
        BY <3>3, <4>2
    <3> QED
      BY <1>6, <3>6, <3>7
  <2> QED
    BY <1>6, <1>7, <2>1, <2>2 DEF QueueInOrder
<1>9. /\ cursor' = 0 /\ pc' = "replaying" /\ book'.applied = 0 /\ book'.last = book'.snap
      /\ book'.snap \in Nat /\ book'.status = "seeded"
  BY <1>1 DEF BeginRebuild, Seeded, TypeOK, Snapshot
<1>10. Counted' = {}
  BY <1>9 DEF Counted
<1>11. ASSUME NEW w \in Published, book'.snap < w.final, w.final <= book'.last PROVE FALSE
  <2>1. w.final \in Nat
    BY <1>1, PublishedFacts
  <2> QED
    BY <1>9, <1>11, <2>1
<1>12. NoGapSoFar'
  BY <1>7, <1>9, <1>10, <1>11, FS_EmptySet DEF NoGapSoFar
<1> QED
  BY <1>6, <1>8, <1>9, <1>12 DEF RebuildSound

LEMMA ReplayedStep ==
  ASSUME SendsPrevious
  PROVE  Replayed /\ [Next]_vars => Replayed'
<1> SUFFICES ASSUME Replayed, [Next]_vars PROVE Replayed'
  OBVIOUS
<1>1. TypeOK' /\ IInv'
  BY TypesStep, IInvStep DEF Replayed
<1>2. ASSUME UNCHANGED published PROVE Timeline' /\ Frontier'
  BY <1>2 DEF Replayed, Timeline, Frontier, Published, LastPublished, LastTime
<1>3. ASSUME UNCHANGED <<published, queue, cursor, book>>, pc' = "done" => cursor = Len(queue)
      PROVE  RebuildSound'
  <2>1. /\ \A k : Row(k)' = Row(k) /\ (Stale(k)' <=> Stale(k))
        /\ Counted' = Counted /\ Selected' = Selected /\ Relevant' = Relevant
        /\ Published' = Published
    BY <1>3 DEF Row, Stale, Counted, Selected, Relevant, Published
  <2>2. (Chained' <=> Chained) /\ (Bridged' <=> Bridged) /\ (QueueInOrder' <=> QueueInOrder)
    BY <1>3, <2>1 DEF Chained, Bridged, QueueInOrder
  <2>3. CompleteRecording' <=> CompleteRecording
    BY <1>3, <2>1 DEF CompleteRecording, DistinctTimes
  <2>4. NoGapSoFar' <=> NoGapSoFar
    BY <1>3, <2>1 DEF NoGapSoFar
  <2> QED
    BY <1>3, <2>2, <2>3, <2>4 DEF Replayed, RebuildSound
<1>4. ASSUME NEW t \in 0..MaxChanges, VenuePublishes(t) PROVE Replayed'
  BY <1>1, <1>4, PublishTimeline, PublishSound DEF Replayed
<1>5. ASSUME BeginRebuild PROVE Replayed'
  BY <1>1, <1>2, <1>5, BeginSound DEF Replayed, BeginRebuild
<1>6. ASSUME ApplyNext PROVE Replayed'
  BY <1>1, <1>2, <1>6, ApplySound DEF Replayed, ApplyNext
<1>7. pc = "done" => cursor = Len(queue)
  BY DEF Replayed, RebuildSound
<1>8. ASSUME NEW l \in Levels, NEW q \in 0..MaxQty, VenueChanges(l, q) PROVE Replayed'
  BY <1>1, <1>2, <1>3, <1>7, <1>8 DEF Replayed, VenueChanges
<1>9. ASSUME NEW i \in 1..MaxChanges, NEW tick \in {0, 1}, Receive(i, tick) PROVE Replayed'
  BY <1>1, <1>2, <1>3, <1>7, <1>9 DEF Replayed, Receive
<1>10. ASSUME TakeSnapshot \/ UNCHANGED vars PROVE Replayed'
  BY <1>1, <1>2, <1>3, <1>7, <1>10 DEF Replayed, TakeSnapshot, vars
<1>11. ASSUME FinishRebuild PROVE Replayed'
  BY <1>1, <1>2, <1>3, <1>11 DEF Replayed, FinishRebuild
<1> QED
  BY <1>4, <1>5, <1>6, <1>8, <1>9, <1>10, <1>11 DEF Next

LEMMA AlwaysReplayed ==
  ASSUME SendsPrevious
  PROVE  Spec => []Replayed
  BY ReplayedInit, ReplayedStep, PTL DEF Spec

-----------------------------------------------------------------------------
(* A finished rebuild that asks for no resync has missed nothing, and with *)
(* a complete recording it asks for none (apply_depth_payload).            *)
THEOREM ResyncTellsTruth ==
  ASSUME SendsPrevious
  PROVE  Spec => []ResyncIffGap
<1>1. Replayed => ResyncIffGap
  <2> SUFFICES ASSUME Replayed, pc = "done"
               PROVE  /\ book.status # "resync_required" =>
                           /\ \A u \in Selected : u.final <= book.last
                           /\ \A i \in 1..Len(published) :
                                (book.snap < published[i].final /\ published[i].final <= book.last)
                                  => published[i] \in Selected
                           /\ book.applied = Cardinality(Relevant)
                      /\ CompleteRecording => book.status # "resync_required"
    BY DEF ResyncIffGap
  <2>1. cursor = Len(queue) /\ RebuildSound
    BY DEF Replayed, RebuildSound
  <2>2. Selected = {Row(k) : k \in 1..cursor}
    BY <2>1 DEF Selected, Row
  <2>3. Relevant = Counted
    BY <2>1 DEF Relevant, Counted, Selected, Row, Stale
  <2>4. \A i \in 1..Len(published) : published[i] \in Published
    BY DEF Published
  <2>5. ASSUME book.status # "resync_required" PROVE NoGapSoFar
    BY <2>1, <2>5 DEF RebuildSound
  <2>6. ASSUME NoGapSoFar
        PROVE  /\ \A u \in Selected : u.final <= book.last
               /\ \A i \in 1..Len(published) :
                    (book.snap < published[i].final /\ published[i].final <= book.last)
                      => published[i] \in Selected
               /\ book.applied = Cardinality(Relevant)
    BY <2>2, <2>3, <2>4, <2>6 DEF NoGapSoFar
  <2> QED
    BY <2>1, <2>5, <2>6 DEF RebuildSound
<1> QED
  BY <1>1, AlwaysReplayed, PTL

(* The gap count of the stream replay and the status of the rebuilt book   *)
(* agree on the same rows (replay_paper_stream_events).                    *)
THEOREM ReadersAlwaysAgree ==
  ASSUME SendsPrevious
  PROVE  Spec => []ReadersAgree
<1>1. Replayed => ReadersAgree
  <2> SUFFICES ASSUME Replayed, pc = "done"
               PROVE  /\ (GapCount(queue) = 0 /\ \E u \in Relevant : Bridges(book, u))
                           => book.status # "resync_required"
                      /\ book.status # "resync_required" =>
                           \A i \in ReplayGaps(queue) :
                             \E k \in {i - 1, i} : IsStaleUpdate(book, queue[k].update)
    BY DEF ReadersAgree
  <2>1. /\ cursor = Len(queue) /\ RebuildSound /\ TypeOK /\ PublishedSound /\ QueueInOrder
        /\ Len(queue) \in Nat
    BY BookFacts DEF Replayed, RebuildSound, IInv
  <2>2. ReplayGaps(queue) = {i \in 2..Len(queue) : Row(i).prev # Row(i - 1).final}
    <3>1. \A i \in 2..Len(queue) : Row(i).prev # NoId
      BY <2>1, RowFacts
    <3> QED
      BY <3>1 DEF ReplayGaps, Row
  <2>3. ASSUME GapCount(queue) = 0, NEW u \in Relevant, Bridges(book, u)
        PROVE  book.status # "resync_required"
    <3>1. IsFiniteSet(2..Len(queue)) /\ ReplayGaps(queue) \in SUBSET (2..Len(queue))
      BY <2>1, <2>2, FS_Interval
    <3>2. ReplayGaps(queue) = {}
      BY <2>3, <3>1, FS_Subset, FS_EmptySet DEF GapCount
    <3>3. Chained
      BY <2>2, <3>2 DEF Chained
    <3>4. Bridged
      BY <2>3 DEF Bridged, Relevant, Selected, Row
    <3> QED
      BY <2>1, <3>3, <3>4 DEF RebuildSound
  <2>4. ASSUME book.status # "resync_required", NEW i \in ReplayGaps(queue)
        PROVE  \E k \in {i - 1, i} : IsStaleUpdate(book, queue[k].update)
    <3>1. i \in 2..cursor /\ Row(i).prev # Row(i - 1).final
      BY <2>1, <2>2
    <3>2. NoGapSoFar
      BY <2>1, <2>4 DEF RebuildSound
    <3>3. Stale(i - 1) \/ Stale(i)
      BY <3>1, <3>2 DEF NoGapSoFar
    <3> QED
      BY <3>3 DEF Stale, Row
  <2> QED
    BY <2>3, <2>4
<1> QED
  BY <1>1, AlwaysReplayed, PTL
=============================================================================
