--------------------------- MODULE CollectorProofs ---------------------------
(***************************************************************************)
(* What holds of the live collector for any streams, limits, timeouts and  *)
(* number of restarts: a session that reads as over has its rows, a crash  *)
(* loses no more than one touch interval, and the summary of the last run  *)
(* counts what its rows show (Tally: the counters of a running session are *)
(* those of the rows on its connection, and the highest number of a stream *)
(* is its last).                                                           *)
(***************************************************************************)
EXTENDS Collector, FiniteSetTheorems, TLAPS

CFields == {"attempt", "count", "gaps", "duplicates", "last", "hashes", "seen", "touched",
            "started", "base", "connected", "status"}

Pcs == {"down", "connect", "read", "marker", "finish", "summarise", "done"}

(* The collector's times are of the past.                                  *)
Times ==
  /\ pc \in Pcs
  /\ clock \in Nat
  /\ DOMAIN c = CFields
  /\ c.seen \in Int /\ c.seen <= clock
  /\ c.touched \in Nat /\ c.touched <= clock

(* Rows wait for a commit only between a connection's first message and    *)
(* the marker, and none of them since before the last touch.               *)
Waiting ==
  /\ pc \notin {"read", "marker"} => live = rows
  /\ live # rows => /\ oldest \in Nat /\ c.touched <= oldest
                    /\ c.seen - oldest < TouchEvery

MarkerThere == \E r \in rows : r.stream = "shutdown" /\ r.run = run

(* A running session is not over, what it recorded is on its connection,   *)
(* and from the marker on in the database.                                 *)
Durable ==
  /\ DOMAIN session = {"status", "heartbeat"}
  /\ pc \in {"connect", "read", "marker", "finish"} => session.status = "running"
  /\ pc \notin {"down", "done"} => got \subseteq live
  /\ \A r \in got : r.number # 0
  /\ pc \in {"finish", "summarise"} => MarkerThere
  /\ FinishedIsDurable

IInv == Times /\ Waiting /\ Durable

-----------------------------------------------------------------------------
(* What the operators do to the fields the invariant is about              *)

LEMMA FreshFields ==
  ASSUME clock \in Nat
  PROVE  /\ DOMAIN Fresh = CFields
         /\ Fresh.seen \in Int /\ Fresh.seen <= clock
         /\ Fresh.touched \in Nat /\ Fresh.touched <= clock
BY DEF Fresh, CFields, Never

LEMMA UpdatedFields ==
  ASSUME DOMAIN c = CFields, NEW s, NEW n
  PROVE  /\ DOMAIN Updated(c, s, n) = CFields
         /\ Updated(c, s, n).seen = clock
         /\ Updated(c, s, n).touched = c.touched
<1> DEFINE duplicates == c.duplicates + (IF <<s, n>> \in c.hashes THEN 1 ELSE 0)
           hashes == c.hashes \cup {<<s, n>>}
           gaps == c.gaps + (IF c.last[s] # Never /\ n > c.last[s] + 1 THEN 1 ELSE 0)
           last == [c.last EXCEPT ![s] = n]
           one == [c EXCEPT !.count = @ + 1, !.seen = clock, !.duplicates = duplicates]
           two == [one EXCEPT !.hashes = hashes, !.gaps = gaps, !.last = last]
<1>1. Updated(c, s, n) = [c EXCEPT !.count = @ + 1, !.seen = clock, !.duplicates = duplicates,
                                   !.hashes = hashes, !.gaps = gaps, !.last = last]
  BY Zenon DEF Updated
<1> HIDE DEF duplicates, hashes, gaps, last
<1>2. Updated(c, s, n) = two
  BY <1>1 DEF CFields
<1>3. DOMAIN one = CFields /\ one.seen = clock /\ one.touched = c.touched
  BY DEF CFields
<1> HIDE DEF one
<1>4. DOMAIN two = CFields /\ two.seen = clock /\ two.touched = c.touched
  BY <1>3 DEF CFields
<1> QED
  BY <1>2, <1>4

-----------------------------------------------------------------------------
(* Actions that leave the rows alone, or commit them                       *)

LEMMA CommitEmpties ==
  ASSUME rows' = live', pc' \in Pcs
  PROVE  Waiting'
BY DEF Waiting

LEMMA NothingWaits ==
  ASSUME Waiting, UNCHANGED <<live, rows, oldest, c>>,
         pc \notin {"read", "marker"} => pc' \notin {"read", "marker"},
         pc' \notin {"read", "marker"} => pc \notin {"read", "marker"}
  PROVE  Waiting'
BY DEF Waiting

(* The rows a session waits with stay, and so do its status and the run.   *)
LEMMA StillRunning ==
  ASSUME Durable, pc \in {"connect", "read", "marker"}, pc' \in {"connect", "read", "marker"},
         UNCHANGED <<live, session, got>>
  PROVE  Durable'
<1>1. session'.status = "running" /\ got' \subseteq live' /\ \A r \in got' : r.number # 0
  BY DEF Durable
<1>2. session'.status \notin Finals'
  BY <1>1 DEF Finals
<1> QED
  BY <1>1, <1>2 DEF Durable, FinishedIsDurable

-----------------------------------------------------------------------------
(* One action at a time                                                    *)

LEMMA InitHolds ==
  ASSUME CollectorAssumption, Init
  PROVE  IInv
<1>1. clock = 0 /\ pc = "down" /\ c = Fresh /\ live = {} /\ rows = {} /\ got = {}
      /\ session.status = "none" /\ DOMAIN session = {"status", "heartbeat"}
  BY DEF Init
<1>2. Times
  BY <1>1, FreshFields DEF Times, Pcs
<1>3. Waiting
  BY <1>1 DEF Waiting
<1>4. Durable
  BY <1>1 DEF Durable, FinishedIsDurable, Finals
<1> QED
  BY <1>2, <1>3, <1>4 DEF IInv

LEMMA StartHolds ==
  ASSUME IInv, Start
  PROVE  IInv'
<1>1. /\ pc = "down" /\ pc' = "connect" /\ c' = Fresh /\ got' = {} /\ session'.status = "running"
      /\ DOMAIN session' = {"status", "heartbeat"}
      /\ UNCHANGED <<clock, live, rows>>
  BY DEF Start
<1>2. Times'
  <2>1. clock \in Nat
    BY DEF IInv, Times
  <2>2. /\ DOMAIN c' = CFields /\ c'.seen \in Int /\ c'.seen <= clock
        /\ c'.touched \in Nat /\ c'.touched <= clock
    BY <1>1, <2>1, FreshFields
  <2> QED
    BY <1>1, <2>1, <2>2 DEF Times, Pcs
<1>3. Waiting'
  BY <1>1 DEF IInv, Waiting
<1>4. Durable'
  BY <1>1 DEF Durable, FinishedIsDurable, Finals
<1> QED
  BY <1>2, <1>3, <1>4 DEF IInv

LEMMA ConnectHolds ==
  ASSUME IInv, Connect
  PROVE  IInv'
<1>1. /\ pc = "connect" /\ pc' = "read" /\ c' = Connected(c) /\ rows' = live'
      /\ UNCHANGED <<clock, live, session, got>>
  BY DEF Connect, Commit
<1>2. DOMAIN c' = DOMAIN c /\ c'.seen = c.seen /\ c'.touched = c.touched
  BY <1>1 DEF Connected, IInv, Times, CFields
<1>3. Times'
  BY <1>1, <1>2 DEF IInv, Times, Pcs
<1>4. Waiting'
  BY <1>1, CommitEmpties DEF Pcs
<1>5. Durable'
  BY <1>1, StillRunning DEF IInv
<1> QED
  BY <1>3, <1>4, <1>5 DEF IInv

LEMMA ReceiveHolds ==
  ASSUME CollectorAssumption, IInv, NEW s \in Streams, NEW n \in 1..MaxNumber, Receive(s, n)
  PROVE  IInv'
<1> DEFINE m == Updated(c, s, n)
           r == Row(m, s, n)
<1>1. /\ pc = "read" /\ live' = Stored(live, r) /\ got' = Stored(got, r) /\ Handled(m)
      /\ oldest' = IF rows' = live' THEN Never ELSE IF live = rows THEN clock ELSE oldest
  BY DEF Receive, Sent
<1>2. DOMAIN m = CFields /\ m.seen = clock /\ m.touched = c.touched
  BY UpdatedFields DEF IInv, Times
<1>3. r.number = n /\ n # 0
  BY DEF Row
<1>4. clock \in Nat /\ c.touched \in Nat /\ c.touched <= clock /\ TouchEvery \in Nat \ {0}
      /\ c.seen \in Int
  BY DEF IInv, Times, CollectorAssumption
<1> HIDE DEF m, r
<1>5. TouchTime(m) = clock
  BY <1>2, <1>4 DEF TouchTime, Never
<1>6. TouchDue(m) <=> clock - c.touched >= TouchEvery
  BY <1>2, <1>5 DEF TouchDue
<1>7. /\ session'.status = session.status /\ DOMAIN session' = DOMAIN session
      /\ rows' = IF TouchDue(m) THEN live' ELSE rows
      /\ c' = [m EXCEPT !.touched = IF TouchDue(m) THEN TouchTime(m) ELSE @]
      /\ pc' \in {"marker", "read"} /\ UNCHANGED clock
  <2>1. Touch(m) /\ c' = [m EXCEPT !.touched = IF TouchDue(m) THEN TouchTime(m) ELSE @]
        /\ pc' \in {"marker", "read"} /\ UNCHANGED clock
    BY <1>1 DEF Handled
  <2>2. session' = session \/ session' = [session EXCEPT !.heartbeat = TouchTime(m)]
    BY <2>1 DEF Touch
  <2>3. session.status = "running" /\ DOMAIN session = {"status", "heartbeat"}
    BY <1>1 DEF IInv, Durable
  <2>4. session'.status = session.status /\ DOMAIN session' = DOMAIN session
    BY <2>2, <2>3
  <2> QED
    BY <2>1, <2>4 DEF Touch
<1>8. DOMAIN c' = CFields /\ c'.seen = clock
      /\ c'.touched = IF TouchDue(m) THEN clock ELSE c.touched
  BY <1>2, <1>5, <1>7 DEF CFields
<1>9. Times'
  BY <1>4, <1>7, <1>8 DEF Times, Pcs
<1>10. Waiting'
  <2>1. CASE rows' = live'
    BY <2>1, <1>7, CommitEmpties DEF Pcs
  <2>2. CASE rows' # live'
    <3>1. ~TouchDue(m) /\ clock - c.touched < TouchEvery /\ c'.touched = c.touched
      BY <2>2, <1>4, <1>6, <1>7, <1>8
    <3>2. oldest' \in Nat /\ c.touched <= oldest'
      <4>1. CASE live = rows
        BY <4>1, <2>2, <1>1, <1>4
      <4>2. CASE live # rows
        BY <4>2, <2>2, <1>1 DEF IInv, Waiting
      <4> QED
        BY <4>1, <4>2
    <3>3. c'.seen - oldest' < TouchEvery
      BY <3>1, <3>2, <1>4, <1>8
    <3> QED
      BY <3>1, <3>2, <3>3, <1>7 DEF Waiting
  <2> QED
    BY <2>1, <2>2
<1>11. Durable'
  <2>1. session'.status = "running" /\ DOMAIN session' = {"status", "heartbeat"}
        /\ got \subseteq live /\ \A q \in got : q.number # 0
    BY <1>1, <1>7 DEF IInv, Durable
  <2>2. got' \subseteq live'
    BY <2>1, <1>1 DEF Stored
  <2>3. \A q \in got' : q.number # 0
    BY <2>1, <1>1, <1>3 DEF Stored
  <2>4. FinishedIsDurable'
    BY <2>1 DEF FinishedIsDurable, Finals
  <2> QED
    BY <2>1, <2>2, <2>3, <2>4, <1>7 DEF Durable
<1> QED
  BY <1>9, <1>10, <1>11 DEF IInv

(* What the ends of a connection have in common.                           *)
LEMMA EndedHolds ==
  ASSUME IInv, pc = "read", pc' \in {"connect", "marker"}, DOMAIN c' = CFields,
         c'.seen \in {c.seen, clock}, c'.touched = c.touched,
         UNCHANGED <<clock, live, session, got>>,
         \/ rows' = live'
         \/ pc' = "marker" /\ c'.seen = c.seen /\ UNCHANGED <<rows, oldest>>
  PROVE  IInv'
<1>1. Times'
  BY DEF IInv, Times, Pcs
<1>2. Waiting'
  <2>1. CASE rows' = live'
    BY <2>1, CommitEmpties DEF Pcs
  <2>2. CASE pc' = "marker" /\ c'.seen = c.seen /\ UNCHANGED <<rows, oldest>>
    BY <2>2 DEF IInv, Waiting
  <2> QED
    BY <2>1, <2>2
<1>3. Durable'
  BY StillRunning DEF IInv
<1> QED
  BY <1>1, <1>2, <1>3 DEF IInv

LEMMA EndWithEnds ==
  ASSUME NEW m, DOMAIN m = CFields, NEW status, EndWith(m, status)
  PROVE  /\ pc' = "marker" /\ DOMAIN c' = CFields
         /\ c'.seen = m.seen /\ c'.touched = m.touched
BY DEF EndWith, CFields

LEMMA SourceEndsHolds ==
  ASSUME IInv, SourceEnds
  PROVE  IInv'
<1>1. /\ pc = "read" /\ UNCHANGED <<clock, live, session, got>>
      /\ rows' = live' \/ UNCHANGED <<rows, oldest>>
      /\ \E status : EndWith(c, status)
  BY DEF SourceEnds, Commit, NoCommit
<1>2. pc' = "marker" /\ DOMAIN c' = CFields /\ c'.seen = c.seen /\ c'.touched = c.touched
  BY <1>1, EndWithEnds DEF IInv, Times
<1> QED
  BY <1>1, <1>2, EndedHolds

LEMMA TimeoutErrorHolds ==
  ASSUME IInv, pc = "read", TimeoutError
  PROVE  IInv'
<1>1. /\ UNCHANGED <<clock, live, session, got>> /\ rows' = live'
      /\ \E status : EndWith(c, status)
  BY DEF TimeoutError, Commit
<1>2. pc' = "marker" /\ DOMAIN c' = CFields /\ c'.seen = c.seen /\ c'.touched = c.touched
  BY <1>1, EndWithEnds DEF IInv, Times
<1> QED
  BY <1>1, <1>2, EndedHolds

LEMMA ReconnectHolds ==
  ASSUME IInv, pc = "read", NEW m, DOMAIN m = CFields, m.seen \in {c.seen, clock},
         m.touched = c.touched, Reconnect(m)
  PROVE  IInv'
<1>1. /\ UNCHANGED <<clock, live, session, got>> /\ rows' = live'
      /\ EndWith(m, "failed") \/ (pc' = "connect" /\ c' = m)
  BY DEF Reconnect, Commit
<1>2. pc' \in {"connect", "marker"} /\ DOMAIN c' = CFields /\ c'.seen = m.seen
      /\ c'.touched = m.touched
  BY <1>1, EndWithEnds
<1> QED
  BY <1>1, <1>2, EndedHolds

LEMMA SourceRaisesHolds ==
  ASSUME IInv, SourceRaises
  PROVE  IInv'
BY ReconnectHolds DEF SourceRaises, IInv, Times

LEMMA InsertFailsHolds ==
  ASSUME IInv, NEW s, NEW n, InsertFails(s, n)
  PROVE  IInv'
<1>1. /\ DOMAIN Updated(c, s, n) = CFields /\ Updated(c, s, n).seen = clock
      /\ Updated(c, s, n).touched = c.touched
  BY UpdatedFields DEF IInv, Times
<1>2. pc = "read" /\ Reconnect(Updated(c, s, n))
  BY DEF InsertFails, Sent
<1> QED
  BY <1>1, <1>2, ReconnectHolds

(* The marker takes no message's place, whose number is not its own.       *)
LEMMA WriteMarkerHolds ==
  ASSUME IInv, WriteMarker
  PROVE  IInv'
<1> DEFINE marker == [stream |-> "shutdown", number |-> 0, ordinal |-> c.count + 1, run |-> run]
<1>1. /\ pc = "marker" /\ pc' = "finish" /\ live' = Stored(live, marker)
      /\ c' = [c EXCEPT !.seen = StoppedAt] /\ rows' = live'
      /\ UNCHANGED <<clock, session, run, got>>
  BY DEF WriteMarker, Commit
<1>2. StoppedAt \in Int /\ StoppedAt <= clock
  BY DEF StoppedAt, TouchTime, IInv, Times
<1>3. DOMAIN c' = CFields /\ c'.seen = StoppedAt /\ c'.touched = c.touched
  BY <1>1 DEF IInv, Times, CFields
<1>4. Times'
  BY <1>1, <1>2, <1>3 DEF IInv, Times, Pcs
<1>5. Waiting'
  BY <1>1, CommitEmpties DEF Pcs
<1>6. Durable'
  <2>1. got' \subseteq live'
    <3>1. ASSUME NEW r \in got
          PROVE  r \in Stored(live, marker)
      <4>1. r \in live /\ r.number # 0
        BY <1>1 DEF IInv, Durable
      <4>2. Key(r) # Key(marker)
        BY <4>1 DEF Key
      <4> QED
        BY <4>1, <4>2 DEF Stored
    <3> QED
      BY <3>1, <1>1
  <2>2. MarkerThere'
    <3>1. marker \in rows' /\ marker.stream = "shutdown" /\ marker.run = run'
      BY <1>1 DEF Stored
    <3> QED
      BY <3>1, Zenon DEF MarkerThere
  <2>3. session'.status = "running" /\ DOMAIN session' = {"status", "heartbeat"}
        /\ \A r \in got' : r.number # 0
    BY <1>1 DEF IInv, Durable
  <2>4. FinishedIsDurable'
    BY <2>3 DEF FinishedIsDurable, Finals
  <2> QED
    BY <1>1, <2>1, <2>2, <2>3, <2>4 DEF Durable
<1> QED
  BY <1>4, <1>5, <1>6 DEF IInv

LEMMA FinishSessionHolds ==
  ASSUME IInv, FinishSession
  PROVE  IInv'
<1>1. /\ pc = "finish" /\ pc' = "summarise" /\ DOMAIN session' = {"status", "heartbeat"}
      /\ UNCHANGED <<clock, c, live, rows, run, got, oldest>>
  BY DEF FinishSession
<1>2. Times'
  BY <1>1 DEF IInv, Times, Pcs
<1>3. Waiting'
  BY <1>1, NothingWaits DEF IInv
<1>4. Durable'
  <2>1. live = rows /\ got \subseteq live /\ MarkerThere /\ \A r \in got : r.number # 0
    BY <1>1 DEF IInv, Waiting, Durable
  <2>2. FinishedIsDurable' /\ MarkerThere'
    BY <1>1, <2>1 DEF FinishedIsDurable, MarkerThere
  <2> QED
    BY <1>1, <2>1, <2>2 DEF Durable
<1> QED
  BY <1>2, <1>3, <1>4 DEF IInv

(* Steps after which the session's row and its rows read as before.        *)
LEMMA RowsStay ==
  ASSUME Durable, UNCHANGED <<rows, session, run, got>>
  PROVE  FinishedIsDurable' /\ (\A r \in got' : r.number # 0)
         /\ DOMAIN session' = {"status", "heartbeat"} /\ (MarkerThere => MarkerThere')
BY DEF Durable, FinishedIsDurable, MarkerThere, Finals

LEMMA SummariseHolds ==
  ASSUME IInv, Summarise
  PROVE  IInv'
<1>1. /\ pc = "summarise" /\ pc' = "done"
      /\ UNCHANGED <<clock, c, live, rows, session, run, got, oldest>>
  BY DEF Summarise
<1>2. Times'
  BY <1>1 DEF IInv, Times, Pcs
<1>3. Waiting'
  BY <1>1, NothingWaits DEF IInv
<1>4. Durable'
  BY <1>1, RowsStay DEF IInv, Durable
<1> QED
  BY <1>2, <1>3, <1>4 DEF IInv

LEMMA CrashHolds ==
  ASSUME IInv, Crash
  PROVE  IInv'
<1>1. /\ pc' = "down" /\ live' = rows' /\ c' = Fresh
      /\ UNCHANGED <<clock, rows, session, run, got>>
  BY DEF Crash
<1>2. Times'
  <2>1. clock \in Nat
    BY DEF IInv, Times
  <2>2. /\ DOMAIN c' = CFields /\ c'.seen \in Int /\ c'.seen <= clock
        /\ c'.touched \in Nat /\ c'.touched <= clock
    BY <1>1, <2>1, FreshFields
  <2> QED
    BY <1>1, <2>1, <2>2 DEF Times, Pcs
<1>3. Waiting'
  BY <1>1, CommitEmpties DEF Pcs
<1>4. Durable'
  BY <1>1, RowsStay DEF IInv, Durable
<1> QED
  BY <1>2, <1>3, <1>4 DEF IInv

LEMMA AgainHolds ==
  ASSUME IInv, Again
  PROVE  IInv'
<1>1. /\ pc = "done" /\ pc' = "down" /\ c' = Fresh
      /\ UNCHANGED <<clock, live, rows, session, run, got, oldest>>
  BY DEF Again
<1>2. Times'
  <2>1. clock \in Nat
    BY DEF IInv, Times
  <2>2. /\ DOMAIN c' = CFields /\ c'.seen \in Int /\ c'.seen <= clock
        /\ c'.touched \in Nat /\ c'.touched <= clock
    BY <1>1, <2>1, FreshFields
  <2> QED
    BY <1>1, <2>1, <2>2 DEF Times, Pcs
<1>3. Waiting'
  BY <1>1 DEF IInv, Waiting
<1>4. Durable'
  BY <1>1, RowsStay DEF IInv, Durable
<1> QED
  BY <1>2, <1>3, <1>4 DEF IInv

(* The venue, the clock, and steps that change nothing.                    *)
LEMMA WorldHolds ==
  ASSUME IInv, clock' \in {clock, clock + 1},
         UNCHANGED <<pc, c, live, rows, session, run, got, oldest>>
  PROVE  IInv'
<1>1. Times'
  BY DEF IInv, Times
<1>2. Waiting'
  BY DEF IInv, Waiting
<1>3. Durable'
  BY RowsStay DEF IInv, Durable
<1> QED
  BY <1>1, <1>2, <1>3 DEF IInv

LEMMA StepHolds ==
  ASSUME CollectorAssumption, IInv, [Next]_vars
  PROVE  IInv'
<1>1. CASE Start
  BY <1>1, StartHolds
<1>2. CASE Connect
  BY <1>2, ConnectHolds
<1>3. CASE SourceEnds
  BY <1>3, SourceEndsHolds
<1>4. CASE RecvTimesOut \/ OpenTimesOut
  BY <1>4, TimeoutErrorHolds DEF RecvTimesOut, OpenTimesOut
<1>5. CASE SourceRaises
  BY <1>5, SourceRaisesHolds
<1>6. CASE WriteMarker
  BY <1>6, WriteMarkerHolds
<1>7. CASE FinishSession
  BY <1>7, FinishSessionHolds
<1>8. CASE Summarise
  BY <1>8, SummariseHolds
<1>9. CASE Crash
  BY <1>9, CrashHolds
<1>10. CASE Again
  BY <1>10, AgainHolds
<1>11. CASE Tick
  BY <1>11, WorldHolds DEF Tick
<1>12. CASE \E s \in Streams : Miss(s)
  BY <1>12, WorldHolds DEF Miss
<1>13. CASE \E s \in Streams, n \in 1..MaxNumber : Receive(s, n) \/ InsertFails(s, n)
  BY <1>13, ReceiveHolds, InsertFailsHolds
<1>14. CASE UNCHANGED vars
  BY <1>14, WorldHolds DEF vars
<1> QED
  BY <1>1, <1>2, <1>3, <1>4, <1>5, <1>6, <1>7, <1>8, <1>9, <1>10, <1>11, <1>12, <1>13, <1>14
     DEF Next

LEMMA Invariance == Spec => []IInv
<1>1. Init => IInv
  BY CollectorAssumption, InitHolds
<1>2. IInv /\ [Next]_vars => IInv'
  BY CollectorAssumption, StepHolds
<1> QED
  BY <1>1, <1>2, PTL DEF Spec

-----------------------------------------------------------------------------
(* However often the session failed, reconnected, died or was started      *)
(* again, once its row reads as over every row it inserted since its last  *)
(* start is committed, and its marker with them (the order of the marker,  *)
(* finish_paper_session and the commits of run_paper_ws_collector_live).   *)
THEOREM FinishedSessionsAreDurable == Spec => []FinishedIsDurable
<1>1. IInv => FinishedIsDurable
  BY DEF IInv, Durable
<1> QED
  BY <1>1, Invariance, PTL

(* The messages a crash would lose span less than one touch interval,      *)
(* whatever the message rate (the touch in _touch_collector_session, the   *)
(* only commit while messages flow).                                       *)
THEOREM CrashLosesOneInterval == Spec => []LossBounded
<1>1. IInv => LossBounded
  BY DEF IInv, Waiting, LossBounded
<1> QED
  BY <1>1, Invariance, PTL

-----------------------------------------------------------------------------
(* The counters of a session and the rows it recorded                      *)

(* The highest number of a stream is the last one.                         *)
LastHeardOf(s) ==
  \/ c.last[s] = Never /\ \A m \in Messages(live) : m[1] # s
  \/ /\ <<s, c.last[s]>> \in Messages(live)
     /\ \A m \in Messages(live) : m[1] = s => m[2] <= c.last[s]

(* While no insert failed, all counters are those of the rows.             *)
Faithful ==
  /\ IsFiniteSet(Messages(live)) /\ c.hashes = Messages(live)
  /\ c.duplicates = Cardinality(Recorded(live)) - Cardinality(Messages(live))
  /\ IsFiniteSet(Jumps(live)) /\ c.gaps = Cardinality(Jumps(live))
  /\ \A s \in Streams : LastHeardOf(s)

(* Ordinals tell the rows of a run apart, whatever a message was inserted  *)
(* as before.                                                              *)
Tallied ==
  /\ DOMAIN c = CFields
  /\ IsFiniteSet(Recorded(live))
  /\ c.count \in Nat /\ c.count = Cardinality(Recorded(live)) + failed
  /\ \A r \in Recorded(live) : r.ordinal \in Nat /\ r.ordinal <= c.count /\ r.number \in Nat
  /\ c.last \in [Streams -> Int]
  /\ \A s \in Streams : c.last[s] <= venue[s]
  /\ failed = 0 => Faithful

(* No row is of a later run, and a run is summed up at its end.            *)
Tally ==
  /\ run \in Nat /\ failed \in Nat /\ venue \in [Streams -> Nat]
  /\ \A r \in live \cup rows : r.run \in Nat /\ r.run <= run
  /\ pc \notin {"down", "done"} => Tallied
  /\ summary.run \in Nat /\ summary.run <= run
  /\ summary.run = run /\ run > 0 => pc \in {"done", "down"}
  /\ SummaryCountsRows

(* All a new message changes.                                              *)
LEMMA UpdatedCounters ==
  ASSUME DOMAIN c = CFields, c.last \in [Streams -> Int], NEW s \in Streams, NEW n
  PROVE  /\ DOMAIN Updated(c, s, n) = CFields
         /\ Updated(c, s, n).count = c.count + 1
         /\ Updated(c, s, n).duplicates = c.duplicates + (IF <<s, n>> \in c.hashes THEN 1 ELSE 0)
         /\ Updated(c, s, n).hashes = c.hashes \cup {<<s, n>>}
         /\ Updated(c, s, n).gaps = c.gaps + (IF c.last[s] # Never /\ n > c.last[s] + 1 THEN 1 ELSE 0)
         /\ Updated(c, s, n).last = [c.last EXCEPT ![s] = n]
<1> DEFINE duplicates == c.duplicates + (IF <<s, n>> \in c.hashes THEN 1 ELSE 0)
           hashes == c.hashes \cup {<<s, n>>}
           gaps == c.gaps + (IF c.last[s] # Never /\ n > c.last[s] + 1 THEN 1 ELSE 0)
           last == [c.last EXCEPT ![s] = n]
           count == c.count + 1
           one == [c EXCEPT !.count = count, !.seen = clock, !.duplicates = duplicates]
           two == [one EXCEPT !.hashes = hashes, !.gaps = gaps, !.last = last]
<1>1. Updated(c, s, n) = [c EXCEPT !.count = count, !.seen = clock, !.duplicates = duplicates,
                                   !.hashes = hashes, !.gaps = gaps, !.last = last]
  BY Zenon DEF Updated
<1> HIDE DEF duplicates, hashes, gaps, last, count
<1>2. Updated(c, s, n) = two
  BY <1>1 DEF CFields
<1>3. DOMAIN one = CFields /\ one.count = count /\ one.duplicates = duplicates
  BY DEF CFields
<1> HIDE DEF one
<1>4. /\ DOMAIN two = CFields /\ two.count = count /\ two.duplicates = duplicates
      /\ two.hashes = hashes /\ two.gaps = gaps /\ two.last = last
  BY <1>3 DEF CFields
<1> HIDE DEF two
<1> QED
  BY <1>2, <1>4 DEF duplicates, hashes, gaps, last, count

(* A row stored under a key no recorded row has joins the recorded ones.   *)
LEMMA StoredJoins ==
  ASSUME NEW table, NEW r, r.stream \in Streams, r.run = run,
         \A q \in Recorded(table) : Key(q) # Key(r)
  PROVE  Recorded(Stored(table, r)) = Recorded(table) \cup {r} /\ r \notin Recorded(table)
BY Zenon DEF Recorded, Stored

LEMMA MessagesJoin ==
  ASSUME NEW table, NEW new, NEW r, Recorded(new) = Recorded(table) \cup {r}
  PROVE  Messages(new) = Messages(table) \cup {<<r.stream, r.number>>}
BY DEF Messages

(* The highest number of its stream so far opens a gap, or none, behind it *)
(* and changes no other.                                                   *)
LEMMA JumpsJoin ==
  ASSUME NEW M, NEW s, NEW n \in Nat, NEW last \in Int,
         \A m \in M : m = <<m[1], m[2]>> /\ m[2] \in Nat,
         \/ last = Never /\ \A m \in M : m[1] # s
         \/ <<s, last>> \in M /\ \A m \in M : m[1] = s => m[2] <= last,
         last <= n
  PROVE  LET Open(S) == {m \in S : /\ <<m[1], m[2] - 1>> \notin S
                                   /\ \E k \in S : k[1] = m[1] /\ k[2] < m[2]}
         IN  Open(M \cup {<<s, n>>}) =
               Open(M) \cup (IF last # Never /\ n > last + 1 THEN {<<s, n>>} ELSE {})
             /\ (last # Never /\ n > last + 1 => <<s, n>> \notin M)
<1> DEFINE new == <<s, n>>
           N == M \cup {new}
           Behind(S, m) == <<m[1], m[2] - 1>> \notin S /\ \E k \in S : k[1] = m[1] /\ k[2] < m[2]
           gap == last # Never /\ n > last + 1
<1>1. new[1] = s /\ new[2] = n
  OBVIOUS
<1>2. \A m \in M : m[1] = s => /\ <<s, last>> \in M /\ last # Never /\ m[2] <= last /\ last \in Nat
                               /\ m[2] <= n /\ m[2] \in Nat
  BY DEF Never
<1>3. ASSUME NEW m \in M, m # new
      PROVE  Behind(N, m) <=> Behind(M, m)
  <2>1. <<m[1], m[2] - 1>> # new
    BY <1>2, <1>3
  <2>2. ~(new[1] = m[1] /\ new[2] < m[2])
    BY <1>1, <1>2, <1>3
  <2> QED
    BY <2>1, <2>2
<1>4. ASSUME new \in M PROVE last = n /\ last # Never
  BY <1>1, <1>2, <1>4
<1>5. CASE new \in M
  <2>1. N = M /\ ~gap
    BY <1>4, <1>5
  <2> QED
    BY <2>1
<1>6. CASE new \notin M
  <2>1. Behind(N, new) <=> gap
    <3>1. CASE last = Never /\ \A m \in M : m[1] # s
      BY <1>1, <3>1
    <3>2. CASE <<s, last>> \in M /\ \A m \in M : m[1] = s => m[2] <= last
      <4>1. <<s, last>>[1] = s /\ <<s, last>>[2] = last
        OBVIOUS
      <4>2. last \in Nat /\ last # Never /\ last < n
        <5>1. last \in Nat /\ last # Never
          BY <1>2, <3>2, <4>1
        <5>2. last # n
          BY <1>6, <3>2
        <5> QED
          BY <5>1, <5>2
      <4>3. \E k \in N : k[1] = new[1] /\ k[2] < new[2]
        BY <1>1, <3>2, <4>1, <4>2
      <4>4. <<s, n - 1>> \notin N <=> n - 1 # last
        <5>1. ASSUME <<s, n - 1>> \in M PROVE n - 1 <= last
          <6>1. <<s, n - 1>>[1] = s /\ <<s, n - 1>>[2] = n - 1
            OBVIOUS
          <6> QED
            BY <3>2, <5>1, <6>1
        <5>2. <<s, n - 1>> # new
          OBVIOUS
        <5> QED
          BY <3>2, <4>2, <5>1, <5>2
      <4> QED
        BY <1>1, <4>2, <4>3, <4>4
    <3> QED
      BY <3>1, <3>2
  <2>2. \A m \in M : m # new
    BY <1>6
  <2> HIDE DEF new, gap, Behind
  <2>3. {m \in N : Behind(N, m)} = {m \in M : Behind(M, m)} \cup (IF gap THEN {new} ELSE {})
    BY <1>3, <2>1, <2>2
  <2> QED
    BY <1>6, <2>3 DEF new, gap, Behind
<1> QED
  BY <1>5, <1>6

-----------------------------------------------------------------------------
(* One action at a time                                                    *)

Counters(m) == <<m.count, m.duplicates, m.hashes, m.gaps, m.last>>

(* A summary of the current run is not written before the run ends, and    *)
(* stands while neither the rows nor the run change.                       *)
LEMMA SummaryStands ==
  ASSUME Tally, UNCHANGED <<summary, run>>,
         pc \notin {"down", "done"} \/ (UNCHANGED <<rows, failed>> /\ pc' \in {"down", "done"})
  PROVE  /\ summary'.run \in Nat /\ summary'.run <= run'
         /\ summary'.run = run' /\ run' > 0 => pc' \in {"done", "down"}
         /\ SummaryCountsRows'
<1>1. summary.run = run /\ run > 0 => pc \in {"down", "done"}
  BY DEF Tally
<1>2. CASE pc \notin {"down", "done"}
  BY <1>1, <1>2 DEF Tally, SummaryCountsRows
<1>3. CASE UNCHANGED <<rows, failed>> /\ pc' \in {"down", "done"}
  BY <1>3 DEF Tally, SummaryCountsRows, Recorded, Messages, Jumps
<1> QED
  BY <1>2, <1>3

LEMMA TalliedStays ==
  ASSUME Tallied, DOMAIN c' = CFields, Counters(c') = Counters(c), UNCHANGED <<run, failed>>,
         Recorded(live)' = Recorded(live), \A s \in Streams : venue[s] <= venue'[s],
         venue \in [Streams -> Nat], venue' \in [Streams -> Nat]
  PROVE  Tallied'
<1>1. /\ c'.count = c.count /\ c'.duplicates = c.duplicates /\ c'.hashes = c.hashes
      /\ c'.gaps = c.gaps /\ c'.last = c.last
  BY DEF Counters
<1>2. Messages(live)' = Messages(live)
  BY DEF Messages
<1>3. Jumps(live)' = Jumps(live)
  BY <1>2 DEF Jumps
<1>4. Faithful => Faithful'
  BY <1>1, <1>2, <1>3 DEF Faithful, LastHeardOf
<1>5. \A s \in Streams : c.last[s] <= venue'[s]
  <2> SUFFICES ASSUME NEW s \in Streams PROVE c.last[s] <= venue'[s]
    OBVIOUS
  <2>1. c.last[s] \in Int /\ venue[s] \in Nat /\ venue'[s] \in Nat
    BY DEF Tallied
  <2>2. c.last[s] <= venue[s] /\ venue[s] <= venue'[s]
    BY DEF Tallied
  <2> QED
    BY <2>1, <2>2
<1> QED
  BY <1>1, <1>4, <1>5 DEF Tallied

(* Steps of a session that record nothing and count nothing.               *)
LEMMA TallyStays ==
  ASSUME Tally, pc \notin {"down", "done"}, pc' \notin {"down", "done"},
         DOMAIN c' = CFields, Counters(c') = Counters(c),
         UNCHANGED <<live, summary, run, failed>>, rows' \in {rows, live},
         \A s \in Streams : venue[s] <= venue'[s], venue' \in [Streams -> Nat]
  PROVE  Tally'
<1>1. Recorded(live)' = Recorded(live)
  BY DEF Recorded
<1>2. Tallied'
  BY <1>1, TalliedStays DEF Tally
<1>3. \A r \in live' \cup rows' : r.run \in Nat /\ r.run <= run'
  BY DEF Tally
<1> QED
  BY <1>2, <1>3, SummaryStands DEF Tally

LEMMA VenueSame ==
  ASSUME Tally, UNCHANGED venue
  PROVE  /\ \A s \in Streams : venue[s] <= venue'[s]
         /\ venue' \in [Streams -> Nat]
BY DEF Tally

LEMMA SentCounts ==
  ASSUME Tally, NEW s \in Streams, NEW n \in 1..MaxNumber, Sent(s, n)
  PROVE  /\ pc = "read" /\ n \in Nat /\ venue[s] <= n
         /\ venue' \in [Streams -> Nat] /\ venue'[s] = n
         /\ \A t \in Streams : venue[t] <= venue'[t]
BY DEF Tally, Sent

(* Each message received has a row of its own.                             *)
LEMMA ReceiveTallies ==
  ASSUME CollectorAssumption, Tally, NEW s \in Streams, NEW n \in 1..MaxNumber, Receive(s, n)
  PROVE  Tally'
<1> DEFINE m == Updated(c, s, n)
           r == Row(m, s, n)
           M == Messages(live)
<1>0. /\ Sent(s, n) /\ pc = "read" /\ live' = Stored(live, r) /\ Handled(m)
      /\ failed' = failed /\ run' = run /\ summary' = summary /\ rows' \in {rows, live'}
      /\ pc' \in {"marker", "read"}
      /\ c' = [m EXCEPT !.touched = IF TouchDue(m) THEN TouchTime(m) ELSE @]
  BY DEF Receive, Sent, Handled, Touch
<1>1. /\ n \in Nat /\ venue[s] <= n /\ venue' \in [Streams -> Nat] /\ venue'[s] = n
      /\ \A t \in Streams : venue[t] <= venue'[t]
  BY <1>0, SentCounts
<1>2. Tallied /\ run \in Nat /\ failed \in Nat /\ venue \in [Streams -> Nat]
  BY <1>0 DEF Tally
<1>3. /\ DOMAIN c = CFields /\ c.last \in [Streams -> Int] /\ c.count \in Nat
      /\ c.count = Cardinality(Recorded(live)) + failed /\ IsFiniteSet(Recorded(live))
      /\ \A q \in Recorded(live) : q.ordinal \in Nat /\ q.ordinal <= c.count /\ q.number \in Nat
      /\ \A t \in Streams : c.last[t] <= venue[t]
  BY <1>2 DEF Tallied
<1>4. /\ DOMAIN m = CFields
      /\ m.count = c.count + 1
      /\ m.duplicates = c.duplicates + (IF <<s, n>> \in c.hashes THEN 1 ELSE 0)
      /\ m.hashes = c.hashes \cup {<<s, n>>}
      /\ m.gaps = c.gaps + (IF c.last[s] # Never /\ n > c.last[s] + 1 THEN 1 ELSE 0)
      /\ m.last = [c.last EXCEPT ![s] = n]
  BY <1>3, UpdatedCounters
<1>5. r.stream = s /\ r.number = n /\ r.ordinal = c.count + 1 /\ r.run = run
  BY <1>4 DEF Row
<1> HIDE DEF m
<1>6. DOMAIN c' = CFields /\ Counters(c') = Counters(m)
  BY <1>0, <1>4 DEF CFields, Counters
<1>7. /\ c'.count = m.count /\ c'.duplicates = m.duplicates /\ c'.hashes = m.hashes
      /\ c'.gaps = m.gaps /\ c'.last = m.last
  BY <1>6 DEF Counters
<1> HIDE DEF r
<1>8. Recorded(live') = Recorded(live) \cup {r} /\ r \notin Recorded(live)
  <2>1. \A q \in Recorded(live) : Key(q) # Key(r)
    BY <1>3, <1>5 DEF Key
  <2> QED
    BY <1>0, <1>5, <2>1, StoredJoins
<1>9. Recorded(live)' = Recorded(live') /\ Messages(live)' = Messages(live')
      /\ Jumps(live)' = Jumps(live')
  BY <1>0 DEF Recorded, Messages, Jumps
<1>10. Messages(live') = M \cup {<<s, n>>}
  BY <1>5, <1>8, MessagesJoin
<1>11. IsFiniteSet(Recorded(live)') /\ Cardinality(Recorded(live)') = Cardinality(Recorded(live)) + 1
  BY <1>3, <1>8, <1>9, FS_AddElement
<1>12. Cardinality(Recorded(live)) \in Nat
  BY <1>3, FS_CardinalityType
<1>13. /\ c'.count \in Nat /\ c'.count = Cardinality(Recorded(live)') + failed'
  <2>1. c'.count = c.count + 1
    BY <1>4, <1>7
  <2>2. failed' = failed /\ failed \in Nat
    BY <1>0, <1>2
  <2>3. c.count \in Nat /\ c.count = Cardinality(Recorded(live)) + failed
    BY <1>3
  <2> DEFINE before == Cardinality(Recorded(live))
             after == Cardinality(Recorded(live)')
  <2>4. after = before + 1
    BY <1>11
  <2>5. before \in Nat
    BY <1>12
  <2>6. c.count = before + failed
    BY <2>3
  <2> HIDE DEF before, after
  <2>7. c'.count \in Nat /\ c'.count = after + failed'
    BY <2>1, <2>2, <2>3, <2>4, <2>5, <2>6
  <2> QED
    BY <2>7 DEF after
<1>14. ASSUME NEW q \in Recorded(live)'
       PROVE  q.ordinal \in Nat /\ q.ordinal <= c'.count /\ q.number \in Nat
  <2>1. c'.count = c.count + 1 /\ c.count \in Nat
    BY <1>3, <1>4, <1>7
  <2>2. q \in Recorded(live) \/ q = r
    BY <1>8, <1>9
  <2>3. CASE q \in Recorded(live)
    <3>1. q.ordinal \in Nat /\ q.ordinal <= c.count /\ q.number \in Nat
      BY <1>3, <2>3
    <3> QED
      BY <2>1, <3>1
  <2>4. CASE q = r
    BY <1>1, <1>5, <2>1, <2>4
  <2> QED
    BY <2>2, <2>3, <2>4
<1>15. c'.last = [c.last EXCEPT ![s] = n] /\ c'.last \in [Streams -> Int]
  BY <1>1, <1>3, <1>4, <1>7
<1>16. ASSUME NEW t \in Streams PROVE c'.last[t] <= venue'[t]
  <2>1. CASE t = s
    BY <2>1, <1>1, <1>3, <1>15
  <2>2. CASE t # s
    <3>1. c'.last[t] = c.last[t] /\ c.last[t] \in Int /\ venue[t] \in Nat /\ venue'[t] \in Nat
      BY <2>2, <1>1, <1>2, <1>3, <1>15
    <3>2. c.last[t] <= venue[t] /\ venue[t] <= venue'[t]
      BY <1>1, <1>3
    <3> QED
      BY <3>1, <3>2
  <2> QED
    BY <2>1, <2>2
<1>17. ASSUME failed = 0 PROVE Faithful'
  <2>1. /\ c.hashes = M /\ c.duplicates = Cardinality(Recorded(live)) - Cardinality(M)
        /\ IsFiniteSet(Jumps(live)) /\ c.gaps = Cardinality(Jumps(live))
        /\ \A t \in Streams : LastHeardOf(t)
    BY <1>2, <1>17 DEF Tallied, Faithful
  <2>2. \A x \in M : x = <<x[1], x[2]>> /\ x[2] \in Nat
    BY <1>3 DEF Messages
  <2>3. IsFiniteSet(M)
    BY <1>2, <1>17 DEF Tallied, Faithful
  <2>4. IsFiniteSet(M \cup {<<s, n>>})
        /\ Cardinality(M \cup {<<s, n>>}) = Cardinality(M) + (IF <<s, n>> \in M THEN 0 ELSE 1)
        /\ Cardinality(M) \in Nat
    <3>1. Cardinality(M) \in Nat
      BY <2>3, FS_CardinalityType
    <3>2. /\ IsFiniteSet(M \cup {<<s, n>>})
          /\ Cardinality(M \cup {<<s, n>>}) = IF <<s, n>> \in M THEN Cardinality(M)
                                               ELSE Cardinality(M) + 1
      BY <2>3, FS_AddElement
    <3> HIDE DEF M
    <3>3. CASE <<s, n>> \in M
      BY <3>1, <3>2, <3>3
    <3>4. CASE <<s, n>> \notin M
      BY <3>1, <3>2, <3>4
    <3> QED
      BY <3>3, <3>4
  <2>5. c'.duplicates = Cardinality(Recorded(live)') - Cardinality(Messages(live)')
    <3>1. c'.duplicates = c.duplicates + (IF <<s, n>> \in M THEN 1 ELSE 0)
      BY <1>4, <1>7, <2>1
    <3>2. Cardinality(Messages(live)') = Cardinality(M) + (IF <<s, n>> \in M THEN 0 ELSE 1)
      BY <1>9, <1>10, <2>4
    <3>3. c.duplicates = Cardinality(Recorded(live)) - Cardinality(M) /\ Cardinality(M) \in Nat
      BY <2>1, <2>4
    <3> HIDE DEF M
    <3>4. CASE <<s, n>> \in M
      BY <1>11, <1>12, <3>1, <3>2, <3>3, <3>4
    <3>5. CASE <<s, n>> \notin M
      BY <1>11, <1>12, <3>1, <3>2, <3>3, <3>5
    <3> QED
      BY <3>4, <3>5
  <2>6. IsFiniteSet(Messages(live)') /\ c'.hashes = Messages(live)'
    BY <1>4, <1>7, <1>9, <1>10, <2>1, <2>4
  <2>7. c.last[s] <= n /\ c.last[s] \in Int
    BY <1>1, <1>2, <1>3
  <2>8. LastHeardOf(s)
    BY <2>1
  <2>9. /\ Jumps(live)' = Jumps(live) \cup (IF c.last[s] # Never /\ n > c.last[s] + 1
                                              THEN {<<s, n>>} ELSE {})
        /\ c.last[s] # Never /\ n > c.last[s] + 1 => <<s, n>> \notin Jumps(live)
    <3> DEFINE last == c.last[s]
    <3>1. \/ last = Never /\ \A x \in M : x[1] # s
          \/ <<s, last>> \in M /\ \A x \in M : x[1] = s => x[2] <= last
      BY <2>8 DEF LastHeardOf
    <3>2. n \in Nat /\ last \in Int /\ last <= n
      BY <1>1, <2>7
    <3>3. Jumps(live)' = {x \in M \cup {<<s, n>>} :
                            /\ <<x[1], x[2] - 1>> \notin M \cup {<<s, n>>}
                            /\ \E k \in M \cup {<<s, n>>} : k[1] = x[1] /\ k[2] < x[2]}
      BY <1>9, <1>10 DEF Jumps
    <3>4. Jumps(live) = {x \in M : /\ <<x[1], x[2] - 1>> \notin M
                                   /\ \E k \in M : k[1] = x[1] /\ k[2] < x[2]}
      BY DEF Jumps
    <3>5. <<s, n>> \in Jumps(live) => <<s, n>> \in M
      BY DEF Jumps
    <3> HIDE DEF M, last
    <3>6. /\ Jumps(live)' = Jumps(live) \cup (IF last # Never /\ n > last + 1
                                                 THEN {<<s, n>>} ELSE {})
          /\ last # Never /\ n > last + 1 => <<s, n>> \notin M
      BY <2>2, <3>1, <3>2, <3>3, <3>4, JumpsJoin
    <3> QED
      BY <3>5, <3>6 DEF last
  <2>10. IsFiniteSet(Jumps(live)') /\ c'.gaps = Cardinality(Jumps(live)')
    <3>0. c.gaps = Cardinality(Jumps(live)) /\ c.gaps \in Nat /\ IsFiniteSet(Jumps(live))
      BY <2>1, FS_CardinalityType
    <3>1. CASE c.last[s] # Never /\ n > c.last[s] + 1
      <4>1. c'.gaps = c.gaps + 1
        BY <3>1, <1>4, <1>7
      <4>2. Jumps(live)' = Jumps(live) \cup {<<s, n>>} /\ <<s, n>> \notin Jumps(live)
        BY <3>1, <2>9
      <4>3. /\ IsFiniteSet(Jumps(live) \cup {<<s, n>>})
            /\ Cardinality(Jumps(live) \cup {<<s, n>>}) = Cardinality(Jumps(live)) + 1
        BY <3>0, <4>2, FS_AddElement
      <4> QED
        BY <3>0, <4>1, <4>2, <4>3
    <3>2. CASE ~(c.last[s] # Never /\ n > c.last[s] + 1)
      <4>1. c'.gaps = c.gaps + 0
        BY <3>2, <1>4, <1>7
      <4>2. Jumps(live)' = Jumps(live)
        BY <3>2, <2>9
      <4> QED
        BY <3>0, <4>1, <4>2
    <3> QED
      BY <3>1, <3>2
  <2>11. ASSUME NEW t \in Streams PROVE LastHeardOf(t)'
    <3>1. Messages(live)' = M \cup {<<s, n>>}
      BY <1>9, <1>10
    <3>2. CASE t = s
      <4>1. c'.last[t] = n
        BY <1>3, <1>15, <3>2
      <4>2. \A x \in M : x[1] = s => x[2] <= n
        BY <1>1, <2>2, <2>7, <2>8 DEF LastHeardOf
      <4>3. \A x \in Messages(live)' : x[1] = t => x[2] <= n
        BY <1>1, <3>1, <3>2, <4>2
      <4> QED
        BY <3>1, <3>2, <4>1, <4>3 DEF LastHeardOf
    <3>3. CASE t # s
      <4>1. c'.last[t] = c.last[t] /\ LastHeardOf(t)
        BY <1>3, <1>15, <2>1, <3>3
      <4>2. \A x \in Messages(live)' : x[1] = t => x \in M
        BY <3>1, <3>3
      <4> QED
        BY <3>1, <4>1, <4>2 DEF LastHeardOf
    <3> QED
      BY <3>2, <3>3
  <2> QED
    BY <2>5, <2>6, <2>10, <2>11 DEF Faithful
<1>18. Tallied'
  BY <1>0, <1>6, <1>11, <1>13, <1>14, <1>15, <1>16, <1>17 DEF Tallied
<1>19. \A q \in live' \cup rows' : q.run \in Nat /\ q.run <= run'
  BY <1>0, <1>2, <1>5 DEF Tally, Stored
<1> QED
  BY <1>0, <1>1, <1>2, <1>18, <1>19, SummaryStands DEF Tally

(* A message without a row is counted as a failed one.                     *)
LEMMA InsertFailsTallies ==
  ASSUME Tally, NEW s \in Streams, NEW n \in 1..MaxNumber, InsertFails(s, n)
  PROVE  Tally'
<1> DEFINE m == Updated(c, s, n)
<1>0. /\ Sent(s, n) /\ Reconnect(m) /\ failed' = failed + 1 /\ UNCHANGED <<live, summary, run>>
      /\ rows' = live'
  BY DEF InsertFails, Reconnect, Commit
<1>1. /\ pc = "read" /\ n \in Nat /\ venue[s] <= n /\ venue' \in [Streams -> Nat] /\ venue'[s] = n
      /\ \A t \in Streams : venue[t] <= venue'[t]
  BY <1>0, SentCounts
<1>2. Tallied /\ run \in Nat /\ failed \in Nat /\ venue \in [Streams -> Nat]
  BY <1>1 DEF Tally
<1>3. /\ DOMAIN c = CFields /\ c.last \in [Streams -> Int] /\ c.count \in Nat
      /\ c.count = Cardinality(Recorded(live)) + failed /\ IsFiniteSet(Recorded(live))
      /\ \A q \in Recorded(live) : q.ordinal \in Nat /\ q.ordinal <= c.count /\ q.number \in Nat
      /\ \A t \in Streams : c.last[t] <= venue[t]
  BY <1>2 DEF Tallied
<1>4. /\ DOMAIN m = CFields /\ m.count = c.count + 1 /\ m.last = [c.last EXCEPT ![s] = n]
  BY <1>3, UpdatedCounters
<1> HIDE DEF m
<1>5. /\ pc' \in {"connect", "marker"} /\ DOMAIN c' = CFields
      /\ c'.count = m.count /\ c'.last = m.last
  BY <1>0, <1>4 DEF Reconnect, EndWith, CFields
<1>6. Recorded(live)' = Recorded(live) /\ Cardinality(Recorded(live)) \in Nat
  BY <1>0, <1>3, FS_CardinalityType DEF Recorded
<1>7. c'.count \in Nat /\ c'.count = Cardinality(Recorded(live)) + failed'
  <2>1. c'.count = c.count + 1 /\ failed' = failed + 1
    BY <1>0, <1>4, <1>5
  <2> QED
    BY <1>2, <1>3, <1>6, <2>1
<1>8. \A q \in Recorded(live) : q.ordinal \in Nat /\ q.ordinal <= c'.count /\ q.number \in Nat
  BY <1>3, <1>4, <1>5
<1>9. c'.last = [c.last EXCEPT ![s] = n] /\ c'.last \in [Streams -> Int]
  BY <1>1, <1>3, <1>4, <1>5
<1>10. ASSUME NEW t \in Streams PROVE c'.last[t] <= venue'[t]
  <2>1. CASE t = s
    BY <2>1, <1>1, <1>3, <1>9
  <2>2. CASE t # s
    <3>1. c'.last[t] = c.last[t] /\ c.last[t] \in Int /\ venue[t] \in Nat /\ venue'[t] \in Nat
      BY <2>2, <1>1, <1>2, <1>3, <1>9
    <3>2. c.last[t] <= venue[t] /\ venue[t] <= venue'[t]
      BY <1>1, <1>3
    <3> QED
      BY <3>1, <3>2
  <2> QED
    BY <2>1, <2>2
<1>11. failed' # 0 /\ failed' \in Nat
  BY <1>0, <1>2
<1>12. Tallied'
  BY <1>3, <1>5, <1>6, <1>7, <1>8, <1>9, <1>10, <1>11 DEF Tallied
<1>13. \A q \in live' \cup rows' : q.run \in Nat /\ q.run <= run'
  BY <1>0 DEF Tally
<1> QED
  BY <1>0, <1>1, <1>2, <1>11, <1>12, <1>13, SummaryStands DEF Tally

LEMMA StartTallies ==
  ASSUME Tally, Start
  PROVE  Tally'
<1>1. /\ pc' = "connect" /\ run' = run + 1 /\ c' = Fresh /\ failed' = 0
      /\ UNCHANGED <<venue, live, rows, summary>> /\ run \in Nat
      /\ venue \in [Streams -> Nat]
  BY DEF Start, Tally
<1>2. /\ \A r \in live \cup rows : r.run \in Nat /\ r.run <= run
      /\ summary.run \in Nat /\ summary.run <= run
  BY DEF Tally
<1>3. Recorded(live)' = {}
  BY <1>1, <1>2 DEF Recorded
<1>4. Messages(live)' = {}
  BY <1>3 DEF Messages
<1>5. Jumps(live)' = {}
  BY <1>4 DEF Jumps
<1>6. /\ DOMAIN c' = CFields /\ c'.count = 0 /\ c'.duplicates = 0 /\ c'.hashes = {} /\ c'.gaps = 0
      /\ c'.last = [s \in Streams |-> Never]
  BY <1>1 DEF Fresh, CFields
<1>7. IsFiniteSet({}) /\ Cardinality({}) = 0
  BY FS_EmptySet
<1>8. Faithful'
  BY <1>3, <1>4, <1>5, <1>6, <1>7 DEF Faithful, LastHeardOf
<1>9. \A s \in Streams : c'.last[s] <= venue'[s]
  BY <1>1, <1>6 DEF Never
<1>10. Tallied'
  BY <1>1, <1>3, <1>6, <1>7, <1>8, <1>9 DEF Tallied, Never
<1>11. summary'.run # run' /\ summary'.run \in Nat /\ summary'.run <= run'
  BY <1>1, <1>2
<1> QED
  BY <1>1, <1>2, <1>10, <1>11 DEF Tally, SummaryCountsRows

(* The marker is no message.                                               *)
LEMMA WriteMarkerTallies ==
  ASSUME CollectorAssumption, Tally, WriteMarker
  PROVE  Tally'
<1> DEFINE marker == [stream |-> "shutdown", number |-> 0, ordinal |-> c.count + 1, run |-> run]
<1>1. /\ pc = "marker" /\ pc' = "finish" /\ live' = Stored(live, marker)
      /\ c' = [c EXCEPT !.seen = StoppedAt] /\ rows' = live'
      /\ UNCHANGED <<venue, summary, run, failed>>
  BY DEF WriteMarker, Commit
<1>2. Tallied /\ run \in Nat /\ venue \in [Streams -> Nat]
  BY <1>1 DEF Tally
<1>3. Recorded(live)' = Recorded(live)
  <2>1. \A q \in Recorded(live) : q \in live /\ Key(q) # Key(marker)
    BY DEF Recorded, Key, CollectorAssumption
  <2>2. marker.stream \notin Streams
    BY DEF CollectorAssumption
  <2> HIDE DEF marker
  <2> QED
    BY <1>1, <2>1, <2>2 DEF Recorded, Stored
<1>4. DOMAIN c' = CFields /\ Counters(c') = Counters(c)
  BY <1>1, <1>2 DEF Tallied, Counters, CFields
<1>5. Tallied'
  <2>1. \A s \in Streams : venue[s] <= venue'[s]
    BY <1>1, <1>2
  <2>2. venue' \in [Streams -> Nat]
    BY <1>1, <1>2
  <2> QED
    BY <1>1, <1>2, <1>3, <1>4, <2>1, <2>2, TalliedStays
<1>6. \A q \in live' \cup rows' : q.run \in Nat /\ q.run <= run'
  BY <1>1, <1>2 DEF Tally, Stored
<1>7. /\ summary'.run \in Nat /\ summary'.run <= run'
      /\ summary'.run = run' /\ run' > 0 => pc' \in {"done", "down"}
      /\ SummaryCountsRows'
  BY <1>1, SummaryStands
<1>8. run' \in Nat /\ failed' \in Nat /\ venue' \in [Streams -> Nat]
  BY <1>1 DEF Tally
<1> QED
  BY <1>5, <1>6, <1>7, <1>8 DEF Tally

(* What is summed up is committed, and stands while its run is the last.   *)
LEMMA SummariseTallies ==
  ASSUME IInv, Tally, Summarise
  PROVE  Tally'
<1>1. /\ pc = "summarise" /\ pc' = "done" /\ UNCHANGED <<venue, c, live, rows, run, failed>>
      /\ summary'.run = run /\ summary'.count = c.count /\ summary'.gaps = c.gaps
      /\ summary'.duplicates = c.duplicates
  BY DEF Summarise
<1>2. live = rows
  BY <1>1 DEF IInv, Waiting
<1>3. Tallied
  BY <1>1 DEF Tally
<1>4. /\ Recorded(rows)' = Recorded(live) /\ Messages(rows)' = Messages(live)
      /\ Jumps(rows)' = Jumps(live)
  BY <1>1, <1>2 DEF Recorded, Messages, Jumps
<1>5. SummaryCountsRows'
  BY <1>1, <1>3, <1>4 DEF SummaryCountsRows, Tallied, Faithful
<1> QED
  BY <1>1, <1>5 DEF Tally

LEMMA OffTallies ==
  ASSUME Tally, Crash \/ Again
  PROVE  Tally'
<1>1. pc' = "down" /\ live' \in {rows, live} /\ UNCHANGED <<venue, rows, summary, run, failed>>
  BY DEF Crash, Again
<1>2. pc \notin {"down", "done"} \/ UNCHANGED <<rows, failed>>
  BY <1>1
<1>3. /\ summary'.run \in Nat /\ summary'.run <= run'
      /\ summary'.run = run' /\ run' > 0 => pc' \in {"done", "down"}
      /\ SummaryCountsRows'
  BY <1>1, SummaryStands
<1>4. \A q \in live' \cup rows' : q.run \in Nat /\ q.run <= run'
  BY <1>1 DEF Tally
<1> QED
  BY <1>1, <1>3, <1>4 DEF Tally

(* The venue goes on, the clock too, and nothing else moves.               *)
LEMMA WorldTallies ==
  ASSUME Tally, UNCHANGED <<pc, c, live, rows, summary, run, failed>>,
         venue' \in [Streams -> Nat], \A s \in Streams : venue[s] <= venue'[s]
  PROVE  Tally'
<1>1. CASE pc \notin {"down", "done"}
  <2>1. DOMAIN c' = CFields /\ Counters(c') = Counters(c)
    BY <1>1 DEF Tally, Tallied, Counters
  <2> QED
    BY <1>1, <2>1, TallyStays
<1>2. CASE pc \in {"down", "done"}
  <2>1. /\ summary'.run \in Nat /\ summary'.run <= run'
        /\ summary'.run = run' /\ run' > 0 => pc' \in {"done", "down"}
        /\ SummaryCountsRows'
    BY <1>2, SummaryStands
  <2> QED
    BY <1>2, <2>1 DEF Tally
<1> QED
  BY <1>1, <1>2

LEMMA InitTallies ==
  ASSUME Init
  PROVE  Tally
<1>1. /\ run = 0 /\ pc = "down" /\ live = {} /\ rows = {} /\ failed = 0 /\ summary.run = 0
      /\ venue \in [Streams -> Nat]
  BY DEF Init
<1> QED
  BY <1>1 DEF Tally, SummaryCountsRows

LEMMA TallyStep ==
  ASSUME CollectorAssumption, IInv, Tally, [Next]_vars
  PROVE  Tally'
<1>0. /\ \A s \in Streams : UNCHANGED venue => venue[s] <= venue'[s]
      /\ UNCHANGED venue => venue' \in [Streams -> Nat]
  BY DEF Tally
<1>1. CASE Start
  BY <1>1, StartTallies
<1>2. ASSUME pc \notin {"down", "done"}, pc' \notin {"down", "done"}, rows' \in {rows, live},
             UNCHANGED <<venue, live, summary, run, failed>>,
             DOMAIN c' = CFields, Counters(c') = Counters(c)
      PROVE  Tally'
  BY <1>0, <1>2, TallyStays
<1>3. ASSUME NEW status, EndWith(c, status), pc = "read"
      PROVE  pc' = "marker" /\ DOMAIN c' = CFields /\ Counters(c') = Counters(c)
  <2>1. DOMAIN c = CFields
    BY <1>3 DEF Tally, Tallied
  <2> QED
    BY <1>3, <2>1 DEF EndWith, Counters, CFields
<1>4. CASE Connect
  <2>1. /\ pc = "connect" /\ pc' = "read" /\ c' = Connected(c) /\ rows' = live
        /\ UNCHANGED <<venue, live, summary, run, failed>>
    BY <1>4 DEF Connect, Commit
  <2>2. DOMAIN c = CFields
    BY <2>1 DEF Tally, Tallied
  <2>3. DOMAIN c' = CFields /\ Counters(c') = Counters(c)
    BY <2>1, <2>2 DEF Connected, Counters, CFields
  <2> QED
    BY <1>2, <2>1, <2>3
<1>5. CASE SourceEnds
  <2>1. /\ pc = "read" /\ \E status : EndWith(c, status)
        /\ rows' \in {rows, live} /\ UNCHANGED <<venue, live, summary, run, failed>>
    BY <1>5 DEF SourceEnds, Commit, NoCommit
  <2> QED
    BY <1>2, <1>3, <2>1
<1>6. CASE RecvTimesOut \/ OpenTimesOut
  <2>1. /\ pc = "read" /\ \E status : EndWith(c, status)
        /\ rows' \in {rows, live} /\ UNCHANGED <<venue, live, summary, run, failed>>
    BY <1>6 DEF RecvTimesOut, OpenTimesOut, TimeoutError, Commit
  <2> QED
    BY <1>2, <1>3, <2>1
<1>7. CASE SourceRaises
  <2>1. /\ EndWith(c, "failed") \/ (pc' = "connect" /\ c' = c)
        /\ rows' \in {rows, live} /\ UNCHANGED <<venue, live, summary, run, failed>>
    BY <1>7 DEF SourceRaises, Reconnect, Commit
  <2>2. DOMAIN c = CFields /\ pc = "read"
    BY <1>7 DEF SourceRaises, Tally, Tallied
  <2>3. pc' \in {"marker", "connect"} /\ DOMAIN c' = CFields /\ Counters(c') = Counters(c)
    BY <1>3, <2>1, <2>2 DEF Counters
  <2> QED
    BY <1>2, <2>1, <2>2, <2>3
<1>8. CASE WriteMarker
  BY <1>8, WriteMarkerTallies
<1>9. CASE FinishSession
  <2>1. DOMAIN c = CFields
    BY <1>9 DEF FinishSession, Tally, Tallied
  <2> QED
    BY <1>2, <1>9, <2>1 DEF FinishSession, Counters
<1>10. CASE Summarise
  BY <1>10, SummariseTallies
<1>11. CASE Crash \/ Again
  BY <1>11, OffTallies
<1>12. CASE Tick
  BY <1>0, <1>12, WorldTallies DEF Tick
<1>13. ASSUME NEW s \in Streams, Miss(s) PROVE Tally'
  <2>1. venue \in [Streams -> Nat] /\ venue' = [venue EXCEPT ![s] = venue[s] + 1]
    BY <1>13 DEF Miss, Tally
  <2>2. venue' \in [Streams -> Nat] /\ \A t \in Streams : venue[t] <= venue'[t]
    BY <2>1
  <2> QED
    BY <1>13, <2>2, WorldTallies DEF Miss
<1>14. CASE \E s \in Streams, n \in 1..MaxNumber : Receive(s, n) \/ InsertFails(s, n)
  BY <1>14, ReceiveTallies, InsertFailsTallies
<1>15. CASE UNCHANGED vars
  BY <1>0, <1>15, WorldTallies DEF vars
<1> QED
  BY <1>1, <1>4, <1>5, <1>6, <1>7, <1>8, <1>9, <1>10, <1>11, <1>12, <1>13, <1>14, <1>15 DEF Next

(* Reconnected or not, started again or not, the summary of the last run   *)
(* counts its messages, repeats and gaps as its committed rows do, if no   *)
(* insert failed, and else its messages (update_message, the sequences     *)
(* kept across connections, record_paper_stream_event's id).               *)
THEOREM SummariesCountRows == Spec => []SummaryCountsRows
<1>1. Init => Tally
  BY InitTallies
<1>2. IInv /\ Tally /\ [Next]_vars => Tally'
  BY CollectorAssumption, TallyStep
<1>3. Tally => SummaryCountsRows
  BY DEF Tally
<1> QED
  BY <1>1, <1>2, <1>3, Invariance, PTL DEF Spec

=============================================================================
