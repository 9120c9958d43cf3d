------------------------------ MODULE Collector ------------------------------
(***************************************************************************)
(* The live collector of public market data, run_paper_ws_collector_live:  *)
(* one session that connects, records what the source yields, reconnects   *)
(* when it fails, and ends with a shutdown marker, a final status and a    *)
(* summary, each a transaction of its own.                                 *)
(*                                                                         *)
(* Messages are inserted on one connection that is committed only with the *)
(* session's heartbeat or a health row: a process that dies loses what it  *)
(* had not committed, and may be started again under the same session id.  *)
(*                                                                         *)
(* The source is the venue: it numbers the messages of each stream, may    *)
(* send the last one again, and goes on while nobody listens.  The clock   *)
(* counts seconds, as the collector's timestamps do.  Left out: heartbeat  *)
(* rows between messages (an option), malformed items, lag, staleness and  *)
(* parse counters, the health rows and ledger events of the session.       *)
(***************************************************************************)
EXTENDS Integers, FiniteSets, FiniteSetsExt

CONSTANTS
  Streams,           (* the venue's, among them no stream of markers       *)
  MaxAttempts,       (* reconnect_attempts + 1                             *)
  MaxMessages,       (* max_messages, 0 for none                           *)
  MaxDuration,       (* max_duration_seconds, 0 for none                   *)
  NoMessageTimeout,  (* no_message_timeout_seconds, 0 for none             *)
  TouchEvery,        (* seconds between two touches of the session         *)
  MaxNumber,         (* bound: messages the venue sends per stream         *)
  MaxRuns,           (* bound: starts of the session                       *)
  MaxItems,          (* bound: messages each run takes from the source     *)
  StartBefore,       (* bound: the last second of a start or a failure     *)
  MaxTime            (* bound: the clock                                   *)

ASSUME CollectorAssumption ==
  /\ {MaxAttempts, TouchEvery, MaxRuns} \subseteq Nat \ {0}
  /\ {MaxMessages, MaxDuration, NoMessageTimeout, MaxNumber, StartBefore, MaxTime} \subseteq Nat
  /\ MaxItems \in [1..MaxRuns -> Nat]
  /\ "shutdown" \notin Streams

VARIABLES
  clock,
  venue,     (* the last number sent on each stream                        *)
  pc,        (* where the process is                                       *)
  c,         (* its _CollectorState and local variables                    *)
  live,      (* paper_stream_events as the process sees it                 *)
  rows,      (* the committed part of it                                   *)
  session,   (* the row of paper_sessions                                  *)
  summary,   (* the row of paper_session_summaries                         *)
  run,       (* starts of the session so far                               *)
  got,       (* auxiliary: the rows inserted since the last start          *)
  oldest,    (* auxiliary: when the first row not committed was inserted   *)
  failed     (* auxiliary: the messages since then that were not inserted  *)

vars == <<clock, venue, pc, c, live, rows, session, summary, run, got, oldest, failed>>

Never == -1
Finals == {"completed", "stale_incomplete", "failed"}

Fresh ==
  [attempt |-> 0, count |-> 0, gaps |-> 0, duplicates |-> 0,
   last |-> [s \in Streams |-> Never], hashes |-> {}, seen |-> Never, touched |-> clock,
   started |-> clock, base |-> 0, connected |-> clock, status |-> "completed"]

Init ==
  /\ clock = 0 /\ run = 0 /\ pc = "down" /\ c = Fresh
  /\ venue = [s \in Streams |-> 0]
  /\ live = {} /\ rows = {} /\ got = {} /\ oldest = Never /\ failed = 0
  /\ session = [status |-> "none", heartbeat |-> Never]
  /\ summary = [run |-> 0, count |-> 0, gaps |-> 0, duplicates |-> 0]

(* INSERT OR REPLACE: the id of a row is its stream, payload and ordinal.  *)
Key(r) == <<r.stream, r.number, r.ordinal>>
Stored(table, r) == {q \in table : Key(q) # Key(r)} \cup {r}

Commit == rows' = live' /\ oldest' = Never
NoCommit == UNCHANGED <<rows, oldest>>
----------------------------------------------------------------------------
(* The session begins                                                      *)

(* Bound: a late start leaves no time for the limits to be reached.        *)
Start ==
  /\ pc = "down" /\ run < MaxRuns /\ clock <= StartBefore
  /\ run' = run + 1 /\ c' = Fresh /\ pc' = "connect"
  /\ session' = [status |-> "running", heartbeat |-> clock]
  /\ got' = {} /\ oldest' = Never /\ failed' = 0
  /\ UNCHANGED <<clock, venue, live, rows, summary>>

(* Mutant: every attempt begins with counters and sequences of its own.    *)
ConnectedAfresh(m) == [Fresh EXCEPT !.attempt = m.attempt + 1, !.count = m.count, !.gaps = m.gaps,
                                    !.duplicates = m.duplicates]

Connected(m) ==
  [m EXCEPT !.attempt = @ + 1, !.base = m.count, !.connected = clock]

Connect ==
  /\ pc = "connect"
  /\ c' = Connected(c) /\ pc' = "read"
  /\ UNCHANGED <<clock, venue, live, session, summary, run, got, failed>>
  /\ Commit
----------------------------------------------------------------------------
(* Messages                                                                *)

(* update_message                                                          *)
Updated(m, s, n) ==
  [m EXCEPT !.count = @ + 1, !.seen = clock,
            !.duplicates = @ + (IF <<s, n>> \in m.hashes THEN 1 ELSE 0),
            !.hashes = @ \cup {<<s, n>>},
            !.gaps = @ + (IF m.last[s] # Never /\ n > m.last[s] + 1 THEN 1 ELSE 0),
            !.last[s] = n]

Row(m, s, n) == [stream |-> s, number |-> n, ordinal |-> m.count, run |-> run]

Enough(m) ==
  \/ MaxMessages > 0 /\ m.count >= MaxMessages
  \/ MaxDuration > 0 /\ clock - m.started >= MaxDuration

(* The session is touched at the time of the last message.                 *)
TouchTime(m) == IF m.seen = Never THEN clock ELSE m.seen
TouchDue(m) == TouchTime(m) - m.touched >= TouchEvery

(* Mutant: the touch leaves the commit to the next health row.             *)
TouchOnly(m) ==
  /\ session' = IF TouchDue(m) THEN [session EXCEPT !.heartbeat = TouchTime(m)] ELSE session
  /\ UNCHANGED rows

Touch(m) ==
  /\ session' = IF TouchDue(m) THEN [session EXCEPT !.heartbeat = TouchTime(m)] ELSE session
  /\ rows' = IF TouchDue(m) THEN live' ELSE rows

(* What follows every item: the heartbeat, then the limits.                *)
Handled(m) ==
  /\ Touch(m)
  /\ c' = [m EXCEPT !.touched = IF TouchDue(m) THEN TouchTime(m) ELSE @]
  /\ pc' = IF Enough(m) THEN "marker" ELSE "read"
  /\ UNCHANGED <<clock, summary, run>>

Sent(s, n) ==
  /\ pc = "read" /\ c.count < MaxItems[run]
  /\ n \in {venue[s], venue[s] + 1} \cap 1..MaxNumber
  /\ venue' = [venue EXCEPT ![s] = n]

Receive(s, n) ==
  /\ Sent(s, n)
  /\ LET m == Updated(c, s, n)
         r == Row(m, s, n)
     IN  /\ live' = Stored(live, r) /\ got' = Stored(got, r)
         /\ Handled(m)
         /\ oldest' = IF rows' = live' THEN Never ELSE IF live = rows THEN clock ELSE oldest
  /\ UNCHANGED failed

----------------------------------------------------------------------------
(* The ends of a connection                                                *)

EndWith(m, status) ==
  /\ c' = [m EXCEPT !.status = status]
  /\ pc' = "marker"

Silent == NoMessageTimeout > 0 /\ c.count = c.base /\ clock - c.connected >= NoMessageTimeout

SourceEnds ==
  /\ pc = "read"
  /\ EndWith(c, IF Silent THEN "stale_incomplete" ELSE "completed")
  /\ UNCHANGED <<clock, venue, live, session, summary, run, got, failed>>
  /\ IF Silent THEN Commit ELSE NoCommit

RecvTimeout == Min({t \in {NoMessageTimeout, MaxDuration} : t > 0})

LastHeard == Max({c.connected, c.seen})

(* The handler of a TimeoutError never reconnects.                         *)
TimeoutError ==
  /\ EndWith(c, IF MaxDuration > 0 /\ clock - c.started >= MaxDuration THEN "completed"
                ELSE "stale_incomplete")
  /\ UNCHANGED <<clock, venue, live, session, summary, run, got, failed>>
  /\ Commit

RecvTimesOut ==
  /\ pc = "read"
  /\ NoMessageTimeout > 0 \/ MaxDuration > 0
  /\ clock - LastHeard >= RecvTimeout
  /\ TimeoutError

(* The venue does not answer the handshake in time.                        *)
OpenTimesOut ==
  /\ pc = "read" /\ c.count = c.base
  /\ TimeoutError

(* Mutant: the attempts are counted, never compared.                       *)
ReconnectForEver(m) ==
  /\ pc' = "connect" /\ c' = [m EXCEPT !.attempt = 0]
  /\ UNCHANGED <<clock, live, session, summary, run, got>>
  /\ Commit

(* The attempts of a session are never replenished.                        *)
Reconnect(m) ==
  /\ IF m.attempt >= MaxAttempts THEN EndWith(m, "failed")
     ELSE pc' = "connect" /\ c' = m
  /\ UNCHANGED <<clock, live, session, summary, run, got>>
  /\ Commit

(* Bound: late enough failures leave no time for the timeout that follows. *)
SourceRaises ==
  /\ pc = "read" /\ clock <= MaxTime - RecvTimeout
  /\ Reconnect(c)
  /\ UNCHANGED <<venue, failed>>

(* Another process keeps the database locked: the message is counted, its  *)
(* insert raises, and the connection to the venue is given up with it.     *)
InsertFails(s, n) ==
  /\ Sent(s, n) /\ live = rows /\ clock <= MaxTime - RecvTimeout
  /\ Reconnect(Updated(c, s, n))
  /\ failed' = failed + 1
----------------------------------------------------------------------------
(* The session ends                                                        *)

StoppedAt == TouchTime(c)

(* Mutant: the connection is closed without the commit.                     *)
WriteMarkerUncommitted ==
  /\ pc = "marker" /\ pc' = "finish"
  /\ live' = Stored(live, [stream |-> "shutdown", number |-> 0, ordinal |-> c.count + 1, run |-> run])
  /\ c' = [c EXCEPT !.seen = StoppedAt]
  /\ NoCommit
  /\ UNCHANGED <<clock, venue, session, summary, run, got, failed>>

WriteMarker ==
  /\ pc = "marker" /\ pc' = "finish"
  /\ live' = Stored(live, [stream |-> "shutdown", number |-> 0, ordinal |-> c.count + 1, run |-> run])
  /\ c' = [c EXCEPT !.seen = StoppedAt]
  /\ Commit
  /\ UNCHANGED <<clock, venue, session, summary, run, got, failed>>

FinishSession ==
  /\ pc = "finish" /\ pc' = "summarise"
  /\ session' = [status |-> c.status, heartbeat |-> c.seen]
  /\ UNCHANGED <<clock, venue, c, live, rows, summary, run, got, oldest, failed>>

Summarise ==
  /\ pc = "summarise" /\ pc' = "done"
  /\ summary' = [run |-> run, count |-> c.count, gaps |-> c.gaps, duplicates |-> c.duplicates]
  /\ UNCHANGED <<clock, venue, c, live, rows, session, run, got, oldest, failed>>

(* The process dies, or an exception leaves the loop's handlers.           *)
Crash ==
  /\ pc \notin {"down", "done"} /\ pc' = "down"
  /\ live' = rows /\ oldest' = Never /\ c' = Fresh
  /\ UNCHANGED <<clock, venue, rows, session, summary, run, got, failed>>

(* A finished session is collected again.                                  *)
Again ==
  /\ pc = "done" /\ run < MaxRuns /\ pc' = "down" /\ c' = Fresh
  /\ UNCHANGED <<clock, venue, live, rows, session, summary, run, got, oldest, failed>>
----------------------------------------------------------------------------
(* The world                                                               *)

Miss(s) ==
  /\ pc \in {"connect", "down"} /\ venue[s] < MaxNumber
  /\ venue' = [venue EXCEPT ![s] = @ + 1]
  /\ UNCHANGED <<clock, pc, c, live, rows, session, summary, run, got, oldest, failed>>

Tick ==
  /\ clock < IF pc = "read" THEN MaxTime ELSE StartBefore
  /\ clock' = clock + 1
  /\ UNCHANGED <<venue, pc, c, live, rows, session, summary, run, got, oldest, failed>>

Next ==
  \/ Start \/ Connect \/ SourceEnds \/ RecvTimesOut \/ OpenTimesOut \/ SourceRaises
  \/ WriteMarker \/ FinishSession \/ Summarise \/ Crash \/ Again \/ Tick
  \/ \E s \in Streams : Miss(s)
  \/ \E s \in Streams, n \in 1..MaxNumber : Receive(s, n) \/ InsertFails(s, n)

(* The process runs, the clock runs, and recv returns when its time is up. *)
Fairness ==
  /\ WF_vars(Connect) /\ WF_vars(RecvTimesOut) /\ WF_vars(Tick)
  /\ WF_vars(WriteMarker) /\ WF_vars(FinishSession) /\ WF_vars(Summarise)

Spec == Init /\ [][Next]_vars /\ Fairness
----------------------------------------------------------------------------
(* Properties                                                              *)

(* A session that reads as over has all its rows and a shutdown marker in  *)
(* the database, wherever the process dies and however often it had to     *)
(* reconnect: soak and closeout reports read the two tables together.      *)
FinishedIsDurable ==
  session.status \in Finals =>
    /\ got \subseteq rows
    /\ \E r \in rows : r.stream = "shutdown" /\ r.run = run

(* What a table holds of the current run, the messages in it, and those    *)
(* whose predecessor on the stream is missing.                             *)
Recorded(table) == {r \in table : r.stream \in Streams /\ r.run = run}
Messages(table) == {<<r.stream, r.number>> : r \in Recorded(table)}
Jumps(table) ==
  {m \in Messages(table) :
     /\ <<m[1], m[2] - 1>> \notin Messages(table)
     /\ \E k \in Messages(table) : k[1] = m[1] /\ k[2] < m[2]}

(* The summary of a run counts what its rows show: the messages, the       *)
(* repeated ones and the gaps in their numbers, gaps that fell between two *)
(* connections included.  A message whose insert failed is counted without *)
(* a row, and the gap it leaves is not.                                    *)
SummaryCountsRows ==
  summary.run = run /\ run > 0 =>
    /\ summary.count = Cardinality(Recorded(rows)) + failed
    /\ failed = 0 =>
         /\ summary.gaps = Cardinality(Jumps(rows))
         /\ summary.duplicates = Cardinality(Recorded(rows)) - Cardinality(Messages(rows))

(* A crash loses the messages of at most one touch interval, however long  *)
(* the source has been silent since.                                       *)
LossBounded == live # rows => c.seen - oldest < TouchEvery

(* A collector with a limit or a timeout leaves its loop and sums up, or   *)
(* dies: no sequence of failures, silences and messages keeps it reading.  *)
Settles == pc = "read" ~> pc \in {"done", "down"}
=============================================================================
