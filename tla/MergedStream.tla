---------------------------- MODULE MergedStream ----------------------------
(***************************************************************************)
(* The merged public stream of the collector (execution/paper_collector.py,*)
(* _merged_websocket_json_message_source).                                 *)
(*                                                                         *)
(* One worker thread per route reads its websocket and offers what it gets *)
(* to a bounded queue of its own.  The consumer, a generator, goes round   *)
(* the routes, yields at most a batch from each, and ends the whole stream *)
(* as soon as one route ends or looks silent.  It is suspended at every    *)
(* yield for as long as its caller, the collector, takes.                  *)
(*                                                                         *)
(* Payloads are abstracted to their number on the route, modulo Numbers.   *)
(* active_urls is left out: a route leaves it only on the way to a raise.  *)
(***************************************************************************)
EXTENDS Integers, Sequences

CONSTANTS
  Routes,       (* how many routes are merged; they are 1..Routes          *)
  QueueSize,    (* Queue(maxsize)                                          *)
  Batch,        (* max_batch_per_route                                     *)
  SilenceLimit, (* the timeout, in ticks of the clock                      *)
  Numbers       (* bound: the messages of a route are numbered modulo this *)

ASSUME MergedStreamAssumption ==
  /\ {Routes, QueueSize, Batch, SilenceLimit} \subseteq Nat \ {0}
  /\ Numbers \in Nat /\ Numbers > 1

Route == 1..Routes

(* How a route ends: recv times out, raises something else, or the peer    *)
(* closes the connection.                                                  *)
Ends == {"timeout", "error", "closed"}
Item == [kind : Ends \cup {"message"}, number : 0..(Numbers - 1)]

VARIABLES
  worker,   (* per route: pc and the item in hand                          *)
  queue,    (* route_queues                                                *)
  stop,     (* the stop event is set                                       *)
  consumer, (* the generator: pc, the route it is at, messages taken there *)
  ended,    (* why the stream ended, and the route it is about             *)
  age,      (* ticks since last_message_at, up to SilenceLimit             *)
  next,     (* auxiliary: the number of the route's next message           *)
  got       (* auxiliary: the number of the next message to be yielded     *)

vars == <<worker, queue, stop, consumer, ended, age, next, got>>

Nothing == [kind |-> "message", number |-> 0]
Running == [why |-> "running", route |-> 0]

Init ==
  /\ worker = [r \in Route |-> [pc |-> "recv", item |-> Nothing]]
  /\ queue = [r \in Route |-> <<>>]
  /\ stop = FALSE
  /\ consumer = [pc |-> "scan", route |-> 1, taken |-> 0]
  /\ ended = Running
  /\ age = [r \in Route |-> 0]
  /\ next = [r \in Route |-> 0]
  /\ got = [r \in Route |-> 0]

Successor(n) == (n + 1) % Numbers

-----------------------------------------------------------------------------
(* The worker of route r.                                                  *)

Hold(r, pc, item) == worker' = [worker EXCEPT ![r] = [pc |-> pc, item |-> item]]
Go(r, pc) == Hold(r, pc, worker[r].item)

(* recv returns a payload; after a stop the worker leaves without offering.*)
Receive(r) ==
  /\ worker[r].pc = "recv"
  /\ Hold(r, IF stop THEN "done" ELSE "offer", [kind |-> "message", number |-> next[r]])
  /\ next' = [next EXCEPT ![r] = IF stop THEN @ ELSE Successor(@)]
  /\ UNCHANGED <<queue, stop, consumer, ended, age, got>>

(* The source ends: its marker is offered like a payload.                  *)
SourceEnds(r) ==
  /\ worker[r].pc = "recv"
  /\ \E end \in Ends : Hold(r, "offer", [kind |-> end, number |-> next[r]])
  /\ UNCHANGED <<queue, stop, consumer, ended, age, next, got>>

(* After an item the worker reads on; after a marker it is done.           *)
AfterItem(r) == IF worker[r].item.kind = "message" THEN "recv" ELSE "done"

(* put_route_item: the loop's test of the stop event.                      *)
Offer(r) ==
  /\ worker[r].pc = "offer"
  /\ Go(r, IF stop THEN AfterItem(r) ELSE "put")
  /\ UNCHANGED <<queue, stop, consumer, ended, age, next, got>>

Put(r) ==
  /\ worker[r].pc = "put"
  /\ Len(queue[r]) < QueueSize
  /\ queue' = [queue EXCEPT ![r] = Append(@, worker[r].item)]
  /\ Go(r, AfterItem(r))
  /\ UNCHANGED <<stop, consumer, ended, age, next, got>>

(* Mutant: a full queue drops the item.                                    *)
FullDrops(r) ==
  /\ worker[r].pc = "put"
  /\ Len(queue[r]) = QueueSize
  /\ Go(r, AfterItem(r))
  /\ UNCHANGED <<queue, stop, consumer, ended, age, next, got>>

(* Mutant: the put is repeated without looking at the stop event.          *)
FullIgnoresStop(r) ==
  /\ worker[r].pc = "put"
  /\ Len(queue[r]) = QueueSize
  /\ Go(r, "put")
  /\ UNCHANGED <<queue, stop, consumer, ended, age, next, got>>

(* The put timed out: the same item is offered again.                      *)
Full(r) ==
  /\ worker[r].pc = "put"
  /\ Len(queue[r]) = QueueSize
  /\ Go(r, "offer")
  /\ UNCHANGED <<queue, stop, consumer, ended, age, next, got>>

-----------------------------------------------------------------------------
(* The consumer.                                                           *)

(* The finally clause: whatever ends the generator sets the stop event.    *)
End(why, r) ==
  /\ ended' = [why |-> why, route |-> r]
  /\ stop' = TRUE
  /\ consumer' = [consumer EXCEPT !.pc = "ended"]

AtQueue(r) == consumer.pc = "scan" /\ consumer.route = r

(* The consumer may take from the queue of r.                              *)
MayTake(r) == AtQueue(r) /\ queue[r] # <<>> /\ consumer.taken < Batch

Yield(r) ==
  /\ MayTake(r)
  /\ Head(queue[r]).kind = "message"
  /\ queue' = [queue EXCEPT ![r] = Tail(@)]
  /\ got' = [got EXCEPT ![r] = Successor(Head(queue[r]).number)]
  /\ age' = [age EXCEPT ![r] = 0]
  /\ consumer' = [consumer EXCEPT !.pc = "suspended", !.taken = @ + 1]
  /\ UNCHANGED <<worker, stop, ended, next>>

(* Mutant: a marker only takes the route out of the rotation.              *)
SkipMarker(r) ==
  /\ MayTake(r)
  /\ Head(queue[r]).kind # "message"
  /\ queue' = [queue EXCEPT ![r] = Tail(@)]
  /\ UNCHANGED <<worker, stop, consumer, ended, age, next, got>>

(* A route's end marker ends the stream.                                   *)
RouteEnded(r) ==
  /\ MayTake(r)
  /\ Head(queue[r]).kind # "message"
  /\ queue' = [queue EXCEPT ![r] = Tail(@)]
  /\ End(Head(queue[r]).kind, r)
  /\ UNCHANGED <<worker, age, next, got>>

(* Nothing more from this route in this round.                             *)
LeaveRoute(r) ==
  /\ AtQueue(r) /\ ~MayTake(r)
  /\ consumer' = IF r < Routes
                 THEN [consumer EXCEPT !.route = r + 1, !.taken = 0]
                 ELSE [consumer EXCEPT !.pc = "check"]
  /\ UNCHANGED <<worker, queue, stop, ended, age, next, got>>

(* After a round: a route whose last message was taken too long ago ends   *)
(* the stream; the first such route is named.                              *)
Silent == {r \in Route : age[r] >= SilenceLimit}
CheckSilence ==
  /\ consumer.pc = "check"
  /\ IF Silent = {}
     THEN /\ consumer' = [pc |-> "scan", route |-> 1, taken |-> 0]
          /\ UNCHANGED <<stop, ended>>
     ELSE \E r \in Silent : End("silence", r)
  /\ UNCHANGED <<worker, queue, age, next, got>>

(* Mutant: every message starts the round anew.                            *)
ResumeAtFirst ==
  /\ consumer.pc = "suspended"
  /\ consumer' = [pc |-> "scan", route |-> 1, taken |-> 0]
  /\ UNCHANGED <<worker, queue, stop, ended, age, next, got>>

(* The collector asks for the next message, or drops the generator.        *)
Resume ==
  /\ consumer.pc = "suspended"
  /\ consumer' = [consumer EXCEPT !.pc = "scan"]
  /\ UNCHANGED <<worker, queue, stop, ended, age, next, got>>

Abandon ==
  /\ consumer.pc = "suspended"
  /\ End("abandoned", 0)
  /\ UNCHANGED <<worker, queue, age, next, got>>

(* The clock.                                                              *)
Tick ==
  /\ ended = Running
  /\ \E r \in Route : age[r] < SilenceLimit
  /\ age' = [r \in Route |-> IF age[r] < SilenceLimit THEN age[r] + 1 ELSE SilenceLimit]
  /\ UNCHANGED <<worker, queue, stop, consumer, ended, next, got>>

-----------------------------------------------------------------------------
WorkerStep(r) == Receive(r) \/ SourceEnds(r) \/ Offer(r) \/ Put(r) \/ Full(r)
ConsumerStep ==
  \/ \E r \in Route : Yield(r) \/ RouteEnded(r) \/ LeaveRoute(r)
  \/ CheckSilence

(* Every thread has left: nothing is left to happen.                       *)
Finished ==
  /\ consumer.pc = "ended"
  /\ \A r \in Route : worker[r].pc = "done"
  /\ UNCHANGED vars

Next ==
  \/ \E r \in Route : WorkerStep(r)
  \/ ConsumerStep
  \/ Resume
  \/ Abandon
  \/ Tick
  \/ Finished

(* Threads run; recv returns, because the collector gives it a timeout, the*)
(* smaller of no_message_timeout_seconds and max_duration_seconds (with    *)
(* neither of them set it waits for the venue, and this is an assumption); *)
(* the collector handles each message and then asks for another or leaves. *)
(* The clock needs no fairness: no property waits for it.                  *)
Fairness ==
  /\ \A r \in Route : WF_vars(WorkerStep(r))
  /\ WF_vars(ConsumerStep)
  /\ WF_vars(Resume \/ Abandon)

Spec == Init /\ [][Next]_vars /\ Fairness

-----------------------------------------------------------------------------
(* What route r has produced and the collector has not got.                *)
Pending(r) ==
  queue[r] \o IF worker[r].pc \in {"offer", "put"} THEN <<worker[r].item>> ELSE <<>>

(* While the stream runs, what was not yet yielded of a route is exactly   *)
(* the run of messages after the last one yielded, in order, in its queue  *)
(* or its worker's hand: full queues, timed-out puts and batches lose,     *)
(* repeat and reorder nothing (put_route_item).                            *)
NothingLost ==
  ~stop => \A r \in Route :
    /\ \A i \in DOMAIN Pending(r) : Pending(r)[i].number = (got[r] + i - 1) % Numbers
    /\ \E n \in {Len(Pending(r)), Len(Pending(r)) - 1} :
         next[r] = (got[r] + n) % Numbers

(* A route whose queue holds something is served, or the stream ends,      *)
(* however busy the other routes are (max_batch_per_route).                *)
NoRouteStarves ==
  \A r \in Route :
    queue[r] # <<>> ~> (stop \/ (consumer.pc = "suspended" /\ consumer.route = r))

(* A route that ended is not left out silently: the stream ends.           *)
RouteEndSurfaces ==
  \A r \in Route : (worker[r].pc = "done") ~> stop

(* Once the stream has ended every worker thread leaves, the one that is   *)
(* blocked on a full queue included (put timeout and stop event), given    *)
(* that recv returns (Fairness).                                           *)
WorkersLeave ==
  stop ~> \A r \in Route : worker[r].pc = "done"
=============================================================================
