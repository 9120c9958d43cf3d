------------------------- MODULE ResearchLoopProofs -------------------------
(***************************************************************************)
(* What holds of the research loop, bounded or karpathy, for any limits,   *)
(* outcomes and refinements and whatever raises: iterations are recorded   *)
(* and decided on once, discarded candidates are not followed, no payload  *)
(* of a bounded loop is forgotten, and the loop stops for a reason its     *)
(* results have.  The counters of the scratchpad are what their defining   *)
(* folds over the results say (PadSays), which is shown for the empty      *)
(* sequence and for one result more.                                       *)
(*                                                                         *)
(* Two theorems, on the incumbent and on the branch the replay leaves,     *)
(* have the hypothesis NeverZero: the code reads a score of exactly zero   *)
(* as no score, and the run research_loop_zero shows the incumbent going   *)
(* wrong without it.                                                       *)
(***************************************************************************)
EXTENDS KarpathyGit, FiniteSetTheorems, WellFoundedInduction, TLAPS

IsSequence(s) == s \in Seq(Range(s))

PadShape ==
  /\ DOMAIN pad = {"iteration", "remaining", "best", "stagnation", "plateau", "counts", "stop"}
  /\ pad.iteration \in Nat

Shapes ==
  /\ mode \in Modes
  /\ pc \in {"top", "validate", "refine", "stopped"}
  /\ PadShape
  /\ IsSequence(results) /\ IsSequence(queue) /\ IsSequence(decisions)
  /\ mode = "bounded" => decisions = <<>>

(* A result that a decision may still be taken on is younger than every    *)
(* decision.                                                               *)
DecidedOnce ==
  /\ Len(results) = pad.iteration
  /\ \A i \in DOMAIN decisions :
       /\ decisions[i].iteration \in Nat
       /\ decisions[i].iteration <= pad.iteration
       /\ pc = "refine" => decisions[i].iteration < pad.iteration
  /\ \A i, j \in DOMAIN decisions : i < j => decisions[i].iteration < decisions[j].iteration

(* The decisions that kept a candidate which made a proposal.              *)
Fruitful == {j \in DOMAIN decisions : decisions[j].keep /\ decisions[j].proposed # Absent}

KeptIsLatest ==
  Fruitful # {} =>
    \E m \in Fruitful : (\A j \in Fruitful : j <= m) /\ kept = decisions[m].proposed

(* A discarded candidate's proposal gives way to the one kept last.        *)
LineageWitnessed ==
  \A i \in DOMAIN decisions :
    LET keeps == {j \in 1..i - 1 : decisions[j].keep /\ decisions[j].proposed # Absent}
    IN ~decisions[i].keep /\ decisions[i].proposed # Absent /\ keeps # {} =>
         \E m \in keeps : (\A j \in keeps : j <= m)
                          /\ decisions[i].selected = decisions[m].proposed

(* What an iteration works on has been tried, and what is queued is there. *)
NothingForgotten ==
  /\ Absent \notin Range(queue)
  /\ pc \in {"validate", "refine"} => current \in tried
  /\ NoPayloadLost

-----------------------------------------------------------------------------
(* Sequences                                                               *)

LEMMA SeqMonotone ==
  ASSUME NEW S, NEW T, S \subseteq T, NEW s \in Seq(S)
  PROVE  s \in Seq(T)
OBVIOUS

LEMMA SequenceOfItsRange ==
  ASSUME NEW S, NEW s \in Seq(S)
  PROVE  IsSequence(s)
<1> DEFINE R == Range(s)
<1>1. Len(s) \in Nat /\ DOMAIN s = 1..Len(s) /\ s = [i \in 1..Len(s) |-> s[i]]
  OBVIOUS
<1>2. \A i \in 1..Len(s) : s[i] \in R
  BY <1>1 DEF Range
<1> HIDE DEF R
<1>3. s \in [1..Len(s) -> R]
  BY <1>1, <1>2
<1>4. s \in Seq(R)
  BY <1>1, <1>3
<1> QED
  BY <1>4 DEF IsSequence, R

LEMMA AppendToSequence ==
  ASSUME NEW s, NEW e, IsSequence(s)
  PROVE  /\ IsSequence(Append(s, e)) /\ Len(s) \in Nat /\ DOMAIN s = 1..Len(s)
         /\ Len(Append(s, e)) = Len(s) + 1
         /\ DOMAIN Append(s, e) = 1..Len(s) + 1
         /\ \A i \in DOMAIN s : Append(s, e)[i] = s[i]
         /\ Append(s, e)[Len(s) + 1] = e
<1> DEFINE T == Range(s) \cup {e}
           t == Append(s, e)
<1>1. s \in Seq(Range(s))
  BY DEF IsSequence
<1>2. s \in Seq(T)
  BY <1>1, SeqMonotone
<1> HIDE DEF T
<1>3. e \in T
  BY DEF T
<1>4. /\ t \in Seq(T) /\ Len(s) \in Nat /\ DOMAIN s = 1..Len(s) /\ Len(t) = Len(s) + 1
      /\ DOMAIN t = 1..Len(s) + 1 /\ (\A i \in DOMAIN s : t[i] = s[i]) /\ t[Len(s) + 1] = e
  BY <1>2, <1>3
<1> HIDE DEF t
<1>5. IsSequence(t)
  BY <1>4, SequenceOfItsRange
<1> QED
  BY <1>4, <1>5 DEF t

LEMMA HeadAndTail ==
  ASSUME NEW s, IsSequence(s), s # <<>>
  PROVE  /\ IsSequence(Tail(s))
         /\ Range(s) = {Head(s)} \cup Range(Tail(s))
<1> DEFINE R == Range(s)
           t == Tail(s)
<1>1. s \in Seq(R)
  BY DEF IsSequence
<1> HIDE DEF R
<1>2. /\ t \in Seq(R) /\ Len(s) \in Nat /\ Len(s) > 0 /\ DOMAIN s = 1..Len(s) /\ Head(s) = s[1]
      /\ Len(t) = Len(s) - 1 /\ DOMAIN t = 1..Len(s) - 1
      /\ \A i \in 1..Len(s) - 1 : t[i] = s[i + 1]
  BY <1>1
<1> HIDE DEF t
<1>3. IsSequence(t)
  BY <1>2, SequenceOfItsRange
<1>4. ASSUME NEW x \in R
      PROVE  x \in {Head(s)} \cup Range(t)
  <2>1. PICK i \in 1..Len(s) : x = s[i]
    BY <1>2, <1>4 DEF R, Range
  <2>2. CASE i = 1
    BY <2>1, <2>2, <1>2
  <2>3. CASE i # 1
    <3>1. i - 1 \in DOMAIN t /\ t[i - 1] = s[i]
      BY <2>1, <2>3, <1>2
    <3> QED
      BY <3>1, <2>1 DEF Range
  <2> QED
    BY <2>2, <2>3
<1>5. Head(s) \in R
  BY <1>2 DEF R, Range
<1>6. ASSUME NEW x \in Range(t)
      PROVE  x \in R
  <2>1. PICK i \in 1..Len(s) - 1 : x = t[i]
    BY <1>2, <1>6 DEF Range
  <2>2. i + 1 \in DOMAIN s /\ x = s[i + 1]
    BY <2>1, <1>2
  <2> QED
    BY <2>2 DEF R, Range
<1>7. R = {Head(s)} \cup Range(t)
  BY <1>4, <1>5, <1>6
<1> QED
  BY <1>3, <1>7 DEF R, t

LEMMA Concatenation ==
  ASSUME NEW s, NEW t, IsSequence(s), IsSequence(t)
  PROVE  /\ IsSequence(s \o t) /\ Range(s) \subseteq Range(s \o t)
         /\ Range(s \o t) \subseteq Range(s) \cup Range(t)
<1> DEFINE T == Range(s) \cup Range(t)
           u == s \o t
<1>1. s \in Seq(Range(s)) /\ t \in Seq(Range(t))
  BY DEF IsSequence
<1>2. s \in Seq(T) /\ t \in Seq(T)
  BY <1>1, SeqMonotone
<1> HIDE DEF T
<1>3. /\ u \in Seq(T) /\ Len(s) \in Nat /\ Len(t) \in Nat /\ DOMAIN s = 1..Len(s)
      /\ DOMAIN u = 1..Len(s) + Len(t) /\ \A i \in 1..Len(s) : u[i] = s[i]
  BY <1>2
<1> HIDE DEF u
<1>4. IsSequence(u)
  BY <1>3, SequenceOfItsRange
<1>5. ASSUME NEW i \in DOMAIN s
      PROVE  s[i] \in Range(u)
  <2>1. i \in DOMAIN u /\ u[i] = s[i]
    BY <1>3
  <2> QED
    BY <2>1 DEF Range
<1> QED
  <2>1. \A x \in Range(u) : x \in T
    BY <1>3 DEF Range
  <2> QED
    BY <1>4, <1>5, <2>1 DEF u, Range, T

LEMMA ExtendedQueueIsSequence ==
  ASSUME ResearchLoopAssumption, mode \in Modes, IsSequence(queue), Absent \notin Range(queue),
         NEW r \in Refinements[mode]
  PROVE  /\ IsSequence(ExtendedQueue(r)) /\ Range(queue) \subseteq Range(ExtendedQueue(r))
         /\ Absent \notin Range(ExtendedQueue(r))
<1> DEFINE e(n) == [by |-> pad.iteration, kind |-> "queued", nth |-> n]
           new == [n \in 1..r.queued |-> e(n)]
           E == {e(n) : n \in Nat}
<1>1. r \in Refinement
  BY DEF ResearchLoopAssumption
<1>2. r.queued \in Nat
  BY <1>1 DEF Refinement
<1>3. \A n \in 1..r.queued : e(n) \in E
  BY <1>2
<1>4. new \in Seq(E)
  <2> HIDE DEF E, e
  <2> QED
    BY <1>2, <1>3
<1>5. IsSequence(new)
  BY <1>4, SequenceOfItsRange
<1>6. Absent \notin Range(new)
  BY DEF Range, Absent
<1>7. ExtendedQueue(r) = queue \o new
  BY Zenon DEF ExtendedQueue
<1> HIDE DEF new
<1>8. /\ IsSequence(queue \o new) /\ Range(queue) \subseteq Range(queue \o new)
      /\ Range(queue \o new) \subseteq Range(queue) \cup Range(new)
  BY <1>5, Concatenation
<1> QED
  BY <1>6, <1>7, <1>8

-----------------------------------------------------------------------------
(* The scratchpad                                                          *)

LEMMA RecordedCounts ==
  ASSUME NEW o, PadShape
  PROVE  /\ DOMAIN Recorded(o) = DOMAIN pad
         /\ Recorded(o).iteration = pad.iteration + 1
<1> DEFINE remaining == Max({0, pad.remaining - o.runs})
           better == IsBetter(o)
           counts == [l \in Labels |-> pad.counts[l] + (IF l \in o.labels THEN 1 ELSE 0)]
           plateau == NextPlateau(o)
           one == [pad EXCEPT !.iteration = @ + 1, !.remaining = remaining,
                              !.best = IF better THEN Len(results) + 1 ELSE @]
           two == [one EXCEPT !.stagnation = IF better THEN 0 ELSE @ + 1,
                              !.plateau = plateau, !.counts = counts]
<1>1. Recorded(o) = [pad EXCEPT !.iteration = @ + 1, !.remaining = remaining,
                       !.best = IF better THEN Len(results) + 1 ELSE @,
                       !.stagnation = IF better THEN 0 ELSE @ + 1,
                       !.plateau = plateau, !.counts = counts]
  BY Zenon DEF Recorded
<1> HIDE DEF remaining, better, counts, plateau
<1>2. Recorded(o) = two
  BY <1>1 DEF PadShape
<1>3. DOMAIN one = DOMAIN pad /\ one.iteration = pad.iteration + 1
  BY DEF PadShape
<1> HIDE DEF one
<1>4. DOMAIN two = DOMAIN one /\ two.iteration = one.iteration
  BY <1>3 DEF PadShape
<1> QED
  BY <1>2, <1>3, <1>4

LEMMA StoppingKeepsCount ==
  ASSUME NEW r, NEW goes_on, PadShape
  PROVE  /\ DOMAIN Stopping(r, goes_on) = DOMAIN pad
         /\ Stopping(r, goes_on).iteration = pad.iteration
<1> DEFINE explicit == IF r.stop THEN [pad EXCEPT !.stop = "explicit_stop"] ELSE pad
           final == IF ~goes_on /\ ~r.continue /\ explicit.stop = "none"
                    THEN [explicit EXCEPT !.stop = "refinement_stopped"]
                    ELSE explicit
<1>1. DOMAIN explicit = DOMAIN pad /\ explicit.iteration = pad.iteration
  BY DEF PadShape
<1> HIDE DEF explicit
<1>2. DOMAIN final = DOMAIN explicit /\ final.iteration = explicit.iteration
  BY <1>1 DEF PadShape
<1>3. Stopping(r, goes_on) = final
  BY Zenon DEF Stopping, explicit
<1> QED
  BY <1>1, <1>2, <1>3

(* A crash is handled without a count, from the queue if it holds anything.*)
LEMMA HandleMovesOn ==
  ASSUME NEW payload, NEW rest, NEW notes, IsSequence(rest),
         DOMAIN notes = {"iteration", "remaining", "best", "stagnation", "plateau", "counts", "stop"},
         notes.iteration \in Nat, Handle(payload, rest, notes)
  PROVE  /\ PadShape' /\ pad'.iteration = notes.iteration
         /\ pc' = "top" /\ IsSequence(queue')
         /\ Range(queue') \subseteq Range(rest)
         /\ Range(rest) \subseteq Range(queue') \cup {current'}
<1>1. pc' = "top"
  BY DEF Handle
<1>2. PadShape' /\ pad'.iteration = notes.iteration
  <2>1. pad' = notes \/ pad' = [notes EXCEPT !.stop = "pipeline_crash"]
    BY DEF Handle
  <2> QED
    BY <2>1 DEF PadShape
<1>3. CASE rest = <<>>
  BY <1>1, <1>2, <1>3, Zenon DEF Handle
<1>4. CASE rest # <<>>
  <2>1. current' = Head(rest) /\ queue' = Tail(rest)
    BY <1>4 DEF Handle
  <2>2. IsSequence(Tail(rest)) /\ Range(rest) = {Head(rest)} \cup Range(Tail(rest))
    BY <1>4, HeadAndTail
  <2>3. IsSequence(queue')
    BY <2>1, <2>2
  <2>4. Range(rest) = Range(queue') \cup {current'}
    BY <2>1, <2>2, Zenon
  <2> QED
    BY <1>1, <1>2, <1>4, <2>3, <2>4
<1> QED
  BY <1>3, <1>4

-----------------------------------------------------------------------------
(* The invariant                                                           *)

IInv == Shapes /\ DecidedOnce /\ KeptIsLatest /\ LineageWitnessed /\ NothingForgotten

LEMMA InitHolds ==
  ASSUME ResearchLoopAssumption, Init
  PROVE  IInv
<1>1. mode \in Modes /\ pc = "top" /\ PadShape /\ pad.iteration = 0
  BY DEF Init, PadShape
<1>2. results = <<>> /\ queue = <<>> /\ decisions = <<>> /\ issued = {}
  BY DEF Init
<1>3. IsSequence(<<>>) /\ Len(<<>>) = 0 /\ DOMAIN <<>> = {}
  BY DEF IsSequence
<1>4. Shapes
  BY <1>1, <1>2, <1>3 DEF Shapes
<1>5. DecidedOnce
  BY <1>1, <1>2, <1>3 DEF DecidedOnce
<1>6. Fruitful = {}
  BY <1>2, <1>3 DEF Fruitful
<1>7. KeptIsLatest /\ LineageWitnessed
  BY <1>2, <1>3, <1>6 DEF KeptIsLatest, LineageWitnessed
<1>8. NothingForgotten
  BY <1>1, <1>2, <1>3 DEF Range, NothingForgotten, NoPayloadLost
<1> QED
  BY <1>4, <1>5, <1>7, <1>8 DEF IInv

(* Where no decision is taken the decisions and the kept proposal stay.    *)
LEMMA SameDecisions ==
  ASSUME UNCHANGED <<decisions, kept>>, KeptIsLatest, LineageWitnessed
  PROVE  KeptIsLatest' /\ LineageWitnessed'
<1>1. decisions' = decisions /\ kept' = kept
  OBVIOUS
<1>2. Fruitful' = Fruitful
  BY <1>1 DEF Fruitful
<1> QED
  BY <1>1, <1>2 DEF KeptIsLatest, LineageWitnessed

LEMMA TopHolds ==
  ASSUME IInv, Top
  PROVE  IInv'
<1> USE DEF IInv
<1>1. /\ pc = "top" /\ pc' \in {"validate", "stopped"}
      /\ UNCHANGED <<mode, pad, results, queue, kept, decisions, issued>>
  BY Zenon DEF Top
<1>2. Shapes'
  BY <1>1 DEF Shapes, PadShape
<1>3. DecidedOnce'
  BY <1>1 DEF DecidedOnce
<1>4. KeptIsLatest' /\ LineageWitnessed'
  BY <1>1, SameDecisions
<1>5. /\ pc' = "validate" => current' \in tried'
      /\ mode = "bounded" => current' = current
      /\ tried \subseteq tried'
  BY DEF Top
<1>6. NothingForgotten'
  BY <1>1, <1>5 DEF NothingForgotten, NoPayloadLost
<1> QED
  BY <1>2, <1>3, <1>4, <1>6

LEMMA ValidateReturnsHolds ==
  ASSUME IInv, ValidateReturns
  PROVE  IInv'
<1> USE DEF IInv
<1>1. PICK o \in Outcomes[mode] : pad' = Recorded(o) /\ results' = Append(results, o)
  BY DEF ValidateReturns
<1>2. /\ pc = "validate" /\ pc' = "refine"
      /\ UNCHANGED <<mode, current, queue, kept, decisions, issued, tried>>
  BY DEF ValidateReturns
<1>3. DOMAIN pad' = DOMAIN pad /\ pad'.iteration = pad.iteration + 1
  BY <1>1, RecordedCounts DEF Shapes
<1>4. pad.iteration \in Nat
  BY DEF Shapes, PadShape
<1>5. IsSequence(results') /\ Len(results') = Len(results) + 1
  BY <1>1, AppendToSequence DEF Shapes
<1>6. Shapes'
  BY <1>2, <1>3, <1>4, <1>5 DEF Shapes, PadShape
<1>7. DecidedOnce'
  <2>1. Len(results') = pad'.iteration
    BY <1>3, <1>5 DEF DecidedOnce
  <2>2. \A i \in DOMAIN decisions' :
          decisions'[i].iteration \in Nat /\ decisions'[i].iteration < pad'.iteration
    BY <1>2, <1>3, <1>4 DEF DecidedOnce
  <2>3. \A i \in DOMAIN decisions' : decisions'[i].iteration <= pad'.iteration
    BY <1>3, <1>4, <2>2
  <2>4. \A i, j \in DOMAIN decisions' : i < j => decisions'[i].iteration < decisions'[j].iteration
    BY <1>2 DEF DecidedOnce
  <2> QED
    BY <2>1, <2>2, <2>3, <2>4 DEF DecidedOnce
<1>8. KeptIsLatest' /\ LineageWitnessed'
  BY <1>2, SameDecisions
<1>9. NothingForgotten'
  BY <1>2 DEF NothingForgotten, NoPayloadLost
<1> QED
  BY <1>6, <1>7, <1>8, <1>9

LEMMA ValidateCrashesHolds ==
  ASSUME IInv, ValidateCrashes
  PROVE  IInv'
<1> USE DEF IInv
<1> DEFINE notes == Recorded(Failed)
<1>1. /\ pc = "validate" /\ results' = Append(results, Failed)
      /\ Handle(current, queue, notes)
      /\ UNCHANGED <<mode, kept, decisions, issued, tried>>
  BY DEF ValidateCrashes
<1>2. /\ DOMAIN notes = DOMAIN pad /\ notes.iteration = pad.iteration + 1
  BY RecordedCounts DEF Shapes
<1> HIDE DEF notes
<1>3. pad.iteration \in Nat
      /\ DOMAIN pad = {"iteration", "remaining", "best", "stagnation", "plateau", "counts", "stop"}
  BY DEF Shapes, PadShape
<1>4. /\ PadShape' /\ pad'.iteration = notes.iteration /\ pc' = "top" /\ IsSequence(queue')
      /\ Range(queue') \subseteq Range(queue) /\ Range(queue) \subseteq Range(queue') \cup {current'}
  <2>1. IsSequence(queue) /\ notes.iteration \in Nat
    BY <1>2, <1>3 DEF Shapes
  <2> QED
    BY <1>1, <1>2, <1>3, <2>1, HandleMovesOn
<1>5. IsSequence(results') /\ Len(results') = Len(results) + 1
  BY <1>1, AppendToSequence DEF Shapes
<1>6. Shapes'
  BY <1>1, <1>4, <1>5 DEF Shapes
<1>7. DecidedOnce'
  <2>1. Len(results') = pad'.iteration
    BY <1>2, <1>4, <1>5 DEF DecidedOnce
  <2>2. \A i \in DOMAIN decisions' :
          decisions'[i].iteration \in Nat /\ decisions'[i].iteration <= pad'.iteration
    BY <1>1, <1>2, <1>3, <1>4 DEF DecidedOnce
  <2>3. \A i, j \in DOMAIN decisions' : i < j => decisions'[i].iteration < decisions'[j].iteration
    BY <1>1 DEF DecidedOnce
  <2> QED
    BY <1>4, <2>1, <2>2, <2>3 DEF DecidedOnce
<1>8. KeptIsLatest' /\ LineageWitnessed'
  BY <1>1, SameDecisions
<1>9. NothingForgotten'
  BY <1>1, <1>4 DEF NothingForgotten, NoPayloadLost
<1> QED
  BY <1>6, <1>7, <1>8, <1>9

LEMMA RefineCrashesHolds ==
  ASSUME IInv, RefineCrashes
  PROVE  IInv'
<1> USE DEF IInv
<1>1. /\ pc = "refine" /\ Handle(current, queue, pad)
      /\ UNCHANGED <<mode, results, kept, decisions, issued, tried>>
  BY DEF RefineCrashes
<1>2. /\ PadShape' /\ pad'.iteration = pad.iteration /\ pc' = "top" /\ IsSequence(queue')
      /\ Range(queue') \subseteq Range(queue) /\ Range(queue) \subseteq Range(queue') \cup {current'}
  <2>1. IsSequence(queue) /\ pad.iteration \in Nat
        /\ DOMAIN pad = {"iteration", "remaining", "best", "stagnation", "plateau", "counts", "stop"}
    BY DEF Shapes, PadShape
  <2> QED
    BY <1>1, <2>1, HandleMovesOn
<1>3. Shapes'
  BY <1>1, <1>2 DEF Shapes
<1>4. DecidedOnce'
  BY <1>1, <1>2 DEF DecidedOnce
<1>5. KeptIsLatest' /\ LineageWitnessed'
  BY <1>1, SameDecisions
<1>6. NothingForgotten'
  BY <1>1, <1>2 DEF NothingForgotten, NoPayloadLost
<1> QED
  BY <1>3, <1>4, <1>5, <1>6

(* What a refinement leaves of the queue, and of the payloads handed out.  *)
LEMMA RefinementKeepsPayloads ==
  ASSUME ResearchLoopAssumption, Shapes, NothingForgotten, pc = "refine", UNCHANGED <<mode, tried>>,
         NEW r \in Refinements[mode], NEW written, RefineWith(r, written)
  PROVE  /\ PadShape' /\ pad'.iteration = pad.iteration /\ pc' = "top" /\ IsSequence(queue')
         /\ NothingForgotten'
<1> DEFINE proposed == Proposal(r)
           chosen == Selected(proposed)
           extended == ExtendedQueue(r)
           popped == chosen = Absent /\ extended # <<>>
           selected == IF chosen # Absent THEN chosen
                       ELSE IF popped THEN Head(extended) ELSE Absent
           payload == IF selected # Absent THEN selected ELSE current
           rest == IF popped THEN Tail(extended) ELSE extended
           notes == Stopping(r, selected # Absent)
<1>1. issued' = issued \cup Range(extended) \cup ({proposed} \ {Absent})
  BY Zenon DEF RefineWith
<1>2. \/ current' = payload /\ queue' = rest /\ pad' = notes /\ pc' = "top"
      \/ mode = "karpathy" /\ Handle(payload, rest, notes)
  BY Zenon DEF RefineWith
<1>3. /\ DOMAIN notes = {"iteration", "remaining", "best", "stagnation", "plateau", "counts", "stop"}
      /\ notes.iteration = pad.iteration /\ pad.iteration \in Nat
  <2>1. PadShape
    BY DEF Shapes
  <2>2. DOMAIN notes = DOMAIN pad /\ notes.iteration = pad.iteration
    BY <2>1, StoppingKeepsCount
  <2> QED
    BY <2>1, <2>2 DEF PadShape
<1>4. /\ IsSequence(extended) /\ Range(queue) \subseteq Range(extended) /\ Absent \notin Range(extended)
  <2>1. mode \in Modes /\ IsSequence(queue) /\ Absent \notin Range(queue)
    BY DEF Shapes, NothingForgotten
  <2> QED
    BY <2>1, ExtendedQueueIsSequence, Zenon
<1>5. mode = "bounded" => chosen = proposed
  BY Zenon DEF Selected
<1> HIDE DEF proposed, chosen, extended, notes
<1>6. /\ IsSequence(rest) /\ Range(rest) \subseteq Range(extended)
      /\ Range(extended) \subseteq Range(rest) \cup {payload}
      /\ mode = "bounded" => proposed \in {payload, Absent}
  <2>1. CASE popped
    <3>1. /\ IsSequence(Tail(extended))
          /\ Range(extended) = {Head(extended)} \cup Range(Tail(extended))
      BY <1>4, <2>1, HeadAndTail
    <3>2. payload = Head(extended) /\ rest = Tail(extended)
      BY <1>4, <2>1, <3>1
    <3>3. mode = "bounded" => proposed = Absent
      BY <1>5, <2>1
    <3> HIDE DEF payload, rest
    <3> QED
      BY <3>1, <3>2, <3>3
  <2>2. CASE ~popped
    <3>1. rest = extended /\ (chosen # Absent => payload = chosen)
      BY <2>2
    <3> HIDE DEF payload, rest
    <3> QED
      BY <3>1, <1>4, <1>5
  <2> QED
    BY <2>1, <2>2
<1> HIDE DEF payload, rest
<1>7. PadShape' /\ pad'.iteration = pad.iteration /\ pc' = "top" /\ IsSequence(queue')
      /\ Range(queue') \subseteq Range(rest)
  <2>1. CASE current' = payload /\ queue' = rest /\ pad' = notes /\ pc' = "top"
    BY <2>1, <1>3, <1>6 DEF PadShape
  <2>2. CASE Handle(payload, rest, notes)
    BY <2>2, <1>3, <1>6, HandleMovesOn
  <2> QED
    BY <1>2, <2>1, <2>2
<1>8. NoPayloadLost'
  <2>1. SUFFICES ASSUME mode = "bounded"
                 PROVE  issued' \subseteq tried \cup Range(queue') \cup {current'}
    BY DEF NoPayloadLost
  <2>2. current' = payload /\ queue' = rest
    BY <1>2, <2>1
  <2>3. issued \subseteq tried \cup Range(queue)
    BY <2>1 DEF NothingForgotten, NoPayloadLost
  <2> QED
    BY <2>1, <2>2, <2>3, <1>1, <1>4, <1>6
<1>9. Absent \notin Range(queue')
  BY <1>4, <1>6, <1>7
<1> QED
  BY <1>7, <1>8, <1>9 DEF NothingForgotten

(* The decision of a refinement: what it decides on, and what it says.     *)
LEMMA RefinementDecides ==
  ASSUME Shapes, DecidedOnce, KeptIsLatest, LineageWitnessed, pc = "refine",
         NEW r, NEW written, RefineWith(r, written)
  PROVE  /\ IsSequence(decisions') /\ (mode = "bounded" => decisions' = decisions)
         /\ \A i \in DOMAIN decisions' :
              decisions'[i].iteration \in Nat /\ decisions'[i].iteration <= pad.iteration
         /\ \A i, j \in DOMAIN decisions' : i < j => decisions'[i].iteration < decisions'[j].iteration
         /\ KeptIsLatest' /\ LineageWitnessed'
<1> DEFINE proposed == Proposal(r)
           chosen == Selected(proposed)
           d == Decision(proposed, chosen)
           n == Len(decisions)
<1>1. /\ kept' = IF mode = "karpathy" /\ chosen # Absent /\ chosen = proposed
                 THEN proposed ELSE kept
      /\ decisions' = IF mode = "karpathy" THEN Append(decisions, d) ELSE decisions
  BY Zenon DEF RefineWith
<1>2. d.iteration = pad.iteration /\ d.proposed = proposed /\ d.selected = chosen
  BY DEF Decision
<1>3. Decision(proposed, proposed).keep = d.keep
  BY DEF Decision
<1>4. chosen = IF mode = "karpathy" /\ proposed # Absent /\ kept # Absent /\ ~d.keep
               THEN kept ELSE proposed
  BY <1>3, Zenon DEF Selected
<1>5. IsSequence(decisions) /\ pad.iteration \in Nat
  BY DEF Shapes, PadShape
<1> HIDE DEF proposed, chosen, d
<1>6. CASE mode # "karpathy"
  <2>1. kept' = kept /\ decisions' = decisions
    BY <1>1, <1>6
  <2>2. KeptIsLatest' /\ LineageWitnessed'
    BY <2>1, SameDecisions
  <2> QED
    BY <1>5, <2>1, <2>2 DEF DecidedOnce
<1>7. CASE mode = "karpathy"
  <2>1. /\ IsSequence(decisions') /\ n \in Nat /\ DOMAIN decisions = 1..n
        /\ DOMAIN decisions' = 1..n + 1
        /\ (\A i \in 1..n : decisions'[i] = decisions[i]) /\ decisions'[n + 1] = d
    <3>1. decisions' = Append(decisions, d)
      BY <1>1, <1>7
    <3>2. /\ IsSequence(Append(decisions, d)) /\ n \in Nat /\ DOMAIN decisions = 1..n
          /\ DOMAIN Append(decisions, d) = 1..n + 1
          /\ (\A i \in DOMAIN decisions : Append(decisions, d)[i] = decisions[i])
          /\ Append(decisions, d)[n + 1] = d
      BY <1>5, AppendToSequence
    <3> QED
      BY <3>1, <3>2
  <2> HIDE DEF n
  <2>2. \A i \in 1..n : decisions[i].iteration \in Nat /\ decisions[i].iteration < pad.iteration
    BY <1>5, <2>1 DEF DecidedOnce
  <2>3. \A i \in DOMAIN decisions' :
          decisions'[i].iteration \in Nat /\ decisions'[i].iteration <= pad.iteration
    <3>1. SUFFICES ASSUME NEW i \in 1..n + 1
                   PROVE  decisions'[i].iteration \in Nat /\ decisions'[i].iteration <= pad.iteration
      BY <2>1
    <3>2. CASE i = n + 1
      BY <3>2, <1>2, <1>5, <2>1
    <3>3. CASE i # n + 1
      <4>1. i \in 1..n
        BY <2>1, <3>3
      <4> QED
        BY <4>1, <1>5, <2>1, <2>2
    <3> QED
      BY <3>2, <3>3
  <2>4. ASSUME NEW i \in DOMAIN decisions', NEW j \in DOMAIN decisions', i < j
        PROVE  decisions'[i].iteration < decisions'[j].iteration
    <3>1. i \in 1..n /\ decisions'[i] = decisions[i]
      BY <2>1, <2>4
    <3>2. CASE j = n + 1
      BY <3>1, <3>2, <1>2, <2>1, <2>2
    <3>3. CASE j # n + 1
      <4>1. j \in 1..n /\ decisions'[j] = decisions[j]
        BY <2>1, <3>3
      <4> QED
        BY <3>1, <4>1, <2>1, <2>4 DEF DecidedOnce
    <3> QED
      BY <3>2, <3>3
  <2>5. Fruitful' = Fruitful \cup (IF d.keep /\ proposed # Absent THEN {n + 1} ELSE {})
    <3>1. Fruitful' = {j \in 1..n + 1 : decisions'[j].keep /\ decisions'[j].proposed # Absent}
      BY <2>1 DEF Fruitful
    <3>2. Fruitful = {j \in 1..n : decisions[j].keep /\ decisions[j].proposed # Absent}
      BY <2>1 DEF Fruitful
    <3>3. 1..n + 1 = 1..n \cup {n + 1}
      BY <2>1
    <3>4. \A j \in 1..n : j \in Fruitful' <=> j \in Fruitful
      BY <3>1, <3>2, <3>3, <2>1
    <3>5. n + 1 \in Fruitful' <=> d.keep /\ proposed # Absent
      BY <3>1, <3>3, <2>1, <1>2
    <3>6. n + 1 \notin 1..n
      BY <2>1
    <3>7. Fruitful' \subseteq 1..n \cup {n + 1} /\ Fruitful \subseteq 1..n
      BY <3>1, <3>2, <3>3
    <3> HIDE DEF Fruitful
    <3> QED
      BY <3>4, <3>5, <3>6, <3>7
  <2>6. Fruitful \subseteq 1..n
    BY <2>1 DEF Fruitful
  <2>7. KeptIsLatest'
    <3>1. CASE d.keep /\ proposed # Absent
      <4>1. kept' = proposed /\ Fruitful' = Fruitful \cup {n + 1}
        BY <3>1, <1>1, <1>4, <1>7, <2>5
      <4>2. \A j \in Fruitful' : j <= n + 1
        BY <4>1, <2>1, <2>6
      <4>3. n + 1 \in Fruitful' /\ kept' = decisions'[n + 1].proposed
        BY <4>1, <1>2, <2>1
      <4> QED
        BY <4>2, <4>3 DEF KeptIsLatest
    <3>2. CASE ~(d.keep /\ proposed # Absent)
      <4>1. Fruitful' = Fruitful
        BY <3>2, <2>5
      <4>2. SUFFICES ASSUME Fruitful # {}
                     PROVE  \E m \in Fruitful : (\A j \in Fruitful : j <= m)
                                                 /\ kept' = decisions'[m].proposed
        BY <4>1 DEF KeptIsLatest
      <4>3. PICK m \in Fruitful : (\A j \in Fruitful : j <= m) /\ kept = decisions[m].proposed
        BY <4>2 DEF KeptIsLatest
      <4>4. kept # Absent
        BY <4>3 DEF Fruitful
      <4>5. kept' = kept
        BY <3>2, <4>4, <1>1, <1>4, <1>7
      <4>6. decisions'[m] = decisions[m]
        BY <4>3, <2>1, <2>6
      <4> QED
        BY <4>3, <4>5, <4>6
    <3> QED
      BY <3>1, <3>2
  <2>8. LineageWitnessed'
    <3> DEFINE KeptBefore(i) == {j \in 1..i - 1 : decisions[j].keep /\ decisions[j].proposed # Absent}
               KeptNowBefore(i) == {j \in 1..i - 1 : decisions'[j].keep /\ decisions'[j].proposed # Absent}
    <3>1. SUFFICES ASSUME NEW i \in 1..n + 1, ~decisions'[i].keep, decisions'[i].proposed # Absent,
                          KeptNowBefore(i) # {}
                   PROVE  \E m \in KeptNowBefore(i) : (\A j \in KeptNowBefore(i) : j <= m)
                            /\ decisions'[i].selected = decisions'[m].proposed
      BY <2>1 DEF LineageWitnessed
    <3>2. KeptNowBefore(i) = KeptBefore(i) /\ KeptBefore(i) \subseteq 1..n
      BY <2>1
    <3>3. ASSUME NEW m \in KeptBefore(i)
          PROVE  decisions'[m] = decisions[m]
      BY <2>1, <3>2
    <3>4. \E m \in KeptBefore(i) : (\A j \in KeptBefore(i) : j <= m)
                              /\ decisions'[i].selected = decisions[m].proposed
      <4>1. CASE i \in 1..n
        BY <3>1, <3>2, <4>1, <2>1 DEF LineageWitnessed
      <4>2. CASE i = n + 1
        <5>1. KeptBefore(i) = Fruitful
          BY <4>2, <2>1 DEF Fruitful
        <5>2. PICK m \in Fruitful : (\A j \in Fruitful : j <= m) /\ kept = decisions[m].proposed
          BY <3>1, <3>2, <5>1 DEF KeptIsLatest
        <5>3. kept # Absent
          BY <5>2 DEF Fruitful
        <5>4. decisions'[i].selected = kept
          BY <3>1, <4>2, <5>3, <1>2, <1>4, <1>7, <2>1
        <5> QED
          BY <5>1, <5>2, <5>4
      <4> QED
        BY <4>1, <4>2, <2>1
    <3> HIDE DEF KeptBefore, KeptNowBefore
    <3> QED
      BY <3>2, <3>3, <3>4
  <2> QED
    BY <1>7, <2>1, <2>3, <2>4, <2>7, <2>8
<1> QED
  BY <1>6, <1>7

LEMMA RefineHolds ==
  ASSUME ResearchLoopAssumption, IInv, Refine
  PROVE  IInv'
<1>1. /\ Shapes /\ DecidedOnce /\ KeptIsLatest /\ LineageWitnessed /\ NothingForgotten
  BY DEF IInv
<1>2. PICK r \in Refinements[mode], written \in BOOLEAN : RefineWith(r, written)
  BY DEF Refine
<1>3. pc = "refine" /\ UNCHANGED <<mode, results, tried>>
  BY DEF Refine
<1>4. PadShape' /\ pad'.iteration = pad.iteration /\ pc' = "top" /\ IsSequence(queue')
      /\ NothingForgotten'
  BY <1>1, <1>2, <1>3, RefinementKeepsPayloads
<1>5. /\ IsSequence(decisions') /\ (mode = "bounded" => decisions' = decisions)
      /\ \A i \in DOMAIN decisions' :
           decisions'[i].iteration \in Nat /\ decisions'[i].iteration <= pad.iteration
      /\ \A i, j \in DOMAIN decisions' : i < j => decisions'[i].iteration < decisions'[j].iteration
      /\ KeptIsLatest' /\ LineageWitnessed'
  BY <1>1, <1>2, <1>3, RefinementDecides
<1>6. Shapes'
  BY <1>1, <1>3, <1>4, <1>5 DEF Shapes
<1>7. DecidedOnce'
  BY <1>1, <1>3, <1>4, <1>5 DEF DecidedOnce
<1> QED
  BY <1>4, <1>5, <1>6, <1>7 DEF IInv

LEMMA StutterHolds ==
  ASSUME IInv, UNCHANGED vars
  PROVE  IInv'
<1>1. Shapes'
  BY DEF IInv, Shapes, PadShape, vars
<1>2. DecidedOnce'
  BY DEF IInv, DecidedOnce, vars
<1>3. KeptIsLatest' /\ LineageWitnessed'
  BY SameDecisions DEF IInv, vars
<1>4. NothingForgotten'
  BY DEF IInv, NothingForgotten, NoPayloadLost, vars
<1> QED
  BY <1>1, <1>2, <1>3, <1>4 DEF IInv

LEMMA StepHolds ==
  ASSUME ResearchLoopAssumption, IInv, [Next]_vars
  PROVE  IInv'
<1>1. CASE Top
  BY <1>1, TopHolds
<1>2. CASE ValidateReturns
  BY <1>2, ValidateReturnsHolds
<1>3. CASE ValidateCrashes
  BY <1>3, ValidateCrashesHolds
<1>4. CASE Refine
  BY <1>4, RefineHolds
<1>5. CASE RefineCrashes
  BY <1>5, RefineCrashesHolds
<1>6. CASE UNCHANGED vars
  BY <1>6, StutterHolds
<1> QED
  BY <1>1, <1>2, <1>3, <1>4, <1>5, <1>6 DEF Next, Step, Done

(* No step of the replay touches the loop.                                 *)
LEMMA GitStepIsLoopStep ==
  ASSUME [GitNext]_<<vars, gitVars>>
  PROVE  [Next]_vars
<1>1. CASE LoopStep
  BY <1>1 DEF LoopStep, Next
<1>2. CASE ~LoopStep /\ GitNext
  BY <1>2 DEF GitNext, GitStep, GitDone, WriteRecords, CheckoutBranch, CommitCandidate,
              CommitFails, ResetToIncumbent, ResetFails, WriteReports
<1> QED
  BY <1>1, <1>2

LEMMA Invariance == GitSpec => []IInv
<1>1. GitInit => IInv
  BY ResearchLoopAssumption, InitHolds DEF GitInit
<1>2. IInv /\ [GitNext]_<<vars, gitVars>> => IInv'
  BY ResearchLoopAssumption, GitStepIsLoopStep, StepHolds
<1> QED
  BY <1>1, <1>2, PTL DEF GitSpec

-----------------------------------------------------------------------------
(* Every iteration is recorded once and decided on at most once, in order, *)
(* wherever a component raised: a crash before the result was recorded     *)
(* records a failed one, a crash after it records nothing                  *)
(* (controller.py, the except block of run).                               *)
THEOREM IterationsOnce == GitSpec => []EachIterationOnce
<1>1. IInv => EachIterationOnce
  BY DEF IInv, DecidedOnce, EachIterationOnce
<1> QED
  BY <1>1, Invariance, PTL

(* However many candidates are kept or discarded in between, a discard     *)
(* goes on from the proposal of the last candidate kept that made one      *)
(* (controller.py, karpathy_kept_next_payload).                            *)
THEOREM DiscardsReturnToKept == GitSpec => []LineageFollowsKept
<1>1. ASSUME NEW S \in SUBSET Int, NEW m \in S, \A j \in S : j <= m
      PROVE  Max(S) = m
  <2>1. \A y \in S : m >= y
    BY <1>1
  <2>2. Max(S) \in S /\ \A y \in S : Max(S) >= y
    BY <2>1, Zenon DEF Max
  <2>3. Max(S) >= m
    BY <2>2
  <2>4. Max(S) <= m
    BY <1>1, <2>2
  <2>5. Max(S) \in Int /\ m \in Int
    BY <2>2
  <2> HIDE DEF Max
  <2> QED
    BY <2>3, <2>4, <2>5
<1>2. ASSUME LineageWitnessed
      PROVE  LineageFollowsKept
  <2> DEFINE KeptBefore(i) == {j \in 1..i - 1 : decisions[j].keep /\ decisions[j].proposed # Absent}
  <2>1. SUFFICES ASSUME NEW i \in DOMAIN decisions, ~decisions[i].keep,
                        decisions[i].proposed # Absent, KeptBefore(i) # {}
                 PROVE  decisions[i].selected = decisions[Max(KeptBefore(i))].proposed
    BY DEF LineageFollowsKept
  <2>2. PICK m \in KeptBefore(i) : (\A j \in KeptBefore(i) : j <= m)
                              /\ decisions[i].selected = decisions[m].proposed
    BY <1>2, <2>1 DEF LineageWitnessed
  <2>3. KeptBefore(i) \in SUBSET Int
    OBVIOUS
  <2> HIDE DEF KeptBefore
  <2>4. Max(KeptBefore(i)) = m
    BY <1>1, <2>2, <2>3
  <2> QED
    BY <2>2, <2>4
<1>3. IInv => LineageFollowsKept
  BY <1>2 DEF IInv
<1> QED
  BY <1>3, Invariance, PTL

(* A bounded loop keeps every payload a refinement handed out queued or    *)
(* current until it is tried, whatever crashes (follow_up_queue).          *)
THEOREM PayloadsSurvive == GitSpec => []NoPayloadLost
<1>1. IInv => NoPayloadLost
  BY DEF IInv, NothingForgotten
<1> QED
  BY <1>1, Invariance, PTL


-----------------------------------------------------------------------------
(* Recursion over the natural numbers                                      *)

(* What stands in for induction: a smallest counterexample.                *)
LEMMA LeastOfNaturals ==
  ASSUME NEW S \in SUBSET Nat, S # {}
  PROVE  \E x \in S : \A y \in S : x <= y
<1> DEFINE Less == {ss \in Nat \X Nat : ss[1] < ss[2]}
<1>1. IsWellFoundedOn(Less, Nat)
  BY NatLessThanWellFounded, Zenon DEF OpToRel
<1> HIDE DEF Less
<1>2. PICK x \in S : \A y \in S : ~(<<y, x>> \in Less)
  BY <1>1, WFMin, Zenon
<1>3. ASSUME NEW y \in S PROVE x <= y
  <2>1. x \in Nat /\ y \in Nat /\ <<y, x>> \notin Less
    BY <1>2
  <2>2. ~(y < x)
    BY <2>1 DEF Less
  <2> QED
    BY <2>1, <2>2
<1> QED
  BY <1>3

(* A course of n steps through the natural numbers, from 0.                *)
IsCourse(step, n, g) ==
  g \in [0..n -> Nat] /\ g[0] = 0 /\ \A k \in 1..n : g[k] = step[<<k, g[k - 1]>>]

LEMMA CourseExtends ==
  ASSUME NEW step \in [Nat \X Nat -> Nat], NEW n \in Nat, NEW g, IsCourse(step, n, g)
  PROVE  \E h : IsCourse(step, n + 1, h)
<1> DEFINE h == [k \in 0..(n + 1) |-> IF k \in 0..n THEN g[k] ELSE step[<<n + 1, g[n]>>]]
<1>1. g \in [0..n -> Nat] /\ g[0] = 0 /\ \A k \in 1..n : g[k] = step[<<k, g[k - 1]>>]
  BY DEF IsCourse
<1>2. /\ 0 \in 0..n /\ n \in 0..n /\ n + 1 \notin 0..n /\ (n + 1) - 1 = n
      /\ \A k \in 1..(n + 1) : k # n + 1 => k \in 1..n /\ k \in 0..n /\ k - 1 \in 0..n
  OBVIOUS
<1>3. step[<<n + 1, g[n]>>] \in Nat
  BY <1>1, <1>2
<1>4. h \in [0..(n + 1) -> Nat]
  BY <1>1, <1>3
<1>5. /\ \A k \in 0..n : h[k] = g[k]
      /\ h[n + 1] = step[<<n + 1, g[n]>>]
  BY <1>2
<1> HIDE DEF h
<1>6. ASSUME NEW k \in 1..(n + 1) PROVE h[k] = step[<<k, h[k - 1]>>]
  <2>1. CASE k = n + 1
    BY <1>2, <1>5, <2>1
  <2>2. CASE k # n + 1
    <3>1. k \in 1..n /\ k \in 0..n /\ k - 1 \in 0..n
      BY <1>2, <2>2
    <3>2. h[k] = g[k] /\ h[k - 1] = g[k - 1]
      BY <1>5, <3>1
    <3> QED
      BY <1>1, <3>1, <3>2
  <2> QED
    BY <2>1, <2>2
<1>7. h[0] = 0
  BY <1>1, <1>2, <1>5
<1> QED
  BY <1>4, <1>6, <1>7 DEF IsCourse

LEMMA CourseExists ==
  ASSUME NEW step \in [Nat \X Nat -> Nat], NEW n \in Nat
  PROVE  \E g : IsCourse(step, n, g)
<1> DEFINE Without == {m \in Nat : ~\E g : IsCourse(step, m, g)}
<1>1. Without = {}
  <2> SUFFICES ASSUME Without # {} PROVE FALSE
    OBVIOUS
  <2>1. PICK m \in Without : \A k \in Without : m <= k
    BY LeastOfNaturals
  <2>2. CASE m = 0
    <3> DEFINE g == [k \in 0..0 |-> 0]
    <3>1. IsCourse(step, 0, g)
      BY DEF IsCourse
    <3> QED
      BY <2>2, <3>1
  <2>3. CASE m # 0
    <3>1. m - 1 \in Nat /\ (m - 1) + 1 = m /\ ~(m <= m - 1) /\ m \in Nat
      BY <2>3
    <3>2. \E g : IsCourse(step, m - 1, g)
      BY <2>1, <3>1
    <3>3. \E h : IsCourse(step, (m - 1) + 1, h)
      BY <3>1, <3>2, CourseExtends
    <3> QED
      BY <3>1, <3>3
  <2> QED
    BY <2>2, <2>3
<1> QED
  BY <1>1

-----------------------------------------------------------------------------
(* The incumbent                                                           *)

Scored(rs, i) == rs[i].score # NoScore

(* No score is exactly zero, which the code reads as minus infinity.       *)
ProperScores(rs) ==
  Len(rs) \in Nat /\ \A i \in 1..Len(rs) : Scored(rs, i) => rs[i].score \in Int \ {0}

(* The first of the best scored among the first n results; 0 if none is.   *)
IsIncumbent(rs, n, b) ==
  /\ b \in 0..n
  /\ b = 0 => \A i \in 1..n : ~Scored(rs, i)
  /\ b # 0 => /\ Scored(rs, b)
              /\ \A i \in 1..n : Scored(rs, i) => rs[i].score <= rs[b].score
              /\ \A i \in 1..(b - 1) : Scored(rs, i) => rs[i].score < rs[b].score

Replaces(rs, n, b) == Scored(rs, n) /\ (b # 0 => Beats(rs[n].score, rs[b].score))

BestAt(rs, g, n) ==
  IF n = 0 THEN 0 ELSE IF Replaces(rs, n, g[n - 1]) THEN n ELSE g[n - 1]

FindsBest(rs, g) == g = [n \in 0..Len(rs) |-> BestAt(rs, g, n)]

LEMMA BestScoredIsFound ==
  ASSUME NEW rs, Len(rs) \in Nat
  PROVE  \E g : FindsBest(rs, g) /\ BestScored(rs) = g[Len(rs)]
<1> DEFINE step == [q \in Nat \X Nat |-> IF Replaces(rs, q[1], q[2]) THEN q[1] ELSE q[2]]
           n == Len(rs)
<1>1. step \in [Nat \X Nat -> Nat] /\ n \in Nat
  OBVIOUS
<1>2. \A k, b \in Nat : step[<<k, b>>] = IF Replaces(rs, k, b) THEN k ELSE b
  OBVIOUS
<1> HIDE DEF step, n
<1>3. PICK g : IsCourse(step, n, g)
  BY <1>1, CourseExists
<1>4. FindsBest(rs, g)
  <2>1. g \in [0..n -> Nat] /\ g[0] = 0 /\ \A k \in 1..n : g[k] = step[<<k, g[k - 1]>>]
    BY <1>3 DEF IsCourse
  <2>2. ASSUME NEW k \in 0..n PROVE g[k] = BestAt(rs, g, k)
    <3>1. CASE k = 0
      BY <2>1, <3>1 DEF BestAt
    <3>2. CASE k # 0
      <4>1. k \in 1..n /\ k \in Nat /\ k - 1 \in 0..n
        BY <1>1, <3>2
      <4>2. g[k - 1] \in Nat /\ g[k] = step[<<k, g[k - 1]>>]
        BY <2>1, <4>1
      <4> QED
        BY <1>2, <3>2, <4>1, <4>2 DEF BestAt
    <3> QED
      BY <3>1, <3>2
  <2>3. g = [k \in 0..n |-> g[k]]
    BY <2>1
  <2> QED
    BY <2>2, <2>3 DEF FindsBest, n
<1>5. FindsBest(rs, CHOOSE h : FindsBest(rs, h))
  BY <1>4, Zenon
<1>6. BestScored(rs) = (CHOOSE h : FindsBest(rs, h))[Len(rs)]
  BY Zenon DEF BestScored, FindsBest, BestAt, Replaces, Scored
<1> QED
  BY <1>5, <1>6, Zenon

(* A result that beats the incumbent is the next one, any other is not.    *)
LEMMA IncumbentNext ==
  ASSUME NEW rs, ProperScores(rs), NEW n \in 1..Len(rs), NEW b, IsIncumbent(rs, n - 1, b)
  PROVE  /\ Replaces(rs, n, b) <=> Scored(rs, n) /\ (b # 0 => rs[n].score > rs[b].score)
         /\ IsIncumbent(rs, n, IF Replaces(rs, n, b) THEN n ELSE b)
<1>1. /\ n \in Nat \ {0} /\ Len(rs) \in Nat /\ b \in 0..(n - 1) /\ b \in Nat /\ b # n
      /\ n - 1 \in Nat /\ \A i \in 1..n : i # n => i \in 1..(n - 1)
  BY DEF ProperScores, IsIncumbent
<1>2. b # 0 => b \in 1..(n - 1) /\ b \in 1..n /\ b \in 1..Len(rs)
  BY <1>1
<1>3. \A i \in 1..n : Scored(rs, i) => rs[i].score \in Int \ {0}
  BY <1>1 DEF ProperScores
<1>4. /\ b = 0 => \A i \in 1..(n - 1) : ~Scored(rs, i)
      /\ b # 0 => /\ Scored(rs, b)
                  /\ \A i \in 1..(n - 1) : Scored(rs, i) => rs[i].score <= rs[b].score
                  /\ \A i \in 1..(b - 1) : Scored(rs, i) => rs[i].score < rs[b].score
  BY DEF IsIncumbent
<1>5. Replaces(rs, n, b) <=> Scored(rs, n) /\ (b # 0 => rs[n].score > rs[b].score)
  BY <1>2, <1>3, <1>4 DEF Replaces, Beats
<1>6. CASE Replaces(rs, n, b)
  <2>1. Scored(rs, n) /\ rs[n].score \in Int
    BY <1>1, <1>3, <1>5, <1>6
  <2>2. ASSUME NEW i \in 1..(n - 1), Scored(rs, i) PROVE rs[i].score < rs[n].score
    <3>1. b # 0 /\ i \in 1..n
      BY <1>1, <1>4, <2>2
    <3>2. rs[i].score <= rs[b].score /\ rs[n].score > rs[b].score
      BY <1>4, <1>5, <1>6, <2>2, <3>1
    <3>3. rs[i].score \in Int /\ rs[b].score \in Int
      BY <1>2, <1>3, <1>4, <2>2, <3>1
    <3> QED
      BY <2>1, <3>2, <3>3
  <2>3. \A i \in 1..n : Scored(rs, i) => rs[i].score <= rs[n].score
    <3> SUFFICES ASSUME NEW i \in 1..n, Scored(rs, i) PROVE rs[i].score <= rs[n].score
      OBVIOUS
    <3>1. CASE i = n
      BY <2>1, <3>1
    <3>2. CASE i # n
      <4>1. rs[i].score < rs[n].score /\ rs[i].score \in Int
        BY <1>1, <1>3, <2>2, <3>2
      <4> QED
        BY <2>1, <4>1
    <3> QED
      BY <3>1, <3>2
  <2>4. n \in 0..n /\ n # 0
    BY <1>1
  <2>5. IsIncumbent(rs, n, n)
    BY <2>1, <2>2, <2>3, <2>4 DEF IsIncumbent
  <2> QED
    BY <1>5, <1>6, <2>5
<1>7. CASE ~Replaces(rs, n, b)
  <2>1. b \in 0..n
    BY <1>1
  <2>2. b = 0 => \A i \in 1..n : ~Scored(rs, i)
    BY <1>1, <1>4, <1>5, <1>7
  <2>3. b # 0 => \A i \in 1..n : Scored(rs, i) => rs[i].score <= rs[b].score
    <3> SUFFICES ASSUME b # 0, NEW i \in 1..n, Scored(rs, i) PROVE rs[i].score <= rs[b].score
      OBVIOUS
    <3>1. CASE i = n
      <4>1. ~(rs[n].score > rs[b].score) /\ rs[n].score \in Int /\ rs[b].score \in Int
        BY <1>2, <1>3, <1>4, <1>5, <1>7, <3>1
      <4> QED
        BY <3>1, <4>1
    <3>2. CASE i # n
      BY <1>1, <1>4, <3>2
    <3> QED
      BY <3>1, <3>2
  <2>4. IsIncumbent(rs, n, b)
    BY <1>4, <2>1, <2>2, <2>3 DEF IsIncumbent
  <2> QED
    BY <1>5, <1>7, <2>4
<1> QED
  BY <1>6, <1>7

LEMMA BestScoredIsIncumbent ==
  ASSUME NEW rs, ProperScores(rs)
  PROVE  IsIncumbent(rs, Len(rs), BestScored(rs))
<1>1. Len(rs) \in Nat
  BY DEF ProperScores
<1>2. PICK g : FindsBest(rs, g) /\ BestScored(rs) = g[Len(rs)]
  BY <1>1, BestScoredIsFound
<1>3. \A k \in 0..Len(rs) : g[k] = BestAt(rs, g, k)
  BY <1>2 DEF FindsBest
<1> DEFINE Wrong == {k \in 0..Len(rs) : ~IsIncumbent(rs, k, g[k])}
<1>4. Wrong = {}
  <2> SUFFICES ASSUME Wrong # {} PROVE FALSE
    OBVIOUS
  <2>1. Wrong \subseteq Nat
    BY <1>1
  <2>2. PICK k \in Wrong : \A j \in Wrong : k <= j
    BY <2>1, LeastOfNaturals
  <2>3. CASE k = 0
    <3>1. g[0] = 0
      BY <1>1, <1>3 DEF BestAt
    <3>2. IsIncumbent(rs, 0, 0)
      BY DEF IsIncumbent
    <3> QED
      BY <2>3, <3>1, <3>2
  <2>4. CASE k # 0
    <3>1. k \in 1..Len(rs) /\ k - 1 \in 0..Len(rs) /\ ~(k <= k - 1)
      BY <1>1, <2>4
    <3>2. IsIncumbent(rs, k - 1, g[k - 1])
      BY <2>2, <3>1
    <3>3. g[k] = IF Replaces(rs, k, g[k - 1]) THEN k ELSE g[k - 1]
      BY <1>3, <2>4 DEF BestAt
    <3>4. IsIncumbent(rs, k, IF Replaces(rs, k, g[k - 1]) THEN k ELSE g[k - 1])
      BY <3>1, <3>2, IncumbentNext
    <3> QED
      BY <3>3, <3>4
  <2> QED
    BY <2>3, <2>4
<1>5. Len(rs) \in 0..Len(rs)
  BY <1>1
<1> QED
  BY <1>2, <1>4, <1>5

LEMMA IncumbentCarries ==
  ASSUME NEW n \in Nat, NEW rs, NEW ss, \A i \in 1..n : ss[i] = rs[i],
         NEW b, IsIncumbent(rs, n, b)
  PROVE  IsIncumbent(ss, n, b)
<1>1. b \in 0..n /\ (b # 0 => b \in 1..n) /\ \A i \in 1..(b - 1) : i \in 1..n
  BY DEF IsIncumbent
<1> QED
  BY <1>1 DEF IsIncumbent, Scored

SoundDecision(rs, d) ==
  /\ d.iteration \in 1..Len(rs)
  /\ IsIncumbent(rs, d.iteration, d.kept)
  /\ d.keep \in BOOLEAN /\ (d.keep <=> d.kept = d.iteration)

LEMMA DecisionIsSound ==
  ASSUME IsSequence(results), ProperScores(results), Len(results) = pad.iteration,
         Len(results) > 0, NEW proposed, NEW selected
  PROVE  SoundDecision(results, Decision(proposed, selected))
<1> DEFINE n == Len(results)
           f == Front(results)
           d == Decision(proposed, selected)
<1>1. n \in Nat /\ n > 0 /\ n - 1 \in Nat /\ n \in 1..n
  BY DEF ProperScores
<1>2. Len(f) = n - 1 /\ \A i \in 1..(n - 1) : f[i] = results[i]
  BY <1>1 DEF Front, IsSequence
<1>3. Last(results) = results[n]
  BY DEF Last
<1> HIDE DEF f
<1>4. ProperScores(f)
  BY <1>1, <1>2 DEF ProperScores, Scored
<1>5. IsIncumbent(f, n - 1, BestScored(f))
  BY <1>2, <1>4, BestScoredIsIncumbent
<1> DEFINE b == BestScored(f)
<1>6. IsIncumbent(results, n - 1, b)
  BY <1>1, <1>2, <1>5, IncumbentCarries
<1>7. d.iteration = n /\ d.keep = (results[n].score # NoScore /\ (b # 0 => results[n].score > results[b].score))
      /\ d.kept = IF d.keep THEN n ELSE b
  BY <1>3 DEF Decision, f
<1> HIDE DEF b, d
<1>8. /\ Replaces(results, n, b) <=> Scored(results, n) /\ (b # 0 => results[n].score > results[b].score)
      /\ IsIncumbent(results, n, IF Replaces(results, n, b) THEN n ELSE b)
  BY <1>1, <1>6, IncumbentNext
<1>9. d.keep <=> Replaces(results, n, b)
  BY <1>7, <1>8 DEF Scored
<1>10. b \in 0..(n - 1) /\ b # n
  BY <1>1, <1>6 DEF IsIncumbent
<1>11. d.keep \in BOOLEAN
  BY <1>7
<1>12. IsIncumbent(results, n, d.kept) /\ (d.keep <=> d.kept = n)
  <2>1. CASE d.keep
    BY <1>7, <1>8, <1>9, <2>1
  <2>2. CASE ~d.keep
    BY <1>7, <1>8, <1>9, <1>10, <2>2
  <2> QED
    BY <2>1, <2>2
<1>13. SoundDecision(results, d)
  BY <1>1, <1>7, <1>11, <1>12 DEF SoundDecision
<1> QED
  BY <1>13 DEF d

(* Every decision named the incumbent of its iteration.                    *)
Incumbents ==
  /\ ProperScores(results)
  /\ pc = "refine" => Len(results) > 0
  /\ \A i \in DOMAIN decisions : SoundDecision(results, decisions[i])

(* The scores a validation may report, and none of them is zero.           *)
NeverZero == \A m \in Modes : \A o \in Outcomes[m] : o.score # 0

ProperScore(o) == o.score # NoScore => o.score \in Int \ {0}

LEMMA ResultAdded ==
  ASSUME Shapes, Incumbents, NEW o, ProperScore(o), results' = Append(results, o),
         decisions' = decisions
  PROVE  Incumbents'
<1> DEFINE n == Len(results)
<1>1. /\ Len(results') = n + 1 /\ n \in Nat /\ results'[n + 1] = o
      /\ \A i \in 1..n : results'[i] = results[i]
  BY AppendToSequence DEF Shapes
<1>2. ProperScores(results')
  <2> SUFFICES ASSUME NEW i \in 1..(n + 1), Scored(results', i)
               PROVE  results'[i].score \in Int \ {0}
    BY <1>1 DEF ProperScores
  <2>1. CASE i = n + 1
    BY <1>1, <2>1 DEF ProperScore, Scored
  <2>2. CASE i # n + 1
    <3>1. i \in 1..n /\ results'[i] = results[i]
      BY <1>1, <2>2
    <3> QED
      BY <3>1 DEF Incumbents, ProperScores, Scored
  <2> QED
    BY <2>1, <2>2
<1>3. ASSUME NEW i \in DOMAIN decisions PROVE SoundDecision(results', decisions[i])
  <2> DEFINE d == decisions[i]
  <2>1. d.iteration \in 1..n /\ IsIncumbent(results, d.iteration, d.kept)
        /\ d.keep \in BOOLEAN /\ (d.keep <=> d.kept = d.iteration)
    BY DEF Incumbents, SoundDecision
  <2> HIDE DEF d
  <2>2. d.iteration \in Nat /\ \A j \in 1..d.iteration : results'[j] = results[j]
    BY <1>1, <2>1
  <2>3. IsIncumbent(results', d.iteration, d.kept)
    BY <2>1, <2>2, IncumbentCarries
  <2>4. d.iteration \in 1..Len(results')
    BY <1>1, <2>1
  <2>5. SoundDecision(results', d)
    BY <2>1, <2>3, <2>4 DEF SoundDecision
  <2> QED
    BY <2>5 DEF d
<1> QED
  BY <1>1, <1>2, <1>3 DEF Incumbents

LEMMA IncumbentsHold ==
  ASSUME ResearchLoopAssumption, NeverZero, IInv, Incumbents, [Next]_vars
  PROVE  Incumbents'
<1>1. Shapes /\ Len(results) = pad.iteration /\ mode \in Modes
  BY DEF IInv, DecidedOnce, Shapes
<1>2. ASSUME UNCHANGED <<results, decisions>>, pc' = "refine" => pc = "refine"
      PROVE  Incumbents'
  BY <1>2 DEF Incumbents
<1>3. CASE Top
  BY <1>2, <1>3 DEF Top
<1>4. CASE ValidateReturns
  <2>1. PICK o \in Outcomes[mode] : results' = Append(results, o)
    BY <1>4 DEF ValidateReturns
  <2>2. o \in Outcome /\ o.score # 0
    BY <1>1, <2>1 DEF ResearchLoopAssumption, NeverZero
  <2>3. ProperScore(o)
    BY <2>2 DEF ProperScore, Outcome
  <2> QED
    BY <1>1, <1>4, <2>1, <2>3, ResultAdded DEF ValidateReturns
<1>5. CASE ValidateCrashes
  <2>1. ProperScore(Failed)
    BY DEF ProperScore, Failed
  <2> QED
    BY <1>1, <1>5, <2>1, ResultAdded DEF ValidateCrashes
<1>6. CASE RefineCrashes
  BY <1>2, <1>6 DEF RefineCrashes, Handle
<1>7. CASE Refine
  <2>1. pc = "refine" /\ results' = results
    BY <1>7 DEF Refine
  <2>2. pc' = "top"
    BY <1>7, Zenon DEF Refine, RefineWith, Handle
  <2>3. decisions' = decisions \/ \E p, c : decisions' = Append(decisions, Decision(p, c))
    BY <1>7, Zenon DEF Refine, RefineWith
  <2>4. CASE decisions' = decisions
    BY <1>2, <2>1, <2>2, <2>4
  <2>5. ASSUME NEW p, NEW c, decisions' = Append(decisions, Decision(p, c))
        PROVE  Incumbents'
    <3> DEFINE d == Decision(p, c)
    <3>1. SoundDecision(results, d)
      BY <1>1, <2>1, DecisionIsSound DEF Shapes, Incumbents
    <3> HIDE DEF d
    <3>2. /\ decisions' = Append(decisions, d)
          /\ Len(decisions) \in Nat /\ DOMAIN decisions = 1..Len(decisions)
          /\ DOMAIN decisions' = 1..Len(decisions) + 1
          /\ \A i \in DOMAIN decisions : decisions'[i] = decisions[i]
          /\ decisions'[Len(decisions) + 1] = d
      BY <1>1, <2>5, AppendToSequence DEF Shapes, d
    <3>3. \A i \in DOMAIN decisions' : SoundDecision(results, decisions'[i])
      <4> SUFFICES ASSUME NEW i \in DOMAIN decisions' PROVE SoundDecision(results, decisions'[i])
        OBVIOUS
      <4>1. CASE i = Len(decisions) + 1
        BY <3>1, <3>2, <4>1
      <4>2. CASE i # Len(decisions) + 1
        <5>1. i \in DOMAIN decisions
          BY <3>2, <4>2
        <5> QED
          BY <3>2, <5>1 DEF Incumbents
      <4> QED
        BY <4>1, <4>2
    <3> QED
      BY <2>1, <2>2, <3>3 DEF Incumbents
  <2> QED
    BY <2>3, <2>4, <2>5
<1>8. CASE Done \/ UNCHANGED vars
  BY <1>2, <1>8 DEF Done, vars
<1> QED
  BY <1>3, <1>4, <1>5, <1>6, <1>7, <1>8 DEF Next, Step

LEMMA InitIncumbents ==
  ASSUME Init
  PROVE  Incumbents
<1>1. results = <<>> /\ decisions = <<>> /\ pc = "top"
  BY DEF Init
<1>2. Len(<<>>) = 0 /\ DOMAIN <<>> = {}
  OBVIOUS
<1> QED
  BY <1>1, <1>2 DEF Incumbents, ProperScores

-----------------------------------------------------------------------------
(* The replay in git                                                       *)

Replay ==
  [pc : {"loop", "checkout", "execute", "executed", "blocked", "not_requested", "finished", "raised"},
   steps : Nat]

Repository == [head : Version, index : Version, commits : Seq(Nat)]

Files == [records : Version, reports : BOOLEAN]

(* The iterations that the first k decisions kept.                         *)
KeptBefore(k) == {decisions[j].iteration : j \in {i \in 1..k : decisions[i].keep}}

Increasing(s) == \A i, j \in DOMAIN s : i < j => s[i] < s[j]

AllHold(version) == git.head = version /\ git.index = version /\ disk.records = version

(* The commits are the keeps among the decisions executed; the record      *)
(* files are this run's until the first step, and everything is from a     *)
(* keep on.                                                                *)
GitInv ==
  /\ replay \in Replay /\ git \in Repository /\ disk \in Files
  /\ replay.pc # "loop" => pc = "stopped"
  /\ replay.pc \in {"loop", "checkout"} => replay.steps = 0
  /\ replay.steps <= Len(decisions)
  /\ replay.pc = "executed" => replay.steps = Len(decisions)
  /\ Range(git.commits) = KeptBefore(replay.steps) /\ Increasing(git.commits)
  /\ replay.pc \in {"checkout", "execute"} /\ replay.steps = 0 => disk.records = "this"
  /\ replay.pc \in {"execute", "executed"} /\ replay.steps > 0 /\ decisions[1].keep =>
       AllHold("this")

LEMMA DecisionsTyped ==
  ASSUME IInv, Incumbents
  PROVE  /\ Len(decisions) \in Nat /\ DOMAIN decisions = 1..Len(decisions)
         /\ \A i \in 1..Len(decisions) : decisions[i].iteration \in Nat /\ decisions[i].keep \in BOOLEAN
         /\ \A i, j \in 1..Len(decisions) : i < j => decisions[i].iteration < decisions[j].iteration
<1>1. Len(decisions) \in Nat /\ DOMAIN decisions = 1..Len(decisions)
  BY AppendToSequence DEF IInv, Shapes
<1> QED
  BY <1>1 DEF IInv, DecidedOnce, Incumbents, SoundDecision

LEMMA InitGitInv ==
  ASSUME GitInit
  PROVE  GitInv
<1>1. /\ replay = [pc |-> "loop", steps |-> 0]
      /\ git = [head |-> "none", index |-> "none", commits |-> <<>>]
      /\ disk = [records |-> "none", reports |-> FALSE]
      /\ decisions = <<>>
  BY DEF GitInit, Init
<1>2. <<>> \in Seq(Nat) /\ Len(<<>>) = 0 /\ DOMAIN <<>> = {}
  OBVIOUS
<1>3. Range(git.commits) = KeptBefore(replay.steps) /\ Increasing(git.commits)
  BY <1>1, <1>2 DEF Range, KeptBefore, Increasing
<1>4. replay \in Replay /\ git \in Repository /\ disk \in Files
  BY <1>1, <1>2 DEF Replay, Repository, Files, Version
<1> QED
  BY <1>1, <1>2, <1>3, <1>4 DEF GitInv

(* A step of the loop goes before the replay.                              *)
LEMMA LoopGitInv ==
  ASSUME IInv', GitInv, LoopStep
  PROVE  GitInv'
<1>1. UNCHANGED <<replay, git, disk>> /\ pc # "stopped"
  BY Zenon DEF LoopStep, gitVars, Step, Top, ValidateReturns, ValidateCrashes, Refine, RefineCrashes
<1>2. replay.pc = "loop" /\ replay.steps = 0
  BY <1>1 DEF GitInv
<1>3. (Range(git.commits) = KeptBefore(replay.steps) /\ Increasing(git.commits))'
  BY <1>1, <1>2 DEF GitInv, KeptBefore
<1>4. Len(decisions') \in Nat
  BY AppendToSequence DEF IInv, Shapes
<1> QED
  BY <1>1, <1>2, <1>3, <1>4 DEF GitInv

LEMMA WriteRecordsGitInv ==
  ASSUME IInv, GitInv, WriteRecords
  PROVE  GitInv'
<1>1. /\ pc = "stopped" /\ UNCHANGED vars /\ decisions' = decisions /\ pc' = pc
  BY DEF WriteRecords, vars
<1>2. PICK r \in [head : {"none", "earlier"}, index : {"none", "earlier"}, reports : BOOLEAN] :
        /\ disk' = [records |-> "this", reports |-> r.reports]
        /\ git' = [head |-> r.head, index |-> r.index, commits |-> <<>>]
  BY DEF WriteRecords, Remains, NoRemains
<1>3. PICK q \in {"auto", "git-native", "artifact-native"}, x \in {"open", "yes", "no"},
           available \in BOOLEAN, inside \in BOOLEAN :
        replay' = [pc |-> PlanStatus(q, available, x, inside), steps |-> 0]
  BY DEF WriteRecords
<1>4. PlanStatus(q, available, x, inside) \in {"checkout", "blocked", "not_requested"}
  BY <1>3 DEF PlanStatus, EffectiveMode
<1>5. <<>> \in Seq(Nat) /\ DOMAIN <<>> = {}
  OBVIOUS
<1>6. Range(<<>>) = {} /\ KeptBefore(0)' = {} /\ Increasing(<<>>)
  BY <1>5 DEF Range, KeptBefore, Increasing
<1>7. replay' \in Replay /\ replay'.steps = 0 /\ replay'.pc \in {"checkout", "blocked", "not_requested"}
  BY <1>3, <1>4 DEF Replay
<1>8. git' \in Repository /\ disk' \in Files /\ git'.commits = <<>> /\ disk'.records = "this"
  BY <1>2, <1>5 DEF Repository, Files, Version
<1>9. Len(decisions) \in Nat
  BY AppendToSequence DEF IInv, Shapes
<1> QED
  BY <1>1, <1>6, <1>7, <1>8, <1>9 DEF GitInv

(* Steps that execute no decision.                                         *)
LEMMA QuietGitInv ==
  ASSUME GitInv, replay' \in Replay, git' \in Repository, disk' \in Files,
         pc = "stopped" \/ replay.pc # "loop", UNCHANGED <<pc, decisions>>,
         replay'.steps = replay.steps, git'.commits = git.commits,
         \/ replay'.pc \in {"raised", "finished"}
         \/ /\ replay.pc \in {"checkout", "execute"} /\ replay'.pc \in {"execute", "executed"}
            /\ git' = git /\ disk'.records = disk.records
            /\ replay'.pc = "executed" => replay.steps = Len(decisions)
  PROVE  GitInv'
<1>1. KeptBefore(replay.steps)' = KeptBefore(replay.steps)
  BY DEF KeptBefore
<1>2. pc' = "stopped" /\ replay'.pc # "loop"
  BY DEF GitInv
<1>3. Range(git.commits)' = KeptBefore(replay.steps)' /\ Increasing(git.commits)'
  BY <1>1 DEF GitInv
<1> QED
  BY <1>2, <1>3 DEF GitInv, AllHold, Replay

LEMMA QuietStepGitInv ==
  ASSUME GitInv, CheckoutBranch \/ CommitFails \/ ResetFails \/ WriteReports
  PROVE  GitInv'
<1>1. replay \in Replay /\ git \in Repository /\ disk \in Files
  BY DEF GitInv
<1>2. DOMAIN replay = {"pc", "steps"}
  BY <1>1 DEF Replay
<1>3. CASE CheckoutBranch
  <2>1. /\ replay.pc = "checkout" /\ UNCHANGED <<vars, git, disk>>
        /\ replay' \in {[replay EXCEPT !.pc = "execute"], [replay EXCEPT !.pc = "raised"]}
    BY <1>3 DEF CheckoutBranch, Raised
  <2>2. replay' \in Replay /\ replay'.steps = replay.steps /\ replay'.pc \in {"execute", "raised"}
    BY <1>1, <2>1 DEF Replay
  <2> QED
    BY <1>1, <2>1, <2>2, QuietGitInv DEF vars
<1>4. CASE CommitFails \/ ResetFails
  <2>1. /\ replay.pc = "execute" /\ replay' = [replay EXCEPT !.pc = "raised"]
        /\ UNCHANGED <<vars, disk>> /\ (git' = Staged \/ git' = git)
    BY <1>4 DEF CommitFails, ResetFails, Executing, Raised
  <2>2. replay' \in Replay /\ replay'.steps = replay.steps /\ replay'.pc = "raised"
    BY <1>1, <2>1 DEF Replay
  <2>3. Staged \in Repository /\ Staged.commits = git.commits
    BY <1>1 DEF Staged, Repository, Files, Version
  <2> QED
    BY <1>1, <2>1, <2>2, <2>3, QuietGitInv DEF vars
<1>5. CASE WriteReports
  <2>1. /\ \/ replay.pc = "execute" /\ replay.steps = Len(decisions)
           \/ replay.pc \in {"blocked", "not_requested"}
        /\ replay' = [replay EXCEPT !.pc = IF replay.pc = "execute" THEN "executed" ELSE "finished"]
        /\ disk' = [disk EXCEPT !.reports = TRUE] /\ UNCHANGED <<vars, git>>
    BY <1>5 DEF WriteReports
  <2>2. /\ replay' \in Replay /\ replay'.steps = replay.steps
        /\ replay'.pc = IF replay.pc = "execute" THEN "executed" ELSE "finished"
    BY <1>1, <2>1 DEF Replay
  <2>3. disk' \in Files /\ disk'.records = disk.records
    BY <1>1, <2>1 DEF Files
  <2> QED
    BY <1>1, <2>1, <2>2, <2>3, QuietGitInv DEF vars
<1> QED
  BY <1>3, <1>4, <1>5

(* One more decision is executed.                                          *)
LEMMA KeptBeforeNext ==
  ASSUME NEW k \in Nat
  PROVE  KeptBefore(k + 1) = IF decisions[k + 1].keep
                             THEN KeptBefore(k) \cup {decisions[k + 1].iteration}
                             ELSE KeptBefore(k)
<1>1. 1..(k + 1) = 1..k \cup {k + 1}
  OBVIOUS
<1>2. {i \in 1..(k + 1) : decisions[i].keep}
        = {i \in 1..k : decisions[i].keep} \cup {i \in {k + 1} : decisions[i].keep}
  BY <1>1
<1> QED
  BY <1>2 DEF KeptBefore

LEMMA CommitGitInv ==
  ASSUME IInv, Incumbents, GitInv, CommitCandidate
  PROVE  GitInv'
<1> DEFINE n == replay.steps
           d == decisions[n + 1]
<1>1. replay \in Replay /\ git \in Repository /\ disk \in Files
  BY DEF GitInv
<1>2. n \in Nat /\ DOMAIN replay = {"pc", "steps"}
  BY <1>1 DEF Replay
<1>3. /\ replay.pc = "execute" /\ n < Len(decisions) /\ d.keep = TRUE /\ disk.records # "none"
      /\ git' = [Staged EXCEPT !.head = disk.records, !.commits = Append(@, d.iteration)]
      /\ replay' = [replay EXCEPT !.steps = @ + 1]
      /\ UNCHANGED <<vars, disk>>
  BY DEF CommitCandidate, Executing, NextDecision, AddFails, Executed
<1>4. n + 1 \in 1..Len(decisions) /\ d.iteration \in Nat
  BY <1>2, <1>3, DecisionsTyped
<1>5. replay' \in Replay /\ replay'.steps = n + 1 /\ replay'.pc = "execute"
  BY <1>1, <1>2, <1>3 DEF Replay
<1> DEFINE s == git.commits
<1>6. s \in Seq(Nat) /\ DOMAIN git = {"head", "index", "commits"}
  BY <1>1 DEF Repository
<1>7. /\ git'.head = disk.records /\ git'.index = disk.records
      /\ git'.commits = Append(s, d.iteration) /\ git' \in Repository
  <2>1. Staged = [git EXCEPT !.index = disk.records]
    BY <1>3 DEF Staged
  <2>2. Append(s, d.iteration) \in Seq(Nat)
    BY <1>4, <1>6
  <2>3. disk.records \in Version
    BY <1>1 DEF Files
  <2> HIDE DEF s
  <2>4. git.commits = s
    BY DEF s
  <2> HIDE DEF d
  <2> QED
    BY <1>1, <1>3, <2>1, <2>2, <2>3, <2>4 DEF Repository
<1> HIDE DEF s
<1>8. Range(s) = KeptBefore(n) /\ Increasing(s)
  BY DEF GitInv, s
<1>9. (Range(git.commits) = KeptBefore(replay.steps))'
  <2>1. Range(Append(s, d.iteration)) = Range(s) \cup {d.iteration}
    <3> HIDE DEF d
    <3>1. /\ DOMAIN s = 1..Len(s) /\ Len(s) \in Nat
          /\ DOMAIN Append(s, d.iteration) = 1..(Len(s) + 1)
          /\ \A i \in 1..Len(s) : Append(s, d.iteration)[i] = s[i]
          /\ Append(s, d.iteration)[Len(s) + 1] = d.iteration
      BY <1>4, <1>6
    <3>2. 1..(Len(s) + 1) = 1..Len(s) \cup {Len(s) + 1}
      BY <3>1
    <3> QED
      BY <3>1, <3>2 DEF Range
  <2>2. KeptBefore(n + 1) = KeptBefore(n) \cup {d.iteration}
    BY <1>2, <1>3, KeptBeforeNext
  <2>3. KeptBefore(replay.steps)' = KeptBefore(n + 1)
    BY <1>3, <1>5 DEF KeptBefore, vars
  <2> QED
    BY <1>7, <1>8, <2>1, <2>2, <2>3
<1>10. Increasing(git.commits)'
  <2>1. ASSUME NEW c \in Range(s) PROVE c < d.iteration
    <3>1. PICK j \in 1..n : c = decisions[j].iteration
      BY <1>8, <2>1 DEF KeptBefore
    <3>2. j \in 1..Len(decisions) /\ j < n + 1
      BY <1>2, <1>4
    <3> QED
      BY <1>4, <3>1, <3>2, DecisionsTyped
  <2> DEFINE t == Append(s, d.iteration)
  <2>2. /\ DOMAIN s = 1..Len(s) /\ Len(s) \in Nat /\ DOMAIN t = 1..(Len(s) + 1)
        /\ \A i \in 1..Len(s) : t[i] = s[i] /\ s[i] \in Range(s)
        /\ t[Len(s) + 1] = d.iteration
    <3> HIDE DEF d
    <3> QED
      BY <1>4, <1>6 DEF Range
  <2> HIDE DEF t, d
  <2>3. ASSUME NEW i \in DOMAIN t, NEW j \in DOMAIN t, i < j PROVE t[i] < t[j]
    <3>1. i \in 1..Len(s)
      BY <2>2, <2>3
    <3>2. CASE j = Len(s) + 1
      BY <2>1, <2>2, <3>1, <3>2
    <3>3. CASE j # Len(s) + 1
      <4>1. j \in 1..Len(s)
        BY <2>2, <3>3
      <4> QED
        BY <1>8, <2>2, <2>3, <3>1, <4>1 DEF Increasing
    <3> QED
      BY <3>2, <3>3
  <2>4. git'.commits = t
    BY <1>7 DEF t
  <2> QED
    BY <2>3, <2>4 DEF Increasing
<1>11. decisions[1].keep => AllHold("this")'
  <2>1. CASE n = 0
    <3>1. disk.records = "this"
      BY <1>3, <2>1 DEF GitInv
    <3> QED
      BY <1>3, <1>7, <3>1 DEF AllHold
  <2>2. CASE n # 0
    <3>1. decisions[1].keep => disk.records = "this"
      BY <1>2, <1>3, <2>2 DEF GitInv, AllHold
    <3> QED
      BY <1>3, <1>7, <3>1 DEF AllHold
  <2> QED
    BY <2>1, <2>2
<1>12. n + 1 <= Len(decisions)
  BY <1>4
<1>13. pc = "stopped" /\ pc' = pc /\ decisions' = decisions /\ disk' = disk
  BY <1>3 DEF GitInv, vars
<1> HIDE DEF n, d
<1>14. replay'.steps # 0
  BY <1>2, <1>5
<1> QED
  BY <1>1, <1>5, <1>7, <1>9, <1>10, <1>11, <1>12, <1>13, <1>14 DEF GitInv

LEMMA ResetGitInv ==
  ASSUME IInv, Incumbents, GitInv, ResetToIncumbent
  PROVE  GitInv'
<1> DEFINE n == replay.steps
<1>1. replay \in Replay /\ git \in Repository /\ disk \in Files
  BY DEF GitInv
<1>2. n \in Nat /\ DOMAIN replay = {"pc", "steps"}
  BY <1>1 DEF Replay
<1>3. /\ replay.pc = "execute" /\ n < Len(decisions) /\ decisions[n + 1].keep = FALSE
      /\ disk' = [disk EXCEPT !.records = git.head] /\ git' = [git EXCEPT !.index = git.head]
      /\ replay' = [replay EXCEPT !.steps = @ + 1]
      /\ UNCHANGED vars
  BY DEF ResetToIncumbent, Executing, NextDecision, Executed
<1>4. replay' \in Replay /\ replay'.steps = n + 1 /\ replay'.pc = "execute"
  BY <1>1, <1>2, <1>3 DEF Replay
<1>5. /\ git' \in Repository /\ git'.commits = git.commits
      /\ git'.head = git.head /\ git'.index = git.head
  BY <1>1, <1>3 DEF Repository
<1>6. disk' \in Files /\ disk'.records = git.head
  BY <1>1, <1>3 DEF Files, Repository
<1>7. pc = "stopped" /\ pc' = pc /\ decisions' = decisions
  BY <1>3 DEF GitInv, vars
<1>8. (Range(git.commits) = KeptBefore(replay.steps) /\ Increasing(git.commits))'
  <2>1. KeptBefore(n + 1) = KeptBefore(n)
    BY <1>2, <1>3, KeptBeforeNext
  <2>2. KeptBefore(replay.steps)' = KeptBefore(n + 1)
    BY <1>4, <1>7 DEF KeptBefore
  <2>3. Range(git.commits) = KeptBefore(n) /\ Increasing(git.commits)
    BY DEF GitInv
  <2> QED
    BY <1>5, <2>1, <2>2, <2>3 DEF Increasing
<1>9. decisions[1].keep => AllHold("this")'
  <2>1. CASE n = 0
    BY <1>3, <2>1
  <2>2. CASE n # 0
    <3>1. decisions[1].keep => git.head = "this"
      BY <1>2, <1>3, <2>2 DEF GitInv, AllHold
    <3> QED
      BY <1>5, <1>6, <3>1 DEF AllHold
  <2> QED
    BY <2>1, <2>2
<1>10. n + 1 <= Len(decisions) /\ n + 1 # 0
  BY <1>2, <1>3, DecisionsTyped
<1> QED
  BY <1>4, <1>5, <1>6, <1>7, <1>8, <1>9, <1>10 DEF GitInv

LEMMA GitStepHolds ==
  ASSUME IInv, IInv', Incumbents, GitInv, [GitNext]_<<vars, gitVars>>
  PROVE  GitInv'
<1>1. CASE LoopStep
  BY <1>1, LoopGitInv
<1>2. CASE WriteRecords
  BY <1>2, WriteRecordsGitInv
<1>3. CASE CheckoutBranch \/ CommitFails \/ ResetFails \/ WriteReports
  BY <1>3, QuietStepGitInv
<1>4. CASE CommitCandidate
  BY <1>4, CommitGitInv
<1>5. CASE ResetToIncumbent
  BY <1>5, ResetGitInv
<1>6. CASE GitDone \/ UNCHANGED <<vars, gitVars>>
  <2>1. UNCHANGED <<vars, gitVars>>
    BY <1>6 DEF GitDone
  <2>2. /\ pc' = pc /\ decisions' = decisions /\ replay' = replay /\ git' = git /\ disk' = disk
    BY <2>1 DEF vars, gitVars
  <2> QED
    BY <2>2 DEF GitInv, KeptBefore, AllHold
<1> QED
  BY <1>1, <1>2, <1>3, <1>4, <1>5, <1>6 DEF GitNext, GitStep

-----------------------------------------------------------------------------
(* Incumbent and branch                                                    *)

Decided == IInv /\ Incumbents /\ GitInv

LEMMA DecidedStep ==
  ASSUME ResearchLoopAssumption, NeverZero, Decided, [GitNext]_<<vars, gitVars>>
  PROVE  Decided'
<1>1. [Next]_vars /\ IInv /\ Incumbents /\ GitInv
  BY GitStepIsLoopStep DEF Decided
<1>2. IInv'
  BY <1>1, StepHolds
<1>3. Incumbents'
  BY <1>1, IncumbentsHold
<1>4. GitInv'
  BY <1>1, <1>2, GitStepHolds
<1> QED
  BY <1>2, <1>3, <1>4 DEF Decided

LEMMA AlwaysDecided ==
  ASSUME NeverZero
  PROVE  GitSpec => []Decided
<1>1. GitInit => Decided
  BY ResearchLoopAssumption, InitHolds, InitIncumbents, InitGitInv DEF GitInit, Decided
<1>2. Decided /\ [GitNext]_<<vars, gitVars>> => Decided'
  BY ResearchLoopAssumption, DecidedStep
<1> QED
  BY <1>1, <1>2, PTL DEF GitSpec

(* With scores that are not exactly zero, whatever crashes and whatever    *)
(* the iterations score, the incumbent after each decision is the best     *)
(* result so far, and a candidate is kept exactly if it is that result     *)
(* (_best_scored_result, _build_karpathy_summary).                         *)
THEOREM IncumbentAlwaysBest ==
  ASSUME NeverZero
  PROVE  GitSpec => []IncumbentIsBest
<1>1. Incumbents => IncumbentIsBest
  <2> SUFFICES ASSUME Incumbents, NEW i \in DOMAIN decisions
               PROVE  LET d == decisions[i]
                          scored == {j \in 1..d.iteration : results[j].score # NoScore}
                      IN /\ d.kept = 0 <=> scored = {}
                         /\ d.kept # 0 => \A j \in scored : results[j].score <= results[d.kept].score
                         /\ d.keep <=> d.kept = d.iteration
    BY DEF IncumbentIsBest, Range
  <2> DEFINE d == decisions[i]
  <2>1. IsIncumbent(results, d.iteration, d.kept) /\ (d.keep <=> d.kept = d.iteration)
        /\ d.iteration \in 1..Len(results) /\ Len(results) \in Nat
    BY DEF Incumbents, SoundDecision, ProperScores
  <2> HIDE DEF d
  <2>2. d.kept # 0 => d.kept \in 1..d.iteration
    BY <2>1 DEF IsIncumbent
  <2>3. /\ d.kept = 0 <=> {j \in 1..d.iteration : results[j].score # NoScore} = {}
        /\ d.kept # 0 => \A j \in {k \in 1..d.iteration : results[k].score # NoScore} :
             results[j].score <= results[d.kept].score
    BY <2>1, <2>2 DEF IsIncumbent, Scored
  <2> QED
    BY <2>1, <2>3 DEF d
<1> QED
  BY <1>1, AlwaysDecided, PTL DEF Decided

(* The last decision's incumbent, if a decision was taken on it, was kept  *)
(* by that decision, and no later result was kept.                         *)
LEMMA IncumbentIsLastKeep ==
  ASSUME Decided, decisions # <<>>,
         NEW d, d = decisions[Len(decisions)],
         NEW i \in 1..Len(decisions), decisions[i].iteration = d.kept
  PROVE  /\ decisions[i].keep
         /\ \A j \in 1..Len(decisions) : decisions[j].keep => decisions[j].iteration <= d.kept
<1> DEFINE n == Len(decisions)
           b == d.kept
           last == d.iteration
<1>1. /\ n \in Nat /\ n \in 1..n
      /\ DOMAIN decisions = 1..n
      /\ \A j, k \in 1..n : j < k => decisions[j].iteration < decisions[k].iteration
      /\ \A j \in 1..n : decisions[j].iteration \in Nat
  BY DecisionsTyped DEF Decided
<1>2. \A j \in 1..n : SoundDecision(results, decisions[j])
  BY <1>1 DEF Decided, Incumbents
<1>3. \A k \in 1..Len(results) : Scored(results, k) => results[k].score \in Int
  BY DEF Decided, Incumbents, ProperScores
<1>4. IsIncumbent(results, last, b) /\ last \in 1..Len(results) /\ Len(results) \in Nat
  BY <1>1, <1>2 DEF SoundDecision, Decided, Incumbents, ProperScores
<1>5. IsIncumbent(results, b, decisions[i].kept) /\ b \in 1..Len(results)
      /\ (decisions[i].keep <=> decisions[i].kept = b)
  BY <1>2 DEF SoundDecision
<1> HIDE DEF b, last, n
<1>6. /\ b # 0 /\ b \in Nat /\ b <= last /\ last \in Nat /\ b \in 1..last /\ b \in 1..b
      /\ Scored(results, b) /\ results[b].score \in Int
  BY <1>3, <1>4, <1>5 DEF IsIncumbent
<1>7. decisions[i].kept = b
  <2> DEFINE c == decisions[i].kept
  <2> HIDE DEF c
  <2>1. IsIncumbent(results, b, c)
    BY <1>5 DEF c
  <2>2. c # 0 /\ c \in 1..b /\ c \in 1..Len(results) /\ c \in 1..last
    BY <1>4, <1>5, <1>6, <2>1 DEF IsIncumbent
  <2>3. results[b].score <= results[c].score /\ Scored(results, c)
    BY <1>6, <2>1, <2>2 DEF IsIncumbent
  <2>4. ASSUME c < b PROVE FALSE
    <3>1. c \in 1..(b - 1)
      BY <1>6, <2>2, <2>4
    <3>2. results[c].score < results[b].score
      BY <1>4, <1>6, <2>3, <3>1 DEF IsIncumbent
    <3>3. results[c].score \in Int
      BY <1>3, <2>2, <2>3
    <3> QED
      BY <1>6, <2>3, <3>2, <3>3
  <2>5. c = b
    BY <1>6, <2>2, <2>4
  <2> QED
    BY <2>5 DEF c
<1>8. ASSUME NEW j \in 1..n, decisions[j].keep PROVE decisions[j].iteration <= b
  <2> DEFINE c == decisions[j].iteration
  <2>1. IsIncumbent(results, c, c) /\ c \in 1..Len(results) /\ c \in Nat
    BY <1>1, <1>2, <1>8 DEF SoundDecision
  <2>2. c <= last
    <3>1. j < n \/ j = n
      BY <1>1
    <3>2. last = decisions[n].iteration /\ last \in Nat
      BY <1>6 DEF last, n
    <3> QED
      BY <1>1, <2>1, <3>1, <3>2
  <2> HIDE DEF c
  <2>3. ASSUME c > b PROVE FALSE
    <3>1. Scored(results, c) /\ b \in 1..(c - 1) /\ c \in 1..last
      BY <1>6, <2>1, <2>2, <2>3 DEF IsIncumbent
    <3>2. results[b].score < results[c].score
      BY <1>6, <2>1, <2>3, <3>1 DEF IsIncumbent
    <3>3. results[c].score <= results[b].score
      BY <1>4, <1>6, <3>1 DEF IsIncumbent
    <3>4. results[c].score \in Int
      BY <1>3, <2>1, <3>1
    <3> QED
      BY <1>6, <3>2, <3>3, <3>4
  <2>4. c <= b
    BY <1>6, <2>1, <2>3
  <2> QED
    BY <2>4 DEF c
<1> QED
  BY <1>5, <1>7, <1>8 DEF b, n

LEMMA BranchFollows ==
  ASSUME Decided
  PROVE  ReplayFollowsLoop
<1> DEFINE n == Len(decisions)
           committed == Range(git.commits)
<1>1. /\ n \in Nat /\ DOMAIN decisions = 1..n
      /\ \A j, k \in 1..n : j < k => decisions[j].iteration < decisions[k].iteration
      /\ \A j \in 1..n : decisions[j].iteration \in Nat
  BY DecisionsTyped DEF Decided
<1>2. KeptIterations = KeptBefore(n)
  BY <1>1 DEF KeptIterations, KeptBefore, Range
<1>3. /\ committed = KeptBefore(replay.steps) /\ replay.steps \in Nat /\ replay.steps <= n
      /\ Increasing(git.commits)
  BY DEF Decided, GitInv, Replay
<1>4. KeptBefore(replay.steps) \subseteq KeptBefore(n)
  BY <1>1, <1>3 DEF KeptBefore
<1>5. ASSUME NEW i \in KeptIterations, NEW c \in committed, i < c
      PROVE  i \in committed
  <2>1. PICK a \in 1..n : decisions[a].keep /\ i = decisions[a].iteration
    BY <1>2, <1>5 DEF KeptBefore
  <2>2. PICK k \in 1..replay.steps : c = decisions[k].iteration
    BY <1>3, <1>5 DEF KeptBefore
  <2>3. k \in 1..n
    BY <1>1, <1>3
  <2>4. a < k
    <3>1. ~(k < a) /\ a # k
      BY <1>1, <1>5, <2>1, <2>2, <2>3
    <3> QED
      BY <1>1, <2>3, <3>1
  <2>5. a \in 1..replay.steps
    BY <1>1, <1>3, <2>3, <2>4
  <2> QED
    BY <1>3, <2>1, <2>5 DEF KeptBefore
<1>6. ASSUME replay.pc = "executed", decisions # <<>>
      PROVE  /\ committed = KeptIterations
             /\ (\E d \in Range(decisions) : d.iteration = Last(decisions).kept)
                  => Last(git.commits) = Last(decisions).kept
             /\ decisions[1].keep => {git.head, git.index, disk.records} = {"this"}
  <2>1. replay.steps = n
    BY <1>6 DEF Decided, GitInv
  <2>2. committed = KeptIterations
    BY <1>2, <1>3, <2>1
  <2>3. n > 0 /\ n \in 1..n
    BY <1>1, <1>6 DEF Decided, IInv, Shapes, IsSequence
  <2>4. decisions[1].keep => {git.head, git.index, disk.records} = {"this"}
    BY <1>6, <2>1, <2>3 DEF Decided, GitInv, AllHold
  <2>5. ASSUME NEW d \in Range(decisions), d.iteration = Last(decisions).kept
        PROVE  Last(git.commits) = Last(decisions).kept
    <3> DEFINE b == Last(decisions).kept
               s == git.commits
    <3>1. PICK i \in 1..n : decisions[i].iteration = b
      BY <1>1, <2>5 DEF Range
    <3>2. /\ decisions[i].keep
          /\ \A j \in 1..n : decisions[j].keep => decisions[j].iteration <= b
      BY <1>6, <3>1, IncumbentIsLastKeep DEF Last
    <3>3. b \in committed /\ b \in Nat
      BY <1>1, <1>2, <2>2, <3>1, <3>2 DEF KeptBefore
    <3>4. s \in Seq(Nat) /\ DOMAIN s = 1..Len(s) /\ Len(s) \in Nat
      BY DEF Decided, GitInv, Repository
    <3>5. ASSUME NEW k \in 1..Len(s)
          PROVE  s[k] \in Nat /\ s[k] \in KeptBefore(n)
      <4>1. s[k] \in Nat
        BY <3>4
      <4>2. s[k] \in committed
        BY <3>4 DEF Range
      <4> QED
        BY <1>2, <2>2, <4>1, <4>2
    <3>6. \A k \in 1..Len(s) : s[k] <= b
      BY <3>2, <3>5 DEF KeptBefore
    <3>7. PICK k \in 1..Len(s) : s[k] = b
      BY <3>3, <3>4 DEF Range
    <3> HIDE DEF s, b
    <3>8. k = Len(s)
      <4>1. ASSUME k < Len(s) PROVE FALSE
        <5>0. Len(s) \in 1..Len(s)
          BY <3>4
        <5>1. s[k] < s[Len(s)]
          <6>1. Increasing(s)
            BY <1>3 DEF s
          <6> QED
            BY <4>1, <5>0, <6>1 DEF Increasing
        <5>2. s[Len(s)] \in Nat /\ s[Len(s)] <= b
          BY <3>5, <3>6, <5>0
        <5> QED
          BY <3>3, <3>7, <5>1, <5>2
      <4>2. k \in Nat /\ Len(s) \in Nat /\ k <= Len(s)
        BY <3>4
      <4> QED
        BY <4>1, <4>2
    <3>9. Last(s) = b
      BY <3>7, <3>8 DEF Last
    <3> QED
      BY <3>9 DEF s, b
  <2> QED
    BY <2>2, <2>4, <2>5
<1> QED
  BY <1>2, <1>3, <1>4, <1>5, <1>6 DEF ReplayFollowsLoop, Increasing

(* Whatever git command fails and whatever an earlier run left, the        *)
(* commits are the loop's first keeps in order, and a replay reported as   *)
(* executed has them all and leaves HEAD at the incumbent, if no score is  *)
(* exactly zero (execute_karpathy_git_action_plan).                        *)
THEOREM BranchTellsDecisions ==
  ASSUME NeverZero
  PROVE  GitSpec => []ReplayFollowsLoop
<1>1. Decided => ReplayFollowsLoop
  BY BranchFollows
<1> QED
  BY <1>1, AlwaysDecided, PTL

-----------------------------------------------------------------------------
(* What the scratchpad says of the results                                 *)

RunsAt(rs, g, n) == IF n = 0 THEN 0 ELSE g[n - 1] + rs[n].runs

AddsUp(rs, g) == g = [n \in 0..Len(rs) |-> RunsAt(rs, g, n)]

LEMMA RunsAddUp ==
  ASSUME NEW rs \in Seq(Outcome)
  PROVE  \E g : AddsUp(rs, g) /\ RunsOf(rs) = g[Len(rs)]
<1> DEFINE n == Len(rs)
           step == [q \in Nat \X Nat |-> IF q[1] \in 1..n THEN q[2] + rs[q[1]].runs ELSE 0]
<1>1. n \in Nat /\ \A k \in 1..n : rs[k].runs \in Nat
  <2>1. n \in Nat /\ \A k \in 1..n : rs[k] \in Outcome
    OBVIOUS
  <2> QED
    BY <2>1 DEF Outcome
<1>2. step \in [Nat \X Nat -> Nat]
  BY <1>1
<1>3. \A k \in 1..n, b \in Nat : step[<<k, b>>] = b + rs[k].runs
  BY <1>1
<1> HIDE DEF step, n
<1>4. PICK g : IsCourse(step, n, g)
  BY <1>1, <1>2, CourseExists
<1>5. AddsUp(rs, g)
  <2>1. g \in [0..n -> Nat] /\ g[0] = 0 /\ \A k \in 1..n : g[k] = step[<<k, g[k - 1]>>]
    BY <1>4 DEF IsCourse
  <2>2. ASSUME NEW k \in 0..n PROVE g[k] = RunsAt(rs, g, k)
    <3>1. CASE k = 0
      BY <2>1, <3>1 DEF RunsAt
    <3>2. CASE k # 0
      <4>1. k \in 1..n /\ k - 1 \in 0..n
        BY <1>1, <3>2
      <4>2. g[k - 1] \in Nat /\ g[k] = step[<<k, g[k - 1]>>]
        BY <2>1, <4>1
      <4> QED
        BY <1>3, <3>2, <4>1, <4>2 DEF RunsAt
    <3> QED
      BY <3>1, <3>2
  <2>3. g = [k \in 0..n |-> g[k]]
    BY <2>1
  <2> QED
    BY <2>2, <2>3 DEF AddsUp, n
<1>6. AddsUp(rs, CHOOSE h : AddsUp(rs, h))
  BY <1>5, Zenon
<1>7. RunsOf(rs) = (CHOOSE h : AddsUp(rs, h))[Len(rs)]
  BY Zenon DEF RunsOf, AddsUp, RunsAt
<1> QED
  BY <1>6, <1>7, Zenon

LEMMA RunsOfNone == RunsOf(<<>>) = 0
<1>1. <<>> \in Seq(Outcome) /\ Len(<<>>) = 0
  OBVIOUS
<1>2. PICK g : AddsUp(<<>>, g) /\ RunsOf(<<>>) = g[Len(<<>>)]
  BY <1>1, RunsAddUp
<1>3. 0 \in 0..Len(<<>>)
  BY <1>1
<1>4. g[0] = 0
  BY <1>2, <1>3 DEF AddsUp, RunsAt
<1> QED
  BY <1>1, <1>2, <1>4

LEMMA RunsOfOneMore ==
  ASSUME NEW rs \in Seq(Outcome), NEW o \in Outcome
  PROVE  RunsOf(rs) \in Nat /\ RunsOf(Append(rs, o)) = RunsOf(rs) + o.runs
<1> DEFINE n == Len(rs)
           ss == Append(rs, o)
<1>1. /\ n \in Nat /\ ss \in Seq(Outcome) /\ Len(ss) = n + 1 /\ ss[n + 1] = o
      /\ \A k \in 1..n : ss[k] = rs[k] /\ rs[k].runs \in Nat
  <2>1. /\ n \in Nat /\ ss \in Seq(Outcome) /\ Len(ss) = n + 1 /\ ss[n + 1] = o
        /\ \A k \in 1..n : ss[k] = rs[k] /\ rs[k] \in Outcome
    OBVIOUS
  <2> QED
    BY <2>1 DEF Outcome
<1> HIDE DEF ss
<1>2. PICK g : AddsUp(rs, g) /\ RunsOf(rs) = g[n]
  BY RunsAddUp
<1>3. PICK h : AddsUp(ss, h) /\ RunsOf(ss) = h[n + 1]
  BY <1>1, RunsAddUp
<1>4. (\A k \in 0..n : g[k] = RunsAt(rs, g, k)) /\ (\A k \in 0..(n + 1) : h[k] = RunsAt(ss, h, k))
  BY <1>1, <1>2, <1>3 DEF AddsUp
<1> HIDE DEF n
<1> DEFINE Apart == {k \in 0..n : ~(g[k] \in Nat /\ h[k] = g[k])}
<1>5. Apart = {}
  <2> SUFFICES ASSUME Apart # {} PROVE FALSE
    OBVIOUS
  <2>1. Apart \subseteq Nat
    BY <1>1
  <2>2. PICK k \in Apart : \A j \in Apart : k <= j
    BY <2>1, LeastOfNaturals
  <2>3. k \in 0..n /\ k \in 0..(n + 1) /\ ~(g[k] \in Nat /\ h[k] = g[k])
    BY <1>1
  <2>4. k # 0
    BY <1>4, <2>3 DEF RunsAt
  <2>5. k \in 1..n /\ k - 1 \in 0..n /\ ~(k <= k - 1)
    BY <1>1, <2>3, <2>4
  <2>6. g[k - 1] \in Nat /\ h[k - 1] = g[k - 1]
    BY <2>2, <2>5
  <2>7. g[k] = g[k - 1] + rs[k].runs /\ h[k] = h[k - 1] + ss[k].runs
    BY <1>4, <2>3, <2>4 DEF RunsAt
  <2> QED
    BY <1>1, <2>3, <2>5, <2>6, <2>7
<1>6. n \in 0..n /\ n + 1 \in 0..(n + 1) /\ n + 1 # 0 /\ (n + 1) - 1 = n
  BY <1>1
<1>7. g[n] \in Nat /\ h[n] = g[n]
  BY <1>5, <1>6
<1>8. h[n + 1] = h[n] + ss[n + 1].runs
  BY <1>4, <1>6 DEF RunsAt
<1> QED
  BY <1>1, <1>2, <1>3, <1>7, <1>8 DEF ss

BudgetSays(rs, p) ==
  /\ RunsOf(rs) \in Nat
  /\ p.remaining = IF RunsOf(rs) >= RunBudget THEN 0 ELSE RunBudget - RunsOf(rs)

(* Result i is the first one, or scores more than all before it.           *)
Surpasses(rs, i) ==
  \/ i = 1
  \/ Scored(rs, i) /\ \A j \in 1..(i - 1) : Scored(rs, j) => rs[i].score > rs[j].score

(* The best result surpassed those before it, and none surpassed it.       *)
BestSays(rs, p) ==
  /\ IF Len(rs) = 0 THEN p.best = 0 ELSE p.best \in 1..Len(rs) /\ Surpasses(rs, p.best)
  /\ p.best # 0 => \A i \in 1..Len(rs) : Scored(rs, i) =>
                     Scored(rs, p.best) /\ rs[i].score <= rs[p.best].score
  /\ \A i \in (p.best + 1)..Len(rs) : ~Surpasses(rs, i)
  /\ p.stagnation = Len(rs) - p.best

(* The last results with one baseline score, and no longer a run of them.  *)
PlateauSays(rs, p) ==
  /\ p.plateau \in Nat
  /\ IF Len(rs) = 0 THEN p.plateau = 0
     ELSE LET n == Len(rs)
              first == n - p.plateau
          IN /\ p.plateau < n
             /\ \A i \in first..n : rs[i].baseline = rs[n].baseline
             /\ rs[n].baseline = NoScore => p.plateau = 0
             /\ rs[n].baseline # NoScore /\ first > 1 => rs[first - 1].baseline # rs[n].baseline

Tally(rs) == [l \in Labels |-> Cardinality({i \in 1..Len(rs) : l \in rs[i].labels})]

(* The budget's remainder is cut off at zero.                              *)
LEMMA BudgetNext ==
  ASSUME RunBudget \in Nat, NEW rs \in Seq(Outcome), NEW o \in Outcome, NEW p, BudgetSays(rs, p),
         NEW q, q.remaining = Max({0, p.remaining - o.runs})
  PROVE  BudgetSays(Append(rs, o), q)
<1>1. RunsOf(rs) \in Nat /\ RunsOf(Append(rs, o)) = RunsOf(rs) + o.runs /\ o.runs \in Nat
  BY RunsOfOneMore DEF Outcome
<1> DEFINE x == p.remaining - o.runs
<1>2. p.remaining \in Nat /\ x \in Int
  BY <1>1 DEF BudgetSays
<1> HIDE DEF x
<1>3. Max({0, x}) = IF x <= 0 THEN 0 ELSE x
  <2>1. PICK m : m = IF x <= 0 THEN 0 ELSE x
    OBVIOUS
  <2>2. m \in {0, x} /\ \A y \in {0, x} : m >= y
    BY <1>2, <2>1
  <2>3. \A k \in {0, x} : (\A y \in {0, x} : k >= y) => k = m
    BY <1>2, <2>1
  <2>4. Max({0, x}) = m
    BY <2>2, <2>3 DEF Max
  <2> QED
    BY <2>1, <2>4
<1>4. q.remaining = IF x <= 0 THEN 0 ELSE x
  BY <1>3 DEF x
<1>5. p.remaining = IF RunsOf(rs) >= RunBudget THEN 0 ELSE RunBudget - RunsOf(rs)
  BY DEF BudgetSays
<1>6. q.remaining = IF RunsOf(rs) + o.runs >= RunBudget THEN 0 ELSE RunBudget - (RunsOf(rs) + o.runs)
  BY <1>1, <1>2, <1>4, <1>5 DEF x
<1> QED
  BY <1>1, <1>6 DEF BudgetSays

LEMMA SurpassesStays ==
  ASSUME NEW rs, NEW ss, NEW n \in Nat, \A k \in 1..n : ss[k] = rs[k]
  PROVE  \A i \in 1..n : Surpasses(ss, i) <=> Surpasses(rs, i)
<1> SUFFICES ASSUME NEW i \in 1..n PROVE Surpasses(ss, i) <=> Surpasses(rs, i)
  OBVIOUS
<1>1. ss[i] = rs[i] /\ \A j \in 1..(i - 1) : ss[j] = rs[j]
  OBVIOUS
<1> QED
  BY <1>1 DEF Surpasses, Scored

(* IsBetter compares with the best result alone.                           *)
LEMMA BestNext ==
  ASSUME NoScore \notin Int, NEW rs \in Seq(Outcome), NEW o \in Outcome, NEW p, BestSays(rs, p),
         NEW better \in BOOLEAN,
         better <=> \/ p.best = 0
                    \/ /\ o.score # NoScore
                       /\ \/ rs[p.best].score = NoScore
                          \/ o.score > rs[p.best].score,
         NEW q, q.best = (IF better THEN Len(rs) + 1 ELSE p.best),
         q.stagnation = IF better THEN 0 ELSE p.stagnation + 1
  PROVE  BestSays(Append(rs, o), q)
<1> DEFINE n == Len(rs)
           ss == Append(rs, o)
           b == p.best
<1>1. /\ n \in Nat /\ Len(ss) = n + 1 /\ ss[n + 1] = o
      /\ \A k \in 1..n : ss[k] = rs[k]
      /\ \A k \in 1..(n + 1) : ss[k] \in Outcome
  OBVIOUS
<1>2. \A k \in 1..(n + 1) : Scored(ss, k) => ss[k].score \in Int
  BY <1>1 DEF Scored, Outcome
<1> HIDE DEF ss
<1>3. \A i \in 1..n : Surpasses(ss, i) <=> Surpasses(rs, i)
  BY <1>1, SurpassesStays
<1>4. \A i \in 1..n : Scored(ss, i) <=> Scored(rs, i)
  BY <1>1 DEF Scored
<1>5. /\ b \in 0..n /\ (b = 0 <=> n = 0) /\ (b # 0 => b \in 1..n /\ Surpasses(ss, b))
      /\ b # 0 => \A i \in 1..n : Scored(ss, i) => Scored(ss, b) /\ ss[i].score <= ss[b].score
      /\ \A i \in (b + 1)..n : ~Surpasses(ss, i)
      /\ p.stagnation = n - b
  <2>1. b \in 0..n /\ (b = 0 <=> n = 0) /\ (b # 0 => b \in 1..n /\ Surpasses(rs, b))
    BY <1>1 DEF BestSays
  <2>2. \A i \in (b + 1)..n : i \in 1..n
    BY <1>1, <2>1
  <2> HIDE DEF n, b
  <2>3. b # 0 => \A i \in 1..n : Scored(rs, i) => Scored(rs, b) /\ rs[i].score <= rs[b].score
    BY DEF BestSays, n, b
  <2>4. (\A i \in (b + 1)..n : ~Surpasses(rs, i)) /\ p.stagnation = n - b
    BY DEF BestSays, n, b
  <2>5. b # 0 => \A i \in 1..n : Scored(ss, i) => Scored(ss, b) /\ ss[i].score <= ss[b].score
    BY <1>1, <1>4, <2>1, <2>3
  <2> QED
    BY <1>3, <2>1, <2>2, <2>4, <2>5
<1>6. better <=> b = 0 \/ (Scored(ss, n + 1) /\ (~Scored(ss, b) \/ ss[n + 1].score > ss[b].score))
  <2>1. b # 0 => ss[b] = rs[b]
    BY <1>1, <1>5
  <2> QED
    BY <1>1, <2>1 DEF Scored
<1>7. q.best = (IF better THEN n + 1 ELSE b) /\ q.stagnation = IF better THEN 0 ELSE p.stagnation + 1
  OBVIOUS
<1> HIDE DEF n, b
<1>8. n + 1 \in 1..(n + 1) /\ \A i \in 1..(n + 1) : i # n + 1 => i \in 1..n
  BY <1>1
<1>9. CASE better
  <2>1. q.best = n + 1 /\ q.stagnation = (n + 1) - q.best
    BY <1>1, <1>7, <1>9
  <2>2. ASSUME NEW i \in 1..n, Scored(ss, i)
        PROVE  Scored(ss, n + 1) /\ ss[n + 1].score > ss[i].score
    <3>1. b # 0 /\ b \in 1..n /\ Scored(ss, b) /\ ss[i].score <= ss[b].score
      BY <1>1, <1>5, <2>2
    <3>2. Scored(ss, n + 1) /\ ss[n + 1].score > ss[b].score
      BY <1>6, <1>9, <3>1
    <3>3. ss[i].score \in Int /\ ss[b].score \in Int /\ ss[n + 1].score \in Int
      BY <1>1, <1>2, <1>8, <2>2, <3>1, <3>2
    <3> QED
      BY <3>1, <3>2, <3>3
  <2>3. Surpasses(ss, n + 1)
    <3>1. CASE b = 0
      BY <1>1, <1>5, <3>1 DEF Surpasses
    <3>2. CASE b # 0
      <4>1. Scored(ss, n + 1)
        BY <1>6, <1>9, <3>2
      <4>2. (n + 1) - 1 = n
        BY <1>1
      <4> QED
        BY <2>2, <4>1, <4>2 DEF Surpasses
    <3> QED
      BY <3>1, <3>2
  <2>4. \A i \in 1..(n + 1) : Scored(ss, i) => Scored(ss, n + 1) /\ ss[i].score <= ss[n + 1].score
    <3> SUFFICES ASSUME NEW i \in 1..(n + 1), Scored(ss, i)
                 PROVE  Scored(ss, n + 1) /\ ss[i].score <= ss[n + 1].score
      OBVIOUS
    <3>1. ss[i].score \in Int
      BY <1>2
    <3>2. CASE i = n + 1
      BY <3>1, <3>2
    <3>3. CASE i # n + 1
      <4>1. i \in 1..n
        BY <1>8, <3>3
      <4>2. Scored(ss, n + 1) /\ ss[n + 1].score > ss[i].score
        BY <2>2, <4>1
      <4>3. ss[n + 1].score \in Int
        BY <1>2, <1>8, <4>2
      <4> QED
        BY <3>1, <4>2, <4>3
    <3> QED
      BY <3>2, <3>3
  <2>5. \A i \in (q.best + 1)..(n + 1) : ~Surpasses(ss, i)
    BY <1>1, <2>1
  <2>6. BestSays(ss, q)
    BY <1>1, <1>8, <2>1, <2>3, <2>4, <2>5 DEF BestSays
  <2> QED
    BY <2>6 DEF ss
<1>10. CASE ~better
  <2>1. q.best = b /\ q.stagnation = (n + 1) - b
    BY <1>1, <1>5, <1>7, <1>10
  <2>2. b # 0 /\ b \in 1..n /\ b \in 1..(n + 1) /\ n # 0 /\ n + 1 # 1
    BY <1>1, <1>5, <1>6, <1>10
  <2>3. Scored(ss, n + 1) => Scored(ss, b) /\ ~(ss[n + 1].score > ss[b].score)
    BY <1>6, <1>10
  <2>4. \A i \in 1..(n + 1) : Scored(ss, i) => Scored(ss, b) /\ ss[i].score <= ss[b].score
    <3> SUFFICES ASSUME NEW i \in 1..(n + 1), Scored(ss, i)
                 PROVE  Scored(ss, b) /\ ss[i].score <= ss[b].score
      OBVIOUS
    <3>1. CASE i = n + 1
      <4>1. ss[n + 1].score \in Int /\ ss[b].score \in Int
        BY <1>2, <1>8, <2>2, <2>3, <3>1
      <4> QED
        BY <2>3, <3>1, <4>1
    <3>2. CASE i # n + 1
      BY <1>5, <1>8, <2>2, <3>2
    <3> QED
      BY <3>1, <3>2
  <2>5. ~Surpasses(ss, n + 1)
    <3> SUFFICES ASSUME Scored(ss, n + 1),
                        \A j \in 1..((n + 1) - 1) : Scored(ss, j) => ss[n + 1].score > ss[j].score
                 PROVE  FALSE
      BY <2>2 DEF Surpasses
    <3>1. (n + 1) - 1 = n
      BY <1>1
    <3> QED
      BY <2>2, <2>3, <3>1
  <2>6. \A i \in (b + 1)..(n + 1) : ~Surpasses(ss, i)
    <3>1. \A i \in (b + 1)..(n + 1) : i = n + 1 \/ i \in (b + 1)..n
      BY <1>1, <2>2
    <3> QED
      BY <1>5, <2>5, <3>1
  <2>7. Surpasses(ss, b) /\ Len(ss) # 0
    BY <1>1, <1>5, <2>2
  <2>8. q.best \in 1..Len(ss) /\ Surpasses(ss, q.best)
    BY <1>1, <2>1, <2>2, <2>7
  <2>9. \A i \in 1..Len(ss) : Scored(ss, i) => Scored(ss, q.best) /\ ss[i].score <= ss[q.best].score
    BY <1>1, <2>1, <2>4
  <2>10. \A i \in (q.best + 1)..Len(ss) : ~Surpasses(ss, i)
    BY <1>1, <2>1, <2>6
  <2>11. q.stagnation = Len(ss) - q.best
    BY <1>1, <2>1
  <2>12. BestSays(ss, q)
    BY <2>7, <2>8, <2>9, <2>10, <2>11 DEF BestSays
  <2> QED
    BY <2>12 DEF ss
<1> QED
  BY <1>9, <1>10

LEMMA PlateauNext ==
  ASSUME NEW rs \in Seq(Outcome), NEW o \in Outcome, NEW p, PlateauSays(rs, p),
         NEW q, q.plateau = IF rs # <<>> /\ o.baseline # NoScore /\ rs[Len(rs)].baseline = o.baseline
                            THEN p.plateau + 1 ELSE 0
  PROVE  PlateauSays(Append(rs, o), q)
<1> DEFINE n == Len(rs)
           ss == Append(rs, o)
           same == n # 0 /\ o.baseline # NoScore /\ rs[n].baseline = o.baseline
<1>1. /\ n \in Nat /\ Len(ss) = n + 1 /\ ss[n + 1] = o /\ (rs # <<>> <=> n # 0)
      /\ \A k \in 1..n : ss[k] = rs[k]
  OBVIOUS
<1>2. q.plateau = IF same THEN p.plateau + 1 ELSE 0
  BY <1>1
<1>3. /\ p.plateau \in Nat
      /\ n # 0 => /\ p.plateau < n
                  /\ \A i \in (n - p.plateau)..n : rs[i].baseline = rs[n].baseline
                  /\ rs[n].baseline # NoScore /\ n - p.plateau > 1 =>
                       rs[n - p.plateau - 1].baseline # rs[n].baseline
  BY DEF PlateauSays
<1> HIDE DEF ss
<1>4. CASE ~same
  <2>1. q.plateau = 0
    BY <1>2, <1>4
  <2>2. \A i \in ((n + 1) - 0)..(n + 1) : i = n + 1
    BY <1>1
  <2>3. ss[n + 1].baseline # NoScore /\ n + 1 > 1 => ss[n].baseline # ss[n + 1].baseline
    BY <1>1, <1>4
  <2>4. ((n + 1) - 0) - 1 = n
    BY <1>1
  <2> HIDE DEF same, n
  <2>5. PlateauSays(ss, q)
    BY <1>1, <2>1, <2>2, <2>3, <2>4 DEF PlateauSays
  <2> QED
    BY <2>5 DEF ss
<1>5. CASE same
  <2> DEFINE first == n - p.plateau
  <2>1. q.plateau = p.plateau + 1 /\ n # 0 /\ o.baseline # NoScore /\ rs[n].baseline = o.baseline
    BY <1>2, <1>5
  <2>2. (n + 1) - q.plateau = first /\ q.plateau \in Nat /\ q.plateau < n + 1 /\ first \in 1..n
    <3>1. p.plateau \in Nat /\ p.plateau < n /\ n \in Nat /\ q.plateau = p.plateau + 1
      BY <1>1, <1>3, <2>1
    <3> HIDE DEF n
    <3> QED
      BY <3>1
  <2>3. \A i \in first..n : rs[i].baseline = rs[n].baseline
    BY <1>3, <2>1
  <2>4. first > 1 => rs[first - 1].baseline # rs[n].baseline
    BY <1>3, <2>1
  <2> HIDE DEF same, n, first
  <2>5. \A i \in first..(n + 1) : ss[i].baseline = ss[n + 1].baseline
    <3> SUFFICES ASSUME NEW i \in first..(n + 1) PROVE ss[i].baseline = ss[n + 1].baseline
      OBVIOUS
    <3>1. CASE i = n + 1
      BY <3>1
    <3>2. CASE i # n + 1
      <4>1. i \in first..n /\ i \in 1..n
        BY <1>1, <2>2, <3>2
      <4> QED
        BY <1>1, <2>1, <2>3, <4>1
    <3> QED
      BY <3>1, <3>2
  <2>6. first > 1 => ss[first - 1].baseline # ss[n + 1].baseline
    <3>1. first > 1 => first - 1 \in 1..n
      BY <1>1, <2>2
    <3> QED
      BY <1>1, <2>1, <2>4, <3>1
  <2>7. n + 1 # 0 /\ ss[n + 1].baseline # NoScore
    BY <1>1, <2>1
  <2>8. PlateauSays(ss, q)
    BY <1>1, <2>2, <2>5, <2>6, <2>7 DEF PlateauSays
  <2> QED
    BY <2>8 DEF ss
<1> QED
  BY <1>4, <1>5

LEMMA TallyNext ==
  ASSUME NEW rs \in Seq(Outcome), NEW o \in Outcome
  PROVE  Tally(Append(rs, o)) = [l \in Labels |-> Tally(rs)[l] + (IF l \in o.labels THEN 1 ELSE 0)]
<1> DEFINE n == Len(rs)
           ss == Append(rs, o)
<1>1. /\ n \in Nat /\ Len(ss) = n + 1 /\ ss[n + 1] = o
      /\ \A k \in 1..n : ss[k] = rs[k]
  OBVIOUS
<1> HIDE DEF ss
<1>2. ASSUME NEW l \in Labels
      PROVE  Cardinality({i \in 1..(n + 1) : l \in ss[i].labels})
               = Cardinality({i \in 1..n : l \in rs[i].labels}) + (IF l \in o.labels THEN 1 ELSE 0)
  <2> DEFINE A == {i \in 1..n : l \in rs[i].labels}
             B == {i \in 1..(n + 1) : l \in ss[i].labels}
  <2>1. IsFiniteSet(A) /\ Cardinality(A) \in Nat
    <3>1. IsFiniteSet(1..n)
      BY <1>1, FS_Interval
    <3> QED
      BY <3>1, FS_Subset, FS_CardinalityType
  <2>2. n + 1 \notin A
    BY <1>1
  <2>3. \A i : i \in 1..(n + 1) <=> i \in 1..n \/ i = n + 1
    BY <1>1
  <2>4. CASE l \in o.labels
    <3>1. B = A \cup {n + 1}
      BY <1>1, <2>3, <2>4
    <3> HIDE DEF A, B
    <3>2. Cardinality(B) = Cardinality(A) + 1
      BY <2>1, <2>2, <3>1, FS_AddElement
    <3> QED
      BY <2>4, <3>2 DEF A, B
  <2>5. CASE l \notin o.labels
    <3>1. B = A
      BY <1>1, <2>3, <2>5
    <3> HIDE DEF A, B
    <3>2. Cardinality(B) = Cardinality(A) + 0
      BY <2>1, <3>1
    <3> QED
      BY <2>5, <3>2 DEF A, B
  <2> QED
    BY <2>4, <2>5
<1>3. \A l \in Labels : Tally(rs)[l] = Cardinality({i \in 1..n : l \in rs[i].labels})
  BY DEF Tally
<1>4. Tally(ss) = [l \in Labels |-> Cardinality({i \in 1..(n + 1) : l \in ss[i].labels})]
  BY <1>1 DEF Tally
<1> HIDE DEF n
<1>5. Tally(ss) = [l \in Labels |-> Tally(rs)[l] + (IF l \in o.labels THEN 1 ELSE 0)]
  BY <1>2, <1>3, <1>4
<1> QED
  BY <1>5 DEF ss

(* The counters are about the results; the reason to stop is not.          *)
PadSays(rs, p) ==
  /\ rs \in Seq(Outcome)
  /\ BudgetSays(rs, p) /\ BestSays(rs, p) /\ PlateauSays(rs, p) /\ p.counts = Tally(rs)

SameCounters(p, q) ==
  /\ p.remaining = q.remaining /\ p.best = q.best /\ p.stagnation = q.stagnation
  /\ p.plateau = q.plateau /\ p.counts = q.counts

LEMMA CountersCarry ==
  ASSUME NEW rs, NEW p, NEW q, PadSays(rs, p), SameCounters(p, q)
  PROVE  PadSays(rs, q)
BY DEF PadSays, SameCounters, BudgetSays, BestSays, PlateauSays

LEMMA PadSaysFirst ==
  ASSUME RunBudget \in Nat, Init
  PROVE  PadSays(results, pad)
<1>1. results = <<>> /\ <<>> \in Seq(Outcome) /\ Len(<<>>) = 0
  BY DEF Init
<1>2. /\ pad.remaining = RunBudget /\ pad.best = 0 /\ pad.stagnation = 0 /\ pad.plateau = 0
      /\ pad.counts = [l \in Labels |-> 0]
  BY DEF Init
<1>3. BudgetSays(<<>>, pad)
  BY <1>2, RunsOfNone DEF BudgetSays
<1>4. BestSays(<<>>, pad) /\ PlateauSays(<<>>, pad)
  BY <1>1, <1>2 DEF BestSays, PlateauSays
<1>5. Tally(<<>>) = [l \in Labels |-> 0]
  <2>1. \A l : {i \in 1..0 : l \in <<>>[i].labels} = {}
    OBVIOUS
  <2> QED
    BY <1>1, <2>1, FS_EmptySet DEF Tally
<1> QED
  BY <1>1, <1>2, <1>3, <1>4, <1>5 DEF PadSays

LEMMA RecordedFields ==
  ASSUME NEW o, PadShape
  PROVE  /\ Recorded(o).remaining = Max({0, pad.remaining - o.runs})
         /\ Recorded(o).best = (IF IsBetter(o) THEN Len(results) + 1 ELSE pad.best)
         /\ Recorded(o).stagnation = (IF IsBetter(o) THEN 0 ELSE pad.stagnation + 1)
         /\ Recorded(o).plateau = NextPlateau(o)
         /\ Recorded(o).counts = [l \in Labels |-> pad.counts[l] + (IF l \in o.labels THEN 1 ELSE 0)]
         /\ Recorded(o).stop = pad.stop
         /\ DOMAIN Recorded(o) = DOMAIN pad
<1> DEFINE remaining == Max({0, pad.remaining - o.runs})
           better == IsBetter(o)
           counts == [l \in Labels |-> pad.counts[l] + (IF l \in o.labels THEN 1 ELSE 0)]
           plateau == NextPlateau(o)
           one == [pad EXCEPT !.iteration = @ + 1, !.remaining = remaining,
                              !.best = IF better THEN Len(results) + 1 ELSE @]
           two == [one EXCEPT !.stagnation = IF better THEN 0 ELSE @ + 1,
                              !.plateau = plateau, !.counts = counts]
<1>1. Recorded(o) = [pad EXCEPT !.iteration = @ + 1, !.remaining = remaining,
                       !.best = IF better THEN Len(results) + 1 ELSE @,
                       !.stagnation = IF better THEN 0 ELSE @ + 1,
                       !.plateau = plateau, !.counts = counts]
  BY Zenon DEF Recorded
<1> HIDE DEF remaining, better, counts, plateau
<1>2. Recorded(o) = two
  BY <1>1 DEF PadShape
<1>3. /\ DOMAIN one = DOMAIN pad /\ one.remaining = remaining
      /\ one.best = (IF better THEN Len(results) + 1 ELSE pad.best)
      /\ one.stagnation = pad.stagnation /\ one.stop = pad.stop
  BY DEF PadShape
<1> HIDE DEF one
<1>4. /\ DOMAIN two = DOMAIN one /\ two.remaining = one.remaining /\ two.best = one.best
      /\ two.stop = one.stop /\ two.stagnation = (IF better THEN 0 ELSE one.stagnation + 1)
      /\ two.plateau = plateau /\ two.counts = counts
  BY <1>3 DEF PadShape
<1> HIDE DEF two
<1>5. /\ Recorded(o).remaining = remaining /\ Recorded(o).stop = pad.stop
      /\ Recorded(o).best = (IF better THEN Len(results) + 1 ELSE pad.best)
      /\ Recorded(o).stagnation = (IF better THEN 0 ELSE pad.stagnation + 1)
      /\ Recorded(o).plateau = plateau /\ Recorded(o).counts = counts
      /\ DOMAIN Recorded(o) = DOMAIN pad
  BY <1>2, <1>3, <1>4, Zenon
<1> QED
  BY <1>5, Zenon DEF remaining, better, counts, plateau

LEMMA RecordedSays ==
  ASSUME ResearchLoopAssumption, PadShape, PadSays(results, pad), NEW o \in Outcome
  PROVE  PadSays(Append(results, o), Recorded(o))
<1> DEFINE q == Recorded(o)
<1>1. /\ q.remaining = Max({0, pad.remaining - o.runs})
      /\ q.best = (IF IsBetter(o) THEN Len(results) + 1 ELSE pad.best)
      /\ q.stagnation = (IF IsBetter(o) THEN 0 ELSE pad.stagnation + 1)
      /\ q.plateau = NextPlateau(o)
      /\ q.counts = [l \in Labels |-> pad.counts[l] + (IF l \in o.labels THEN 1 ELSE 0)]
  BY RecordedFields
<1> HIDE DEF q
<1>2. results \in Seq(Outcome) /\ RunBudget \in Nat /\ NoScore \notin Int
  BY DEF PadSays, ResearchLoopAssumption
<1>3. BudgetSays(Append(results, o), q)
  BY <1>1, <1>2, BudgetNext DEF PadSays
<1>4. BestSays(Append(results, o), q)
  <2>1. IsBetter(o) \in BOOLEAN
    BY DEF IsBetter
  <2>2. IsBetter(o) <=> \/ pad.best = 0
                        \/ /\ o.score # NoScore
                           /\ \/ results[pad.best].score = NoScore
                              \/ o.score > results[pad.best].score
    BY DEF IsBetter
  <2> QED
    BY <1>1, <1>2, <2>1, <2>2, BestNext DEF PadSays
<1>5. PlateauSays(Append(results, o), q)
  <2>1. q.plateau = IF results # <<>> /\ o.baseline # NoScore /\ results[Len(results)].baseline = o.baseline
                    THEN pad.plateau + 1 ELSE 0
    BY <1>1 DEF NextPlateau, Last
  <2> QED
    BY <1>2, <2>1, PlateauNext DEF PadSays
<1>6. q.counts = Tally(Append(results, o))
  BY <1>1, <1>2, TallyNext DEF PadSays
<1>7. Append(results, o) \in Seq(Outcome)
  BY <1>2
<1> QED
  BY <1>3, <1>4, <1>5, <1>6, <1>7 DEF PadSays, q

-----------------------------------------------------------------------------
(* The stop rules                                                          *)

StopReasons == {"none", "explicit_stop", "refinement_stopped", "pipeline_crash"}

(* The rules read off the counters what the results show.                  *)
LEMMA PadTells ==
  ASSUME ResearchLoopAssumption, MaxPlateau # 0, PadSays(results, pad)
  PROVE  /\ RunsOf(results) \in Nat /\ (pad.remaining <= 0 <=> RunsOf(results) >= RunBudget)
         /\ pad.stagnation >= MaxStagnation <=> Plateaued
         /\ pad.plateau >= MaxPlateau <=> SameBaseline
         /\ (\E g \in StopGroups : Count(g) >= g.limit) <=> FailedTooOften
<1> DEFINE n == Len(results)
<1>1. /\ results \in Seq(Outcome) /\ n \in Nat /\ DOMAIN results = 1..n
      /\ RunBudget \in Nat /\ MaxStagnation \in Nat /\ MaxPlateau \in Nat \ {0}
  BY DEF PadSays, ResearchLoopAssumption
<1>2. RunsOf(results) \in Nat /\ (pad.remaining <= 0 <=> RunsOf(results) >= RunBudget)
  BY <1>1 DEF PadSays, BudgetSays
<1>3. pad.stagnation >= MaxStagnation <=> Plateaued
  <2> DEFINE b == pad.best
  <2>1. /\ b \in 0..n /\ pad.stagnation = n - b
        /\ b # 0 => Surpasses(results, b)
        /\ \A i \in (b + 1)..n : ~Surpasses(results, i)
    BY <1>1 DEF PadSays, BestSays
  <2>2. \A i : Improves(i) <=> Surpasses(results, i)
    BY DEF Improves, Surpasses, Scored
  <2> HIDE DEF b, n
  <2>3. Plateaued <=> n >= MaxStagnation /\ \A i \in n - MaxStagnation + 1..n : ~Surpasses(results, i)
    BY <2>2 DEF Plateaued, n
  <2>4. CASE n - b >= MaxStagnation
    <3>1. n >= MaxStagnation /\ \A i \in n - MaxStagnation + 1..n : i \in (b + 1)..n
      BY <1>1, <2>1, <2>4
    <3> QED
      BY <2>1, <2>3, <2>4, <3>1
  <2>5. CASE ~(n - b >= MaxStagnation)
    <3>1. n >= MaxStagnation => b # 0 /\ b \in n - MaxStagnation + 1..n
      BY <1>1, <2>1, <2>5
    <3> QED
      BY <2>1, <2>3, <2>5, <3>1
  <2> QED
    BY <2>4, <2>5
<1>4. pad.plateau >= MaxPlateau <=> SameBaseline
  <2> DEFINE p == pad.plateau
             k == MaxPlateau
  <2>1. /\ p \in Nat
        /\ n = 0 => p = 0
        /\ n # 0 => /\ p < n
                    /\ \A i \in (n - p)..n : results[i].baseline = results[n].baseline
                    /\ results[n].baseline = NoScore => p = 0
                    /\ results[n].baseline # NoScore /\ n - p > 1 =>
                         results[n - p - 1].baseline # results[n].baseline
    BY DEF PadSays, PlateauSays
  <2>2. SameBaseline <=> /\ n > k /\ results[n].baseline # NoScore
                         /\ \A i \in (n - k)..n : results[i].baseline = results[n].baseline
    BY DEF SameBaseline
  <2> HIDE DEF n, p, k
  <2>3. k \in Nat \ {0}
    BY <1>1 DEF k
  <2>4. CASE p >= k
    <3>1. n # 0 /\ p # 0 /\ n > k /\ \A i \in (n - k)..n : i \in (n - p)..n
      BY <1>1, <2>1, <2>3, <2>4
    <3> QED
      BY <2>1, <2>2, <2>4, <3>1 DEF p, k
  <2>5. CASE ~(p >= k)
    <3>1. n > k => n # 0 /\ n - p > 1 /\ n - p - 1 \in (n - k)..n
      BY <1>1, <2>1, <2>3, <2>5
    <3> QED
      BY <2>1, <2>2, <2>5, <3>1 DEF p, k
  <2> QED
    BY <2>4, <2>5
<1>5. (\E g \in StopGroups : Count(g) >= g.limit) <=> FailedTooOften
  <2>1. pad.counts = [l \in Labels |-> Cardinality({i \in DOMAIN results : l \in results[i].labels})]
    BY <1>1 DEF PadSays, Tally
  <2> QED
    BY <2>1, Zenon DEF Count, FailedTooOften
<1> QED
  BY <1>2, <1>3, <1>4, <1>5

StopInv ==
  /\ PadSays(results, pad) /\ pad.stop \in StopReasons
  /\ Len(results) <= MaxIterations[mode]
  /\ pc = "validate" => Len(results) < MaxIterations[mode]
  /\ pc # "stopped" => reason = "none"
  /\ StopsAreReal

LEMMA InitStopInv ==
  ASSUME ResearchLoopAssumption, Init
  PROVE  StopInv
<1>1. PadSays(results, pad)
  BY PadSaysFirst DEF ResearchLoopAssumption
<1>2. /\ results = <<>> /\ Len(<<>>) = 0 /\ pc = "top" /\ reason = "none" /\ pad.stop = "none"
      /\ mode \in Modes
  BY DEF Init
<1>3. 0 <= MaxIterations[mode]
  BY <1>2 DEF ResearchLoopAssumption
<1> QED
  BY <1>1, <1>2, <1>3 DEF StopInv, StopsAreReal, StopReasons

LEMMA TopStops ==
  ASSUME ResearchLoopAssumption, MaxPlateau # 0, IInv, StopInv, Top
  PROVE  StopInv'
<1>1. /\ pc = "top" /\ UNCHANGED <<mode, pad, results>>
      /\ IF StopReason # "none" THEN pc' = "stopped" /\ reason' = StopReason
         ELSE pc' = "validate" /\ reason' = reason
  BY DEF Top
<1>2. /\ reason = "none" /\ PadSays(results, pad) /\ pad.stop \in StopReasons
      /\ Len(results) <= MaxIterations[mode] /\ Len(results) = pad.iteration
      /\ pad.iteration \in Nat /\ mode \in {"bounded", "karpathy"} /\ MaxIterations[mode] \in Nat
  BY <1>1 DEF StopInv, IInv, DecidedOnce, Shapes, PadShape, ResearchLoopAssumption
<1> DEFINE full == pad.iteration >= MaxIterations[mode]
           spent == RunsOf(results) >= RunBudget
<1>3. StopReason = IF full THEN "max_iterations_reached"
                   ELSE IF spent THEN "run_budget_exhausted"
                   ELSE IF pad.stop # "none" THEN pad.stop
                   ELSE IF mode = "karpathy" THEN "none"
                   ELSE IF Plateaued THEN "no_improvement_plateau"
                   ELSE IF SameBaseline THEN "duplicate_baseline_plateau"
                   ELSE IF FailedTooOften THEN "repeated_failures"
                   ELSE "none"
  <2>1. /\ pad.remaining <= 0 <=> spent
        /\ pad.stagnation >= MaxStagnation <=> Plateaued
        /\ pad.plateau >= MaxPlateau <=> SameBaseline
        /\ (\E g \in StopGroups : Count(g) >= g.limit) <=> FailedTooOften
    BY <1>2, PadTells
  <2> HIDE DEF spent
  <2> QED
    BY <2>1 DEF StopReason
<1>4. /\ RunsOf(results) \in Nat /\ RunBudget \in Nat
      /\ full => Len(results) = MaxIterations[mode]
      /\ ~full => Len(results) < MaxIterations[mode]
      /\ ~spent => RunsOf(results) < RunBudget
  BY <1>2, PadTells DEF ResearchLoopAssumption
<1>5. /\ Plateaued' = Plateaued /\ SameBaseline' = SameBaseline /\ FailedTooOften' = FailedTooOften
      /\ RunsOf(results)' = RunsOf(results)
  BY <1>1 DEF Plateaued, Improves, SameBaseline, FailedTooOften
<1> HIDE DEF full, spent
<1>6. pad.stop \notin {"max_iterations_reached", "run_budget_exhausted", "no_improvement_plateau",
                       "duplicate_baseline_plateau", "repeated_failures"}
  BY <1>2 DEF StopReasons
<1>7. StopsAreReal'
  <2>1. CASE StopReason # "none"
    <3>1. pc' = "stopped" /\ reason' = StopReason
      BY <1>1, <2>1
    <3>2. reason' = "max_iterations_reached" => full
      BY <1>3, <1>6, <3>1
    <3>3. reason' = "run_budget_exhausted" => spent
      BY <1>3, <1>6, <3>1
    <3>4. reason' = "no_improvement_plateau" => mode # "karpathy" /\ Plateaued
      BY <1>3, <1>6, <3>1
    <3>5. reason' = "duplicate_baseline_plateau" => mode # "karpathy" /\ SameBaseline
      BY <1>3, <1>6, <3>1
    <3>6. reason' = "repeated_failures" => mode # "karpathy" /\ FailedTooOften
      BY <1>3, <1>6, <3>1
    <3> QED
      BY <1>1, <1>2, <1>4, <1>5, <3>1, <3>2, <3>3, <3>4, <3>5, <3>6 DEF StopsAreReal, spent
  <2>2. CASE StopReason = "none"
    <3>1. pc' = "validate" /\ reason' = "none"
      BY <1>1, <1>2, <2>2
    <3>2. ~full /\ ~spent
      BY <1>3, <2>2
    <3>3. pad.stop = "none"
      BY <1>3, <2>2, <3>2
    <3>4. mode = "bounded" => ~Plateaued /\ ~SameBaseline /\ ~FailedTooOften
      BY <1>3, <2>2, <3>2, <3>3
    <3> QED
      BY <1>1, <1>4, <1>5, <3>1, <3>2, <3>4 DEF StopsAreReal
  <2> QED
    BY <2>1, <2>2
<1>8. pc' = "validate" => ~full /\ reason' = "none"
  BY <1>1, <1>2, <1>3
<1>9. pc' # "stopped" => pc' = "validate"
  BY <1>1
<1> QED
  BY <1>1, <1>2, <1>4, <1>7, <1>8, <1>9 DEF StopInv

ResultsGrow == results' = results \/ (pc = "validate" /\ \E o : results' = Append(results, o))

(* Elsewhere nobody reads the limits; the counters follow the results.     *)
LEMMA CountedOn ==
  ASSUME ResearchLoopAssumption, IInv, StopInv, pc \in {"validate", "refine"},
         pc' \in {"refine", "top"}, UNCHANGED <<mode, reason>>,
         PadSays(results', pad'), pad'.stop \in StopReasons,
         ResultsGrow
  PROVE  StopInv'
<1>1. reason' = "none" /\ pc' # "validate"
  BY DEF StopInv
<1>2. Len(results') <= MaxIterations[mode]
  <2>1. mode \in Modes /\ MaxIterations[mode] \in Nat
    BY DEF IInv, Shapes, ResearchLoopAssumption
  <2>2. results \in Seq(Outcome)
    BY DEF StopInv, PadSays
  <2>3. ASSUME pc = "validate", NEW o, results' = Append(results, o)
        PROVE  Len(results') <= MaxIterations[mode]
    <3>1. Len(results') = Len(results) + 1 /\ Len(results) \in Nat
      BY <2>3, AppendToSequence DEF IInv, Shapes
    <3>2. Len(results) < MaxIterations[mode]
      BY <2>3 DEF StopInv
    <3> QED
      BY <2>1, <3>1, <3>2
  <2> QED
    BY <2>3 DEF ResultsGrow, StopInv
<1> QED
  BY <1>1, <1>2 DEF StopInv, StopsAreReal

LEMMA StoppingFields ==
  ASSUME NEW r, NEW goes_on, PadShape, pad.stop \in StopReasons
  PROVE  /\ SameCounters(pad, Stopping(r, goes_on)) /\ Stopping(r, goes_on).stop \in StopReasons
         /\ DOMAIN Stopping(r, goes_on) = DOMAIN pad
<1> DEFINE explicit == IF r.stop THEN [pad EXCEPT !.stop = "explicit_stop"] ELSE pad
           final == IF ~goes_on /\ ~r.continue /\ explicit.stop = "none"
                    THEN [explicit EXCEPT !.stop = "refinement_stopped"]
                    ELSE explicit
<1>1. DOMAIN explicit = DOMAIN pad /\ SameCounters(pad, explicit) /\ explicit.stop \in StopReasons
  BY DEF PadShape, SameCounters, StopReasons
<1> HIDE DEF explicit
<1>2. DOMAIN final = DOMAIN explicit /\ SameCounters(explicit, final) /\ final.stop \in StopReasons
  BY <1>1 DEF PadShape, SameCounters, StopReasons
<1>3. Stopping(r, goes_on) = final
  BY Zenon DEF Stopping, explicit
<1> HIDE DEF final
<1> QED
  BY <1>1, <1>2, <1>3 DEF SameCounters

LEMMA HandleKeepsCounters ==
  ASSUME NEW payload, NEW rest, NEW notes, Handle(payload, rest, notes),
         DOMAIN notes = DOMAIN pad, PadShape, notes.stop \in StopReasons
  PROVE  SameCounters(notes, pad') /\ pad'.stop \in StopReasons /\ pc' = "top"
<1>1. (pad' = notes \/ pad' = [notes EXCEPT !.stop = "pipeline_crash"]) /\ pc' = "top"
  BY DEF Handle
<1> QED
  BY <1>1 DEF PadShape, SameCounters, StopReasons

LEMMA ValidateStops ==
  ASSUME ResearchLoopAssumption, IInv, StopInv, ValidateReturns \/ ValidateCrashes
  PROVE  StopInv'
<1>1. PadShape /\ PadSays(results, pad) /\ pad.stop \in StopReasons /\ mode \in Modes
  BY DEF IInv, Shapes, StopInv
<1>2. CASE ValidateReturns
  <2>1. PICK o \in Outcomes[mode] : pad' = Recorded(o) /\ results' = Append(results, o)
    BY <1>2 DEF ValidateReturns
  <2>2. o \in Outcome
    BY <1>1, <2>1 DEF ResearchLoopAssumption
  <2>3. PadSays(results', pad') /\ pad'.stop \in StopReasons
    BY <1>1, <2>1, <2>2, RecordedSays, RecordedFields
  <2>4. pc = "validate" /\ pc' = "refine" /\ UNCHANGED <<mode, reason>> /\ ResultsGrow
    BY <1>2, <2>1 DEF ValidateReturns, ResultsGrow
  <2> QED
    BY <2>1, <2>3, <2>4, CountedOn
<1>3. CASE ValidateCrashes
  <2> DEFINE notes == Recorded(Failed)
  <2>1. Failed \in Outcome
    BY DEF Failed, Outcome
  <2>2. /\ PadSays(Append(results, Failed), notes)
        /\ notes.stop \in StopReasons /\ DOMAIN notes = DOMAIN pad
    BY <1>1, <2>1, RecordedSays, RecordedFields
  <2> HIDE DEF notes
  <2>3. /\ pc = "validate" /\ Handle(current, queue, notes) /\ results' = Append(results, Failed)
        /\ UNCHANGED <<mode, reason>>
    BY <1>3 DEF ValidateCrashes, notes
  <2>4. SameCounters(notes, pad') /\ pad'.stop \in StopReasons /\ pc' = "top"
    BY <1>1, <2>2, <2>3, HandleKeepsCounters
  <2>5. PadSays(results', pad')
    BY <2>2, <2>3, <2>4, CountersCarry
  <2>6. ResultsGrow
    BY <2>3 DEF ResultsGrow
  <2> QED
    BY <2>3, <2>4, <2>5, <2>6, CountedOn
<1> QED
  BY <1>2, <1>3

LEMMA RefineStops ==
  ASSUME ResearchLoopAssumption, IInv, StopInv, Refine \/ RefineCrashes
  PROVE  StopInv'
<1>1. PadShape /\ PadSays(results, pad) /\ pad.stop \in StopReasons
  BY DEF IInv, Shapes, StopInv
<1>2. pc = "refine" /\ UNCHANGED <<mode, results, reason>>
  BY DEF Refine, RefineCrashes
<1>3. PICK notes : /\ SameCounters(pad, notes) /\ notes.stop \in StopReasons /\ DOMAIN notes = DOMAIN pad
                   /\ (pad' = notes /\ pc' = "top") \/ \E x, rest : Handle(x, rest, notes)
  <2>1. CASE RefineCrashes
    BY <1>1, <2>1 DEF RefineCrashes, SameCounters
  <2>2. CASE Refine
    <3>1. \E r, g : (pad' = Stopping(r, g) /\ pc' = "top") \/ \E x, rest : Handle(x, rest, Stopping(r, g))
      BY <2>2, Zenon DEF Refine, RefineWith
    <3>2. PICK r, g : (pad' = Stopping(r, g) /\ pc' = "top") \/ \E x, rest : Handle(x, rest, Stopping(r, g))
      BY <3>1
    <3> QED
      BY <1>1, <3>2, StoppingFields
  <2> QED
    BY <2>1, <2>2
<1>4. SameCounters(notes, pad') /\ pad'.stop \in StopReasons /\ pc' = "top"
  <2>1. CASE pad' = notes /\ pc' = "top"
    BY <1>3, <2>1 DEF SameCounters
  <2>2. CASE \E x, rest : Handle(x, rest, notes)
    BY <1>1, <1>3, <2>2, HandleKeepsCounters
  <2> QED
    BY <1>3, <2>1, <2>2
<1>5. PadSays(results', pad')
  BY <1>1, <1>2, <1>3, <1>4, CountersCarry
<1>6. pc' \in {"refine", "top"} /\ pc \in {"validate", "refine"} /\ results' = results
  BY <1>2, <1>4
<1>7. ResultsGrow
  BY <1>6 DEF ResultsGrow
<1> QED
  BY <1>2, <1>4, <1>5, <1>6, <1>7, CountedOn

LEMMA StopStep ==
  ASSUME ResearchLoopAssumption, MaxPlateau # 0, IInv, StopInv, [Next]_vars
  PROVE  StopInv'
<1>1. CASE Done \/ UNCHANGED vars
  <2>1. UNCHANGED <<mode, pc, pad, results, reason>>
    BY <1>1 DEF Done, vars
  <2> QED
    BY <2>1 DEF StopInv, StopsAreReal, Plateaued, Improves, SameBaseline, FailedTooOften
<1> QED
  BY <1>1, TopStops, ValidateStops, RefineStops DEF Next, Step

(* Whatever the iterations report and whatever crashes, the scratchpad's   *)
(* counters say what the results show: no iteration starts past a limit,   *)
(* and a loop stops for a limit, a plateau or repeated failures only if    *)
(* the results have it.  A limit of no duplicate baseline at all, which no *)
(* caller sets, would stop the loop before its first result                *)
(* (record_iteration, resolve_stop_reason).                                *)
THEOREM StopsAlwaysReal ==
  ASSUME MaxPlateau # 0
  PROVE  GitSpec => []StopsAreReal
<1>1. GitInit => IInv /\ StopInv
  BY ResearchLoopAssumption, InitHolds, InitStopInv DEF GitInit
<1>2. (IInv /\ StopInv) /\ [GitNext]_<<vars, gitVars>> => (IInv /\ StopInv)'
  BY ResearchLoopAssumption, GitStepIsLoopStep, StepHolds, StopStep
<1>3. StopInv => StopsAreReal
  BY DEF StopInv
<1> QED
  BY <1>1, <1>2, <1>3, PTL DEF GitSpec

=============================================================================
