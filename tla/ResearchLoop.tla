---------------------------- MODULE ResearchLoop ----------------------------
(***************************************************************************)
(* The research loop of the agent (agent/controller.py run).               *)
(*                                                                         *)
(* Each iteration validates the current payload, records the result in the *)
(* scratchpad and asks for a refinement: a next payload, payloads for a    *)
(* queue, a reason to stop, or none of them.  A bounded loop stops on      *)
(* plateaus and repeated failures; a karpathy loop keeps or discards each  *)
(* candidate against the incumbent and keeps its working payload in a file *)
(* that a later iteration, or a later run, loads again.  Any component     *)
(* called may raise.                                                       *)
(*                                                                         *)
(* A payload is named by the iteration that proposed it.  What a payload   *)
(* says, hypotheses, memory summaries and advisory notes are left out, and *)
(* so is the python_source form of the working file.                       *)
(***************************************************************************)
EXTENDS Integers, Sequences, FiniteSets, FiniteSetsExt, SequencesExt

CONSTANTS
  Modes,         (* the effective loop modes considered                    *)
  MaxIterations, (* max_iterations, per mode                               *)
  RunBudget,     (* run_budget                                             *)
  MaxStagnation, (* max_stagnation_rounds                                  *)
  MaxPlateau,    (* max_duplicate_baseline_plateau_rounds                  *)
  Labels,        (* failure labels: taxonomy, regimes, scenarios           *)
  StopGroups,    (* labels counted together, and the count that stops      *)
  NoScore,       (* a score the validation did not report                  *)
  Outcomes,      (* what a validation may report, per mode                 *)
  Refinements    (* what the refinement planner may answer, per mode       *)

Outcome == [runs : Nat, score : Int \cup {NoScore}, baseline : Int \cup {NoScore},
            labels : SUBSET Labels]

Refinement == [next : BOOLEAN, queued : Nat, stop : BOOLEAN, continue : BOOLEAN]

ASSUME ResearchLoopAssumption ==
  /\ Modes \subseteq {"bounded", "karpathy"}
  /\ MaxIterations \in [Modes -> Nat] /\ RunBudget \in Nat /\ MaxStagnation \in Nat /\ MaxPlateau \in Nat
  /\ StopGroups \subseteq [labels : SUBSET Labels, limit : Nat \ {0}]
  /\ NoScore \notin Int
  /\ DOMAIN Outcomes = Modes /\ \A m \in Modes : Outcomes[m] \subseteq Outcome
  /\ DOMAIN Refinements = Modes /\ \A m \in Modes : Refinements[m] \subseteq Refinement

VARIABLES
  mode,      (* the effective loop mode                                    *)
  pc,        (* "top" | "validate" | "refine" | "stopped"                  *)
  pad,       (* the scratchpad                                             *)
  results,   (* iteration_results                                          *)
  current,   (* current_payload                                            *)
  working,   (* the payload in the karpathy working file, or Absent        *)
  queue,     (* follow_up_queue                                            *)
  kept,      (* karpathy_kept_next_payload, or Absent                      *)
  decisions, (* karpathy_decisions                                         *)
  reason,    (* loop_stop_reason                                           *)
  issued,    (* auxiliary: the payloads refinements have handed out        *)
  tried      (* auxiliary: the payloads an iteration has started with      *)

vars == <<mode, pc, pad, results, current, working, queue, kept, decisions,
          reason, issued, tried>>

Payload == [by : Nat, kind : {"initial", "leftover", "next", "queued"}, nth : Nat]

Absent == [by |-> 0, kind |-> "absent", nth |-> 0]

Initial == [by |-> 0, kind |-> "initial", nth |-> 0]

(* The working file an earlier run with the same run_id left behind.       *)
Leftover == [by |-> 0, kind |-> "leftover", nth |-> 0]

Init ==
  /\ mode \in Modes
  /\ pc = "top"
  /\ pad = [iteration |-> 0, remaining |-> RunBudget, best |-> 0, stagnation |-> 0,
            plateau |-> 0, counts |-> [l \in Labels |-> 0], stop |-> "none"]
  /\ results = <<>>
  /\ current = Initial
  /\ working \in IF mode = "karpathy" THEN {Absent, Leftover} ELSE {Absent}
  /\ queue = <<>>
  /\ kept = Absent
  /\ decisions = <<>>
  /\ reason = "none"
  /\ issued = {}
  /\ tried = {}

-----------------------------------------------------------------------------
(* The scratchpad.                                                         *)

(* The first result is always the best one, scored or not.                 *)
IsBetter(o) ==
  \/ pad.best = 0
  \/ /\ o.score # NoScore
     /\ \/ results[pad.best].score = NoScore
        \/ o.score > results[pad.best].score

NextPlateau(o) ==
  IF results # <<>> /\ o.baseline # NoScore /\ Last(results).baseline = o.baseline
  THEN pad.plateau + 1
  ELSE 0

(* record_iteration.                                                       *)
Recorded(o) ==
  [pad EXCEPT !.iteration = @ + 1,
              !.remaining = Max({0, @ - o.runs}),
              !.best = IF IsBetter(o) THEN Len(results) + 1 ELSE @,
              !.stagnation = IF IsBetter(o) THEN 0 ELSE @ + 1,
              !.plateau = NextPlateau(o),
              !.counts = [l \in Labels |-> @[l] + (IF l \in o.labels THEN 1 ELSE 0)]]

(* How often the labels of a group were recorded.                          *)
Count(g) == SumFunctionOnSet(pad.counts, g.labels)

(* Mutant: the remainder, which is cut off at zero, must fall below it.    *)
StopBelowZero ==
  IF pad.iteration >= MaxIterations[mode] THEN "max_iterations_reached"
  ELSE IF pad.remaining < 0 THEN "run_budget_exhausted"
  ELSE IF pad.stop # "none" THEN pad.stop
  ELSE IF mode = "karpathy" THEN "none"
  ELSE IF pad.stagnation >= MaxStagnation THEN "no_improvement_plateau"
  ELSE IF pad.plateau >= MaxPlateau THEN "duplicate_baseline_plateau"
  ELSE IF \E g \in StopGroups : Count(g) >= g.limit THEN "repeated_failures"
  ELSE "none"

(* resolve_stop_reason: the order decides which reason is reported.        *)
StopReason ==
  IF pad.iteration >= MaxIterations[mode] THEN "max_iterations_reached"
  ELSE IF pad.remaining <= 0 THEN "run_budget_exhausted"
  ELSE IF pad.stop # "none" THEN pad.stop
  ELSE IF mode = "karpathy" THEN "none"
  ELSE IF pad.stagnation >= MaxStagnation THEN "no_improvement_plateau"
  ELSE IF pad.plateau >= MaxPlateau THEN "duplicate_baseline_plateau"
  ELSE IF \E g \in StopGroups : Count(g) >= g.limit THEN "repeated_failures"
  ELSE "none"

-----------------------------------------------------------------------------
(* One iteration.                                                          *)

(* The loop stops, or an iteration starts; in karpathy mode the working    *)
(* file, if there is one, replaces the payload chosen before.              *)
Top ==
  /\ pc = "top"
  /\ IF StopReason # "none"
     THEN /\ pc' = "stopped"
          /\ reason' = StopReason
          /\ UNCHANGED <<current, tried>>
     ELSE /\ pc' = "validate"
          /\ current' = IF mode = "karpathy" /\ working # Absent THEN working ELSE current
          /\ tried' = tried \cup {current'}
          /\ UNCHANGED reason
  /\ UNCHANGED <<mode, pad, results, working, queue, kept, decisions, issued>>

(* The materializer writes the payload to the working file, the validator
   reports, and the result is recorded.                                    *)
ValidateReturns ==
  /\ pc = "validate"
  /\ \E o \in Outcomes[mode] : pad' = Recorded(o) /\ results' = Append(results, o)
  /\ working' = IF mode = "karpathy" THEN current ELSE working
  /\ pc' = "refine"
  /\ UNCHANGED <<mode, current, queue, kept, decisions, reason, issued, tried>>

(* The end of the except block: go on with the queue, or stop.             *)
Handle(payload, rest, notes) ==
  /\ current' = IF rest # <<>> THEN Head(rest) ELSE payload
  /\ queue' = IF rest # <<>> THEN Tail(rest) ELSE rest
  /\ pad' = IF rest # <<>> THEN notes ELSE [notes EXCEPT !.stop = "pipeline_crash"]
  /\ pc' = "top"

(* The result recorded for an iteration that crashed before its validation *)
(* reported.                                                               *)
Failed == [runs |-> 1, score |-> NoScore, baseline |-> NoScore, labels |-> {}]

(* Mutant: an iteration without a result is neither counted nor stopped.   *)
RetryAfterCrash ==
  /\ pc = "validate"
  /\ current' = IF queue # <<>> THEN Head(queue) ELSE current
  /\ queue' = IF queue # <<>> THEN Tail(queue) ELSE queue
  /\ pc' = "top"
  /\ UNCHANGED <<mode, pad, results, working, kept, decisions, reason, issued, tried>>

(* The planner, the materializer (before or after its write) or the        *)
(* validator raises: the iteration counts as failed.                       *)
ValidateCrashes ==
  /\ pc = "validate"
  /\ results' = Append(results, Failed)
  /\ working' \in IF mode = "karpathy" THEN {working, current} ELSE {working}
  /\ Handle(current, queue, Recorded(Failed))
  /\ UNCHANGED <<mode, kept, decisions, reason, issued, tried>>

(* Mutant: the crash is recorded although the iteration already was.       *)
RecordCrashAgain ==
  /\ pc = "refine"
  /\ results' = Append(results, Failed)
  /\ Handle(current, queue, [pad EXCEPT !.remaining = Max({0, @ - 1})])
  /\ UNCHANGED <<mode, working, kept, decisions, reason, issued, tried>>

(* The memory updater or the refinement planner raises: the result stays   *)
(* as it was recorded.                                                     *)
RefineCrashes ==
  /\ pc = "refine"
  /\ Handle(current, queue, pad)
  /\ UNCHANGED <<mode, results, working, kept, decisions, reason, issued, tried>>

-----------------------------------------------------------------------------
(* Keeping and discarding.                                                 *)

(* Mutant: the latest scored result is the incumbent.                      *)
BeatsAlways(score, best) == TRUE

(* float(score or -inf): the score 0.0 is false, and read as minus         *)
(* infinity.                                                               *)
Beats(score, best) == best = 0 \/ score > best

(* _best_scored_result: the number of the result it finds, 0 if none.      *)
BestScored(rs) ==
  LET best[n \in 0..Len(rs)] ==
        IF n = 0 THEN 0
        ELSE IF /\ rs[n].score # NoScore
                /\ best[n - 1] # 0 => Beats(rs[n].score, rs[best[n - 1]].score)
             THEN n ELSE best[n - 1]
  IN  best[Len(rs)]

(* The last result against the best one before it.                         *)
Decision(proposed, selected) ==
  LET candidate == Last(results).score
      incumbent == BestScored(Front(results))
      keep == candidate # NoScore /\ (incumbent # 0 => candidate > results[incumbent].score)
  IN [iteration |-> pad.iteration, keep |-> keep,
      kept |-> IF keep THEN Len(results) ELSE incumbent,
      proposed |-> proposed, selected |-> selected]

(* The next payload the planner proposes.                                  *)
Proposal(r) ==
  IF r.next THEN [by |-> pad.iteration, kind |-> "next", nth |-> 0] ELSE Absent

(* Mutant: a discarded candidate's proposal is followed all the same.      *)
FollowProposal(proposed) == proposed

(* The next payload: a discarded candidate's proposal gives way to the one *)
(* kept before, if there is one.                                           *)
Selected(proposed) ==
  IF /\ mode = "karpathy" /\ proposed # Absent /\ kept # Absent
     /\ ~Decision(proposed, proposed).keep
  THEN kept
  ELSE proposed

(* Mutant: the planner's payloads replace the queue.                       *)
ReplaceQueue(r) ==
  [n \in 1..r.queued |-> [by |-> pad.iteration, kind |-> "queued", nth |-> n]]

ExtendedQueue(r) ==
  queue \o [n \in 1..r.queued |-> [by |-> pad.iteration, kind |-> "queued", nth |-> n]]

(* The scratchpad's reason to stop after a refinement: the planner's, or   *)
(* that it neither goes on nor leaves a payload.                           *)
Stopping(r, goes_on) ==
  LET explicit == IF r.stop THEN [pad EXCEPT !.stop = "explicit_stop"] ELSE pad
  IN IF ~goes_on /\ ~r.continue /\ explicit.stop = "none"
     THEN [explicit EXCEPT !.stop = "refinement_stopped"]
     ELSE explicit

(* A refinement is applied up to the write of the working file: written    *)
(* says whether that succeeds; if not, the except block moves on from the  *)
(* payload just selected.                                                  *)
RefineWith(r, written) ==
  LET proposed == Proposal(r)
      chosen == Selected(proposed)
      extended == ExtendedQueue(r)
      popped == chosen = Absent /\ extended # <<>>
      selected == IF chosen # Absent THEN chosen
                  ELSE IF popped THEN Head(extended) ELSE Absent
      payload == IF selected # Absent THEN selected ELSE current
      rest == IF popped THEN Tail(extended) ELSE extended
      notes == Stopping(r, selected # Absent)
  IN /\ issued' = issued \cup Range(ExtendedQueue(r)) \cup ({proposed} \ {Absent})
     /\ kept' = IF mode = "karpathy" /\ chosen # Absent /\ chosen = proposed
                THEN proposed ELSE kept
     /\ decisions' = IF mode = "karpathy" THEN Append(decisions, Decision(proposed, chosen))
                     ELSE decisions
     /\ \/ /\ written
           /\ working' = IF mode = "karpathy" /\ selected # Absent THEN selected ELSE working
           /\ current' = payload /\ queue' = rest /\ pad' = notes
           /\ pc' = "top"
        \/ /\ ~written /\ mode = "karpathy" /\ selected # Absent
           /\ working' = working
           /\ Handle(payload, rest, notes)

Refine ==
  /\ pc = "refine"
  /\ \E r \in Refinements[mode], written \in BOOLEAN : RefineWith(r, written)
  /\ UNCHANGED <<mode, results, reason, tried>>

(* The loop has ended.                                                     *)
Done == pc = "stopped" /\ UNCHANGED vars

Step == Top \/ ValidateReturns \/ ValidateCrashes \/ Refine \/ RefineCrashes

Next == Step \/ Done

(* Every component called returns or raises.                               *)
Fairness == WF_vars(Step)

Spec == Init /\ [][Next]_vars /\ Fairness

-----------------------------------------------------------------------------
(* Properties.                                                             *)

(* What the recorded results say by themselves.                            *)
RunsOf(rs) ==
  LET runs[n \in 0..Len(rs)] == IF n = 0 THEN 0 ELSE runs[n - 1] + rs[n].runs
  IN  runs[Len(rs)]

Improves(i) ==
  \/ i = 1
  \/ /\ results[i].score # NoScore
     /\ \A j \in 1..i - 1 : results[j].score # NoScore => results[i].score > results[j].score

Plateaued == LET n == Len(results) IN
  n >= MaxStagnation /\ \A i \in n - MaxStagnation + 1..n : ~Improves(i)

SameBaseline == LET n == Len(results) IN
  /\ n > MaxPlateau /\ results[n].baseline # NoScore
  /\ \A i \in n - MaxPlateau..n : results[i].baseline = results[n].baseline

FailedTooOften == \E g \in StopGroups :
  SumFunctionOnSet([l \in Labels |-> Cardinality({i \in DOMAIN results : l \in results[i].labels})],
                   g.labels) >= g.limit

(* The stop rules read the scratchpad's counters; the results themselves   *)
(* say the same, whatever crashed before.  No iteration starts past a      *)
(* limit, and a loop that says it met a plateau, a limit or repeated       *)
(* failures has results that show it; a karpathy loop never stops for a    *)
(* plateau (scratchpad.py resolve_stop_reason).                            *)
StopsAreReal ==
  /\ pc = "validate" =>
       /\ Len(results) < MaxIterations[mode]
       /\ RunsOf(results) < RunBudget
       /\ mode = "bounded" => ~Plateaued /\ ~SameBaseline /\ ~FailedTooOften
  /\ reason = "max_iterations_reached" => Len(results) = MaxIterations[mode]
  /\ reason = "run_budget_exhausted" => RunsOf(results) >= RunBudget
  /\ reason = "no_improvement_plateau" => mode = "bounded" /\ Plateaued
  /\ reason = "duplicate_baseline_plateau" => mode = "bounded" /\ SameBaseline
  /\ reason = "repeated_failures" => mode = "bounded" /\ FailedTooOften

(* Every iteration started is recorded exactly once, whatever raises and   *)
(* when, and at most one decision is taken for it, in order                *)
(* (controller.py:386, the crash of an iteration already recorded).        *)
EachIterationOnce ==
  /\ Len(results) = pad.iteration
  /\ \A i, j \in DOMAIN decisions : i < j => decisions[i].iteration < decisions[j].iteration

(* The incumbent after each decision is the best result so far, and the    *)
(* candidate of the decision is kept exactly when it is that result        *)
(* (_build_karpathy_summary).                                              *)
IncumbentIsBest ==
  \A d \in Range(decisions) :
    LET scored == {i \in 1..d.iteration : results[i].score # NoScore}
    IN /\ d.kept = 0 <=> scored = {}
       /\ d.kept # 0 => \A i \in scored : results[i].score <= results[d.kept].score
       /\ d.keep <=> d.kept = d.iteration

(* After a discard the loop goes on from the proposal of the last          *)
(* candidate it kept, if that made one: a discarded candidate's proposal   *)
(* is never followed (controller.py:339).                                  *)
LineageFollowsKept ==
  \A i \in DOMAIN decisions :
    LET d == decisions[i]
        keeps == {j \in 1..i - 1 : decisions[j].keep /\ decisions[j].proposed # Absent}
    IN ~d.keep /\ d.proposed # Absent /\ keeps # {} =>
         d.selected = decisions[Max(keeps)].proposed

(* A bounded loop forgets no payload a refinement handed out: as long as   *)
(* it runs, each is queued, current or was tried, crashes included.        *)
NoPayloadLost ==
  mode = "bounded" => issued \subseteq tried \cup Range(queue) \cup {current}

(* The loop ends, whatever its components answer or raise                  *)
(* (controller.py:387, "to avoid infinite retry loops").                   *)
Terminates == <>(pc = "stopped")
=============================================================================
