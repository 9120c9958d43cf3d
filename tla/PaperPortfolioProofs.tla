------------------------ MODULE PaperPortfolioProofs ------------------------
(***************************************************************************)
(* What holds of every plan of the portfolio tick, for any number of       *)
(* artifacts and whatever overrides, measurements, fills and crashes fall  *)
(* between its transactions: it respects every limit, answers every        *)
(* artifact once, leaves out the paused ones, and is persisted before      *)
(* anything refers to it.                                                  *)
(***************************************************************************)
EXTENDS PaperPortfolio, FiniteSetTheorems, WellFoundedInduction, TLAPS

Allocating == {"allocate", "persist", "link", "journal"}

(* A tick is a record of these fields.                                     *)
TickShape ==
  DOMAIN tick = {"pc", "current", "held", "barred", "guarded", "unit", "health", "next",
                 "allocated", "rejected", "exposure", "gross", "drawdown"}

(* Who may not trade has not been read as trading.                         *)
BarredOut ==
  /\ DOMAIN stage = 1..Artifacts
  /\ tick.barred \subseteq 1..Artifacts
  /\ tick.pc \in {"telemetry", "candidates"} =>
       \A a \in tick.barred : stage[a] \notin ActiveStages
  /\ tick.pc \in Allocating =>
       \A a \in tick.barred : tick.health[a] \notin ActiveStages /\ a \notin tick.allocated

RefusedSoFar == {x.artifact : x \in tick.rejected}

(* The artifacts up to n have an answer, and one only.                     *)
AnsweredTo(n) ==
  /\ tick.allocated \cup RefusedSoFar = 1..n
  /\ tick.allocated \cap RefusedSoFar = {}
  /\ \A x, y \in tick.rejected : x.artifact = y.artifact => x = y

Answers ==
  /\ tick.pc \in {"telemetry", "candidates"} =>
       tick.next = 1 /\ tick.allocated = {} /\ tick.rejected = {}
  /\ tick.pc = "allocate" => tick.next \in 1..Artifacts + 1 /\ AnsweredTo(tick.next - 1)
  /\ tick.pc \in {"persist", "link", "journal"} => AnsweredTo(Artifacts)

PersistedFirst == tick.pc \in {"link", "journal"} => Plan \in plans

-----------------------------------------------------------------------------
(* What a plan says is what was allocated and rejected.                    *)
LEMMA AllocatedInPlan == AllocatedIn(Plan) = tick.allocated
BY DEF AllocatedIn, Plan

LEMMA RejectedInPlan == RejectedIn(Plan) = RefusedSoFar /\ Plan.rejected = tick.rejected
BY DEF RejectedIn, Plan, RefusedSoFar

(* A plan an artifact's answers are read from: the plans in the tables, in *)
(* the link and in the decisions stay, and one comes from the tick.        *)
LEMMA PlansStep ==
  [Next]_vars => \A p \in Plans' : p \in Plans \/ (p = Plan /\ tick.pc \in {"persist", "link", "journal"})
<1> SUFFICES ASSUME [Next]_vars, NEW p \in Plans'
             PROVE  p \in Plans \/ (p = Plan /\ tick.pc \in {"persist", "link", "journal"})
  OBVIOUS
<1>1. CASE UNCHANGED <<plans, link, decisions>>
  BY <1>1 DEF Plans
<1>2. CASE Persist
  BY <1>2 DEF Plans, Persist
<1>3. CASE LinkSession
  BY <1>3 DEF Plans, LinkSession
<1>4. CASE Journal
  <2>1. Decision.plan = Plan
    BY DEF Decision
  <2>2. plans' = plans /\ link' = link /\ decisions' = decisions \cup {Decision} /\ tick.pc = "journal"
    BY <1>4 DEF Journal
  <2> QED
    BY <2>1, <2>2 DEF Plans
<1> QED
  BY <1>1, <1>2, <1>3, <1>4
  DEF Next, TickStep, vars, tables, world, ReadExposure, ReadTelemetry, LoadCandidates, Consider,
      ApplyRoles, TickCrashes, Override, Measure, Execute

(* Only what was allocated can be refused for its role.                    *)
LEMMA RefusedWereAllocated ==
  ASSUME NEW as PROVE RoleRefused(as) \subseteq as
BY DEF RoleRefused, OfRole

LEMMA ShapeStep == TickShape /\ [Next]_vars => TickShape'
<1> SUFFICES ASSUME TickShape, [Next]_vars PROVE TickShape'
  OBVIOUS
<1> USE DEF TickShape
<1>1. DOMAIN Idle = DOMAIN tick
  BY DEF Idle
<1>2. CASE ReadExposure
  BY <1>1, <1>2 DEF ReadExposure
<1>3. CASE ReadTelemetry
  BY <1>3 DEF ReadTelemetry
<1>4. CASE LoadCandidates
  BY <1>4 DEF LoadCandidates
<1>5. CASE Consider
  BY <1>5 DEF Consider
<1>6. CASE ApplyRoles
  BY <1>6 DEF ApplyRoles
<1>7. CASE Persist \/ LinkSession
  BY <1>7 DEF Persist, LinkSession
<1>8. CASE Journal \/ TickCrashes
  BY <1>1, <1>8 DEF Journal, TickCrashes
<1>9. ASSUME NEW a \in 1..Artifacts, NEW to \in Overrides, Override(a, to) PROVE TickShape'
  BY <1>9 DEF Override
<1>10. ASSUME NEW a \in 1..Artifacts, Measure(a) PROVE TickShape'
  BY <1>10 DEF Measure
<1>11. ASSUME NEW s \in Symbols, Execute(s) PROVE TickShape'
  BY <1>11 DEF Execute
<1>12. CASE UNCHANGED vars
  BY <1>12 DEF vars
<1> QED
  BY <1>2, <1>3, <1>4, <1>5, <1>6, <1>7, <1>8, <1>9, <1>10, <1>11, <1>12 DEF Next, TickStep

-----------------------------------------------------------------------------
(* An artifact that may not trade is never read as one that may.           *)
LEMMA BarredStep == TickShape /\ BarredOut /\ Answers /\ [Next]_vars => BarredOut'
<1> SUFFICES ASSUME TickShape, BarredOut, Answers, [Next]_vars PROVE BarredOut'
  OBVIOUS
<1> USE DEF TickShape, BarredOut, Allocating
<1>1. CASE ReadExposure
  BY <1>1 DEF ReadExposure, Idle, world
<1>2. CASE ReadTelemetry
  BY <1>2 DEF ReadTelemetry, world
<1>3. CASE LoadCandidates
  <2>1. stage' = stage /\ tick'.barred = tick.barred /\ tick'.pc = "allocate"
        /\ tick'.allocated = tick.allocated /\ tick.pc = "candidates"
    BY <1>3 DEF LoadCandidates, world
  <2>2. tick'.health = [a \in 1..Artifacts |-> Health(a)]
    BY <1>3 DEF LoadCandidates
  <2>3. \A a \in tick.barred : Health(a) \notin ActiveStages
    BY <2>1 DEF Health, ActiveStages
  <2>4. tick.allocated = {}
    BY <2>1 DEF Answers
  <2> QED
    BY <2>1, <2>2, <2>3, <2>4
<1>4. CASE Consider
  <2> DEFINE a == tick.next
  <2>1. stage' = stage /\ tick'.barred = tick.barred /\ tick'.pc = "allocate"
        /\ tick'.health = tick.health /\ tick.pc = "allocate"
    BY <1>4 DEF Consider, world
  <2>2. CASE Refusal(a) # "none"
    <3>1. tick'.allocated = tick.allocated
      BY <1>4, <2>2 DEF Consider
    <3> QED
      BY <2>1, <3>1
  <2>3. CASE Refusal(a) = "none"
    <3>1. tick'.allocated = tick.allocated \cup {a}
      BY <1>4, <2>3 DEF Consider
    <3>2. tick.health[a] \in ActiveStages
      BY <2>3 DEF Refusal, Ineligible
    <3> QED
      BY <2>1, <3>1, <3>2
  <2> QED
    BY <2>2, <2>3
<1>5. CASE ApplyRoles
  <2>1. stage' = stage /\ tick'.barred = tick.barred /\ tick'.pc = "persist"
        /\ tick'.health = tick.health /\ tick.pc = "allocate"
    BY <1>5 DEF ApplyRoles, world
  <2>2. tick'.allocated \subseteq tick.allocated
    BY <1>5 DEF ApplyRoles
  <2> QED
    BY <2>1, <2>2
<1>6. CASE Persist \/ LinkSession
  BY <1>6 DEF Persist, LinkSession, world
<1>7. CASE Journal \/ TickCrashes
  BY <1>7 DEF Journal, TickCrashes, Idle, world
<1>8. ASSUME NEW a \in 1..Artifacts, NEW to \in Overrides, Override(a, to) PROVE BarredOut'
  <2>1. stage' = [stage EXCEPT ![a] = to]
    BY <1>8 DEF Override
  <2>2. CASE to \in ActiveStages
    <3>1. tick' = [tick EXCEPT !.barred = @ \ {a}]
      BY <1>8, <2>2 DEF Override
    <3> QED
      BY <2>1, <3>1
  <2>3. CASE to \notin ActiveStages
    <3>1. tick' = tick
      BY <1>8, <2>3 DEF Override
    <3> QED
      BY <2>1, <2>3, <3>1
  <2> QED
    BY <2>2, <2>3
<1>9. ASSUME NEW a \in 1..Artifacts, Measure(a) PROVE BarredOut'
  BY <1>9 DEF Measure
<1>10. ASSUME NEW s \in Symbols, Execute(s) PROVE BarredOut'
  BY <1>10 DEF Execute
<1>11. CASE UNCHANGED vars
  BY <1>11 DEF vars
<1> QED
  BY <1>1, <1>2, <1>3, <1>4, <1>5, <1>6, <1>7, <1>8, <1>9, <1>10, <1>11 DEF Next, TickStep

(* The allocator answers the artifacts one by one, and what the second     *)
(* pass takes back is answered as well.                                    *)
LEMMA AnswersStep == TickShape /\ Answers /\ [Next]_vars => Answers'
<1> SUFFICES ASSUME TickShape, Answers, [Next]_vars PROVE Answers'
  OBVIOUS
<1> USE DEF TickShape
<1>1. CASE ReadExposure
  BY <1>1 DEF ReadExposure, Idle, Answers
<1>2. CASE ReadTelemetry
  BY <1>2 DEF ReadTelemetry, Answers
<1>3. CASE LoadCandidates
  <2>1. tick'.pc = "allocate" /\ tick'.next = 1 /\ tick'.allocated = {} /\ tick'.rejected = {}
    BY <1>3 DEF LoadCandidates, Answers
  <2>2. Artifacts \in Nat
    BY PaperPortfolioAssumption
  <2>3. 1 \in 1..Artifacts + 1 /\ 1..1 - 1 = {}
    BY <2>2
  <2>4. AnsweredTo(1 - 1)'
    BY <2>1, <2>3 DEF AnsweredTo, RefusedSoFar
  <2> QED
    BY <2>1, <2>3, <2>4 DEF Answers
<1>4. CASE Consider
  <2> PICK a : a = tick.next
    OBVIOUS
  <2> DEFINE entry == [artifact |-> a, reason |-> Refusal(a)]
  <2>1. tick.pc = "allocate" /\ a <= Artifacts /\ tick'.pc = "allocate" /\ tick'.next = a + 1
    BY <1>4 DEF Consider
  <2>2. a \in 1..Artifacts + 1 /\ Artifacts \in Nat /\ AnsweredTo(a - 1)
    BY <2>1, PaperPortfolioAssumption DEF Answers
  <2>3. 1..a = (1..a - 1) \cup {a} /\ (a + 1) - 1 = a /\ a \notin 1..a - 1 /\ a + 1 \in 1..Artifacts + 1
    BY <2>1, <2>2
  <2>4. CASE Refusal(a) # "none"
    <3>1. tick'.allocated = tick.allocated /\ tick'.rejected = tick.rejected \cup {entry}
      BY <1>4, <2>4 DEF Consider
    <3>2. entry.artifact = a
      OBVIOUS
    <3>3. RefusedSoFar' = RefusedSoFar \cup {a}
      BY <3>1, <3>2 DEF RefusedSoFar
    <3>4. AnsweredTo(a)'
      BY <2>2, <2>3, <3>1, <3>2, <3>3 DEF AnsweredTo, RefusedSoFar
    <3> QED
      BY <2>1, <2>3, <3>4 DEF Answers
  <2>5. CASE Refusal(a) = "none"
    <3>1. tick'.allocated = tick.allocated \cup {a} /\ tick'.rejected = tick.rejected
      BY <1>4, <2>5 DEF Consider
    <3>2. AnsweredTo(a)'
      BY <2>2, <2>3, <3>1 DEF AnsweredTo, RefusedSoFar
    <3> QED
      BY <2>1, <2>3, <3>2 DEF Answers
  <2> QED
    BY <2>4, <2>5
<1>5. CASE ApplyRoles
  <2> DEFINE refused == RoleRefused(tick.allocated)
             entries == {[artifact |-> a, reason |-> "role_crowding_limit"] : a \in refused}
  <2>1. tick.pc = "allocate" /\ tick.next > Artifacts /\ tick'.pc = "persist"
        /\ tick'.allocated = tick.allocated \ refused /\ tick'.rejected = tick.rejected \cup entries
    BY <1>5 DEF ApplyRoles
  <2>2. AnsweredTo(Artifacts)
    <3>1. tick.next \in 1..Artifacts + 1 /\ AnsweredTo(tick.next - 1) /\ Artifacts \in Nat
      BY <2>1, PaperPortfolioAssumption DEF Answers
    <3>2. tick.next - 1 = Artifacts
      BY <2>1, <3>1
    <3> QED
      BY <3>1, <3>2
  <2>3. refused \subseteq tick.allocated
    BY RefusedWereAllocated
  <2> HIDE DEF refused
  <2>4. \A x \in entries : x.artifact \in refused
        /\ x = [artifact |-> x.artifact, reason |-> "role_crowding_limit"]
    OBVIOUS
  <2>5. ASSUME NEW a \in refused PROVE \E x \in entries : x.artifact = a
    <3>1. [artifact |-> a, reason |-> "role_crowding_limit"].artifact = a
      OBVIOUS
    <3> QED
      BY <3>1
  <2> HIDE DEF entries
  <2>6. RefusedSoFar' = RefusedSoFar \cup refused
    <3>1. RefusedSoFar' = {x.artifact : x \in tick.rejected \cup entries}
      BY <2>1 DEF RefusedSoFar
    <3>2. {x.artifact : x \in entries} = refused
      BY <2>4, <2>5
    <3> QED
      BY <3>1, <3>2 DEF RefusedSoFar
  <2>7. \A x, y \in tick'.rejected : x.artifact = y.artifact => x = y
    BY <2>1, <2>2, <2>3, <2>4 DEF AnsweredTo, RefusedSoFar
  <2>8. AnsweredTo(Artifacts)'
    BY <2>1, <2>2, <2>3, <2>6, <2>7 DEF AnsweredTo
  <2> QED
    BY <2>1, <2>8 DEF Answers
<1>6. CASE Persist \/ LinkSession
  BY <1>6 DEF Persist, LinkSession, Answers, AnsweredTo, RefusedSoFar
<1>7. CASE Journal \/ TickCrashes
  BY <1>7 DEF Journal, TickCrashes, Idle, Answers
<1>8. ASSUME NEW a \in 1..Artifacts, NEW to \in Overrides, Override(a, to) PROVE Answers'
  BY <1>8 DEF Override, Answers, AnsweredTo, RefusedSoFar
<1>9. ASSUME NEW a \in 1..Artifacts, Measure(a) PROVE Answers'
  BY <1>9 DEF Measure, Answers, AnsweredTo, RefusedSoFar
<1>10. ASSUME NEW s \in Symbols, Execute(s) PROVE Answers'
  BY <1>10 DEF Execute, Answers, AnsweredTo, RefusedSoFar
<1>11. CASE UNCHANGED vars
  BY <1>11 DEF vars, Answers, AnsweredTo, RefusedSoFar
<1> QED
  BY <1>1, <1>2, <1>3, <1>4, <1>5, <1>6, <1>7, <1>8, <1>9, <1>10, <1>11 DEF Next, TickStep

(* A plan is in the table when the tick turns to the link and the journal. *)
LEMMA PersistedStep == TickShape /\ PersistedFirst /\ [Next]_vars => PersistedFirst'
<1> SUFFICES ASSUME TickShape, PersistedFirst, [Next]_vars PROVE PersistedFirst'
  OBVIOUS
<1> USE DEF TickShape
<1>1. CASE ReadExposure
  BY <1>1 DEF ReadExposure, Idle, PersistedFirst
<1>2. CASE ReadTelemetry
  BY <1>2 DEF ReadTelemetry, PersistedFirst
<1>3. CASE LoadCandidates
  BY <1>3 DEF LoadCandidates, PersistedFirst
<1>4. CASE Consider
  BY <1>4 DEF Consider, PersistedFirst
<1>5. CASE ApplyRoles
  BY <1>5 DEF ApplyRoles, PersistedFirst
<1>6. CASE Persist
  <2>1. tick' = [tick EXCEPT !.pc = "link"] /\ plans' = plans \cup {Plan}
    BY <1>6 DEF Persist
  <2>2. Plan' = Plan
    BY <2>1 DEF Plan
  <2> QED
    BY <2>1, <2>2 DEF PersistedFirst
<1>7. CASE LinkSession
  <2>1. tick.pc = "link" /\ tick' = [tick EXCEPT !.pc = "journal"] /\ plans' = plans
    BY <1>7 DEF LinkSession
  <2>2. Plan' = Plan
    BY <2>1 DEF Plan
  <2> QED
    BY <2>1, <2>2 DEF PersistedFirst
<1>8. CASE Journal \/ TickCrashes
  BY <1>8 DEF Journal, TickCrashes, Idle, PersistedFirst
<1>9. ASSUME NEW a \in 1..Artifacts, NEW to \in Overrides, Override(a, to) PROVE PersistedFirst'
  <2>1. plans' = plans /\ (tick' = tick \/ tick' = [tick EXCEPT !.barred = @ \ {a}])
    BY <1>9 DEF Override, tables
  <2>2. Plan' = Plan /\ tick'.pc = tick.pc
    BY <2>1 DEF Plan
  <2> QED
    BY <2>1, <2>2 DEF PersistedFirst
<1>10. ASSUME NEW a \in 1..Artifacts, Measure(a) PROVE PersistedFirst'
  BY <1>10 DEF Measure, tables, PersistedFirst, Plan
<1>11. ASSUME NEW s \in Symbols, Execute(s) PROVE PersistedFirst'
  BY <1>11 DEF Execute, tables, PersistedFirst, Plan
<1>12. CASE UNCHANGED vars
  BY <1>12 DEF vars, tables, PersistedFirst, Plan
<1> QED
  BY <1>1, <1>2, <1>3, <1>4, <1>5, <1>6, <1>7, <1>8, <1>9, <1>10, <1>11, <1>12 DEF Next, TickStep

-----------------------------------------------------------------------------
(* What the theorems rest on.                                              *)
IInv == TickShape /\ BarredOut /\ Answers /\ PersistedFirst

LEMMA InitIInv == Init => IInv
<1> SUFFICES ASSUME Init PROVE IInv
  OBVIOUS
<1>1. tick = Idle /\ stage = [a \in 1..Artifacts |-> "paper"]
  BY DEF Init
<1>2. DOMAIN tick = {"pc", "current", "held", "barred", "guarded", "unit", "health", "next",
                     "allocated", "rejected", "exposure", "gross", "drawdown"}
      /\ tick.pc = "idle" /\ tick.barred = {}
  BY <1>1 DEF Idle
<1> QED
  BY <1>1, <1>2 DEF IInv, TickShape, BarredOut, Allocating, Answers, PersistedFirst

LEMMA NextIInv == IInv /\ [Next]_vars => IInv'
BY ShapeStep, BarredStep, AnswersStep, PersistedStep DEF IInv

(* The tables hold no plan at first.                                       *)
LEMMA NoPlans == Init => Plans = {} /\ decisions = {} /\ link = {}
BY DEF Init, Plans

(* EveryCandidateAnswered, for any number of artifacts: a plan allocates   *)
(* or rejects each artifact of the session once, whatever happens between  *)
(* the transactions of the tick that made it (build_portfolio_plan).       *)
THEOREM ArtifactsAnswered == Spec => []EveryCandidateAnswered
<1>1. Init => EveryCandidateAnswered
  BY NoPlans DEF EveryCandidateAnswered
<1>2. IInv /\ EveryCandidateAnswered /\ [Next]_vars => EveryCandidateAnswered'
  <2> SUFFICES ASSUME IInv, EveryCandidateAnswered, [Next]_vars, NEW p \in Plans'
               PROVE  /\ AllocatedIn(p) \cup RejectedIn(p) = 1..Artifacts
                      /\ AllocatedIn(p) \cap RejectedIn(p) = {}
                      /\ \A x, y \in p.rejected : x.artifact = y.artifact => x = y
                      /\ p.accepted <=> AllocatedIn(p) = 1..Artifacts /\ Artifacts > 0
    BY DEF EveryCandidateAnswered, AllocatedIn, RejectedIn
  <2>1. CASE p \in Plans
    BY <2>1 DEF EveryCandidateAnswered
  <2>2. CASE p = Plan /\ tick.pc \in {"persist", "link", "journal"}
    <3>1. AnsweredTo(Artifacts)
      BY <2>2 DEF IInv, Answers
    <3>2. AllocatedIn(p) = tick.allocated /\ RejectedIn(p) = RefusedSoFar /\ p.rejected = tick.rejected
      BY <2>2, AllocatedInPlan, RejectedInPlan
    <3>3. p.accepted <=> tick.allocated # {} /\ tick.rejected = {}
      BY <2>2 DEF Plan
    <3>4. tick.rejected = {} <=> RefusedSoFar = {}
      BY DEF RefusedSoFar
    <3>5. Artifacts \in Nat /\ (1..Artifacts # {} <=> Artifacts > 0)
      <4>1. Artifacts \in Nat
        BY PaperPortfolioAssumption
      <4>2. CASE Artifacts > 0
        <5>1. 1 \in 1..Artifacts
          BY <4>1, <4>2
        <5> QED
          BY <4>1, <4>2, <5>1
      <4>3. CASE Artifacts = 0
        BY <4>3
      <4> QED
        BY <4>1, <4>2, <4>3
    <3>6. tick.allocated # {} /\ RefusedSoFar = {} <=> tick.allocated = 1..Artifacts /\ Artifacts > 0
      BY <3>1, <3>5 DEF AnsweredTo
    <3> QED
      BY <3>1, <3>2, <3>3, <3>4, <3>6 DEF AnsweredTo
  <2> QED
    BY <2>1, <2>2, PlansStep
<1> QED
  BY InitIInv, NextIInv, <1>1, <1>2, PTL DEF Spec

(* PausedStaysOut, for any number of artifacts and overrides: what was     *)
(* paused before the tick and not resumed during it is in no decision      *)
(* (_load_candidates, rollout_stage before lifecycle_state).               *)
THEOREM PausedNeverAllocated == Spec => []PausedStaysOut
<1>1. Init => PausedStaysOut
  BY NoPlans DEF PausedStaysOut
<1>2. IInv /\ PausedStaysOut /\ [Next]_vars => PausedStaysOut'
  <2> SUFFICES ASSUME IInv, PausedStaysOut, [Next]_vars, NEW d \in decisions'
               PROVE  d.barred \cap AllocatedIn(d.plan) = {}
    BY DEF PausedStaysOut, AllocatedIn
  <2>1. CASE d \in decisions
    BY <2>1 DEF PausedStaysOut
  <2>2. CASE d \notin decisions
    <3>1. d = Decision /\ tick.pc = "journal"
      BY <2>2 DEF Next, TickStep, vars, tables, world, ReadExposure, ReadTelemetry, LoadCandidates,
                  Consider, ApplyRoles, Persist, LinkSession, Journal, TickCrashes, Override, Measure,
                  Execute
    <3>2. d.barred = tick.barred /\ d.plan = Plan
      BY <3>1 DEF Decision
    <3>3. tick.barred \cap tick.allocated = {}
      BY <3>1 DEF IInv, BarredOut, Allocating
    <3> QED
      BY <3>2, <3>3, AllocatedInPlan
  <2> QED
    BY <2>1, <2>2
<1> QED
  BY InitIInv, NextIInv, <1>1, <1>2, PTL DEF Spec

(* LinkedPlanPersisted, wherever a tick dies: what the session and the     *)
(* journal refer to is in portfolio_plans (run_paper_portfolio_allocator_  *)
(* tick persists before it links and journals).                            *)
THEOREM NothingDangles == Spec => []LinkedPlanPersisted
<1>1. Init => LinkedPlanPersisted
  BY NoPlans DEF LinkedPlanPersisted
<1>2. IInv /\ LinkedPlanPersisted /\ [Next]_vars => LinkedPlanPersisted'
  <2> SUFFICES ASSUME IInv, LinkedPlanPersisted, [Next]_vars PROVE LinkedPlanPersisted'
    OBVIOUS
  <2>1. CASE Persist
    BY <2>1 DEF Persist, LinkedPlanPersisted
  <2>2. CASE LinkSession
    BY <2>2 DEF LinkSession, LinkedPlanPersisted, IInv, PersistedFirst
  <2>3. CASE Journal
    <3>1. Decision.plan = Plan
      BY DEF Decision
    <3>2. plans' = plans /\ link' = link /\ decisions' = decisions \cup {Decision} /\ tick.pc = "journal"
      BY <2>3 DEF Journal
    <3> QED
      BY <3>1, <3>2 DEF LinkedPlanPersisted, IInv, PersistedFirst
  <2>4. CASE UNCHANGED <<plans, link, decisions>>
    BY <2>4 DEF LinkedPlanPersisted
  <2> QED
    BY <2>1, <2>2, <2>3, <2>4
    DEF Next, TickStep, vars, tables, world, ReadExposure, ReadTelemetry, LoadCandidates, Consider,
        ApplyRoles, TickCrashes, Override, Measure, Execute
<1> QED
  BY InitIInv, NextIInv, <1>1, <1>2, PTL DEF Spec

-----------------------------------------------------------------------------
(* Sums in artifact_id order                                               *)

(* What stands in for induction: a smallest counterexample.                *)
LEMMA LeastOfNaturals ==
  ASSUME NEW S \in SUBSET Nat, S # {}
  PROVE  \E x \in S : \A y \in S : x <= y
<1> DEFINE Less == {ss \in Nat \X Nat : ss[1] < ss[2]}
<1>1. IsWellFoundedOn(Less, Nat)
  BY NatLessThanWellFounded, Zenon DEF OpToRel
<1> HIDE DEF Less
<1>2. PICK x \in S : \A y \in S : ~(<<y, x>> \in Less)
  BY <1>1, WFMin, Zenon
<1>3. ASSUME NEW y \in S PROVE x <= y
  <2>1. x \in Nat /\ y \in Nat /\ <<y, x>> \notin Less
    BY <1>2
  <2>2. ~(y < x)
    BY <2>1 DEF Less
  <2> QED
    BY <2>1, <2>2
<1> QED
  BY <1>3

TermOf(these, f, n) == IF n \in these THEN f[n] ELSE 0

(* g holds the sums of the first terms.                                    *)
SumAt(these, f, g, n) == IF n = 0 THEN 0 ELSE g[n - 1] + TermOf(these, f, n)

IsSum(these, f, m, g) == g = [n \in 0..m |-> SumAt(these, f, g, n)]

NatTerms(these, f) == these \subseteq 1..Artifacts /\ \A a \in these : f[a] \in Nat

LEMMA SumExtends ==
  ASSUME NEW these, NEW f, NEW m \in Nat, NEW g, IsSum(these, f, m, g)
  PROVE  \E h : IsSum(these, f, m + 1, h)
<1> DEFINE h == [n \in 0..(m + 1) |-> IF n \in 0..m THEN g[n] ELSE g[m] + TermOf(these, f, m + 1)]
<1>1. ASSUME NEW n \in 0..(m + 1) PROVE h[n] = SumAt(these, f, h, n)
  <2>1. CASE n = m + 1
    <3>1. n # 0 /\ n - 1 = m /\ m \in 0..m /\ m \in 0..(m + 1) /\ n \notin 0..m
      BY <2>1
    <3>2. h[m] = g[m] /\ h[n] = g[m] + TermOf(these, f, m + 1)
      BY <3>1
    <3> HIDE DEF h
    <3> QED
      BY <2>1, <3>1, <3>2 DEF SumAt
  <2>2. CASE n # m + 1
    <3>1. n \in 0..m /\ (n # 0 => n - 1 \in 0..m /\ n - 1 \in 0..(m + 1))
      BY <2>2
    <3>2. h[n] = g[n] /\ (n # 0 => h[n - 1] = g[n - 1])
      BY <3>1
    <3>3. g[n] = SumAt(these, f, g, n)
      BY <3>1 DEF IsSum
    <3> HIDE DEF h
    <3> QED
      BY <3>2, <3>3 DEF SumAt
  <2> QED
    BY <2>1, <2>2
<1>2. h = [n \in 0..(m + 1) |-> h[n]]
  OBVIOUS
<1> HIDE DEF h
<1> QED
  BY <1>1, <1>2 DEF IsSum

LEMMA SumExists ==
  ASSUME NEW these, NEW f, NEW m \in Nat
  PROVE  \E g : IsSum(these, f, m, g)
<1> DEFINE Without == {n \in Nat : ~\E g : IsSum(these, f, n, g)}
<1>1. Without = {}
  <2> SUFFICES ASSUME Without # {} PROVE FALSE
    OBVIOUS
  <2>1. PICK n \in Without : \A k \in Without : n <= k
    BY LeastOfNaturals
  <2>2. CASE n = 0
    <3> DEFINE g == [k \in 0..0 |-> 0]
    <3>1. IsSum(these, f, 0, g)
      BY DEF IsSum, SumAt
    <3> QED
      BY <2>2, <3>1
  <2>3. CASE n # 0
    <3>1. n - 1 \in Nat /\ (n - 1) + 1 = n /\ ~(n <= n - 1) /\ n \in Nat
      BY <2>3
    <3>2. \E g : IsSum(these, f, n - 1, g)
      BY <2>1, <3>1
    <3>3. \E h : IsSum(these, f, (n - 1) + 1, h)
      BY <3>1, <3>2, SumExtends
    <3> QED
      BY <3>1, <3>3
  <2> QED
    BY <2>2, <2>3
<1> QED
  BY <1>1

LEMMA SumIs ==
  ASSUME NEW these, NEW f
  PROVE  \E g : IsSum(these, f, Artifacts, g) /\ Sum(these, f) = g[Artifacts]
<1> DEFINE g == CHOOSE h : IsSum(these, f, Artifacts, h)
<1>1. IsSum(these, f, Artifacts, g)
  BY SumExists, PaperPortfolioAssumption, Zenon
<1>2. Sum(these, f) = g[Artifacts]
  BY Zenon DEF Sum, IsSum, SumAt, TermOf
<1> QED
  BY <1>1, <1>2

LEMMA TermIsNat ==
  ASSUME NEW these, NEW f, NatTerms(these, f), NEW n
  PROVE  TermOf(these, f, n) \in Nat
BY DEF NatTerms, TermOf

(* Sums are compared term by term.                                         *)
LEMMA SumsCompared ==
  ASSUME NEW these, NEW f, NatTerms(these, f), NEW those, NEW g, NatTerms(those, g),
         \A n \in 1..Artifacts : TermOf(those, g, n) <= TermOf(these, f, n)
  PROVE  /\ Sum(these, f) \in Nat /\ Sum(those, g) \in Nat
         /\ Sum(those, g) <= Sum(these, f)
<1>1. PICK u : IsSum(these, f, Artifacts, u) /\ Sum(these, f) = u[Artifacts]
  BY SumIs
<1>2. PICK v : IsSum(those, g, Artifacts, v) /\ Sum(those, g) = v[Artifacts]
  BY SumIs
<1>0. Artifacts \in Nat
  BY PaperPortfolioAssumption
<1> DEFINE Right(n) == u[n] \in Nat /\ v[n] \in Nat /\ v[n] <= u[n]
           Bad == {n \in 0..Artifacts : ~Right(n)}
<1>3. Bad = {}
  <2> SUFFICES ASSUME Bad # {} PROVE FALSE
    OBVIOUS
  <2>1. Bad \subseteq Nat
    BY <1>0
  <2>2. PICK n \in Bad : \A k \in Bad : n <= k
    BY <2>1, LeastOfNaturals
  <2>3. u[n] = SumAt(these, f, u, n) /\ v[n] = SumAt(those, g, v, n)
    BY <1>1, <1>2 DEF IsSum
  <2>4. CASE n = 0
    BY <2>2, <2>3, <2>4 DEF SumAt
  <2>5. CASE n # 0
    <3>1. n \in 1..Artifacts /\ n - 1 \in 0..Artifacts /\ ~(n <= n - 1)
      BY <1>0, <2>1, <2>5
    <3>2. Right(n - 1)
      BY <2>2, <3>1
    <3>3. u[n] = u[n - 1] + TermOf(these, f, n) /\ v[n] = v[n - 1] + TermOf(those, g, n)
      BY <2>3, <2>5 DEF SumAt
    <3>4. TermOf(these, f, n) \in Nat /\ TermOf(those, g, n) \in Nat /\ TermOf(those, g, n) <= TermOf(these, f, n)
      BY <3>1, TermIsNat
    <3>5. Right(n)
      <4>1. u[n] \in Nat
        BY ONLY <3>2, <3>3, <3>4
      <4>2. v[n] \in Nat
        BY ONLY <3>2, <3>3, <3>4
      <4>3. v[n] <= u[n]
        BY ONLY <3>2, <3>3, <3>4
      <4> QED
        BY <4>1, <4>2, <4>3
    <3> QED
      BY <2>2, <3>5
  <2> QED
    BY <2>4, <2>5
<1>4. Right(Artifacts)
  BY <1>0, <1>3
<1> QED
  BY <1>1, <1>2, <1>4

LEMMA SumOfFewer ==
  ASSUME NEW these, NEW f, NatTerms(these, f), NEW those \in SUBSET these
  PROVE  Sum(these, f) \in Nat /\ Sum(those, f) \in Nat /\ Sum(those, f) <= Sum(these, f)
<1>1. NatTerms(those, f)
  BY DEF NatTerms
<1>2. ASSUME NEW n \in 1..Artifacts PROVE TermOf(those, f, n) <= TermOf(these, f, n)
  <2>1. CASE n \in those
    <3>1. TermOf(those, f, n) = f[n] /\ TermOf(these, f, n) = f[n] /\ f[n] \in Nat
      BY <2>1 DEF NatTerms, TermOf
    <3> QED
      BY ONLY <3>1
  <2>2. CASE n \notin those
    <3>1. TermOf(those, f, n) = 0 /\ TermOf(these, f, n) \in Nat
      BY <2>2, TermIsNat DEF TermOf
    <3> QED
      BY ONLY <3>1
  <2> QED
    BY <2>1, <2>2
<1> QED
  BY <1>1, <1>2, SumsCompared

LEMMA SumOfSame ==
  ASSUME NEW these, NEW f, NatTerms(these, f), NEW g, \A a \in these : g[a] = f[a]
  PROVE  Sum(these, g) = Sum(these, f)
<1>1. NatTerms(these, g)
  BY DEF NatTerms
<1>2. ASSUME NEW n \in 1..Artifacts
      PROVE  TermOf(these, g, n) <= TermOf(these, f, n) /\ TermOf(these, f, n) <= TermOf(these, g, n)
  <2>1. TermOf(these, g, n) = TermOf(these, f, n)
    BY DEF TermOf
  <2>2. TermOf(these, f, n) \in Nat
    BY TermIsNat
  <2> QED
    BY ONLY <2>1, <2>2
<1>3. Sum(these, f) \in Nat /\ Sum(these, g) \in Nat
  BY <1>1, <1>2, SumsCompared
<1>4. Sum(these, g) <= Sum(these, f)
  BY <1>1, <1>2, SumsCompared
<1>5. Sum(these, f) <= Sum(these, g)
  BY <1>1, <1>2, SumsCompared
<1> QED
  BY ONLY <1>3, <1>4, <1>5

LEMMA SumOfNone ==
  ASSUME NEW f PROVE Sum({}, f) = 0
<1>1. PICK u : IsSum({}, f, Artifacts, u) /\ Sum({}, f) = u[Artifacts]
  BY SumIs
<1>0. Artifacts \in Nat
  BY PaperPortfolioAssumption
<1> DEFINE Bad == {n \in 0..Artifacts : u[n] # 0}
<1>2. Bad = {}
  <2> SUFFICES ASSUME Bad # {} PROVE FALSE
    OBVIOUS
  <2>1. Bad \subseteq Nat
    BY <1>0
  <2>2. PICK n \in Bad : \A k \in Bad : n <= k
    BY <2>1, LeastOfNaturals
  <2>3. u[n] = IF n = 0 THEN 0 ELSE u[n - 1] + 0
    BY <1>1 DEF IsSum, SumAt, TermOf
  <2>4. n # 0 /\ n \in Nat
    BY <2>1, <2>3
  <2>5. n - 1 \in 0..Artifacts /\ ~(n <= n - 1)
    BY <1>0, <2>4
  <2>6. u[n - 1] = 0
    BY <2>2, <2>5
  <2> QED
    BY <2>3, <2>6
<1> QED
  BY <1>0, <1>1, <1>2

LEMMA SumOfOneMore ==
  ASSUME NEW these, NEW f, NEW a \in 1..Artifacts, a \notin these, NatTerms(these \cup {a}, f)
  PROVE  Sum(these, f) \in Nat /\ Sum(these \cup {a}, f) = Sum(these, f) + f[a]
<1> DEFINE those == these \cup {a}
<1>1. PICK u : IsSum(these, f, Artifacts, u) /\ Sum(these, f) = u[Artifacts]
  BY SumIs
<1>2. PICK v : IsSum(those, f, Artifacts, v) /\ Sum(those, f) = v[Artifacts]
  BY SumIs
<1>0. Artifacts \in Nat /\ f[a] \in Nat /\ NatTerms(these, f)
  BY PaperPortfolioAssumption DEF NatTerms
<1> DEFINE After(n) == IF a <= n THEN f[a] ELSE 0
           Right(n) == u[n] \in Nat /\ v[n] = u[n] + After(n)
           Bad == {n \in 0..Artifacts : ~Right(n)}
<1>3. Bad = {}
  <2> SUFFICES ASSUME Bad # {} PROVE FALSE
    OBVIOUS
  <2>1. Bad \subseteq Nat
    BY <1>0
  <2>2. PICK n \in Bad : \A k \in Bad : n <= k
    BY <2>1, LeastOfNaturals
  <2>3. u[n] = SumAt(these, f, u, n) /\ v[n] = SumAt(those, f, v, n)
    BY <1>1, <1>2 DEF IsSum
  <2>4. CASE n = 0
    <3>1. u[n] = 0 /\ v[n] = 0 /\ ~(a <= n)
      BY <1>0, <2>3, <2>4 DEF SumAt
    <3> QED
      BY <2>2, <3>1
  <2>5. CASE n # 0
    <3>1. n \in 1..Artifacts /\ n - 1 \in 0..Artifacts /\ ~(n <= n - 1)
      BY <1>0, <2>1, <2>5
    <3>2. u[n - 1] \in Nat /\ v[n - 1] = u[n - 1] + After(n - 1)
      BY <2>2, <3>1
    <3>3. u[n] = u[n - 1] + TermOf(these, f, n) /\ v[n] = v[n - 1] + TermOf(those, f, n)
      BY <2>3, <2>5 DEF SumAt
    <3>4. TermOf(these, f, n) \in Nat
      BY <1>0, TermIsNat
    <3>5. Right(n)
      <4>1. CASE n = a
        <5>1. TermOf(these, f, n) = 0 /\ TermOf(those, f, n) = f[a]
          BY <4>1 DEF TermOf
        <5>2. After(n) = f[a] /\ After(n - 1) = 0
          BY <1>0, <3>1, <4>1
        <5> HIDE DEF After
        <5> QED
          BY <1>0, <3>2, <3>3, <3>4, <5>1, <5>2
      <4>2. CASE n # a
        <5>1. TermOf(those, f, n) = TermOf(these, f, n)
          BY <4>2 DEF TermOf
        <5>2. After(n) = After(n - 1) /\ After(n) \in Nat
          BY <1>0, <3>1, <4>2
        <5> HIDE DEF After
        <5>3. u[n] \in Nat
          BY ONLY <3>2, <3>3, <3>4
        <5>4. v[n] = u[n] + After(n)
          BY ONLY <3>2, <3>3, <3>4, <5>1, <5>2
        <5> QED
          BY <5>3, <5>4
      <4> QED
        BY <4>1, <4>2
    <3> QED
      BY <2>2, <3>5
  <2> QED
    BY <2>4, <2>5
<1>4. Right(Artifacts) /\ a <= Artifacts
  BY <1>0, <1>3
<1> QED
  BY <1>1, <1>2, <1>4

-----------------------------------------------------------------------------
(* Units and notionals                                                     *)

LEMMA LeastIs ==
  ASSUME NEW S \in SUBSET Nat, S # {}
  PROVE  Min(S) \in S /\ \A y \in S : Min(S) <= y
BY LeastOfNaturals, Zenon DEF Min

LEMMA LargerIsNat ==
  ASSUME NEW k \in Int PROVE Max({0, k}) \in Nat
<1>1. \E x \in {0, k} : \A y \in {0, k} : x >= y
  <2>1. CASE k <= 0
    <3>1. \A y \in {0, k} : 0 >= y
      BY <2>1
    <3> QED
      BY <3>1
  <2>2. CASE ~(k <= 0)
    <3>1. \A y \in {0, k} : k >= y
      BY <2>2
    <3> QED
      BY <3>1
  <2> QED
    BY <2>1, <2>2
<1>2. Max({0, k}) \in {0, k} /\ \A y \in {0, k} : Max({0, k}) >= y
  BY <1>1, Zenon DEF Max
<1> HIDE DEF Max
<1>3. Max({0, k}) >= 0
  BY <1>2
<1> QED
  BY <1>2, <1>3

(* A session's artifacts are records of the declared kinds.                *)
LEMMA ProfileOf ==
  ASSUME profile \in Profiles, NEW a \in 1..Artifacts
  PROVE  /\ profile[a] \in Profile
         /\ Scope(a) \subseteq Symbols /\ Cardinality(Scope(a)) \in Nat
         /\ profile[a].unit \in Nat /\ profile[a].cap \in Nat /\ profile[a].drawdown \in Nat
<1>1. profile \in [1..Artifacts -> Profile]
  BY PaperPortfolioAssumption
<1>2. profile[a] \in Profile
  BY <1>1
<1>3. Scope(a) \subseteq Symbols /\ profile[a].unit \in Nat /\ profile[a].cap \in Nat
      /\ profile[a].drawdown \in Nat
  BY <1>2 DEF Profile, Scope
<1>4. Cardinality(Scope(a)) \in Nat
  <2>1. IsFiniteSet(Symbols)
    BY PaperPortfolioAssumption
  <2>2. IsFiniteSet(Scope(a))
    BY <1>3, <2>1, FS_Subset, Zenon
  <2> QED
    BY <2>2, FS_CardinalityType, Zenon
<1> QED
  BY <1>2, <1>3, <1>4

LEMMA ResizedIsNat ==
  ASSUME profile \in Profiles, tick.current \in [Symbols -> Nat], NEW a \in 1..Artifacts
  PROVE  Resized(a) \in Nat
<1>1. profile[a].unit \in Nat /\ Scope(a) \subseteq Symbols
  BY ProfileOf
<1>2. CASE Scope(a) = {}
  BY <1>1, <1>2 DEF Resized
<1>3. CASE Scope(a) # {}
  <2> DEFINE Room == {Max({0, MaxPerSymbol - tick.current[s]}) : s \in Scope(a)}
  <2>1. ASSUME NEW s \in Scope(a) PROVE Max({0, MaxPerSymbol - tick.current[s]}) \in Nat
    <3>1. tick.current[s] \in Nat /\ MaxPerSymbol \in Nat
      BY <1>1, PaperPortfolioAssumption
    <3>2. MaxPerSymbol - tick.current[s] \in Int
      BY <3>1
    <3> QED
      BY <3>2, LargerIsNat
  <2>2. Room \in SUBSET Nat
    BY <2>1
  <2>3. Resized(a) = Min({profile[a].unit} \cup Room)
    BY <1>3 DEF Resized
  <2> HIDE DEF Room
  <2>4. {profile[a].unit} \cup Room \in SUBSET Nat /\ {profile[a].unit} \cup Room # {}
    BY <1>1, <2>2
  <2>5. Min({profile[a].unit} \cup Room) \in {profile[a].unit} \cup Room
    BY <2>4, LeastIs, Zenon
  <2> QED
    BY <2>3, <2>4, <2>5
<1> QED
  BY <1>2, <1>3

LEMMA UnitIsNat ==
  ASSUME profile \in Profiles, tick.current \in [Symbols -> Nat], NEW a \in 1..Artifacts
  PROVE  Min({Resized(a), profile[a].cap}) \in Nat
<1>1. Resized(a) \in Nat /\ profile[a].cap \in Nat
  BY ResizedIsNat, ProfileOf
<1>2. {Resized(a), profile[a].cap} \in SUBSET Nat /\ {Resized(a), profile[a].cap} # {}
  BY <1>1
<1>3. Min({Resized(a), profile[a].cap}) \in {Resized(a), profile[a].cap}
  BY <1>2, LeastIs, Zenon
<1> QED
  BY <1>1, <1>3

Units == tick.unit \in [1..Artifacts -> Nat]

(* The notionals and losses the sums are made of.                          *)
NotionalOf == [a \in 1..Artifacts |-> Notional(a)]

LossOf == [a \in 1..Artifacts |-> Notional(a) * profile[a].drawdown]

Holding(these, s) == {a \in these : s \in Scope(a)}

LEMMA ProductIsNat ==
  ASSUME NEW x \in Nat, NEW y \in Nat PROVE x * y \in Nat
OBVIOUS

LEMMA NotionalIsNat ==
  ASSUME profile \in Profiles, Units, NEW a \in 1..Artifacts
  PROVE  /\ tick.unit[a] \in Nat /\ Notional(a) \in Nat
         /\ Notional(a) * profile[a].drawdown \in Nat
<1>1. tick.unit[a] \in Nat
  BY DEF Units
<1>2. Cardinality(Scope(a)) \in Nat /\ profile[a].drawdown \in Nat
  BY ProfileOf
<1>3. Notional(a) \in Nat
  BY <1>1, <1>2, ProductIsNat, Zenon DEF Notional
<1>4. Notional(a) * profile[a].drawdown \in Nat
  BY <1>2, <1>3, ProductIsNat, Zenon
<1> QED
  BY <1>1, <1>3, <1>4

(* What an allocation is made of is counted in naturals.                   *)
LEMMA TermsAreNat ==
  ASSUME profile \in Profiles, Units, NEW these \in SUBSET (1..Artifacts)
  PROVE  /\ NatTerms(these, NotionalOf) /\ NatTerms(these, LossOf)
         /\ \A s \in Symbols : NatTerms(Holding(these, s), tick.unit)
<1>1. \A a \in these : NotionalOf[a] \in Nat /\ LossOf[a] \in Nat /\ tick.unit[a] \in Nat
  BY NotionalIsNat DEF NotionalOf, LossOf
<1> QED
  BY <1>1 DEF NatTerms, Holding

LEMMA TotalsAreSums ==
  ASSUME NEW these
  PROVE  /\ TotalOf(these) = Sum(these, NotionalOf) /\ DrawdownOf(these) = Sum(these, LossOf)
         /\ ExposureOf(these) = [s \in Symbols |-> Sum(Holding(these, s), tick.unit)]
BY Zenon DEF TotalOf, DrawdownOf, ExposureOf, NotionalOf, LossOf, Holding

-----------------------------------------------------------------------------
(* Limits                                                                  *)

(* The types the sums rest on.                                             *)
TickTyped ==
  /\ profile \in Profiles
  /\ filled \in [Symbols -> Nat]
  /\ tick.current \in [Symbols -> Nat]
  /\ tick.pc \in Allocating => Units

(* The tick's totals are those of what it has allocated.                   *)
Booked ==
  /\ tick.allocated \subseteq 1..Artifacts
  /\ tick.exposure = [s \in Symbols |-> Sum(Holding(tick.allocated, s), tick.unit)]
  /\ tick.gross = Sum(tick.allocated, NotionalOf)
  /\ tick.drawdown = Sum(tick.allocated, LossOf)

WithinLimits ==
  /\ \A s \in Symbols : tick.exposure[s] <= MaxPerSymbol
  /\ tick.gross <= MaxGross
  /\ tick.drawdown <= DrawdownBudget
  /\ \A a, b \in tick.allocated : a < b => ~Crowds(b, a)

Budget ==
  /\ tick.pc \in {"telemetry", "candidates"} =>
       tick.exposure = Zero /\ tick.gross = 0 /\ tick.drawdown = 0
  /\ tick.pc \in Allocating => Booked /\ WithinLimits

(* Types of what a tick does not carry.                                    *)
WorldTyped ==
  /\ stage \in [1..Artifacts -> ActiveStages \cup Overrides]
  /\ guarded \in [1..Artifacts -> BOOLEAN]
  /\ net \in [Symbols -> Int] /\ intents \in [Symbols -> Int]
  /\ tick.pc \in Allocating \cup {"idle", "telemetry", "candidates"}
  /\ ticks \in 0..MaxTicks /\ changes \in 0..MaxChanges

LEMMA IdleTick ==
  /\ DOMAIN Idle = {"pc", "current", "held", "barred", "guarded", "unit", "health", "next",
                    "allocated", "rejected", "exposure", "gross", "drawdown"}
  /\ Idle.pc = "idle" /\ Idle.current = Zero /\ Idle.exposure = Zero
  /\ Idle.gross = 0 /\ Idle.drawdown = 0 /\ Idle.allocated = {}
  /\ Zero \in [Symbols -> Nat]
BY DEF Idle, Zero

(* Nothing that is allocated, measured or executed changes a declaration.  *)
LEMMA ProfileStays == [Next]_vars => profile' = profile
BY DEF Next, TickStep, vars, tables, world, ReadExposure, ReadTelemetry, LoadCandidates, Consider,
       ApplyRoles, Persist, LinkSession, Journal, TickCrashes, Override, Measure, Execute

(* Within a tick only the allocator touches what the limits are about.     *)
SameBook ==
  /\ tick'.unit = tick.unit /\ tick'.allocated = tick.allocated /\ tick'.exposure = tick.exposure
  /\ tick'.gross = tick.gross /\ tick'.drawdown = tick.drawdown

LEMMA TermsStay ==
  ASSUME profile' = profile, tick'.unit = tick.unit
  PROVE  /\ NotionalOf' = NotionalOf /\ LossOf' = LossOf
         /\ \A these, s : Holding(these, s)' = Holding(these, s)
<1>1. \A a : Notional(a)' = Notional(a) /\ Scope(a)' = Scope(a)
  BY DEF Notional, Scope
<1>2. NotionalOf' = NotionalOf
  BY <1>1, Zenon DEF NotionalOf
<1>3. LossOf' = LossOf
  BY <1>1, Zenon DEF LossOf
<1>4. ASSUME NEW these, NEW s PROVE Holding(these, s)' = Holding(these, s)
  BY <1>1, Zenon DEF Holding
<1> QED
  BY <1>2, <1>3, <1>4

LEMMA BudgetStays ==
  ASSUME profile' = profile, SameBook, Booked, WithinLimits
  PROVE  Booked' /\ WithinLimits'
<1>1. NotionalOf' = NotionalOf /\ LossOf' = LossOf
  BY TermsStay, Zenon DEF SameBook
<1>2. \A s : {a \in tick'.allocated : s \in Scope(a)'} = {a \in tick.allocated : s \in Scope(a)}
  <2>1. \A a : Scope(a)' = Scope(a)
    BY DEF Scope
  <2> QED
    BY <2>1, Zenon DEF SameBook
<1>3. tick'.exposure = [s \in Symbols |-> Sum({a \in tick'.allocated : s \in Scope(a)'}, tick'.unit)]
  BY <1>2, Zenon DEF SameBook, Booked, Holding
<1>4. tick'.gross = Sum(tick'.allocated, NotionalOf') /\ tick'.drawdown = Sum(tick'.allocated, LossOf')
  BY <1>1, Zenon DEF SameBook, Booked
<1>5. Booked'
  BY <1>3, <1>4, Zenon DEF SameBook, Booked, Holding
<1>6. WithinLimits'
  BY DEF SameBook, WithinLimits, Crowds
<1> QED
  BY <1>5, <1>6

(* The units are naturals once they are computed, from an exposure that is.*)
LEMMA TypedStep == TickShape /\ TickTyped /\ WorldTyped /\ [Next]_vars => TickTyped'
<1> SUFFICES ASSUME TickShape, TickTyped, WorldTyped, [Next]_vars PROVE TickTyped'
  OBVIOUS
<1> USE DEF TickShape, Allocating
<1>0. profile' \in Profiles
  BY ProfileStays DEF TickTyped
<1>1. CASE ReadExposure
  <2>1. tick'.current = filled /\ tick'.pc = "telemetry" /\ filled' = filled
    BY <1>1, IdleTick DEF ReadExposure, world
  <2> QED
    BY <1>0, <2>1 DEF TickTyped
<1>2. CASE ReadTelemetry
  BY <1>0, <1>2 DEF ReadTelemetry, TickTyped, world
<1>3. CASE LoadCandidates
  <2>1. tick'.current = tick.current /\ filled' = filled
        /\ tick'.unit = [a \in 1..Artifacts |-> Min({Resized(a), profile[a].cap})]
    BY <1>3 DEF LoadCandidates, world
  <2>2. \A a \in 1..Artifacts : Min({Resized(a), profile[a].cap}) \in Nat
    BY UnitIsNat DEF TickTyped
  <2>3. Units'
    BY <2>1, <2>2, Zenon DEF Units
  <2> QED
    BY <1>0, <2>1, <2>3 DEF TickTyped
<1>4. CASE Consider \/ ApplyRoles
  <2>1. tick'.unit = tick.unit /\ tick'.current = tick.current /\ tick.pc = "allocate" /\ filled' = filled
    BY <1>4 DEF Consider, ApplyRoles, world
  <2> QED
    BY <1>0, <2>1 DEF TickTyped, Units
<1>5. CASE Persist \/ LinkSession
  BY <1>0, <1>5 DEF Persist, LinkSession, TickTyped, Units, world
<1>6. CASE Journal \/ TickCrashes
  <2>1. tick' = Idle /\ filled' = filled
    BY <1>6 DEF Journal, TickCrashes, world
  <2>2. tick'.pc = "idle" /\ tick'.current \in [Symbols -> Nat]
    BY <2>1, IdleTick
  <2> QED
    BY <1>0, <2>1, <2>2 DEF TickTyped
<1>7. ASSUME NEW a \in 1..Artifacts, NEW to \in Overrides, Override(a, to) PROVE TickTyped'
  <2>1. tick'.pc = tick.pc /\ tick'.unit = tick.unit /\ tick'.current = tick.current /\ filled' = filled
    BY <1>7 DEF Override
  <2> QED
    BY <1>0, <2>1 DEF TickTyped, Units
<1>8. ASSUME NEW a \in 1..Artifacts, Measure(a) PROVE TickTyped'
  BY <1>0, <1>8 DEF Measure, TickTyped, Units
<1>9. ASSUME NEW s \in Symbols, Execute(s) PROVE TickTyped'
  <2>1. filled[s] \in Nat /\ intents[s] \in Int
    BY DEF TickTyped, WorldTyped
  <2> DEFINE executed == IF intents[s] > 0 THEN intents[s] ELSE -intents[s]
  <2>2. executed \in Nat
    BY <2>1
  <2>3. filled' = [filled EXCEPT ![s] = @ + executed] /\ tick' = tick
    BY <1>9 DEF Execute
  <2> HIDE DEF executed
  <2>4. filled' \in [Symbols -> Nat]
    BY <2>1, <2>2, <2>3 DEF TickTyped
  <2> QED
    BY <1>0, <2>3, <2>4 DEF TickTyped, Units
<1>10. CASE UNCHANGED vars
  BY <1>10 DEF vars, TickTyped, Units
<1> QED
  BY <1>1, <1>2, <1>3, <1>4, <1>5, <1>6, <1>7, <1>8, <1>9, <1>10 DEF Next, TickStep

(* The totals of a plan are naturals.                                      *)
LEMMA TotalsAreNat ==
  ASSUME profile \in Profiles, Units, Booked
  PROVE  tick.exposure \in [Symbols -> Nat] /\ tick.gross \in Nat /\ tick.drawdown \in Nat
<1>1. /\ NatTerms(tick.allocated, NotionalOf) /\ NatTerms(tick.allocated, LossOf)
      /\ \A s \in Symbols : NatTerms(Holding(tick.allocated, s), tick.unit)
  BY TermsAreNat DEF Booked
<1>2. tick.gross \in Nat /\ tick.drawdown \in Nat
  BY <1>1, SumOfFewer DEF Booked
<1>3. \A s \in Symbols : Sum(Holding(tick.allocated, s), tick.unit) \in Nat
  BY <1>1, SumOfFewer
<1>4. tick.exposure \in [Symbols -> Nat]
  BY <1>3, Zenon DEF Booked
<1> QED
  BY <1>2, <1>4

(* An artifact is allocated when the totals have room for it.              *)
LEMMA ConsiderKeepsBudget ==
  ASSUME TickShape, TickTyped, Answers, Budget, Consider PROVE Budget'
<1> USE DEF TickShape
<1> PICK a : a = tick.next
  OBVIOUS
<1>1. tick.pc = "allocate" /\ a <= Artifacts /\ tick'.pc = "allocate" /\ profile' = profile
      /\ tick'.unit = tick.unit
  BY DEF Consider, world
<1>2. a \in 1..Artifacts /\ tick.allocated \subseteq 1..a - 1 /\ Artifacts \in Nat
  BY <1>1, PaperPortfolioAssumption DEF Answers, AnsweredTo
<1>3. Booked /\ WithinLimits /\ Units /\ profile \in Profiles
  BY <1>1 DEF Budget, TickTyped, Allocating
<1>4. CASE Refusal(a) # "none"
  <2>1. SameBook
    BY <1>4 DEF Consider, SameBook
  <2>2. Booked' /\ WithinLimits'
    BY <1>1, <1>3, <2>1, BudgetStays
  <2> QED
    BY <1>1, <2>2 DEF Budget
<1>5. CASE Refusal(a) = "none"
  <2> DEFINE more == tick.allocated \cup {a}
             unit == tick.unit[a]
             notional == Notional(a)
             loss == Notional(a) * profile[a].drawdown
             exposure == [s \in Symbols |-> tick.exposure[s] + IF s \in Scope(a) THEN unit ELSE 0]
  <2>1. tick'.allocated = more /\ tick'.gross = tick.gross + notional
        /\ tick'.drawdown = tick.drawdown + loss /\ tick'.exposure = exposure
    BY <1>5 DEF Consider
  <2>2. Breach(a) = "none"
    BY <1>5 DEF Refusal
  <2>3. ~(\E b \in tick.allocated : Crowds(a, b))
    BY <2>2 DEF Breach
  <2>4. ~(\E s \in Scope(a) : tick.exposure[s] + unit > MaxPerSymbol)
    BY <2>2, <2>3 DEF Breach
  <2>5. ~(tick.gross + notional > MaxGross)
    BY <2>2, <2>3, <2>4 DEF Breach
  <2>6. ~(tick.drawdown + loss > DrawdownBudget)
    BY <2>2, <2>3, <2>4, <2>5 DEF Breach
  <2>7. unit \in Nat /\ notional \in Nat /\ loss \in Nat
    BY <1>2, <1>3, NotionalIsNat
  <2>8. tick.exposure \in [Symbols -> Nat] /\ tick.gross \in Nat /\ tick.drawdown \in Nat
    BY <1>3, TotalsAreNat
  <2>9. NotionalOf[a] = notional /\ LossOf[a] = loss
    BY <1>2 DEF NotionalOf, LossOf
  <2>10. more \in SUBSET (1..Artifacts) /\ a \notin tick.allocated
    BY <1>2
  <2>11. NatTerms(more, NotionalOf) /\ NatTerms(more, LossOf)
         /\ \A s \in Symbols : NatTerms(Holding(more, s), tick.unit)
    BY <1>3, <2>10, TermsAreNat
  <2> HIDE DEF unit, notional, loss, exposure
  <2>12. tick.gross + notional = Sum(more, NotionalOf)
    <3>1. Sum(more, NotionalOf) = Sum(tick.allocated, NotionalOf) + NotionalOf[a]
      BY <1>2, <2>10, <2>11, SumOfOneMore
    <3> QED
      BY <1>3, <2>9, <3>1, Zenon DEF Booked
  <2>13. tick.drawdown + loss = Sum(more, LossOf)
    <3>1. Sum(more, LossOf) = Sum(tick.allocated, LossOf) + LossOf[a]
      BY <1>2, <2>10, <2>11, SumOfOneMore
    <3> QED
      BY <1>3, <2>9, <3>1, Zenon DEF Booked
  <2>14. ASSUME NEW s \in Symbols PROVE exposure[s] = Sum(Holding(more, s), tick.unit)
    <3>1. tick.exposure[s] = Sum(Holding(tick.allocated, s), tick.unit) /\ tick.exposure[s] \in Nat
      BY <1>3, <2>8 DEF Booked
    <3>2. CASE s \in Scope(a)
      <4>1. Holding(more, s) = Holding(tick.allocated, s) \cup {a} /\ a \notin Holding(tick.allocated, s)
        BY <2>10, <3>2 DEF Holding
      <4>2. NatTerms(Holding(tick.allocated, s) \cup {a}, tick.unit)
        BY <2>11, <4>1
      <4>3. Sum(Holding(tick.allocated, s) \cup {a}, tick.unit)
              = Sum(Holding(tick.allocated, s), tick.unit) + tick.unit[a]
        <5> PICK held, f : held = Holding(tick.allocated, s) /\ f = tick.unit
          OBVIOUS
        <5>1. a \in 1..Artifacts /\ a \notin held /\ NatTerms(held \cup {a}, f)
          BY <1>2, <4>1, <4>2
        <5>2. Sum(held \cup {a}, f) = Sum(held, f) + f[a]
          BY <5>1, SumOfOneMore
        <5> QED
          BY <5>2
      <4> HIDE DEF more
      <4>4. Sum(Holding(more, s), tick.unit) = tick.exposure[s] + unit
        BY <3>1, <4>1, <4>3, Zenon DEF unit
      <4>5. exposure[s] = tick.exposure[s] + unit
        BY <3>2 DEF exposure
      <4> QED
        BY <4>4, <4>5, Zenon
    <3>3. CASE s \notin Scope(a)
      <4>1. Holding(more, s) = Holding(tick.allocated, s)
        BY <3>3 DEF Holding
      <4>2. exposure[s] = tick.exposure[s]
        BY <3>1, <3>3 DEF exposure
      <4> HIDE DEF more
      <4> QED
        BY <3>1, <4>1, <4>2, Zenon
    <3> QED
      BY <3>2, <3>3
  <2>15. exposure = [s \in Symbols |-> Sum(Holding(more, s), tick.unit)]
    <3>1. exposure = [s \in Symbols |-> exposure[s]]
      BY DEF exposure
    <3> HIDE DEF more
    <3> QED
      BY <2>14, <3>1, Zenon
  <2>16. Booked'
    <3> HIDE DEF more
    <3>1. NotionalOf' = NotionalOf /\ LossOf' = LossOf
      BY <1>1, TermsStay, Zenon
    <3>2. \A s : {x \in tick'.allocated : s \in Scope(x)'} = Holding(more, s)
      <4>1. \A x : Scope(x)' = Scope(x)
        BY <1>1 DEF Scope
      <4> QED
        BY <2>1, <4>1, Zenon DEF Holding
    <3>3. tick'.exposure = [s \in Symbols |-> Sum({x \in tick'.allocated : s \in Scope(x)'}, tick'.unit)]
      BY <1>1, <2>1, <2>15, <3>2, Zenon
    <3>4. tick'.gross = Sum(tick'.allocated, NotionalOf') /\ tick'.drawdown = Sum(tick'.allocated, LossOf')
      BY <2>1, <2>12, <2>13, <3>1, Zenon
    <3> QED
      BY <2>1, <2>10, <3>3, <3>4, Zenon DEF Booked, Holding
  <2>17. WithinLimits'
    <3>1. ASSUME NEW s \in Symbols PROVE exposure[s] <= MaxPerSymbol
      <4>1. tick.exposure[s] <= MaxPerSymbol /\ tick.exposure[s] \in Nat /\ MaxPerSymbol \in Nat
        BY <1>3, <2>8, PaperPortfolioAssumption DEF WithinLimits
      <4> QED
        BY <2>4, <2>7, <4>1 DEF exposure
    <3>2. tick.gross + notional <= MaxGross /\ tick.drawdown + loss <= DrawdownBudget
      BY <2>5, <2>6, <2>7, <2>8, PaperPortfolioAssumption
    <3>3. ASSUME NEW b \in more, NEW c \in more, b < c PROVE ~Crowds(c, b)
      <4>1. b \in tick.allocated
        BY <1>2, <3>3
      <4> QED
        BY <1>3, <2>3, <3>3, <4>1 DEF WithinLimits
    <3>4. ASSUME NEW b \in tick'.allocated, NEW c \in tick'.allocated, b < c PROVE ~Crowds(c, b)'
      BY <1>1, <2>1, <3>3, <3>4 DEF Crowds
    <3> QED
      BY <2>1, <3>1, <3>2, <3>4 DEF WithinLimits
  <2> QED
    BY <1>1, <2>16, <2>17 DEF Budget
<1> QED
  BY <1>4, <1>5

(* Dropping the allocations over their role's share lowers every total.    *)
LEMMA RolesKeepBudget ==
  ASSUME TickShape, TickTyped, Budget, ApplyRoles PROVE Budget'
<1> USE DEF TickShape
<1> PICK kept : kept = tick.allocated \ RoleRefused(tick.allocated)
  OBVIOUS
<1>1. tick.pc = "allocate" /\ tick'.pc = "persist" /\ profile' = profile /\ tick'.unit = tick.unit
      /\ tick'.allocated = kept /\ tick'.exposure = ExposureOf(kept) /\ tick'.gross = TotalOf(kept)
      /\ tick'.drawdown = DrawdownOf(kept)
  BY DEF ApplyRoles, world
<1>2. Booked /\ WithinLimits /\ Units /\ profile \in Profiles
  BY <1>1 DEF Budget, TickTyped, Allocating
<1>3. kept \in SUBSET tick.allocated
  OBVIOUS
<1>4. NotionalOf' = NotionalOf /\ LossOf' = LossOf /\ (\A a : Scope(a)' = Scope(a))
  <2>1. \A a : Scope(a)' = Scope(a)
    BY <1>1 DEF Scope
  <2> QED
    BY <1>1, <2>1, TermsStay, Zenon
<1>5. Booked'
  <2>1. \A s : {a \in tick'.allocated : s \in Scope(a)'} = Holding(kept, s)
    BY <1>1, <1>4, Zenon DEF Holding
  <2>2. tick'.exposure = [s \in Symbols |-> Sum({a \in tick'.allocated : s \in Scope(a)'}, tick'.unit)]
    <3>1. tick'.exposure = [s \in Symbols |-> Sum(Holding(kept, s), tick.unit)]
      BY <1>1, TotalsAreSums, Zenon
    <3> QED
      BY <1>1, <2>1, <3>1, Zenon
  <2>3. tick'.gross = Sum(tick'.allocated, NotionalOf') /\ tick'.drawdown = Sum(tick'.allocated, LossOf')
    BY <1>1, <1>4, TotalsAreSums, Zenon
  <2>4. tick'.allocated \subseteq 1..Artifacts
    BY <1>1, <1>2, <1>3 DEF Booked
  <2> QED
    BY <2>2, <2>3, <2>4, Zenon DEF Booked, Holding
<1>6. /\ NatTerms(tick.allocated, NotionalOf) /\ NatTerms(tick.allocated, LossOf)
      /\ \A s \in Symbols : NatTerms(Holding(tick.allocated, s), tick.unit)
  BY <1>2, TermsAreNat DEF Booked
<1>7. tick'.gross <= MaxGross
  <2>1. tick.gross \in Nat /\ tick'.gross \in Nat /\ tick'.gross <= tick.gross
    <3> PICK f : f = NotionalOf
      OBVIOUS
    <3>1. Sum(tick.allocated, f) \in Nat /\ Sum(kept, f) \in Nat /\ Sum(kept, f) <= Sum(tick.allocated, f)
      BY <1>3, <1>6, SumOfFewer
    <3> QED
      BY <1>1, <1>2, <3>1, TotalsAreSums, Zenon DEF Booked
  <2> QED
    BY <1>2, <2>1, PaperPortfolioAssumption DEF WithinLimits
<1>8. tick'.drawdown <= DrawdownBudget
  <2>1. tick.drawdown \in Nat /\ tick'.drawdown \in Nat /\ tick'.drawdown <= tick.drawdown
    <3> PICK f : f = LossOf
      OBVIOUS
    <3>1. Sum(tick.allocated, f) \in Nat /\ Sum(kept, f) \in Nat /\ Sum(kept, f) <= Sum(tick.allocated, f)
      BY <1>3, <1>6, SumOfFewer
    <3> QED
      BY <1>1, <1>2, <3>1, TotalsAreSums, Zenon DEF Booked
  <2> QED
    BY <1>2, <2>1, PaperPortfolioAssumption DEF WithinLimits
<1>9. ASSUME NEW s \in Symbols PROVE tick'.exposure[s] <= MaxPerSymbol
  <2> PICK holding, held, f : holding = Holding(tick.allocated, s) /\ held = Holding(kept, s) /\ f = tick.unit
    OBVIOUS
  <2>1. held \in SUBSET holding /\ NatTerms(holding, f)
    BY <1>3, <1>6 DEF Holding
  <2>2. Sum(holding, f) \in Nat /\ Sum(held, f) \in Nat /\ Sum(held, f) <= Sum(holding, f)
    BY <2>1, SumOfFewer
  <2>3. tick.exposure[s] = Sum(holding, f)
    BY <1>2 DEF Booked
  <2>4. tick'.exposure[s] = Sum(held, f)
    <3>1. tick'.exposure = [q \in Symbols |-> Sum(Holding(kept, q), tick.unit)]
      BY <1>1, TotalsAreSums, Zenon
    <3> QED
      BY <3>1
  <2>5. tick.exposure[s] <= MaxPerSymbol /\ MaxPerSymbol \in Nat
    BY <1>2, PaperPortfolioAssumption DEF WithinLimits
  <2> QED
    BY <2>2, <2>3, <2>4, <2>5
<1>10. WithinLimits'
  <2>1. ASSUME NEW b \in tick'.allocated, NEW c \in tick'.allocated, b < c PROVE ~Crowds(c, b)'
    <3>1. ~Crowds(c, b)
      BY <1>1, <1>2, <1>3, <2>1 DEF WithinLimits
    <3> QED
      BY <1>1, <3>1 DEF Crowds
  <2> QED
    BY <1>7, <1>8, <1>9, <2>1 DEF WithinLimits
<1> QED
  BY <1>1, <1>5, <1>10 DEF Budget

(* Nothing is spent before the allocator starts.                           *)
LEMMA StartKeepsBudget ==
  ASSUME TickShape, TickTyped, Answers, Budget, LoadCandidates PROVE Budget'
<1> USE DEF TickShape
<1>1. tick.pc = "candidates" /\ tick'.pc = "allocate" /\ tick'.exposure = tick.exposure
      /\ tick'.gross = tick.gross /\ tick'.drawdown = tick.drawdown /\ tick'.allocated = tick.allocated
      /\ profile' = profile
  BY DEF LoadCandidates, world
<1>2. tick'.allocated = {} /\ tick'.exposure = Zero /\ tick'.gross = 0 /\ tick'.drawdown = 0
  BY <1>1 DEF Answers, Budget
<1>3. Booked'
  <2>1. \A s : {a \in tick'.allocated : s \in Scope(a)'} = {}
    BY <1>2
  <2>2. Zero = [s \in Symbols |-> Sum({a \in tick'.allocated : s \in Scope(a)'}, tick'.unit)]
    <3> PICK f : f = tick'.unit
      OBVIOUS
    <3>1. Sum({}, f) = 0
      BY SumOfNone
    <3> QED
      BY <2>1, <3>1, Zenon DEF Zero
  <2>3. Sum({}, NotionalOf') = 0 /\ Sum({}, LossOf') = 0
    <3> PICK f, g : f = NotionalOf' /\ g = LossOf'
      OBVIOUS
    <3>1. Sum({}, f) = 0 /\ Sum({}, g) = 0
      BY SumOfNone
    <3> QED
      BY <3>1, Zenon
  <2>4. tick'.gross = Sum(tick'.allocated, NotionalOf') /\ tick'.drawdown = Sum(tick'.allocated, LossOf')
    BY <1>2, <2>3, Zenon
  <2>5. tick'.exposure = [s \in Symbols |-> Sum({a \in tick'.allocated : s \in Scope(a)'}, tick'.unit)]
    BY <1>2, <2>2, Zenon
  <2>6. tick'.allocated \subseteq 1..Artifacts
    BY <1>2
  <2> QED
    BY <2>4, <2>5, <2>6, Zenon DEF Booked, Holding
<1>4. WithinLimits'
  BY <1>2, PaperPortfolioAssumption DEF WithinLimits, Zero
<1> QED
  BY <1>1, <1>3, <1>4 DEF Budget

LEMMA BudgetStep ==
  TickShape /\ TickTyped /\ Answers /\ Budget /\ [Next]_vars => Budget'
<1> SUFFICES ASSUME TickShape, TickTyped, Answers, Budget, [Next]_vars PROVE Budget'
  OBVIOUS
<1> USE DEF TickShape
<1>0. profile' = profile
  BY ProfileStays
<1>1. ASSUME SameBook, tick'.pc = tick.pc \/ (tick.pc \in Allocating /\ tick'.pc \in Allocating)
      PROVE  Budget'
  <2>1. CASE tick.pc \in Allocating
    <3>1. Booked' /\ WithinLimits'
      BY <1>0, <1>1, <2>1, BudgetStays DEF Budget
    <3> QED
      BY <1>1, <2>1, <3>1 DEF Budget, Allocating
  <2>2. CASE tick.pc \notin Allocating
    BY <1>1, <2>2 DEF Budget, SameBook
  <2> QED
    BY <2>1, <2>2
<1>2. CASE ReadExposure
  <2>1. tick'.pc = "telemetry" /\ tick'.exposure = Zero /\ tick'.gross = 0 /\ tick'.drawdown = 0
    BY <1>2, IdleTick DEF ReadExposure
  <2> QED
    BY <2>1 DEF Budget, Allocating
<1>3. CASE ReadTelemetry
  BY <1>3 DEF ReadTelemetry, Budget, Allocating
<1>4. CASE Persist \/ LinkSession
  <2>1. SameBook /\ tick.pc \in Allocating /\ tick'.pc \in Allocating
    BY <1>4 DEF Persist, LinkSession, SameBook, Allocating
  <2> QED
    BY <1>1, <2>1
<1>5. CASE Journal \/ TickCrashes
  <2>1. tick'.pc = "idle"
    BY <1>5, IdleTick DEF Journal, TickCrashes
  <2> QED
    BY <2>1 DEF Budget, Allocating
<1>6. ASSUME NEW a \in 1..Artifacts, NEW to \in Overrides, Override(a, to) PROVE Budget'
  <2>1. SameBook /\ tick'.pc = tick.pc
    BY <1>6 DEF Override, SameBook
  <2> QED
    BY <1>1, <2>1
<1>7. CASE tick' = tick
  <2>1. SameBook /\ tick'.pc = tick.pc
    BY <1>7 DEF SameBook
  <2> QED
    BY <1>1, <2>1
<1> QED
  BY <1>2, <1>3, StartKeepsBudget, ConsiderKeepsBudget, RolesKeepBudget, <1>4, <1>5, <1>6, <1>7
  DEF Next, TickStep, vars, Measure, Execute

-----------------------------------------------------------------------------
(* Types                                                                   *)

LEMMA WorldStep ==
  TickShape /\ TickTyped /\ Budget /\ WorldTyped /\ [Next]_vars => WorldTyped'
<1> SUFFICES ASSUME TickShape, TickTyped, Budget, WorldTyped, [Next]_vars PROVE WorldTyped'
  OBVIOUS
<1> USE DEF TickShape, Allocating
<1>1. CASE ReadExposure
  <2>1. ticks < MaxTicks /\ ticks' = ticks + 1 /\ tick'.pc = "telemetry"
    BY <1>1, IdleTick DEF ReadExposure
  <2>2. ticks' \in 0..MaxTicks
    BY <2>1, PaperPortfolioAssumption DEF WorldTyped
  <2> QED
    BY <1>1, <2>1, <2>2 DEF ReadExposure, WorldTyped, world
<1>2. CASE ReadTelemetry \/ LoadCandidates \/ Consider \/ ApplyRoles
  <2>1. tick'.pc \in Allocating \cup {"idle", "telemetry", "candidates"}
    BY <1>2 DEF ReadTelemetry, LoadCandidates, Consider, ApplyRoles
  <2> QED
    BY <1>2, <2>1 DEF ReadTelemetry, LoadCandidates, Consider, ApplyRoles, WorldTyped, world
<1>3. CASE Persist \/ LinkSession
  <2>1. tick'.pc \in Allocating \cup {"idle", "telemetry", "candidates"}
    BY <1>3 DEF Persist, LinkSession
  <2> QED
    BY <1>3, <2>1 DEF Persist, LinkSession, WorldTyped, world
<1>4. CASE Journal
  <2>1. intents' = [s \in Symbols |-> Delta(s)] /\ tick.pc = "journal" /\ tick'.pc = "idle"
        /\ UNCHANGED <<stage, guarded, net, ticks, changes>>
    BY <1>4, IdleTick DEF Journal, Decision
  <2>2. Units /\ Booked /\ profile \in Profiles /\ tick.current \in [Symbols -> Nat]
    BY <2>1 DEF TickTyped, Budget
  <2>3. ASSUME NEW s \in Symbols PROVE Delta(s) \in Int
    <3>1. tick.exposure \in [Symbols -> Nat]
      BY <2>2, TotalsAreNat
    <3> QED
      BY <2>2, <3>1 DEF Delta
  <2>4. intents' \in [Symbols -> Int]
    BY <2>1, <2>3, Zenon
  <2> QED
    BY <2>1, <2>4 DEF WorldTyped
<1>5. CASE TickCrashes
  <2>1. tick'.pc = "idle"
    BY <1>5, IdleTick DEF TickCrashes
  <2> QED
    BY <1>5, <2>1 DEF TickCrashes, WorldTyped, world
<1>6. ASSUME NEW a \in 1..Artifacts, NEW to \in Overrides, Override(a, to) PROVE WorldTyped'
  <2>1. stage' = [stage EXCEPT ![a] = to] /\ changes < MaxChanges /\ changes' = changes + 1
        /\ tick'.pc = tick.pc /\ UNCHANGED <<guarded, net, intents, ticks>>
    BY <1>6 DEF Override
  <2>2. changes' \in 0..MaxChanges
    BY <2>1, PaperPortfolioAssumption DEF WorldTyped
  <2>3. stage' \in [1..Artifacts -> ActiveStages \cup Overrides]
    BY <2>1 DEF WorldTyped
  <2> QED
    BY <2>1, <2>2, <2>3 DEF WorldTyped
<1>7. ASSUME NEW a \in 1..Artifacts, Measure(a) PROVE WorldTyped'
  <2>1. guarded' = [guarded EXCEPT ![a] = ~@] /\ changes < MaxChanges /\ changes' = changes + 1
        /\ UNCHANGED <<stage, net, intents, tick, ticks>>
    BY <1>7 DEF Measure
  <2>2. changes' \in 0..MaxChanges
    BY <2>1, PaperPortfolioAssumption DEF WorldTyped
  <2>3. guarded' \in [1..Artifacts -> BOOLEAN]
    BY <2>1 DEF WorldTyped
  <2> QED
    BY <2>1, <2>2, <2>3 DEF WorldTyped
<1>8. ASSUME NEW s \in Symbols, Execute(s) PROVE WorldTyped'
  <2>1. net' = [net EXCEPT ![s] = @ + intents[s]] /\ intents' = [intents EXCEPT ![s] = 0]
        /\ UNCHANGED <<stage, guarded, tick, ticks, changes>>
    BY <1>8 DEF Execute
  <2>2. net' \in [Symbols -> Int] /\ intents' \in [Symbols -> Int]
    BY <2>1 DEF WorldTyped
  <2> QED
    BY <2>1, <2>2 DEF WorldTyped
<1>9. CASE UNCHANGED vars
  BY <1>9 DEF vars, WorldTyped
<1> QED
  BY <1>1, <1>2, <1>3, <1>4, <1>5, <1>6, <1>7, <1>8, <1>9 DEF Next, TickStep

(* Within the limits, and typed, wherever the tick stands.                 *)
LimitsInv == IInv /\ TickTyped /\ WorldTyped /\ Budget

LEMMA InitLimitsInv == Init => LimitsInv
<1> SUFFICES ASSUME Init PROVE LimitsInv
  OBVIOUS
<1>1. profile \in Profiles /\ stage = [a \in 1..Artifacts |-> "paper"]
      /\ guarded = [a \in 1..Artifacts |-> FALSE] /\ filled = Zero /\ net = Zero /\ tick = Idle
      /\ intents = Zero /\ ticks = 0 /\ changes = 0
  BY DEF Init
<1>2. tick.pc = "idle" /\ tick.current = Zero /\ Zero \in [Symbols -> Nat] /\ Zero \in [Symbols -> Int]
  <2>1. Zero \in [Symbols -> Int]
    BY DEF Zero
  <2> QED
    BY <1>1, <2>1, IdleTick
<1>3. TickTyped /\ Budget
  BY <1>1, <1>2 DEF TickTyped, Budget, Allocating
<1>4. WorldTyped
  <2>1. 0 \in 0..MaxTicks /\ 0 \in 0..MaxChanges
    BY PaperPortfolioAssumption
  <2> QED
    BY <1>1, <1>2, <2>1 DEF WorldTyped, ActiveStages
<1> QED
  BY <1>3, <1>4, InitIInv DEF LimitsInv

LEMMA NextLimitsInv == LimitsInv /\ [Next]_vars => LimitsInv'
BY NextIInv, TypedStep, BudgetStep, WorldStep DEF LimitsInv, IInv

(* The plan of a tick that is past the allocator.                          *)
LEMMA PlanOfTick ==
  ASSUME LimitsInv, tick.pc \in {"persist", "link", "journal"}
  PROVE  Booked /\ WithinLimits /\ Units /\ AnsweredTo(Artifacts)
BY DEF LimitsInv, IInv, Answers, Budget, TickTyped, Allocating

(* TypeOK, for any number of artifacts, symbols and ticks: a session is    *)
(* linked to one plan at most (_link_session_plan), and every plan answers *)
(* known artifacts and holds totals that are naturals.                     *)
THEOREM TypeCorrect == Spec => []TypeOK
<1>1. Init => TypeOK
  <2> SUFFICES ASSUME Init PROVE TypeOK
    OBVIOUS
  <2>1. Plans = {} /\ link = {}
    BY NoPlans
  <2>2. Cardinality(link) <= 1
    BY <2>1, FS_EmptySet
  <2>3. LimitsInv
    BY InitLimitsInv
  <2> QED
    BY <2>1, <2>2, <2>3 DEF TypeOK, LimitsInv, TickTyped, WorldTyped, Allocating
<1>2. LimitsInv /\ TypeOK /\ [Next]_vars => TypeOK'
  <2> SUFFICES ASSUME LimitsInv, TypeOK, [Next]_vars PROVE TypeOK'
    OBVIOUS
  <2>1. LimitsInv'
    BY NextLimitsInv
  <2>2. Cardinality(link') <= 1
    <3>1. CASE link' = link
      BY <3>1 DEF TypeOK
    <3>2. CASE LinkSession
      <4>1. link' = {Plan}
        BY <3>2 DEF LinkSession
      <4>2. Cardinality({Plan}) = 1
        BY FS_Singleton
      <4> QED
        BY <4>1, <4>2
    <3> QED
      BY <3>1, <3>2 DEF Next, TickStep, vars, tables, world, ReadExposure, ReadTelemetry, LoadCandidates,
         Consider, ApplyRoles, Persist, Journal, TickCrashes, Override, Measure, Execute
  <2>3. ASSUME NEW p \in Plans'
        PROVE  /\ AllocatedIn(p) \cup RejectedIn(p) \subseteq 1..Artifacts
               /\ p.exposure \in [Symbols -> Nat] /\ p.gross \in Nat /\ p.drawdown \in Nat
    <3>1. CASE p \in Plans
      BY <3>1 DEF TypeOK
    <3>2. CASE p = Plan /\ tick.pc \in {"persist", "link", "journal"}
      <4>1. Booked /\ Units /\ AnsweredTo(Artifacts) /\ profile \in Profiles
        BY <3>2, PlanOfTick DEF LimitsInv, TickTyped
      <4>2. AllocatedIn(p) \cup RejectedIn(p) = 1..Artifacts
        BY <3>2, <4>1, AllocatedInPlan, RejectedInPlan DEF AnsweredTo
      <4>3. p.exposure = tick.exposure /\ p.gross = tick.gross /\ p.drawdown = tick.drawdown
        BY <3>2 DEF Plan
      <4> QED
        BY <4>1, <4>2, <4>3, TotalsAreNat
    <3> QED
      BY <3>1, <3>2, PlansStep
  <2> QED
    BY <2>1, <2>2, <2>3 DEF TypeOK, LimitsInv, TickTyped, WorldTyped, Allocating, AllocatedIn, RejectedIn
<1> QED
  BY InitLimitsInv, NextLimitsInv, <1>1, <1>2, PTL DEF Spec

(* A plan grants what the tick booked.                                     *)
LEMMA PlanIsBooked ==
  ASSUME Booked, Units, profile \in Profiles
  PROVE  /\ \A s \in Symbols : Sum(HoldersOf(Plan, s), Plan.allocated) = tick.exposure[s]
         /\ Sum(AllocatedIn(Plan), Granted(Plan)) = tick.gross
         /\ Sum(AllocatedIn(Plan), AtRisk(Plan)) = tick.drawdown
<1> PICK given : given = tick.allocated
  OBVIOUS
<1>1. given \subseteq 1..Artifacts /\ AllocatedIn(Plan) = given
      /\ Plan.allocated = [a \in given |-> tick.unit[a]]
  BY AllocatedInPlan DEF Booked, Plan
<1>2. /\ NatTerms(given, NotionalOf) /\ NatTerms(given, LossOf)
      /\ \A s \in Symbols : NatTerms(Holding(given, s), tick.unit)
  BY <1>1, TermsAreNat
<1>3. ASSUME NEW s \in Symbols
      PROVE  Sum(HoldersOf(Plan, s), Plan.allocated) = tick.exposure[s]
  <2> PICK held, f, g : held = Holding(given, s) /\ f = tick.unit /\ g = Plan.allocated
    OBVIOUS
  <2>1. HoldersOf(Plan, s) = held
    BY <1>1 DEF HoldersOf, Holding
  <2>2. NatTerms(held, f) /\ \A a \in held : g[a] = f[a]
    BY <1>1, <1>2 DEF Holding
  <2>3. Sum(held, g) = Sum(held, f)
    BY <2>2, SumOfSame
  <2>4. tick.exposure[s] = Sum(held, f)
    BY DEF Booked
  <2> QED
    BY <2>1, <2>3, <2>4, Zenon
<1>4. \A a \in given : Granted(Plan)[a] = NotionalOf[a]
  BY <1>1 DEF Granted, NotionalOf, Notional
<1>5. \A a \in given : AtRisk(Plan)[a] = LossOf[a]
  <2>1. AtRisk(Plan) = [a \in given |-> Granted(Plan)[a] * profile[a].drawdown]
    BY <1>1, Zenon DEF AtRisk
  <2>2. LossOf = [a \in 1..Artifacts |-> NotionalOf[a] * profile[a].drawdown]
    BY Zenon DEF LossOf, NotionalOf
  <2>3. ASSUME NEW a \in given PROVE AtRisk(Plan)[a] = LossOf[a]
    <3>1. AtRisk(Plan)[a] = Granted(Plan)[a] * profile[a].drawdown
      BY <2>1, Zenon
    <3>2. a \in 1..Artifacts /\ LossOf[a] = NotionalOf[a] * profile[a].drawdown
      BY <1>1, <2>2
    <3> QED
      BY <1>4, <3>1, <3>2, Zenon
  <2> QED
    BY <2>3
<1>6. Sum(given, Granted(Plan)) = tick.gross
  <2> PICK f, g : f = NotionalOf /\ g = Granted(Plan)
    OBVIOUS
  <2>1. Sum(given, g) = Sum(given, f)
    BY <1>2, <1>4, SumOfSame
  <2> QED
    BY <2>1, Zenon DEF Booked
<1>7. Sum(given, AtRisk(Plan)) = tick.drawdown
  <2> PICK f, g : f = LossOf /\ g = AtRisk(Plan)
    OBVIOUS
  <2>1. Sum(given, g) = Sum(given, f)
    BY <1>2, <1>5, SumOfSame
  <2> QED
    BY <2>1, Zenon DEF Booked
<1> QED
  BY <1>1, <1>3, <1>6, <1>7, Zenon

(* PlanWithinLimits, for any number of artifacts, any declarations and     *)
(* limits, and whatever is overridden, measured or executed while the plan *)
(* is made: what a plan grants stays within the limit of each symbol, the  *)
(* gross limit and the drawdown budget, and crowds nothing granted before  *)
(* it (build_portfolio_plan).                                              *)
THEOREM LimitsRespected == Spec => []PlanWithinLimits
<1>1. Init => PlanWithinLimits
  BY NoPlans DEF PlanWithinLimits
<1>2. LimitsInv /\ PlanWithinLimits /\ [Next]_vars => PlanWithinLimits'
  <2> SUFFICES ASSUME LimitsInv, PlanWithinLimits, [Next]_vars PROVE PlanWithinLimits'
    OBVIOUS
  <2> DEFINE Fits(p) ==
        /\ \A s \in Symbols : Sum(HoldersOf(p, s), p.allocated) <= MaxPerSymbol
        /\ Sum(AllocatedIn(p), Granted(p)) <= MaxGross
        /\ Sum(AllocatedIn(p), AtRisk(p)) <= DrawdownBudget
        /\ \A a, b \in AllocatedIn(p) : a < b => ~Crowds(b, a)
  <2>1. profile' = profile
    BY ProfileStays
  <2>2. ASSUME NEW p PROVE Fits(p)' <=> Fits(p)
    <3>1. AllocatedIn(p)' = AllocatedIn(p) /\ \A s : HoldersOf(p, s)' = HoldersOf(p, s)
      BY <2>1 DEF AllocatedIn, HoldersOf, Scope
    <3>2. Granted(p)' = Granted(p)
      BY <2>1 DEF Granted, AllocatedIn, Scope
    <3>3. AtRisk(p)' = AtRisk(p)
      BY <2>1, <3>1, <3>2, Zenon DEF AtRisk
    <3>4. \A a, b : Crowds(b, a)' <=> Crowds(b, a)
      BY <2>1 DEF Crowds
    <3> QED
      BY <3>1, <3>2, <3>3, <3>4, Zenon
  <2>3. ASSUME NEW p \in Plans' PROVE Fits(p)
    <3>1. CASE p \in Plans
      BY <3>1, Zenon DEF PlanWithinLimits
    <3>2. CASE p = Plan /\ tick.pc \in {"persist", "link", "journal"}
      <4>1. Booked /\ WithinLimits /\ Units /\ profile \in Profiles
        BY <3>2, PlanOfTick DEF LimitsInv, TickTyped
      <4>2. /\ \A s \in Symbols : Sum(HoldersOf(p, s), p.allocated) = tick.exposure[s]
            /\ Sum(AllocatedIn(p), Granted(p)) = tick.gross
            /\ Sum(AllocatedIn(p), AtRisk(p)) = tick.drawdown
        BY <3>2, <4>1, PlanIsBooked
      <4>3. AllocatedIn(p) = tick.allocated
        BY <3>2, AllocatedInPlan
      <4>4. /\ \A s \in Symbols : tick.exposure[s] <= MaxPerSymbol
            /\ tick.gross <= MaxGross /\ tick.drawdown <= DrawdownBudget
            /\ \A a, b \in tick.allocated : a < b => ~Crowds(b, a)
        BY <4>1 DEF WithinLimits
      <4> QED
        BY <4>2, <4>3, <4>4, Zenon
    <3> QED
      BY <3>1, <3>2, PlansStep
  <2> HIDE DEF Fits
  <2>4. \A p \in Plans' : Fits(p)'
    BY <2>2, <2>3, Zenon
  <2> QED
    BY <2>4, Zenon DEF Fits, PlanWithinLimits
<1> QED
  BY InitLimitsInv, NextLimitsInv, <1>1, <1>2, PTL DEF Spec

=============================================================================
