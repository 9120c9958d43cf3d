--------------------------- MODULE PaperPortfolio ---------------------------
(***************************************************************************)
(* The portfolio tick of a paper session (portfolio/paper_loop.py) with    *)
(* the allocator and the delta order plan it calls.                        *)
(*                                                                         *)
(* A tick reads what was filled, what was measured and which artifacts may *)
(* trade, each in a transaction of its own, gives the artifacts their      *)
(* notionals one by one within the limits, and persists the plan, links it *)
(* to the session and journals the decision, again one by one: overrides,  *)
(* measurements and fills may fall in between, and the process may die.    *)
(*                                                                         *)
(* Notionals are counted per symbol of the artifact's scope: an artifact   *)
(* with unit u and n symbols has the notional u * n.  Expected returns,    *)
(* stress losses and dashboards are left out.                              *)
(*                                                                         *)
(* A scope is a set: no artifact lists a symbol twice.  The code takes the *)
(* list as it comes (_string_tuple), and with a symbol twice in it tests   *)
(* the symbol's limit for one share and books two.                         *)
(***************************************************************************)
EXTENDS Integers, FiniteSets, FiniteSetsExt

CONSTANTS
  Artifacts,      (* how many artifacts the session has, in artifact_id order *)
  Symbols,
  Roles,
  MaxPerSymbol,   (* max_per_symbol_exposure                               *)
  MaxGross,       (* max_aggregate_leverage times equity                   *)
  DrawdownBudget, (* drawdown_budget times equity                          *)
  RoleShare,      (* max_role_fraction as <<numerator, denominator>>       *)
  Profiles,       (* what the artifacts of a session may declare           *)
  MaxTicks,       (* bound: how many ticks are started                     *)
  MaxChanges      (* bound: overrides and changed measurements             *)

(* unit and cap: target_notional and max_notional per symbol; drawdown per *)
(* unit of notional; fits: the active regimes are in its scope; corr:      *)
(* the correlation it declares to another one, if any, against the limit.  *)
Profile == [scope : SUBSET Symbols, unit : Nat, cap : Nat \ {0}, drawdown : Nat, role : Roles,
            approved : BOOLEAN, admitted : BOOLEAN, fits : BOOLEAN,
            corr : [1..Artifacts -> {"none", "low", "high"}]]

ASSUME PaperPortfolioAssumption ==
  /\ Artifacts \in Nat /\ IsFiniteSet(Symbols) /\ MaxPerSymbol \in Nat /\ MaxGross \in Nat /\ DrawdownBudget \in Nat
  /\ RoleShare \in Nat \X (Nat \ {0})
  /\ \A p \in Profiles : p \in [1..Artifacts -> Profile]
  /\ MaxTicks \in Nat /\ MaxChanges \in Nat

VARIABLES
  profile,   (* the payloads of the session's artifacts                    *)
  stage,     (* artifacts.rollout_stage                                    *)
  guarded,   (* too few paper samples or too much slip in live_metrics     *)
  filled,    (* order_telemetry: notional filled per symbol, both sides    *)
  net,       (* the position those fills make                              *)
  tick,      (* the local variables of the running tick                    *)
  plans,     (* portfolio_plans                                            *)
  link,      (* paper_sessions.portfolio_plan_id: a set of at most one plan *)
  decisions, (* paper_portfolio_decisions                                  *)
  intents,   (* per symbol, the signed notional of the last decision's     *)
             (* intents that is still to be executed                       *)
  ticks,     (* how many ticks were started                                *)
  changes    (* how many overrides and changed measurements there were     *)

vars == <<profile, stage, guarded, filled, net, tick, plans, link, decisions,
          intents, ticks, changes>>
tables == <<plans, link, decisions>>
world == <<profile, stage, guarded, filled, net, intents, changes>>

ActiveStages == {"paper", "shadow_live", "tiny_live", "pilot_live", "scaled_live"}

Zero == [s \in Symbols |-> 0]

(* The lists of a tick are in artifact_id order, so that sets stand for    *)
(* them.  held, the position, and barred, the artifacts that may not trade *)
(* since the tick began, are auxiliary.                                    *)
Idle ==
  [pc |-> "idle", current |-> Zero, held |-> Zero, barred |-> {},
   guarded |-> [a \in 1..Artifacts |-> FALSE],
   unit |-> [a \in 1..Artifacts |-> 0], health |-> [a \in 1..Artifacts |-> "paper"],
   next |-> 1, allocated |-> {}, rejected |-> {},
   exposure |-> Zero, gross |-> 0, drawdown |-> 0]

Init ==
  /\ profile \in Profiles
  /\ stage = [a \in 1..Artifacts |-> "paper"]
  /\ guarded = [a \in 1..Artifacts |-> FALSE]
  /\ filled = Zero
  /\ net = Zero
  /\ tick = Idle
  /\ plans = {}
  /\ link = {}
  /\ decisions = {}
  /\ intents = Zero
  /\ ticks = 0
  /\ changes = 0

Scope(a) == profile[a].scope

-----------------------------------------------------------------------------
(* Reading.                                                                *)

(* _load_current_exposure: what was filled of a symbol, bought or sold.    *)
ReadExposure ==
  /\ tick.pc = "idle" /\ ticks < MaxTicks
  /\ ticks' = ticks + 1
  /\ tick' = [Idle EXCEPT !.pc = "telemetry", !.current = filled, !.held = net,
                          !.barred = {a \in 1..Artifacts : stage[a] \notin ActiveStages}]
  /\ UNCHANGED world /\ UNCHANGED tables

ReadTelemetry ==
  /\ tick.pc = "telemetry"
  /\ tick' = [tick EXCEPT !.pc = "candidates", !.guarded = guarded]
  /\ UNCHANGED world /\ UNCHANGED <<tables, ticks>>

(* _resize_target_for_current_exposure, per symbol: what is left of the    *)
(* limit for the symbol with the least room.                               *)
Resized(a) ==
  IF Scope(a) = {} THEN profile[a].unit
  ELSE Min({profile[a].unit} \cup {Max({0, MaxPerSymbol - tick.current[s]}) : s \in Scope(a)})

(* Mutant: the stage recorded in the session comes before the artifact's.  *)
SessionHealth(a) == IF ~profile[a].admitted \/ tick.guarded[a] THEN "sample_guarded" ELSE "paper"

Health(a) == IF ~profile[a].admitted \/ tick.guarded[a] THEN "sample_guarded" ELSE stage[a]

LoadCandidates ==
  /\ tick.pc = "candidates"
  /\ tick' = [tick EXCEPT
                !.pc = "allocate",
                !.unit = [a \in 1..Artifacts |-> Min({Resized(a), profile[a].cap})],
                !.health = [a \in 1..Artifacts |-> Health(a)]]
  /\ UNCHANGED world /\ UNCHANGED <<tables, ticks>>

-----------------------------------------------------------------------------
(* The allocator.                                                          *)

Notional(a) == tick.unit[a] * Cardinality(Scope(a))

(* _candidate_rejection: what rules an artifact out by itself.             *)
Ineligible(a) ==
  IF ~profile[a].approved THEN "artifact_not_approved"
  ELSE IF Scope(a) = {} THEN "missing_symbol_scope"
  ELSE IF tick.health[a] \notin ActiveStages THEN "artifact_not_active"
  ELSE IF ~profile[a].fits THEN "regime_scope_mismatch"
  ELSE "none"

(* The correlation a candidate declares counts before the one declared to  *)
(* it.                                                                     *)
Crowds(a, b) ==
  IF profile[a].corr[b] # "none" THEN profile[a].corr[b] = "high" ELSE profile[b].corr[a] = "high"

(* Mutant: the symbols' limit does not see what was allocated before.      *)
BreachAlone(a) ==
  IF \E b \in tick.allocated : Crowds(a, b) THEN "correlation_crowding"
  ELSE IF \E s \in Scope(a) : tick.unit[a] > MaxPerSymbol THEN "per_symbol_exposure_limit"
  ELSE IF tick.gross + Notional(a) > MaxGross THEN "aggregate_leverage_limit"
  ELSE IF tick.drawdown + Notional(a) * profile[a].drawdown > DrawdownBudget
       THEN "drawdown_budget_limit"
  ELSE "none"

(* What the allocations before it leave no room for.                       *)
Breach(a) ==
  IF \E b \in tick.allocated : Crowds(a, b) THEN "correlation_crowding"
  ELSE IF \E s \in Scope(a) : tick.exposure[s] + tick.unit[a] > MaxPerSymbol
       THEN "per_symbol_exposure_limit"
  ELSE IF tick.gross + Notional(a) > MaxGross THEN "aggregate_leverage_limit"
  ELSE IF tick.drawdown + Notional(a) * profile[a].drawdown > DrawdownBudget
       THEN "drawdown_budget_limit"
  ELSE "none"

Refusal(a) == IF Ineligible(a) # "none" THEN Ineligible(a) ELSE Breach(a)

(* The candidates are considered in order.                                 *)
Consider ==
  /\ tick.pc = "allocate" /\ tick.next <= Artifacts
  /\ LET a == tick.next
         refusal == Refusal(a)
     IN tick' =
          IF refusal # "none"
          THEN [tick EXCEPT !.next = @ + 1,
                            !.rejected = @ \cup {[artifact |-> a, reason |-> refusal]}]
          ELSE [tick EXCEPT !.next = @ + 1,
                            !.allocated = @ \cup {a},
                            !.gross = @ + Notional(a),
                            !.drawdown = @ + Notional(a) * profile[a].drawdown,
                            !.exposure = [s \in Symbols |->
                                            @[s] + IF s \in Scope(a) THEN tick.unit[a] ELSE 0]]
  /\ UNCHANGED world /\ UNCHANGED <<tables, ticks>>

(* Added up in artifact_id order.                                          *)
Sum(as, f) ==
  LET upTo[n \in 0..Artifacts] == IF n = 0 THEN 0 ELSE upTo[n - 1] + (IF n \in as THEN f[n] ELSE 0)
  IN  upTo[Artifacts]

TotalOf(as) == Sum(as, [a \in 1..Artifacts |-> Notional(a)])

OfRole(as, r) == {a \in as : profile[a].role = r}

(* The first of a role's largest allocations.                              *)
Largest(as) == Min({a \in as : \A b \in as : Notional(b) <= Notional(a)})

(* _role_fraction_rejections: of a role with more than its share, all but  *)
(* the largest allocation.                                                 *)
RoleRefused(as) ==
  IF RoleShare[1] >= RoleShare[2] \/ Cardinality(as) < 2 \/ TotalOf(as) = 0 THEN {}
  ELSE UNION {OfRole(as, r) \ {Largest(OfRole(as, r))} :
                r \in {q \in Roles : TotalOf(OfRole(as, q)) * RoleShare[2] > RoleShare[1] * TotalOf(as)}}

ExposureOf(as) == [s \in Symbols |-> Sum({a \in as : s \in Scope(a)}, tick.unit)]

DrawdownOf(as) == Sum(as, [a \in 1..Artifacts |-> Notional(a) * profile[a].drawdown])

(* Mutant: allocations dropped for their role are not reported.            *)
DropQuietly ==
  /\ tick.pc = "allocate" /\ tick.next > Artifacts
  /\ LET kept == tick.allocated \ RoleRefused(tick.allocated)
     IN tick' = [tick EXCEPT !.pc = "persist", !.allocated = kept, !.exposure = ExposureOf(kept)]
  /\ UNCHANGED world /\ UNCHANGED <<tables, ticks>>

ApplyRoles ==
  /\ tick.pc = "allocate" /\ tick.next > Artifacts
  /\ LET refused == RoleRefused(tick.allocated)
         kept == tick.allocated \ refused
     IN tick' = [tick EXCEPT
          !.pc = "persist",
          !.allocated = kept,
          !.rejected = @ \cup {[artifact |-> a, reason |-> "role_crowding_limit"] : a \in refused},
          !.exposure = ExposureOf(kept),
          !.gross = TotalOf(kept),
          !.drawdown = DrawdownOf(kept)]
  /\ UNCHANGED world /\ UNCHANGED <<tables, ticks>>

(* The plan, named by its contents.                                        *)
Plan == [allocated |-> [a \in tick.allocated |-> tick.unit[a]],
         rejected |-> tick.rejected,
         exposure |-> tick.exposure, gross |-> tick.gross, drawdown |-> tick.drawdown,
         accepted |-> tick.allocated # {} /\ tick.rejected = {}]

-----------------------------------------------------------------------------
(* Writing.                                                                *)

(* Mutant: only accepted plans are persisted.                              *)
PersistAccepted ==
  /\ tick.pc = "persist"
  /\ plans' = IF Plan.accepted THEN plans \cup {Plan} ELSE plans
  /\ tick' = [tick EXCEPT !.pc = "link"]
  /\ UNCHANGED world /\ UNCHANGED <<link, decisions, ticks>>

Persist ==
  /\ tick.pc = "persist"
  /\ plans' = plans \cup {Plan}
  /\ tick' = [tick EXCEPT !.pc = "link"]
  /\ UNCHANGED world /\ UNCHANGED <<link, decisions, ticks>>

(* Mutant: the plan is linked beside the one before.                       *)
LinkBeside ==
  /\ tick.pc = "link"
  /\ link' = link \cup {Plan}
  /\ tick' = [tick EXCEPT !.pc = "journal"]
  /\ UNCHANGED world /\ UNCHANGED <<plans, decisions, ticks>>

LinkSession ==
  /\ tick.pc = "link"
  /\ link' = {Plan}
  /\ tick' = [tick EXCEPT !.pc = "journal"]
  /\ UNCHANGED world /\ UNCHANGED <<plans, decisions, ticks>>

(* build_delta_order_plan: from what was filled to what was allocated.     *)
Delta(s) == tick.exposure[s] - tick.current[s]

Decision == [tick |-> ticks, plan |-> Plan, held |-> tick.held, current |-> tick.current,
             delta |-> [s \in Symbols |-> Delta(s)], barred |-> tick.barred]

(* The decision is journaled, and its order intents are returned.          *)
Journal ==
  /\ tick.pc = "journal"
  /\ decisions' = decisions \cup {Decision}
  /\ intents' = Decision.delta
  /\ tick' = Idle
  /\ UNCHANGED <<profile, stage, guarded, filled, net, plans, link, ticks, changes>>

(* The process dies, or an insert fails.                                   *)
TickCrashes ==
  /\ tick.pc # "idle"
  /\ tick' = Idle
  /\ UNCHANGED world /\ UNCHANGED <<tables, ticks>>

-----------------------------------------------------------------------------
(* The world.                                                              *)

(* What an operator, reconciliation or a lifecycle decision does to the    *)
(* stage of an artifact.                                                   *)
Overrides == {"paper", "paused", "retired"}

Override(a, to) ==
  /\ changes < MaxChanges /\ stage[a] # to
  /\ stage' = [stage EXCEPT ![a] = to]
  /\ tick' = IF to \in ActiveStages THEN [tick EXCEPT !.barred = @ \ {a}] ELSE tick
  /\ changes' = changes + 1
  /\ UNCHANGED <<profile, guarded, filled, net, tables, intents, ticks>>

(* The paper samples of an artifact come to pass, or to fail, the guard.   *)
Measure(a) ==
  /\ changes < MaxChanges
  /\ guarded' = [guarded EXCEPT ![a] = ~@]
  /\ changes' = changes + 1
  /\ UNCHANGED <<profile, stage, filled, net, tick, tables, intents, ticks>>

(* The intents for a symbol are executed in full.                          *)
Execute(s) ==
  /\ intents[s] # 0
  /\ filled' = [filled EXCEPT ![s] = @ + IF intents[s] > 0 THEN intents[s] ELSE -intents[s]]
  /\ net' = [net EXCEPT ![s] = @ + intents[s]]
  /\ intents' = [intents EXCEPT ![s] = 0]
  /\ UNCHANGED <<profile, stage, guarded, tick, tables, ticks, changes>>

TickStep ==
  \/ ReadExposure \/ ReadTelemetry \/ LoadCandidates \/ Consider \/ ApplyRoles
  \/ Persist \/ LinkSession \/ Journal

Next ==
  \/ TickStep
  \/ TickCrashes
  \/ \E a \in 1..Artifacts, to \in Overrides : Override(a, to)
  \/ \E a \in 1..Artifacts : Measure(a)
  \/ \E s \in Symbols : Execute(s)

Spec == Init /\ [][Next]_vars

-----------------------------------------------------------------------------
(* Properties.                                                             *)

Plans == plans \cup link \cup {d.plan : d \in decisions}

AllocatedIn(plan) == DOMAIN plan.allocated

RejectedIn(plan) == {x.artifact : x \in plan.rejected}

HoldersOf(plan, s) == {a \in AllocatedIn(plan) : s \in Scope(a)}

(* What a plan gives an artifact, over all its symbols.                    *)
Granted(plan) == [a \in AllocatedIn(plan) |-> plan.allocated[a] * Cardinality(Scope(a))]

(* What it may lose.                                                       *)
AtRisk(plan) == [a \in AllocatedIn(plan) |-> Granted(plan)[a] * profile[a].drawdown]

(* Types of the tables and of the plans in them; a session is linked to    *)
(* one plan at most (_link_session_plan).                                  *)
TypeOK ==
  /\ profile \in Profiles
  /\ stage \in [1..Artifacts -> ActiveStages \cup Overrides]
  /\ guarded \in [1..Artifacts -> BOOLEAN]
  /\ filled \in [Symbols -> Nat] /\ net \in [Symbols -> Int] /\ intents \in [Symbols -> Int]
  /\ tick.pc \in {"idle", "telemetry", "candidates", "allocate", "persist", "link", "journal"}
  /\ Cardinality(link) <= 1
  /\ \A p \in Plans :
       /\ AllocatedIn(p) \cup RejectedIn(p) \subseteq 1..Artifacts
       /\ p.exposure \in [Symbols -> Nat] /\ p.gross \in Nat /\ p.drawdown \in Nat
  /\ ticks \in 0..MaxTicks /\ changes \in 0..MaxChanges

(* Whatever the candidates and the order they come in, the allocations of  *)
(* a plan respect every limit together: per symbol, gross, drawdown, and   *)
(* no allocation crowds one before it (build_portfolio_plan), provided     *)
(* that no artifact lists a symbol twice (Profile).                        *)
PlanWithinLimits ==
  \A p \in Plans :
    /\ \A s \in Symbols : Sum(HoldersOf(p, s), p.allocated) <= MaxPerSymbol
    /\ Sum(AllocatedIn(p), Granted(p)) <= MaxGross
    /\ Sum(AllocatedIn(p), AtRisk(p)) <= DrawdownBudget
    /\ \A a, b \in AllocatedIn(p) : a < b => ~Crowds(b, a)

(* Every artifact of the session is allocated or rejected, for one reason, *)
(* never both and never neither, and a plan is accepted only if it rejects *)
(* none (docs/runbooks/local_smoke.md, "Every rejection has a              *)
(* human-readable reason").                                                *)
EveryCandidateAnswered ==
  \A p \in Plans :
    /\ AllocatedIn(p) \cup RejectedIn(p) = 1..Artifacts
    /\ AllocatedIn(p) \cap RejectedIn(p) = {}
    /\ \A x, y \in p.rejected : x.artifact = y.artifact => x = y
    /\ p.accepted <=> AllocatedIn(p) = 1..Artifacts /\ Artifacts > 0

(* An artifact that was paused or retired when the tick began and was not  *)
(* resumed while it ran gets no allocation, even if it was trading when    *)
(* the session began (_load_candidates, rollout_stage before               *)
(* lifecycle_state).                                                       *)
PausedStaysOut ==
  \A d \in decisions : d.barred \cap AllocatedIn(d.plan) = {}

(* A plan the session or a decision refers to is in portfolio_plans,       *)
(* wherever a tick died (persist_portfolio_plan before                     *)
(* _link_session_plan).                                                    *)
LinkedPlanPersisted ==
  link \cup {d.plan : d \in decisions} \subseteq plans

(* A reduce-only intent reduces the position it was made for: it never     *)
(* sells more than the book held when the tick read it                     *)
(* (build_delta_order_plan, reduce_only).                                  *)
ReduceOnlyReduces ==
  \A d \in decisions, s \in Symbols : d.delta[s] < 0 => d.held[s] + d.delta[s] >= 0
=============================================================================
