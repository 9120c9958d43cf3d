----------------------------- MODULE PaperDaemon -----------------------------
(***************************************************************************)
(* The paper dry run of one session (execution/paper_daemon.py).           *)
(*                                                                         *)
(* run_paper_daemon_dry_run gates the order intents of a fixture one by    *)
(* one, records every refusal, lets each artifact execute the allowed ones *)
(* and closes the session.  Each database call is a transaction of its     *)
(* own, so a crash may fall between any two.  The session id is a hash of  *)
(* the inputs (or given by the caller): running the command again, after a *)
(* crash or while the first process is still alive, works on the same      *)
(* rows.  The limits are those of the command and stay the same.           *)
(*                                                                         *)
(* The stream events of the fixture, the session's columns other than its  *)
(* status and the fills' prices and fees are left out.                     *)
(***************************************************************************)
EXTENDS Integers, Sequences, FiniteSets

CONSTANTS
  Processes,    (* processes that run the command                          *)
  Symbols,
  Fixtures,     (* the lists of order intents the command may be given     *)
  Artifacts,    (* how many artifacts the session runs, in order           *)
  Authorities,  (* what validation may say of each artifact                *)
  MaxPerSymbol, (* max_per_symbol_notional                                 *)
  MaxAggregate, (* max_aggregate_notional                                  *)
  MaxStarts     (* bound: how often the command is started                 *)

(* What the fixture's snapshot of an intent's symbol says of it: whether   *)
(* there is one, its spread is too wide, its visible depth is below the    *)
(* minimum, and its first levels are short of the intent's quantity.       *)
Market == [seen : BOOLEAN, wide : BOOLEAN, thin : BOOLEAN, short : BOOLEAN]

(* key stands for (symbol, side, qty, expected_price).                     *)
Intent == [key : Nat, symbol : Symbols, notional : Nat, market : Market, reduce : BOOLEAN]

ASSUME PaperDaemonAssumption ==
  /\ Fixtures \subseteq Seq(Intent)
  /\ Authorities \subseteq [1..Artifacts -> {"valid", "expired", "invalid"}]
  /\ Artifacts \in Nat /\ MaxPerSymbol \in Nat /\ MaxAggregate \in Nat /\ MaxStarts \in Nat

VARIABLES
  intents,    (* the fixture's order intents                               *)
  validity,   (* per artifact: valid, only expired, or invalid             *)
  proc,       (* the processes' local variables                            *)
  starts,     (* how often the command was started                         *)
  session,    (* paper_sessions.status                                     *)
  members,    (* paper_session_artifacts: artifact -> "active" | "blocked" *)
  ledger,     (* the events of the execution ledger, in event_id order     *)
  risks,      (* risk_events of the session                                *)
  telemetry,  (* order_telemetry of the session                            *)
  summary     (* risk_block_count of paper_session_summaries, or none      *)

vars == <<intents, validity, proc, starts, session, members, ledger, risks,
          telemetry, summary>>
tables == <<session, members, ledger, risks, telemetry, summary>>
inputs == <<intents, validity>>

NoSummary == -1

Off == [pc |-> "off"]

(* The local variables of a process that has just read its inputs.         *)
Fresh == [pc |-> "session", next |-> 1, exposure |-> [s \in Symbols |-> 0],
          aggregate |-> 0, allowed |-> <<>>, given |-> 0, event |-> 0,
          blocks |-> 0, artifact |-> 1]

Init ==
  /\ intents \in Fixtures
  /\ validity \in Authorities
  /\ proc = [p \in Processes |-> Off]
  /\ starts = 0
  /\ session = "none"
  /\ members = [a \in 1..Artifacts |-> "absent"]
  /\ ledger = <<>>
  /\ risks = {}
  /\ telemetry = {}
  /\ summary = NoSummary

-----------------------------------------------------------------------------
(* The command starts: inputs are loaded, nothing is written yet.          *)
Start(p) ==
  /\ proc[p] = Off
  /\ starts < MaxStarts
  /\ starts' = starts + 1
  /\ proc' = [proc EXCEPT ![p] = Fresh]
  /\ UNCHANGED <<inputs, tables>>

(* The process dies; what it committed stays.                              *)
Crash(p) ==
  /\ proc[p] # Off
  /\ proc' = [proc EXCEPT ![p] = Off]
  /\ UNCHANGED <<inputs, starts, tables>>

At(p, pc) == proc[p] # Off /\ proc[p].pc = pc

Goto(p, pc) == proc' = [proc EXCEPT ![p].pc = pc]

(* _upsert_paper_session: REPLACE with status running.                     *)
OpenSession(p) ==
  /\ At(p, "session")
  /\ session' = "running"
  /\ Goto(p, "members")
  /\ UNCHANGED <<inputs, starts, members, ledger, risks, telemetry, summary>>

(* _upsert_session_artifact, one artifact after the other.                 *)
RegisterArtifact(p) ==
  LET a == proc[p].artifact IN
  /\ At(p, "members")
  /\ a <= Artifacts
  /\ members' = [members EXCEPT ![a] = IF validity[a] = "valid" THEN "active" ELSE "blocked"]
  /\ proc' = [proc EXCEPT ![p].artifact = a + 1]
  /\ UNCHANGED <<inputs, starts, session, ledger, risks, telemetry, summary>>

(* The ENGINE_START event.                                                 *)
EngineStart(p) ==
  /\ At(p, "members")
  /\ proc[p].artifact > Artifacts
  /\ ledger' = Append(ledger, [type |-> "ENGINE_START"])
  /\ proc' = [proc EXCEPT ![p].pc = "gate", ![p].artifact = 1]
  /\ UNCHANGED <<inputs, starts, session, members, risks, telemetry, summary>>

-----------------------------------------------------------------------------
(* The keys of the intents seen so far, allowed or not.                    *)
Seen(q) == {intents[j].key : j \in 1..(q.next - 1)}

(* The reasons the market gives; both depth tests give the same one.       *)
MarketReasons(m) ==
  IF ~m.seen THEN <<"missing_book_trade_stream">>
  ELSE (IF m.wide THEN <<"spread_too_wide">> ELSE <<>>)
       \o (IF m.thin THEN <<"depth_too_thin">> ELSE <<>>)
       \o (IF m.short THEN <<"depth_too_thin">> ELSE <<>>)

(* Mutant: the aggregate limit is compared with the symbol's exposure.     *)
ReasonsPerSymbolOnly(q) ==
  LET i == intents[q.next] IN
  (IF i.key \in Seen(q) THEN <<"duplicate_intent">> ELSE <<>>)
  \o (IF q.exposure[i.symbol] + i.notional > MaxPerSymbol
        THEN <<"max_per_symbol_exposure">> ELSE <<>>)
  \o (IF q.exposure[i.symbol] + i.notional > MaxAggregate
        THEN <<"max_aggregate_notional">> ELSE <<>>)
  \o MarketReasons(i.market)

(* _risk_block_reasons of the next intent.                                 *)
RiskBlockReasons(q) ==
  LET i == intents[q.next] IN
  (IF i.key \in Seen(q) THEN <<"duplicate_intent">> ELSE <<>>)
  \o (IF q.exposure[i.symbol] + i.notional > MaxPerSymbol
        THEN <<"max_per_symbol_exposure">> ELSE <<>>)
  \o (IF q.aggregate + i.notional > MaxAggregate
        THEN <<"max_aggregate_notional">> ELSE <<>>)
  \o MarketReasons(i.market)

(* An intent without a reason against it counts towards the limits.        *)
AllowIntent(p) ==
  LET q == proc[p]
      i == intents[q.next]
  IN /\ At(p, "gate")
     /\ q.next <= Len(intents)
     /\ RiskBlockReasons(q) = <<>>
     /\ proc' = [proc EXCEPT ![p] =
          [q EXCEPT !.exposure[i.symbol] = @ + i.notional, !.aggregate = @ + i.notional,
                    !.allowed = Append(@, q.next), !.next = @ + 1]]
     /\ UNCHANGED <<inputs, starts, tables>>

(* append_execution_event of RISK_BLOCK for the next reason against it.    *)
(* number is the process's own count of blocks, in parent_intent_id.       *)
RecordBlock(p) ==
  LET q == proc[p] IN
  /\ At(p, "gate")
  /\ q.next <= Len(intents)
  /\ RiskBlockReasons(q) # <<>>
  /\ ledger' = Append(ledger, [type   |-> "RISK_BLOCK", intent |-> q.next,
                               reason |-> RiskBlockReasons(q)[q.given + 1],
                               number |-> q.blocks + 1])
  /\ proc' = [proc EXCEPT ![p] = [q EXCEPT !.event = Len(ledger) + 1, !.given = @ + 1,
                                           !.pc = "risk"]]
  /\ UNCHANGED <<inputs, starts, session, members, risks, telemetry, summary>>

(* After the last reason the loop goes on with the next intent.            *)
AfterRisk(q) ==
  IF q.given < Len(RiskBlockReasons(q))
    THEN [q EXCEPT !.blocks = @ + 1, !.pc = "gate"]
    ELSE [q EXCEPT !.blocks = @ + 1, !.pc = "gate", !.given = 0, !.next = @ + 1]

RiskRow(q) == [source |-> q.event, intent |-> q.next, reason |-> RiskBlockReasons(q)[q.given]]

(* Mutant: risk_events holds one row per intent.                           *)
RecordFirstRisk(p) ==
  /\ At(p, "risk")
  /\ risks' = IF \E r \in risks : r.intent = proc[p].next THEN risks
              ELSE risks \cup {RiskRow(proc[p])}
  /\ proc' = [proc EXCEPT ![p] = AfterRisk(@)]
  /\ UNCHANGED <<inputs, starts, session, members, ledger, telemetry, summary>>

(* _insert_risk_event: the row is keyed by the event just appended.        *)
RecordRisk(p) ==
  /\ At(p, "risk")
  /\ risks' = risks \cup {RiskRow(proc[p])}
  /\ proc' = [proc EXCEPT ![p] = AfterRisk(@)]
  /\ UNCHANGED <<inputs, starts, session, members, ledger, telemetry, summary>>

-----------------------------------------------------------------------------
(* The gating loop is over.                                                *)
Gated(p) == At(p, "gate") /\ proc[p].next > Len(intents)

(* The rows run_paper_executor_fixture produces: one per allowed intent,   *)
(* under the telemetry id <session>:<artifact>:paper:<ordinal>.            *)
Rows(q, a) == {[artifact |-> a, ordinal |-> k, intent |-> q.allowed[k]] : k \in 1..Len(q.allowed)}

SameKey(r, s) == r.artifact = s.artifact /\ r.ordinal = s.ordinal

(* paper_authority_decision: an expired artifact may only reduce.          *)
Authorized(p) ==
  LET v == validity[proc[p].artifact] IN
  \/ v = "valid"
  \/ v = "expired" /\ \A k \in 1..Len(proc[p].allowed) : intents[proc[p].allowed[k]].reduce

(* Mutant: the artifact's authority is not asked for.                      *)
ExecuteAnyArtifact(p) ==
  LET q == proc[p]
      a == q.artifact
  IN /\ Gated(p)
     /\ a <= Artifacts
     /\ telemetry' = {r \in telemetry : \A s \in Rows(q, a) : ~SameKey(r, s)} \cup Rows(q, a)
     /\ proc' = [proc EXCEPT ![p].artifact = a + 1]
     /\ UNCHANGED <<inputs, starts, session, members, ledger, risks, summary>>

(* The next artifact executes the allowed intents and its rows REPLACE the *)
(* ones with the same telemetry id, in one transaction.                    *)
ExecuteArtifact(p) ==
  LET q == proc[p]
      a == q.artifact
  IN /\ Gated(p)
     /\ a <= Artifacts
     /\ Authorized(p)
     /\ telemetry' = {r \in telemetry : \A s \in Rows(q, a) : ~SameKey(r, s)} \cup Rows(q, a)
     /\ proc' = [proc EXCEPT ![p].artifact = a + 1]
     /\ UNCHANGED <<inputs, starts, session, members, ledger, risks, summary>>

(* The executor raises for an artifact without paper authority, and the    *)
(* daemon with it: the session stays as it is.                             *)
AuthorityRefused(p) ==
  /\ Gated(p)
  /\ proc[p].artifact <= Artifacts
  /\ ~Authorized(p)
  /\ proc' = [proc EXCEPT ![p] = Off]
  /\ UNCHANGED <<inputs, starts, tables>>

(* Mutant: the session is closed before its artifacts have executed.       *)
WriteSummaryEarly(p) ==
  /\ Gated(p)
  /\ summary' = proc[p].blocks
  /\ Goto(p, "finish")
  /\ UNCHANGED <<inputs, starts, session, members, ledger, risks, telemetry>>

(* _insert_session_summary.                                                *)
WriteSummary(p) ==
  /\ Gated(p)
  /\ proc[p].artifact > Artifacts
  /\ summary' = proc[p].blocks
  /\ Goto(p, "finish")
  /\ UNCHANGED <<inputs, starts, session, members, ledger, risks, telemetry>>

(* _finish_paper_session.                                                  *)
FinishSession(p) ==
  /\ At(p, "finish")
  /\ session' = "completed"
  /\ Goto(p, "stop")
  /\ UNCHANGED <<inputs, starts, members, ledger, risks, telemetry, summary>>

(* The ENGINE_STOP event; the command returns.                             *)
EngineStop(p) ==
  /\ At(p, "stop")
  /\ ledger' = Append(ledger, [type |-> "ENGINE_STOP"])
  /\ proc' = [proc EXCEPT ![p] = Off]
  /\ UNCHANGED <<inputs, starts, session, members, risks, telemetry, summary>>

Next ==
  \E p \in Processes :
    \/ Start(p) \/ Crash(p)
    \/ OpenSession(p) \/ RegisterArtifact(p) \/ EngineStart(p)
    \/ AllowIntent(p) \/ RecordBlock(p) \/ RecordRisk(p)
    \/ ExecuteArtifact(p) \/ AuthorityRefused(p)
    \/ WriteSummary(p) \/ FinishSession(p) \/ EngineStop(p)

Spec == Init /\ [][Next]_vars

-----------------------------------------------------------------------------
Blocks == {e \in 1..Len(ledger) : ledger[e].type = "RISK_BLOCK"}

Executed(a) == {r.intent : r \in {t \in telemetry : t.artifact = a}}

(* The notional of the intents in S, added up in the fixture's order.      *)
Notional(S) ==
  LET upTo[n \in 0..Len(intents)] ==
        IF n = 0 THEN 0 ELSE upTo[n - 1] + (IF n \in S THEN intents[n].notional ELSE 0)
  IN  upTo[Len(intents)]

(* However often the command is repeated, crashed or overlaps itself, what *)
(* an artifact has executed in the session stays within the limits of the  *)
(* command and holds no intent twice (the gating loop and the telemetry    *)
(* ids of run_paper_daemon_dry_run).                                       *)
LimitsHold ==
  \A a \in 1..Artifacts :
    LET done == Executed(a) IN
    /\ Notional(done) <= MaxAggregate
    /\ \A s \in Symbols : Notional({i \in done : intents[i].symbol = s}) <= MaxPerSymbol
    /\ \A i, j \in done : i # j => intents[i].key # intents[j].key

(* A completed session accounts for every intent: each one was executed by *)
(* every artifact, or was refused and has a block in the ledger and a row  *)
(* in risk_events for it; never both.                                      *)
EveryIntentSettled ==
  /\ \A e \in Blocks : \A r \in telemetry : r.intent # ledger[e].intent
  /\ session = "completed" =>
       \A i \in 1..Len(intents) :
         \/ \A a \in 1..Artifacts : i \in Executed(a)
         \/ \E r \in risks : r.intent = i

(* Every refusal is written twice, to the ledger and then to risk_events,  *)
(* and counted in the summary.  An intent may be refused for one reason    *)
(* twice, so the refusals are told apart by the number in their            *)
(* parent_intent_id: whichever process wrote a block, the number means the *)
(* same refusal, and a completed session has, in the ledger and in         *)
(* risk_events, exactly the numbers up to its summary, however often it    *)
(* was started.  Before that a block misses its risk row only if a process *)
(* died or is between the two writes, so never more of them than starts.   *)
BlocksAgree ==
  /\ session = "completed" =>
       /\ {ledger[e].number : e \in Blocks} = 1..summary
       /\ {ledger[r.source].number : r \in risks} = 1..summary
  /\ \A e, f \in Blocks : ledger[e].number = ledger[f].number =>
       ledger[e].intent = ledger[f].intent /\ ledger[e].reason = ledger[f].reason
  /\ \A r \in risks : ledger[r.source].reason = r.reason /\ ledger[r.source].intent = r.intent
  /\ Cardinality({e \in Blocks : \A r \in risks : r.source # e}) <= starts

(* An invalid artifact executes nothing and its session never completes;   *)
(* an expired one executes nothing but reductions                          *)
(* (paper_authority_decision in run_paper_executor_fixture).               *)
AuthorityRespected ==
  \A a \in 1..Artifacts :
    /\ validity[a] = "invalid" => Executed(a) = {} /\ session # "completed"
    /\ validity[a] = "expired" => \A i \in Executed(a) : intents[i].reduce
=============================================================================
