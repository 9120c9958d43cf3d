-------------------------- MODULE PaperDaemonProofs --------------------------
(***************************************************************************)
(* What holds of the paper dry run for any fixture, limits, number of      *)
(* processes and of starts, whatever dies when: nothing is executed        *)
(* without authority, and no session completes without it; what is         *)
(* executed stays within the limits and holds no intent twice; no intent   *)
(* is lost between the loop's transactions or both refused and executed.   *)
(*                                                                         *)
(* The limits need a history: every process, however often it starts over, *)
(* takes the same decisions, because they depend on the fixture and the    *)
(* limits alone.  Course is that run of the gating loop, a function of the *)
(* number of intents decided; GatingInv says that every process stands     *)
(* somewhere on it, that the ledger's blocks are its refusals and that the *)
(* rows of an artifact are all of its orders or none.  What Course decides *)
(* is within the limits (CourseIsSound) by induction on the number of      *)
(* intents, done by a least counterexample: the library's induction        *)
(* theorems take the formula as a parameter, its WFMin does not.           *)
(*                                                                         *)
(* The counts need what each process has recorded so far.  The course also *)
(* numbers the refusals, one reason of one intent after the other, and     *)
(* BlocksInv says that a process has recorded them up to its own count,    *)
(* that a block between the two writes belongs to one process alone, and   *)
(* that a start pays for at most one block that never gets its row.        *)
(***************************************************************************)
EXTENDS PaperDaemon, FiniteSetTheorems, WellFoundedInduction, TLAPS

Artifact == 1..Artifacts

Fields == {"pc", "next", "exposure", "aggregate", "allowed", "given", "event", "blocks", "artifact"}

Pcs == {"session", "members", "gate", "risk", "finish", "stop"}

(* From the gate on, the artifacts a process is past had authority; after  *)
(* its summary it is past all of them.                                     *)
Entitled(q) ==
  /\ DOMAIN q = Fields /\ q.pc \in Pcs
  /\ q.artifact \in Nat \ {0}
  /\ q.pc \in {"gate", "risk", "finish", "stop"} =>
       \A a \in Artifact : a < q.artifact => validity[a] # "invalid"
  /\ q.pc \in {"finish", "stop"} => q.artifact > Artifacts

Everyone == \A p \in Processes : proc[p] # Off => Entitled(proc[p])

(* What is in the tables was allowed there.                                *)
Recorded ==
  /\ session = "completed" => \A a \in Artifact : validity[a] # "invalid"
  /\ \A r \in telemetry :
       /\ r.artifact \in Artifact /\ validity[r.artifact] # "invalid"
       /\ validity[r.artifact] = "expired" => intents[r.intent].reduce

IInv ==
  /\ validity \in [Artifact -> {"valid", "expired", "invalid"}]
  /\ DOMAIN proc = Processes
  /\ Everyone
  /\ Recorded

LEMMA InitHolds ==
  ASSUME PaperDaemonAssumption, Init
  PROVE  IInv
<1>1. validity \in [Artifact -> {"valid", "expired", "invalid"}]
  BY DEF Init, PaperDaemonAssumption, Artifact
<1>2. DOMAIN proc = Processes /\ \A p \in Processes : proc[p] = Off
  BY DEF Init
<1>3. session = "none" /\ telemetry = {}
  BY DEF Init
<1> QED
  BY <1>1, <1>2, <1>3 DEF IInv, Everyone, Recorded

(* One process moves from one entitled state to another, or goes.          *)
LEMMA OneMoves ==
  ASSUME IInv, NEW p \in Processes, NEW q, proc' = [proc EXCEPT ![p] = q],
         q # Off => Entitled(q), UNCHANGED inputs
  PROVE  DOMAIN proc' = Processes /\ Everyone'
<1>1. DOMAIN proc' = Processes
  BY DEF IInv
<1>2. \A o \in Processes : proc'[o] # Off => Entitled(proc'[o])
  BY DEF IInv, Everyone
<1>3. validity' = validity
  BY DEF inputs
<1>4. Everyone'
  BY <1>2, <1>3 DEF Everyone, Entitled, Artifact
<1> QED
  BY <1>1, <1>4

LEMMA TablesKeep ==
  ASSUME Recorded, UNCHANGED <<inputs, telemetry>>,
         session' = session \/ session' = "running"
  PROVE  Recorded'
BY DEF Recorded, inputs, Artifact

(* A step of one process that records nothing with authority.              *)
LEMMA QuietHolds ==
  ASSUME IInv, NEW p \in Processes, NEW q, proc' = [proc EXCEPT ![p] = q],
         q # Off => Entitled(q), UNCHANGED <<inputs, telemetry>>,
         session' = session \/ session' = "running"
  PROVE  IInv'
<1>1. DOMAIN proc' = Processes /\ Everyone'
  BY OneMoves DEF inputs
<1>2. Recorded'
  BY TablesKeep DEF IInv
<1>3. (validity \in [Artifact -> {"valid", "expired", "invalid"}])'
  BY DEF IInv, inputs, Artifact
<1> QED
  BY <1>1, <1>2, <1>3 DEF IInv

(* A process that is on is entitled.                                       *)
LEMMA IsEntitled ==
  ASSUME IInv, NEW p \in Processes, NEW pc, At(p, pc)
  PROVE  Entitled(proc[p]) /\ proc[p].pc = pc /\ proc[p] # Off
BY DEF IInv, Everyone, At

LEMMA StartHolds ==
  ASSUME IInv, NEW p \in Processes, Start(p)
  PROVE  IInv'
<1>1. Entitled(Fresh)
  BY DEF Entitled, Fresh, Fields, Pcs
<1> QED
  BY <1>1, QuietHolds DEF Start, tables

LEMMA LeaveHolds ==
  ASSUME IInv, NEW p \in Processes, Crash(p) \/ AuthorityRefused(p) \/ EngineStop(p)
  PROVE  IInv'
BY QuietHolds DEF Crash, AuthorityRefused, EngineStop, tables

LEMMA OpenSessionHolds ==
  ASSUME IInv, NEW p \in Processes, OpenSession(p)
  PROVE  IInv'
<1> DEFINE q == [proc[p] EXCEPT !.pc = "members"]
<1>1. Entitled(proc[p]) /\ proc[p].pc = "session"
  BY IsEntitled DEF OpenSession
<1>2. proc' = [proc EXCEPT ![p] = q]
  BY DEF OpenSession, Goto
<1>3. Entitled(q)
  BY <1>1 DEF Entitled, Fields, Pcs
<1> HIDE DEF q
<1> QED
  BY <1>2, <1>3, QuietHolds DEF OpenSession

LEMMA RegisterArtifactHolds ==
  ASSUME IInv, NEW p \in Processes, RegisterArtifact(p)
  PROVE  IInv'
<1> DEFINE q == [proc[p] EXCEPT !.artifact = proc[p].artifact + 1]
<1>1. Entitled(proc[p]) /\ proc[p].pc = "members"
  BY IsEntitled DEF RegisterArtifact
<1>2. proc' = [proc EXCEPT ![p] = q]
  BY DEF RegisterArtifact
<1>3. Entitled(q)
  BY <1>1 DEF Entitled, Fields, Pcs
<1> HIDE DEF q
<1> QED
  BY <1>2, <1>3, QuietHolds DEF RegisterArtifact

LEMMA EngineStartHolds ==
  ASSUME IInv, NEW p \in Processes, EngineStart(p)
  PROVE  IInv'
<1> DEFINE q == [proc[p] EXCEPT !.pc = "gate", !.artifact = 1]
<1>1. Entitled(proc[p])
  BY IsEntitled DEF EngineStart
<1>2. proc' = [proc EXCEPT ![p] = q]
  BY DEF EngineStart
<1>3. Entitled(q)
  <2>1. DOMAIN q = Fields /\ q.pc = "gate" /\ q.artifact = 1
    BY <1>1 DEF Entitled, Fields
  <2>2. \A a \in Artifact : ~(a < 1)
    BY DEF Artifact
  <2> QED
    BY <2>1, <2>2 DEF Entitled, Pcs
<1> HIDE DEF q
<1> QED
  BY <1>2, <1>3, QuietHolds DEF EngineStart

(* The gating loop leaves the artifact alone.                              *)
LEMMA GatingKeeps ==
  ASSUME NEW q, Entitled(q), q.pc \in {"gate", "risk"}, NEW s, DOMAIN s = Fields,
         s.pc \in {"gate", "risk"}, s.artifact = q.artifact
  PROVE  Entitled(s)
BY DEF Entitled, Pcs

LEMMA AllowIntentHolds ==
  ASSUME IInv, NEW p \in Processes, AllowIntent(p)
  PROVE  IInv'
<1> DEFINE i == intents[proc[p].next]
           exposure == [proc[p].exposure EXCEPT ![i.symbol] = @ + i.notional]
           q == [proc[p] EXCEPT !.exposure = exposure, !.aggregate = @ + i.notional,
                                !.allowed = Append(@, proc[p].next), !.next = @ + 1]
<1>1. Entitled(proc[p]) /\ proc[p].pc = "gate"
  BY IsEntitled DEF AllowIntent
<1>2. proc' = [proc EXCEPT ![p] = q]
  BY Zenon DEF AllowIntent
<1>3. DOMAIN q = Fields /\ q.pc = "gate" /\ q.artifact = proc[p].artifact
  <2> HIDE DEF exposure, i
  <2> QED
    BY <1>1 DEF Entitled, Fields
<1> HIDE DEF q
<1>4. Entitled(q)
  BY <1>1, <1>3, GatingKeeps
<1> QED
  BY <1>2, <1>4, QuietHolds DEF AllowIntent, tables

LEMMA RecordBlockHolds ==
  ASSUME IInv, NEW p \in Processes, RecordBlock(p)
  PROVE  IInv'
<1> DEFINE q == [proc[p] EXCEPT !.event = Len(ledger) + 1, !.given = @ + 1, !.pc = "risk"]
<1>1. Entitled(proc[p]) /\ proc[p].pc = "gate"
  BY IsEntitled DEF RecordBlock
<1>2. proc' = [proc EXCEPT ![p] = q]
  BY DEF RecordBlock
<1>3. DOMAIN q = Fields /\ q.pc = "risk" /\ q.artifact = proc[p].artifact
  BY <1>1 DEF Entitled, Fields
<1> HIDE DEF q
<1>4. Entitled(q)
  BY <1>1, <1>3, GatingKeeps
<1> QED
  BY <1>2, <1>4, QuietHolds DEF RecordBlock

LEMMA RecordRiskHolds ==
  ASSUME IInv, NEW p \in Processes, RecordRisk(p)
  PROVE  IInv'
<1> DEFINE q == AfterRisk(proc[p])
<1>1. Entitled(proc[p]) /\ proc[p].pc = "risk"
  BY IsEntitled DEF RecordRisk
<1>2. proc' = [proc EXCEPT ![p] = q]
  BY DEF RecordRisk
<1>3. DOMAIN q = Fields /\ q.pc = "gate" /\ q.artifact = proc[p].artifact
  BY <1>1 DEF AfterRisk, Entitled, Fields
<1> HIDE DEF q
<1>4. Entitled(q)
  BY <1>1, <1>3, GatingKeeps
<1> QED
  BY <1>2, <1>4, QuietHolds DEF RecordRisk

LEMMA ExecuteArtifactHolds ==
  ASSUME PaperDaemonAssumption, IInv, NEW p \in Processes, ExecuteArtifact(p)
  PROVE  IInv'
<1> DEFINE a == proc[p].artifact
           q == [proc[p] EXCEPT !.artifact = a + 1]
<1>1. /\ At(p, "gate") /\ a <= Artifacts /\ Authorized(p)
      /\ telemetry' \subseteq telemetry \cup Rows(proc[p], a)
      /\ proc' = [proc EXCEPT ![p] = q]
      /\ UNCHANGED <<inputs, session>>
  BY DEF ExecuteArtifact, Gated
<1>2. Entitled(proc[p]) /\ proc[p].pc = "gate" /\ a \in Artifact
  BY <1>1, IsEntitled DEF Entitled, Artifact, PaperDaemonAssumption
<1>3. validity[a] # "invalid"
  BY <1>1 DEF Authorized
<1>4. Entitled(q)
  <2>1. DOMAIN q = Fields /\ q.pc = "gate" /\ q.artifact = a + 1
    BY <1>2 DEF Entitled, Fields
  <2>2. ASSUME NEW b \in Artifact, b < a + 1
        PROVE  validity[b] # "invalid"
    <3>1. b = a \/ b < a
      BY <1>2, <2>2 DEF Artifact
    <3> QED
      BY <1>2, <1>3, <3>1 DEF Entitled
  <2>3. a + 1 \in Nat \ {0}
    BY <1>2 DEF Artifact
  <2> HIDE DEF q
  <2> QED
    BY <2>1, <2>2, <2>3 DEF Entitled, Pcs
<1>5. DOMAIN proc' = Processes /\ Everyone'
  <2> HIDE DEF q
  <2> QED
    BY <1>1, <1>4, OneMoves
<1>6. ASSUME NEW r \in Rows(proc[p], a)
      PROVE  r.artifact = a /\ (validity[a] = "expired" => intents[r.intent].reduce)
  <2>1. PICK k \in 1..Len(proc[p].allowed) :
          r = [artifact |-> a, ordinal |-> k, intent |-> proc[p].allowed[k]]
    BY <1>6 DEF Rows
  <2>2. validity[a] = "expired" => intents[proc[p].allowed[k]].reduce
    BY <1>1 DEF Authorized
  <2> QED
    BY <2>1, <2>2
<1>7. Recorded'
  <2>1. validity' = validity /\ intents' = intents /\ session' = session
    BY <1>1 DEF inputs
  <2>2. ASSUME NEW r \in telemetry'
        PROVE  /\ r.artifact \in Artifact /\ validity[r.artifact] # "invalid"
               /\ validity[r.artifact] = "expired" => intents[r.intent].reduce
    <3>1. CASE r \in telemetry
      BY <3>1 DEF IInv, Recorded
    <3>2. CASE r \in Rows(proc[p], a)
      BY <3>2, <1>2, <1>3, <1>6
    <3> QED
      BY <1>1, <2>2, <3>1, <3>2
  <2> QED
    BY <2>1, <2>2 DEF IInv, Recorded, Artifact
<1>8. (validity \in [Artifact -> {"valid", "expired", "invalid"}])'
  BY <1>1 DEF IInv, inputs, Artifact
<1> QED
  BY <1>5, <1>7, <1>8 DEF IInv

LEMMA WriteSummaryHolds ==
  ASSUME IInv, NEW p \in Processes, WriteSummary(p)
  PROVE  IInv'
<1> DEFINE q == [proc[p] EXCEPT !.pc = "finish"]
<1>1. Entitled(proc[p]) /\ proc[p].pc = "gate" /\ proc[p].artifact > Artifacts
  BY IsEntitled DEF WriteSummary, Gated
<1>2. proc' = [proc EXCEPT ![p] = q]
  BY DEF WriteSummary, Goto
<1>3. Entitled(q)
  BY <1>1 DEF Entitled, Fields, Pcs
<1> HIDE DEF q
<1> QED
  BY <1>2, <1>3, QuietHolds DEF WriteSummary

(* Only a process that is past every artifact completes the session.       *)
LEMMA FinishSessionHolds ==
  ASSUME PaperDaemonAssumption, IInv, NEW p \in Processes, FinishSession(p)
  PROVE  IInv'
<1> DEFINE q == [proc[p] EXCEPT !.pc = "stop"]
<1>1. Entitled(proc[p]) /\ proc[p].pc = "finish"
  BY IsEntitled DEF FinishSession
<1>2. proc' = [proc EXCEPT ![p] = q] /\ session' = "completed" /\ UNCHANGED <<inputs, telemetry>>
  BY DEF FinishSession, Goto
<1>3. Entitled(q)
  BY <1>1 DEF Entitled, Fields, Pcs
<1>4. \A a \in Artifact : validity[a] # "invalid"
  <2>1. ASSUME NEW a \in Artifact
        PROVE  a < proc[p].artifact
    BY <1>1 DEF Entitled, Artifact, PaperDaemonAssumption
  <2> QED
    BY <1>1, <2>1 DEF Entitled
<1>5. DOMAIN proc' = Processes /\ Everyone'
  <2> HIDE DEF q
  <2> QED
    BY <1>2, <1>3, OneMoves
<1>6. Recorded'
  BY <1>2, <1>4 DEF IInv, Recorded, inputs, Artifact
<1>7. (validity \in [Artifact -> {"valid", "expired", "invalid"}])'
  BY <1>2 DEF IInv, inputs, Artifact
<1> QED
  BY <1>5, <1>6, <1>7 DEF IInv

LEMMA StutterHolds ==
  ASSUME IInv, UNCHANGED vars
  PROVE  IInv'
<1>1. Everyone'
  BY DEF IInv, Everyone, Entitled, vars, Artifact
<1>2. Recorded'
  BY TablesKeep DEF IInv, vars, inputs
<1> QED
  BY <1>1, <1>2 DEF IInv, vars, Artifact

LEMMA StepHolds ==
  ASSUME PaperDaemonAssumption, IInv, [Next]_vars
  PROVE  IInv'
<1>1. ASSUME NEW p \in Processes,
             Start(p) \/ Crash(p) \/ AuthorityRefused(p) \/ EngineStop(p)
      PROVE  IInv'
  BY <1>1, StartHolds, LeaveHolds
<1>2. ASSUME NEW p \in Processes, OpenSession(p) \/ RegisterArtifact(p) \/ EngineStart(p)
      PROVE  IInv'
  BY <1>2, OpenSessionHolds, RegisterArtifactHolds, EngineStartHolds
<1>3. ASSUME NEW p \in Processes, AllowIntent(p) \/ RecordBlock(p) \/ RecordRisk(p)
      PROVE  IInv'
  BY <1>3, AllowIntentHolds, RecordBlockHolds, RecordRiskHolds
<1>4. ASSUME NEW p \in Processes, ExecuteArtifact(p) \/ WriteSummary(p) \/ FinishSession(p)
      PROVE  IInv'
  BY <1>4, ExecuteArtifactHolds, WriteSummaryHolds, FinishSessionHolds
<1> QED
  BY <1>1, <1>2, <1>3, <1>4, StutterHolds DEF Next

(* Whoever runs, repeats or kills the command, an artifact without         *)
(* authority executes nothing, an expired one only reduces, and a session  *)
(* with an invalid artifact is never completed (the order of the           *)
(* executor's check, its rows and the session's end).                      *)
THEOREM AuthorityAlwaysRespected == Spec => []AuthorityRespected
<1>1. Init => IInv
  BY PaperDaemonAssumption, InitHolds
<1>2. IInv /\ [Next]_vars => IInv'
  BY PaperDaemonAssumption, StepHolds
<1>3. IInv => AuthorityRespected
  BY DEF IInv, Recorded, AuthorityRespected, Executed, Artifact
<1> QED
  BY <1>1, <1>2, <1>3, PTL DEF Spec

-----------------------------------------------------------------------------
(* Sums in the fixture's order                                             *)

(* What stands in for induction: a smallest counterexample.                *)
LEMMA LeastOfNaturals ==
  ASSUME NEW S \in SUBSET Nat, S # {}
  PROVE  \E x \in S : \A y \in S : x <= y
<1> DEFINE Less == {ss \in Nat \X Nat : ss[1] < ss[2]}
<1>1. IsWellFoundedOn(Less, Nat)
  BY NatLessThanWellFounded, Zenon DEF OpToRel
<1> HIDE DEF Less
<1>2. PICK x \in S : \A y \in S : ~(<<y, x>> \in Less)
  BY <1>1, WFMin, Zenon
<1>3. ASSUME NEW y \in S PROVE x <= y
  <2>1. x \in Nat /\ y \in Nat /\ <<y, x>> \notin Less
    BY <1>2
  <2>2. ~(y < x)
    BY <2>1 DEF Less
  <2> QED
    BY <2>1, <2>2
<1> QED
  BY <1>3

N == Len(intents)

IntentsTyped == N \in Nat /\ \A k \in 1..N : intents[k] \in Intent

TermOf(S, k) == IF k \in S THEN intents[k].notional ELSE 0

TotalAt(S, g, k) == IF k = 0 THEN 0 ELSE g[k - 1] + TermOf(S, k)

IsTotal(S, n, g) == g = [k \in 0..n |-> TotalAt(S, g, k)]

LEMMA TermIsNat ==
  ASSUME IntentsTyped, NEW S, NEW k \in 1..N
  PROVE  TermOf(S, k) \in Nat
BY DEF IntentsTyped, Intent, TermOf

LEMMA TotalExtends ==
  ASSUME NEW S, NEW n \in Nat, NEW g, IsTotal(S, n, g)
  PROVE  \E h : IsTotal(S, n + 1, h)
<1> DEFINE h == [k \in 0..(n + 1) |-> IF k \in 0..n THEN g[k] ELSE g[n] + TermOf(S, n + 1)]
<1>1. ASSUME NEW k \in 0..(n + 1) PROVE h[k] = TotalAt(S, h, k)
  <2>1. CASE k = n + 1
    <3>1. k # 0 /\ k - 1 = n /\ n \in 0..n /\ n \in 0..(n + 1) /\ k \notin 0..n
      BY <2>1
    <3>2. h[n] = g[n] /\ h[k] = g[n] + TermOf(S, n + 1)
      BY <3>1
    <3> HIDE DEF h
    <3> QED
      BY <2>1, <3>1, <3>2 DEF TotalAt
  <2>2. CASE k # n + 1
    <3>1. k \in 0..n /\ (k # 0 => k - 1 \in 0..n /\ k - 1 \in 0..(n + 1))
      BY <2>2
    <3>2. h[k] = g[k] /\ (k # 0 => h[k - 1] = g[k - 1])
      BY <3>1
    <3>3. g[k] = TotalAt(S, g, k)
      BY <3>1 DEF IsTotal
    <3> HIDE DEF h
    <3> QED
      BY <3>2, <3>3 DEF TotalAt
  <2> QED
    BY <2>1, <2>2
<1>2. h = [k \in 0..(n + 1) |-> h[k]]
  OBVIOUS
<1> HIDE DEF h
<1> QED
  BY <1>1, <1>2 DEF IsTotal

LEMMA TotalExists ==
  ASSUME NEW S, NEW n \in Nat
  PROVE  \E g : IsTotal(S, n, g)
<1> DEFINE Without == {m \in Nat : ~\E g : IsTotal(S, m, g)}
<1>1. Without = {}
  <2> SUFFICES ASSUME Without # {} PROVE FALSE
    OBVIOUS
  <2>1. PICK m \in Without : \A k \in Without : m <= k
    BY LeastOfNaturals
  <2>2. CASE m = 0
    <3> DEFINE g == [k \in 0..0 |-> 0]
    <3>1. IsTotal(S, 0, g)
      BY DEF IsTotal, TotalAt
    <3> QED
      BY <2>2, <3>1
  <2>3. CASE m # 0
    <3>1. m - 1 \in Nat /\ (m - 1) + 1 = m /\ ~(m <= m - 1) /\ m \in Nat
      BY <2>3
    <3>2. \E g : IsTotal(S, m - 1, g)
      BY <2>1, <3>1
    <3>3. \E h : IsTotal(S, (m - 1) + 1, h)
      BY <3>1, <3>2, TotalExtends
    <3> QED
      BY <3>1, <3>3
  <2> QED
    BY <2>2, <2>3
<1> QED
  BY <1>1

LEMMA NotionalIsTotal ==
  ASSUME IntentsTyped, NEW S
  PROVE  \E g : IsTotal(S, N, g) /\ Notional(S) = g[N]
<1> DEFINE g == CHOOSE h : IsTotal(S, N, h)
<1>1. IsTotal(S, N, g)
  BY TotalExists, Zenon DEF IntentsTyped
<1>2. Notional(S) = g[N]
  BY Zenon DEF Notional, IsTotal, TotalAt, TermOf, N
<1> QED
  BY <1>1, <1>2

LEMMA NotionalOfNone ==
  ASSUME IntentsTyped
  PROVE  Notional({}) = 0
<1>1. PICK g : IsTotal({}, N, g) /\ Notional({}) = g[N]
  BY NotionalIsTotal
<1> DEFINE Bad == {k \in 0..N : g[k] # 0}
<1>2. Bad = {}
  <2> SUFFICES ASSUME Bad # {} PROVE FALSE
    OBVIOUS
  <2>1. Bad \subseteq Nat
    BY DEF IntentsTyped
  <2>2. PICK k \in Bad : \A j \in Bad : k <= j
    BY <2>1, LeastOfNaturals
  <2>3. g[k] = IF k = 0 THEN 0 ELSE g[k - 1] + 0
    BY <1>1 DEF IsTotal, TotalAt, TermOf
  <2>4. k # 0 /\ k \in Nat
    BY <2>1, <2>3
  <2>5. k - 1 \in 0..N /\ ~(k <= k - 1)
    BY <2>4 DEF IntentsTyped
  <2>6. g[k - 1] = 0
    BY <2>2, <2>5
  <2> QED
    BY <2>3, <2>6
<1> QED
  BY <1>1, <1>2 DEF IntentsTyped

(* From the added intent on, its notional is part of the running total.    *)
Grown(x, g, h) ==
  \A k \in 0..N : g[k] \in Nat /\ h[k] = g[k] + (IF x <= k THEN intents[x].notional ELSE 0)

LEMMA TotalsGrow ==
  ASSUME IntentsTyped, NEW S, NEW x \in 1..N, x \notin S,
         NEW g, IsTotal(S, N, g), NEW h, IsTotal(S \cup {x}, N, h)
  PROVE  Grown(x, g, h)
<1> DEFINE After(k) == IF x <= k THEN intents[x].notional ELSE 0
           Right(k) == g[k] \in Nat /\ h[k] = g[k] + After(k)
           Bad == {k \in 0..N : ~Right(k)}
<1>1. Bad = {}
  <2> SUFFICES ASSUME Bad # {} PROVE FALSE
    OBVIOUS
  <2>1. Bad \subseteq Nat /\ N \in Nat
    BY DEF IntentsTyped
  <2>2. PICK k \in Bad : \A j \in Bad : k <= j
    BY <2>1, LeastOfNaturals
  <2>3. g[k] = TotalAt(S, g, k) /\ h[k] = TotalAt(S \cup {x}, h, k)
    BY DEF IsTotal
  <2>4. CASE k = 0
    <3>1. g[k] = 0 /\ h[k] = 0 /\ ~(x <= k)
      BY <2>1, <2>3, <2>4 DEF TotalAt
    <3> QED
      BY <3>1
  <2>5. CASE k # 0
    <3>1. k \in 1..N /\ k - 1 \in 0..N /\ ~(k <= k - 1)
      BY <2>1, <2>5
    <3>2. k - 1 \notin Bad
      BY <2>2, <3>1
    <3>3. g[k - 1] \in Nat /\ h[k - 1] = g[k - 1] + After(k - 1)
      BY <3>1, <3>2
    <3>4. g[k] = g[k - 1] + TermOf(S, k) /\ h[k] = h[k - 1] + TermOf(S \cup {x}, k)
      BY <2>3, <2>5 DEF TotalAt
    <3>5. TermOf(S, k) \in Nat /\ intents[x].notional \in Nat
      BY <3>1, TermIsNat DEF IntentsTyped, Intent
    <3>6. CASE k = x
      <4>1. TermOf(S, k) = 0 /\ TermOf(S \cup {x}, k) = intents[x].notional
        BY <3>6 DEF TermOf
      <4>2. After(k) = intents[x].notional /\ After(k - 1) = 0
        BY <2>1, <3>1, <3>6
      <4> HIDE DEF After
      <4> QED
        BY <3>3, <3>4, <3>5, <4>1, <4>2
    <3>7. CASE k # x
      <4>1. TermOf(S \cup {x}, k) = TermOf(S, k)
        BY <3>7 DEF TermOf
      <4>2. After(k) = After(k - 1) /\ After(k) \in Nat
        BY <2>1, <3>1, <3>5, <3>7
      <4> HIDE DEF After
      <4> QED
        BY <3>3, <3>4, <3>5, <4>1, <4>2
    <3> QED
      BY <3>6, <3>7
  <2> QED
    BY <2>4, <2>5
<1> QED
  BY <1>1 DEF Grown

LEMMA NotionalOfOneMore ==
  ASSUME IntentsTyped, NEW S, NEW x \in 1..N, x \notin S
  PROVE  /\ Notional(S) \in Nat
         /\ Notional(S \cup {x}) = Notional(S) + intents[x].notional
<1>1. PICK g : IsTotal(S, N, g) /\ Notional(S) = g[N]
  BY NotionalIsTotal
<1>2. PICK h : IsTotal(S \cup {x}, N, h) /\ Notional(S \cup {x}) = h[N]
  BY NotionalIsTotal
<1>3. N \in 0..N /\ x <= N
  BY DEF IntentsTyped
<1>4. Grown(x, g, h)
  BY <1>1, <1>2, TotalsGrow
<1> QED
  BY <1>1, <1>2, <1>3, <1>4 DEF Grown

-----------------------------------------------------------------------------
(* The course of the gating loop.  It depends on the fixture alone, so     *)
(* every process that runs the command, whenever it does, takes it.        *)

Opening == [next |-> 1, exposure |-> [s \in Symbols |-> 0], aggregate |-> 0, allowed |-> <<>>,
            blocks |-> 0]

(* What one intent makes of the loop's local variables.                    *)
Decided(c) ==
  LET i == intents[c.next] IN
  IF RiskBlockReasons(c) = <<>>
    THEN [next |-> c.next + 1, exposure |-> [c.exposure EXCEPT ![i.symbol] = @ + i.notional],
          aggregate |-> c.aggregate + i.notional, allowed |-> Append(c.allowed, c.next),
          blocks |-> c.blocks + Len(RiskBlockReasons(c))]
    ELSE [next |-> c.next + 1, exposure |-> c.exposure, aggregate |-> c.aggregate,
          allowed |-> c.allowed, blocks |-> c.blocks + Len(RiskBlockReasons(c))]

CourseAt(g, k) == IF k = 0 THEN Opening ELSE Decided(g[k - 1])

IsCourse(n, g) == g = [k \in 0..n |-> CourseAt(g, k)]

Course == CHOOSE g : IsCourse(N, g)

LEMMA CourseExtends ==
  ASSUME NEW n \in Nat, NEW g, IsCourse(n, g)
  PROVE  \E h : IsCourse(n + 1, h)
<1> DEFINE h == [k \in 0..(n + 1) |-> IF k \in 0..n THEN g[k] ELSE Decided(g[n])]
<1>1. ASSUME NEW k \in 0..(n + 1) PROVE h[k] = CourseAt(h, k)
  <2>1. CASE k = n + 1
    <3>1. k # 0 /\ k - 1 = n /\ n \in 0..n /\ n \in 0..(n + 1) /\ k \notin 0..n
      BY <2>1
    <3>2. h[n] = g[n] /\ h[k] = Decided(g[n])
      BY <3>1
    <3> HIDE DEF h
    <3> QED
      BY <3>1, <3>2 DEF CourseAt
  <2>2. CASE k # n + 1
    <3>1. k \in 0..n /\ (k # 0 => k - 1 \in 0..n /\ k - 1 \in 0..(n + 1))
      BY <2>2
    <3>2. h[k] = g[k] /\ (k # 0 => h[k - 1] = g[k - 1])
      BY <3>1
    <3>3. g[k] = CourseAt(g, k)
      BY <3>1 DEF IsCourse
    <3> HIDE DEF h
    <3> QED
      BY <3>2, <3>3 DEF CourseAt
  <2> QED
    BY <2>1, <2>2
<1>2. h = [k \in 0..(n + 1) |-> h[k]]
  OBVIOUS
<1> HIDE DEF h
<1> QED
  BY <1>1, <1>2 DEF IsCourse

LEMMA CourseExists ==
  ASSUME NEW n \in Nat
  PROVE  \E g : IsCourse(n, g)
<1> DEFINE Without == {m \in Nat : ~\E g : IsCourse(m, g)}
<1>1. Without = {}
  <2> SUFFICES ASSUME Without # {} PROVE FALSE
    OBVIOUS
  <2>1. PICK m \in Without : \A k \in Without : m <= k
    BY LeastOfNaturals
  <2>2. CASE m = 0
    <3> DEFINE g == [k \in 0..0 |-> Opening]
    <3>1. IsCourse(0, g)
      BY DEF IsCourse, CourseAt
    <3> QED
      BY <2>2, <3>1
  <2>3. CASE m # 0
    <3>1. m - 1 \in Nat /\ (m - 1) + 1 = m /\ ~(m <= m - 1) /\ m \in Nat
      BY <2>3
    <3>2. \E g : IsCourse(m - 1, g)
      BY <2>1, <3>1
    <3>3. \E h : IsCourse((m - 1) + 1, h)
      BY <3>1, <3>2, CourseExtends
    <3> QED
      BY <3>1, <3>3
  <2> QED
    BY <2>2, <2>3
<1> QED
  BY <1>1

LEMMA CourseIs ==
  ASSUME IntentsTyped
  PROVE  \A k \in 0..N : Course[k] = CourseAt(Course, k)
<1>1. IsCourse(N, Course)
  BY CourseExists, Zenon DEF Course, IntentsTyped
<1> QED
  BY <1>1 DEF IsCourse

Words == {"duplicate_intent", "max_per_symbol_exposure", "max_aggregate_notional",
          "missing_book_trade_stream", "spread_too_wide", "depth_too_thin"}

LEMMA ListsOfWords == <<>> \in Seq(Words) /\ \A w \in Words : <<w>> \in Seq(Words)
OBVIOUS

(* What is joined is a list again, and empty if both parts are.            *)
LEMMA JoinOfWords ==
  ASSUME NEW s \in Seq(Words), NEW t \in Seq(Words)
  PROVE  s \o t \in Seq(Words) /\ (s \o t = <<>> <=> s = <<>> /\ t = <<>>)
<1>1. s \o t \in Seq(Words) /\ Len(s \o t) = Len(s) + Len(t) /\ Len(s) \in Nat /\ Len(t) \in Nat
  OBVIOUS
<1>2. \A u \in Seq(Words) : u = <<>> <=> Len(u) = 0
  OBVIOUS
<1>3. s \o t = <<>> <=> Len(s \o t) = 0
  BY <1>1, <1>2

<1> QED
  BY <1>1, <1>2, <1>3

LEMMA MarketGivesWords ==
  ASSUME NEW m
  PROVE  MarketReasons(m) \in Seq(Words)
<1> DEFINE a == IF m.wide THEN <<"spread_too_wide">> ELSE <<>>
           b == IF m.thin THEN <<"depth_too_thin">> ELSE <<>>
           c == IF m.short THEN <<"depth_too_thin">> ELSE <<>>
<1>1. a \in Seq(Words) /\ b \in Seq(Words) /\ c \in Seq(Words)
      /\ <<"missing_book_trade_stream">> \in Seq(Words)
  <2>1. /\ a = <<>> \/ a = <<"spread_too_wide">>
        /\ b = <<>> \/ b = <<"depth_too_thin">>
        /\ c = <<>> \/ c = <<"depth_too_thin">>
    OBVIOUS
  <2>2. {"spread_too_wide", "depth_too_thin", "missing_book_trade_stream"} \subseteq Words
    BY DEF Words
  <2> HIDE DEF a, b, c
  <2> QED
    BY <2>1, <2>2, ListsOfWords
<1>2. MarketReasons(m) = IF ~m.seen THEN <<"missing_book_trade_stream">> ELSE (a \o b) \o c
  BY Zenon DEF MarketReasons
<1> HIDE DEF a, b, c
<1>3. (a \o b) \o c \in Seq(Words)
  <2>1. a \o b \in Seq(Words)
    BY <1>1, JoinOfWords
  <2> QED
    BY <1>1, <2>1, JoinOfWords
<1> QED
  BY <1>1, <1>2, <1>3

(* The reasons depend on three of the loop's variables, and there is none  *)
(* exactly if every test of _risk_block_reasons is passed.                 *)
LEMMA SameReasons ==
  ASSUME NEW q, NEW c, q.next = c.next, q.exposure = c.exposure, q.aggregate = c.aggregate
  PROVE  RiskBlockReasons(q) = RiskBlockReasons(c)
BY DEF RiskBlockReasons, Seen

LEMMA NoReason ==
  ASSUME NEW q
  PROVE  RiskBlockReasons(q) = <<>> <=>
           /\ intents[q.next].key \notin Seen(q)
           /\ ~(q.exposure[intents[q.next].symbol] + intents[q.next].notional > MaxPerSymbol)
           /\ ~(q.aggregate + intents[q.next].notional > MaxAggregate)
           /\ MarketReasons(intents[q.next].market) = <<>>
<1> DEFINE i == intents[q.next]
           a == IF i.key \in Seen(q) THEN <<"duplicate_intent">> ELSE <<>>
           b == IF q.exposure[i.symbol] + i.notional > MaxPerSymbol
                  THEN <<"max_per_symbol_exposure">> ELSE <<>>
           c == IF q.aggregate + i.notional > MaxAggregate
                  THEN <<"max_aggregate_notional">> ELSE <<>>
           d == MarketReasons(i.market)
<1>1. a \in Seq(Words) /\ b \in Seq(Words) /\ c \in Seq(Words)
  <2>1. /\ a = <<>> \/ a = <<"duplicate_intent">>
        /\ b = <<>> \/ b = <<"max_per_symbol_exposure">>
        /\ c = <<>> \/ c = <<"max_aggregate_notional">>
    OBVIOUS
  <2>2. {"duplicate_intent", "max_per_symbol_exposure", "max_aggregate_notional"} \subseteq Words
    BY DEF Words
  <2> HIDE DEF a, b, c
  <2> QED
    BY <2>1, <2>2, ListsOfWords
<1>2. d \in Seq(Words)
  BY MarketGivesWords
<1>3. RiskBlockReasons(q) = ((a \o b) \o c) \o d
  BY Zenon DEF RiskBlockReasons
<1>4. /\ a = <<>> <=> i.key \notin Seen(q)
      /\ b = <<>> <=> ~(q.exposure[i.symbol] + i.notional > MaxPerSymbol)
      /\ c = <<>> <=> ~(q.aggregate + i.notional > MaxAggregate)
  OBVIOUS
<1> HIDE DEF a, b, c, d, i
<1>5. ((a \o b) \o c) \o d = <<>> <=> a = <<>> /\ b = <<>> /\ c = <<>> /\ d = <<>>
  <2>1. a \o b \in Seq(Words) /\ (a \o b) \o c \in Seq(Words)
    BY <1>1, JoinOfWords
  <2> QED
    BY <1>1, <1>2, <2>1, JoinOfWords
<1> QED
  BY <1>3, <1>4, <1>5 DEF i, d

Refused(i) == RiskBlockReasons(Course[i - 1]) # <<>>

AllowedTo(k) == {i \in 1..k : ~Refused(i)}

OfSymbol(k, s) == {i \in AllowedTo(k) : intents[i].symbol = s}

(* Where the course stands after k intents, and that it is within limits.  *)
SumsUp(c, k) ==
  /\ c.aggregate \in Nat /\ c.aggregate = Notional(AllowedTo(k)) /\ c.aggregate <= MaxAggregate
  /\ c.exposure \in [Symbols -> Nat]
  /\ \A s \in Symbols : /\ c.exposure[s] = Notional(OfSymbol(k, s))
                        /\ c.exposure[s] <= MaxPerSymbol

Listed(s) == {s[j] : j \in 1..Len(s)}

ListsAllowed(c, k) == c.allowed \in Seq(Nat) /\ Listed(c.allowed) = AllowedTo(k)

Sound(k) ==
  /\ Course[k].next = k + 1
  /\ SumsUp(Course[k], k)
  /\ ListsAllowed(Course[k], k)

LEMMA SoundAtFirst ==
  ASSUME IntentsTyped, MaxPerSymbol \in Nat, MaxAggregate \in Nat
  PROVE  Sound(0)
<1>1. Course[0] = Opening
  BY CourseIs DEF CourseAt, IntentsTyped
<1>2. AllowedTo(0) = {} /\ \A s : OfSymbol(0, s) = {}
  BY DEF AllowedTo, OfSymbol
<1>3. Notional({}) = 0
  BY NotionalOfNone
<1>4. SumsUp(Opening, 0)
  <2>1. Opening.aggregate = 0 /\ Opening.exposure = [s \in Symbols |-> 0]
    BY DEF Opening
  <2>2. Notional(AllowedTo(0)) = 0 /\ \A s : Notional(OfSymbol(0, s)) = 0
    BY <1>2, <1>3
  <2> QED
    BY <2>1, <2>2 DEF SumsUp
<1>5. ListsAllowed(Opening, 0)
  BY <1>2 DEF Opening, ListsAllowed, Listed
<1> QED
  BY <1>1, <1>4, <1>5 DEF Sound, Opening

LEMMA AppendToList ==
  ASSUME NEW s \in Seq(Nat), NEW x \in Nat
  PROVE  /\ Append(s, x) \in Seq(Nat)
         /\ Listed(Append(s, x)) = Listed(s) \cup {x}
<1>1. Append(s, x) \in Seq(Nat) /\ Len(Append(s, x)) = Len(s) + 1 /\ Len(s) \in Nat
  OBVIOUS
<1>2. Append(s, x)[Len(s) + 1] = x
  OBVIOUS
<1>3. \A j \in 1..Len(s) : Append(s, x)[j] = s[j]
  OBVIOUS
<1>4. \A j : j \in 1..(Len(s) + 1) <=> j \in 1..Len(s) \/ j = Len(s) + 1
  BY <1>1
<1> DEFINE t == Append(s, x)
<1>5. {t[j] : j \in 1..Len(t)} = {s[j] : j \in 1..Len(s)} \cup {x}
  <2> HIDE DEF t
  <2>1. Len(t) = Len(s) + 1 /\ t[Len(s) + 1] = x /\ \A j \in 1..Len(s) : t[j] = s[j]
    BY <1>1, <1>2, <1>3 DEF t
  <2>2. ASSUME NEW y \in {t[j] : j \in 1..Len(t)} PROVE y \in {s[j] : j \in 1..Len(s)} \cup {x}
    BY <1>4, <2>1
  <2>3. ASSUME NEW y \in {s[j] : j \in 1..Len(s)} \cup {x} PROVE y \in {t[j] : j \in 1..Len(t)}
    <3>1. CASE y = x
      BY <1>1, <1>4, <2>1, <3>1
    <3>2. CASE y # x
      <4>1. PICK j \in 1..Len(s) : y = s[j]
        BY <3>2
      <4> QED
        BY <1>4, <2>1, <4>1
    <3> QED
      BY <3>1, <3>2
  <2> QED
    BY <2>2, <2>3
<1> QED
  BY <1>1, <1>5 DEF Listed

LEMMA SoundNext ==
  ASSUME IntentsTyped, MaxPerSymbol \in Nat, MaxAggregate \in Nat, NEW k \in 1..N, Sound(k - 1)
  PROVE  Sound(k)
<1> DEFINE c == Course[k - 1]
           d == Course[k]
           i == intents[k]
<1>1. /\ c.next = k /\ SumsUp(c, k - 1) /\ ListsAllowed(c, k - 1)
  BY DEF Sound
<1>2. d = Decided(c) /\ k \in Nat /\ k # 0
  <2>1. k \in 0..N /\ k # 0 /\ k \in Nat
    BY DEF IntentsTyped
  <2> QED
    BY <2>1, CourseIs DEF CourseAt
<1>3. i \in Intent /\ i.notional \in Nat /\ i.symbol \in Symbols
  BY DEF IntentsTyped, Intent
<1>4. Refused(k) <=> RiskBlockReasons(c) # <<>>
  BY DEF Refused
<1> HIDE DEF c, d
<1>5. CASE RiskBlockReasons(c) # <<>>
  <2>1. AllowedTo(k) = AllowedTo(k - 1)
    BY <1>2, <1>4, <1>5 DEF AllowedTo
  <2>2. \A s : OfSymbol(k, s) = OfSymbol(k - 1, s)
    BY <2>1 DEF OfSymbol
  <2>3. d.next = k + 1 /\ d.exposure = c.exposure /\ d.aggregate = c.aggregate
        /\ d.allowed = c.allowed
    BY <1>1, <1>2, <1>5 DEF Decided
  <2>4. SumsUp(d, k)
    BY <1>1, <2>1, <2>2, <2>3 DEF SumsUp
  <2>5. ListsAllowed(d, k)
    BY <1>1, <2>1, <2>3 DEF ListsAllowed
  <2> QED
    BY <2>3, <2>4, <2>5 DEF Sound, d
<1>6. CASE RiskBlockReasons(c) = <<>>
  <2>1. AllowedTo(k) = AllowedTo(k - 1) \cup {k} /\ k \notin AllowedTo(k - 1)
    BY <1>2, <1>4, <1>6 DEF AllowedTo
  <2>2. /\ OfSymbol(k, i.symbol) = OfSymbol(k - 1, i.symbol) \cup {k}
        /\ k \notin OfSymbol(k - 1, i.symbol)
        /\ \A s : s # i.symbol => OfSymbol(k, s) = OfSymbol(k - 1, s)
    BY <2>1 DEF OfSymbol
  <2>3. /\ d.next = k + 1
        /\ d.exposure = [c.exposure EXCEPT ![i.symbol] = @ + i.notional]
        /\ d.aggregate = c.aggregate + i.notional
        /\ d.allowed = Append(c.allowed, k)
    BY <1>1, <1>2, <1>6 DEF Decided
  <2>4. /\ c.exposure[i.symbol] + i.notional <= MaxPerSymbol
        /\ c.aggregate + i.notional <= MaxAggregate
    <3>1. c.exposure[i.symbol] \in Nat /\ c.aggregate \in Nat
      BY <1>1, <1>3 DEF SumsUp
    <3>2. /\ ~(c.exposure[i.symbol] + i.notional > MaxPerSymbol)
          /\ ~(c.aggregate + i.notional > MaxAggregate)
      BY <1>1, <1>6, NoReason
    <3> HIDE DEF i
    <3> QED
      BY <1>3, <3>1, <3>2
  <2>5. /\ Notional(AllowedTo(k)) = Notional(AllowedTo(k - 1)) + i.notional
        /\ Notional(OfSymbol(k, i.symbol)) = Notional(OfSymbol(k - 1, i.symbol)) + i.notional
    BY <2>1, <2>2, NotionalOfOneMore
  <2> HIDE DEF i
  <2>6. d.aggregate \in Nat /\ d.aggregate = Notional(AllowedTo(k)) /\ d.aggregate <= MaxAggregate
    BY <1>1, <1>3, <2>3, <2>4, <2>5 DEF SumsUp
  <2>7. d.exposure \in [Symbols -> Nat]
    BY <1>1, <1>3, <2>3 DEF SumsUp
  <2>8. ASSUME NEW s \in Symbols
        PROVE  d.exposure[s] = Notional(OfSymbol(k, s)) /\ d.exposure[s] <= MaxPerSymbol
    <3>1. CASE s = i.symbol
      BY <1>1, <1>3, <2>3, <2>4, <2>5, <3>1 DEF SumsUp
    <3>2. CASE s # i.symbol
      BY <1>1, <1>3, <2>2, <2>3, <3>2 DEF SumsUp
    <3> QED
      BY <3>1, <3>2
  <2>9. ListsAllowed(d, k)
    <3>1. c.allowed \in Seq(Nat) /\ Listed(c.allowed) = AllowedTo(k - 1)
      BY <1>1 DEF ListsAllowed
    <3> QED
      BY <1>2, <2>1, <2>3, <3>1, AppendToList DEF ListsAllowed
  <2> QED
    BY <2>3, <2>6, <2>7, <2>8, <2>9 DEF Sound, SumsUp, d
<1> QED
  BY <1>5, <1>6

LEMMA CourseIsSound ==
  ASSUME IntentsTyped, PaperDaemonAssumption
  PROVE  \A k \in 0..N : Sound(k)
<1> DEFINE Bad == {k \in 0..N : ~Sound(k)}
<1>1. MaxPerSymbol \in Nat /\ MaxAggregate \in Nat /\ N \in Nat
  BY DEF PaperDaemonAssumption, IntentsTyped
<1>2. Bad = {}
  <2> SUFFICES ASSUME Bad # {} PROVE FALSE
    OBVIOUS
  <2>1. Bad \subseteq Nat
    BY <1>1
  <2>2. PICK k \in Bad : \A j \in Bad : k <= j
    BY <2>1, LeastOfNaturals
  <2>3. k # 0
    BY <1>1, SoundAtFirst
  <2>4. k \in 1..N /\ k - 1 \in 0..N /\ ~(k <= k - 1)
    BY <1>1, <2>1, <2>3
  <2>5. Sound(k - 1)
    BY <2>2, <2>4
  <2> QED
    BY <1>1, <2>4, <2>5, SoundNext
<1> QED
  BY <1>2

(* No two allowed intents have the same key.                               *)
LEMMA AllowedOnce ==
  ASSUME IntentsTyped, PaperDaemonAssumption, NEW i \in AllowedTo(N), NEW j \in AllowedTo(N), i < j
  PROVE  intents[i].key # intents[j].key
<1>1. i \in 1..N /\ j \in 1..N /\ ~Refused(j) /\ N \in Nat
  BY DEF AllowedTo, IntentsTyped
<1>2. j - 1 \in 0..N /\ i \in 1..(j - 1)
  BY <1>1
<1>3. Course[j - 1].next = j
  BY <1>1, <1>2, CourseIsSound DEF Sound
<1>4. intents[j].key \notin Seen(Course[j - 1])
  BY <1>1, <1>3, NoReason DEF Refused
<1> QED
  BY <1>2, <1>3, <1>4 DEF Seen

-----------------------------------------------------------------------------
(* What the processes and the tables hold, along the course                *)

Final == Course[N]

FinalRows(a) == Rows(Final, a)

HasRisk(rs, i) == \E r \in rs : r.intent = i

RefusalsRecorded(rs, n) == \A i \in 1..n : Refused(i) => HasRisk(rs, i)

Looping == {"gate", "risk", "finish", "stop"}

(* A process is somewhere on the course, has recorded every refusal it is  *)
(* past and has executed the whole course for every artifact it is past.   *)
Follows(q, rs, tel) ==
  /\ q.next \in 1..(N + 1)
  /\ q.exposure = Course[q.next - 1].exposure
  /\ q.aggregate = Course[q.next - 1].aggregate
  /\ q.allowed = Course[q.next - 1].allowed
  /\ RefusalsRecorded(rs, q.next - 1)
  /\ q.pc = "risk" => q.next <= N /\ Refused(q.next)
  /\ q.pc \in Looping => \A a \in Artifact : a < q.artifact => FinalRows(a) \subseteq tel
  /\ q.pc \in {"finish", "stop"} => q.next = N + 1

(* Blocks are refusals, an artifact's rows are the whole course or none,   *)
(* and a completed session left nothing open.                              *)
LedgerHolds(led) ==
  /\ \E S : led \in Seq(S)
  /\ \A e \in 1..Len(led) :
       led[e].type = "RISK_BLOCK" => led[e].intent \in 1..N /\ Refused(led[e].intent)

RowsHold(tel) ==
  /\ \A r \in tel : r.artifact \in Artifact /\ r \in FinalRows(r.artifact)
  /\ \A a \in Artifact : FinalRows(a) \subseteq tel \/ \A r \in tel : r.artifact # a

Closed(ses, rs, tel) ==
  ses = "completed" =>
    /\ \A a \in Artifact : FinalRows(a) \subseteq tel
    /\ RefusalsRecorded(rs, N)

OnCourse(pr, led, ses, rs, tel) ==
  /\ \A p \in Processes : pr[p] # Off => Follows(pr[p], rs, tel)
  /\ LedgerHolds(led)
  /\ RowsHold(tel)
  /\ Closed(ses, rs, tel)

GatingInv == IntentsTyped /\ OnCourse(proc, ledger, session, risks, telemetry)

(* All of this is about the fixture, which no step changes.                *)
LEMMA CourseStays ==
  ASSUME intents' = intents
  PROVE  /\ Course' = Course
         /\ N' = N
         /\ IntentsTyped' <=> IntentsTyped
<1>1. Course' = Course
  <2>1. \A c : RiskBlockReasons(c)' = RiskBlockReasons(c)
    BY DEF RiskBlockReasons, Seen
  <2>2. \A c : Decided(c)' = Decided(c)
    BY <2>1, Zenon DEF Decided
  <2>3. \A g, k : CourseAt(g, k)' = CourseAt(g, k)
    BY <2>2, Zenon DEF CourseAt, Opening
  <2>4. \A n, g : IsCourse(n, g)' <=> IsCourse(n, g)
    BY <2>3, Zenon DEF IsCourse
  <2> QED
    BY <2>4, Zenon DEF Course, N
<1>2. N' = N
  BY DEF N
<1>3. IntentsTyped' <=> IntentsTyped
  BY DEF IntentsTyped, N
<1> QED
  BY <1>1, <1>2, <1>3

LEMMA RefusedStays ==
  ASSUME intents' = intents
  PROVE  \A i : Refused(i)' <=> Refused(i)
<1>1. Course' = Course
  BY CourseStays
<1>2. \A q : RiskBlockReasons(q)' = RiskBlockReasons(q)
  BY DEF RiskBlockReasons, Seen
<1> QED
  BY <1>1, <1>2, Zenon DEF Refused

LEMMA StillOnCourse ==
  ASSUME intents' = intents, GatingInv,
         OnCourse(proc', ledger', session', risks', telemetry')
  PROVE  GatingInv'
<1>1. Course' = Course /\ N' = N /\ IntentsTyped'
  BY CourseStays DEF GatingInv
<1>2. \A i : Refused(i)' <=> Refused(i)
  BY RefusedStays
<1>3. \A a : FinalRows(a)' = FinalRows(a)
  BY <1>1 DEF FinalRows, Final, Rows
<1>4. \A rs, n : RefusalsRecorded(rs, n)' <=> RefusalsRecorded(rs, n)
  BY <1>2 DEF RefusalsRecorded, HasRisk
<1>5. \A q, rs, tel : Follows(q, rs, tel)' <=> Follows(q, rs, tel)
  BY <1>1, <1>2, <1>3, <1>4, ZenonT(60) DEF Follows, Artifact
<1>6. \A led : LedgerHolds(led)' <=> LedgerHolds(led)
  BY <1>1, <1>2, Zenon DEF LedgerHolds
<1>7. \A tel : RowsHold(tel)' <=> RowsHold(tel)
  BY <1>3, Zenon DEF RowsHold, Artifact
<1>8. \A ses, rs, tel : Closed(ses, rs, tel)' <=> Closed(ses, rs, tel)
  BY <1>1, <1>3, <1>4, Zenon DEF Closed, Artifact
<1> QED
  BY <1>1, <1>5, <1>6, <1>7, <1>8 DEF GatingInv, OnCourse

LEMMA RefusalsMonotone ==
  ASSUME NEW rs, NEW more, rs \subseteq more, NEW n, RefusalsRecorded(rs, n)
  PROVE  RefusalsRecorded(more, n)
BY DEF RefusalsRecorded, HasRisk

LEMMA FollowsMonotone ==
  ASSUME NEW q, NEW rs, NEW more, rs \subseteq more, NEW tel, NEW wider, tel \subseteq wider,
         Follows(q, rs, tel)
  PROVE  Follows(q, more, wider)
<1>1. RefusalsRecorded(more, q.next - 1)
  BY RefusalsMonotone DEF Follows
<1>2. q.pc \in Looping => \A a \in Artifact : a < q.artifact => FinalRows(a) \subseteq wider
  BY DEF Follows
<1> QED
  BY <1>1, <1>2 DEF Follows

(* One process moves along the course, or goes; the others stay on it.     *)
LEMMA OneFollows ==
  ASSUME IInv, GatingInv, NEW p \in Processes, NEW q, proc' = [proc EXCEPT ![p] = q],
         NEW rs, risks \subseteq rs, NEW tel, telemetry \subseteq tel,
         q # Off => Follows(q, rs, tel)
  PROVE  \A o \in Processes : proc'[o] # Off => Follows(proc'[o], rs, tel)
<1> SUFFICES ASSUME NEW o \in Processes, proc'[o] # Off PROVE Follows(proc'[o], rs, tel)
  OBVIOUS
<1>1. CASE o = p
  BY <1>1 DEF IInv
<1>2. CASE o # p
  <2>1. proc'[o] = proc[o]
    BY <1>2 DEF IInv
  <2>2. Follows(proc[o], risks, telemetry)
    BY <2>1 DEF GatingInv, OnCourse
  <2>3. Follows(proc[o], rs, tel)
    BY <2>2, FollowsMonotone, Zenon
  <2> QED
    BY <2>1, <2>3
<1> QED
  BY <1>1, <1>2

LEMMA LedgerGrows ==
  ASSUME NEW led, LedgerHolds(led), NEW x,
         x.type = "RISK_BLOCK" => x.intent \in 1..N /\ Refused(x.intent)
  PROVE  LedgerHolds(Append(led, x))
<1> DEFINE more == Append(led, x)
<1>1. PICK S : led \in Seq(S)
  BY DEF LedgerHolds
<1>2. led \in Seq(S \cup {x})
  BY <1>1
<1>3. Len(more) = Len(led) + 1 /\ more[Len(led) + 1] = x /\ \A e \in 1..Len(led) : more[e] = led[e]
  BY <1>2
<1>4. more \in Seq(S \cup {x}) /\ Len(led) \in Nat
  BY <1>2
<1> HIDE DEF more
<1>5. ASSUME NEW e \in 1..Len(more), more[e].type = "RISK_BLOCK"
      PROVE  more[e].intent \in 1..N /\ Refused(more[e].intent)
  <2>1. CASE e = Len(led) + 1
    BY <1>3, <1>5, <2>1
  <2>2. CASE e # Len(led) + 1
    <3>1. e \in 1..Len(led) /\ more[e] = led[e]
      BY <1>3, <1>4, <2>2
    <3> QED
      BY <1>5, <3>1 DEF LedgerHolds
  <2> QED
    BY <2>1, <2>2
<1> QED
  BY <1>4, <1>5 DEF LedgerHolds, more

(* A step that records no risk and no execution.                           *)
LEMMA QuietOnCourse ==
  ASSUME IInv, GatingInv, NEW p \in Processes, NEW q, proc' = [proc EXCEPT ![p] = q],
         q # Off => Follows(q, risks, telemetry), LedgerHolds(ledger'),
         UNCHANGED <<inputs, risks, telemetry>>, session' = session \/ session' = "running"
  PROVE  GatingInv'
<1>1. \A o \in Processes : proc'[o] # Off => Follows(proc'[o], risks, telemetry)
  BY OneFollows
<1>2. RowsHold(telemetry) /\ Closed(session', risks, telemetry)
  BY DEF GatingInv, OnCourse, Closed
<1>3. OnCourse(proc', ledger', session', risks', telemetry')
  BY <1>1, <1>2 DEF OnCourse
<1>4. intents' = intents
  BY DEF inputs
<1> QED
  BY <1>3, <1>4, StillOnCourse

(* A process that is on is on the course, and is asked the same questions. *)
LEMMA IsOnCourse ==
  ASSUME PaperDaemonAssumption, IInv, GatingInv, NEW p \in Processes, NEW pc, At(p, pc)
  PROVE  /\ Entitled(proc[p]) /\ proc[p].pc = pc
         /\ Follows(proc[p], risks, telemetry)
         /\ proc[p].next - 1 \in 0..N
         /\ Course[proc[p].next - 1].next = proc[p].next
         /\ RiskBlockReasons(proc[p]) = RiskBlockReasons(Course[proc[p].next - 1])
<1>1. Entitled(proc[p]) /\ proc[p].pc = pc /\ proc[p] # Off
  BY IsEntitled
<1>2. Follows(proc[p], risks, telemetry)
  BY <1>1 DEF GatingInv, OnCourse
<1>3. proc[p].next - 1 \in 0..N /\ proc[p].next \in Nat
  BY <1>2 DEF Follows, GatingInv, IntentsTyped
<1>4. Course[proc[p].next - 1].next = proc[p].next
  <2>1. Sound(proc[p].next - 1)
    BY <1>3, CourseIsSound DEF GatingInv
  <2> QED
    BY <1>3, <2>1 DEF Sound
<1>5. RiskBlockReasons(proc[p]) = RiskBlockReasons(Course[proc[p].next - 1])
  BY <1>2, <1>4, SameReasons DEF Follows
<1> QED
  BY <1>1, <1>2, <1>3, <1>4, <1>5

(* The fields that say where a process is on the course stay.              *)
LEMMA FollowsStill ==
  ASSUME NEW q, NEW s, NEW rs, NEW tel, Follows(q, rs, tel),
         s.next = q.next, s.exposure = q.exposure, s.aggregate = q.aggregate,
         s.allowed = q.allowed,
         s.pc = "risk" => s.next <= N /\ Refused(s.next),
         s.pc \in Looping => \A a \in Artifact : a < s.artifact => FinalRows(a) \subseteq tel,
         s.pc \in {"finish", "stop"} => s.next = N + 1
  PROVE  Follows(s, rs, tel)
BY DEF Follows

LEMMA StartOnCourse ==
  ASSUME PaperDaemonAssumption, IInv, GatingInv, NEW p \in Processes, Start(p)
  PROVE  GatingInv'
<1>1. Course[0] = Opening /\ N \in Nat
  BY CourseIs DEF GatingInv, IntentsTyped, CourseAt
<1>2. Follows(Fresh, risks, telemetry)
  <2>1. Fresh.next = 1 /\ Fresh.pc = "session" /\ Fresh.exposure = Opening.exposure
        /\ Fresh.aggregate = Opening.aggregate /\ Fresh.allowed = Opening.allowed
    BY DEF Fresh, Opening
  <2>2. RefusalsRecorded(risks, 0)
    BY DEF RefusalsRecorded
  <2>3. 1 \in 1..(N + 1) /\ 1 - 1 = 0
    BY <1>1
  <2> QED
    BY <1>1, <2>1, <2>2, <2>3 DEF Follows, Looping
<1>3. LedgerHolds(ledger)
  BY DEF GatingInv, OnCourse
<1> QED
  BY <1>2, <1>3, QuietOnCourse DEF Start, tables

LEMMA LeaveOnCourse ==
  ASSUME IInv, GatingInv, NEW p \in Processes, Crash(p) \/ AuthorityRefused(p) \/ EngineStop(p)
  PROVE  GatingInv'
<1>1. proc' = [proc EXCEPT ![p] = Off] /\ UNCHANGED <<inputs, risks, telemetry, session>>
  BY DEF Crash, AuthorityRefused, EngineStop, tables
<1>2. LedgerHolds(ledger)
  BY DEF GatingInv, OnCourse
<1>3. LedgerHolds(Append(ledger, [type |-> "ENGINE_STOP"]))
  BY <1>2, LedgerGrows
<1>4. LedgerHolds(ledger')
  BY <1>2, <1>3 DEF Crash, AuthorityRefused, EngineStop, tables
<1> QED
  BY <1>1, <1>4, QuietOnCourse

LEMMA OpeningOnCourse ==
  ASSUME PaperDaemonAssumption, IInv, GatingInv, NEW p \in Processes,
         OpenSession(p) \/ RegisterArtifact(p)
  PROVE  GatingInv'
<1>1. LedgerHolds(ledger)
  BY DEF GatingInv, OnCourse
<1>2. CASE OpenSession(p)
  <2> DEFINE q == [proc[p] EXCEPT !.pc = "members"]
  <2>1. Entitled(proc[p]) /\ Follows(proc[p], risks, telemetry)
    BY <1>2, IsOnCourse DEF OpenSession
  <2>2. proc' = [proc EXCEPT ![p] = q]
    BY <1>2 DEF OpenSession, Goto
  <2>3. Follows(q, risks, telemetry)
    BY <2>1, FollowsStill DEF Entitled, Fields, Looping
  <2> HIDE DEF q
  <2> QED
    BY <1>1, <1>2, <2>2, <2>3, QuietOnCourse DEF OpenSession
<1>3. CASE RegisterArtifact(p)
  <2> DEFINE q == [proc[p] EXCEPT !.artifact = proc[p].artifact + 1]
  <2>1. Entitled(proc[p]) /\ Follows(proc[p], risks, telemetry) /\ proc[p].pc = "members"
    BY <1>3, IsOnCourse DEF RegisterArtifact
  <2>2. proc' = [proc EXCEPT ![p] = q]
    BY <1>3 DEF RegisterArtifact
  <2>3. Follows(q, risks, telemetry)
    BY <2>1, FollowsStill DEF Entitled, Fields, Looping
  <2> HIDE DEF q
  <2> QED
    BY <1>1, <1>3, <2>2, <2>3, QuietOnCourse DEF RegisterArtifact
<1> QED
  BY <1>2, <1>3

LEMMA EngineStartOnCourse ==
  ASSUME PaperDaemonAssumption, IInv, GatingInv, NEW p \in Processes, EngineStart(p)
  PROVE  GatingInv'
<1> DEFINE q == [proc[p] EXCEPT !.pc = "gate", !.artifact = 1]
<1>1. Entitled(proc[p]) /\ Follows(proc[p], risks, telemetry)
  BY IsOnCourse DEF EngineStart
<1>2. proc' = [proc EXCEPT ![p] = q]
  BY DEF EngineStart
<1>3. \A a \in Artifact : ~(a < 1)
  BY DEF Artifact
<1>4. Follows(q, risks, telemetry)
  <2>1. /\ q.next = proc[p].next /\ q.exposure = proc[p].exposure
        /\ q.aggregate = proc[p].aggregate /\ q.allowed = proc[p].allowed
        /\ q.pc = "gate" /\ q.artifact = 1
    BY <1>1 DEF Entitled, Fields
  <2> HIDE DEF q
  <2>2. \A a \in Artifact : a < q.artifact => FinalRows(a) \subseteq telemetry
    BY <1>3, <2>1
  <2> QED
    BY <1>1, <2>1, <2>2, FollowsStill
<1>5. LedgerHolds(Append(ledger, [type |-> "ENGINE_START"]))
  BY LedgerGrows DEF GatingInv, OnCourse
<1> HIDE DEF q
<1> QED
  BY <1>2, <1>4, <1>5, QuietOnCourse DEF EngineStart

(* The loop's next position, when an intent is allowed and when it is not. *)
LEMMA NextOnCourse ==
  ASSUME PaperDaemonAssumption, GatingInv, NEW q, NEW rs, NEW tel, Follows(q, rs, tel), q.next <= N,
         NEW s, s.next = q.next + 1, s.exposure = Decided(Course[q.next - 1]).exposure,
         s.aggregate = Decided(Course[q.next - 1]).aggregate,
         s.allowed = Decided(Course[q.next - 1]).allowed,
         Refused(q.next) => HasRisk(rs, q.next),
         s.artifact = q.artifact, s.pc = "gate", q.pc \in Looping
  PROVE  Follows(s, rs, tel)
<1>1. q.next \in 1..N /\ N \in Nat
  BY DEF Follows, GatingInv, IntentsTyped
<1>2. s.next \in 1..(N + 1) /\ s.next - 1 = q.next /\ q.next \in 0..N /\ q.next # 0
  BY <1>1
<1>3. Course[s.next - 1] = Decided(Course[q.next - 1])
  BY <1>2, CourseIs DEF CourseAt, GatingInv
<1>4. RefusalsRecorded(rs, s.next - 1)
  <2> SUFFICES ASSUME NEW i \in 1..q.next, Refused(i) PROVE HasRisk(rs, i)
    BY <1>2 DEF RefusalsRecorded
  <2>1. i = q.next \/ i \in 1..(q.next - 1)
    BY <1>1
  <2> QED
    BY <2>1 DEF Follows, RefusalsRecorded
<1> QED
  BY <1>2, <1>3, <1>4 DEF Follows, Looping

LEMMA AllowIntentOnCourse ==
  ASSUME PaperDaemonAssumption, IInv, GatingInv, NEW p \in Processes, AllowIntent(p)
  PROVE  GatingInv'
<1> DEFINE c == Course[proc[p].next - 1]
           i == intents[proc[p].next]
           exposure == [proc[p].exposure EXCEPT ![i.symbol] = @ + i.notional]
           q == [proc[p] EXCEPT !.exposure = exposure, !.aggregate = @ + i.notional,
                                !.allowed = Append(@, proc[p].next), !.next = @ + 1]
<1>1. /\ Entitled(proc[p]) /\ proc[p].pc = "gate" /\ Follows(proc[p], risks, telemetry)
      /\ c.next = proc[p].next /\ RiskBlockReasons(c) = <<>> /\ proc[p].next <= N
  BY IsOnCourse DEF AllowIntent, N
<1>2. proc' = [proc EXCEPT ![p] = q]
  BY Zenon DEF AllowIntent
<1>3. /\ q.next = proc[p].next + 1 /\ q.exposure = exposure
      /\ q.aggregate = proc[p].aggregate + i.notional
      /\ q.allowed = Append(proc[p].allowed, proc[p].next)
      /\ q.artifact = proc[p].artifact /\ q.pc = "gate"
  <2> HIDE DEF exposure, i
  <2> QED
    BY <1>1 DEF Entitled, Fields
<1>4. /\ Decided(c).exposure = [c.exposure EXCEPT ![i.symbol] = @ + i.notional]
      /\ Decided(c).aggregate = c.aggregate + i.notional
      /\ Decided(c).allowed = Append(c.allowed, c.next)
  BY <1>1 DEF Decided
<1>5. /\ c.exposure = proc[p].exposure /\ c.aggregate = proc[p].aggregate
      /\ c.allowed = proc[p].allowed
  BY <1>1 DEF Follows
<1>6. /\ q.exposure = Decided(c).exposure /\ q.aggregate = Decided(c).aggregate
      /\ q.allowed = Decided(c).allowed
  BY <1>1, <1>3, <1>4, <1>5
<1>7. ~Refused(proc[p].next)
  BY <1>1 DEF Refused
<1> HIDE DEF q
<1>8. Follows(q, risks, telemetry)
  BY <1>1, <1>3, <1>6, <1>7, NextOnCourse DEF Looping
<1>9. LedgerHolds(ledger)
  BY DEF GatingInv, OnCourse
<1> QED
  BY <1>2, <1>8, <1>9, QuietOnCourse DEF AllowIntent, tables

LEMMA RecordBlockOnCourse ==
  ASSUME PaperDaemonAssumption, IInv, GatingInv, NEW p \in Processes, RecordBlock(p)
  PROVE  GatingInv'
<1> DEFINE q == [proc[p] EXCEPT !.event = Len(ledger) + 1, !.given = @ + 1, !.pc = "risk"]
           x == [type   |-> "RISK_BLOCK", intent |-> proc[p].next,
                 reason |-> RiskBlockReasons(proc[p])[proc[p].given + 1],
                 number |-> proc[p].blocks + 1]
<1>1. /\ Entitled(proc[p]) /\ proc[p].pc = "gate" /\ Follows(proc[p], risks, telemetry)
      /\ Refused(proc[p].next) /\ proc[p].next <= N
  BY IsOnCourse DEF RecordBlock, Refused, N
<1>2. proc' = [proc EXCEPT ![p] = q] /\ ledger' = Append(ledger, x)
  BY DEF RecordBlock
<1>3. /\ q.next = proc[p].next /\ q.exposure = proc[p].exposure /\ q.aggregate = proc[p].aggregate
      /\ q.allowed = proc[p].allowed /\ q.artifact = proc[p].artifact /\ q.pc = "risk"
  BY <1>1 DEF Entitled, Fields
<1> HIDE DEF q
<1>4. \A a \in Artifact : a < q.artifact => FinalRows(a) \subseteq telemetry
  BY <1>1, <1>3 DEF Follows, Looping
<1>5. Follows(q, risks, telemetry)
  BY <1>1, <1>3, <1>4, FollowsStill
<1>6. x.intent \in 1..N /\ Refused(x.intent)
  BY <1>1 DEF Follows, GatingInv, IntentsTyped
<1> HIDE DEF x
<1>7. LedgerHolds(ledger')
  BY <1>2, <1>6, LedgerGrows DEF GatingInv, OnCourse
<1> QED
  BY <1>2, <1>5, <1>7, QuietOnCourse DEF RecordBlock

LEMMA RecordRiskOnCourse ==
  ASSUME PaperDaemonAssumption, IInv, GatingInv, NEW p \in Processes, RecordRisk(p)
  PROVE  GatingInv'
<1> DEFINE q == AfterRisk(proc[p])
           rs == risks \cup {RiskRow(proc[p])}
           c == Course[proc[p].next - 1]
<1>1. /\ Entitled(proc[p]) /\ proc[p].pc = "risk" /\ Follows(proc[p], risks, telemetry)
      /\ Refused(proc[p].next) /\ proc[p].next <= N /\ c.next = proc[p].next
      /\ RiskBlockReasons(c) # <<>>
  BY IsOnCourse DEF RecordRisk, Refused, Follows
<1>2. proc' = [proc EXCEPT ![p] = q] /\ risks' = rs /\ risks \subseteq rs
  BY DEF RecordRisk
<1>3. HasRisk(rs, proc[p].next)
  <2>1. RiskRow(proc[p]) \in rs /\ RiskRow(proc[p]).intent = proc[p].next
    BY DEF RiskRow
  <2> QED
    BY <2>1, Zenon DEF HasRisk
<1>4. /\ q.exposure = proc[p].exposure /\ q.aggregate = proc[p].aggregate
      /\ q.allowed = proc[p].allowed /\ q.artifact = proc[p].artifact /\ q.pc = "gate"
      /\ q.next = proc[p].next \/ q.next = proc[p].next + 1
  BY <1>1 DEF AfterRisk, Entitled, Fields
<1>5. Follows(proc[p], rs, telemetry)
  BY <1>1, <1>2, FollowsMonotone
<1> HIDE DEF q, rs
<1>6. Follows(q, rs, telemetry)
  <2>1. CASE q.next = proc[p].next
    <3>1. \A a \in Artifact : a < q.artifact => FinalRows(a) \subseteq telemetry
      BY <1>1, <1>4 DEF Follows, Looping
    <3> QED
      BY <1>4, <1>5, <2>1, <3>1, FollowsStill
  <2>2. CASE q.next = proc[p].next + 1
    <3>1. /\ Decided(c).exposure = c.exposure /\ Decided(c).aggregate = c.aggregate
          /\ Decided(c).allowed = c.allowed
      BY <1>1 DEF Decided
    <3>2. /\ c.exposure = proc[p].exposure /\ c.aggregate = proc[p].aggregate
          /\ c.allowed = proc[p].allowed
      BY <1>1 DEF Follows
    <3>3. /\ q.exposure = Decided(c).exposure /\ q.aggregate = Decided(c).aggregate
          /\ q.allowed = Decided(c).allowed
      BY <1>4, <3>1, <3>2
    <3> QED
      BY <1>1, <1>3, <1>4, <1>5, <2>2, <3>3, NextOnCourse DEF Looping
  <2> QED
    BY <1>4, <2>1, <2>2
<1>7. \A o \in Processes : proc'[o] # Off => Follows(proc'[o], rs, telemetry)
  BY <1>2, <1>6, OneFollows
<1>8. Closed(session, rs, telemetry)
  BY <1>2, RefusalsMonotone DEF GatingInv, OnCourse, Closed
<1>9. OnCourse(proc', ledger', session', risks', telemetry') /\ intents' = intents
  BY <1>2, <1>7, <1>8 DEF RecordRisk, GatingInv, OnCourse, inputs
<1> QED
  BY <1>9, StillOnCourse

(* Rows with the same telemetry id are the same row, so REPLACE adds what  *)
(* is not there yet and changes nothing.                                   *)
LEMMA ReplaceAdds ==
  ASSUME RowsHold(telemetry), NEW a \in Artifact
  PROVE  {r \in telemetry : \A s \in FinalRows(a) : ~SameKey(r, s)} \cup FinalRows(a)
           = telemetry \cup FinalRows(a)
<1>1. ASSUME NEW r \in telemetry, NEW s \in FinalRows(a), SameKey(r, s)
      PROVE  r \in FinalRows(a)
  <2>1. r.artifact = s.artifact /\ s.artifact = a
    BY <1>1 DEF SameKey, FinalRows, Rows
  <2> QED
    BY <2>1 DEF RowsHold
<1> QED
  BY <1>1

LEMMA ExecutedRowsHold ==
  ASSUME RowsHold(telemetry), NEW a \in Artifact
  PROVE  RowsHold(telemetry \cup FinalRows(a))
<1>1. \A r \in FinalRows(a) : r.artifact = a
  BY DEF FinalRows, Rows
<1> QED
  BY <1>1 DEF RowsHold

LEMMA ExecuteArtifactOnCourse ==
  ASSUME PaperDaemonAssumption, IInv, GatingInv, NEW p \in Processes, ExecuteArtifact(p)
  PROVE  GatingInv'
<1> DEFINE a == proc[p].artifact
           q == [proc[p] EXCEPT !.artifact = a + 1]
           tel == telemetry \cup FinalRows(a)
<1>1. /\ At(p, "gate") /\ a <= Artifacts /\ proc[p].next > N
      /\ telemetry' = {r \in telemetry : \A s \in Rows(proc[p], a) : ~SameKey(r, s)}
                        \cup Rows(proc[p], a)
      /\ proc' = [proc EXCEPT ![p] = q]
      /\ UNCHANGED <<inputs, ledger, session, risks>>
  BY DEF ExecuteArtifact, Gated, N
<1>2. Entitled(proc[p]) /\ proc[p].pc = "gate" /\ Follows(proc[p], risks, telemetry)
  BY <1>1, IsOnCourse
<1>3. a \in Artifact /\ a \in Nat
  BY <1>1, <1>2 DEF Entitled, Artifact, PaperDaemonAssumption
<1>4. proc[p].next = N + 1 /\ (N + 1) - 1 = N
  BY <1>1, <1>2 DEF Follows, GatingInv, IntentsTyped
<1>5. proc[p].allowed = Final.allowed
  BY <1>2, <1>4 DEF Follows, Final
<1>6. Rows(proc[p], a) = FinalRows(a)
  BY <1>5 DEF Rows, FinalRows
<1>7. RowsHold(telemetry)
  BY DEF GatingInv, OnCourse
<1>8. telemetry' = tel /\ telemetry \subseteq tel
  BY <1>1, <1>3, <1>6, <1>7, ReplaceAdds
<1>9. RowsHold(tel)
  BY <1>3, <1>7, ExecutedRowsHold
<1>10. Follows(proc[p], risks, tel)
  BY <1>2, <1>8, FollowsMonotone
<1>11. /\ q.next = proc[p].next /\ q.exposure = proc[p].exposure /\ q.aggregate = proc[p].aggregate
       /\ q.allowed = proc[p].allowed /\ q.artifact = a + 1 /\ q.pc = "gate"
  BY <1>2 DEF Entitled, Fields
<1>12. \A b \in Artifact : b < a + 1 => FinalRows(b) \subseteq tel
  <2> SUFFICES ASSUME NEW b \in Artifact, b < a + 1 PROVE FinalRows(b) \subseteq tel
    OBVIOUS
  <2>1. b = a \/ b < a
    BY <1>3 DEF Artifact
  <2> QED
    BY <1>2, <1>10, <2>1 DEF Follows, Looping
<1> HIDE DEF q, tel
<1>13. Follows(q, risks, tel)
  BY <1>10, <1>11, <1>12, FollowsStill
<1>14. \A o \in Processes : proc'[o] # Off => Follows(proc'[o], risks, tel)
  BY <1>1, <1>8, <1>13, OneFollows
<1>15. Closed(session, risks, tel)
  BY <1>8 DEF GatingInv, OnCourse, Closed
<1>16. OnCourse(proc', ledger', session', risks', telemetry') /\ intents' = intents
  BY <1>1, <1>8, <1>9, <1>14, <1>15 DEF GatingInv, OnCourse, inputs
<1> QED
  BY <1>16, StillOnCourse

LEMMA WriteSummaryOnCourse ==
  ASSUME PaperDaemonAssumption, IInv, GatingInv, NEW p \in Processes, WriteSummary(p)
  PROVE  GatingInv'
<1> DEFINE q == [proc[p] EXCEPT !.pc = "finish"]
<1>1. /\ Entitled(proc[p]) /\ proc[p].pc = "gate" /\ Follows(proc[p], risks, telemetry)
      /\ proc[p].next > N
  BY IsOnCourse DEF WriteSummary, Gated, N
<1>2. proc' = [proc EXCEPT ![p] = q]
  BY DEF WriteSummary, Goto
<1>3. proc[p].next = N + 1
  BY <1>1 DEF Follows, GatingInv, IntentsTyped
<1>4. /\ q.next = proc[p].next /\ q.exposure = proc[p].exposure /\ q.aggregate = proc[p].aggregate
      /\ q.allowed = proc[p].allowed /\ q.artifact = proc[p].artifact /\ q.pc = "finish"
  BY <1>1 DEF Entitled, Fields
<1> HIDE DEF q
<1>5. \A a \in Artifact : a < q.artifact => FinalRows(a) \subseteq telemetry
  BY <1>1, <1>4 DEF Follows, Looping
<1>6. Follows(q, risks, telemetry)
  BY <1>1, <1>3, <1>4, <1>5, FollowsStill
<1>7. LedgerHolds(ledger)
  BY DEF GatingInv, OnCourse
<1> QED
  BY <1>2, <1>6, <1>7, QuietOnCourse DEF WriteSummary

(* The process that completes the session has settled every intent.        *)
LEMMA FinishSessionOnCourse ==
  ASSUME PaperDaemonAssumption, IInv, GatingInv, NEW p \in Processes, FinishSession(p)
  PROVE  GatingInv'
<1> DEFINE q == [proc[p] EXCEPT !.pc = "stop"]
<1>1. Entitled(proc[p]) /\ proc[p].pc = "finish" /\ Follows(proc[p], risks, telemetry)
  BY IsOnCourse DEF FinishSession
<1>2. proc' = [proc EXCEPT ![p] = q] /\ session' = "completed"
      /\ UNCHANGED <<inputs, ledger, risks, telemetry>>
  BY DEF FinishSession, Goto
<1>3. proc[p].next = N + 1 /\ (N + 1) - 1 = N
  BY <1>1 DEF Follows, GatingInv, IntentsTyped
<1>4. /\ q.next = proc[p].next /\ q.exposure = proc[p].exposure /\ q.aggregate = proc[p].aggregate
      /\ q.allowed = proc[p].allowed /\ q.artifact = proc[p].artifact /\ q.pc = "stop"
  BY <1>1 DEF Entitled, Fields
<1> HIDE DEF q
<1>5. \A a \in Artifact : a < proc[p].artifact /\ FinalRows(a) \subseteq telemetry
  <2>1. ASSUME NEW a \in Artifact PROVE a < proc[p].artifact
    BY <1>1 DEF Entitled, Artifact, PaperDaemonAssumption
  <2> QED
    BY <1>1, <2>1 DEF Follows, Looping
<1>6. Follows(q, risks, telemetry)
  BY <1>1, <1>3, <1>4, <1>5, FollowsStill
<1>7. \A o \in Processes : proc'[o] # Off => Follows(proc'[o], risks, telemetry)
  BY <1>2, <1>6, OneFollows
<1>8. Closed("completed", risks, telemetry)
  <2>1. RefusalsRecorded(risks, N)
    BY <1>1, <1>3 DEF Follows
  <2> QED
    BY <1>5, <2>1 DEF Closed
<1>9. OnCourse(proc', ledger', session', risks', telemetry') /\ intents' = intents
  BY <1>2, <1>7, <1>8 DEF GatingInv, OnCourse, inputs
<1> QED
  BY <1>9, StillOnCourse

LEMMA CourseBegins ==
  ASSUME PaperDaemonAssumption, Init
  PROVE  GatingInv
<1>1. IntentsTyped
  <2>1. intents \in Seq(Intent)
    BY DEF Init, PaperDaemonAssumption
  <2> QED
    BY <2>1 DEF IntentsTyped, N
<1>2. \A p \in Processes : proc[p] = Off
  BY DEF Init
<1>3. LedgerHolds(ledger)
  <2>1. ledger = <<>>
    BY DEF Init
  <2>2. ledger \in Seq({}) /\ Len(ledger) = 0
    BY <2>1
  <2> QED
    BY <2>2 DEF LedgerHolds
<1>4. RowsHold(telemetry) /\ Closed(session, risks, telemetry)
  BY DEF Init, RowsHold, Closed
<1> QED
  BY <1>1, <1>2, <1>3, <1>4 DEF GatingInv, OnCourse

LEMMA StutterOnCourse ==
  ASSUME GatingInv, UNCHANGED vars
  PROVE  GatingInv'
<1>1. OnCourse(proc', ledger', session', risks', telemetry') /\ intents' = intents
  BY DEF GatingInv, vars
<1> QED
  BY <1>1, StillOnCourse

LEMMA StepOnCourse ==
  ASSUME PaperDaemonAssumption, IInv, GatingInv, [Next]_vars
  PROVE  GatingInv'
<1>1. ASSUME NEW p \in Processes,
             Start(p) \/ Crash(p) \/ AuthorityRefused(p) \/ EngineStop(p)
      PROVE  GatingInv'
  BY <1>1, StartOnCourse, LeaveOnCourse
<1>2. ASSUME NEW p \in Processes, OpenSession(p) \/ RegisterArtifact(p) \/ EngineStart(p)
      PROVE  GatingInv'
  BY <1>2, OpeningOnCourse, EngineStartOnCourse
<1>3. ASSUME NEW p \in Processes, AllowIntent(p) \/ RecordBlock(p) \/ RecordRisk(p)
      PROVE  GatingInv'
  BY <1>3, AllowIntentOnCourse, RecordBlockOnCourse, RecordRiskOnCourse
<1>4. ASSUME NEW p \in Processes, ExecuteArtifact(p) \/ WriteSummary(p) \/ FinishSession(p)
      PROVE  GatingInv'
  BY <1>4, ExecuteArtifactOnCourse, WriteSummaryOnCourse, FinishSessionOnCourse
<1> QED
  BY <1>1, <1>2, <1>3, <1>4, StutterOnCourse DEF Next

(* What a table row says of its intent.                                    *)
LEMMA ExecutedIsAllowed ==
  ASSUME PaperDaemonAssumption, GatingInv
  PROVE  /\ \A r \in telemetry : r.intent \in AllowedTo(N)
         /\ \A a \in Artifact : Executed(a) = {} \/ Executed(a) = AllowedTo(N)
         /\ \A a \in Artifact : FinalRows(a) \subseteq telemetry => Executed(a) = AllowedTo(N)
         /\ Sound(N) /\ N \in Nat
<1>1. N \in Nat /\ IntentsTyped
  BY DEF GatingInv, IntentsTyped
<1>2. Sound(N)
  BY <1>1, CourseIsSound
<1>3. Listed(Final.allowed) = AllowedTo(N)
  BY <1>2 DEF Sound, ListsAllowed, Final
<1>4. \A a : {r.intent : r \in FinalRows(a)} = AllowedTo(N) /\ \A r \in FinalRows(a) : r.artifact = a
  <2> SUFFICES ASSUME NEW a
               PROVE  {r.intent : r \in FinalRows(a)} = AllowedTo(N) /\ \A r \in FinalRows(a) : r.artifact = a
    OBVIOUS
  <2> DEFINE rows == {[artifact |-> a, ordinal |-> k, intent |-> Final.allowed[k]] : k \in 1..Len(Final.allowed)}
  <2>1. FinalRows(a) = rows
    BY DEF FinalRows, Rows
  <2>2. ASSUME NEW r \in rows
        PROVE  r.artifact = a /\ r.intent \in Listed(Final.allowed)
    <3>1. PICK k \in 1..Len(Final.allowed) : r = [artifact |-> a, ordinal |-> k, intent |-> Final.allowed[k]]
      OBVIOUS
    <3>2. r.artifact = a /\ r.intent = Final.allowed[k]
      BY <3>1
    <3> QED
      BY <3>2 DEF Listed
  <2>3. ASSUME NEW i \in Listed(Final.allowed)
        PROVE  \E r \in rows : r.intent = i
    <3>1. PICK k \in 1..Len(Final.allowed) : i = Final.allowed[k]
      BY DEF Listed
    <3>2. [artifact |-> a, ordinal |-> k, intent |-> Final.allowed[k]] \in rows
      OBVIOUS
    <3> QED
      BY <3>1, <3>2
  <2> HIDE DEF rows
  <2>4. {r.intent : r \in rows} = Listed(Final.allowed)
    BY <2>2, <2>3
  <2> QED
    BY <1>3, <2>1, <2>2, <2>4
<1>5. RowsHold(telemetry)
  BY DEF GatingInv, OnCourse
<1>6. ASSUME NEW a \in Artifact, FinalRows(a) \subseteq telemetry
      PROVE  Executed(a) = AllowedTo(N)
  <2>1. {t \in telemetry : t.artifact = a} = FinalRows(a)
    BY <1>4, <1>5, <1>6 DEF RowsHold
  <2> QED
    BY <1>4, <2>1 DEF Executed
<1>7. ASSUME NEW a \in Artifact, \A r \in telemetry : r.artifact # a
      PROVE  Executed(a) = {}
  BY <1>7 DEF Executed
<1>8. \A r \in telemetry : r.intent \in AllowedTo(N)
  <2> SUFFICES ASSUME NEW r \in telemetry PROVE r.intent \in AllowedTo(N)
    OBVIOUS
  <2>1. r \in FinalRows(r.artifact)
    BY <1>5 DEF RowsHold
  <2>2. r.intent \in {s.intent : s \in FinalRows(r.artifact)}
    BY <2>1
  <2> QED
    BY <1>4, <2>2
<1> QED
  BY <1>1, <1>2, <1>5, <1>6, <1>7, <1>8 DEF RowsHold

LEMMA WithinLimits ==
  ASSUME PaperDaemonAssumption, GatingInv
  PROVE  LimitsHold
<1> DEFINE all == AllowedTo(N)
<1>1. Sound(N) /\ N \in Nat /\ IntentsTyped
  BY ExecutedIsAllowed DEF GatingInv
<1>2. Notional(all) <= MaxAggregate
  BY <1>1 DEF Sound, SumsUp
<1>3. \A s \in Symbols : Notional({i \in all : intents[i].symbol = s}) <= MaxPerSymbol
  BY <1>1 DEF Sound, SumsUp, OfSymbol
<1>4. \A i, j \in all : i # j => intents[i].key # intents[j].key
  <2> SUFFICES ASSUME NEW i \in all, NEW j \in all, i # j
               PROVE  intents[i].key # intents[j].key
    OBVIOUS
  <2>1. i < j \/ j < i
    BY <1>1 DEF AllowedTo
  <2> QED
    BY <1>1, <2>1, AllowedOnce
<1>5. Notional({}) = 0 /\ MaxAggregate \in Nat /\ MaxPerSymbol \in Nat
  BY <1>1, NotionalOfNone DEF PaperDaemonAssumption
<1> HIDE DEF all
<1>6. ASSUME NEW a \in Artifact
      PROVE  /\ Notional(Executed(a)) <= MaxAggregate
             /\ \A s \in Symbols :
                  Notional({i \in Executed(a) : intents[i].symbol = s}) <= MaxPerSymbol
             /\ \A i, j \in Executed(a) : i # j => intents[i].key # intents[j].key
  <2>1. CASE Executed(a) = all
    BY <1>2, <1>3, <1>4, <2>1
  <2>2. CASE Executed(a) = {}
    <3>1. \A s : {i \in Executed(a) : intents[i].symbol = s} = {}
      BY <2>2
    <3>2. 0 <= MaxAggregate /\ 0 <= MaxPerSymbol
      BY <1>5
    <3> QED
      BY <1>5, <2>2, <3>1, <3>2
  <2>3. Executed(a) = {} \/ Executed(a) = all
    BY ExecutedIsAllowed DEF all
  <2> QED
    BY <2>1, <2>2, <2>3
<1> QED
  BY <1>6 DEF LimitsHold, Artifact

LEMMA AllSettled ==
  ASSUME PaperDaemonAssumption, GatingInv
  PROVE  EveryIntentSettled
<1>1. \A e \in Blocks : Refused(ledger[e].intent)
  BY DEF GatingInv, OnCourse, LedgerHolds, Blocks
<1>2. \A r \in telemetry : ~Refused(r.intent)
  BY ExecutedIsAllowed DEF AllowedTo
<1>3. ASSUME session = "completed", NEW i \in 1..Len(intents)
      PROVE  \/ \A a \in 1..Artifacts : i \in Executed(a)
             \/ \E r \in risks : r.intent = i
  <2>1. \A a \in Artifact : Executed(a) = AllowedTo(N)
    BY <1>3, ExecutedIsAllowed DEF GatingInv, OnCourse, Closed
  <2>2. Refused(i) => \E r \in risks : r.intent = i
    BY <1>3 DEF GatingInv, OnCourse, Closed, RefusalsRecorded, HasRisk, N
  <2>3. ~Refused(i) => i \in AllowedTo(N)
    BY <1>3 DEF AllowedTo, N
  <2> QED
    BY <2>1, <2>2, <2>3 DEF Artifact
<1> QED
  BY <1>1, <1>2, <1>3 DEF EveryIntentSettled

LEMMA AlwaysOnCourse == Spec => []GatingInv
<1>1. Init => IInv /\ GatingInv
  BY PaperDaemonAssumption, InitHolds, CourseBegins
<1>2. IInv /\ GatingInv /\ [Next]_vars => IInv' /\ GatingInv'
  BY PaperDaemonAssumption, StepHolds, StepOnCourse
<1> QED
  BY <1>1, <1>2, PTL DEF Spec

(* Whatever fixture, limits, repetitions, overlaps and crashes, what an    *)
(* artifact has executed in a session stays within the limits of the       *)
(* command and holds no intent twice (the gating loop of                   *)
(* run_paper_daemon_dry_run and the telemetry ids of its rows).            *)
THEOREM LimitsAlwaysHold == Spec => []LimitsHold
<1>1. GatingInv => LimitsHold
  BY PaperDaemonAssumption, WithinLimits
<1> QED
  BY <1>1, AlwaysOnCourse, PTL

(* No intent is both refused and executed, and a completed session has     *)
(* executed it everywhere or kept a risk row of its refusal, wherever the  *)
(* processes died between the loop's separate transactions.                *)
THEOREM IntentsAlwaysSettled == Spec => []EveryIntentSettled
<1>1. GatingInv => EveryIntentSettled
  BY PaperDaemonAssumption, AllSettled
<1> QED
  BY <1>1, AlwaysOnCourse, PTL
-----------------------------------------------------------------------------
(* Counting the refusals                                                   *)

(* The reasons against an intent on the course, and how many refusals come *)
(* before it.                                                              *)
Against(i) == RiskBlockReasons(Course[i - 1])

Before(i) == Course[i - 1].blocks

Total == Course[N].blocks

LEMMA ReasonsAreWords ==
  ASSUME NEW q
  PROVE  RiskBlockReasons(q) \in Seq(Words)
<1> DEFINE i == intents[q.next]
           a == IF i.key \in Seen(q) THEN <<"duplicate_intent">> ELSE <<>>
           b == IF q.exposure[i.symbol] + i.notional > MaxPerSymbol
                  THEN <<"max_per_symbol_exposure">> ELSE <<>>
           c == IF q.aggregate + i.notional > MaxAggregate
                  THEN <<"max_aggregate_notional">> ELSE <<>>
           d == MarketReasons(i.market)
<1>1. a \in Seq(Words) /\ b \in Seq(Words) /\ c \in Seq(Words)
  <2>1. /\ a = <<>> \/ a = <<"duplicate_intent">>
        /\ b = <<>> \/ b = <<"max_per_symbol_exposure">>
        /\ c = <<>> \/ c = <<"max_aggregate_notional">>
    OBVIOUS
  <2>2. {"duplicate_intent", "max_per_symbol_exposure", "max_aggregate_notional"} \subseteq Words
    BY DEF Words
  <2> HIDE DEF a, b, c
  <2> QED
    BY <2>1, <2>2, ListsOfWords
<1>2. d \in Seq(Words)
  BY MarketGivesWords
<1>3. RiskBlockReasons(q) = ((a \o b) \o c) \o d
  BY Zenon DEF RiskBlockReasons
<1> HIDE DEF a, b, c, d
<1>4. a \o b \in Seq(Words) /\ (a \o b) \o c \in Seq(Words)
  BY <1>1, JoinOfWords
<1> QED
  BY <1>2, <1>3, <1>4, JoinOfWords

LEMMA CountsOneIntent ==
  ASSUME IntentsTyped, NEW i \in 1..N
  PROVE  /\ Against(i) \in Seq(Words) /\ Len(Against(i)) \in Nat
         /\ Course[i].blocks = Course[i - 1].blocks + Len(Against(i))
<1>1. i \in 0..N /\ i # 0
  BY DEF IntentsTyped
<1>2. Course[i] = Decided(Course[i - 1])
  BY <1>1, CourseIs DEF CourseAt
<1>3. Against(i) \in Seq(Words)
  BY ReasonsAreWords DEF Against
<1>4. Decided(Course[i - 1]).blocks = Course[i - 1].blocks + Len(Against(i))
  BY Zenon DEF Decided, Against
<1> QED
  BY <1>2, <1>3, <1>4

Counted(k) ==
  /\ Course[k].blocks \in Nat
  /\ \A j \in 0..k : Course[j].blocks <= Course[k].blocks

LEMMA CountGrows ==
  ASSUME IntentsTyped
  PROVE  \A k \in 0..N : Counted(k)
<1> DEFINE Bad == {k \in 0..N : ~Counted(k)}
<1>1. Bad = {}
  <2> SUFFICES ASSUME Bad # {} PROVE FALSE
    OBVIOUS
  <2>1. Bad \subseteq Nat
    BY DEF IntentsTyped
  <2>2. PICK m \in Bad : \A k \in Bad : m <= k
    BY <2>1, LeastOfNaturals
  <2>3. CASE m = 0
    <3>1. Course[0].blocks = 0
      BY CourseIs DEF CourseAt, Opening, IntentsTyped
    <3> QED
      BY <2>3, <3>1 DEF Counted
  <2>4. CASE m # 0
    <3>1. m \in 1..N /\ m - 1 \in 0..N /\ ~(m <= m - 1) /\ m \in Nat
      BY <2>4 DEF IntentsTyped
    <3>2. Counted(m - 1)
      BY <2>2, <3>1
    <3>3. Len(Against(m)) \in Nat /\ Course[m].blocks = Course[m - 1].blocks + Len(Against(m))
      BY <3>1, CountsOneIntent
    <3>4. Course[m].blocks \in Nat /\ Course[m - 1].blocks <= Course[m].blocks
      BY <3>2, <3>3 DEF Counted
    <3>5. ASSUME NEW j \in 0..m PROVE Course[j].blocks <= Course[m].blocks
      <4>1. CASE j = m
        BY <3>4, <4>1
      <4>2. CASE j # m
        <5>1. j \in 0..(m - 1) /\ j \in 0..N
          BY <3>1, <4>2 DEF IntentsTyped
        <5>2. Course[j].blocks <= Course[m - 1].blocks /\ Course[m - 1].blocks \in Nat
          BY <3>2, <5>1 DEF Counted
        <5>3. j \notin Bad
          BY <2>2, <3>1, <5>1
        <5>4. Course[j].blocks \in Nat
          BY <5>1, <5>3 DEF Counted
        <5> QED
          BY <3>4, <5>2, <5>4
      <4> QED
        BY <4>1, <4>2
    <3> QED
      BY <2>2, <3>4, <3>5 DEF Counted
  <2> QED
    BY <2>3, <2>4
<1> QED
  BY <1>1

LEMMA Numbered ==
  ASSUME IntentsTyped
  PROVE  /\ Before(1) = 0 /\ Before(N + 1) = Total /\ Total \in Nat
         /\ \A i \in 1..N : /\ Before(i) \in Nat /\ Before(i + 1) \in Nat
                            /\ Against(i) \in Seq(Words) /\ Len(Against(i)) \in Nat
                            /\ Before(i + 1) = Before(i) + Len(Against(i))
                            /\ Before(i + 1) <= Total
                            /\ \A j \in 1..N : i < j => Before(i + 1) <= Before(j)
<1>1. N \in Nat /\ (N + 1) - 1 = N /\ 1 - 1 = 0
  BY DEF IntentsTyped
<1>2. Before(1) = 0
  BY <1>1, CourseIs DEF Before, CourseAt, Opening
<1>3. Before(N + 1) = Total /\ Total \in Nat
  BY <1>1, CountGrows DEF Before, Total, Counted
<1>4. ASSUME NEW i \in 1..N
      PROVE  /\ Before(i) \in Nat /\ Before(i + 1) \in Nat
             /\ Against(i) \in Seq(Words) /\ Len(Against(i)) \in Nat
             /\ Before(i + 1) = Before(i) + Len(Against(i))
             /\ Before(i + 1) <= Total
  <2>1. i - 1 \in 0..N /\ i \in 0..N /\ (i + 1) - 1 = i /\ N \in 0..N
    BY <1>1
  <2>2. Before(i + 1) = Course[i].blocks
    BY <2>1 DEF Before
  <2>3. Counted(i - 1) /\ Counted(i) /\ Counted(N)
    BY <2>1, CountGrows
  <2>4. Course[i - 1].blocks \in Nat /\ Course[i].blocks \in Nat /\ Course[i].blocks <= Course[N].blocks
    BY <2>1, <2>3 DEF Counted
  <2> QED
    BY <2>2, <2>4, CountsOneIntent DEF Before, Total
<1>5. ASSUME NEW i \in 1..N, NEW j \in 1..N, i < j PROVE Before(i + 1) <= Before(j)
  <2>1. j - 1 \in 0..N /\ i \in 0..(j - 1) /\ (i + 1) - 1 = i
    BY <1>1, <1>5
  <2>2. Course[i].blocks <= Course[j - 1].blocks
    BY <2>1, CountGrows DEF Counted
  <2> QED
    BY <2>1, <2>2 DEF Before
<1> QED
  BY <1>2, <1>3, <1>4, <1>5

(* A block of the ledger is a refusal of the course under its number.      *)
IsRefusal(b) ==
  \E i \in 1..N : \E k \in 1..Len(Against(i)) :
    b.intent = i /\ b.reason = Against(i)[k] /\ b.number = Before(i) + k

LEMMA RefusalIsNumbered ==
  ASSUME IntentsTyped, NEW b, IsRefusal(b)
  PROVE  b.number \in 1..Total
<1>1. PICK i \in 1..N : \E k \in 1..Len(Against(i)) : b.number = Before(i) + k
  BY DEF IsRefusal
<1>2. PICK k \in 1..Len(Against(i)) : b.number = Before(i) + k
  BY <1>1
<1>3. /\ Before(i) \in Nat /\ Len(Against(i)) \in Nat /\ Total \in Nat
      /\ Before(i) + Len(Against(i)) <= Total
  BY Numbered
<1> QED
  BY <1>2, <1>3

LEMMA RefusalsDiffer ==
  ASSUME IntentsTyped, NEW b, IsRefusal(b), NEW c, IsRefusal(c), b.number = c.number
  PROVE  b.intent = c.intent /\ b.reason = c.reason
<1> PICK i \in 1..N : \E k \in 1..Len(Against(i)) :
        b.intent = i /\ b.reason = Against(i)[k] /\ b.number = Before(i) + k
  BY DEF IsRefusal
<1>1. PICK k \in 1..Len(Against(i)) :
        b.intent = i /\ b.reason = Against(i)[k] /\ b.number = Before(i) + k
  OBVIOUS
<1> PICK j \in 1..N : \E l \in 1..Len(Against(j)) :
        c.intent = j /\ c.reason = Against(j)[l] /\ c.number = Before(j) + l
  BY DEF IsRefusal
<1>2. PICK l \in 1..Len(Against(j)) :
        c.intent = j /\ c.reason = Against(j)[l] /\ c.number = Before(j) + l
  OBVIOUS
<1>3. /\ Before(i) \in Nat /\ Before(j) \in Nat /\ Len(Against(i)) \in Nat /\ Len(Against(j)) \in Nat
      /\ Before(i + 1) = Before(i) + Len(Against(i)) /\ Before(j + 1) = Before(j) + Len(Against(j))
      /\ i < j => Before(i + 1) <= Before(j)
      /\ j < i => Before(j + 1) <= Before(i)
  BY Numbered
<1> PICK u, v : u = Before(i) /\ v = Before(j)
  OBVIOUS
<1>0. i \in Nat /\ j \in Nat /\ k \in Nat \ {0} /\ l \in Nat \ {0} /\ u + k = v + l /\ u \in Nat /\ v \in Nat
      /\ k <= Len(Against(i)) /\ l <= Len(Against(j))
  <2>1. i \in Nat /\ j \in Nat
    BY DEF IntentsTyped
  <2>2. u \in Nat /\ v \in Nat /\ u + k = v + l
    BY <1>1, <1>2, <1>3
  <2>3. k \in Nat \ {0} /\ k <= Len(Against(i))
    BY <1>3
  <2>4. l \in Nat \ {0} /\ l <= Len(Against(j))
    BY <1>3
  <2> QED
    BY <2>1, <2>2, <2>3, <2>4
<1>4. ~(i < j) /\ ~(j < i)
  <2>1. i < j => u + Len(Against(i)) <= v
    BY <1>3
  <2>2. j < i => v + Len(Against(j)) <= u
    BY <1>3
  <2> PICK m, n : m = Len(Against(i)) /\ n = Len(Against(j))
    OBVIOUS
  <2>3. m \in Nat /\ n \in Nat /\ k <= m /\ l <= n
    BY <1>0, <1>3
  <2>4. ~(u + m <= v) /\ ~(v + n <= u)
    BY <1>0, <2>3
  <2> QED
    BY <2>1, <2>2, <2>4
<1>5. i = j
  BY <1>0, <1>4
<1>6. k = l
  <2>1. u = v
    BY <1>5
  <2> QED
    BY <1>0, <2>1
<1> QED
  BY <1>1, <1>2, <1>5, <1>6

LEMMA AgainstStays ==
  ASSUME intents' = intents
  PROVE  /\ (\A i : Against(i)' = Against(i)) /\ (\A i : Before(i)' = Before(i))
         /\ Total' = Total
         /\ \A b : IsRefusal(b)' <=> IsRefusal(b)
<1>1. Course' = Course /\ N' = N
  BY CourseStays
<1>2. \A q : RiskBlockReasons(q)' = RiskBlockReasons(q)
  BY DEF RiskBlockReasons, Seen
<1>3. (\A i : Against(i)' = Against(i)) /\ (\A i : Before(i)' = Before(i))
  BY <1>1, <1>2, Zenon DEF Against, Before
<1>4. \A b : IsRefusal(b)' <=> IsRefusal(b)
  BY <1>1, <1>3, Zenon DEF IsRefusal
<1> QED
  BY <1>1, <1>3, <1>4, Zenon DEF Total

(* What is written of the refusals                                         *)

BlockIds(led) == {e \in 1..Len(led) : led[e].type = "RISK_BLOCK"}

(* The numbers that have their risk row.                                   *)
Numbers(rs, led) == {led[r.source].number : r \in rs}

(* How many reasons against the next intent a process is past.             *)
Past(q) == IF q.pc = "risk" THEN q.given - 1 ELSE q.given

(* A process has counted what it has recorded: every reason it is past.    *)
Stands(q, rs, led, sum) ==
  /\ q.pc = "risk" => q.given \in 1..Len(Against(q.next))
  /\ q.pc # "risk" => q.given = 0 \/ (q.next <= N /\ q.given \in 1..(Len(Against(q.next)) - 1))
  /\ q.blocks \in Nat /\ q.blocks = Before(q.next) + Past(q)
  /\ 1..q.blocks \subseteq Numbers(rs, led)
  /\ q.pc \in {"finish", "stop"} => sum = Total

(* Between the two writes its block is in the ledger and has no risk row.  *)
Awaits(q, rs, led) ==
  q.pc = "risk" =>
    /\ q.event \in BlockIds(led)
    /\ led[q.event].intent = q.next /\ led[q.event].reason = Against(q.next)[q.given]
    /\ led[q.event].number = q.blocks + 1
    /\ \A r \in rs : r.source # q.event

Apart(pr) ==
  \A o, p \in Processes : o # p /\ pr[o].pc = "risk" /\ pr[p].pc = "risk" => pr[o].event # pr[p].event

(* Every risk row names its block, and every block is of the course.       *)
Sourced(rs, led) ==
  /\ \A r \in rs : /\ r.source \in BlockIds(led)
                   /\ led[r.source].reason = r.reason /\ led[r.source].intent = r.intent
  /\ \A e \in BlockIds(led) : IsRefusal(led[e])

Concluded(ses, rs, led, sum) ==
  ses = "completed" => sum = Total /\ 1..Total \subseteq Numbers(rs, led)

Unmatched(led, rs) == {e \in BlockIds(led) : \A r \in rs : r.source # e}

Running(pr) == {p \in Processes : pr[p] # Off /\ pr[p].pc # "risk"}

(* Each start pays for one block without a risk row, or still may.         *)
Paid(pr, led, rs, st) ==
  /\ IsFiniteSet(Unmatched(led, rs)) /\ IsFiniteSet(Running(pr)) /\ st \in Nat
  /\ Cardinality(Unmatched(led, rs)) + Cardinality(Running(pr)) <= st

Written(pr, led, rs, ses, sum, st) ==
  /\ \A p \in Processes : pr[p] # Off => Stands(pr[p], rs, led, sum) /\ Awaits(pr[p], rs, led)
  /\ Apart(pr)
  /\ Sourced(rs, led)
  /\ Concluded(ses, rs, led, sum)
  /\ Paid(pr, led, rs, st)

BlocksInv == Written(proc, ledger, risks, session, summary, starts)

LEMMA StillWritten ==
  ASSUME intents' = intents, Written(proc', ledger', risks', session', summary', starts')
  PROVE  BlocksInv'
<1>1. /\ (\A i : Against(i)' = Against(i)) /\ (\A i : Before(i)' = Before(i))
      /\ Total' = Total /\ N' = N
      /\ \A b : IsRefusal(b)' <=> IsRefusal(b)
  BY AgainstStays, CourseStays
<1>3. \A q, rs, led, sum : Stands(q, rs, led, sum)' <=> Stands(q, rs, led, sum)
  <2> TAKE q, rs, led, sum
  <2>1. /\ Against(q.next)' = Against(q.next) /\ Before(q.next)' = Before(q.next)
        /\ Numbers(rs, led)' = Numbers(rs, led) /\ Total' = Total /\ N' = N
    BY <1>1, Zenon DEF Numbers
  <2> QED
    BY <2>1, Zenon DEF Stands, Past
<1>4. \A q, rs, led : Awaits(q, rs, led)' <=> Awaits(q, rs, led)
  BY <1>1, Zenon DEF Awaits, BlockIds
<1>5. \A rs, led : Sourced(rs, led)' <=> Sourced(rs, led)
  BY <1>1, Zenon DEF Sourced, BlockIds
<1>6. \A ses, rs, led, sum : Concluded(ses, rs, led, sum)' <=> Concluded(ses, rs, led, sum)
  BY <1>1, Zenon DEF Concluded, Numbers
<1> QED
  BY <1>3, <1>4, <1>5, <1>6 DEF BlocksInv, Written, Apart, Paid, Unmatched, BlockIds, Running

LEMMA FewerCounted ==
  ASSUME NEW S, IsFiniteSet(S), NEW T \in SUBSET S
  PROVE  /\ IsFiniteSet(T) /\ Cardinality(T) \in Nat /\ Cardinality(S) \in Nat
         /\ Cardinality(T) <= Cardinality(S)
BY FS_Subset, FS_CardinalityType, Zenon

LEMMA OneMoreCounted ==
  ASSUME NEW S, IsFiniteSet(S), NEW x
  PROVE  /\ IsFiniteSet(S \cup {x}) /\ Cardinality(S) \in Nat /\ Cardinality(S \cup {x}) \in Nat
         /\ Cardinality(S \cup {x}) <= Cardinality(S) + 1
         /\ x \notin S => Cardinality(S \cup {x}) = Cardinality(S) + 1
<1>1. /\ IsFiniteSet(S \cup {x}) /\ Cardinality(S) \in Nat
      /\ Cardinality(S \cup {x}) = IF x \in S THEN Cardinality(S) ELSE Cardinality(S) + 1
  BY FS_AddElement, FS_CardinalityType, Zenon
<1> QED
  BY <1>1

LEMMA OneFewerCounted ==
  ASSUME NEW S, IsFiniteSet(S), NEW x \in S
  PROVE  /\ IsFiniteSet(S \ {x}) /\ Cardinality(S) \in Nat /\ Cardinality(S \ {x}) \in Nat
         /\ Cardinality(S \ {x}) + 1 = Cardinality(S)
<1>1. IsFiniteSet(S \ {x}) /\ Cardinality(S) \in Nat /\ Cardinality(S \ {x}) \in Nat
  BY FewerCounted
<1>2. Cardinality(S \ {x}) = IF x \in S THEN Cardinality(S) - 1 ELSE Cardinality(S)
  BY FS_RemoveElement, Zenon
<1> QED
  BY <1>1, <1>2

(* The other processes keep standing where they are.                       *)
LEMMA NumbersStay ==
  ASSUME NEW rs, NEW led, Sourced(rs, led), NEW more, rs \subseteq more,
         NEW longer, \A e \in BlockIds(led) : longer[e] = led[e]
  PROVE  Numbers(rs, led) \subseteq Numbers(more, longer)
BY DEF Sourced, Numbers

LEMMA OneStands ==
  ASSUME IInv, BlocksInv, NEW p \in Processes, NEW q, proc' = [proc EXCEPT ![p] = q],
         NEW rs, risks \subseteq rs, NEW led, \A e \in BlockIds(ledger) : led[e] = ledger[e],
         NEW sum, sum = summary \/ sum = Total,
         q # Off => Stands(q, rs, led, sum)
  PROVE  \A o \in Processes : proc'[o] # Off => Stands(proc'[o], rs, led, sum)
<1> SUFFICES ASSUME NEW o \in Processes, proc'[o] # Off PROVE Stands(proc'[o], rs, led, sum)
  OBVIOUS
<1>1. CASE o = p
  BY <1>1 DEF IInv
<1>2. CASE o # p
  <2>1. proc'[o] = proc[o]
    BY <1>2 DEF IInv
  <2>2. Stands(proc[o], risks, ledger, summary) /\ Sourced(risks, ledger)
    BY <2>1 DEF BlocksInv, Written
  <2>3. Numbers(risks, ledger) \subseteq Numbers(rs, led)
    BY <2>2, NumbersStay
  <2> QED
    BY <2>1, <2>2, <2>3 DEF Stands
<1> QED
  BY <1>1, <1>2

(* A step that writes no refusal.                                          *)
LEMMA QuietWrites ==
  ASSUME IInv, BlocksInv, NEW p \in Processes, NEW q, proc' = [proc EXCEPT ![p] = q],
         proc[p] # Off, q.pc # "risk", q = Off \/ proc[p].pc # "risk",
         q # Off => Stands(q, risks, ledger', summary'),
         UNCHANGED <<intents, risks, starts>>,
         BlockIds(ledger') = BlockIds(ledger), \A e \in BlockIds(ledger) : ledger'[e] = ledger[e],
         summary' = summary \/ summary' = Total,
         session' \in {session, "running"}
           \/ (summary' = Total /\ 1..Total \subseteq Numbers(risks, ledger))
  PROVE  BlocksInv'
<1>1. \A o \in Processes : proc'[o] # Off => Stands(proc'[o], risks', ledger', summary')
  <2> PICK sum, led : sum = summary' /\ led = ledger'
    OBVIOUS
  <2>1. /\ sum = summary \/ sum = Total
        /\ risks \subseteq risks /\ (q # Off => Stands(q, risks, led, sum))
        /\ \A e \in BlockIds(ledger) : led[e] = ledger[e]
    OBVIOUS
  <2>2. ASSUME NEW more, more = summary \/ more = Total, q # Off => Stands(q, risks, led, more)
        PROVE  \A o \in Processes : proc'[o] # Off => Stands(proc'[o], risks, led, more)
    BY <2>1, <2>2, OneStands
  <2>3. \A o \in Processes : proc'[o] # Off => Stands(proc'[o], risks, led, sum)
    BY <2>1, <2>2
  <2> QED
    BY <2>3
<1>2. \A o \in Processes : proc'[o] # Off => Awaits(proc'[o], risks', ledger')
  <2> SUFFICES ASSUME NEW o \in Processes, proc'[o] # Off PROVE Awaits(proc'[o], risks, ledger')
    OBVIOUS
  <2>1. CASE o = p
    BY <2>1 DEF IInv, Awaits
  <2>2. CASE o # p
    <3>1. proc'[o] = proc[o] /\ Awaits(proc[o], risks, ledger)
      BY <2>2 DEF IInv, BlocksInv, Written
    <3> QED
      BY <3>1 DEF Awaits
  <2> QED
    BY <2>1, <2>2
<1>3. Apart(proc')
  BY DEF IInv, BlocksInv, Written, Apart
<1>4. Sourced(risks', ledger')
  BY DEF BlocksInv, Written, Sourced
<1>5. Concluded(session', risks', ledger', summary')
  <2>1. Numbers(risks, ledger) \subseteq Numbers(risks', ledger')
    BY NumbersStay DEF BlocksInv, Written
  <2> QED
    BY <2>1 DEF BlocksInv, Written, Concluded
<1>6. Paid(proc', ledger', risks', starts')
  <2>1. Running(proc') \subseteq Running(proc)
    <3> SUFFICES ASSUME NEW o \in Running(proc') PROVE o \in Running(proc)
      OBVIOUS
    <3>1. o \in Processes /\ proc'[o] # Off /\ proc'[o].pc # "risk"
      BY DEF Running
    <3>2. CASE o = p
      BY <3>1, <3>2 DEF IInv, Running
    <3>3. CASE o # p
      BY <3>1, <3>3 DEF IInv, Running
    <3> QED
      BY <3>2, <3>3
  <2>2. Unmatched(ledger', risks') = Unmatched(ledger, risks)
    BY DEF Unmatched
  <2>3. Paid(proc, ledger, risks, starts)
    BY DEF BlocksInv, Written
  <2>4. /\ IsFiniteSet(Running(proc')) /\ Cardinality(Running(proc')) \in Nat
        /\ Cardinality(Running(proc)) \in Nat
        /\ Cardinality(Running(proc')) <= Cardinality(Running(proc))
    BY <2>1, <2>3, FewerCounted DEF Paid
  <2>5. Cardinality(Unmatched(ledger, risks)) \in Nat
    BY <2>3, FS_CardinalityType, Zenon DEF Paid
  <2>6. Cardinality(Unmatched(ledger, risks)) + Cardinality(Running(proc')) <= starts
    BY <2>3, <2>4, <2>5 DEF Paid
  <2> QED
    BY <2>2, <2>3, <2>4, <2>6 DEF Paid
<1>7. Written(proc', ledger', risks', session', summary', starts')
  BY <1>1, <1>2, <1>3, <1>4, <1>5, <1>6 DEF Written
<1> QED
  BY <1>7, StillWritten

LEMMA LedgerAppend ==
  ASSUME LedgerHolds(ledger), NEW x, ledger' = Append(ledger, x)
  PROVE  /\ Len(ledger) \in Nat /\ ledger'[Len(ledger) + 1] = x
         /\ \A e \in BlockIds(ledger) : ledger'[e] = ledger[e] /\ e # Len(ledger) + 1
         /\ x.type = "RISK_BLOCK" => BlockIds(ledger') = BlockIds(ledger) \cup {Len(ledger) + 1}
         /\ x.type # "RISK_BLOCK" => BlockIds(ledger') = BlockIds(ledger)
<1>1. PICK S : ledger \in Seq(S)
  BY DEF LedgerHolds
<1>2. ledger \in Seq(S \cup {x})
  BY <1>1
<1>3. Len(ledger') = Len(ledger) + 1 /\ ledger'[Len(ledger) + 1] = x
      /\ (\A e \in 1..Len(ledger) : ledger'[e] = ledger[e]) /\ Len(ledger) \in Nat
  BY <1>2
<1>4. \A e : e \in 1..Len(ledger') <=> e \in 1..Len(ledger) \/ e = Len(ledger) + 1
  BY <1>3
<1>5. \A e \in 1..Len(ledger) : e # Len(ledger) + 1
  BY <1>3
<1> QED
  BY <1>3, <1>4, <1>5 DEF BlockIds

(* The fields that say what a process has recorded stay.                   *)
LEMMA StandsStill ==
  ASSUME NEW q, NEW s, NEW rs, NEW led, Sourced(rs, led), NEW longer,
         \A e \in BlockIds(led) : longer[e] = led[e], NEW sum, NEW more,
         Stands(q, rs, led, sum), q.pc # "risk", s.pc # "risk",
         s.next = q.next, s.given = q.given, s.blocks = q.blocks,
         s.pc \in {"finish", "stop"} => more = Total
  PROVE  Stands(s, rs, longer, more)
<1>1. Numbers(rs, led) \subseteq Numbers(rs, longer)
  BY NumbersStay
<1> QED
  BY <1>1 DEF Stands, Past

LEMMA FirstWritten ==
  ASSUME PaperDaemonAssumption, Init
  PROVE  BlocksInv
<1>1. /\ \A p \in Processes : proc[p] = Off
      /\ ledger = <<>> /\ risks = {} /\ session = "none" /\ starts = 0
  BY DEF Init
<1>2. BlockIds(ledger) = {}
  BY <1>1 DEF BlockIds
<1>3. Unmatched(ledger, risks) = {} /\ Running(proc) = {}
  BY <1>1, <1>2 DEF Unmatched, Running
<1>4. IsFiniteSet({}) /\ Cardinality({}) = 0
  BY FS_EmptySet
<1>5. Paid(proc, ledger, risks, starts)
  <2>1. Cardinality(Unmatched(ledger, risks)) = 0 /\ Cardinality(Running(proc)) = 0
    BY <1>3, <1>4, Zenon
  <2>2. IsFiniteSet(Unmatched(ledger, risks)) /\ IsFiniteSet(Running(proc))
    BY <1>3, <1>4, Zenon
  <2> QED
    BY <1>1, <2>1, <2>2 DEF Paid
<1>6. Apart(proc)
  BY <1>1 DEF Apart, Off
<1>7. Sourced(risks, ledger) /\ Concluded(session, risks, ledger, summary)
  BY <1>1, <1>2 DEF Sourced, Concluded
<1> QED
  BY <1>1, <1>5, <1>6, <1>7 DEF BlocksInv, Written

(* A start pays in advance.                                                *)
LEMMA StartWrites ==
  ASSUME PaperDaemonAssumption, IInv, GatingInv, BlocksInv, NEW p \in Processes, Start(p)
  PROVE  BlocksInv'
<1>1. proc' = [proc EXCEPT ![p] = Fresh] /\ proc[p] = Off /\ starts' = starts + 1
      /\ UNCHANGED <<intents, ledger, risks, session, summary>>
  BY DEF Start, inputs, tables
<1>2. Fresh.pc = "session" /\ Fresh.next = 1 /\ Fresh.given = 0 /\ Fresh.blocks = 0 /\ Off.pc = "off"
  BY DEF Fresh, Off
<1>3. Stands(Fresh, risks, ledger, summary)
  <2>1. Before(1) = 0 /\ 1..0 = {}
    BY Numbered DEF GatingInv
  <2> QED
    BY <1>2, <2>1 DEF Stands, Past
<1>4. \A o \in Processes : proc'[o] # Off => Stands(proc'[o], risks', ledger', summary')
  <2>1. risks \subseteq risks /\ (Fresh # Off => Stands(Fresh, risks, ledger, summary))
    BY <1>3
  <2>2. \A o \in Processes : proc'[o] # Off => Stands(proc'[o], risks, ledger, summary)
    BY <1>1, <2>1, OneStands
  <2> QED
    BY <1>1, <2>2
<1>5. \A o \in Processes : proc'[o].pc = "risk" => o # p /\ proc'[o] = proc[o]
  BY <1>1, <1>2 DEF IInv
<1>6. \A o \in Processes : proc'[o] # Off => Awaits(proc'[o], risks', ledger')
  <2> SUFFICES ASSUME NEW o \in Processes, proc'[o] # Off PROVE Awaits(proc'[o], risks, ledger)
    BY <1>1
  <2>1. CASE proc'[o].pc = "risk"
    BY <1>5, <2>1 DEF BlocksInv, Written
  <2>2. CASE proc'[o].pc # "risk"
    BY <2>2 DEF Awaits
  <2> QED
    BY <2>1, <2>2
<1>7. Apart(proc')
  BY <1>5 DEF BlocksInv, Written, Apart
<1>8. Sourced(risks', ledger') /\ Concluded(session', risks', ledger', summary')
  BY <1>1 DEF BlocksInv, Written
<1>9. Paid(proc', ledger', risks', starts')
  <2>1. Running(proc') \subseteq Running(proc) \cup {p}
    BY <1>1 DEF IInv, Running
  <2>2. Paid(proc, ledger, risks, starts)
    BY DEF BlocksInv, Written
  <2>3. /\ IsFiniteSet(Running(proc) \cup {p}) /\ Cardinality(Running(proc)) \in Nat
        /\ Cardinality(Running(proc) \cup {p}) <= Cardinality(Running(proc)) + 1
    BY <2>2, OneMoreCounted DEF Paid
  <2>4. /\ IsFiniteSet(Running(proc')) /\ Cardinality(Running(proc')) \in Nat
        /\ Cardinality(Running(proc) \cup {p}) \in Nat
        /\ Cardinality(Running(proc')) <= Cardinality(Running(proc) \cup {p})
    BY <2>1, <2>3, FewerCounted
  <2>5. Cardinality(Unmatched(ledger, risks)) \in Nat
    BY <2>2, FS_CardinalityType, Zenon DEF Paid
  <2>6. Cardinality(Unmatched(ledger, risks)) + Cardinality(Running(proc')) <= starts + 1
    BY <2>2, <2>3, <2>4, <2>5 DEF Paid
  <2> QED
    BY <1>1, <2>2, <2>4, <2>6 DEF Paid
<1>10. Written(proc', ledger', risks', session', summary', starts')
  BY <1>4, <1>6, <1>7, <1>8, <1>9 DEF Written
<1> QED
  BY <1>1, <1>10, StillWritten

LEMMA LeaveWrites ==
  ASSUME IInv, GatingInv, BlocksInv, NEW p \in Processes, Crash(p) \/ AuthorityRefused(p) \/ EngineStop(p)
  PROVE  BlocksInv'
<1>1. proc' = [proc EXCEPT ![p] = Off] /\ proc[p] # Off
      /\ UNCHANGED <<intents, risks, starts, session, summary>>
  BY DEF Crash, AuthorityRefused, EngineStop, tables, inputs, At, Gated
<1>2. BlockIds(ledger') = BlockIds(ledger) /\ \A e \in BlockIds(ledger) : ledger'[e] = ledger[e]
  <2>1. CASE ledger' = ledger
    BY <2>1 DEF BlockIds
  <2>2. CASE ledger' = Append(ledger, [type |-> "ENGINE_STOP"])
    <3> PICK x : x = [type |-> "ENGINE_STOP"]
      OBVIOUS
    <3>1. ledger' = Append(ledger, x) /\ x.type # "RISK_BLOCK"
      BY <2>2
    <3> QED
      BY <3>1, LedgerAppend DEF GatingInv, OnCourse
  <2> QED
    BY <2>1, <2>2 DEF Crash, AuthorityRefused, EngineStop, tables
<1>3. Off.pc # "risk"
  BY DEF Off
<1> QED
  BY <1>1, <1>2, <1>3, QuietWrites

LEMMA OpeningWrites ==
  ASSUME PaperDaemonAssumption, IInv, GatingInv, BlocksInv, NEW p \in Processes,
         OpenSession(p) \/ RegisterArtifact(p) \/ EngineStart(p)
  PROVE  BlocksInv'
<1>1. PICK q : /\ proc' = [proc EXCEPT ![p] = q]
               /\ \/ q = [proc[p] EXCEPT !.pc = "members"]
                  \/ q = [proc[p] EXCEPT !.artifact = proc[p].artifact + 1]
                  \/ q = [proc[p] EXCEPT !.pc = "gate", !.artifact = 1]
  <2>1. OpenSession(p) => proc' = [proc EXCEPT ![p] = [proc[p] EXCEPT !.pc = "members"]]
    BY DEF OpenSession, Goto
  <2>2. RegisterArtifact(p) =>
          proc' = [proc EXCEPT ![p] = [proc[p] EXCEPT !.artifact = proc[p].artifact + 1]]
    BY DEF RegisterArtifact
  <2>3. EngineStart(p) =>
          proc' = [proc EXCEPT ![p] = [proc[p] EXCEPT !.pc = "gate", !.artifact = 1]]
    BY DEF EngineStart
  <2> QED
    BY <2>1, <2>2, <2>3, Zenon
<1>2. Entitled(proc[p]) /\ proc[p] # Off /\ proc[p].pc \in {"session", "members"}
  BY IsOnCourse DEF OpenSession, RegisterArtifact, EngineStart, At
<1>3. /\ q.next = proc[p].next /\ q.given = proc[p].given /\ q.blocks = proc[p].blocks
      /\ q.pc \in {"session", "members", "gate"}
  BY <1>1, <1>2 DEF Entitled, Fields
<1>4. UNCHANGED <<intents, risks, starts, summary>> /\ session' \in {session, "running"}
  BY DEF OpenSession, RegisterArtifact, EngineStart, inputs
<1>5. BlockIds(ledger') = BlockIds(ledger) /\ \A e \in BlockIds(ledger) : ledger'[e] = ledger[e]
  <2>1. CASE ledger' = ledger
    BY <2>1 DEF BlockIds
  <2>2. CASE ledger' = Append(ledger, [type |-> "ENGINE_START"])
    <3> PICK x : x = [type |-> "ENGINE_START"]
      OBVIOUS
    <3>1. ledger' = Append(ledger, x) /\ x.type # "RISK_BLOCK"
      BY <2>2
    <3> QED
      BY <3>1, LedgerAppend DEF GatingInv, OnCourse
  <2> QED
    BY <2>1, <2>2 DEF OpenSession, RegisterArtifact, EngineStart
<1>6. Stands(q, risks, ledger', summary')
  <2>1. Stands(proc[p], risks, ledger, summary) /\ Sourced(risks, ledger)
    BY <1>2 DEF BlocksInv, Written
  <2> QED
    BY <1>2, <1>3, <1>5, <2>1, StandsStill
<1> QED
  BY <1>1, <1>2, <1>3, <1>4, <1>5, <1>6, QuietWrites

LEMMA AllowIntentWrites ==
  ASSUME PaperDaemonAssumption, IInv, GatingInv, BlocksInv, NEW p \in Processes, AllowIntent(p)
  PROVE  BlocksInv'
<1> DEFINE i == intents[proc[p].next]
           exposure == [proc[p].exposure EXCEPT ![i.symbol] = @ + i.notional]
           aggregate == proc[p].aggregate + i.notional
           allowed == Append(proc[p].allowed, proc[p].next)
           q == [proc[p] EXCEPT !.exposure = exposure, !.aggregate = aggregate,
                                !.allowed = allowed, !.next = @ + 1]
<1>1. /\ Entitled(proc[p]) /\ proc[p].pc = "gate" /\ proc[p] # Off /\ proc[p].next \in 1..N
      /\ Against(proc[p].next) = <<>>
  BY IsOnCourse DEF AllowIntent, Against, N, Follows, At, GatingInv, IntentsTyped
<1>2. proc' = [proc EXCEPT ![p] = q]
  BY Zenon DEF AllowIntent
<1>3. q.next = proc[p].next + 1 /\ q.given = proc[p].given /\ q.blocks = proc[p].blocks /\ q.pc = "gate"
  <2> HIDE DEF exposure, aggregate, allowed
  <2> QED
    BY <1>1 DEF Entitled, Fields
<1> HIDE DEF q
<1>4. Stands(proc[p], risks, ledger, summary)
  BY <1>1 DEF BlocksInv, Written
<1>5. proc[p].given = 0 /\ Len(Against(proc[p].next)) = 0
  BY <1>1, <1>4 DEF Stands
<1>6. Before(q.next) = Before(proc[p].next) /\ Before(proc[p].next) \in Nat
  BY <1>1, <1>3, <1>5, Numbered DEF GatingInv
<1>7. Stands(q, risks, ledger, summary)
  BY <1>1, <1>3, <1>4, <1>5, <1>6 DEF Stands, Past
<1>8. UNCHANGED <<intents, risks, starts, summary, session, ledger>>
  BY DEF AllowIntent, inputs, tables
<1> QED
  BY <1>1, <1>2, <1>3, <1>7, <1>8, QuietWrites

LEMMA ExecuteWrites ==
  ASSUME PaperDaemonAssumption, IInv, GatingInv, BlocksInv, NEW p \in Processes, ExecuteArtifact(p)
  PROVE  BlocksInv'
<1> DEFINE q == [proc[p] EXCEPT !.artifact = proc[p].artifact + 1]
<1>1. Entitled(proc[p]) /\ proc[p].pc = "gate" /\ proc[p] # Off
  BY IsOnCourse DEF ExecuteArtifact, Gated, At
<1>2. proc' = [proc EXCEPT ![p] = q] /\ UNCHANGED <<intents, risks, starts, summary, session, ledger>>
  BY DEF ExecuteArtifact, inputs
<1>3. q.next = proc[p].next /\ q.given = proc[p].given /\ q.blocks = proc[p].blocks /\ q.pc = "gate"
  BY <1>1 DEF Entitled, Fields
<1> HIDE DEF q
<1>4. Stands(q, risks, ledger, summary)
  <2>1. Stands(proc[p], risks, ledger, summary) /\ Sourced(risks, ledger)
    BY <1>1 DEF BlocksInv, Written
  <2> QED
    BY <1>1, <1>3, <2>1, StandsStill
<1> QED
  BY <1>1, <1>2, <1>3, <1>4, QuietWrites

(* The summary counts what one whole run refuses.                          *)
LEMMA WriteSummaryWrites ==
  ASSUME PaperDaemonAssumption, IInv, GatingInv, BlocksInv, NEW p \in Processes, WriteSummary(p)
  PROVE  BlocksInv'
<1> DEFINE q == [proc[p] EXCEPT !.pc = "finish"]
<1>1. Entitled(proc[p]) /\ proc[p].pc = "gate" /\ proc[p] # Off /\ proc[p].next = N + 1 /\ N \in Nat
  BY IsOnCourse DEF WriteSummary, Gated, At, N, Follows, GatingInv, IntentsTyped
<1>2. proc' = [proc EXCEPT ![p] = q] /\ UNCHANGED <<intents, risks, starts, session, ledger>>
      /\ summary' = proc[p].blocks
  BY DEF WriteSummary, Goto, inputs
<1>3. q.next = proc[p].next /\ q.given = proc[p].given /\ q.blocks = proc[p].blocks /\ q.pc = "finish"
  BY <1>1 DEF Entitled, Fields
<1> HIDE DEF q
<1>4. Stands(proc[p], risks, ledger, summary) /\ Sourced(risks, ledger)
  BY <1>1 DEF BlocksInv, Written
<1>5. summary' = Total
  <2>1. proc[p].given = 0
    BY <1>1, <1>4 DEF Stands
  <2>2. Before(N + 1) = Total /\ Total \in Nat
    BY Numbered DEF GatingInv
  <2> QED
    BY <1>1, <1>2, <1>4, <2>1, <2>2 DEF Stands, Past
<1>6. Stands(q, risks, ledger, summary')
  BY <1>1, <1>3, <1>4, <1>5, StandsStill
<1> QED
  BY <1>1, <1>2, <1>3, <1>5, <1>6, QuietWrites

LEMMA FinishSessionWrites ==
  ASSUME PaperDaemonAssumption, IInv, GatingInv, BlocksInv, NEW p \in Processes, FinishSession(p)
  PROVE  BlocksInv'
<1> DEFINE q == [proc[p] EXCEPT !.pc = "stop"]
<1>1. Entitled(proc[p]) /\ proc[p].pc = "finish" /\ proc[p] # Off /\ proc[p].next = N + 1 /\ N \in Nat
  BY IsOnCourse DEF FinishSession, At, Follows, GatingInv, IntentsTyped
<1>2. proc' = [proc EXCEPT ![p] = q] /\ UNCHANGED <<intents, risks, starts, summary, ledger>>
  BY DEF FinishSession, Goto, inputs
<1>3. q.next = proc[p].next /\ q.given = proc[p].given /\ q.blocks = proc[p].blocks /\ q.pc = "stop"
  BY <1>1 DEF Entitled, Fields
<1> HIDE DEF q
<1>4. Stands(proc[p], risks, ledger, summary) /\ Sourced(risks, ledger)
  BY <1>1 DEF BlocksInv, Written
<1>5. summary = Total /\ 1..Total \subseteq Numbers(risks, ledger)
  <2>1. proc[p].given = 0
    BY <1>1, <1>4 DEF Stands
  <2>2. Before(N + 1) = Total /\ Total \in Nat
    BY Numbered DEF GatingInv
  <2> QED
    BY <1>1, <1>4, <2>1, <2>2 DEF Stands, Past
<1>6. Stands(q, risks, ledger, summary')
  BY <1>1, <1>2, <1>3, <1>4, <1>5, StandsStill
<1> QED
  BY <1>1, <1>2, <1>3, <1>5, <1>6, QuietWrites


(* The first of the two writes: a block nobody has matched yet, for the    *)
(* next reason against the intent.                                         *)
LEMMA RecordBlockWrites ==
  ASSUME PaperDaemonAssumption, IInv, GatingInv, BlocksInv, NEW p \in Processes, RecordBlock(p)
  PROVE  BlocksInv'
<1> DEFINE n == proc[p].next
           given == proc[p].given
           new == Len(ledger) + 1
           q == [proc[p] EXCEPT !.event = new, !.given = given + 1, !.pc = "risk"]
           x == [type |-> "RISK_BLOCK", intent |-> n, reason |-> RiskBlockReasons(proc[p])[given + 1],
                 number |-> proc[p].blocks + 1]
<1>1. /\ Entitled(proc[p]) /\ proc[p].pc = "gate" /\ proc[p] # Off /\ n \in 1..N
      /\ RiskBlockReasons(proc[p]) = Against(n) /\ Against(n) # <<>>
  BY IsOnCourse DEF RecordBlock, Against, N, Follows, At, GatingInv, IntentsTyped
<1>2. proc' = [proc EXCEPT ![p] = q] /\ ledger' = Append(ledger, x)
      /\ UNCHANGED <<intents, risks, starts, summary, session>>
  BY DEF RecordBlock, inputs
<1>3. q.next = n /\ q.given = given + 1 /\ q.blocks = proc[p].blocks /\ q.pc = "risk" /\ q.event = new
  <2> HIDE DEF new
  <2> QED
    BY <1>1 DEF Entitled, Fields
<1>4. x.type = "RISK_BLOCK" /\ x.intent = n /\ x.reason = Against(n)[given + 1]
      /\ x.number = proc[p].blocks + 1
  BY <1>1
<1> HIDE DEF q, x
<1>5. /\ Stands(proc[p], risks, ledger, summary) /\ Apart(proc) /\ Sourced(risks, ledger)
      /\ Concluded(session, risks, ledger, summary) /\ Paid(proc, ledger, risks, starts)
  BY <1>1 DEF BlocksInv, Written
<1>6. Len(Against(n)) \in Nat \ {0} /\ Before(n) \in Nat
  <2>1. Len(Against(n)) \in Nat /\ Before(n) \in Nat /\ Against(n) \in Seq(Words)
    BY <1>1, Numbered DEF GatingInv
  <2>2. Len(Against(n)) # 0
    BY <1>1, <2>1
  <2> QED
    BY <2>1, <2>2
<1>7. given \in 0..(Len(Against(n)) - 1) /\ given + 1 \in 1..Len(Against(n)) /\ (given + 1) - 1 = given
  BY <1>1, <1>5, <1>6 DEF Stands
<1>8. /\ ledger'[new] = x /\ BlockIds(ledger') = BlockIds(ledger) \cup {new}
      /\ \A e \in BlockIds(ledger) : ledger'[e] = ledger[e] /\ e # new
  BY <1>2, <1>4, LedgerAppend DEF GatingInv, OnCourse
<1>9. new \notin BlockIds(ledger)
  BY <1>8
<1> HIDE DEF new
<1>10. Stands(q, risks, ledger', summary)
  <2>1. Numbers(risks, ledger) \subseteq Numbers(risks, ledger')
    BY <1>5, <1>8, NumbersStay
  <2> QED
    BY <1>1, <1>3, <1>5, <1>6, <1>7, <2>1 DEF Stands, Past
<1>11. \A o \in Processes : proc'[o] # Off => Stands(proc'[o], risks', ledger', summary')
  <2> PICK led : led = ledger'
    OBVIOUS
  <2>1. /\ risks \subseteq risks /\ (q # Off => Stands(q, risks, led, summary))
        /\ \A e \in BlockIds(ledger) : led[e] = ledger[e]
    BY <1>8, <1>10
  <2>2. \A o \in Processes : proc'[o] # Off => Stands(proc'[o], risks, led, summary)
    BY <1>2, <2>1, OneStands
  <2> QED
    BY <1>2, <2>2
<1>12. proc'[p] = q /\ \A o \in Processes : o # p => proc'[o] = proc[o]
  BY <1>2 DEF IInv
<1>13. \A o \in Processes : proc[o] # Off /\ proc[o].pc = "risk" => proc[o].event \in BlockIds(ledger)
  BY DEF BlocksInv, Written, Awaits
<1>14. \A r \in risks : r.source \in BlockIds(ledger) /\ r.source # new
  BY <1>5, <1>9 DEF Sourced
<1>15. \A o \in Processes : proc'[o] # Off => Awaits(proc'[o], risks', ledger')
  <2> SUFFICES ASSUME NEW o \in Processes, proc'[o] # Off PROVE Awaits(proc'[o], risks, ledger')
    BY <1>2
  <2>1. CASE o = p
    BY <1>3, <1>4, <1>8, <1>12, <1>14, <2>1 DEF Awaits
  <2>2. CASE o # p
    <3>1. proc'[o] = proc[o] /\ Awaits(proc[o], risks, ledger)
      BY <1>12, <2>2 DEF BlocksInv, Written
    <3> QED
      BY <1>8, <3>1 DEF Awaits
  <2> QED
    BY <2>1, <2>2
<1>16. Apart(proc')
  <2> SUFFICES ASSUME NEW o \in Processes, NEW s \in Processes, o # s,
                      proc'[o].pc = "risk", proc'[s].pc = "risk"
               PROVE  proc'[o].event # proc'[s].event
    BY Zenon DEF Apart
  <2>1. \A u \in Processes : u # p /\ proc'[u].pc = "risk" => proc'[u].event \in BlockIds(ledger)
    BY <1>12, <1>13 DEF Off
  <2>2. CASE o # p /\ s # p
    BY <1>5, <1>12, <2>2 DEF Apart
  <2>3. CASE o = p
    BY <1>3, <1>9, <1>12, <2>1, <2>3
  <2>4. CASE s = p
    BY <1>3, <1>9, <1>12, <2>1, <2>4
  <2> QED
    BY <2>2, <2>3, <2>4
<1>17. Sourced(risks', ledger')
  <2>1. x.number = Before(n) + (given + 1)
    BY <1>1, <1>4, <1>5, <1>6, <1>7 DEF Stands, Past
  <2>2. IsRefusal(ledger'[new])
    BY <1>1, <1>4, <1>7, <1>8, <2>1 DEF IsRefusal
  <2>3. \A e \in BlockIds(ledger') : IsRefusal(ledger'[e])
    BY <1>5, <1>8, <2>2 DEF Sourced
  <2> QED
    BY <1>2, <1>5, <1>8, <2>3 DEF Sourced
<1>18. Paid(proc', ledger', risks', starts')
  <2>1. p \in Running(proc) /\ Running(proc') \subseteq Running(proc) \ {p}
    BY <1>1, <1>3, <1>12 DEF Running
  <2>2. Unmatched(ledger', risks) \subseteq Unmatched(ledger, risks) \cup {new}
    BY <1>8 DEF Unmatched
  <2>3. /\ IsFiniteSet(Running(proc) \ {p}) /\ Cardinality(Running(proc)) \in Nat
        /\ Cardinality(Running(proc) \ {p}) \in Nat
        /\ Cardinality(Running(proc) \ {p}) + 1 = Cardinality(Running(proc))
    BY <1>5, <2>1, OneFewerCounted DEF Paid
  <2>4. /\ IsFiniteSet(Running(proc')) /\ Cardinality(Running(proc')) \in Nat
        /\ Cardinality(Running(proc')) <= Cardinality(Running(proc) \ {p})
    BY <2>1, <2>3, FewerCounted
  <2>5. PICK S : S = Unmatched(ledger, risks)
    OBVIOUS
  <2>6. /\ IsFiniteSet(S \cup {new}) /\ Cardinality(S) \in Nat /\ Cardinality(S \cup {new}) \in Nat
        /\ Cardinality(S \cup {new}) <= Cardinality(S) + 1
    BY <1>5, <2>5, OneMoreCounted DEF Paid
  <2>7. /\ IsFiniteSet(Unmatched(ledger', risks)) /\ Cardinality(Unmatched(ledger', risks)) \in Nat
        /\ Cardinality(Unmatched(ledger', risks)) <= Cardinality(S \cup {new})
    BY <2>2, <2>5, <2>6, FewerCounted
  <2>8. Cardinality(Unmatched(ledger', risks)) + Cardinality(Running(proc')) <= starts /\ starts \in Nat
    BY <1>5, <2>3, <2>4, <2>5, <2>6, <2>7 DEF Paid
  <2> QED
    BY <1>2, <2>4, <2>7, <2>8 DEF Paid
<1>19. Concluded(session', risks', ledger', summary')
  <2>1. Numbers(risks, ledger) \subseteq Numbers(risks, ledger')
    BY <1>5, <1>8, NumbersStay
  <2> QED
    BY <1>2, <1>5, <2>1 DEF Concluded
<1>20. Written(proc', ledger', risks', session', summary', starts')
  BY <1>11, <1>15, <1>16, <1>17, <1>18, <1>19 DEF Written
<1> QED
  BY <1>2, <1>20, StillWritten

(* The second write: the block has its row and is counted.                 *)
LEMMA RecordRiskWrites ==
  ASSUME PaperDaemonAssumption, IInv, GatingInv, BlocksInv, NEW p \in Processes, RecordRisk(p)
  PROVE  BlocksInv'
<1> DEFINE n == proc[p].next
           given == proc[p].given
           event == proc[p].event
           row == RiskRow(proc[p])
           q == AfterRisk(proc[p])
           rs == risks \cup {row}
<1>1. /\ Entitled(proc[p]) /\ proc[p].pc = "risk" /\ proc[p] # Off /\ n \in 1..N
      /\ RiskBlockReasons(proc[p]) = Against(n)
  BY IsOnCourse DEF RecordRisk, Against, N, Follows, At, GatingInv, IntentsTyped
<1>2. proc' = [proc EXCEPT ![p] = q] /\ risks' = rs /\ risks \subseteq rs
      /\ UNCHANGED <<intents, ledger, starts, summary, session>>
  BY DEF RecordRisk, inputs
<1>3. /\ q.blocks = proc[p].blocks + 1 /\ q.pc = "gate"
      /\ given < Len(Against(n)) => q.given = given /\ q.next = n
      /\ ~(given < Len(Against(n))) => q.given = 0 /\ q.next = n + 1
  BY <1>1 DEF AfterRisk, Entitled, Fields
<1>4. row.source = event /\ row.intent = n /\ row.reason = Against(n)[given]
  BY <1>1 DEF RiskRow
<1>5. /\ Stands(proc[p], risks, ledger, summary) /\ Awaits(proc[p], risks, ledger)
      /\ Apart(proc) /\ Sourced(risks, ledger)
      /\ Concluded(session, risks, ledger, summary) /\ Paid(proc, ledger, risks, starts)
  BY <1>1 DEF BlocksInv, Written
<1>6. /\ Len(Against(n)) \in Nat /\ n \in Nat /\ Before(n) \in Nat
      /\ Before(n + 1) = Before(n) + Len(Against(n))
  <2>1. n \in 1..N /\ n \in Nat
    BY <1>1 DEF GatingInv, IntentsTyped
  <2> HIDE DEF n
  <2> QED
    BY <2>1, Numbered DEF GatingInv
<1>7. given \in 1..Len(Against(n)) /\ given - 1 \in 0..(Len(Against(n)) - 1) /\ (given - 1) + 1 = given
  BY <1>1, <1>5, <1>6 DEF Stands
<1>8. event \in BlockIds(ledger) /\ ledger[event].intent = n /\ ledger[event].reason = Against(n)[given]
      /\ ledger[event].number = proc[p].blocks + 1
  BY <1>1, <1>5 DEF Awaits
<1> HIDE DEF q, row
<1>9. Numbers(risks, ledger) \cup {proc[p].blocks + 1} \subseteq Numbers(rs, ledger)
  BY <1>4, <1>8 DEF Numbers
<1>10. q.blocks \in Nat /\ q.blocks = Before(q.next) + q.given
  <2>1. proc[p].blocks \in Nat /\ proc[p].blocks = Before(n) + (given - 1)
    BY <1>1, <1>5 DEF Stands, Past
  <2>2. given < Len(Against(n)) \/ given = Len(Against(n))
    BY <1>6, <1>7
  <2> HIDE DEF n, given
  <2> QED
    BY <1>3, <1>6, <1>7, <2>1, <2>2
<1> HIDE DEF rs
<1>11. Stands(q, rs, ledger, summary)
  <2>1. 1..q.blocks \subseteq Numbers(rs, ledger)
    <3>1. proc[p].blocks \in Nat /\ 1..proc[p].blocks \subseteq Numbers(risks, ledger)
      BY <1>5 DEF Stands
    <3>2. 1..q.blocks \subseteq 1..proc[p].blocks \cup {proc[p].blocks + 1}
      BY <1>3, <3>1
    <3> QED
      BY <1>9, <3>1, <3>2
  <2>2. q.given = 0 \/ (q.next <= N /\ q.given \in 1..(Len(Against(q.next)) - 1))
    BY <1>1, <1>3, <1>6, <1>7 DEF GatingInv, IntentsTyped
  <2> QED
    BY <1>3, <1>10, <2>1, <2>2 DEF Stands, Past
<1>12. \A o \in Processes : proc'[o] # Off => Stands(proc'[o], rs, ledger, summary)
  BY <1>2, <1>11, OneStands
<1>13. proc'[p] = q /\ \A o \in Processes : o # p => proc'[o] = proc[o]
  BY <1>2 DEF IInv
<1>14. \A o \in Processes : proc'[o] # Off => Awaits(proc'[o], rs, ledger)
  <2> SUFFICES ASSUME NEW o \in Processes, proc'[o] # Off PROVE Awaits(proc'[o], rs, ledger)
    OBVIOUS
  <2>1. CASE o = p
    BY <1>3, <1>13, <2>1 DEF Awaits
  <2>2. CASE o # p
    <3>1. proc'[o] = proc[o] /\ Awaits(proc[o], risks, ledger)
      BY <1>13, <2>2 DEF BlocksInv, Written
    <3>2. proc[o].pc = "risk" => proc[o].event # event
      BY <1>1, <1>5, <2>2 DEF Apart
    <3> QED
      BY <1>4, <3>1, <3>2 DEF Awaits, rs
  <2> QED
    BY <2>1, <2>2
<1>15. Apart(proc')
  BY <1>3, <1>5, <1>13 DEF Apart
<1>16. Sourced(rs, ledger)
  BY <1>4, <1>5, <1>8 DEF Sourced, rs
<1>17. Concluded(session, rs, ledger, summary)
  BY <1>5, <1>9 DEF Concluded
<1>18. Paid(proc', ledger, rs, starts)
  <2>1. Running(proc') \subseteq Running(proc) \cup {p}
    BY <1>13 DEF Running
  <2>2. event \in Unmatched(ledger, risks) /\ Unmatched(ledger, rs) \subseteq Unmatched(ledger, risks) \ {event}
    <3>1. event \in Unmatched(ledger, risks)
      BY <1>1, <1>5, <1>8 DEF Awaits, Unmatched
    <3>2. Unmatched(ledger, rs) \subseteq Unmatched(ledger, risks) \ {event}
      BY <1>4 DEF Unmatched, rs
    <3> QED
      BY <3>1, <3>2
  <2>3. /\ IsFiniteSet(Running(proc) \cup {p}) /\ Cardinality(Running(proc)) \in Nat
        /\ Cardinality(Running(proc) \cup {p}) \in Nat
        /\ Cardinality(Running(proc) \cup {p}) <= Cardinality(Running(proc)) + 1
    BY <1>5, OneMoreCounted DEF Paid
  <2>4. /\ IsFiniteSet(Running(proc')) /\ Cardinality(Running(proc')) \in Nat
        /\ Cardinality(Running(proc')) <= Cardinality(Running(proc) \cup {p})
    BY <2>1, <2>3, FewerCounted
  <2>5. PICK S : S = Unmatched(ledger, risks)
    OBVIOUS
  <2>6. /\ IsFiniteSet(S \ {event}) /\ Cardinality(S) \in Nat /\ Cardinality(S \ {event}) \in Nat
        /\ Cardinality(S \ {event}) + 1 = Cardinality(S)
    BY <1>5, <2>2, <2>5, OneFewerCounted DEF Paid
  <2>7. /\ IsFiniteSet(Unmatched(ledger, rs)) /\ Cardinality(Unmatched(ledger, rs)) \in Nat
        /\ Cardinality(Unmatched(ledger, rs)) <= Cardinality(S \ {event})
    BY <2>2, <2>5, <2>6, FewerCounted
  <2>8. Cardinality(Unmatched(ledger, rs)) + Cardinality(Running(proc')) <= starts /\ starts \in Nat
    BY <1>5, <2>3, <2>4, <2>5, <2>6, <2>7 DEF Paid
  <2> QED
    BY <2>4, <2>7, <2>8 DEF Paid
<1>19. Written(proc', ledger', risks', session', summary', starts')
  BY <1>2, <1>12, <1>14, <1>15, <1>16, <1>17, <1>18 DEF Written
<1> QED
  BY <1>2, <1>19, StillWritten

LEMMA StepWrites ==
  ASSUME PaperDaemonAssumption, IInv, GatingInv, BlocksInv, [Next]_vars
  PROVE  BlocksInv'
<1>1. CASE UNCHANGED vars
  <2>1. Written(proc', ledger', risks', session', summary', starts') /\ intents' = intents
    BY <1>1 DEF BlocksInv, vars
  <2> QED
    BY <2>1, StillWritten
<1>2. ASSUME NEW p \in Processes,
             \/ Start(p) \/ Crash(p) \/ AuthorityRefused(p) \/ EngineStop(p)
             \/ OpenSession(p) \/ RegisterArtifact(p) \/ EngineStart(p)
      PROVE  BlocksInv'
  BY <1>2, StartWrites, LeaveWrites, OpeningWrites
<1>3. ASSUME NEW p \in Processes, AllowIntent(p) \/ RecordBlock(p) \/ RecordRisk(p)
      PROVE  BlocksInv'
  BY <1>3, AllowIntentWrites, RecordBlockWrites, RecordRiskWrites
<1>4. ASSUME NEW p \in Processes, ExecuteArtifact(p) \/ WriteSummary(p) \/ FinishSession(p)
      PROVE  BlocksInv'
  BY <1>4, ExecuteWrites, WriteSummaryWrites, FinishSessionWrites
<1> QED
  BY <1>1, <1>2, <1>3, <1>4 DEF Next

LEMMA WritesAgree ==
  ASSUME PaperDaemonAssumption, GatingInv, BlocksInv
  PROVE  BlocksAgree
<1>1. /\ Sourced(risks, ledger) /\ Concluded(session, risks, ledger, summary)
      /\ Paid(proc, ledger, risks, starts)
  BY DEF BlocksInv, Written
<1>2. Blocks = BlockIds(ledger)
  BY DEF Blocks, BlockIds
<1>3. ASSUME session = "completed"
      PROVE  /\ {ledger[e].number : e \in Blocks} = 1..summary
             /\ {ledger[r.source].number : r \in risks} = 1..summary
  <2>1. Numbers(risks, ledger) \subseteq {ledger[e].number : e \in Blocks}
    BY <1>1, <1>2 DEF Sourced, Numbers
  <2>2. {ledger[e].number : e \in Blocks} \subseteq 1..Total
    BY <1>1, <1>2, RefusalIsNumbered DEF Sourced, GatingInv
  <2>3. 1..Total \subseteq Numbers(risks, ledger) /\ summary = Total
    BY <1>1, <1>3 DEF Concluded
  <2> QED
    BY <2>1, <2>2, <2>3 DEF Numbers
<1>5. ASSUME NEW e \in Blocks, NEW f \in Blocks, ledger[e].number = ledger[f].number
      PROVE  ledger[e].intent = ledger[f].intent /\ ledger[e].reason = ledger[f].reason
  <2>1. IsRefusal(ledger[e]) /\ IsRefusal(ledger[f])
    BY <1>1, <1>2 DEF Sourced
  <2> QED
    BY <1>5, <2>1, RefusalsDiffer DEF GatingInv
<1>4. Cardinality({e \in Blocks : \A r \in risks : r.source # e}) <= starts
  <2>1. PICK u, on : u = Cardinality(Unmatched(ledger, risks)) /\ on = Cardinality(Running(proc))
    OBVIOUS
  <2>2. u \in Nat /\ on \in Nat /\ starts \in Nat /\ u + on <= starts
    BY <1>1, <2>1, FS_CardinalityType, Zenon DEF Paid
  <2>3. u <= starts
    BY <2>2
  <2> QED
    BY <1>2, <2>1, <2>3 DEF Unmatched
<1> QED
  BY <1>1, <1>3, <1>4, <1>5 DEF BlocksAgree, Sourced

(* A completed session has the same refusals, up to the number its summary *)
(* counts, in its ledger and its risk rows; a number means one refusal,    *)
(* whichever process wrote it, also where a reason is given twice; a block       *)
(* without its row is paid for by a start of its own, whichever processes  *)
(* died between append_execution_event and _insert_risk_event.             *)
THEOREM BlocksAlwaysAgree == Spec => []BlocksAgree
<1>1. Init => IInv /\ GatingInv /\ BlocksInv
  BY PaperDaemonAssumption, InitHolds, CourseBegins, FirstWritten
<1>2. IInv /\ GatingInv /\ BlocksInv /\ [Next]_vars => IInv' /\ GatingInv' /\ BlocksInv'
  BY PaperDaemonAssumption, StepHolds, StepOnCourse, StepWrites
<1>3. GatingInv /\ BlocksInv => BlocksAgree
  BY PaperDaemonAssumption, WritesAgree
<1> QED
  BY <1>1, <1>2, <1>3, PTL DEF Spec
=============================================================================
