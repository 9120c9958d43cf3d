# Verification of ProofAlpha

ProofAlpha is an autonomous research loop for trading strategies: an agent
proposes variants, backtests and validates them, and runs the survivors on paper
against public market data. What it does is recorded in one SQLite file, the
event store, which several processes write and read at the same time: paper
sessions, the collector, reconciliation, portfolio ticks and operators.

This directory holds TLA+ models of the parts whose correctness depends on the
order of things (overlapping transactions, crashes, lost or repeated messages,
threads, loops with several reasons to stop), the TLC configurations that check
them, and TLAPS proofs of the facts the rest relies on. Paths below are relative
to `src/src/engine/` unless they start with `src/`. The model is of the code; the
documents are quoted only where a property is something they say.

* [The system](#the-system)
* [Modules](#modules)
* [Runs](#runs)
* [Bounds](#bounds)
* [Fairness and deadlock](#fairness-and-deadlock)
* [Proofs](#proofs)
* [Findings](#findings)
* [Not modelled](#not-modelled)
* [Plan](#plan)

## The system

### Components with a protocol

| component | state | operations | what makes it hard | correct means |
|---|---|---|---|---|
| execution ledger (`memory/store.py`, `io/sqlite.py`) | `execution_events` (append only, hash chained); the projections `orders_live`, `fills`, `positions`, `risk_state`; replay checkpoints | `append_execution_event`, `rebuild_execution_projections` | an append reads the chain's head and inserts in two transactions; a rebuild deletes and refills tables others read; fills are delivered twice; crashes | a committed projection is the replay of a prefix; each fill counts once; every row is chained to a row that exists |
| gateway reconciliation (`execution/reconciliation.py`) | local variables of a command; artifact stage; reconciliation journal | rebuild, overlay, three reads, compare, journal, pause | none of these share a transaction, and other runs of the command delete the same tables | "matched" is true of the ledger; a complete ledger raises no alarm; "blocked" leaves the artifact paused |
| book rebuild (`execution/paper_streams.py`) | recorded depth updates; the rebuilt book and its status | record, seed from a snapshot, apply, aggregate | updates are lost, repeated and tied in time; rows are replaced | the book is the venue's book at its own id; a gap is never silent |
| paper daemon (`execution/paper_daemon.py`, `execution/paper.py`) | session, its artifacts, risk events, telemetry, summary | gate intents, record blocks, execute, summarise | one transaction per statement, crashes, repeats and overlaps of a session with the same id | limits hold, each intent is settled once, tables agree |
| merged stream (`execution/paper_collector.py`) | a thread and a bounded queue per route, a stop event, a generator | receive, put, scan, yield, silence check, end | full queues, a suspended consumer, one of several routes ending, threads that must leave | nothing lost or starved; an ended route surfaces; no thread outlives the stream |
| research loop (`agent/controller.py`, `agent/scratchpad.py`, `agent/karpathy_target.py`) | scratchpad, current payload, queue, working file, decisions | validate, record, refine, keep or discard, stop, handle a crash | eight reasons to stop, a queue beside a next payload, any call may raise at any point, a file another run loads | limits are real, the incumbent is the best result, nothing is forgotten, the loop ends |
| portfolio tick (`portfolio/paper_loop.py`, `allocator.py`, `delta_order_plan.py`) | plans, the session's link, decisions, order intents | read exposure, telemetry and artifacts; allocate; persist, link, journal | six transactions, with overrides and fills between them; greedy limits and a second pass over roles | every plan respects all limits together; paused artifacts stay out; no link dangles |
| karpathy git replay (`agent/karpathy_git.py`, the artifact writes of `agent/controller.py`) | record files, reports, HEAD, index, branch | write the records, plan, checkout, commit a keep, restore a discard, write reports | the decisions are replayed after the loop, when only the last files are left; any command may fail; remains of a run with the same id | the commits are the first keeps in order; an executed plan ends at the incumbent |
| live collector (`execution/paper_collector.py`) | session row, recorded rows, counters, marker, summary | start, connect, record, reconnect, finish, summarise | rows are committed only with a heartbeat; reconnects, silences, timeouts and crashes in any order; a restart under the same id | a session that reads as finished has its rows; the summary counts what was recorded; a crash loses one heartbeat interval; the session settles |
| backtest bar loops (`backtest/simulator.py`, `simulator_numba.py`) | size, entry price, cooldown, step, counters | mark, liquidate a part, enter, exit, close the series | three hand-kept copies; partial fills, partial liquidations and latencies share one size and price | the copies agree; profit is the money the fills moved; fills are in order |
| artifact governance (`governance/lifecycle.py`, `portfolio/allocator.py` overrides) | stages, deployments, journals | decide, apply, override | a decision is made on one snapshot and applied to another; the kill switch event comes after the commit | planned |
| candidate queue (`app/operator_loop.py`) | a JSON file | record | read, change, write without a lock | planned |
| order lifecycle (`execution/order_state.py`, `order_manager.py`, `idempotency.py`, `cancel_replace_manager.py`) | order states, client order ids | transition, submit, cancel/replace | long sequences of legal calls; only tests use it so far | planned |

### How they interact

The daemon, reconciliation and the operators append to the **execution ledger**;
its rebuild is what **reconciliation** starts from. The **collector** reads the
**merged stream**, and what it records is what the **book rebuild** replays. The
**daemon** runs sessions whose fills land in `order_telemetry`, from which the
**portfolio tick** takes its exposure. Reconciliation, lifecycle decisions and
overrides change `artifacts.rollout_stage`, which the tick obeys. The **research
loop** runs the **bar loops** on each candidate, produces the artifacts all of
this is about, and hands its decisions to the **git replay** when it has stopped;
the two are composed in one model. Between processes there are no calls: they
share the database and nothing else, so the models compose through the tables
each of them reads and writes.

### Components without one

The rest of the tree maps inputs to outputs: validation statistics, forecasting,
features, reporting, configuration, universe and strategy catalogues. `PROJECT.json` lists each with the reason it is left out.

## Modules

| module | what it is | composes |
|---|---|---|
| `LedgerReplay` | the replay of one ledger row on the projection tables, as operators (`store.py` 1108-1349) | |
| `ProjectedLedger` | what the ledger promises: a growing list, and tables that jump from one replay to a newer one | `LedgerReplay` |
| `ExecutionLedger` | appends and rebuilds, statement by statement | `LedgerReplay`; implements `ProjectedLedger` |
| `Reconciliation` | the reconciliation command among others | `LedgerReplay` |
| `LedgerProofs` | the ledger: type correctness, exactly-once fills, rooted chain, balanced books, irrelevance of the delivery order, the refinement of `ProjectedLedger`; reconciliation: a true verdict, no false alarm, the pause | `ExecutionLedger`, `Reconciliation` |
| `BookSync`, `BookSyncProofs` | recording and rebuilding of a book, and the proofs that it is the venue's and that no gap is silent | |
| `PaperDaemon`, `PaperDaemonProofs` | the dry run of a session, and the proofs about authority, limits, and what is written of each intent | |
| `MergedStream`, `MergedStreamProofs` | worker threads, queues and the consumer, and the proof that they lose nothing | |
| `Collector`, `CollectorProofs` | `run_paper_ws_collector_live`, over a source that may fail in each way the code handles, and proofs about what is committed and counted | |
| `ResearchLoop` | `AgentLoopController.run` | |
| `KarpathyGit` | the record files and the git replay of the loop's decisions | `ResearchLoop` |
| `ResearchLoopProofs` | proofs about the loop, its git replay included | `KarpathyGit` |
| `BarSimulation`, `BarSimulationProofs` | the three bar loops side by side on the same candles, and proofs about their fills and profit and that they agree | |
| `PaperPortfolio`, `PaperPortfolioProofs` | the portfolio tick with the allocator and the delta plan, and proofs about its plans | |
| `MC*` | values of the constants for TLC | the module they are named after |

Definitions keep the names of the code where there is one. `PROJECT.json` maps
each to its lines. A definition whose comment starts with "Mutant" is no part of
a model: it is the form a definition would have after a plausible mistake, and
shows that a property notices.

**ExecutionLedger.** `log` is `execution_events` in `event_id` order. `ReadHead`
is the SELECT of the newest digest, in its own transaction; `InsertEvent` the
INSERT, with the digest read before. Two writers may thus chain to the same row,
which is what happens. A digest is modelled by the history of payloads it was
computed from, which is what a collision-free hash tells apart. `BeginRebuild`
(the DELETEs, which take the write lock), `ReplayRow` and `CommitRebuild` are a
rebuild; `RebuildFails` its rollback at any point. `work` holds the tables of the
open transaction and `proj` those readers see.

**Reconciliation.** Each action up to `Finish` is one transaction of
`reconcile_projection_with_gateway`: the gateway's snapshot, the base rebuild, the
overlay of snapshot events, the loads of orders, fills and positions, the
comparison, and what follows from the verdict; `Crash` may come between any two.
The venue (`VenueAccepts`, `VenueExecutes`) is external, and so is the choice
whether it lists a symbol without a position. `ReportOrder`, `ReportFill` and
`ReportAccount` are the events appended about it; the last one comes from outside,
since the executor of `src/` writes its account events without a list of positions
(`execution/no_key_executor.py`:115-139) and a test writes one with it
(`src/tests/app/test_phase3_reconciliation.py`:83). A fill has a price, and a
positions row the entry price the replay gives it, kept as net cost and net quantity
(`Entry`, `EntryAfter` in `LedgerReplay`); a snapshot event overwrites both
(`Overlay`), and the comparison looks at both (`Drifted`). What the gateway's file
says beyond orders, fills and listed symbols (`Stated`: whether it is stale, repeats a
fill, and which entry prices it gives) is read at the comparison and nowhere else, and
so chosen there. `Compare` forgets the rows it has read once it blocks, since nothing
reads them again, and notes in the history field `sound` whether the file was
`FileIsSound`. `OtherBase` and `OtherOverlay` are the two halves of another process's
rebuild, at any moment from this run's second rebuild (which hides all before it) to
its last read. The specification
is `ReconcileSpec` (with `ReconcileInit` and `ReconcileNext`) and its rows are
`ledger`, so that `LedgerProofs` can speak of both modules.

**BookSync.** The venue changes one level at a time and publishes updates that
name the last id before them (`pu`); both are external. `Receive` records an
update under its payload hash, so a second delivery replaces the row and moves
its receive time. `BeginRebuild` selects the rows in some order the ORDER BY
allows; `ApplyNext` is one call of `apply_depth_payload`; `FinishRebuild` records
the aggregate status. `ReplayGaps` is the gap count of the other reader,
`replay_paper_stream_events`.

**PaperDaemon.** A process is at one database call of `run_paper_daemon_dry_run`;
`RecordBlock` and `RecordRisk` are the RISK_BLOCK event and its `risk_events` row,
which are two transactions. A fixture's snapshot of a symbol (`Market`) is there or
not, and if it is, each of the three tests on it has its own outcome: spread, visible
depth, and depth against the quantity. The last two give the same reason, so one intent
may be refused for `depth_too_thin` twice (`MarketReasons`), and a block carries the
number its process gave it, as `parent_intent_id` does. The tables are keyed as in the code: what a repeated
or overlapping run of the same session writes lands on the same telemetry ids, and
on new event ids.

**MergedStream.** `Receive`, `Offer` and `Put` are a worker between its blocking
points; a put that times out tries again with the same item unless the stop event
is set. The consumer scans the routes in order, takes a batch, is suspended at
each yield (`Yield` to `Resume`, or `Abandon` when the caller leaves), and checks
the routes' silence after each round (`CheckSilence`). `Tick` is the clock.

**ResearchLoop.** `Top` is the head of an iteration: stop rules, the working file,
the choice of the payload. `ValidateReturns` records the result; `ValidateCrashes`,
`RefineCrashes` and a failing write of the working file go through `Handle`, the
except block. `Refine` is everything from the planner's answer to the next
payload, in both modes. Payloads are named by the iteration that proposed them,
results carry what the loop reads: runs, score, baseline, failure labels.

**Collector.** `c` holds `_CollectorState` and the local variables of the loop;
`live` is the table as the process sees it and `rows` its committed part, since
inserts and heartbeats share one connection. `Receive` is one item of the source
with all that follows it: counters, insert, heartbeat (`Touch`, the only
commit while messages flow) and limits. `SourceEnds`, `RecvTimesOut`, `OpenTimesOut`, `SourceRaises` and
`InsertFails` are the ways a connection ends, with the except block each of them
reaches; `WriteMarker`, `FinishSession` and `Summarise` are the three
transactions of the end. `Crash` may come anywhere and `Start` reuses the session
id. `Miss` is a message the venue sends while nobody listens.

**KarpathyGit** extends `ResearchLoop`: its step is the loop's until the loop has
stopped. `WriteRecords` writes the record files and plans one step per decision,
`CheckoutBranch`, `CommitCandidate` and `ResetToIncumbent` execute the plan, and
`CommitFails` and `ResetFails` are `run_git_command` raising, after which nothing
runs. The record files are always written, added and restored together, so one
version stands for them; git is its HEAD and its index. `Remains` is what an
earlier run with the same id left, possible only for a loop that found that
run's working file.

**BarSimulation.** `SimulateBar` is one turn of the loop over the candles in all
three copies: `single` (`simulate_strategy`), `reference` (`_simulate_single_python`)
and `kernel` (`_simulate_core`), each with its own ratio, entry and exit operators
where the copies differ; what they share is written once. `CloseSeries` is the
code after the loop. Money is counted in integers fine enough for the fees;
`cash` and `fills` are auxiliary.

**PaperPortfolio.** `ReadExposure`, `ReadTelemetry` and `LoadCandidates` are the
three reads; `Consider` is one turn of the allocator's loop with all its
refusals in order; `ApplyRoles` the pass over roles; `Persist`, `LinkSession` and
`Journal` the three writes, the last of which also returns the order intents.
`Override` is what an operator, reconciliation or a lifecycle decision does to a
stage, `Measure` a change of the paper samples, `Execute` the (external) execution
of the intents of a symbol. Notionals are small integers per symbol, since every
limit compares sums and products of them; the rounding of the code
to eight places has no counterpart. Artifacts are numbered in `artifact_id` order,
the order of all the lists of a tick, so that sets stand for the lists.

## Runs

| run | asks |
|---|---|
| `ledger` | Do overlapping appends, duplicate deliveries, rebuilds and crashes leave readers with an exact replay? `FillsExactlyOnce`, `BooksBalance` (positions are the sums of the fills), `ChainRooted`, `DeliveryOrderIrrelevant`, and that the ledger implements `ProjectedLedger`. |
| `reconcile` | Is a matched verdict true, does a complete ledger match, and does a blocked verdict pause, while tables change between the reads? `MatchedIsTrue`, `CompleteLedgerMatches`, `BlockedIsPaused`. |
| `reconcile_drift` | Is every position mismatch detected? No: see Findings. |
| `book_sync` | Is the rebuilt book the venue's book? `BookIsVenueBook`, `ResyncIffGap` (a resync is asked for exactly if an update is missing where it matters), `ReadersAgree` (the replay's gap count and the builder). |
| `paper_daemon` | `LimitsHold` per artifact, `EveryIntentSettled`, `BlocksAgree` (refusals in the ledger, in `risk_events` and in the summary), `AuthorityRespected`, over crashes, repeats and overlaps. |
| `merged_stream` | `NothingLost`, and the liveness properties `NoRouteStarves`, `RouteEndSurfaces`, `WorkersLeave`. |
| `collector` | `FinishedIsDurable`, `SummaryCountsRows`, `LossBounded` and the liveness property `Settles`, over failures, silences, crashes and a restart. |
| `research_loop` | The loop and its git replay. `StopsAreReal` (recomputed from the results, not from the counters), `EachIterationOnce`, `IncumbentIsBest`, `LineageFollowsKept`, `NoPayloadLost`, `ReplayFollowsLoop`, `Terminates`. |
| `research_loop_zero` | `IncumbentIsBest` when a score is exactly zero. No: see Findings. |
| `paper_portfolio` | `PlanWithinLimits`, `EveryCandidateAnswered`, `PausedStaysOut`, `LinkedPlanPersisted`. |
| `paper_portfolio_reduce` | `ReduceOnlyReduces`: do reduce-only intents only reduce? No: see Findings. |
| `backtest` | `EnginesAgree` (number for number, at every bar), `PnlIsCash`, `FillsInOrder`, over latencies, partial fills, liquidation steps and tiers. |

`ledger`, `book_sync` and `paper_portfolio` also check their module's `TypeOK`,
on which the proofs rest.

What the properties assume, where it is less than obvious:

* `DeliveryOrderIrrelevant` takes the reports of one `fill_id` to agree on order,
  symbol, side and quantity (`OneFillPerId`): the id names one execution at the
  venue. Of two that disagree the first delivered would count.
* `MatchedIsTrue` compares the gateway's snapshot with some state the ledger had
  between that snapshot and the verdict, not with the venue as it is by then.
  `CompleteLedgerMatches` asks for no append in between, no account snapshot event
  that a fill has outdated, and a gateway file that is sound in itself
  (`FileIsSound`): fresh, without a repeated fill, and with entry prices that are the
  net cost of its fills by their net quantity, as the replay computes them. The last
  is a real restriction, see the observations under Findings.
* `BlocksAgree` tells refusals apart by their number, because the code may refuse one
  intent for one reason twice.
* `PlanWithinLimits` takes the symbol scope of an artifact for a set (see the
  observations).
* `LimitsHold` is per artifact, which is what the code enforces; a session with
  several artifacts may hold a multiple of the aggregate limit.
* `BlockedIsPaused` is about runs that finish and artifacts no operator resumed
  since (`Resume`). A run that dies after the
  comparison leaves an artifact unpaused; the next run decides again.
* `NoPayloadLost` is about bounded loops. In a karpathy loop the working file
  overwrites the payload at the head of the next iteration, so one taken from the
  queue after a crash is lost.
* `SummaryCountsRows` allows for one thing the code does: a message whose insert
  failed is counted as recorded, and the gap it leaves is not counted.
* `ReplayFollowsLoop` says where HEAD ends for every executed plan, but what index
  and files hold only for plans that begin with a keep (see the observations
  under Findings).
* `FillsInOrder` leaves out what the code allows: with a latency of two bars or
  more, the rest of a partial exit may be liquidated before that exit is filled.
* `EnginesAgree` is stated for a cooldown of zero, which is all a sweep passes,
  and includes the single simulation only where fills are immediate and whole, no
  full-liquidation profile is set, and the tiers are not turned off
  (`TiersTurnedOff`): the code differs in the other cases. The last one is an
  explicit liquidation ratio of 1.0, or an explicit but empty schedule, beside margin
  tiers: the single simulation then ignores what the tiers say of liquidation
  (`simulator.py:323`), while a sweep passes neither and follows them
  (`simulator_numba.py:421`). `empty` tells an empty schedule from none, and stands in
  the single simulation's settings only. The proof of the theorem came upon it, and a setting
  of the run holds it since.
* `IncumbentAlwaysBest` and `BranchTellsDecisions` assume that no score is exactly
  zero, `StopsAlwaysReal` that the limit on equal baselines is not (see Proofs).
* `PausedStaysOut` is about artifacts paused when the tick read the first table
  and until it ended. One that is paused after its row was read may still be
  allocated, in the code as in the model.

## Bounds

| run | bound | why it is enough |
|---|---|---|
| `ledger` | two writers, six events over two orders and two symbols, three rows | two writers make every overlap of the two halves of an append; three rows hold a duplicated fill with another one before, between or after |
| `reconcile` | one order filled in two parts at prices 1 and 3, a stated price of 2 or none, three rows, one run among any number of others' rebuilds | a verdict depends on one rebuild and three reads; the others' halves fall between any two of them; the stated price is the average of both fills and of neither alone, so it agrees with a complete ledger and with no other |
| `reconcile_drift` | a buy, a snapshot event and a sell; no prices stated | the shortest history with a stale snapshot |
| `book_sync` | two levels, three changes, three deliveries, three receive times | an update before, across and after the snapshot, one lost or repeated, ties |
| `paper_daemon` | two processes, two starts, two artifacts, fixtures of any two, or of three different ones, of four intents | both limits can bind, in either order, with a refused intent repeated, on a second start in parallel or after a crash; the adverse intent is refused for its spread and twice for its depth |
| `merged_stream` | two routes, queues of two, batch of one, messages numbered modulo two | a queue is full with a third message in the worker's hand; modulo two tells a lost, repeated or swapped message from the next one |
| `collector` | two streams, three messages each, two attempts, two runs of one and three items, three seconds | a crash before or after a heartbeat with a row of each stream, a gap across a reconnect, both attempts used up, a limit, a silence and a failure in either order |
| `research_loop` | four bounded iterations or three karpathy ones, budget four, stagnation two, plateau one | a plateau needs three results, a refinement after it a fourth; a keep between two discards needs three; the budget runs out before, with and after the last iteration; the replay adds one step per decision |
| `paper_portfolio` | three artifacts in four sessions, two symbols, three ticks, two changes | each refusal reason that depends on others needs one or two allocations before it; after two executions the third tick starts from a changed book |
| `backtest` | five candles of two prices with two reaches, twelve settings | an entry, two partial reductions and a close; a latency of two fills after the next signal, and leaves a bar between a partial exit and its fill; a halved price liquidates, a doubled one does not; two settings have tiers beside a ratio of one and beside an empty schedule, where only the kernel and the reference need agree |

`MaxEvents`, `MaxReports`, `MaxChanges`, `MaxDeliveries`, `MaxStarts`, `MaxRuns`,
`MaxTicks`, `MaxNumber`, `MaxItems`, `MaxTime` and `StartBefore` (the last second in which the
collector may start or fail, so that there is time left for its timeouts)
are guards of actions; they bound what is explored and are no part of the code.
`Numbers` makes the message numbers of `MergedStream` finite, and its queue bound
is the code's own. `ResearchLoop` needs no bound: its limits are the program's.
`Bars` is the length of the series.
The levels of `BookSync` and the processes of `PaperDaemon` are symmetric in
their modules, and no liveness is checked in those runs.

## Fairness and deadlock

Four modules state fairness; `KarpathyGit` takes over the loop's.

`MergedStream`: weak fairness of each worker (threads run, and `recv` returns
because it is called with a timeout: the smaller of `no_message_timeout_seconds` and
`max_duration_seconds`; where neither is set there is none, and that `recv` returns is
an assumption, on which `WorkersLeave` then rests), of the consumer between two yields, and of
"the caller asks again or leaves". The third is the collector's loop, which does
nothing between two messages that could block for ever. Nothing makes a route
produce messages, and the clock is not fair.

`ResearchLoop`: weak fairness of the loop's step. Each component it calls
returns or raises; the backtest has no unbounded loop and the planner is
a function of the record. `GitSpec` adds that a git command returns (or fails).

`Collector`: weak fairness of the process's own steps (`Connect`, `WriteMarker`,
`FinishSession`, `Summarise`), of the clock, and of `recv` returning when its
timeout is over. Nothing makes the source send, end or fail, nothing makes the
process die or start again.

The other runs check safety only. Where a `.cfg` says `CHECK_DEADLOCK FALSE`, the
modelled command ends and the bounds on starts or ticks are used up
(`Collector`, `PaperDaemon`, `PaperPortfolio`, `Reconciliation`), or the series
has been simulated (`BarSimulation`). Elsewhere TLC checks for
deadlock, and an end is an explicit stuttering action.

## Proofs

Every safety invariant the passing runs check has a theorem, and so has the
refinement of `ProjectedLedger`. A theorem holds for every value of the constants
that satisfies the modules' named assumptions, which TLC evaluates in every run.
Where a theorem needs more, its statement says so; that is the case for seven of
them, and named below.

`LedgerProofs`, about `Spec` of `ExecutionLedger`, for any number of writers, rows,
orders and fills:

* `TypeCorrect`: `Spec => []TypeOK`.
* `ExactlyOnce`: `Spec => []FillsExactlyOnce`. The property says what the
  committed `fills` table holds; by itself it is not inductive, because a commit
  takes over the tables of the open transaction. The invariant adds that both the
  tables in work and the committed ones account for their
  prefix of the ledger (`Accounted`: the rows are exactly the first reports up to
  that row, and every fill key seen up to there has a row, so that the next row's
  duplicate check against the table is a check against the history). An append
  leaves the prefixes alone (`AccountsStable`), a replayed row extends one by one
  row (`AccountedStep`).
* `ChainAlwaysRooted`: `Spec => []ChainRooted`, with the invariant that what a
  writer has read is the digest of a row that is still there.
* `LedgerRefinesPromise`: `Spec => ImplementsProjectedLedger`. An insert maps to the
  abstract append and a commit to the abstract jump; every other step stutters. What
  makes a commit a jump is `ReplayedSoFar`: the tables in work are the replay of the
  rows before the cursor.
* `BooksAlwaysBalance`: `Spec => []BooksBalance`. The sums of the `fills` rows are
  folds; that a row more adds its quantity once is shown by induction over the size of
  the table.
* `DeliveryOrderNeverMatters`: `OneFillPerId` implies `Spec => []DeliveryOrderIrrelevant`.
  Two replays of the same rows in different orders cannot be compared row by row: a
  fill without a `fill_id` is even stored under another key. Each is compared with the
  set of fills delivered so far instead (`Carries`, kept by every row: `CarriesStep`),
  and which rows came is the same for all orders once all have (`AllArrive`). That two
  tables with the same fills have the same sums is `SameFillAnyOrder`. The property is
  one of every list of events, so nothing about the steps is needed beyond `TypeOK`.

`LedgerProofs`, about `ReconcileSpec` of `Reconciliation`, for any venue, any executor
and any number of other runs of the command. `ReportsHaveStatuses` says that the events
an executor appends have one of the order statuses the replay knows:

* `BlockedAlwaysPauses`, with `PausedSinceJournal`: from the journal's commit to
  the end of the command the artifact is paused or was resumed.
* `MatchedAlwaysTrue` and `CompleteAlwaysMatches`. The command rebuilds the tables and
  then reads three of them in three transactions, between which others may delete
  and refill them. `ReadsHold` says from where each stems: orders and fills each from one
  replay of a prefix that is at least as long as the ledger was when the command began,
  positions from such a replay with or without the overlay of snapshot events. It does
  not say that the prefixes are the same, which they need not be. `ReplayTells`
  says what any such replay tells of the venue's fills; with it an empty list of
  blockers is true of the prefix the orders stem from (`NothingFoundIsTrue`), and where the
  ledger was complete at the start each of the reads, wherever it stems from, gives no
  blocker (`CompleteFindsNothing`). For the prices it takes that the replay's net cost is
  the sum over the venue's fills (`NetCostIsSum`, a fold as for the quantities) and that
  the overlay puts no other price in a row than that of the last snapshot event of its
  symbol (`EntryOverlaid`), of both of which `PricesFollow` speaks. `VerdictHolds` keeps what `Compare` established until
  the command ends, over whatever is appended since (`VerdictGrows`).

`BookSyncProofs`, for any set of levels, any history and any loss, repetition or tie:

* `BookAlwaysVenueBook`: the rebuilt book is the venue's book at
  `last_depth_update_id`. Its invariant says that the venue's history is coherent (a
  level no change touches keeps its quantity: `Coherent`), that each recorded or selected
  update sums up exactly the changes it names (`SoundUpdate`), that the snapshot is
  the book at its id, and that before the first applied update the book is still
  the snapshot. `UpdateAdvancesBook` is the core: a sound update whose range starts
  at or before the next id takes the book to its final id.
* `ResyncTellsTruth`: a finished rebuild that asks for no resync has missed nothing up to
  the book's id, and over a complete recording it asks for none. `NoGapSoFar` says what a
  rebuild that has not asked yet has seen of the rows up to its cursor; what their order
  says of the venue's needs the order in which the venue published (`Timeline`,
  `QueueInOrder`).
* `ReadersAlwaysAgree`: a replay that counts no gap over rows of which one contains the
  snapshot means a book without resync, and over such a book every gap counted touches
  a row older than the snapshot.
* `TypeCorrect`: `Spec => []TypeOK`.

The first three assume `SendsPrevious`: the venue's updates carry `pu`, true of USD-M
futures, the only streams the collector subscribes to.

`PaperDaemonProofs`, for any fixture, limits, number of processes and starts, and for
processes that die or overlap at any point:

* `AuthorityAlwaysRespected`: every process that is past an artifact found it entitled
  (`Entitled`), one that has written its summary is past them all, and so no other
  process's rows or end of session need be looked at.
* `LimitsAlwaysHold` and `IntentsAlwaysSettled`. Neither can be seen from one process:
  the rows of several runs replace each other. `Course` is the gating loop as a function
  of the number of intents decided, and `GatingInv` says that every process stands
  somewhere on it, that blocks are its refusals, and that an artifact's rows are
  all of its orders or none. That `Course` keeps the limits and allows no key twice
  (`CourseIsSound`) is an induction over the fixture.
* `BlocksAlwaysAgree`: the course also numbers the refusals, reason by reason
  (`Before` an intent, `Total` at the end), so that a number means the same refusal
  whichever process wrote it (`IsRefusal`). `BlocksInv` says that a process has
  recorded, and given their rows to, the numbers up to its own count (`Stands`), ties
  each block between its two writes to one process (`Awaits`, `Apart`), and keeps an
  account in which each start pays for at most one block without a risk row (`Paid`).

`MergedStreamProofs`: `StreamsLoseNothing`, for any number
of routes, queue size, batch and modulus. The invariant (`InLine`) numbers queue, item in
hand and next message from the last one yielded; `Congruent` and `AddToRemainder` are
the arithmetic of remainders it needs.

`CollectorProofs`, for any streams, limits, timeouts and restarts:

* `FinishedSessionsAreDurable`: until the marker is
  written the session's row says "running", and from its commit on nothing waits on the
  connection (`Durable`, `Waiting`); the marker takes no message's place.
* `CrashLosesOneInterval`: no row that waits for a commit is older
  than the last touch, and a touch is due once the last message is `TouchEvery` after it.
* `SummariesCountRows`: in `Tally`, count, duplicates and gaps of a running session are
  those of the rows on its connection, the highest number of a stream is its last one
  (`LastHeardOf`), and the set of hashes is that of the rows.

`ResearchLoopProofs`, about `GitSpec`, for any limits, outcomes and refinements.
No step of the replay touches the loop (`GitStepIsLoopStep`), so that the loop's
invariants hold through the replay:

* `IterationsOnce`: `DecidedOnce` orders
  decisions by iteration and keeps them below the iteration that may still get one.
* `DiscardsReturnToKept`: `KeptIsLatest` says that
  `karpathy_kept_next_payload` is the proposal of the last candidate kept that made
  one; without it a discard could return to an older one. `LineageWitnessed` names the
  decision a discard returned to instead of taking a maximum.
* `PayloadsSurvive`: what an iteration works on has been tried, and a
  queue holds only payloads (`NothingForgotten`): a refinement may therefore drop
  `current` and take the head of the queue, but no more (`RefinementKeepsPayloads`).
* `StopsAlwaysReal`: the counters of the scratchpad are what their definitions over the
  results say (`PadSays`: budget, best score, rounds since, equal baselines, failures by
  label), for one result after the other. It assumes that
  `max_duplicate_baseline_plateau_rounds` is not zero: no caller sets it to zero,
  and with it the loop would stop before its first result, for a plateau no result has.
* `IncumbentAlwaysBest` and `BranchTellsDecisions`: each decision named the best result
  up to its iteration (`SoundDecision`; `BestScored` is a fold), and from there the
  commits are the keeps in order and HEAD the incumbent
  (`GitInv`). Both assume that no outcome scores exactly zero (`NeverZero`); the run
  `research_loop_zero` shows the first failing without it.

`PaperPortfolioProofs`, for any number of artifacts, symbols and ticks:

* `TypeCorrect`: `Spec => []TypeOK`.
* `LimitsRespected`: `Spec => []PlanWithinLimits`. The totals the allocator carries along
  are sums over what it has granted (`Booked`), and each grant left them within the
  limits (`WithinLimits`). The pass over roles grants less afterwards, so that the sums
  have to be shown monotone.
* `ArtifactsAnswered`: the
  allocator's loop has answered the artifacts before `next` once each
  (`AnsweredTo`), and the pass over roles only takes back what was allocated
  (`RefusedWereAllocated`).
* `PausedNeverAllocated`: an override may fall between the
  read of the stages and the decision, so the invariant (`BarredOut`) follows the
  artifacts that may not trade from the stage table into the tick's copy of it.
* `NothingDangles`: the
  running tick's plan is in `portfolio_plans` once it turns to the link.

`BarSimulationProofs`, for any candles, book, latency and setting, and each of
the three loops:

* `ProfitIsCash` and `FillsFollow`. The invariant `Sound` adds to both
  properties when a fill may be: none is later than the bar before could order
  (`FilledByNow`), and while a position is open nothing that opened it comes after
  the bar it is held from (`OpenedInOrder`), and nothing at all does if exits are
  whole or wait for one bar at most. It also holds the size between zero and a
  full position, without which a liquidation could move more lots than there are
  (`RatiosAreShares`, `ShareOfLots`). `ReductionIsSound` is the part that liquidations,
  exits and the close share.
* `EnginesAlwaysAgree`: `InStep` says that kernel and reference have the same account
  in every field without a cooldown, and that the single simulation's is `Alike` where
  the settings are `Comparable`; there no order is pending and no cooldown runs at the
  next bar (`Free`), which is what lets the copies differ in how they wait.

Inductions are by least counterexample: if a statement about naturals fails, the set
of those where it fails has a least element (`WFMin` with `NatLessThanWellFounded`),
and the step from its predecessor contradicts that. The library's induction theorems
take the statement as an operator, which the provers cannot instantiate. For the same
reason sums and folds that a theorem speaks of are recursive functions in the models
(`Replay`, `Notional`, `Sum`, `BestScored`, `RunsOf`).

Model-checked only: the liveness properties (`NoRouteStarves`, `RouteEndSurfaces`,
`WorkersLeave`, `Settles`, `Terminates`), which need ENABLED and fairness.

## Findings

Each is a run that TLC must find violated.

1. `reconcile_drift`. A position row comes from the last account snapshot event
   even if fills came after it, and the comparison only looks at symbols the
   gateway lists: a position that was closed after the snapshot event stays on
   the books, and the verdict is "matched". The runbook
   (`src/docs/runbooks/halt_and_repair.md`:11) makes a position mismatch a trigger.
2. `research_loop_zero`. `best_result.objective_score or float("-inf")` reads a
   best score of 0.0 as minus infinity: the next scored candidate becomes the
   incumbent however bad it is.
3. `paper_portfolio_reduce`. The tick's exposure is a sum of absolute values over
   buys and sells, and the delta plan takes it for the position: after a position
   was closed, the next tick sells it again, marked reduce-only.

What the models do, as the code does, without a run of its own:

* The replay's entry price is net cost by net quantity (`store.py:1213`, `:1257`).
  After a buy of 2 at 100 and a sell of 1 at 120 it is 80, where a venue that keeps the
  price of what is held says 100: the comparison (`reconciliation.py:562`) finds
  `symbol_exposure_drift` over a ledger that lacks nothing, and halts the artifact.
  `CompleteLedgerMatches` holds only where the gateway's prices are the replay's.
* A session may record two blocks for one intent and one reason, and count both:
  `_risk_block_reasons` gives `depth_too_thin` once for the visible depth and once for
  the quantity (`paper_daemon.py:311-314`).
* `symbol_scope` may name a symbol twice (`paper_loop.py:317`). The allocator then
  tests the symbol's limit once per mention against the exposure before the candidate,
  and books it per mention (`allocator.py:160-201`): the limit can be exceeded. The
  model's scopes are sets.
* The silence of a route (`paper_collector.py:745`) is measured from the last
  message *taken* from its queue, and grows while the consumer is suspended or
  busy elsewhere. A route with messages waiting can be reported as having
  "produced no messages", which ends the session as stale.
* A collector's message whose insert raises is counted as recorded, and the gap it
  leaves is not reported. A `TimeoutError` of the handshake is taken for a silent
  source and ends the session without another attempt; attempts are never
  replenished.
* A replay whose first decision is a discard fails at `git restore` on a
  repository that never held the files (`karpathy_git.py`): `run()` raises and the
  report is not written. Where HEAD holds the files of an earlier run with the
  same id it overwrites this run's records with them, and where they were only
  staged it deletes them.
* The reports of a finished run are excluded in `.git/info/exclude` and yet among
  the managed paths, so every add and restore of a second run with the same id
  fails.
* Every commit of a replay holds the files as they are at the end of the loop, and
  an incumbent whose refinement crashed has no decision and so no commit.
* The equity at a bar with a partial exit leaves out the unrealized profit of the
  rest (`simulator.py:540`); with a latency, an entry is marked with a price of a
  later bar; a liquidation is filled at the liquidation price whether or not it
  was traded; a sweep charges slippage twice where a fill is adverse; and the
  kernel ignores the ratios of a margin tier when a cooldown is set
  (`simulator_numba.py:986`), which the reference does not.

## Not modelled

Arithmetic of fees, funding and returns outside the bar loops, and validation
statistics; JSON,
hashing and timestamps beyond equality and order; dashboards, reports, the CLI,
the MCP server and the UI; the schema migrations. In the modelled components:
account figures, funding and their comparison (reconciliation), `bookTicker`, trade and
mark price payloads (book rebuild), fill prices and metric rows (daemon), the
lock an uncommitted insert holds, heartbeat rows between messages, malformed items
and uptime (collector), the phase5 variants written after the loop and the python
form of the working file (research loop), another branch checked out between two
runs of one id, to which `checkout -B` then resets the branch (git replay), how the
slippage, cascade and venue models arrive at their rates and the loop over the
sets of a sweep (bar loops), the correlation-break overlay and the rows of the override journal
(portfolio). The models are of one database: a failure of SQLite itself, beyond a
transaction that is rolled back, is not considered.

## Plan

Done, in this order: the ledger with its abstract specification and proofs,
reconciliation, the book rebuild with its proof, the daemon, the merged stream,
the research loop, the portfolio tick with its proofs, the git replay (composed
with the loop), the live collector, the bar loops with their proofs, the proofs
about the loop, the collector, the merged stream and the daemon, and then what needs
sums, folds or a history: limits, balances, counters, incumbents, the agreement of
the bar loops, the refinement of the ledger, the irrelevance of the delivery order,
and the verdicts of reconciliation.

Next, most important first:

1. `ArtifactGovernance`: lifecycle decisions and overrides on one artifact, with
   crashes between commit and KILL_SWITCH_TRIGGER, decisions on stale snapshots,
   and resume from `retired`; composed with `PaperPortfolio` (its `Override`
   becomes these actions) and with reconciliation's pause, in the runs those
   have.
2. `OrderLifecycle`: the transition table, client order ids and cancel/replace,
   as an abstract specification of what the ledger's order rows may do. Proofs:
   terminal states stay, ids are never reused.
3. `CandidateQueue`: two runs on one queue file; the guarded loop around it; the
   forecast and phase5 caches.

A new component joins the run of the component it interacts with where there is
one, so that each run still answers one question; shallower properties give way
to deeper ones.
