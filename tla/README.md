# TLA+ models of AQuantAI

AQuantAI imports market snapshots into a database, reads them back as of two points
in time, lets a page trigger a guarded refresh of what it shows, and keeps an
append-only body of industry research: evidence, maps, theses, company files and
candidates, recorded by several processes and read at boundaries in the past. This
directory holds TLA+ modules of the parts whose correctness depends on the order in
which several actors act, the TLC configurations that check them on small
instances, and theorems about them proved with TLAPS. `PROJECT.json` has the
status of every part, the map from definitions to source lines, the hazards, the
runs, the mutants and the theorems.

## Contents

| File | What it is |
|---|---|
| `ImportOnce` | abstract: a store in which a batch is imported by one atomic step, at most once |
| `IngestionRuns` | the import protocol, transaction by transaction, with faults; the as-of selection |
| `FoundationAcquisition` | acquirers that run two imports one after the other, with what they check before and report after |
| `MarketContent` | operators: what normalization accepts and what the calculators make of the rows |
| `DemoRefresh` | operators: planning, mock acquisition, validation and projection of one refresh |
| `MarketReading` | the handlers that read Today Market while imports go on; uses the two above |
| `RefreshCoordinator` | the coordinator of refreshes and the two HTTP handlers above it |
| `TodayMarketPage` | the runtime panel of the page, on top of `RefreshCoordinator` |
| `ResearchLedger` | evidence ledger, industry maps, beneficiaries, their semantic profiles and pools under row locks |
| `ThesisLog` | abstract: the log of revisions of one session |
| `ThesisSession` | revising, building, reviewing and accepting a session, under row locks |
| `DocumentReview` | uploads, their review, and the acceptance of facts into the ledger |
| `CompanyResearch` | company files (Stage 2) and the layers that freeze what they rest on |
| `CandidateRecords` | prices, normalized valuation, components and candidate snapshots |
| `DeskRecords` | the API of the research desk: every read at a boundary, every command |
| `ResearchDesk` | the desk's pages in browser tabs, on top of `DeskRecords` |
| `FoundationAcquisition_proofs` (with `IngestionRuns`), `TodayMarket_proofs` (`RefreshCoordinator`, `TodayMarketPage`, `MarketReading`), `ResearchLedger_proofs`, `ThesisSession_proofs`, `DocumentReview_proofs`, `CompanyResearch_proofs`, `CandidateRecords_proofs`, `ResearchDesk_proofs` | theorems about these modules and their proofs |
| `MC*` | instances for TLC, with a `.cfg` per run |

To check: `tlc -workers 2 -config MCResearchLedger.cfg MCResearchLedger`, and the same for
each run below; `tlapm ResearchLedger_proofs.tla`, and the same for each proof module.

## Inventory of the system

| Component | State | Operations | What is hard | What makes it correct | Module |
|---|---|---|---|---|---|
| Market, benchmark, sector import (`backend/database/*_data.py`) | `ingestion_runs`, rows | `ingest_bundle`, `record_failed_attempt` | five transactions per call, no lock over them; lost commit acknowledgements; crashes | one success per batch; rows exactly with a success; truthful answers | `IngestionRuns`, `MarketContent` |
| As-of snapshot reads (`market_cockpit`) | none | select the run for (cutoff, recorded) | rows become visible after the time they carry | a settled read is repeatable | `IngestionRuns`, `MarketReading` |
| Structured provider (`datasource/ths_structured_provider`) | a budget, attempts | plan, fetch, validate, store twice, hand on | failing between the two imports; sessions and cutoffs at the edge | what is reported stands; what is complete is usable | `FoundationAcquisition` |
| Refresh coordinator and handlers (`today_market_refresh/runtime.py`, `backend/api/today_market.py`) | per scope: phase, generation, last command; claims | `get_status`, `execute` | lock released during the acquisition; resent commands; restarts | one attempt per generation, progress has an owner and ends | `RefreshCoordinator` |
| Planner, mock port, projection | none | plan, run, validate, project | counts at the ceiling | the gap shown is the gap filled | `DemoRefresh` |
| Catalog, snapshot, status, read model and their calculators | none | read | several sessions per reply, imports in between | one reply is one reading; an identity names its content | `MarketReading` |
| Today Market page (`today_market.js`) | selection, panel, request version | load, execute, retry, change, reload | late, lost, reordered responses | never shows an older status | `TodayMarketPage` |
| Evidence ledger (`commands.py`, `query.py`), chain map, Stage 1 pool | append-only revisions, links, bindings | append, link, assert, bind, freeze, assess, profile, pool | recorded times out of commit order; freezing against appending; locks | frozen means frozen; shown support is real | `ResearchLedger` |
| Industry thesis | session revisions, candidates, plans, outputs | revise, build, review, accept | expected numbers, two lock orders, replays | a plan covers its universe; an acceptance is whole and happens once | `ThesisSession`, `ThesisLog` |
| Research desk (`industry_analysis`, `backend/api/industry_analysis*`) | URLs with boundaries, forms | pages and API | stale forms, lost answers, boundaries that hide rows | what is committed was shown; links open | `DeskRecords`, `ResearchDesk` |
| Document import | attempts, review sessions, receipts | upload, review, accept | same content at once; repeats; adds during an acceptance | stored once; whole; repeats converge | `DocumentReview` |
| Stage 2 records | revisions per file | open, append, six layers | two kinds of locks; late links | layers freeze what they rest on | `CompanyResearch` |
| Canonical price, normalized valuation, investment candidates | immutable revisions | record, read | first revisions race; chosen dates; hidden inputs | linear chains; reads repeat and answer | `CandidateRecords` |
| Guarded AI | none | check, call, check | provider failures | nothing passes unchecked | not modelled |
| AKShare provider, ranking, factors, backtest, ML, other pages, projections, migrations, scripts | none or presentation | | numeric or presentation code | unit tests fit better | not modelled |

Interactions. Pages talk HTTP to one Python process whose handlers run on server
threads and share one coordinator object. Handlers read the database in sessions of
their own; imports write it from other threads or processes. A page and the
coordinator share only the status that travels: a command carries the fingerprint
of the status its page saw. The research commands share only the database, plus
process-local locks that reduce the interleavings inside one process and reach no
other. A thesis acceptance writes Stage 1 rows through its owner port, a document
acceptance writes ledger facts, a company file takes its evidence from the ledger,
and candidates rest on canonical prices, which rest on imported rows. The desk's
pages compose commands from reads of all of these.

What composes what. `FoundationAcquisition` extends `IngestionRuns`: its acquirers are
callers of the protocol. `TodayMarketPage` extends `RefreshCoordinator`. `MarketReading`
extends `MarketContent` and `DemoRefresh` and reduces an import to what a reader can
tell. `ResearchDesk` extends `DeskRecords`, where a command is one step;
`ThesisSession` shows that its transactions behave so, by implementing `ThesisLog`.

## Import: `IngestionRuns`, `ImportOnce`, `FoundationAcquisition`

`MarketDataPersistenceService.ingest_bundle` (the benchmark and sector services
have the same protocol) is the sequence of its database transactions. A caller's
`pc` names the next one:

| `pc` | Action | Code (`market_data.py`) |
|---|---|---|
| `idle` | `IngestBundle`, `RecordFailedAttempt` | the calls |
| `find` | `FindSuccessfulRun` | looking for an earlier success |
| `create` | `CreatePendingRun` | the pending attempt, its own transaction |
| `persist` | `PersistSnapshot` | opens the snapshot transaction, samples `completed_at` |
| `flush` | `FlushSuccess` | the UPDATE that enters the partial unique index: waits for another open holder, refused after a committed one |
| `commit` | `CommitSuccess` | commit; rows, status and completion time appear at once |
| `resolve` | `ResolveConflict` | the `IntegrityError` handler |
| `fail` | `MarkFailed` | `_mark_failed`, which overwrites whatever status is there |
| `read` | `ReadBack` | reading the attempt back for the answer |

Faults are actions: a statement fails, a commit takes effect but its
acknowledgement is lost, the process dies. `lost` is a history variable with the
successful commits that were reported as errors; properties that hold only outside
of it say so. The table's columns are functions over run ids. Rows are abstracted
to the presence of their run, since one transaction inserts all of them and nothing
updates them. The as-of reads are `Eligible`, `Outranks` and `Selected`.

`ImportOnce` is what a caller may rely on: asking, an atomic `Store` that happens at
most once per batch, and an answer. `ImplementsImportOnce` maps the table to the set
of batches that have a success. It holds until a commit that went through is reported
as an error (`lost' # {}`): from then on an attempt may be marked failed after it
succeeded, which no caller of an atomic store could see.

`FoundationAcquisition` adds `acquisition.py` on top. Selecting, planning within a
budget, fetching and validating leave no trace in the database, so they are
predicates over an input (`ValidSelector`, `Affordable`, `Delivered`, `ValidResponse`,
`Gathered`, `Prepared`) and `PersistFoundation` starts with an input that passes them. The acquirer then imports the market and, if that
run is stored, the benchmark (`PersistBenchmark`), each through the actions above,
and ends in a receipt (`Receipt`), in an error that names the market run it leaves
behind, or in nothing (`GiveUp`). Beside it other importers bring the same batches.
`Projects` says which receipts can be handed on to Today Market (`port.py`).

## Refresh: `RefreshCoordinator`, `TodayMarketPage`

A *scope* is a selection with the generation of the snapshot it resolves to
(`moved` counts those; an import moves it between any two steps). A *status* is what
the fingerprint distinguishes: scope, revision, phase, automatic attempt.

| `pc` | Action | Code |
|---|---|---|
| `unsent` | `SendGet`, `SendPost` | a client; a command carries a status that some answer showed |
| `resolve` | `Resolve` | scope resolution and comparison in the handler, outside the lock; may be unavailable |
| `execute` | `GetStatus` | `get_status` under the lock |
| `execute` | `Execute` = `AnswerReplay`, `RejectCommand`, `StartAttempt` or `AbandonClaim` | first locked block of `execute`, its checks in their order |
| `acquire` | `Finish`, `Raise` | acquisition without the lock, then the second locked block, in its normal and its exception form |
| `conflict` | `ConflictStatus` | the status of a 409, fetched after the lock was released |
| `answered` | | the response is on its way or arrived |

`Restart` drops the coordinator's state and all running handlers; clients keep the
statuses they were given. `Unbounded` holds the selections whose cutoff is the last
date of the calendar; for these the code raises between the claim and the `try`
(`AbandonClaim`). `started` is a history variable.

`TodayMarketPage` adds the browser: each page has a selection, a panel (`label`,
`current`, `retry`), the counter `runtimeRequestVersion`, the set `automaticScopes`
and the action of the ordinary view. A response is an action enabled as soon as the
server has answered; any other event may come first, and a fetch may fail at any
stage of its handling (`FetchFails`), including after the server did the work. The
catalog and the snapshot body are abstracted to showing, reading again and hiding.

## Reading: `MarketReading`, `MarketContent`, `DemoRefresh`

A reader fixes a cutoff, a recorded-at boundary and the series it wants, and asks
for the catalog, the snapshot, the runtime status, a refresh or the read model.
None of the last four is one read: the snapshot takes a query per family, status
and refresh select the runs again in a second session to name what was shown
(`today_market.py:629`), and the read model takes a third, unbound equity read for
its rules (`:1149`). `todo` holds the queries still to make; between any two of them
an import may begin, stamp its completion, commit, fail or be marked failed after
all. What is shown is computed by the operators of `MarketContent` (sessions,
cohorts, coverage, alignment, volume anomalies, per code and day) and what a
refresh comes to by those of `DemoRefresh` (planned sessions, scenarios of the mock
port, validation, projection). The three hand-written selections of a run (catalog,
repositories, identity components) are separate definitions, as in the code.

## Ledger, maps and pools: `ResearchLedger`

A command is one transaction at READ COMMITTED: it locks the rows it names one
`SELECT ... FOR UPDATE` at a time (`Lock`), checks what is committed by then and
inserts at commit (`Commit` and its cases). Recorded times come from the caller or
from the clock before the locks, so their order is not the order of commits and a
command may carry any time. A transaction may end without a trace at any step, by
an error or a crash (`Fail`) or as the deadlock detector's choice (`DeadlockVictim`). An evidence item stands for a pair of evidence and
relation; `assert` covers creating and appending nodes, relationships and
observations. A semantic profile names a beneficiary revision, a revision number it
expects to be the latest, and assertions that cite the claims this revision froze;
the code reads all but the number before it locks the profile's identity row, and
the model reads it after (`ProfileAllowed`), as what is linked in between makes no
difference that could not also arise after the check. The SQLite of the test suite ignores
`FOR UPDATE`; PostgreSQL, the deployed database, is modelled. Foreign-key share
locks are left out here.

## Thesis sessions: `ThesisSession`, `ThesisLog`

One session, with commands that lock rows stage by stage (`pc` = stage) and check
after each stage: revise and build take the session and then its revision, review
takes its revision first and then the session, acceptance takes the session, its
revision and then owner rows in key order. A caller names revisions by number and
may send a command again at any time. The owner rows an acceptance writes are next
to those that direct commands write. `ThesisLog` is the promise: one atomic append
per accepted command, on top of the revision it named, replays that repeat what was
done, refusals that change nothing.

## Documents: `DocumentReview`

An upload looks for its content, extracts outside of any transaction, and looks
again before it stores (two transactions); every other command is one. Inserts
claim the keys of their unique constraints and share the rows their foreign keys
name, so that adding a candidate, which locks nothing itself, cannot pass a command
that holds its session. Left out: chronology, citations, the preview (a read), and
`create_claim`, which locks the case first like a slower `add_evidence`. The retry
on `IntegrityError` at `commands.py:106` is unreachable under PostgreSQL's locks,
which is what `LocksCoverChecks` says. The code reads a session's state without a
lock before it adds a candidate (`:818`), may overshoot the candidate limit (`:825`),
and lets two uploads of one name pass its check (`:155`).

## Company files: `CompanyResearch`

Files, hypotheses, snapshots (expectations and valuations), assessments (catalysts
and risks) and judgments. A layer names revisions of lower layers and freezes them,
with the evidence its claims have at its time. Cutoff dates follow the recorded
times; grades, verification items, the price reference and the queries are left out.
`FreezesAreComplete` says what evidence a freeze may not miss, at its commit and ever
after: links recorded later with an earlier time included. It leaves open where code
and docs differ ("Findings"): links that came between a hypothesis and its snapshot,
or between the beneficiary revision and the opening of a file, may be in or not. Nor
does it ask of a frozen hypothesis for links recorded later, with an earlier time, of
claims that were not handed off or after the beneficiary revision: the ledger's
commands take such times, and the frozen evidence stays as it was.

## Candidates: `CandidateRecords`

All tables are one sequence in the order of insertion. A command checks its inputs
in one transaction and inserts the next revision in the same one; the identity row
is locked only if it exists, so that two first revisions meet at the unique key
(`Conflict`). Dates and recorded times are chosen by callers. Values, scores,
currencies, trade dates, provenance of claims, required input groups and optional
contexts are left out, and so are the waits for key-share locks. What the code
does not check is not assumed: that a component's price belongs to the candidate's
company, that an observation's research and instrument are of one stock, that a
metric is of its peer's company, that a series is still accepted when a price is
recorded, when a claim-evidence link was recorded
(`docs/normalized_valuation_expectation_preflight.md:230` asks for it). A supported
valuation component with two prices passes recording but can never enter a snapshot
(`docs/investment_candidate_intelligence_preflight.md:395-397`). Readers of financial
records name what they bind without opening it.

## Research desk: `DeskRecords`, `ResearchDesk`

Every row has the time it was recorded at and every read takes a boundary: it sees
the rows recorded by then, but asks for the latest revision number of a session as it
is now. `DeskRecords` has the reads (what each page opens on), the composition of
commands from reads, and the commands, one step each. `ResearchDesk` has tabs: a
path with a boundary, what has loaded (`loaded`), the links shown, the form. A call
is sent, composed, run and answered; a request or an answer may be lost
(`LoseRequest`, `LoseAnswer`), a page may be left, and what it sent goes on. Other
API clients save, prepare, build, review, assess and append pools at any time and
may hand on links (`handed`); acceptances come from pages only. `shown` and `seen` are
history fields of an output: the preview its commit named, and as of when. A preview
as the page keeps it has whether it was answered as ready and the plan behind its
fingerprint (none when it was blocked); `of`, the page that asked for it, and `found`,
the Stage 1 rows that its plan builds on as they were then (`Underlying`), are kept
along as history and read by nothing. `CommitWasShown` compares all four with what an
acceptance writes and with the rows it meets. The code has no single check for this:
an edit or a load drops the preview, the fingerprint binds the plan, and the records
are looked at again by the commit itself, so dropping either of the last two breaks it
(the mutant lets a pool have moved). Left out: the owner-context options endpoint, the
dry-run check of a scope, readiness, semantic profiles and evidence.

## Runs

| Run | Properties | What it shows | Instance |
|---|---|---|---|
| `acquisition` | `OneSuccessPerBatch`, `RowsBelongToSuccess`, `RepliesNameSuccess`, `OutcomesStand`, `CompleteCanBeHandedOn`, `SettledReadsRepeat` | acquirers and importers of the same batches, one fault of any kind at any transaction | 2 callers, 2 good inputs (the second edition with a cutoff that has no session), 8 inputs that one check each refuses, 3 calls, clock 0..2 |
| `ingestion_promise` | `ImplementsImportOnce`, `CallsReturn` | the protocol is an atomic at-most-once import until a commit that went through is reported as an error, and every call returns, waiting at the index included | 2 callers, 3 batches (one rejected), 3 calls, 2 faults of any kind, clock 0..1 |
| `coordinator` | `ProgressHasOwner`, `OneAttemptPerGeneration`, `ConflictIsNews`, `RefreshEnds` | the coordinator under racing and resent commands, moving snapshots and a restart | 2 selections (one unbounded), 3 requests, 1 move, 1 restart |
| `page` | `ShownNeverOlder` | the panel under late and lost responses | 1 page, 2 selections, 4 requests, 1 restart, 5 versions |
| `ledger` | `ShownSupportIsReal`, `OneRevisionPerClaim`, `ProfilesRestOnFrozen`, `FrozenNeverRewritten`, `CommandsReturn` | any three commands, with any recorded time, on two workers, after a frozen map and a beneficiary judged by it | 3 claim and 3 assertion revisions, 2 evidence items, 2 beneficiaries, 3 profile commands, clock 1..3, 1 failure |
| `thesis` | `PlanCoversUniverse`, `AcceptanceIsWhole`, `AnswersAreTrue`, `CyclesNeedReview`, `ImplementsThesisLog` | any three commands, repeated and outdated ones included, from four histories | 2 workers, 2 candidates, 1 failure |
| `documents` | `LocksCoverChecks`, `AcceptanceIsWhole`, `ContentStoredOnce`, `RequestsConverge` | any three commands, from nothing and from a file imported and reviewed twice | 2 workers, 2 files, 2 names, 2 facts, 1 failure |
| `stage2` | `CyclesAreKnown`, `ChainsAreAccepted`, `FreezesAreComplete` | four commands of any layer, from three histories | 2 workers, 2 files, 3 claims, 1 failure |
| `candidates` | `ChainsAreLinear`, `ReadsRepeat`, `ReadsAnswer`, `RanksAreGrounded` | two processes on top of three stores, and the run behind the prices settling or being marked failed | 2 companies, one or two commands beyond a store of 13 or 14 revisions, times 1..2 |
| `desk` | `CommitWasShown`, `AnswersReopen`, `NothingUnseen` | a tab from the history to an acceptance, other clients beside it, requests and answers lost | 1 tab, 1 session, 2 companies (one pooled), 6 histories, times up to 6 |
| `market_reading` | `SettledIsOneReading`, `IdentityNamesContent`, `RefreshFillsTheGap` | all five requests while a run commits, fails or is marked failed | 10 bundles of 3 families, 3 beginnings, up to 4 runs, windows of 1, 2 and 3 sessions, ceiling 2 |
| `desk_history` | `HistoryOpens`, violated | see "Findings" | as `desk` |

Bounds, and why they are enough. They are `MaxCalls`, `MaxFaults`, `MaxClock`, `MaxMoves`,
`MaxRestarts`, `MaxVersion`, `MaxCommands`, `MaxCandidates`, `MaxRevisions`, `MaxTime`,
`MaxOwned`, `MaxSessions`, `MaxRuns`, each named in a guard. Two workers with three
commands make a race, a loser and a repeat or a third party; where a long
history is needed (an accepted session, a file taken to an assessment, a complete
comparison) the run starts from it, and each such start is a state the commands
reach. Two callers with three calls make a race, a loser that resolves to the winner
and a retry after a fault. Two cutoffs give an as-of read a choice, three clock values a
boundary before, at and after a completion. Three requests let a command race with
a copy of itself and a retry follow; where there are proofs they remove these bounds. `MaxVersion`
bounds the events of a page: a status read, the automatic command, a change of
selection and back. On the desk six times are enough for a reviewed session to be
accepted while another client appends, and one call under way is enough for its
answer to be late. Callers, requests and processes are interchangeable; symmetry is
used in `acquisition`, `page` and `candidates`, which check no liveness. Deadlock is
checked, with an explicit final step for used-up bounds (`Finished`, `Drained`), except
where a user, a reader or an importer may stop at any point (`page`, `desk`,
`desk_history`, `market_reading`, `candidates`). Type invariants are defined in every
module and proved where there are proofs; the others were checked on these
instances.

Fairness is assumed in three runs. `FairSpec` of `IngestionRuns`: a caller in a call
keeps executing its own next transaction (a running thread; the only blocking
statement is the flush, and the database lets it go on when the other transaction
ends). `CoordFairSpec`: the same of the handlers, and that the acquisition returns or
raises; the port in this code base is the deterministic mock, which does no I/O.
`FairSpec` of `ResearchLedger`: a worker that can take its next lock or write does so,
and the database's deadlock detector ends one of the commands of a cycle. Nothing is
assumed of clients, users, faults, restarts, clocks or imports.

Mutants. Each property of a passing run has a mutant: an operator marked "Mistake:",
which replaces one definition by a plausible error (no unique index, rows outside
the transaction, a lock not taken, a check before the lock instead of after, a
boundary not applied, a form not cleared, ...) and makes TLC find that property
violated.

## Proofs

The theorems hold for every value of the constants that satisfies the assumptions
named in the modules, thus for any number of callers, batches, requests, workers,
commands, faults, moves and restarts. The assumptions give the constants their types
and the commands their shapes; those that say more are named below with their
reason. None of the invariants is inductive by itself; the strengthening of each was
checked by TLC on the instance of its run before it was proved.

Two arguments carry most proofs about the research commands. *Checks under locks*:
two workers never hold one row (`Exclusive`); a worker past a stage holds the rows of
it (`LocksTaken`); every commit changes only rows its worker holds; hence what a
worker checked about rows it holds is still so when it commits (`StillChecked`).
*Chains*: an identity's revisions are numbered without a gap and none is above the
latest, so the row a commit adds is new and next.

`FoundationAcquisition_proofs`, about imports (`BatchAssumption`, `BoundAssumption`): `TypeCorrect`,
`UniqueSuccess`, `RowOwnership`, `TruthfulReplies`, `ConflictsConverge`, `Immutability`,
`Refinement` and `ReadsAreRepeatable`. The invariant ties each caller's `pc` to the
database: an attempt being worked on is its caller's alone and of the batch it
wants; two callers are never both past the flush for one batch; past the flush there
is no success of the batch yet; a resolver's winner is a success or in `lost`.
`UniqueSuccess` is then the step from "the flush saw no holder and no winner" to "the
commit adds the only one". `Refinement` (`Spec` implements `ImportOnce`, whatever the
faults, until a commit that went through is reported as an error) shows every step
to be a step of the promise, to leave its variables alone, or to add to `lost`.
`ReadsAreRepeatable` proves `SettledReadsRepeat`: a commit stamps a time after every
settled one (`SettledStays`), so a step adds no run to a settled read and takes none
away but a lost one (`EligibleOnlyShrinks`), and since the order of runs is total and
transitive, taking away a run that is not selected selects the same
(`SelectionStays`). No greatest element has to exist for that.

The same module, about acquisitions (also `AcquisitionAssumption`, `DaysAssumption`,
`BundleAssumption`, `JobAssumption`). `AcquirersImport` shows that every step of the
composition is a step of the protocol, so that its theorems carry over.
`OutcomesHold` proves `OutcomesStand`: the invariant adds that an answer names a run of
the batch asked for, successful or lost; that a working acquirer wants the batch of
its input and that the market run it has stands; and that every outcome fits its
input. That a run keeps standing follows from the immutability of finished attempts,
and that the two runs of a receipt agree follows from the checks an input passes.
`ReceiptsHandOn` proves `CompleteCanBeHandedOn`.

`TodayMarket_proofs`, about refreshes (`SelectionAssumption`, `MoveAssumption`):
`CoordTypeCorrect`, `MutualExclusion`, `ClaimsAreOwned`, `AttemptsAreFresh`,
`AutomaticAttemptOnce`, `AnswersAreOwn`, `ReplaysRepeat`, `ConflictsInform`,
`GenerationsOnlyAdvance`. The inductive invariant says that a request in `acquire`
owns its scope's entry, which stands one generation after the status the request
carries; that generations carried by clients of this process never exceed the
current one and an equal generation means an equal status; and that a remembered
command's answer is determined by the current status. One lemma per action.

About the page (the same assumptions): `PagesAreClients` shows that every step of the
page's specification is a step of the coordinator's or leaves it alone, so that the
theorems above hold with pages as the clients. `PagesGoForward` proves
`ShownNeverOlder`. The invariant says that every fetch of a page has a version of its
own, so at most one is awaited (`IssuedOnce`); that what is shown or carried was given
by some answer (`ShownWasGiven`); and that what is awaited is no older than what is
shown, and an awaited command carries just that (`AwaitedIsNewer`). A new fetch makes
every other one unawaited, and a server answer is as new as any given before.

About reading (`BundleAssumption`, `BeginningAssumption`, `AskAssumption`,
`ReadingBoundAssumption`: types, that stored bundles normalize, and that the equity
family is always selected, which the request models require): `ReadingTypes`,
`SettledReplies`, `IdentitiesName`, `RefreshesFillTheGap`. An import leaves alone what
the runs brought and the runs that ended (`Imported`). At a settled boundary no run can
still come in or change, so every query of it selects the same run ever after
(`SettledSelection`); that a newest run exists comes from two maxima over bounded
numbers (`GreatestBelow`). The work of a request is a list sorted by place
(`WorkSorted`), so when a query is made those before it were made and those after it
were not (`Showing`, `ShownBefore`); a family is refused with all before it accepted,
which is where one reading of the whole would be refused. `IdentityNamesContent`
follows from `Names`, that a reply's content is that of the runs it names, at any
boundary. `RefreshGap` says what `Refresh` does for every calendar, ceiling, scenario and
pair of days; that the session shown and the cutoff are days, and that the status
being refreshed still shows what was confirmed, comes from the invariant.

`ResearchLedger_proofs` (`LedgerAssumption`, `CommandAssumption`, `HistoryAssumption`):
`LedgerTypeCorrect`, `BindingsAreUnambiguous`, `FrozenStaysFrozen`, `ShownSupportHolds`,
`ProfilesHold`, `CyclesHaveFreeze`. `FrozenNeverRewritten` is about steps; it needs that a writer holds the
rows it checked (`Exclusive`, `HeldAreRecorded`), that no assertion is recorded or
bound, and no claim linked, by a command that does not hold it (`AssertionsLocked`,
`ClaimsLocked`), and that what is approved is refused a time in the frozen past
(`LinkApproved`, `BindApproved`, `AssertApproved`, `BenefitApproved`, `Recorded`).
`ShownSupportHolds` adds `SupportInv`: a command about to write finds what it was
allowed by still there (`Ready`), because claims and assertions it rests on are locked
and links to a supported claim never contradict it. `LedgerAssumption` has this last
fact of the first links too, since they are recorded by the same commands.
`ProfilesHold` adds `ProfileInv`: every profile follows one that is not later and rests
on rows that a beneficiary revision froze, which stay as in `FrozenStaysFrozen`.
`CyclesHaveFreeze`, which no run states, is about the rows taken with `FOR UPDATE`
(foreign keys share others): every command but a freeze takes them upwards by `Level`
(`OrderInv`), so among workers that wait for each other one freezes a map. It needs a
last claim, which a finite table has (`LedgerAssumption`).

`ThesisSession_proofs` (`SessionAssumption`): `SessionTypeCorrect`, `PlansCover`,
`AcceptancesAreWhole`, `AnswersHold`, `SessionRefines`, `CyclesHaveReview`. Whoever
extends the session holds its row from the first check to the commit (`OneSession`),
so its revisions are one chain; owner rows that an acceptance writes keep their
latest numbers by locks of their own (`SettledKept`). `AcceptanceIsWhole` and
`AnswersAreTrue` relate an output to rows written with it: they are kept because
rows are only added and a revision is accepted at most once (`DoneIsPast`). For
`SessionRefines` the log is the sequence of revisions by number (`LogEntries`); an
acceptance appends one entry and records the plan in the same step. For
`CyclesHaveReview` all rows are ranked (session, its revisions, beneficiaries by key,
the pool) and every command but a review takes them upwards (`Ordered`); in a set of
workers that wait for each other the one with the highest awaited row would wait for
a higher one. That keys have a last one (`SessionAssumption`) is true of any finite set
of candidates and gives the pool its rank.

`DocumentReview_proofs` (`ReviewAssumption`): `ReviewRecords`, `LocksSuffice` (that
`LocksCoverChecks`), `AcceptancesAreWhole`, `ContentsHold`, `RequestsAnswered` (that
`RequestsConverge`). `ChangesAreLocked` says which lock covers which row, shared ones and
the keys of unique constraints included; with it `StillChecked` covers the two looks
of an upload and the stages of an acceptance. A session's revisions are numbered
without a gap and only the last may be terminal, hence no receipt can be followed by
another one.

`CompanyResearch_proofs` (`CompanyAssumption`): `CompanyTypeCorrect`, `ChecksHold`,
`ChainsHold`, `FreezesHold`, `CyclesHold`. What a layer names stays since rows are only
added and its locks cover the rest: a named revision (`NamedStay`), the revisions of a
file while the file is held (`FilesStay`), the links of a claim while it is held
(`LinksStay`), the evidence handed off (`HandedOffStays`). What `FreezesAreComplete` says of
a commit then follows from what was read under these locks; what it says of every
later state is a second invariant (`Frozen`): no file is older than the hand-off, and a
freeze has all that is handed off of its own claims and nothing that the ledger does not
have of them up to its time. The locks are ranked
(pool, identity, file, claims by number); a command waits below a lock it holds only
when it opens a file or revises one, which is `CyclesAreKnown`. `CompanyAssumption` has
of a command that it names revisions of the layers its signature takes (`Below`), and
that claims are finitely many.

`CandidateRecords_proofs` (`CandidateAssumption`): `Records`, `RecordTypes`, `ChainsHold`,
`ReadsHold`, `ReadsSucceed`, `RanksHold`. What a command checked of a record is restated
as a predicate of the record and the store (`Sound`), which holds of every stored or
prepared record and is kept as the store grows and the run settles (`SoundKept`).
Chains are linear because a later revision holds the identity row and follows the
newest one (`Queued`, `OneQueued`) and a first one meets the unique key (`Begun`). The
readers repeat these checks at a boundary, hence they answer. The assumption that a
component's codes are no kinds of other records is one about names in the model.

`ResearchDesk_proofs` (`DeskAssumption`, that companies are finitely many;
`PageAssumption`, that there is a scope to choose): `AcceptedAsShown` (that
`CommitWasShown`), `NothingComesInUnseen` (that `NothingUnseen`), `AnsweredLinksOpen` (that
`AnswersReopen`). Rows are only added (`Grown`) with times that rise along each chain,
so a read at a boundary finds ever after what it found (`OpensKept`). Every page's path,
form and links have the shape that its last load left (`PagesOK`), a call carries what
its page held when it was sent (`CallsOK`), and leaving a page orphans its calls
(`CallsAbandoned`). What a command composes has the numbers the page saw
(`BuildIsComposed`, `AcceptIsComposed`). On top of it a second invariant (`ShownOK`) has of
every page and every commit under way that its preview, if ready, was given to this
page, and that the rows it found are still those that the plan's numbers tell (`Stands`,
`UpTo`): rows added since have greater numbers (`StandsKept`). A commit that the owners
allow meets exactly these (`AllowedStands`). An output opens because its graph names one owner per accepted candidate
(`GraphIsWhole`).

Every invariant and action property that a run checks is thus proved, and so are the
two refinements. Only model-checked, and why: liveness (`CallsReturn`, `RefreshEnds`,
`CommandsReturn`), which is out of the prover's reach, as is ENABLED; and that the desk's
history does not always open (`HistoryOpens`), which is a counterexample. What the
calculators of `MarketContent` compute is not proved correct: the theorems about
reading hold for whatever function of the selected runs they are, and use of them
only that a snapshot not refused has a session.

## Findings

The history page (`desk_history`). The history lists a reviewed session with a link
to its result
(`docs/personal_research_workbench_ui_phase2b_preflight.md:269`, also `README.md:63` and
`docs/architecture_baseline.md:160`), and the link carries the time of the session
revision (`api/industry_analysis.py:292`), which precedes that of the reviewed
candidates (`industry_thesis_review.py:419`). The result page, reading at that boundary,
does not find the plan and refuses. `AnswersReopen` says what does hold: the link in
the answer to the review itself opens. For the same reason a built session reopened
from the history shows no candidates, and building it again is a conflict.

Other divergences met while modelling, none of which has a run:

- *Review page.* It sends an `acceptance_plan.v1` and no owner context
  (`candidate_review.js:554`), while the API requires both
  (`industry_analysis_review.py:75`), so a review from the page is refused and the
  acceptance page is reached only by a link that an API client hands on.
- *Repeated acceptance over HTTP.* A commit repeated after a lost answer is stale
  (`industry_analysis_acceptance.py:596`), where
  `docs/industry_thesis_owner_acceptance_output_links_preflight.md:130` has it replayed.
  The command below it does replay, but not once the session has a further revision
  (`industry_thesis_owner_acceptance.py:427`), where line 493 of that document excepts
  an output that exists and matches.
- *Previews.* `docs/industry_research_ordinary_user_e2e_v1_preflight.md:498` lets any change
  of the owners' state invalidate a preview. The fingerprint covers the submitted plan
  alone, and the commit looks at what the plan builds on: a company or a pool that is
  reused may have got later revisions since, and the commit goes through.
  `CommitWasShown` claims nothing of those.
- *Desk forms.* Editing the scope of a ready revision fails to load, and saving then
  creates a new session, as does saving while the form is loading. An acceptance may
  offer to append to the latest revision that is not rejected when the actual latest
  one is; it is then blocked. Candidates of an older revision, which only API clients
  can leave behind, make a session unreviewable.
- *Import.* A commit whose acknowledgement is lost is followed by `_mark_failed`, and the
  failed attempt keeps its rows (`docs/database.md:17` says failed writes retain none).
  `completed_at` is sampled before the commit, so a run may appear inside a boundary
  already read (`backend/api/today_market.py:467`).
- *Refresh.* A cutoff at the last date of the calendar leaves a claim that only a
  restart ends (`docs/today_market_refresh_runtime_integration_v1_preflight.md:591`,
  *failures expose explicit retry*). The scope is resolved outside the coordinator's
  lock. The old panel stays visible until the new status arrives (line 592). Reading
  the snapshot again drops the response a panel asks its reader to wait for
  (`today_market.js:1015`).
- *Reading.* The stock anomalies of the read model come from an equity read of their
  own (`today_market.py:1149`), so an import that commits in between with an earlier
  `completed_at` mixes two runs under one `snapshot_id`. `complete_selected_scope` is
  never answered. A context without a session gives 409 on status though the snapshot
  is served. The mock's usage limits never bite, as each refresh builds a new mock.
- *Acquisition.* Each plan is checked against the same remaining budget, and retries
  are not counted. A receipt whose last session is before its cutoff is complete but
  can never be handed on (`CompleteCanBeHandedOn`). Two acquisitions that share a
  market batch share a run whose metadata names the first.
- *Deadlocks.* A freeze, a review, two opens of files that share handoff claims, and
  a revision of a hypothesis next to its file's can be ended by the deadlock detector
  (`CyclesNeedFreeze`, `CyclesNeedReview` and `CyclesAreKnown` say that in the ledger,
  foreign keys aside, in theses and in company files nothing else can); the `OperationalError` is translated nowhere.
- *Profiles.* `docs/typed_beneficiary_evidence_semantics_preflight.md:324` lets no visible
  contradiction remain for a supported assertion. The command locks no claim, so
  evidence that contradicts one of them, recorded between the beneficiary revision and
  the profile, may be linked after the check, and the profile then shows as supported
  what it also shows contradicted. Its line 427, that revisions are numbered without a
  gap, is what `ProfilesRestOnFrozen` says and `ProfilesHold` proves.
- *Documents.* An upload that loses the race to store its content fails with an
  integrity error and leaves no attempt (`document_import_commands.py:176`), where
  `docs/manual_official_pdf_import_evidence_ledger_v1_preflight.md:164` has one row per
  user action.
- *Company files.* A snapshot freezes the evidence its claims have at its own time
  (`stage2_expectations_commands.py:283`), where `docs/stage2_expectations_valuation.md:9`
  takes it from the hypotheses' boundaries; a handoff freezes what was linked when the
  beneficiary was recorded, where `docs/stage2_company_research.md:7` has what is
  visible when Stage 2 begins.

## Not modelled, and what could come next

Not modelled: the guarded AI chain (stateless checks around one call, nothing
written); the AKShare wrapper; ranking, factors, backtest and ML (small numeric
prototypes); pages and projections that only read and render; migrations and
scripts. Within the modelled parts: field validation, values of prices and amounts,
fingerprints as strings, wording and layout, credentials and hosts, SQLite's locking
(which the tests run on), and the commands that create rows nothing else checks
(evidence items, verification items). The module sections name the rest.

Next, in this order:

1. Theorems about what runs check only through other properties: that an uploaded
   document's attempts and receipts replay to the same answer; type correctness of
   the page and the desk as theorems of their own.
2. A proof that what one coordinator publishes is what `MarketReading` would plan: the
   two models meet only in `DemoRefresh` now.
3. Other clients of the desk that accept, and a second tab.
4. Owner acceptance and ledger in one module: the claim rows an assessment locks are
   those the ledger's commands lock.
5. The guarded AI gate, once it keeps a state between calls.
