# Verification of the pixel investment office

TLA+ models of the investment office (`src/src/investment_office`), model-checked with TLC and, in all
their safety properties, proved with TLAPS. The office is one FastAPI process that analyses stocks: it
collects market data, asks six agent roles for their opinion, applies a deterministic risk policy, and puts a
draft before a human. Around that it schedules analyses for later, lets people order extra work from one role,
holds committee meetings about a finished analysis, and searches the whole market for candidates.

Contents: 1 the system, 2 the hard behaviours, 3 conventions, 4 the modules, 5 the runs,
6 the proofs, 7 divergences, 8 what is not modelled, 9 the plan.

## 1. The system

Everything runs in one asyncio event loop in one process; a database lock keeps a second server away
(`main.py`, `lifespan`). Components meet in three ways: they call one another, they read what another one
stored, and they publish events to the browser, which nothing reads back.

| Component | State | Operations | Interacts with | Correct when |
|---|---|---|---|---|
| Analysis runs, `orchestrator.py` | stored runs, candidates, outputs, snapshots, decisions, reviews; run tasks, agent tasks, a semaphore of run slots | create, run, cancel queued, review, recover | provider, market data, research, risk policy, storage | a run is executed once and ends; a draft rests on all stages; only a human decides |
| Manual work, `work_items.py` | versions of work items; drain tasks | create, cancel, resume, progress, run next, recover | provider, storage, the run's market data | one item of a lane at a time, in order, none forgotten, no attempt sent twice |
| Schedules, `scheduled_analysis.py` and the poll loop of `main.py` | versions of schedules, a cache; dispatch tasks | request, cancel, claim, mark, recover | analysis runs | each schedule is carried out once, not early, and ends as its run ended |
| Committee meetings, `committee_broker.py` and the commands of `main.py` | snapshots, outputs; meeting objects, registry, caches; command tasks | start, speak, finalize, stop, three reads that may restore | provider, storage | one meeting at a time, one speaker at a time, minutes final and whole, an end for who asks |
| Risk policy and draft, `risk.py` and the end of a run | none stored apart from the run | assess, research and regime gates, required sources, draft | research pipeline, regime | loss bounded, gates only tighten, no position without evidence |
| Discovery jobs, `discovery_jobs.py` | jobs in memory, tasks | create, report, finish, close | full market discovery | a job ends; the ledger says what its task does |
| Full market discovery, `full_market_discovery.py` | none | five stages of narrowing, concurrent price tasks | catalogue, fundamentals, prices | a stage works on what the one before let pass; failures are counted and not passed |
| Screening rules, `fundamental_screening.py`, `candidate_discovery.py` | none | gate, scores, ranking | full market discovery | better figures never cost a company anything; what is unknown neither rewards nor punishes |
| Universe and fundamentals, `universe_catalog.py`, `bulk_fundamentals.py` | cache files, downloaded archives | refresh, read, download, parse | external archives | a half-written archive does not become a cache; every row is accounted for; the latest filing counts |
| Event broker, `event_broker.py` | a bounded queue per subscriber | publish, subscribe | all services | the newest events survive, in order |
| Research pipeline, `research_pipeline.py`, `research_contracts.py`, `source_registry.py` | macro and ECOS cache with a lock each | collect, quality report | macro, company and price sources | a source is asked once for all who wait; nothing later than the cutoff is used; what is lost blocks |
| Sources, `macro_context.py`, `ecos_context.py`, `company_research.py` | none | fetch, parse | HTTP | stale or late answers are marked, not used |
| Prices, `price_gateway.py`, `market_data.py` | none | fetch with a fallback, compute indicators | HTTP | a source's failure is not data |
| Regime and overview, `market_regime.py`, `market_overview.py` | none | evaluate rules | macro, prices | worse news never allows a larger position; late news changes nothing |
| Chart analysis, `chart_analysis.py` | none | recognise patterns | prices | |
| Codex provider, `codex_provider.py`, `prompts.py` | a subprocess per call | analyze | operating system | the process is reaped on timeout and cancellation |
| Storage, `storage.py`, `database.py` | the records | get, list, save | all services | a save is atomic |
| Archive and pages, `decision_archive.py`, routes of `main.py`, static files | none | read, show | storage | |

## 2. The hard behaviours

*Interleavings.* All storage calls are synchronous and publishing an event never waits (the broker's
lock is never held across a suspension). So a handler suspends in few places only: a provider or data call, a
semaphore, a meeting's lock, `asyncio.sleep`, `gather`, and the start of a new task. Between two of these
nothing else runs. Everything that another task may do at such a point is a hazard.

*Failure between writes.* There is no transaction around two saves. Between any two of them the process may
be killed, and any one of them may raise. Shutdown is a third kind of failure: it cancels every task, and
`CancelledError` passes by `except Exception`.

*Recovery.* The lifespan recovers runs, then schedules, then work items, from storage alone, and may itself
be cut short. Meetings have no recovery: they are restored by whoever reads them.

*Shared files and caches.* Nothing limits the scans that run at once, and all of them download through the
same temporary files. Research requests share two caches, and ask for other cutoffs than the caches were
filled for. A cache of fundamentals may stem from an earlier listing.

*Order of documents.* Filings, listings and macro facts come in the order of their sources, with
corrections, other spellings, other currencies and late arrivals.

*Boundaries.* The size of a position is the product of up to five cuts, two caps and a rounding, behind
thresholds on six inputs.

`PROJECT.json` lists the single hazards, each at its line, with the properties that watch it. Not
in the list, for want of a model that would watch them: a full queue of the event broker drops its oldest
event for one subscriber and not for another (`event_broker.py:25`); price tasks already created are not
cancelled when their job is (`full_market_discovery.py:466`).

## 3. Conventions of the modules

- One action is one stretch of code from one suspension to the next, with all the writes in it. A *stop* in
  a stretch leaves a prefix of its writes behind; a *refused write* leaves the prefix and what the handler
  does about the exception.
- `stops` and `faults` count stops of the process and refused writes; `MaxStops` and `MaxFaults` bound them.
  Other bounds are constants named `Max...`, commented as "bound" where they are declared.
- History variables (`clock`, `calls`, `starts`, a ticket) are commented as such; no guard reads them.
- An operator `X_Name` beside `X` is a variant that is not part of the model: `X` with a plausible
  mistake in it, which must make some property fail. `PROJECT.json` pairs each property with its variant.
- Texts, confidences, events, timestamps and identifiers are left out unless a property speaks of them.

## 4. The modules

### WorkQueue
`services/work_items.py`, with `drain_work_items` of `main.py`, for one run and any number of role lanes.
`item` is the newest stored version of each item; `drain` are the drain tasks (ready, sleeping because the
market data is not there yet, or calling the provider). `Create`, `Cancel`, `Resume`, `RecordProgress` are
the requests. A turn of a drain is `Leave` (lane busy or empty), `Sleep`, `Discard` (the analysis ended
without market data), `Begin` or `BeginWithGap`; `Return` stores what the provider said; `DrainDies` is a
refused write. `Crash`, `Shutdown` (running items become cancelled), `Restart` and `RestartCutShort` are the
process. The analysis is reduced to what the drains see of it: `StartAnalysis`, `StoreMarketData`,
`EndAnalysis`.

### AnalysisRun, and RunPromise
`InvestmentCommittee` of `services/orchestrator.py`. `store` is what storage has of a run and its candidate:
status, which outputs, risk, decision and reviews. `waiting`, `phase` and `agent` are the tasks: those waiting
for a run slot, the one that carries the run, and its agents. `Commit`, `Escape` and `Refused` are the three
ways a stretch of writes may go: through or cut by a stop; a refused write that leaves the handler; a refused
write that its except block answers. `RunPromise` is the abstract life cycle, the status a user sees;
`KeepsPromise` says that `AnalysisRun` implements it. A second refused write inside an except block and event
writes (whose failures are swallowed) are left out.

### Scheduler
`services/scheduled_analysis.py` with the poll loop, the dispatch tasks and the requests of `main.py`. A
schedule is named by its run; `created`, `waiting` and `carried` are its dispatch tasks before their start, at
the run slot and in the run. `Poll` claims a batch: the first due schedules up to the limit, as
`claim_due` collects them, reconciling on the way those whose run is no longer queued. Of the run only its
status is kept: a run here does what `AnalysisRun` says in detail (it starts only when queued, it ends as
completed or failed, recovery fails it).

### CommitteeMeeting, and MeetingRecord
`services/committee_broker.py` with the command tasks of `main.py`, for one completed run. `saved` is the newest
snapshot of each session; `meeting` the objects of this process with their lock queues; `active` the registry;
`cached` and `minuted` the caches; `command` and `tasks` the commands of clients. `Send` is the request;
`StartTask` the first stretch of its task, up to the lock (a `blank` stop, whose reason is empty once stripped,
ends there); `Wake` hands the lock over; `Return` is the provider's answer or failure. An `Outage` of storage
refuses one write or, where an except block writes as well, that one too: `Answer` is the whole try and except
block, `Unrecorded` its ends with turns that only memory has. `ReadLatest`, `ReadSession`, `ReadMinutes` restore
meetings as the reads do. `Patient` clients look at the meeting first and send nothing after they have asked for
its end, as the page does; impatient ones send anything at any time. `MeetingRecord` is the abstract record;
`KeepsRecord` says that the snapshots implement it for patient clients. Two snapshots of one clock tick are left
out (the newest is always well defined), and so are the claim ledger and the text of the minutes.

### RiskGate
`services/risk.py`, `_apply_research_risk_gates`, the required sources and `_build_decision`. Four steps:
`Assess`, `Gate`, `Check`, `Decide`. Numbers are scaled integers: a position in hundredths of a percent, plan
prices in hundredths of a unit, the risk units of a policy in tenths, multiples, confidences and multipliers in
hundredths; the code's rounding to six decimals is rounding to the nearest hundredth of a percent. A fraction is
a pair, so that the cuts are exact before the one rounding at the end. Of warnings and gaps only their presence
is kept.

### Discovery
`discovery_jobs.py`, the funnel of `full_market_discovery.py`, and the disk caches and archives of
`universe_catalog.py` and `bulk_fundamentals.py`. `job` is the ledger, with its five stages; `scan` holds the
local variables of the coroutine that carries a job (its `at` is the place where it suspends); `universe`,
`batch`, `temp`, `archive` and `content` are the files, which outlive both. A file is an inode with the chunks
written to it: `Open` under a temporary name truncates the inode that has it, `WriteChunk` and `Publish` (which
renames whatever inode has the name by then) follow; a zip without its last chunk, the directory, is refused.
`RemovalRefused` is Windows, where an open file is neither replaced nor removed. `CikOf` is the number of a
share's company at the SEC: `Mapped` keeps the last share of each number, as the code's dictionary does. Then
the parsers, the bundles of DART by year and statement, `Gate`, the concurrent price tasks (`PriceArrives` in
any order) and `Rank`. `Close` is the shutdown of the server. `Starts` fixes the requests of a behaviour and
what earlier scans cached.

### Screening
The judgements that `Discovery` takes as choices: the gate and scores of `fundamental_screening.py`
(`Judge`), the chart score and starter list of `candidate_discovery.py` (`ChartScore`, `StarterScreen`), sector
evidence and ranking of `full_market_discovery.py` (`SectorScore`, `RankTotal`). `filings` and `quotes` are the
evidence on each company; `CorrectYear`, `Correct` and `Trade` change one datum, and `outcome` is the scan
that follows. Scores are hundredths of a point.

### Filings
The documents before they become such evidence: the listings of an exchange (`universe_catalog.py`), the facts
filed with the SEC and the OpenDART rows (`bulk_fundamentals.py`). A document grows by a row at a time
in any order; `Snapshot`, `Company` and `Statement` are what the parsers make of it. A figure is the number of the row
that gives it, so a property can say which row has to win. `Latest` is the loop of `_sec_annual_values` over the
entries of a tag, one value per turn.

### MarketRegime
`market_regime.py`: `Newest` and `Resolved` choose the fact in force of each signal, `Evaluate` judges the five
axes of the American and the Korean market, `PositionCap` gives the cap. `Arrive`, `Withdraw` and `Replace` change the
facts: in order, late, revised, unreadable, lost.

### ResearchContracts, MacroContext, Research
`ResearchContracts` has the records of `research_contracts.py` and the checks they must pass. `MacroContext` is
what a fetch of `macro_context.py` and `ecos_context.py` makes of the answers of the Treasury, the BLS and ECOS,
values reduced to the dates they were observed on. `Research` is `research_pipeline.py`: requests collect their
parts at once (`Begin`), look at the cache before (`Look`) and after the wait for its lock (`Enter`), fetch
and store (`MacroArrives`, `EcosArrives`, `SourceFails`), may be cancelled (`Cancel`), and return when all is
there. The clock may be set back, since cache ages are taken from the wall clock, also between
the fetch of a price and the request for it (`HasBeen`). `Bundle` is what is
returned: cut off at the request's time (`Restricted`), aged (`PricePart`, `CompanyPart`), merged (`Merged`) and
judged (`Quality`). The market overview is a request without a price. `FetchCompany` is the company client of
`company_research.py`.

### Rules
Composes `Screening`, `Filings` and `MarketRegime` by `INSTANCE`: a behaviour exercises one of the three rule
books while the others rest, so that one run answers for all of them and one module holds the theorems on them.
`RulesMC`, `CommitteeMeetingMC`, `DiscoveryMC` and `ResearchMC` only give values to constants.

## 5. The runs

| Run | Question | Bounds, and why they are enough |
|---|---|---|
| `work_queue` | Exclusion per lane, ownership of the provider's answer, one call per attempt, queue order, no item forgotten | Two items, two lanes (one that may be answered without the provider), two drains, two attempts, two stops (the second may cut recovery), one refused write. Two items of a lane are needed to compete, with a drain each; a retry after a stop needs two attempts. |
| `analysis_run` | Grounded decisions, human gate, agents and their run, what recovery leaves, the promise, the end of undisturbed runs | One run launched at once and one dispatched up to twice share one slot, so that one waits; two analysts and two debaters (one may fail while its sibling works); two stops (the second may cut recovery), one refused write. |
| `analysis_run_stranded` | A launched run ends, also after a stop and a restart: *violated*, see section 7 | One run suffices. |
| `scheduler` | Once, not early, one task per claim, agreeing outcomes, an end for every schedule | Three schedules against a limit of two claims, one subject, two moments, two stops, one refused write. |
| `committee_meeting` | One speaker, minutes that tell every speech, a faithful record, asking for the end leads to it | Patient clients, two sessions, three commands, two turns each, two stops, one outage. Two speeches fill a meeting and may queue before its end; a third is refused. |
| `committee_meeting_crowd` | Turns tell the speeches | Impatient clients: four commands at any time on two sessions, two turns, one stop of the process. Four commands reopen a meeting and end it again. The property speaks of storage that accepts every write, so there is no outage. |
| `committee_meeting_reopened` | Minutes are final for impatient clients: *violated*, see section 7 | Three commands suffice. |
| `risk_gate` | Bounded loss with ordered prices, monotone sizing, evidence, gates | The default policy with two and a half risk units, so that they count, with values on both sides of each of its thresholds, each indicator also missing, prices at which the stop falls below zero, all qualities, three multipliers. Every input is an initial state. |
| `discovery` | Ledger and tasks agree, caches whole, funnel, every accepted scan ends | Two scans race on the same files, one forced; or one scan of either market over every batch that earlier listings may have left: the present one, one that lacked a share, one with another share. Three shares, two of which are classes of one company, the only one that files; an archive of two chunks (data, directory), two bundles of annual reports, one price request and one candidate allowed, one security excluded. |
| `discovery_gaps` | A company without fundamentals shows: *violated*, see section 7 | A listing that exchanges one of two members. |
| `research` | Bundles the contract accepts, no hindsight, no silent loss, no needless fetch, an end for every request | A request with a Korean, a past and a mismatched variant, and one of the overview; two macro answers, whole and broken, besides failures; a cache that lives for one tick of two, set back once. |
| `rules` | Monotone screening, neutral gaps, whole listings, latest filings, monotone caps, late news | Four companies (the sector evidence needs three) and two changes, one of which may prepare the other; listings of two rows, three facts (the third between two others), three accounts; two changes of twelve macro signals across their thresholds. |

Deadlock is not checked in any of them: a server without requests, with all bounds used up, stands still, and
computations end. Two notes on bounds: a lock's waiters are served in any order (asyncio serves them
in theirs), which adds behaviours; and two changes of the evidence compare neighbours, from which a longer chain
of corrections follows step by step.

What some properties rule out, and the mistake that their variant makes: `CallOwnsItem` makes the stale-state
errors after the provider call unreachable (a running item that could be cancelled breaks it).
`OneCallPerAttempt` counts the calls of every attempt, and fails when recovery queues an interrupted item again
under the same attempt. `DecisionIsGrounded` and `HumanGate` depend on the order of five writes.
`NoAgentOutlivesRun` depends on gathering the cancelled siblings before the run is stored as failed.
`NothingStranded` depends on recovery closing outputs before their run. `RunsOnceInTime` and `SchedulesEnd` pull
in opposite directions on what recovery does with a claimed schedule. `OneSpeaker` depends on never restoring a
session that has an object already, `MinutesTellAll` on an end that waits for the lock, `KeepsRecord` on
restoring the stored turns. `NoLargerWhenWorse` compares the size of a position with that in every worse
situation of the grid. `CachedBatchIsWhole` holds although two scans do tear each other's archive, because a
torn archive makes the parser fail. `FunnelNarrows` depends on asking prices only of members of the present
listing. `GapsAreNeutral` depends on renormalising the weights. `NoHindsight` needs the cut by publication as
well as by observation. `BundlesAreAccepted` needs a bundle's cutoff that is the latest of what it joins, not
the time of the request.

### Fairness
- Tasks: weak fairness of the steps of each task (`Work(j)` of a scan, `Serve(r)` of a research request, and
  the like). asyncio runs every ready task; a provider call has a timeout and ends in an answer or an
  exception; HTTP calls have timeouts too.
- `Scheduler`: weak fairness of the clock, of the poll, which the loop repeats every few seconds, and of
  `Restart`: whoever runs the office starts it again. `SchedulesEnd` has no meaning without it.
- `AnalysisRun`: `RestartedSpec` adds the restart to the tasks' fairness; only `analysis_run_stranded` uses it.
- Nothing is assumed about requests, cancellations, stops or refused writes. `QueuedItemsServed`, `UndisturbedRunsEnd`
  and `EndIsReached` excuse behaviours with a stop or a refused write, after which a human has to act;
  `ScansEnd` excuses the end of the server.

## 6. The proofs

`tlapm` checks eight proof modules without open leaves; `PROJECT.json` lists their theorems. They hold for all values
of the constants that satisfy the named assumptions, so for any number of tasks, stops, refused writes, clients,
files, requests and rows, where the runs have the few of section 5. Almost none of the properties is inductive;
each paragraph names what had to be added.

**WorkQueue** (`TypeCorrect`, `LaneExclusion`, `CallOwnership`, `SingleCallPerAttempt`, `QueueIsFifo`).
`IInv` adds: a drain in the provider has an item that is running in its lane, alone, and no drain exists while
the server is down (`DrainInv`); running items of a lane are equal also outside of any drain, as after a crash
(`LaneInv`); an attempt that waits or is still to come has not been sent, and none was
sent twice (`CallInv`); the clock of a lane is the
greatest sequence number in it, and sequence numbers are tickets (`OrderInv`), which needs a lemma on the
maximum of a finite set. One lemma serves each kind of step (entering the queue, an outcome, a start, a drain
that leaves or sleeps, a stop) and `NextInv` sends every action to one of them. *Assumed* (`WorkQueueAssumption`):
the gap roles are roles, `None` is neither an item nor a role, bounds are natural numbers.

**AnalysisRun** (`TypeCorrect`, `Grounding`, `HumanGating`, `NoOrphanAgent`, `NothingIsStranded`, `RunKeepsPromise`).
The invariant has three parts. `Sound` is about a stored record alone, at any moment, also after a stop in the
middle of a handler: what each status and each output implies about the ones before. `Matching` says what the
phase of the task and the states of its agents say about the record they work on. `Tidy` holds
while storage has refused nothing, and is what recovery relies on and restores. Each action has a lemma, and
above them there is one lemma for each way a stretch of writes may go (through, cut by a stop, refused).
`RunKeepsPromise` shows every step, a recovery that fails several runs at once included, to be a step
or a stutter of `RunPromise`. *Assumed* (`AnalysisRunAssumption`): analysts, debaters and the chairman are different and
the first two not empty, as the code's role tables have them; bounds are natural numbers.

**Scheduler** (`TypeCorrect`, `RunsOnce`, `TasksFitRecords`, `OutcomesAgree`). `Fit` joins the record
of each schedule with the tasks there are for it (`Tasked`), with the status of its run (`Paired`) and
with the number of starts (`Begun`). *Assumed* (`SchedulerAssumption`): finitely many runs, since the greatest
sequence number must exist.

**CommitteeMeeting**. For any clients, `Orderly`: a command is in exactly one place, its task or a place in one
object's queue; only the head of a queue may be in the provider; and its object has room for its turn. From it
`TurnsMatchSpeeches`. For patient clients, `PatientInv` adds that all commands under way belong to the one open
meeting and only the last of them may ask for its end (`Courteous`), that the active object begins with the
turns stored last and has others only after a refused write (`Current`), and what each speech has left behind at
every place it can be in (`Accounted`). From it `SpeaksOneAtATime`, `MinutesAreWhole`, and
`SnapshotsKeepTheRecord`, the refinement of `MeetingRecord`, through outages too: what memory has and storage
lacks is added by the next snapshot, at the latest with the minutes. These three are stated under `Patient`, and
fail without it (section 7). *Assumed* (`CommitteeMeetingAssumption`): at least one turn per meeting, `NoOne` is
no session.

**Discovery** (`TypeCorrect`, `LedgerAndTasksAgree`, `CacheIsNeverTorn`, `FunnelOnlyNarrows`). `Fits` says of each job,
at each place where its coroutine may suspend, which stages have begun and how they ended (`Reached`), which task
carries it (`Carries`), that each stage has no more than the one before let pass (`Chained`), and that what
it has read and found are members of its universe with fundamentals (`Sound`). `CacheIsNeverTorn` is about files
any number of scans share: a batch is whole or was never made, as a file without its directory chunk is refused by
whoever opens it; `HolderFacts` says that the last share of a company is one of its shares, and the same for all of
them. *Assumed* (`DiscoveryAssumption`): finitely many tickers, and caches that are whole to begin with.

**RiskGate** (`TypeCorrect`, `GatesTighten`, `EvidenceIsNeeded`, `LossStaysBounded`, `WorseIsNoLarger`), for
every policy that passes the code's own validation (`RiskGateAssumption`), any number of risk units up to ten
included, and all inputs. A cap is a natural number and a blocked plan has none, since every cut turns a
fraction into a fraction and a natural fraction rounds to a natural number (`TypeInv`). `ReductionLowers`:
rounding a cap times a multiplier of at most one gives no more than the cap. `EvidenceInv` says, stage by stage,
which kind of missing evidence has closed the plan by then. `Bounded` relates a plan to the prices it was made
from; it rests on the order of fractions (`NoMore`, `Below`), kept by every cut and by rounding.
`WorseIsNoLarger` compares two assessments: each cut is monotone in its datum (`SizeInv`), and the reference
entry grows more slowly with the average range than its distance from the stop.

**Research**. `FetchersHoldTheLock`: a fetching task's request holds its lock. The property is about pairs of
requests, the invariant about one request and the lock, hence one lemma for each way a step treats a task and
the lock (leaving it, taking it, storing, ending). From it the action property `FetchesAreNeeded`.
`AnswersHaveArrived`: what tasks, caches and requests hold are answers of their sources at times the clock has
shown. Everything about the bundle follows from that invariant and from what `Restricted`, `Merged` and
`Quality` do to such answers: `AnalystsLackHindsight`, `NothingIsLostSilently` (each step from the fetch to the
merge tells what it drops: `Candid`, `Reports`, `Derived`, `Follows`), and `CollectNeverStumbles` (names are
unique and sections known: `Proper`, `Named`, `Strangers`; the cutoff of a bundle is the latest of what it
joins: `LatestOfTimes`). *Assumed*: `None` is no request (`ResearchAssumption`); nothing is published before it
is observed and ids of filings are unique within a company's answer (`FilingsAssumption`); dates are points of
time, and a request that names a cutoff names a past one (`TimesAssumption`). The last is a condition on
callers: `collect` does not check it, and no caller in the repository gives a later one.

**Rules**, the theorems on `Filings`, `MarketRegime` and `Screening`. Facts first, for any number of them, about
any signals: `EvidenceInv` says that a signal has one fact for each time and revision, with an integer value. So
a late fact is not in force, which leaves those in force as they were (`LateNewsIsIgnored`); and a worse reading
changes one value of those in force, after which no axis looks better, no flag is dropped and the least of the
caps does not rise (`WorseIsNeverLooser`). Documents, of any length: `ListingsAreWhole` shows that a key has
exactly one first record, and counts the members by a bijection with those records. `LatestFilingsPrevail` shows
that the loop over the entries is defined and holds the latest filing after every turn. Companies last, any
number of them. `CompaniesInv` says that the evidence is well formed and the last scan is the scan of it; that
alone is inductive, the rest is about what a scan computes. `BetterIsNeverWorse`: growth is a `CHOOSE`, so first
there must be such a rate (`GrowthIsDefined`, by the least one that is exceeded) and it must fall with the first
revenue and rise with the last (`GrowthOrdered`); counts of positive years, ratios to a positive base and scores
are monotone (`PositiveCounts`, `RatioOrdered`, `ScaleIsScore`, `ClampIsScore`, all on `Division`), hence the
gate (`BetterPasses`), the quality on the same equity (`BetterQuality`) and the total (`WeightedOrdered`).
`GapsStayNeutral`: a ranking is a permutation (`OrderedListsOnce`: the number of those above is an injection
into an interval of the same size, so each place has a company); therefore medians exist and sectors and charts
have scores (`MedianIsNumber`, `SectorIsScore`, `ChartIsScore`). Giving a company a valuation changes nothing
else in a scan of the same companies (`OnlyTheValuation`, `SectorAsksLittle`), and the sum of the other scores
lies between 33.33 * 35 points, as two years of three in profit and with cash are worth that, and 100 * 90,
between which a ninetieth of it exceeds a hundredth and does not exceed the hundredth with full marks added
(`GapBetweenScores`). `StarterListsAll` joins three rankings of disjoint sets. *Assumed*: days are counted from
a first one and `None` is apart from numbers (`DocumentsAssumption`); readings are finite numbers
(`ReadingsAssumption`); filings and quotes have the fields and kinds of values their parsers give them, finitely
many companies are numbered, moving averages are positive, profiles and strategies are those of the code
(`CompaniesAssumption`). Proofs about loops, here and in `Discovery`, argue by the least number that fails
(`NatLessThanWellFounded`, `WFMin`), since the library's induction theorems take an operator as a parameter,
which the installed provers cannot instantiate.

*Only model-checked.*
- All liveness properties (`UndisturbedRunsEnd`, `SchedulesEnd`, `EndIsReached`, `ScansEnd`, `RequestsEnd`,
  `QueuedItemsServed`): the prover has no `ENABLED`, hence no weak fairness.
- What the violated runs show, and the three properties of meetings outside of `Patient`.

## 7. Divergences

Shown by a run:
- **A manual run may wait for ever** (`analysis_run_stranded`). `run_analysis` is to complete or fail its run
  (`orchestrator.py:379`), but a run that waits for its slot when the server stops is stored as queued;
  `recover_interrupted_runs` looks at running runs, and nothing launches the run again.
- **Minutes may be overwritten** (`committee_meeting_reopened`). A speech that waits for the lock behind a
  finish looks only at `stop_requested` and the number of turns (`committee_broker.py:302`). After
  `finalize_meeting` it still speaks, and saves a running snapshot over the minutes.
  Such a meeting cannot be closed any more: who asks for its end again is given the first minutes out of the cache
  (`committee_broker.py:493`) and nothing is stored, so it stays running, and the run's active one, until the
  process ends. `EndIsReached` is therefore about patient clients.
- **A missing company may not show** (`discovery_gaps`). `full_market_discovery.py:387` compares the number of
  cached fundamentals with the number of members. When the listing has exchanged a member since, the scan is
  complete and counts no gap, where `src/README.md:39` promises one.

Part of the models, and the reason for a condition in a property:
- `claim_due` claims "atomically" (`scheduled_analysis.py:211`), yet after a refused write the claims stored
  before it have no dispatch task until a restart. That part of `TasksMatchRecords` says `faults = 0`.
- A run whose second starting write is refused (`orchestrator.py:400`) is stored as running with no task:
  the try block starts below. That part of `NothingStranded` says `faults = 0`.
- A refused snapshot after a speech (`committee_broker.py:376`) yields two turns for one speech; a refused write
  of the except block (`:383`, `:390`) leaves its turn, if it got that far, in memory alone until the next snapshot.
  `TurnsTellSpeeches` and the last part of `MinutesTellAll` say `faults = 0`.
- The mark of a stop is in memory and in the cache only (`committee_broker.py:430`): when the process ends before
  the minutes, the restored meeting goes on.
- A refused write in a drain (`work_items.py`) ends the drain and leaves its lane's queue waiting until the
  next request.
- A meeting that was not read since a restart does not stop `start_meeting` from opening another
  (`committee_broker.py:264`). `KeepsRecord` is about clients that read first.
- An object of a meeting that another one has replaced keeps the speeches at its lock, and a stop marks only the
  registered object (`committee_broker.py:430`, `:778`). `OneSpeaker`, `MinutesTellAll`
  and `EndIsReached` are claimed for patient clients.
- A command to a session that ended acts on the run's newer meeting (`main.py:1307`).
- A shutdown during a directed speech leaves its output running, as `except Exception` does not see
  a cancellation (`committee_broker.py:379`).
- A job that is cancelled before its task first runs stays queued in the ledger (`discovery_jobs.py:232`), which
  `LedgerMatchesTasks` allows once the server is down.
- Two scans that write the same temporary archive tear it, and then both fail or read what the other published.

Seen while modelling, and not the subject of a property:
- The loss of the VIX reading in a crisis raises the cap on positions from a quarter to a half: an unknown axis
  caps less than `vix_crisis`. `WorseNeverLoosens` is therefore about readings, not about their loss.
- The market overview passes stale macro facts to the regime evaluator, which the pipeline leaves out.
- Two classes of shares of one company share its number at the SEC, and `bulk_fundamentals.py:217` keeps one member
  for each number: only the class listed last gets fundamentals. The others are counted as lacking data
  (`full_market_discovery.py:278`) although the company has filed.
- The three years of a company need not be consecutive; the age of its report is that of the latest filing of any of
  their figures.
- A KRX row that is too short is not counted among the rows of a listing, as other refused rows are.
- The DART parser falls back to separate accounts account by account, so one statement may mix both kinds.
- No source of independent news exists, so that section is always unavailable and no bundle is eligible.
- The age of macro facts is judged when they are fetched, not when the cached result is used.

## 8. What is not modelled, and why

- *Event broker.* Bounded queues between the services and the browser; no service waits for an event.
- *Price gateway, indicators, chart analysis.* Floating point arithmetic on series, and a fallback between
  sources; the modules take a snapshot of prices as an input.
- *Codex provider.* A subprocess behind `AnalysisProvider`: the modules take its answer, failure or cancellation
  at any time; that the process is reaped is not shown.
- *Storage.* Each module holds what its component stores; a write is atomic, may be the last one before a
  stop, and may be refused.
- *Market overview, source registry, decision archive, pages, prompts, scripts.* Read-only or presentation. Of
  the overview, its request for the macro context is in `Research`.
- Parts of modelled components: the claim ledger and the text of minutes; two snapshots of one clock tick
  (the newest is always well defined); a second refused write inside an except block of an analysis run, and event writes
  (whose failures are swallowed); the decoding of archives, HTML and numbers; a listing without SEC numbers, which is
  kept for a day; an unconfigured ECOS, which yields the section of a failed one without being cached;
  the FRED client, which nothing constructs.

## 9. The plan

Done: every component of section 4, with all its safety properties proved;
`AnalysisRun` implementing `RunPromise` and `CommitteeMeeting` implementing `MeetingRecord`, model-checked and proved.

Left, the most useful first:

1. `EventBroker`: a subscriber sees a subsequence that ends with the newest event.
2. `PriceGateway`: the fallback and the age of what it returns. `CodexProcess`: reaping on timeout and
   cancellation.
3. The composition of `Scheduler` with `AnalysisRun`, in place of the reduced run of the former.
