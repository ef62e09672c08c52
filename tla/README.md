# TLA+ models of stock-quote-fetcher

This directory holds a formal model of the parts of stock-quote-fetcher whose
correctness depends on order, failure and time: who may write the collection
tables, how three programs use them, how refresh jobs are claimed and leased, how
often the sources are called and what their answers become, what may be deleted,
what the saved list of holdings goes through between browser and row, and what
totals and reports may claim. TLC checks the models on small instances; TLAPS
proves the most important facts for all sizes.

Paths without a directory are under `src/stock_quote_fetcher/`.

## 1. Inventory

| Component | State | Operations | Interacts with | What makes it correct |
|---|---|---|---|---|
| Storage: session and lock (`storage.py`) | connection, `failed`, `locked`, the server's advisory lock | open, `acquire_lock`, transactions, close | every writer | one session can write; the lock always comes free |
| Storage: collection tables (`storage.py`, `migrations/0001`) | campaigns, scheduled cycles, runs, holdings, cycles, attempts, quotes, valuations | create/start/finish/stop/interrupt/recover | collectors, administration, reporting | open work is nested, results are whole, history is final, an opportunity is claimed once |
| Quote command (`quoting.py`) | one run, its cycles | `execute`, `run`, `run_cycle`, `collect`, `choose_cache` | storage, providers | every source is asked, a new quote wins over a cached one |
| Monitor (`monitor.py`) | a run of a campaign, the opportunities left, `stop_event` | `execute`, `_wait_until`, signals | storage, quoting | opportunities taken in order, none passed over or missed, it resumes and ends |
| Refresh jobs (`dashboard.py`) | `refresh_jobs` rows with leases | `claim`, `progress`, `visible`, `recover_jobs`, `run_job` | storage, quoting, fx, catalog, the web page | one job works at a time, a live job reads as running, an end that was seen stays |
| Provider pacing (`quoting.py`, `provider_cooldowns`) | cooldowns, spacing, deadline | `collect` | providers, attempts in storage | waits that sources ask for are honoured |
| Portfolio (`dashboard.py`, `static/app.js`) | revision, rows, draft | `save`, `get`, `valuation` | web page, refresh | no update is lost, the page shows what was saved |
| Valuation and quality (`valuation.py`, `quality.py`, `models.py`) | none | `value_holding(s)`, `assess` | storage, dashboard, reporting | incomplete totals never read as complete |
| FX (`fx.py`) | `fx_rates` | `fetch`, `save_fx_rate`, `latest_fx_rate` | refresh, valuation | the newest stored rate is used |
| Catalog (`catalog.py`, `instruments.py`, `otc_catalog.py`) | generations with expiry | `fetch_all`, `save_instrument_catalog`, `resolve_holdings` | collectors, portfolio | a generation is replaced as a whole |
| Providers (`providers.py`, `provider_worker.py`) | none (a subprocess per call) | `fetch_one` | sources on the network | a call is bounded by its timeout; a wait is bounded whatever a header says |
| Administration (`cloud_db.py`) | none of its own | `prune`, `purge`, `check`, `bootstrap` | storage tables | nothing that is still referenced is deleted |
| Reporting (`reporting.py`) | none | `build_run`, `build_campaign` and their sections | storage snapshots | sections that count the same thing agree; nothing wrong is claimed of the stored rows |
| Input (`input.py`, `web_input.py`), web (`web.py`, `web_auth.py`), CLI and configuration (`cli.py`, `config.py`), edge worker (`worker/`), scripts | sessions, limits | parsing, routing, forwarding | all of the above | boundary checks |

Hard behaviours: several processes on one schema; sessions that die without the
server noticing; commits whose acknowledgement is lost; processes killed between
two transactions; leases that expire while the work goes on; several instances
of one service; stop requests at any moment; deadlines, retries and waits.

How the parts meet: a collector opens a `Storage` session, takes the
session-level advisory lock, recovers what an earlier process left open, and then
writes one transaction per method. The dashboard runs a refresh inside one
request: it claims a job row, takes the same collector lock, and runs the quote
code once per batch. Cooldowns travel from one process to the next only through
the saved attempts.

## 2. Modules

| Module | Models | Extends |
|---|---|---|
| `CollectorStore` | the store and its most general client | |
| `CollectorStoreProofs` | the inductive invariant `StoreInv` and its theorems | `CollectorStore` |
| `Collectors` | the control of quote, monitor and refresh over the store | `CollectorStore` |
| `CollectorsProofs` | what a process remembers of its run, cycle and campaign, the theorems about them, and that the collectors implement the store | `Collectors`, `CollectorStoreProofs` |
| `Totals` | what is added up from stored quotes: a cycle's totals, the page's totals | `Collectors` |
| `Reporting` | the sections of run and campaign reports, in every state of the collectors | `Totals` |
| `ReportingProofs` | the theorems about totals and about what run and campaign reports say | `Reporting`, `CollectorsProofs` |
| `Quality` | `assess`, the reasons of `value_holding`, cache reuse, comparability (pure) | |
| `Schedule` | `build_schedule` (pure) | |
| `CalendarProofs` | theorems about the two pure modules | `Quality`, `Schedule` |
| `JobBoard` | abstract: what a reader of refresh jobs is promised | |
| `RefreshJobs` | claim, lease, stages of `run_job`; refines `JobBoard` | instance of `JobBoard` |
| `RefreshJobsProofs` | `RefreshInv`, `LockInv`, and that the job table shows a `JobBoard` | `RefreshJobs` |
| `Sources` | what the worker and `fetch_one` make of an answer (pure) | |
| `ProviderPacing` | `QuoteRunner.collect` and `provider_cooldowns` in time | `Sources` |
| `ProviderPacingProofs` | `PacingInv` and its theorems | `ProviderPacing` |
| `Retention` | `prune` and `purge` against collectors, jobs and listings | |
| `RetentionProofs` | `EvidenceIsWhole` and `RetentionInv` are inductive; what `prune` and `purge` leave visible | `Retention` |
| `Portfolio` | the saved list, from the browser's windows to the row | |
| `PortfolioProofs` | `PortfolioInv` and its theorems | `Portfolio` |
| `MC...` | the constants of the checked instances, and evaluations of the pure modules | |

### CollectorStore

Each table is a function from row identities (UUIDs in the code) to records; an
unused identity is a row with status `"absent"`. One writer method is one action,
with the guards of its `_running` checks, its explicit refusals and the UNIQUE and
foreign-key constraints it runs into. A transaction is one step because no other
session can write these tables while the lock is held: that is what `SingleWriter`
establishes. `Commit` gives every transaction its two committed outcomes
(acknowledged, or reported as failed although committed); `RollBack` is the third.

The server's side of the lock (`lock`) is separate from the client's belief
(`locked`). A client that dies or is cut off leaves an `Orphan` session that
owns the lock until the server ends it. `stamp` stands for the two closing
timestamps, `ended_at`/`completed_at` and `recovered_at`.

Abstracted: prices, hashes, snapshots and timestamps (except which one was set);
a stored quote is `"usable"` or `"unusable"` for its own holding, which is the
verdict of `value_holding`. That this verdict may be fixed when the quote is stored,
although it is computed again at each use, is `PricingIsStable` and
`ReusedQuoteIsPriced`. The heartbeat column is left out: no writer reads it.

### Collectors

`pc` and `task` are a process's place and local variables. Every database write
is an action of `CollectorStore`; the rest of an action is what the program
remembers and where it goes. `Goto` sends a process whose storage call failed to
`"closing"`, which is what the `if not storage.failed` tests of the handlers come
to. `Unwind` is the path of an exception of any other kind. `task.started` is read
at launch, before the lock, as `monitor.execute` does. The table of places:

| Place | In the code |
|---|---|
| `opened`, `locked`, `recovered`, `planned` | between `Storage(...)`, `acquire_lock`, `recover_incomplete`, the campaign and `start_run` |
| `run`, `cycle`, `attempt`, `retry` | in `run`/the monitor's loop, `run_cycle`, an open attempt, the sleep before the next one |
| `late` | between `start_cycle` and `stop_cycle("skipped")` |
| `stopping`, `ending` | in the exception handlers of `run_cycle` and of the monitor |
| `done`, `closing` | between `finish_run` and `finish_campaign`; leaving the `with` block |

Orders that the code fixes and the properties do not depend on (markets by name,
batches by staleness) are left open, which allows more behaviours. A retry is
offered after any failure below the limit; the code also needs a retryable status
and time, so the model includes both choices. Whether a cached quote is still
acceptable to today's calendar is a choice too.

### Totals and Reporting

A sum is modelled by the set of holdings whose values it adds: two sums agree when
they are over the same holdings. A market has one currency, so the holdings of a
market are those of a currency, and `Home` is the market of the home currency.
`Completeness` and `calculate` are the code's decisions over these sets;
`CompleteMeansFresh` and `TotalIsWhole` relate them to what the collectors did.

A report is a function of one read-only snapshot, so `Reporting` adds no step: its
operators are evaluated in every state of a campaign, for every cut-off `asOf`, also
one that is behind the clock. `endedAt` of `Collectors`, `runs.ended_at`, is there for it.
What the rows say beyond the model (a quote's age, whether an attempt reached its
source, a foreign currency) is a `reading`, a parameter of every section; the
properties use the most favourable one, `AllFresh`, under which what is still
missing is missing by the collectors' doing. `Maintenance` is a set of times, and
`Regular` comes from `Schedule`.

### Quality and Schedule

A calendar is a set of sessions (open and close, each within one day), a rule holds
the limits of the code: five seconds of clock skew, 1200 s of admitted delay, the
polling interval and ten seconds of slack. A quote is the record of what these
functions read: its two times, delay, kind, session, flags. `Reuse` is what
`finish_cycle` makes of a quote that `choose_cache` took: it reads the stored row
again and adds the flags of this use. `Schedule` is arithmetic on whole seconds.

### RefreshJobs and JobBoard

Several requests on any instances share the rows. Times are kept as the time left
(lease, deadline, stage) in units of ten seconds; a provider stage may end at any
moment up to its limit, a database statement takes no time at this scale.
`visible` is the read view; `Put` overwrites the row blindly as `put_job` does. The
collector lock can also be held by a command-line collector. `JobBoard` says what
readers may rely on: one refresh at a time, a job seen running is seen to end, an
end that was seen stays. `BoardSpec` is that specification, with its fairness,
under the mapping `board <- visible`.

### Sources and ProviderPacing

`Sources` classifies an answer twice, as the code does: the worker process turns a
HTTP status, an exception or a payload's form into a status and a Retry-After, and
`fetch_one` turns a worker that is late, dead or successful into the Operation that
`collect` sees. What differs between the kinds of source (a library that hides HTTP,
one official file, a JSON service that needs a key) decides what each can answer.
`ProviderPacing` runs one runner after another (that there is one at a time is
`OneRunningRun`) on these Operations. `saved` is what `provider_cooldowns` can see:
the last completed attempt per source. A runner of `quote` starts with nothing
(`NewRunner`: `quoting.py:264` never calls `restore_cooldowns`); one of the monitor, or
of a batch of a refresh, starts with the saved cooldowns (`RestoredRunner`,
`monitor.py:203` and `dashboard.py:411`). Either may follow the other. `asked` and
`promised` are not in the code; they record what the sources asked of this runner, and
what each source's last answer, when it was a 429, asks of everybody.

Times are in ticks, `Second` of them in a second, because the code's clocks are finer
than its roundings. A visit refused for a cooldown saves at least one second
(`quoting.py:75`), also when less is left, while the runner keeps its own cooldown; and
it saves the default wait when the cooldown runs out between the two looks at the clock
(`Effective`). So what is saved may outlast what the runner knows, and the same runner
may then call although a saved refusal has time left; it never calls although a
*source* asked to wait. That is why the properties are about what sources asked, and why
`LastCooldownHolds` is about runners that restored: a quote after a 429 may call at once,
and does.

### Retention

A compact image of the store's tables: a run with the cache keys it quoted, the run
whose quote values each key, and the last answer of each source; a tenure of the
collector lock is one step, because nothing else writes runs meanwhile. `prune` is
one step under that lock: `Protected`, its closure over the quotes that valuations
rest on (`Kept`, the least fixed point of the recursive query), and what is deleted.
`purge` reads its manifest and the cooldowns first (`BeginPurge`) and checks again
under the lock (`MayPurge`). The foreign keys are left out on purpose: a DELETE that
they would refuse loses evidence in the model and `EvidenceIsWhole` reports it. A run
has one cycle and at most one quote per key.

### Portfolio

`docs` is every document the row ever held, revision i being `docs[i]`. A list of
holdings is the set of the edits it contains, so that an overwrite shows as an edit
that is gone. A page has the script's own variables: `saved`, `draft`, `dirty`, the
revision a draft recovered after a login was made from, and what its screen shows;
`stored` is `sessionStorage`. Each request may be refused before its handler, fail
in it, or be cut while the handler still runs or is yet to run (`Abandoned`,
`adrift`): the page then does not know whether it was applied. `edits`, `stale` and
`logins` are history, not code.

## 3. Runs

| Run | Question | Result |
|---|---|---|
| `store` | `TypeOK`, `OpenWorkIsNested`, `QuoteIffSuccess`, `CompletedIffValued`, `ValuationHasQuote`, `OpportunityClaimedOnce`, `RecoveredTogether`, `EndedRowsAreFinal` for a client that calls anything in any order, with every failure | holds |
| `collect_shared` | `CTypeOK`, `SingleWriter`, `OneRunningRun`, `OwnWorkIsUntouched`, `FreshBeatsCache`, `CompleteMeansFresh` for two processes with a comparison source and a cache | holds |
| `collect_batches` | `EveryHoldingWasAsked`, `TotalIsWhole` over markets, batches and an unresolved ticker | holds |
| `campaign` | `CompletedRunMissedNothing`, `NonePassedOver`, `CollectorEnds`, `LockComesFree` for a monitor with restarts; `SectionsAgree`, `FreshnessIsEarned`, `EndedReportIsFinal` of its reports | holds |
| `refresh_jobs` | `WorkReadsAsRunning`, `OneRequestWorks`, `LockHasWorker`, `BoardSpec` when a quiet stretch is shorter than the lease | holds |
| `provider_pacing` | `TypeOK` (with the limit of every wait), `RunnerHonoursWaits`, `LastCooldownHolds`, `VisitEnds` | holds |
| `retention` | `EvidenceIsWhole`, `PruneIsInvisible`, `CooldownSurvivesPurge` | holds |
| `portfolio` | `LostOnlyAfterTwoLogins`, `DraftSurvives`, `ScreenSettles` | holds |
| `lease_overrun` | `WorkReadsAsRunning` when a batch has both markets | violated |
| `cooldown_lost` | `CooldownOutlivesRunner` | violated |
| `twin_campaigns` | `SoleActiveCampaign` | violated |
| `recomputed` | `RecomputationAgrees` | violated |

Every run of `MCCollectors` and `MCReporting` also evaluates, as assumptions, the pure
modules over small sets: `ScheduleIsOneGrid`, `AssessedInPlace`, and `StaleIsReused`,
which shows that a quote that was fresh is really reused when it is stale.

### The four disagreements

* **`lease_overrun`** — `dashboard.py:28` says that a lease has to outlast the quiet
  stretch between two progress writes. The lease is one cycle budget, one call and
  30 s: 90 s by default. Progress is written once per batch, and a batch with a TW
  and a US position may take two cycle budgets, within a deadline of 110 s as
  deployed (300 s by default). TLC's trace: claim, rates, a batch longer than 90 s;
  everyone now reads the job as failed while its request goes on. The next request
  claims a new job, and the first one later writes its own result over the failure
  that was shown. The collector lock still keeps the quotes safe.
* **`cooldown_lost`** — `docs/architecture.md:219` says cooldowns survive restarts by
  means of each source's last `rate_limited` attempt. The query takes the last
  completed attempt of any status. TLC's trace: a 429 with a long wait, then an
  attempt of the same source that made no call (unresolved, out of budget, or
  interrupted), then a runner of the monitor or a refresh, which loads the saved
  cooldowns and calls at once. (The document lets a `quote` keep cooldowns to itself, and
  so its runners are not meant here.) `LastCooldownHolds` is what the code does keep.
* **`twin_campaigns`** — `storage.py:248` speaks of "the sole active campaign".
  The launch time is read before the lock, and the search for a campaign uses it:
  a monitor launched before another one's campaign started, but given the lock after
  it, finds none and creates a second. Later starts without an id are refused.
* **`recomputed`** — `reporting.py:348` recomputes quantity × price "for manual
  checking", and `docs/system-spec.md:179` lets V04 follow the agreement. A new quote
  is selected even when it may not price its holding (another currency, a source
  clock more than five seconds ahead), and `finish_cycle` then stores no value beside
  its id. The recomputation finds a product where NULL is stored, reports a mismatch
  and V04 as not met, although the stored rows are what they should be.

Disagreements met while modelling that no run shows:
* `static/app.js:18`: a login stores the revision of the document on the page, so that
  after a second login a recovered draft is saved against a document its user never
  saw. `LostOnlyAfterTwoLogins` states the limit, and is violated without it.
* `static/app.js:50`: the retry after a renewed token passes `undefined` for
  `reloadOnRedirect`, which defaults to true, so the long refresh call does reload
  after all, contrary to the comment at lines 28–30.
* `static/app.js:121`: when a save succeeded and only the valuation after it failed,
  the page says that saving failed and the draft is kept.
* `reporting.py:610`: a recovered run has no `ended_at`, so its report is charged with
  gaps up to the cut-off time; `tests/test_reporting.py:393` says a run's share ends
  with the run.
* The page adds the cached flag to every quote it values, so its status never reads
  "complete" (`calculate` has no such outcome).

### Bounds

* Rows: one to three of each kind. Two runs are needed for anything that crosses a
  restart, two cycles for a quote cached from one into the other, three batches to
  have a middle one. `Spare`/`RoomFor` let a process take the lock only while the
  tables have room for a whole run, so that no behaviour ends for want of an identity;
  a process that finds no room is refused as if the lock were taken.
* `store` has one client, which still meets its own orphaned session; what two
  clients do to each other is `collect_shared`, and `OneWriter` is proved for any
  number. The lock has one owner, and any number of others are refused alike.
* `MaxTime` is the end of the clock; a monitor is launched only when the clock can
  still reach its planned end. In the runs with a monitor the system may come to
  rest when the clock and the rows are used up, so deadlock is not checked there;
  everywhere else it is. The session of `campaign` opens at 1 and closes at 2 with an
  opening delay of 1: two opportunities, one of them regular, one in maintenance, and
  three possible lengths of delay (in time, late, past the end).
* `collect_shared` has one attempt per source and four attempts in all, so that a cycle can be
  valued beside another cycle's quotes of both sources, and its two processes are symmetric; `campaign` has two attempts per source,
  the smallest number with a retry.
* `refresh_jobs`: budget 5, call 1, grace 3, deadline 11, cooldown 6 units are the
  deployed 50 s, 10 s, 30 s, 110 s and 60 s. `MaxJobs` 2 lets a second job overlap the
  first. `CatalogTime` 3 assumes a listing fetched within the lease; the code does
  not bound it (a comment in `dashboard.py` records 135 s), and a longer one has the
  effect of `lease_overrun`.
* `provider_pacing`: a library source and an official file; two ticks in a second, so
  that a wait can have less than a second left; headers of 0, 3 and 9 ticks against a
  limit `Longest` of 5 (86 400 s in the code), a default wait of 4, budgets of 3 and 8 and
  three attempts. So a wait can end inside a cycle, outlast it, outlast the runner, or be
  cut to the limit.
* `retention`: three rows of any kind, one key and `Keep` 1 (20 in the code): enough
  for a run, a run that reuses its quote, and a third that pushes the quote out of the
  cache window. `MaxManifest` 2 rows per purge.
* `portfolio`: two windows, two edits, two filters, three revisions (the first, one
  save, one conflicting save). `Viewing`: valuations get through while one window is
  open, where answers may come in any order; with two windows they fail at once, since
  valuations of different windows do not meet. `MaxValuing` 2 calls of a page at a time.

### Fairness

* `Collectors` (also under `Reporting`): time passes; the server ends the session of a
  dead client (TCP keepalive); a program that is running goes on; a call on a broken
  connection ends in an error (`connect_timeout`, `statement_timeout`). Nothing is
  assumed of launches, stop requests, crashes or failures.
* `RefreshJobs`: time passes and a request being served goes on. A killed request
  needs no assumption: its lease ends with time.
* `ProviderPacing`: time passes and the runner goes on (`sleep` returns, the worker
  process is cut off at its limit).
* `Retention` and `Portfolio` state no liveness: nothing obliges anybody to prune,
  or a user to save.

## 4. Proofs

The assumptions are those named in the modules: on the shapes of the constants
(`MarketAssumption`, `NoneAssumption`, `SlotAssumption`, `TimeAssumption`,
`SourceAssumption`, ...). No bound is assumed: any number of clients, rows, tickers,
sources, keys, windows, requests and retries. Theorems about what a report counts use
that tables are finite (`TableAssumption`), and that a time is not NULL (`TimeNone`). One theorem family has a hypothesis on
times, `QuietStretchesFit`, and it is named in every statement that needs it.

Every safety and action property of the passing runs is a theorem. Each inductive
invariant opens the proof module of its component, and was checked with TLC as an invariant
of that component's runs before it was proved; then come the initial state, one lemma per
action or family of actions, and the temporal step. A proof that would not go through
corrected the models once: five definitions (`Selected`, `Completeness`, `calculate`, its mutant, `downtime`)
were CASEs whose arms overlapped, so that the first true arm was meant and any was
allowed; their guards are exclusive now.

**`CollectorStoreProofs`.** `TypeOK` and the properties are not inductive one by
one. `StoreInv` adds what they need of each other:
* `BeliefIsTrue`: a live session that believes it has the lock has it; `SingleWriter`
  follows, and it is what survives lost connections and new sessions.
* `RowsAreLinked`: the foreign keys. Without them nothing relates an attempt to
  the holdings of its cycle, which `CompletedIffValued` is about.
* `EndedIffStamped`: a row has a closing timestamp exactly when it has ended, so
  that recovery, which looks only at open rows, closes exactly whole subtrees.

The lemmas treat the initial state, session steps (which change no
table) and each writer method in turn; one step per conjunct a method can disturb.
Theorems: `StoreIsConsistent`, `StoreTypeCorrect`, `OneWriter`, `WorkIsNested`,
`QuotesAreOfSuccesses`, `CompletedAreValued`, `ValuationsRestOnQuotes`, `ClaimedOnce`,
`RecoveryIsWhole`, `HistoryIsFinal` (an action property, from the invariant and the
guards of every method).

**`CollectorsProofs`.** `CollectorsUseStore` shows that every step of the three
programs is a step of `CollectorStore` or leaves its variables alone: the store's
most general client really is general, and all of its theorems carry over.
On top of `StoreInv`, `CollectorInv` is inductive:
* `CTypeOK` includes `InHand`, what a process holds at each place;
* `OnlyOwnRunIsRunning`: while a writer works, the running run is its own, and
  between its recovery and its first run there is none. This is what makes
  `OneRunningRun` survive `StartRun`, and it rests on `SingleWriter`: another
  process can change the tables only if it can write.

The properties of finished cycles and runs speak of tables; why
they hold is in the memory of the process that wrote them. So further invariants relate
the two, for a process *while it can write* (a process that lost its session may hold
anything, and cannot do harm):
* `MemoriesFit`: a process remembers choices only inside a cycle, a campaign only as
  a monitor, and started no later than now.
* `VisitInv` (`CyclesRecalled`): of the pairs of a cycle, those still to visit have no
  attempt, those done have attempts 1..n, the one in hand has failed so far, and what was
  chosen for a holding is the cycle's own quote if it has one. At `finish_cycle` nothing
  is left to visit, and `FreshBeatsCache` and `EveryHoldingWasAsked` follow.
* `PlanInv` (`PlansInHand`): every opportunity of the campaign from the start of the run
  in hand is still in the process's list or claimed. At `finish_run` the list is empty,
  and `CompletedRunMissedNothing` follows; afterwards no step removes a claim or adds
  to a plan (`PlansStay`, `ClaimsStay`).
* `CampaignInv`: a process that is about to run a campaign, and each run of it, has the
  campaign's holdings; each cycle of such a run has an opportunity, and each opportunity
  is planned for its own campaign and market.
* `EndsAreRecorded`: a run that has ended has its time of ending.
* `OpenCyclesInHand`: no cycle is open but the one a collector has in hand. With the plan in
  hand it gives `NonePassedOver`: when the earliest opportunity left is taken, the earlier
  ones have cycles, and those have ended.
* `AttemptsAreNumbered`: the attempts at each pair of each cycle, also of one that was cut
  short, are numbered 1..n without a repetition. `BegunIsNext` takes it from `VisitInv`: what
  a process begins is the number after those it remembers.

That another process does not disturb this memory is again `SingleWriter`. Theorems:
`CollectorTypeCorrect`, `OneRunAtATime`, `WorkIsUntouched`, `CacheNeverDisplacesFresh`,
`HoldingsAreAsked`, `CompletedRunsMissNothing`, `NothingIsPassedOver`,
`AttemptsStayNumbered`.

**`ReportingProofs`.** What a report counts is a matter of sets, and that two sections count
the same is a bijection between two of them:
* `FreshnessMustBeEarned`: there is a bijection between the successes of the valuation
  source in regular windows, pairs of a cycle and a ticker, and the pairs of an
  opportunity and a holding for which the report finds a quote. It is one-to-one because
  an opportunity has one cycle (`ClaimedOnce`), and onto because the cycles of a campaign
  ask only about its holdings (`CampaignInv`); each pair is judged fresh, late or unknown
  exactly once.
* `EndedReportsAreFinal`: the cycles, attempts, quotes and valuations of an ended run are
  those it ended with (`EndedRunKeepsRows`, `EndedRunKeepsQuotes`, from `EndedRowsAreFinal`),
  its end is recorded with a time (`EndsAreRecorded`), so that what it is charged with stops
  there, and a gap can only be filled afterwards (`FewerGaps`).
* `SectionsMustAgree` (`SectionsAgree`): in the report of a campaign, with any cut-off time,
  the sections add up. Its four parts:
  * the plan and the table of cycles count the same cycles of each status
    (`PlanSeesCycles`): a cycle and its opportunity determine each other, and a claimed
    opportunity is due whatever the cut-off time;
  * the opportunities and the operations count the same attempts (`OperationsAddUp`): an
    opportunity stands for a cycle, a source and a holding, and has exactly one attempt
    with number 1 (`AttemptsAreNumbered`); the others are retries;
  * what the valuation source delivered is covered (`DeliveredIsCovered`): a success has a
    quote, and the cycles of a campaign ask only about its holdings;
  * the counts of a market's downtime windows add up to its gaps, and the windows are
    further apart than the polling interval (`DowntimeAddsUp`).

The last is about a recursive function and a fold. Neither the induction theorems of the
library nor those of its recursive definitions can be used (they take operators as
parameters), so both are stated for sets: `SetOfAll`, that a set of numbers with 0 that is
closed under successor is all of them, from `LeastNumber`; and `RecursionHasSolution`, that a
recursion over an interval of times has a solution when its step is a function, which is
what a recursive definition needs in order to mean its equation. The invariant of the recursion is
`WindowsOf(G, t, w)`: the windows `w` found up to time `t` are in order and further apart
than the polling interval, each counts the gaps of `G` inside it, and every gap up to `t` is
in one. Three cases keep it: no gap at the time (`NoGap`), one within the distance
that prolongs the last window (`NearGap`), and one beyond it, or the first, that opens
another (`FarGap`). `FoldCountsUnion` then turns the sum of the counts into the size of the union.

Theorems: `TotalsAreWhole`, a fact about the page's arithmetic that needs only types,
`CompleteTotalsAreFresh` and the three above.

**`RefreshJobsProofs`.** Whether a job reads as running is a matter of time, so the
invariant has to account for all of it. `RefreshInv` adds to `TypeOK`:
* `RowsInOrder`: jobs are numbered as created, and only the newest can be running on a
  live lease (`claim` refuses otherwise);
* `ActiveHasNewest`: a request being served has the newest job, alone;
* `LeaseLasts`: at each stage of `run_job` the lease still covers what is left of the
  present quiet stretch, from the last progress write to the next;
* `LockIsHeld`: the lock belongs to a request inside its `Storage` block.

It is inductive when `QuietStretchesFit`: the listing, and then the rates with one batch,
each take less than a lease. That is so for the times of the `refresh_jobs` run (one
market per batch); with two markets per batch and the deployed times it is false, which
is what `lease_overrun` exhibits. Under this hypothesis: `RefreshIsOrdered`,
`WorkIsSeenRunning`, `OneAtATime`, and the refinement `TableShowsBoard`: every step maps to
a step of `JobBoard` or a stutter under `board <- visible`.

`LockInv` needs no hypothesis, not even that leases last: `LockIsExact` says that a
request is inside its `Storage` block exactly while it owns the lock. This is the proof
that the collector lock still keeps the quotes safe when a lease has run out under a
working request. `RefreshTypes` and `LockIsGivenBack` (`LockHasWorker`) follow from it.

**`ProviderPacingProofs`.** `PacingInv`: the runner's own cooldown of a source covers
what the source asked of this runner, and, while it lasts or in a runner that restored,
also what the source's last answer asks of everybody (`CooldownCovers`); a saved 429 or
refusal covers that too, so that a restored runner starts with enough (`SavedCovers`); and
from the spacing before a call to its answer no cooldown is running (`NoCooldown`). The last
is what `RunnerHonoursWaits` needs between the check and the call, the others are what makes
the check worth anything. A refusal saved over a 429 keeps `SavedCovers` only because it is
never shorter than the cooldown it was refused for. Theorems:
`PacingIsKept`, `PacingTypeCorrect` (with the limit of every wait), `WaitsAreHonoured`,
`CooldownsAreRestored` (`LastCooldownHolds`).

**`PortfolioProofs`.** `PortfolioInv` follows an edit from draft to row: `Kept(rows, list)`
says that a list which takes the place of `rows` drops of them only what the user gave up,
and each carrier of a list (the page, `sessionStorage`, a save on its way, one nobody waits
for) is `Kept` against the document of its revision, unless it went through two logins.
`ScreenFits` is the other half: a page that shows values of an old list waits for a call
whose answer counts. Theorems: `PortfolioIsKept`, `PortfolioTypeCorrect`,
`SavesKeepOthersEdits` (`LostOnlyAfterTwoLogins`), `EditsSurvive` (`DraftSurvives`),
`ScreensSettle`.

**`RetentionProofs`.** `RetentionTypes`, then `EvidenceStaysWhole`: given `TypeOK`,
`EvidenceIsWhole` is inductive. The step that matters is `Prune`: a kept run's
evidence is kept because `Kept`, an intersection of closed sets, is itself closed;
no induction over the length of a chain of reuse is needed. `Purge` follows from its
refusal of shared evidence, and a collector values only with quotes of runs that exist.

What readers see of a deletion is two action properties, and `RetentionInv` is for them:
* `OldIsOver`: a cooldown is over before its run is old, and before any newer run is;
* `ManifestIsCreated`: a purge's manifest names only runs that existed when it was read;
* `ReadingIsKept`: a cooldown in a run the manifest names is one the purge has read.

`PruneIsUnseen` (`PruneIsInvisible`): a doomed run is old, so no last answer behind it is a
cooldown; and a doomed run is outside the window of each key it quoted, so that at least
`Keep` newer quotes of the key stay and taking it brings no other one into the window.
`PurgeKeepsCooldowns` (`CooldownSurvivesPurge`): a cooldown that arose after the
purge read the cooldowns is in a run newer than any the manifest names. "The last row"
is the greatest identity of a set, by well-founded induction on the naturals.

**`CalendarProofs`.** Facts about every quote, calendar and time, without a state
machine: `ReassessmentIsExact` (assessing what was assessed before loses nothing),
from which `PricingIsStable`; `ReusedQuoteIsPriced`; `StaleStays`, where disjoint
sessions carry the argument over a night; `AlignedArePriced`; and `ScheduleIsClipped`,
from `LeastMultiple` (the rounding of the first tick) and `TicksOfTheGrid`. The last
is why `MCCollectors` may take a campaign's times from one plan of the whole period.

**Only model-checked:**
* the liveness properties and what depends on fairness (`CollectorEnds`, `LockComesFree`,
  `VisitEnds`, the fairness part of `BoardSpec`), which is beyond the prover: it has no
  rules for fairness and `ENABLED`;
* the four properties that the code violates.

## 5. Not modelled, and the plan

Next, in this order:
1. `Session`: token renewal between page, server and edge worker.
2. `FxRates`: the append-only table with the refresh.
3. Reporting's price comparison with its tick sizes, the trading-day list and V10.

Named limits of the models: a monitor restores cooldowns as of its launch, a moment before it
restores them, so that its waits are a moment longer than modelled, never shorter; and the
random quarter second of a retry's delay is left out. A quote that a source calls pre- or post-market but
stamps outside every session becomes session UNKNOWN in `assess` and would be priced
(`AlignedArePriced` therefore assumes the sessions that `normalize` can read; no source
in `providers.py` produces another). `Totals` does not degrade a value for the flags of
its own quote, so it reads "complete" in more states than the code. The report of a run
outside a campaign has no plan and is left out.

Left out for good: parsing of files and spreadsheets, HTTP, TLS and certificates, the
download and parsing of listings, decimal arithmetic, the wording and layout of reports
and summaries, the network protocols of the sources, command line and configuration,
migrations, operator scripts, and permission checks (`check_permissions`, `bootstrap`):
sequential code without state of its own. Known limits that no property covers are
listed with their reasons in `PROJECT.json` under `hazards`.
