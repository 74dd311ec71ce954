# SentinelGraph in TLA+

A verification development of SentinelGraph, a web application assessment
platform: a FastAPI service over PostgreSQL and Redis, Celery workers that run
the phases of a scan, a scan engine whose requests pass a scope gateway, and a
standalone API that needs none of them. Paths below are relative to
`src/backend/` unless they start with `src/`.

## The system

| component | state it keeps | operations | how it interacts |
|---|---|---|---|
| Scope service `app/services/scope_service.py` | rows of scopes and their validations | create, update, delete, initiate and verify validation | read by the scan service; deleting a scope cascades over its targets and scans |
| Scan service `app/services/scan_service.py` | rows of targets, scans and scan phases | create target, create scan, cancel scan | calls the orchestrator and `control.revoke` in the middle of a transaction |
| Database sessions `app/core/database.py` | one transaction per request | commit after the handler, rollback on an exception | every handler |
| Orchestrator `workers/orchestrator.py` | none: it builds a Celery chain | `build_workflow`, `start` | called by `create_scan`; sends the first task |
| Celery worker `workers/celery_app.py`, `workers/tasks/` | messages in five queues, unacknowledged deliveries, the chord counter of the group, revoked ids in memory | deliver, run, retry, fail, acknowledge, revoke, redeliver | tasks start the next stage; none touches the database |
| Scope gateway `app/engine/scope_gateway.py` | resolved and pinned addresses in Redis | `validate_request` | the prober calls it before and after each request |
| Rate limiter `app/core/redis.py` | a counter with an expiry per scope | `is_allowed` | called by the gateway |
| Prober `app/engine/http/prober.py` | none | `probe`, `probe_full`, `check_alive` | gateway, crawler |
| Crawler `app/engine/crawler/` | frontier, visited set, page count, robots rules | `crawl` | prober |
| Progress feed `app/api/v1/websocket.py`, publisher in `redis.py` | connections of each scan, Redis subscriptions | connect, disconnect, broadcast, publish | browser, Redis |
| Standalone API `run_api.py` | `scan_state` in memory, a results file, a report file | start scan, background task, load at start | full scanner, report generator |
| Full scanner `full_scanner.py` | findings, frontier, crawled pages, URLs with parameters | `run_full_scan`: ten phases of requests | active probes, correlation, risk |
| Quick scanner `scanner.py` | findings | `run_scan` | none of the engine |
| Command line `scan_cli.py` | files, outputs of the workflow, an exit code | `main` | either scanner, report generator |
| Active probes `app/engine/detection/active_probes.py` | what each probe found | `run_all`: six concurrent probes, then three | full scanner |
| Correlation and risk `correlation.py`, `app/engine/risk/scoring.py` | none | deduplicate, boost, chain; score, level | full scanner |
| Header analyzer `app/engine/fingerprint/header_analyzer.py` | none | `analyze`: findings, score, grade | no caller yet: a library of the engine, as is the crawler |
| Reconnaissance, technology detection, passive checks, AI analyst, report generator `app/engine/` | none: functions of responses and findings | | each other |
| Authentication `app/services/auth_service.py`, `app/core/security.py` | rows of users | register, login, refresh, update profile | every route |
| Frontend `src/frontend/` | view state | | standalone API, static results |

What is hard about it, and what the properties are for:

* **Transactions with calls inside them.** A handler reads, awaits and writes in
  READ COMMITTED, commits after it has returned, and between the two hands work
  to Celery, which no rollback takes back.
* **Late acknowledgement.** `task_acks_late` and `task_reject_on_worker_lost`
  repeat a task whose process died, and Redis repeats one that takes longer than
  its visibility timeout; each repetition starts the next stage again, and a
  group must not be passed because one member ran twice.
* **Cancelling something that moves.** The id `start` returns is that of the last
  task of the chain, which may be waiting, running, finished or not sent yet; its
  revocation is a broadcast that nobody waits for.
* **Caches shared by requests.** The gateway resolves, checks, pins and counts in
  separate awaits, and every one of them may fail; what it keeps of a host is shared by
  scopes with different lists.
* **Counters with an expiry set by a second command.**
* **State that nobody updates**: no task writes a scan's status.
* **Probes that disturb each other.** Six coroutines ask one site at once, some of them
  compare two of its answers, and a limiter all of them use up answers in between.
* **A report put together from parts**: several phases contribute findings, later phases
  change their severity, files may fail to be written, and an exit code must still say
  whether anything severe was found.
* **Advice that is followed**: the fix for one finding of the header analyzer changes what
  its other checks see.

The hazards, each at its line, are in `PROJECT.json`.

What makes each component correct: scans exist only under a validated, active
scope of their owner; an active scan has a workflow, and a cancelled one
no report once its revocation has arrived; phases run in order and none is lost; whatever
the gateway lets through is an address that the lists it was given accept and within the
rate; the crawler fetches a page once, within its budget, and loses none of the links its
extractor returns; the standalone API runs one scan at a time
and shows the result it has stored; a probe reports what the site does, whatever else is
asked of it at the time; the report accounts for every finding, each once, with the worst
severity its chains give it, and the exit code tells of it; advice never makes a grade
worse.

## Modules

**`PhasedWorkflow`** is the orchestrator's promise (`workers/orchestrator.py:55-61`)
and nothing else: a task completes when the stage before it has.

**`ScanPipeline`** is the workflow as Celery runs it: `Submit` is
`ScanOrchestrator.start`, `StageOf` the chain `build_workflow` puts together (two
tasks share stage 3), `QueueOf` the routes of `celery_app.py`. A delivery is
`Deliver`, then the task's body (`Succeed`, `RaiseAndRetry`, `RaiseAndFail`), then
`Ack`, so that a process lost between the last two (`LoseProcess`) repeats what has
already had its effect. `recorded` is the chord counter: the member of a group that
completes it starts the next stage and resets it. `Redeliver` is Redis' visibility
timeout, `RestartWorker` loses the revoked ids the worker kept in memory (there is
no `--statedb`). What differs between builds and deployments is the constant
`Deployments`: the tasks whose bodies raise and the queues a worker reads. The
bodies of the tasks are stubs in the source; only `run_reconnaissance` retries.
Celery, kombu and Redis are not in the repository: they are modelled from the
options set and the calls made.

**`ScanService`** is the database and the requests that change it. A row is a
record or `Gone`; a request is one record in a slot, which holds where the handler
is and what it has read. Each handler is split at its awaits: `create_scan`, for
instance, into target, scope, check, insert, hand-over and commit. An uncommitted
row is not visible to other requests but holds its foreign keys' rows against
deletion (`Inserting`, `Blocked`). `Rollback` may happen at any step of any
request, for whatever reason. Read-only handlers are left out. `update_scope`
changes no field that a handler of this module reads; the address lists and the limit it
does change are read by the gateway, and are the `Configurations` of `ScopeGateway`.

**`ScanSystem`** composes the two. `StartScan` is a step of both. `RevokeScan` only sends
(`control.revoke` broadcasts and does not wait): the revocation is in `broadcast` until the
worker gets it (`ReceiveRevoke`, a step of the pipeline) or never does (`LoseRevoke`), so
that CANCELLED may be committed first. `Restart` is a worker that forgets what was revoked;
`missed` is history, the scans whose revocation was lost or forgotten. Every other step is
one of either part. The module relates what the database says of a scan to what Celery does
for it.

**`RateLimiter`** is `RateLimiter.is_allowed` for one identifier: `Incr` and `Expire` are two
Redis commands with other callers, time and a lost caller between them. Each caller passes
the limit its scope had when it was loaded, up to `MaxRequests`. `recent` is
history: the requests allowed in the last `Window` ticks.

**`ScopeGateway`** extends it with `validate_request`. A request carries the scope object
that its caller has loaded, one of the `Configurations`: several scopes, and several versions
of one that `update_scope` has changed in between (`schemas/scope.py:80-89`). The keys of the
resolve cache and of the pin hold the host's name alone (`scope_gateway.py:282`, `:354`), so
`resolved` and `pinned` are shared by all of them; the limiter's key is the scope's id, and the
module has the counter of one scope (`LimitedScope`), while that of another answers either
way (`LimitElsewhere`). `BeginOutside`,
`BeginExcluded` and `Begin` are the outcomes of checks 1 to 3, which depend on the
URL and the scope alone; then address (`ResolveCached`, `ResolveName`,
`ResolveNothing`, `CacheAddress`), pin (`ReadPin`, `WritePin`), limit
(`CountRequest`, `Limit`) and audit, each access to Redis a step. `RedisFails` is an
exception at any of them. A name may resolve to any address at any time, and a
cached or pinned address may expire at any time (`Forget`), which covers their 60
and 300 seconds.

**`StandaloneApi`** is `run_api.py`. A background task begins when the response of its
request has been sent (`Begin`), awaits the scanner, and from its return to the last
assignment is one step (`Complete`, `ReportFails`, `QuickScanReturns`, `SaveFails`,
`ScannerRaises`), as nothing in it awaits; only the end of the process cuts it short, and
`LeftBehind` is what the two files may then hold. What a scan finds is a model value.

**`Crawler`** is `Spider.crawl`: `Batch` takes from the queue what the inner loop takes,
the tasks of a batch start in its order (`StartFetch`, `StartWithout`) and their responses
arrive in any (`HtmlArrives`, `ErrorArrives`). Links come in any order, as the extractor
returns a set's elements. The site, its `robots.txt` and the budget are a constant
(`Sites`); a denial of the scope gateway is one of the errors. `crawled` and `fetches`
are history.

**`ActiveProbes`** is `ActiveProbeEngine.run_all` for one URL. A step is what a coroutine
does between two requests it awaits. Each probe has its cursor (parameter, stage, payload)
and its results; the six go on in any order (`XSSReflectionProbeOnce`,
`SQLInjectionProbe`, ...), `Collect` is the return of `gather`, and CSRF, CORS and rate
limit follow one by one. The SQL probe is four stages: errors, a pair of answers
(`BooleanTrue` keeps the first while it awaits the second), a baseline and a delay. What a
page does with a payload is data (`site.effects`); a limiter of the site counts the
requests of all probes together and refuses with 403, 429 or 200.

**`Findings`** has the pure operators: `Deduplicate`, `Boost`, `Chains`, `Escalate` and
`Correlate` from `correlation.py`; `BaseScore`, `TechModifier`, `AssetFactor`, `FinalScore`
and `RiskLevel` from `scoring.py`. **`FullScan`** uses them: the first request, the crawl,
the sensitive paths (answered in any order), `run_all` for every URL with parameters (a
step: `ActiveProbes` shows that its results do not depend on how its requests interleave),
correlation and scores. A request is hindered when it fails, or when a limiter of the site
refuses it: the refusal of a page has no links, that of a sensitive path counts as "blocked"
(403) or as nothing (429), and of a `run_all` some results may be missing, or replaced by
those of a later payload, or all be lost to an exception (`hindered`). A page whose request
succeeds may still be cut short: the `try` around it covers `urljoin` and `urlparse`, which
raise for a malformed href, and what is behind that href (links, and all parameters of the
page) is lost (`Readable`, `HasParams`). **`QuickScan`** is the other scanner over the same state;
**`ScanCli`** runs either and turns what it returns, or raises, into files, a summary and
an exit code.

**`HeaderAdvice`** is `SecurityHeaderAnalyzer`: its eleven checks, the score and the grade
are operators of the headers; the only action is a site owner who follows the advice of one
finding and has the site analysed again.

**Proof modules**: `ScanPipelineProofs`, `ScopeGatewayProofs` (with the limiter),
`ScanSystemProofs` (the service, and its composition with the pipeline),
`StandaloneApiProofs`, `CrawlerProofs`, `ActiveProbesProofs`, `ScanCliProofs` (both
scanners, correlation and the command line) and `HeaderAdviceProofs`.
`MC_ScanPipeline` and `MC_ScanSystem` give TLC its deployments, `MC_ScopeGateway` its scopes,
`MC_Crawler`,
`MC_ActiveProbes` and `MC_ScanCli` their sites, `MC_HeaderAdvice` its headers.

## Runs

| run | instance | what it shows |
|---|---|---|
| `scan_pipeline` | 1 scan, 2 pool processes, 1 fault, 3 deployments | phase order, no lost task, exactly once without faults, revoked reports, aborted chains, settling, refinement of `PhasedWorkflow` |
| `scan_pipeline_shipped` | the shipped deployment, 1 process, no fault | violated: no workflow reaches its report |
| `scan_service` | 2 users, 1 scope, 1 target, 2 scans, 3 requests at a time, 2 validations | rows stay under an active, validated scope; nothing visible is unqueued; cancellation revokes; endings are final; at most as many active scans as concurrent requests |
| `scan_service_race` | the same with 2 requests | violated: two active scans of one target |
| `scan_system` | 1 scan, 2 requests, 1 process, 1 fault, 1 revocation on its way | the database and Celery agree as far as the code makes them: a running scan is worked on, a cancelled one's report and an orphan workflow have a cause |
| `scope_gateway` | 2 callers, 1 host of 2 scopes in 3 configurations, 3 addresses, limits of 2 and 1 in 2 ticks, 1 lost caller | allowed and pinned addresses were accepted; rebinding means allow-listed; bursts are bounded; a counter without expiry has a cause; validations end; a window opens again |
| `standalone_api` | 3 accepted scans, 2 ends of the process | memory and files agree; scans do not overlap unless their requests raced; a running scan ends |
| `standalone_api_restart` | 1 scan, 1 end of the process | violated: the next start raises on what was left behind |
| `crawler` | 2,048 link relations of 4 pages and a foreign one, with and without a disallowed page, budget 2 or 9, batches of 2, depth 2, 1 error | one request per page, the budget, no extracted link lost, termination |
| `active_probes` | 2 parameters, 1 or 2 payloads a table, 6 sites, 1 failing request, 1 slow answer | what is reported is real, with three explained exceptions; undisturbed, the concurrent probes find what sequential ones would; `run_all` returns |
| `full_scan` | 11 sites of up to 4 pages of which 3 are crawled, one with a malformed link and two with a limiter, 3 sensitive paths, 3 steps with a failure or a refusal, both scanners | no finding is lost or counted twice; an undisturbed scan is whole; the exit code tells of severe findings and chains; every step is progress |
| `header_advice` | 2,208 initial headers, 6 policies among them | following advice never lowers the score, and leads to A+ or to the one finding no advice removes |

Why the bounds are enough. Scans of the pipeline share only the worker, whose
processes one scan's group already contends for; two processes are what it takes
to run both members of the group, or a task and its repetition, at once, and one
fault what it takes to repeat a task. (The theorems hold for any number of each.)
For the database, two requests race and a third interferes with both, for example
by deleting the scope between one's check and another's commit; one target and two
scans are what a double start needs; two validations are a stale and a new one.
For the composition, one revocation on its way at a time: a second one of the same scan
tells the worker nothing new (with two the run passes as well). For the gateway, two callers,
and one address of each kind the checks tell apart: public, private, and private but on an
allowlist, where one configuration of the limited scope, and the other scope, block the public
one: so what one caller caches and pins another may refuse. A limit of two is the smallest of which a burst
across two windows exceeds one of them: the run reaches 3 requests in one window's time, the
most that `BurstBounded` leaves. For the standalone API,
two scans overlap and a third is accepted when one of them has reset the status; one end
of the process leaves a file and a second follows a load. For the crawler, batches of two
are the smallest that mix depths or hold a page twice, and four pages link in every way
that queues a page from two others of one batch. For the probes, two parameters are the least that
have a probe go on while another waits; tables of two payloads have a first one that shows
nothing; the limiters come into force in the middle of a pair, during the parameters and
after them. For the scanners, the sites are the cases the code tells apart: nothing to find,
a chain of harmless findings, links in a circle and off the host, a page more than the
budget, several chains for one category, an internal address, a link that cannot be parsed, a limiter
that answers 403 and one that answers 429. For the headers, every value
of half of them occurs with good ones throughout, and of the other half with bad ones.
Deadlock is
checked in the gateway's run and in that of the command line; a workflow, a crawl or
`run_all` ends, and the ids of rows
and scans can be used up, so the other runs do not check it.

Fairness. Pool processes keep running their tasks and acknowledging them, the
consumer keeps discarding revoked messages, a started request finishes or is rolled
back, a coroutine whose await is over goes on, a caller between the limiter's
commands sends the second, a request of a probe is answered or times out, and time
passes: that is what an event loop and a
worker process do. All of it is weak fairness. `FullScan` and `ScanCli` need none: every
step decreases `Distance` (`EveryStepGetsCloser`), a natural number, and TLC finds no
deadlock. `ScanSystem` and `HeaderAdvice` are checked for safety only. Nobody owes a new request, a
cancellation, a fault, an expiry or a failure of Redis; nothing is assumed of the
order in which messages are delivered.

## Where the code and its words part

* `create_scan` promises that no scan is already running for its target
  (`scan_service.py:119`); check and insert are not atomic and the schema has no
  constraint (`OneActiveScanPerTarget`). What does hold is `ActiveScansBounded`.
* `run_reconnaissance` logs `scan_id` twice, a `TypeError` inside its own `try`,
  so that every workflow ends in its first phase (`ReachesReport`). Were it repaired,
  the worker of `docker-compose.yml` would still not read `ai_queue`: the same run's
  deployment has both defects, and `WorkflowSettles` assumes every queue is read,
  so that no property is about that one.
* What a quick scan saves is the text of a dataclass, and a process that ends while it
  saves leaves a part of a file; both keep the standalone API from starting again
  (`ComesUpAgain`). A full scan whose first request fails is shown as complete, and its
  two-field result replaces the last good one (`Complete` with "failed").

Others, which the models follow and no run states:

* No task writes a scan's status, so that the scan of a finished or aborted workflow stays
  RUNNING (`scan_service.py:163`), though the orchestrator is said to drive the pipeline end to
  end (`workers/orchestrator.py:4`).
* `cancel_scan` is to "cancel a running scan" (`scan_service.py:230`), but only broadcasts the
  revocation of the last task: the report may still be produced after CANCELLED is shown, and
  every phase before it is run (`CancelledReportExplained`).
* The gateway's cached and pinned addresses are keyed by the host alone (`scope_gateway.py:282`,
  `:354`): a request may find a pin that its own scope would refuse, and one public address
  replaces another's pin. `AddressesAccepted` is what holds: the address of the request itself
  is always checked against its own lists.
* One malformed href ends the extraction of a page in silence (`full_scanner.py:228-243`), and
  a limiter's 403 is reported as a blocked path. `UndisturbedScanIsWhole` is what remains.
* The link extractor of the crawler returns URLs without their query strings: the line that
  would append them is a statement of its own behind the `return`
  (`link_extractor.py:122-123`). It swallows what it cannot parse (`:83`, `:125`). `LinksFollowed`
  is about the links it returns.
* The limiter is documented as sliding (`redis.py:93`) and counts fixed windows;
  `BurstBounded` is what it does guarantee.
* The crawler is documented as breadth-first (`spider.py:4`); a batch may mix depths, and what
  is found first need not be nearest (`:102`). `LinksFollowed` is what holds in any order.
* `scan_cli.py --type quick` always ends with exit code 1 and no summary: it asks a dataclass
  for `.get` (`scan_cli.py:80`). A full scan whose first request failed ends with 0.
* The quick scanner raises a `TypeError` where a page shows an internal address: it slices a
  set (`scanner.py:398`).
* "Verified findings score higher" (`scoring.py:111`), but the findings that reach
  `score_all` have no field `verified` (`:230`). The importance of an asset is that of the
  first keyword in the table, not of the greatest (`:166-169`).
* `full_scanner.py:280` hands the target's page to the CSRF probe of every URL, and each
  reports the target's forms.
* A delay is measured once (`active_probes.py:262`), a pair may be split by a limiter that
  refuses with 200 (`:217`), and fifteen refusals with 403 count as no limit (`:620`): the
  three exceptions of `ReportedIsReal`.
* The policy that the header analyzer recommends (`header_analyzer.py:172`) is one it reports
  as weak (`:184`, `:188`); `scanner.py:87` recommends `X-XSS-Protection: 0`, which
  `header_analyzer.py:331` reports.

## Proofs

`ScanPipelineProofs`: for every set of scans and deployments, every finite
set of processes and every number of faults; the assumptions are
`PipelineAssumption` and `DeploymentAssumption`.

* `TypeCorrect` is inductive as it stands. `Redeliver` and `RestartWorker` add copies,
  `Deliver` and `Discard` take one only where there is one.
* `PhasesInOrder`. `PhaseOrder` is not inductive: it says nothing of a delivery that
  waits for its acknowledgement, whose loss sends the message again. `OrderInv` says
  that every message that exists anywhere is *due* (its scan submitted, the stage
  before it done), and that the chord counter counts only finished tasks. `DueStable`
  is why nothing but `Succeed` needs an argument: what is due stays due.
* `NoTaskLost`. The hard case is the group: a member that runs twice is counted once,
  and a member that runs again after the chord has fired is counted in a new round.
  `CountInv`: a finished
  task is counted in `recorded`, or its whole stage is done.
* `RevokedReportStops` needs only the type invariant: `Revoke` kills the process and
  `Deliver` refuses what is revoked.
* `RaisingStops` rests on `RaisingNotDone` (a task that raises is never done) and
  `OrderInv`: a later task would have it among its predecessors.
* `PipelineImplementsWorkflow`: initial states map to initial states, `Succeed` to
  `Complete` (or a stutter, if it repeats), every other action to a stutter.

`ScopeGatewayProofs`: for every set of callers, hosts and addresses, every set of scopes and
of configurations of them, every limit and window. The limiter's proofs use
`LimiterAssumption` and, in the gateway, `GatewayAssumption` (a configuration's limit is at
most `MaxRequests`); those about addresses need no assumption.

* `AddressesAreAccepted` and `RebindingIsAllowlisted`. Neither is inductive: `WritePin` pins,
  `Audit` allows and `ReadPin` reports what an earlier step of the request read. `AddressInv`
  adds that the address of every request past the check of addresses is one that the lists
  it carries accept, which no other request can undo, since address and lists are the
  request's own: neither an update of its scope nor a request of another scope reaches them.
  The resolve cache stays unconstrained: what is read from it is checked again. Of a pin it
  remains that some configuration accepts it.
* `ExpiryIsExplained`. `LimiterInv`: unless a caller was lost, at most one caller is between
  INCR and EXPIRE, it is there exactly while the counter has no expiry, and an expiry never
  outlives its counter. `GatewayStepsTheLimiter` carries it over from the limiter: every
  step of the gateway is one of the limiter or leaves it alone.
* `GatewayTypeCorrect` follows from the two invariants.
* `BurstsAreBounded`. That the last `Window` ticks saw fewer than twice `MaxRequests` requests is
  not inductive: nothing in it relates `recent` to the counter. `BurstInv` splits `recent` into
  the requests of the present counter, of which there are at most as many as it has counted and
  at most `MaxRequests`, and those of earlier ones, which are fewer than `MaxRequests` and were
  all allowed before the present counter's expiry was set. When it runs out they have left the
  window, and so has the request that set the expiry: the present counter's others become
  the earlier ones. A sum over the ticks of the window
  is a recursion, so `Number` counts marks instead: one for every request of every tick.

`ScanSystemProofs`, first part, about `ScanService` alone: for every set of users, scopes, targets and scans, and every finite set
of requests (`ServiceAssumption`). None of the properties is inductive, because a request acts
on what it read some awaits ago.

* `ServiceInv` adds to the types, for every request, what is still true of what it has read
  (`ReadsHold`) and what its uncommitted row locks (`LocksHold`): a target or scan that is
  being inserted keeps the rows it refers to from being deleted (`Blocked`), two requests never
  insert the same row. From it follow `ScansStayUnderActiveScope`, `ActiveScopesAreValidated`,
  `VisibleScansAreQueued`, `CancelledScansAreRevoked` and the action property `EndsAreFinal`.
* `ActiveScansAreBounded` has an invariant of its own (`BoundInv`): a request that has passed
  the check found no active scan, and from then on counts against the target as the scan it
  will commit does.

`ScanSystemProofs`, second part: `SystemImplementsParts` shows that every behaviour of the composition is
one of the service and one of the pipeline (`remembered` for its revoked ids), so that the
theorems of both hold of it. `HandOver` then links their variables: what the worker was given
is what the service queued, and every revocation the service sent is on its way, remembered
or missed, whatever fails. `CancelledReportsAreExplained`, `RunningScansAreWorkedOn` and `OrphansAreExplained` combine it
with `CancelledScansAreRevoked`, `VisibleScansAreQueued`, `RevokedReportStops` and
`NoTaskLost`. The assumption is `SystemAssumption`.

`StandaloneApiProofs` (`StandaloneAssumption`): `StandaloneInv` has the types, `DownIsQuiet` (a
process that is down shows and runs nothing), `OneInProgress` (without the race a request whose
response is being sent excludes every other) and `CompleteMatchesFiles` itself.
`ShownIsStored` and `ScansDoNotOverlap` follow.

`CrawlerProofs` (`CrawlerAssumption`: a page has finitely many links): `FetchesAreBounded` counts
the pages visited and those a batch will add, which only `Batch` increases; `LinksAreFollowed`
rests on `LinksReached` (a link of a crawled page is visited, queued or in the batch, so that
no step drops it), `OnHost` and `DoneInv`.

`ExactlyOnce` of the pipeline needs `OnceInv` while there was no fault: a task has one message,
with any number of retries, which waits or is run by one process, and none once it is done.
`OrderInv` gives that a stage that is started has not been started before.

`ActiveProbesProofs`: for every site and all tables of payloads and parameters
(`ProbesAssumption`: a site is a record with a limiter or none, a natural number of answers
before the limiter steps in, and a sequence of forms; the parameters are a sequence, and a
table of payloads holds at least one). `ReportsAreReal` rests on `ProbesInv`,
which is needed because a result combines answers that were awaited at different times:
`PairInv` says that the tautology's answer a probe keeps is still the answer to the pair it is
at, or the limiter's refusal, and then the limiter is in force for good; `GatheredInv` that what
a probe has found stays true (`Lasting`) while the others go on; `StatusInv` that the codes the
rate limit probe collects are those of unlimited answers.

`UnhinderedIsSequential` compares what six interleaved probes return with a definition that has
no interleaving (`Sequential`): for each weak parameter the first payload that tells, from the
first table that has one. `UnhinderedInv` says of every probe that it is at a place of its
tables (`PlaceInv`); that no payload before it, nor any table before the present one, tells
anything for the present parameter, and that a tautology it keeps is the page's answer
(`SilentInv`); and that what it has found is exactly what `Sequential` selects among the
parameters it has passed (`PassedInv`), whatever the other five do in between, since they only
share the limiter. `SelectedGrows` is the lemma the step rests on: a weak parameter appends its
result to the selection, any other leaves it as it is. `KeptInv` carries the result past
`Collect`, to which CORS and rate limit only append.

`RequestsGetCloser`: `StepsLeft` adds up the requests each probe may still send for its
parameters and what `run_all` does after them. `WayInv` keeps the cursors in their tables;
`NextIsLess` and `FurtherIsLess` say that the next parameter, and the next stage or payload of the
same one, leave less.

`ScanCliProofs`: for every site, table of sensitive paths, budget, number of failures and
list of findings (`SitesAssumption` says what a site is: its links and findings are lists, also
those of a hindered `run_all`, none of which is about a sensitive path, a URL with a query
string has parameters, a
finding has a severity and a confidence in their ranges; `FullScanAssumption` that no path is in the table
twice).

* `ScanInvariant` is the inductive one, a conjunct for each part of the state: the pages that are
  queued, found and crawled (`PagesInv`), that an undisturbed crawl drops no readable link and remembers just the pages whose
  parameters it could look for (`CrawlWhole`),
  the answers to the sensitive paths (`AnswersInv`), the raw findings and the phase that may have
  added them (`FindingsInv`, `ProbesInv`), what the scanner returns (`OutcomeInv`) and what the
  command line makes of it (`StepInv`).
* `ReportCovers`. `Deduplicate` keeps the first finding of every key, in order: the selection lemmas
  about places and ranks give a kept finding for every raw one, and one only. `EscalateKeeps`:
  chains and boosts raise severity and confidence and change neither key nor CVSS score;
  `FinalScoreRises`: what they raise scores no less.
* `ExitTells`. `StepInv` says that an exit code of 0 needs a written summary and no critical or
  high finding among the counts; `AlarmIsCounted` that a list with a severe finding, or with all
  the categories of a chain, has one there once it is correlated.
* `UndisturbedIsWhole` rests on `CrawlWhole`: what was crawled without a failure or a refusal
  is closed under readable links, and a closed set that holds the target holds every page
  reachable from it (`ClosedHoldsReachable`), while nothing else is ever queued
  (`ReachableGrows`); by `AnswersInv` the answers are those of the site, whatever their order.
* `StepsGetCloser`: a phase outweighs everything that can be left to do inside it (`LeftIsLess`,
  `PhaseOutweighs`), so that `Distance` falls when a phase ends as well as inside one.

`HeaderAdviceProofs`: from every combination of header values (`HeaderAssumption`).
`ScoreOfHeaders` turns the score into eleven costs, each a function of one or two headers.
`AdviceFixes` says what advice changes, and `FixedIsCheaper` that no cost grows by it: the advice
for a missing policy may set what stands in for X-Frame-Options, the one for a weak policy keeps
its directives. `WhereAdviceLeads` follows from `IdleAdvice`: a finding whose advice changes
nothing is one of a weak policy.

What only TLC checks: liveness (`WorkflowSettles`, `ValidationEnds`, `WindowReopens`,
`RunningEnds`, `CrawlEnds`, `ProbingEnds`, `ReachesReport`), which TLAPS does not prove. Of
`ProbingEnds` and of the end of a command, the theorems about measures show the part without
`ENABLED`: there are no infinite behaviours, and TLC finds that a step is possible until the end.
Every invariant and every action property of the passing runs is stated by a theorem.

## Not modelled

* The tables of targets and scans are assumed to exist: the one migration
  (`alembic/versions/001_initial.py`) creates users, scopes and validations only.
* `autodiscover_tasks(["workers.tasks"])` looks for a module `workers.tasks.tasks`;
  the model assumes the worker has imported the tasks.
* Redis evicts keys under memory pressure (`docker-compose.yml:132`); the model
  assumes that no message, chord counter or limiter counter is evicted.
* The connection pools of Redis and PostgreSQL and their limits.
* The progress feed: nothing publishes or broadcasts, and the endpoint that subscribes to
  Redis never reads its subscription (`websocket.py:78-96`); its messages reach nobody, which a
  model would only restate. Each connection leaves a Redis subscription open; when the
  client library takes it back is not in the repository.
* The AI analyst (prompts and answers), reconnaissance (network lookups), the report
  generator (formatting), authentication (cryptography over one table; two registrations may
  race to the unique e-mail, and one of them then fails).
* `passive_checks.py`, `tech_detector.py` and `cvss_calculator.py` are called by no code of a
  scan; the scanners have their own versions of the checks, which are modelled.
* Formatting, logging, HTML, cryptography, network input and output, and the patterns
  of the detection engines.
* The audit trail: `_audit_log` says it logs every decision, and denials for an
  excluded path, an address, rebinding or the rate raise before it; the model shows
  which decisions pass `Audit` and states nothing of it.

## Plan

Done: every module above, its runs, and a theorem for each of their safety properties. What is
left:

1. The prober's validation of redirect hops, composed with `ScopeGateway`.
2. A measure for the crawler, as `RequestsGetCloser` has for the probes.
3. Registration racing on the unique e-mail; the progress feed once something publishes.
