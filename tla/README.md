# Verification of the Auctorio publishing platform

Auctorio finds news, turns stories into projects, has them written, illustrated,
checked and repaired, and publishes them to websites and social networks. This
directory holds TLA+ models of the parts of it in which several processes meet, the
TLC runs that check them, and TLAPS proofs about them. Code is named relative to
`src/src` of the repository unless it says otherwise.

1. [Inventory](#1-inventory) · 2. [Modules](#2-modules) · 3. [Runs](#3-runs) ·
4. [Fairness](#4-fairness) · 5. [Behaviours that contradict the documents](#5-behaviours-that-contradict-the-documents) ·
6. [Proofs](#6-proofs) · 7. [Not modelled](#7-not-modelled) · 8. [What comes next](#8-what-comes-next)

## 1. Inventory

The system is a set of Node processes (one API, one process per worker) over one
PostgreSQL database, BullMQ queues in Redis, and remote services. No process holds a
transaction over more than one statement in the parts below, unless it is said: every
operation is a sequence of statements that others interleave with.

| Component | State | Operations | Talks to | What is hard | What makes it correct |
|---|---|---|---|---|---|
| Social publishing (`studio/publication.ts`, `infrastructure/workers/worker-scheduler.ts`, `worker-social.ts`, `studio/social-publishers.ts`) | rows `publications`, `publication_attempts`; the batch a tick has claimed | create, schedule, patch, cancel, retry, delete, unpublish; claim, enqueue; start, succeed and fail an attempt | PostgreSQL, `queue_social`, release gate, platforms | operations read and then write; two retry machineries, BullMQ's and the row's; a `failed` listener that runs beside the next try | a row has one holder, one job carries it, it is posted once, its budget holds, it is told what the platform did, and it comes to rest |
| Website publishing (`worker-publishing.ts`, `studio/orchestration.ts`, `studio/repository.ts`, `studio/publishers.ts`) | rows `publication_jobs`, one per idempotency key; `content_projects.status` | queue, publish, update, unpublish, draft; sync of the durable row; verification | `queue_publishing`, site adapters, publications | three callers share a job; answers get lost; adapters of two calls | one page; the job, the row, the project and the site agree when the work is over |
| Project archive (`studio/projects.ts`) | `deletedAt` | archive with unpublishing | both pipelines | many rows, one throw | nothing is left on its way |
| Queues (`infrastructure/queue`) | BullMQ jobs | add, attempts, backoff, stalled jobs | all workers | a job may run again at any point | — |
| Content pipeline (`studio/orchestration.ts`, `worker-text.ts`, `worker-image.ts`, `studio/routes.ts`, `studio/quality-*.ts`) | rows of projects, versions, images | start a generation, write, illustrate, judge, edit, approve, retry the image | `queue_text`, `queue_image`, AI providers | QA with an image read earlier; edits and requests for another image next to workers and their listeners | what passed has a hero image; what is approved was judged |
| Autopilot (`studio/planner.ts`, `worker-automation.ts`, `studio/quality-repair.ts`, `studio/automation-recovery.ts`) | `automationSubstate`, repair lock and attempts | tick, repair cycle, approve, create publications, recover | content pipeline, publications | a tick that dies anywhere, two controllers, a lock that expires or is freed by another's catch clause | one repairer unless a call threw; bounded attempts; one publication per channel; the article gets somewhere |
| Website connection (`studio/connectors/*`, `worker-connection.ts`, `studio/operations.ts`) | `connector_installations`, `operations` | discover, store credentials, verify, activate, cancel, resume, delete | `queue_connection`, sites | transitions read, ask the table and then update by id; two listeners and the worker write one operation | nothing unverified is active; success is reported for what was done; waiting states end |
| Discovery (`worker-discovery.ts`, `studio/sources.ts`, `studio/web-discovery.ts`, `studio/routes-discovery.ts`, `studio/editorial.ts`, `studio/deduplication.ts`, `resilience/breaker.ts`) | `source_items`, `story_clusters`, version of each feed, breakers in memory | fetch, search the web, dedupe, store, score, cluster, promote, backfill; statuses of operators | feeds, web search | a fetch that breaks off; answers of 304; the two intervals of the worker and operators score at once | the inbox comes to hold what the feeds say; items are judged; clusters of a story do not multiply |
| Story selection (`studio/planner.ts`, `studio/routes-editorial.ts`, `studio/editorial.ts`) | `content_projects`, item and cluster statuses | select candidates, create a project from an item, take it over | discovery, content pipeline | coverage is read before the project is written | one project per story, no candidate for ever |
| AI spending (`studio/cost-budgets.ts`, `studio/notifications.ts`) | `cost_budgets`, `ai_spend_events`, alerts | evaluate, record, alert, save a budget | text and image workers | check, call, record: three moments | overshoot is bounded, refusals are announced |
| Automation policy (`studio/automation.ts`) | policy row, failure counter, circuit | pause, resume, record failure, reset | — | counter read-modify-write | the circuit opens at the threshold |
| Release gate (`studio/release-readiness.ts`), queue backpressure | none of their own | blockers; depth of a queue | everything | the verdict changes between ask and post | — |
| Editorial engine and plan (`studio/editorial-engine/`, `studio/editorial-plan.ts`) | generations and plans of their own; projects, versions, publications | write an article in one run, keep it as a project with a version, create and enqueue its publication (`orchestrator.ts:547-556`, `663-697`); make projects from a plan | providers, publications | a third way into the publishing pipelines | — |
| Resilience (limiter, retry, stores), social connections, intelligence, enrichment, e-mail | tokens, profiles, annotations | — | providers | one actor at a time | — |
| Authentication, HTTP parsing, views, web application, scripts | sessions | — | — | no protocol between actors | — |

## 2. Modules

How they are composed:

```
PublicationStates ─┬─ SocialPublishing ── SocialPublishingProofs ── SocialCarriersProofs
BullQueue ─────────┼─ WebsitePublishing ── WebsitePublishingProofs
                   ├─ ContentPipeline ── Autopilot ── AutopilotProofs ── ArticleProofs
                   └─ SiteConnection ── SiteConnectionProofs
SourceDiscovery ───── StorySelection ── SelectionProofs
Spending ──────────── SpendingProofs
```

`SocialPublishing` and `WebsitePublishing` implement `Delivery`.

`MC*` modules give the constants of the runs their values. Operators whose comment
begins with "Faulty variant" are plausible bugs of the code: no specification uses
them, each breaks the property it was written for.

In every module a step is one database statement, one queue call or one call to a
remote service, together with the computation up to the next `await`; what was read
is kept in the record of the process that read it, and later writes use it as the
code does: some operators take the row as it *was read* and the row as it *is*.

### `PublicationStates`, `BullQueue` (pure)

`PublicationStates` has the row of `publications`: states, the declared transition
table, the guard of each operation on the row as read, the update of each operation
on the row as it is when the write lands. `BullQueue` has one BullMQ job under the
options `producer.ts` and `worker-runtime.ts` set (attempts, backoff, stalled jobs).
BullMQ itself is a library outside the repository.

### `SocialPublishing`

| Variable | Code |
|---|---|
| `pub`, `att` | rows of `publications` and `publication_attempts`; the job of an attempt has the attempt's id |
| `batch` | the array `claimed` of `runSchedulerTick` |
| `proc` | where a scheduler's loop or an API request stands, and the row it read |
| `wk`, `handlers` | the job a social worker has in hand; running `failed` listeners |
| `archived` | projects with `deletedAt` |
| `posts`, `live` | the platform: posts ever made, and those still up |
| `crashes`, `faults` | counters of the two bounds on failures |

`Claim` is `claimDuePublications`; `NextClaimed`, `RequestEnqueue`, `CreateAttempt`,
`MarkPublishing`, `AddJob` are the awaits of `enqueuePublication`; `CatchEnqueue` is
the catch clause of the tick; `RequestRead` and `RequestWrite` are the halves of every
operator operation, `ArchiveProject` the last write of an archive; `TakeJob`,
`StartAttempt`, `CallPlatform`, `RecordAttempt`, `RecordPublication`,
`FinishUnpublish` are the awaits of the processor, `FailTry` its throwing;
`FailedRead` and `FailedWrite` are `failAttempt`; `TickAborted`, `RequestAborted`,
`WorkerCrash` are processes that stop.

### `Delivery`, and how the two pipelines implement it

`Delivery` is what any publishing pipeline promises: items are sent some number of
times, an owner gets a receipt that names a message that was sent, an item is shown
only with a receipt, and a receipt is replaced by another but never lost. Both
pipelines instantiate it (`Promise`) with `receipt <- ExternalIds` (the `externalId` of
each row) and `shown <- Published`; their property `Delivers` is `Promise!Spec`.
In `SocialPublishing` `sent` is the posts made for each row. In `WebsitePublishing` the rows
of the version share its page, so a page made is sent to all of them at once, and the promise
is kept as long as no answer is lost (`faults = 0`): a lost one leaves a row
published without an id.

### `WebsitePublishing`

One version of one article on its way to one website.

| Variable | Code |
|---|---|
| `pub`, `rows`, `link` | rows of `publications`, which exist, and their `publicationJobId` |
| `job` | rows of `publication_jobs`, one per idempotency key |
| `task` | BullMQ jobs of `queue_publishing` and the publication job each names |
| `project`, `archived` | `status` and `deletedAt` of `content_projects` |
| `batch`, `proc`, `wk`, `handlers` | as in `SocialPublishing`; `proc[r].todo` is the list `publishedPublications` of `archiveProject` |
| `pages`, `live` | the site: pages ever made, and the public ones |
| `crashes`, `faults`, `refusals` | counters of the bounds on failures |

`Claim`, `NextClaimed`, `CatchEnqueue` are the scheduler's tick; `ChooseAction`,
`FindJob`, `ResetJob`, `CreateJob`, `SetProjectQueued`, `LinkRow` are the awaits of
`enqueueWebsitePublication`, of `POST /v2/projects/:id/publish` and of
`enqueueUnpublishForWebsite`, which share their order and differ where `AfterFind`,
`AfterWriteJob` and `Afterwards` say; `CheckQueue` and `AddTask` are the halves of
`queuePublication`; `FindDurable`, `CreateDurable`, `MarkDurable` are
`linkDurableWebsitePublication`; `RequestArchive`, `ArchiveRow`, `ArchiveProject` are
`archiveProject`; `TakeTask` to `RecordVerification` are `processPublishingJob` with
`syncDurablePublication` and `verifyWebsitePublication`; `CallSite` and
`ApproveDraft` are the adapters' calls (`TwoCalls`: guiatv and generic_rest make a
draft and approve it, the others publish in one call); `FailJob`, `FailProject`,
`FindFailedRow`, `FailRow` are the `failed` listener.

### `ContentPipeline` and `Autopilot`

`ContentPipeline` has one project of origin `auto`: the generation, the text worker,
the image worker and its `failed` listeners, and the requests of operators.

| Variable | Code |
|---|---|
| `project` | `status` and `automationSubstate` of the project |
| `version`, `image` | rows of `content_versions` (status, body, hero image, stored QA report, repair attempts, repair lock) and `content_images` |
| `textJob`, `imageJob` | jobs of `queue_text` and `queue_image` |
| `tw`, `sync`, `proc` | the text worker, the image worker with its listeners, the requests and controllers: where each stands and what it read |
| `revs`, `passed` | numbers of the bodies written; history of which were passed by a QA |

`ReadLatestNumber` to `ProjectGenerating` are `startProjectGeneration`; `TakeText` to
`CompleteText` are the text worker with `syncTextGeneration` and
`requestImageGenerationForVersion`; `TakeImage` to `CompleteImage` the image worker
with `syncImageGeneration`, whose steps the listener (`MarkImageFailed`, then the same
QA) shares; it finds no version if another image was asked for since (`ReadForQa`);
`AssetRequest` is `POST /v2/assets/generate`, which attaches a new image to any
version; `Edit*` are `updateVersionContent` with the QA of its route; `Approve*`
are `approveVersion`; `RetryImageRead` to `RequeueImageJob` are
`retryImageGeneration`. A body is a number and a *grade* (what the rules will find in
it); a QA report is the body and the image it looked at.

`Autopilot` adds the controllers: `TickReads` is `advanceAutopilotProject`,
`RecoveryReads` is `recoverStuckAutoProjects`, `RepairReads` to `RepairPassed` are
`runQualityRepairCycle` with its conditional lock (`ClaimRepair`), its stored attempt
(`StoreRepair`), its catch clause (`RepairThrows`, then `GiveUp`; the `try` goes on after
the lock was given back), `LockExpires` and
`WatchdogReleases` the five minutes of the lock and the watchdog; the approval reuses
the steps of `approveVersion`; `FindMissing`, `CreateRow`, `RowsCreated` are
`ensureAutoPublications`, which counts the rows of one version (`rows[v][c]`); `ControllerDies` ends a tick anywhere.

### `SiteConnection`

| Variable | Code |
|---|---|
| `inst` | the `connector_installations` row of kind website: state, set of credentials |
| `op` | `operations` rows, each with its job of `queue_connection` |
| `run`, `heard` | the processor's run of each job; how many runs of the two listeners are at each of their awaits |
| `req`, `asked` | requests in flight, and made so far |
| `probed`, `told` | history: credentials that passed a verification, operations whose job wrote a good verdict |

`Ask` is a route loading the row; `ReadToMove` and `WriteMove` are
`transitionInstallation`, as are `ReadForVerdict`/`WriteVerdict` and
`CatchRead`/`CatchWrite` in the worker; `CreateOperation` and `EnqueueConnectionJob`
follow in the routes that discover and verify; `DiscoverWebsite`, `VerifyWebsite` are
the probes, whose results are free; `FailedReads` to `CompletedWrites` are the
listeners, which read the operation and then write it.

### `SourceDiscovery` and `StorySelection`

`feed` is the world (which revision of each entry its publisher serves), `etag` the
version of a feed last remembered, `breaker` the `CircuitBreaker` of each process,
`item` and `cluster` the rows, `fetch` the calls of `fetchSourceNow` by the worker's
tick and by operators, and the runs of `runWebDiscoveryForTenant` by the worker's second
interval (`Searcher`) and by operators (`Searches`). `TickStarts`, `NextSource`, `Backfill` are `runDiscoveryTick`;
`Discover`, `Dedup`, `CreateItem`, `RereadItem`, `UpdateItem`, `BumpCluster`, `StampSource`
are `fetchSourceNow` up to the remembered version, `Pick` to `PromoteItem` the scoring,
`RecordSuccess` and `RecordFailure` `recordFetchOutcome`. A search (`SearchStarts`,
`OperatorSearches`) finds pages, scrapes one after the other (`Scrape`), stores each by
the steps of a feed's entry and scores it at once (`PageStored`).

`StorySelection` extends it: `make` holds the calls of `createProjectFromSourceItem`
by the planner (`PlannerLists` is its query, `PlannerSelects` its look at the coverage of one
candidate after the other, `PlannerTakes` its loop) and by editors (`EditorAsks`), from
`ReadItem` and `ReadCoverage` through `CreateProject`, `AttachItem`, `Generate`,
`MarkItem`, `SelectCluster` to the planner's taking over of what it made
(`FindProject`, `OwnProject`); `DeleteProject` is the archive, as the coverage sees it.

### `Spending`

`budget`, `ledger` and `note` are `cost_budgets`, the sums of `ai_spend_events` since
midnight and this month, and the alerts by their `dedupeKey`; `call` is what each
worker is doing: `Evaluate` is one period of `evaluateAiSpend`, `NotifyReads` and
`NotifyCreates` are `notify`, `AskProvider` and `RecordSpend` the call and
`recordAiSpend`. `UpsertBudget` and `Midnight` change what the calls meet.

### Abstractions

- Dates: only whether a date is set is kept; which dates have passed is a free choice
  of whoever asks, so every timing is explored. The 5 minutes of a repair lock and the
  cooldown of a breaker may end at any step after they began.
- The release gate, the QA rules, the language model, the probes of a connection and
  the classification of an error are free choices, taken where the code asks them.
- Audit rows, events, notifications other than those of a budget, progress figures
  and logs change nothing the modelled code reads.
- A request that is refused changes nothing and is left out. Which request is made,
  and when, is a free choice.
- Social dry runs are left out: credentials resolve and the platform returns an id.
- `WebsitePublishing` has one site, one project and one version, so five keys are
  enough: publish, update and unpublish with target publish, update with target draft
  (`draft` in the model) and the archive's.
- `Autopilot`: the policy is active, in mode autopilot, every automatic step on,
  `socialRequired` off. `ensureAutoPublications` creates rows and does not choose their
  times: slots, spacing and daily quotas are left out.
- `SourceDiscovery`: clusters are younger than the 7 days, and fewer than the 200, that
  `assignSourceItemToCluster` looks back on (`editorial.ts:371-378`): an older one would be
  missed, and another made for its story. The source of a domain exists before a search
  comes to it; a page that cannot be scraped is one that was not found. `BumpCluster` reads
  and writes the cluster in one step (`sources.ts:438-456`).
- `StorySelection`: one site, one policy; how many candidates a day has room for is
  free; projects are younger than the 72 hours, and fewer than the 50, the coverage looks
  back on (`editorial.ts:459`). Candidates are fewer than the `limit * 3` that the planner's
  query takes (`planner.ts:263`): with more, covered ones at the head of its list keep an
  uncovered one waiting until they have aged. Its run is without web search.
- `SiteConnection`: the rows of the site that activation makes are left out.
- `Spending`: amounts are whole numbers; neither worker passes an estimate, so the
  gate compares what the ledger holds. `Evaluate` reads the budgets of a period and the ledger
  in one step (`cost-budgets.ts:236-267`): a budget saved between the two reads is one saved
  after the step, an amount entered between them one entered before it.

## 3. Runs

Every run passes. `MaxCrashes`, `MaxFaults`, `MaxRefusals`, `MaxFailures` and
`MaxEvents` bound what dies, throws or refuses; `MaxStalls` and `BullAttempts` are the
options of the queues; `MaxRetries`, `MaxRepairs` and `FailureThreshold` are settings
of the system, small so that they are exhausted. Sets of rows and ids are as large as
a run can use, with two exceptions named in the table; an id that is missing would
block the caller, which the liveness properties would report. Actors come in twos at
most, in `discovery_nominal` in threes: each race in the hazards of `PROJECT.json` is one between
two actors.

| Run | Instance | Shows |
|---|---|---|
| `social_nominal` | 2 publications, 2 schedulers, 2 workers, durable retry once, one BullMQ try, a crash, a fault | a publication is claimed, enqueued or carried in one place (`SingleHolder`), by one attempt (`OneCarrier`); retries and numbers are right; more than one post takes a failure each (`ExtraPostsNeedFailures`); nothing is posted for a row that is not publishing while nothing fails |
| `social_operators` | 1 publication, 2 schedulers, a request that edits, cancels, retries or deletes at any moment | no queued or publishing row loses whoever works on it; every due publication comes to rest |
| `social_outages` | every operation, BullMQ retries, a crash, a fault | a published row names a post that was made; the pipeline implements `Delivery` |
| `website_edits` | 1 row, 2 workers, a request that edits or unpublishes at any moment, calls the site refuses at will (8 are more than a behaviour can have), two durable retries, one BullMQ try | one page; the shared job and the row are not left waiting; project, row and site agree once the work is over; a row is shown only by the step that tells it its page (`Delivers`); the work gets over |
| `website_everything` | every operation, two BullMQ tries, a crash, a lost call, a site of two calls; 3 BullMQ ids | nothing is recorded as published without a page, no id is recorded that the site did not give |
| `autopilot_nominal` | 1 control worker, 2 channels, 3 image jobs, one failure of a provider or of the control worker | an approved body stays as it is; one publication per channel; the article is scheduled or handed to an operator in the end |
| `autopilot_recovery` | the control worker and a recovery, two attempts (a third cycle is possible), one failure in the cycle or of a controller | the lock lets one in, and one more for a cycle that threw; the attempts exceed `maxRepairAttempts` at most by the other controller and by each cycle that threw |
| `autopilot_operators` | 2 operators who generate, edit, approve, retry an image or ask for another, 2 images, a statement or a worker that fails | nothing is approved that no QA ever passed; what passed has a stored hero image and shows it, unless another was asked for |
| `connection_wizard` | 2 requests of any kind, 2 operations, BullMQ retries, one failure | no active destination without a passed verification; success is reported for a job that wrote a good verdict; discovering and verifying end; operations are reported and stay so |
| `discovery_nominal` | 2 publishers, one entry each of one story, one of them rewritten, the other found by searches too; 4 clusters; the worker's tick and search; one event: a fetch or a search of an operator, a verdict, a failure | at most two clusters of a story, and one more per request; the inbox comes to hold what quiet feeds say; stored items are judged |
| `selection_planner` | 2 entries of one story, found in one feed, the planner, an editor, 3 projects, two events | one project per story unless two calls raced; no candidate waits for ever |
| `spending_gate` | 2 workers, 2 sites, 3 budgets of different scope and period, a midnight, a budget raised, ledgers up to 3 | a hard limit is passed by the calls under way only; a refusal is always announced |

The bounds that cut off behaviour: the 3 BullMQ ids of `website_everything` (an
enqueue that finds none waits; no liveness is asked there), one version of a project
in the autopilot (a generation beyond it is refused), the requests and operations of the
wizard, and the 4 clusters and 3 projects of discovery and selection, of which
the requests that are allowed can make no more. More image jobs, BullMQ ids or
refusals than the other runs have add no state to them.
The search of the worker runs once in `discovery_nominal` (`SearchAgain`), and operators fetch
one of its two sources (`Requested`); neither theorem has these bounds.
`CHECK_DEADLOCK FALSE` stands where the system really may stop: everything is
published or failed, or all requests have been served.

What the runs say holds for their instances and not beyond them. In particular:
`OneCarrier` fails once BullMQ retries or an operator is there; `OnePage`,
`JobNotStranded`, `ProjectAgrees` and the website's `EventuallyAtRest` fail with BullMQ
retries: the `failed` listener marks the row for a durable retry while BullMQ tries the
same job again, and the two write over each other. With two concurrent requests
`JobNotStranded` fails too: a second unpublish puts the finished job back to queued
while its task is still in the queue (put `Requests <- TwoRequests` into
`WebsitePublishing_edits.cfg`). The website's `NotStranded` fails for requests that
enqueue, and after a crash, which leaves rows that nothing recovers; it and `ProjectAgrees`
fail with two rows, of which `syncDurablePublication` updates one, and with two requests that
reschedule, one of which writes over a row the scheduler has claimed. `UnpublishedIsDown`
fails with two requests that unpublish one row: the verification of its publication writes
back the metadata from before the first request, which therefore enqueues an update, and
the update puts the page up next to the second one's unpublishing. The website's `Delivers` fails once an answer is lost.
`RetryBudget` fails with BullMQ retries: two listeners lose an increment.
`OnePublicationPerChannel` and `ApprovedBodyKept` fail with two controllers.
`OnePublicationPerChannel` is about one version: `ensureAutoPublications` asks for the rows of a
version (`planner.ts:677-679`), so a second version gets publications of its own. With the
bound 1 instead of `1 + failures` TLC refutes `OneRepairer`: a controller judges and gives the
lock back, the other claims it, the first throws (`quality-repair.ts:876` or `890`), its
catch clause frees the other's lock (`941-944`), and its next tick claims it beside the
other. `PassedHasHero` in a stronger form, that a version that passed shows a hero image,
is false: `POST /v2/assets/generate` makes it show a queued one. With the bound `1 + requests`
`OneClusterPerScorer` is false: the worker's tick and its search look for the cluster of a
story before either has made it. The
properties of `autopilot_nominal` hold with `MaxRepairs = 2` as well (2 641 921 states,
too many for a run that is to end in minutes).

## 4. Fairness

Nothing is assumed of operators, of failures, of publishers or of the site: requests,
crashes and refusals need not come. Weak fairness is assumed of

- the scheduler's, the discovery's and the control worker's tick: `runIntervalWorker`
  swallows a tick's error and runs it again with `setInterval`;
- the remaining steps of a request that was accepted or of a search that found pages: one
  async function on a live event loop; likewise the running listeners. That a search
  finds anything is not assumed;
- taking a job, the steps of a job and the check for stalled jobs: BullMQ's loops;
- timers: the backoff of a job, the lock of a repair, the cooldown of a breaker.

Weak fairness is enough: a step that is possible stays possible until it is taken by
the process whose step it is, and where two processes compete the loser has nothing
left to do. A failure is allowed to end any of these for good where the code has
nothing that recovers it; `Settles` and `OperationsSettle` therefore speak of
behaviours without failures, and `EventuallyDecided` of those with one that the next
tick repairs.

## 5. Behaviours that contradict the documents

These configurations are not runs: each finds a behaviour of the model that a line of
the repository denies or that its authors would want to know. `tlc -config <file>`
with the module `MC<name>` shows it.

| Configuration | Property | What happens |
|---|---|---|
| `SocialPublishing_bullretry` | `AtMostOnePost` | BullMQ and the durable row retry at once and the post is made twice; `README.md:99`: "multiples workers no duplican publicaciones" |
| `SocialPublishing_stale` | `AtMostOnePost` | `updatePublicationSchedule` writes scheduled over a row claimed since it was read |
| `SocialPublishing_unpublish` | `UnpublishedIsDown` | unpublishing a social publication enqueues a job that posts again; `docs/architecture.md:41` has the worker "publicar/despublicar" |
| `SocialPublishing_permjob` | `PermanentJobNotRetried` | BullMQ retries a permanent failure; `publication.ts:113`: "Permanent failures never retry." |
| `SocialPublishing_permrow` | `PermanentRowNotRetried` | a row in retry whose enqueue throws keeps its past retry date and is claimed again, for ever |
| `SocialPublishing_nodate` | `ScheduledIsClaimed` | PATCH without a date schedules a draft that has none; it is never claimed |
| `WebsitePublishing_post` | `OnePage` | POST publish next to the scheduler: the job is added again after it has run, and a second page is made; `docs/auctorio-acceptance-2026-08-21.md:48`: "in-flight reuse", "queue-level duplicate guard" |
| `WebsitePublishing_archive` | `NotStranded` | the archive never links its row to its job, so the row stays queued for ever; `projects.ts:56`: "Website unpublish flows through the existing publication job pipeline." |
| `WebsitePublishing_gate` | `NothingWaits` | the release gate refuses an unpublish request after the row was queued (`publication.ts:483`) |
| `WebsitePublishing_forgotten` | `UnpublishNotForgotten` | the verification writes back metadata it read before an unpublish request |
| `WebsitePublishing_replay` | `RemoteSuccessNotReplayed` | an error after the recorded success: the listener writes a retry over published; `worker-publishing.ts:155`: "Remote success must never be replayed" |
| `WebsitePublishing_refused` | `NoOrphanPage` | the site takes the draft and refuses its approval: nobody knows the draft, and the retry makes another |
| `Autopilot_judged` | `ApprovedWasJudged` | the image worker writes its verdict on a body that a repair has replaced since, and the next tick approves the body nobody judged; it takes two attempts at repairing (the default is 4), of which the first makes a clean body and the second spoils it |
| `Autopilot_immutable` | `ApprovedIsImmutable` | a second image job, or an edit that was under way, judges an approved version again |
| `SiteConnection_active` | `ActiveStays` | of two verifications one makes the destination ready and, once active, the other's catch clause fails it |
| `SiteConnection_secrets` | `ActiveSecretsVerified` | credentials are replaced between the verification and the activation |
| `SourceDiscovery_clusters` | `OneClusterPerStory` | two of the worker's tick, its search and an operator score items of one story at once; `editorial.ts:205`: "A cluster represents an EVENT" |
| `SourceDiscovery_page` | `OneItemPerPage` | two fetchers store one page twice; `deduplication.ts:101`: "the same page fetched by two sources is the same item" |
| `SourceDiscovery_rejected` | `RejectionKept` | a scoring under way overwrites an editor's rejection |
| `Spending_month` | `HardLimitRefuses` | a day that degrades skips the hard limit of the month; `cost-budgets.ts:4`: "A hard limit is never exceeded silently" |

Seen while reading, and not the subject of a configuration: two requests move an
installation along a pair of states that is not in the table, because what was read has
changed when it is written (`docs/auctorio-installer-activity-notifications-architecture.md:21`
asks for validated transitions); a failure between the two
statements that attach an image and enqueue it leaves a version waiting for ever, as
does one between the creation of a version and the enqueue of its text, and an image
that is "retryable" with all tries used; a request that ends between a transition and
its enqueue leaves an installation verifying; an item whose update was stored by a
fetch that then failed stays "parsed" and is not scored again; a failure between
`createProject` and the mark of its origin leaves a manual project that nobody advances;
the recovery of a failed project approves the version of its snapshot
(`automation-recovery.ts:122-147`) after a repair cycle that read the latest, so that
with a version generated in between it approves one that no QA has passed; "delay" of a budget
ends the job like "pause"; the circuit of a policy is fed by `failAttempt` and
`succeedAttempt` for the channel website only, and the website worker calls neither,
so `recordWebsitePublishFailure` is never reached; the scheduler takes a row from
queued to ready (`worker-scheduler.ts:79`), which `ALLOWED_TRANSITIONS` does not have;
two workers that create one alert at once throw, where `cost-budgets.ts:228` says "Never
throw; returns a decision";
several callers get through a half-open breaker that `breaker.ts:9` gives "one
half-open probe"; saving a budget without a hard limit keeps an older, lower one,
which `cost-budgets.ts:177` refuses when both are given.

## 6. Proofs

Proved with TLAPS for every value of the constants that satisfies the named
assumptions of the modules (`ConstantsAssumption` of the two publishing modules,
`ConnectionConstants`, `PipelineConstants`, `AutopilotConstants`,
`DiscoveryConstants`, `SelectionConstants`, `SpendingConstants`): any number of publications, processes, attempts, retries,
crashes and faults.

`SocialPublishingProofs`:

- **`TypeCorrect`**: `Spec => []TypeOK`. `TypeOK` is not inductive: a worker or a
  listener follows the foreign keys of its attempt. The inductive invariant adds
  `References` (those keys are not null, and a request about to write was not asked to
  archive). One lemma per action; `RowUpdates`, `FailureUpdate` and `JobUpdates` say
  what each pure update returns.
- **`PublishedWasPostedAlways`**: `Spec => []PublishedWasPosted`. The id a worker
  records comes from its own call or from a row it read earlier, so the invariant
  `PostedInv` follows the id from the platform to the row: what a worker carries never
  exceeds the posts made (`WorkersPosted`), an external id is always that of a post
  made (`RowsPosted`), and an attempt that has a publication keeps it (`Kept`).
  `OthersKeepPost` shows that only `succeedAttempt` touches the id.
- **`PipelineDelivers`**: `Spec => Delivers`, the refinement of `Delivery`. Initial
  states map to initial states; under the two invariants a step of the pipeline maps
  to a `Send`, a `Confirm` or a `Hide` (several rows leave published at once when a
  project is archived), or to a stutter.

`SocialCarriersProofs`, who carries a publication:

- **`OneWorkerPerJob`**: `Spec => []WorkerJobs`, for all constants: a job is in the hands
  of one worker, and `RecoverStalled` never gives out one whose worker is alive. Its
  invariant `JobInv` adds that an attempt whose job is not yet in the queue belongs to
  the one process that is about to add it (`ProcAttempts`).
- **`NobodyStrands`**: `NeverUnpublishes => (Spec => [](crashes = 0 => NotStranded))`, with
  any requests but unpublish, any retries inside BullMQ and any calls that throw.
  `CarriedInv` names for each queued row a scheduler that is going to act on it, and
  for each publishing row a process about to add its job, a job whose success is not yet
  recorded, or a listener. A crash does strand rows; unpublishing queues the row before it
  asks the release gate (section 5), and those two hypotheses are all that is taken away.

The next six assume `NoBullRetryNoOperator`: `WORKER_MAX_ATTEMPTS` is 1 (the default of
`producer.ts:22` is 3) and no operator touches the rows. Without it they are false:
BullMQ's next try runs beside the failure listener and the row's own retry, and an operator's
write releases a row that a scheduler holds (section 5). They hold for any number of publications,
schedulers, workers and durable retries.

- **`OneHolder`**: `Spec => []SingleHolder`, and **`CarriedOnce`**: `Spec => []OneCarrier`.
  Neither is inductive: that a job is alone follows from the row not being due, and
  that from the job. `CarrierInv` counts instead. `Carriers(p)` adds up the schedulers that
  hold the row, the jobs, the listeners and a row that is due; each call that throws
  adds at most one to it, so it never exceeds `1 + faults` (`Paid`). Each step is shown to
  be `Balanced`: it takes out what it puts in. `Fewer`, `OneLess` and `OneMore` are the
  facts about finite sets this needs.
- **`ExtraPostsPaid`**: `Spec => []ExtraPostsNeedFailures`, from the other half of the count:
  posts made plus posts still to come (`ToCome`) never exceed `1 + crashes + faults`.
- **`NumbersUnique`**: `Spec => []AttemptsNumbered`, and **`BudgetKept`**: `Spec => []RetryBudget`.
  With no fault the one carrier serialises the two writers of `attempt` and `retries`:
  `Numbered` says that no attempt of a carried row has a higher number than the row, but the
  one whose process is about to write that number to the row; `Budgeted` that the
  attempts are at most the row's retries plus one, and no more than its retries while a new
  attempt is still to be made (`Fresh`).
- **`PostsWhilePublishing`**: the action property `PostsOnlyWhilePublishing`. While nothing
  has died or thrown, `RowAgrees` ties the row's status to the place its carrier is
  in, and every active job has a worker (`ActiveHasWorker`).

`SiteConnectionProofs`:

- **`ConnectionTypeCorrect`**: `Spec => []TypeOK`, from `TypeInv`, which adds what a
  request or a run has named by the time it writes (`Targets`).
- **`ActiveWasVerifiedAlways`**: `Spec => []ActiveWasVerified`. The invariant
  (`Vouched`) says that `ready`, `active`, `disabled` and every write of them that is
  under way come after a verification that passed; the history `probed` only grows,
  so what was read before another's write may still be written after it.
- **`SucceededWasDoneAlways`**: `Spec => []SucceededWasDone`. A job runs in one place
  and completes once (`Finishing`), belongs to the one request that created it
  (`Owned`), and whoever is about to report a success has a good verdict or an
  operation that has failed before it (`Reported`; `Honest` is their conjunction).

`WebsitePublishingProofs`:

- **`WebsiteTypeCorrect`**: `Spec => []TypeOK`. That the public pages are among those
  made is not inductive by itself: a worker publishes a page whose id it got from a
  job, a row or an earlier call.
- **`PublishedWasMadeAlways`**: `Spec => []PublishedWasMade`. Both follow from
  `MadeInv`: every id that a row (`RowsFine`), a publication job (`JobsFine`) or a
  worker (`WorkersFine`: its look-up, its call, the row it read) carries is that of a
  page made, a worker past the site's answer shows that a page was made, and a process
  that looks for a job or writes a row has the key or the operation it needs
  (`ProcsFine`). `LatestExternalIdMade` is about the choice of the youngest job; the
  other lemmas are one per group of steps.
- **`PublishedRowStaysUp`**: `StaysUp => (Spec => [](faults = 0 => PublishedRowIsUp))`, with
  any crashes, BullMQ tries and refusals, and sites of one call or two. `UpInv` says that
  every id which rows, jobs and workers carry is that of a public page, except a draft that
  waits for its approval, and that a result always has an id (`UpResult`). `StaysUp`: no
  operation is offered that takes a page down or writes a draft over it. It is needed, as
  rows that share a job share its page, and unpublishing one of them takes down the
  page the others name; so is `faults = 0`, as a lost answer records a success without its id.

The next two assume `OneEnqueuer`: one scheduler, one BullMQ try, and operators who
edit, cancel, retry or delete; and that no process has died and no answer was lost. They
hold for any number of rows, workers, durable retries and refusals. A second scheduler,
or a request that enqueues, reads the job before another process resets or
creates it, and then resets it itself while its task is at work. Without any one of these
TLC finds both invariants violated on the instance of `website_edits` (the scheduler's case
needs two rows).

- **`JobNeverStranded`**: `[](crashes = 0 /\ faults = 0 => JobNotStranded)`. `QueueInv`
  follows the job through three hands: a job that waits or is processed is with the scheduler
  that is about to add its task (`Enqueuers`), with a live task (`LiveTasks`), or with the
  listener of the task that failed (`Listeners`); there is one of each at most
  (`OneTaskPerKey`, `OneHolder`, `OneListener`), and the step its worker is at tells the job's
  status (`Holders`). `NobodyCarries` and `HolderAlone` are what the steps use of it.
- **`NoDuplicatePage`**: `[](crashes = 0 /\ faults = 0 => OnePage)` for sites of one
  call (`~TwoCalls`: a draft whose approval is refused is made again, section 5). By `OnceInv`,
  until an id is saved nobody knows one and all work is done under the key "publish"
  (`NothingKnown`), which one worker holds at a time; after it, that job is never touched
  again (`SavedStays`) and whoever updates finds the id (`OnceLookUp`).

The next two assume `OneLine`: one row besides, and operators who cancel or delete; any
number of workers, durable retries and refusals. What fails without it is said in section 3.

- **`RowNeverStranded`**: `[](crashes = 0 /\ faults = 0 => NotStranded)`, and
  **`ProjectAlwaysAgrees`**: `[](crashes = 0 /\ faults = 0 => ProjectAgrees)`. `LineInv` says that
  the work on the row is in one place at a time (`OneHand`): the row is due, the scheduler
  has it, a task has it, or a listener; and that none of this comes after the job is
  published (`Over`). A worker that found its page has the row linked (`RowLinked`); a row
  that waits has a place of those four, and one that is published has its project marked or a worker
  about to mark it (`RowFollowed`).

And one that assumes nothing more of the constants:

- **`WebsiteDelivers`**: `Spec /\ [](faults = 0) => Delivers`, the refinement of `Delivery`,
  with any rows, processes, operations, crashes and refusals. `ToldInv`: a worker past the site's
  answer has an id to tell, and a row that does not exist yet was told nothing. Only
  `SyncRow` shows a row or changes its id (`OnlyTellingShows`), which maps to `Confirm`;
  a page made maps to a `Send` to all rows, everything else to a `Hide` or a stutter.

`AutopilotProofs`:

- **`AutopilotTypeCorrect`**: `Spec => []AutopilotTypeOK`, for the pipeline and its
  controllers. The inductive `TypeInv` adds `Pointers`: every version number that a
  process, a worker or a controller carries names a version that was created, so that
  the latest version of the snapshot exists (`HighestVersion`, by well-founded
  induction on the natural numbers).
- **`OneRepairerAlways`**: `~SlowRepairs => (Spec => []OneRepairer)` for a finite, nonempty
  set of controllers: one in the cycle of a version, and one more for each failure. It is a
  count, as a throw after the verdict frees a lock that is another's by then: `LockInv`
  says that those inside a cycle (`Holding`) are at most the failures, plus one if the lock is
  held. The conditional update finds the lock free and takes that one; a judgement leaves and
  gives it back; a catch clause that frees another's lock was a failure.
  The lock expires or is released by the watchdog only when nobody is inside. That is the
  hypothesis: a repair ends within the five minutes of its lock.

`ArticleProofs`, what becomes of an article:

- **`PassedHasHeroAlways`**: `Spec => []PassedHasHero`, and **`ApprovedPassedOnceAlways`**:
  `Spec => []ApprovedPassedOnce`. Both follow from `ArticleInv`. A QA judges with what
  it was told about the image, perhaps long ago, so the invariant says that whoever
  carries "there is a hero image" is right that one is stored for its version (`Views`,
  `CallOk`, `CycleOk`), which stays true because an image belongs to the version it was made for
  (`OwnImages`) and is never taken from it: a request for another only makes the version
  show that one. And it says that every verdict and every approval under
  way is about a version that deserves it (`Good`), which no step undoes (`Grows`).
  `OneArticle` is assumed: no recovery of failed projects, or one version of the project.
  Otherwise a recovery approves the version of its snapshot, which need not be the one the
  repair cycle has judged (section 5).
- **`RepairBudgetKept`**: `Spec => []RepairBudget` for a finite, nonempty set of
  controllers (`SomeControllers`). Attempts are stored after they were counted
  elsewhere, so the invariant adds to the stored tries the controllers that have
  passed the check and owe an attempt (`Owing`): `AttemptsPaid` bounds the sum.
- **`OnePublicationAlways`**: `Spec => []OnePublicationPerChannel` with one controller
  (`OneController`), wherever it dies: one row for each version and channel. The channels it
  has found missing are those on which its version has no row (`Missing`); two controllers both find a channel missing.
- **`ApprovedBodyAlwaysKept`**: the action property `ApprovedBodyKept`, with one controller and
  no recovery (`OneTick`), operators who ask for versions and retries of images only
  (`NobodyJudges`: not for other images, edits or approvals), and no text job that is run again (`WorkersFinish`: the database does not
  fail and no worker dies; the text provider may). A body is written by the one text
  job of its version, before it has an image (`WriterInv`), and by a repair cycle that read it
  before. `KeptInv` adds that a version about to be queued has no job, no image and one caller
  (`Queueing`), that what a cycle is to store is not approved yet (`Undecided`), and that
  only the tick approves (`OnlyTickJudges`). TLC finds a counterexample when any one hypothesis is dropped.

`SelectionProofs`, discovery and selection:

- **`DiscoveryTypeCorrect`**: `Spec => []TypeOK` and **`SelectionTypeCorrect`**:
  `SelectionSpec => []SelectionTypeOK`. `DiscoveryInv` and `SelectionInv` add what a call
  has named by the time it uses it (`CallOk`, `MakeCallOk`). `CHOOSE` picks the newest
  item, which exists because finitely many are stored (`ItemOk`). Each step of discovery
  is shown to be one, or a stutter, under the selection's larger state.
- **`OneClusterPerScorerAlways`**: `Spec => []OneClusterPerScorer`, with the tick and the
  search of the worker and any fetches and searches of operators. A count: the clusters of
  a story and the calls about to make one are at most 2 plus the requests made
  (`ClustersPaid`). A call makes one only if it saw no open cluster of its story, so
  each cluster there already has been closed by an operator or made beside the call by
  another one. The tick and the search of the worker are two of those others; each of the
  rest was a request (`RequestsPaid`).
- **`OneProjectPerStoryAlways`**: `SelectionSpec => []OneProjectPerStory`. `RaceInv` says of
  a story that was not contended: at most one call is between its look at the coverage
  and its write (`Looking`), who is about to create a project saw a story without
  one that still has none, and there is one project at most.

`SpendingProofs`:

- **`SpendingTypeCorrect`**: `Spec => []TypeOK`.
- **`RefusalAnnouncedAlways`**: `Spec => []RefusalAnnounced`. `SpendingInv` follows a
  call from the budget that stops it to the answer: a call that is being decided has
  its site and kind (`Deciding`), an alert has the level its key names
  (`Leveled`), and a refusal has its alert (`Noticed`); alerts are never
  removed, and the loser of the unique key throws and is not refused.
- **`OvershootBoundedAlways`**: `Spec => []OvershootBounded`, for any finite sets of workers, sites and
  kinds of call. In `BudgetInv`, calls under way are paid for in advance (`Prepaid`): what a
  row has counted, plus the dearest call for each worker it has let through, is at most its hard
  limit plus the dearest call for each worker there is. And a call goes on without being
  asked about the month only by a row that degrades (`GoesByRow`). A row
  adds up the ledger over its sites with a fold. Without an induction theorem that
  takes an operator, induction is on sets of numbers (`ReachesAll`, from the well-founded
  order of Nat): the function that the fold chooses exists (`AddsExists`), and
  entering a call changes the total by no more than its cost (`TotalGrows`).

Each of these is checked by TLC on an instance first (`social_nominal`,
`social_operators`, `social_outages`, `connection_wizard`, `website_edits`,
`website_everything`, `autopilot_nominal`, `autopilot_recovery`, `autopilot_operators`, `discovery_nominal`,
`selection_planner`, `spending_gate`).

Only model-checked, and why:

- liveness under fairness (`EventuallyAtRest`, `EventuallyDecided`, `Settles`,
  `OperationsSettle`, `InboxFollowsFeed`, `ItemsPromoted`, `CandidatesTaken`), which the
  prover cannot state;
- the website's `UnpublishedIsDown`, which holds for one row and one request that unpublishes
  it, a corner too small to be worth a theorem (section 3 says what two requests do).

## 7. Not modelled

`components` in `PROJECT.json` names every part with its reason. In short:

- *Automation policy and circuit breaker*: the policy is a constant of `Autopilot`;
  its circuit is not fed in the running system (section 5).
- *Queue backpressure, release gate*: a deferred tick is a tick that does not claim; a
  verdict is a free choice where it is asked.
- *Editorial engine and plan*: they write to the pipelines. The engine makes a project with its
  version (`orchestrator.ts:663-697`) and, when its gates allow, creates and enqueues a
  publication in the same run (`547-556`), where the row is due and a scheduler may claim it as
  well; the plan makes projects (`editorial-plan.ts:984`). Neither way in is modelled: the models
  begin with rows that exist, and every row of `WebsitePublishing` that is due is enqueued by
  a scheduler or a request it knows.
- *Intelligence, entities, enrichment*: gather data and annotate rows.
- *Authentication and sessions, HTTP parsing, views, the web application, scripts*: no
  protocol between the actors of these models; every operation here is one its caller
  was allowed to make.
- *E-mail, scraping, storage of files, social connections*: remote calls whose outcome
  nothing modelled depends on.
- Inside modelled parts: planner quotas and slots, the assisted and manual modes, the
  recovery of failed publications, limits and retries inside one outgoing call, site
  administration, derivatives, prompt presets.

## 8. What comes next

1. Proofs: the website's shared job with an operator who unpublishes (`UnpublishedIsDown`).
2. `WebsitePublishing` and `Autopilot` composed: the rows the autopilot makes are those
   the pipelines publish.
3. Planner slots and quotas as a module of their own; the recovery of failed
   publications.
