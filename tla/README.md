# g2b: verification models

TLA+ models of g2b, a FastAPI application that collects public procurement
notices (bids) from the G2B APIs into SQLite and lets people track them. The
modules are read off the source under `src/`; file and line references are in
`PROJECT.json` under `map`.

## 1. Inventory of the system

| Component | State it keeps | Operations | Interacts with |
|---|---|---|---|
| **Background jobs** (`app/main.py`) | a `sync_job_logs` row per job; locals of a thread | queue (request), run 2 or 3 services, report progress, completion, failure | services (calls, one session for all), log row (a session of its own per report), `BackgroundTasks` thread pool |
| **Job log retention** (`cleanup_job_logs.py`) | deletes rows by age | cleanup | ids of deleted rows are handed out again |
| **Bid sync, version groups** (`g2b_bid_sync_service.py`) | `bids` rows of a notice, `bid_details.raw_api_data` | sync of a list response, upsert of one item, favorite save from the search page | writes the rows users edit; readers pick versions by these flags |
| **Status and favorites** (repository, pages, API) | `bids.status`, `bids.is_favorite` | set, toggle, save from the search page | race with syncs and with each other: coroutines on the event loop, other handlers in threads |
| **Detail enrichment, contract process, change history, reference enrichment, page crawl** (`app/services`) | the rows collected for one bid | replace what is stored by what was fetched | remote APIs, browser; the same bid may be collected by a job, a manual action, a batch and a command at once |
| **Phase 2 batch, admin API, command lines, favorites refresh, manual actions** | one log row per call | select bids, run services in order, log, alert, answer or raise | pass the selected bids on from step to step |
| **Retry, clients** | attempts of the request at hand | repeat requests that fail for a passing reason | called by every service |
| **Live search** | items fetched so far | one request per operation, merging, filters, sorting, cut | its results can be saved as favorites |
| **Lists, pages, exports** | none | filters, sorting, selection of versions, paging | read what the others write |
| **Health, notification** (`operations_runtime.py`) | none | health report, webhook | read and write `sync_job_logs` |
| **Sample backend** | an in-process fixture | the same reads and writes | replaces the database |
| **Database set-up** | schema, columns added to old databases | `init_db` | engine: SQLite, `check_same_thread=False` |
| **Presentation, templates, schemas** | none | formatting | none |

What is hard about it:

* **SQLite's locking, under sessions that hide it.** A SELECT takes no
  transaction; the first *flush* takes the only write lock, which the session
  keeps until commit, often across remote calls. What a session read before
  that flush may be stale; what it reads after is not. Autoflush makes the
  first flush happen at a SELECT or `session.get`, in places the code does not
  show. A writer that waits too long gets an exception, wherever it happens to be.
* **Objects, not rows, are written**: the UPDATE of an object names the columns
  that differ from what was loaded.
* **Nothing is kept apart.** No queue merges two resyncs of a bid; web
  threads, admin calls and commands write the same rows.
* **Nothing is recovered.** A process that stops leaves its log rows queued or
  running for ever; ids freed by retention are handed out again.
* **Several commits make one operation**: a job commits per service, a favorite
  save twice, a batch once per step and once for its log row.
* **Lists are computed afresh for every page and every answer**, from what
  others write in between.

What makes each component correct is stated as the properties below; the
hazards, each at its line, are in `PROJECT.json` under `hazards`.

## 2. Modules

| Module | Models | Kind |
|---|---|---|
| `JobLifecycle` | what the job API promises: accepted, running, steps stored one by one, settled once or abandoned, forgotten only when nobody works on it | abstract specification |
| `BackgroundJobs` | request, thread, log row, write lock, process stop, retention | detailed specification; implements `JobLifecycle` |
| `BackgroundJobs_proofs` | inductive invariant, its proof, and the theorems | proofs |
| `NoticeVersions` | what readers of a notice's versions can rely on: syncs and saves happen one after the other, each at once, to the rows that are there then | abstract specification |
| `BidVersions` | concurrent upserts of one notice's versions, favorite saves, users' changes | detailed specification; implements `NoticeVersions` |
| `BidVersions_proofs` | inductive invariants, their proofs, and the theorems | proofs |
| `Enrichment` | runs of the collection services for one bid, table by table | specification |
| `Enrichment_proofs` | inductive invariant, its proof, and the theorems | proofs |
| `SyncCalls` | calls of the services by the admin API, command lines, favorites refresh and drawer: selection, retries, transaction per service, log row, alert, answer | specification |
| `SyncCalls_proofs` | inductive invariant, its proof, and the theorems | proofs |
| `BidListing` | filters, order, selection of versions, backends and pages of the bid lists | operators |
| `LiveSearch` | merging, filtering, sorting and cutting of search results; EXTENDS `BidListing` | operators |
| `Browsing` | a reader of lists and searches beside users who click and a sync; EXTENDS `LiveSearch` | specification |
| `BidListing_proofs`, `LiveSearch_proofs` | what the operators of the two modules return | lemmas |
| `Browsing_proofs` | inductive invariant, its proof, and the theorem about clicks | proofs |
| `Reading_proofs` | a second inductive invariant of `Browsing`, its proof, and the theorems about lists and searches; EXTENDS the three above | proofs |
| `MCBackgroundJobs`, `MCBidVersions`, `MCEnrichment`, `MCSyncCalls`, `MCBrowsing` | model values and bounds | model checking |

### BackgroundJobs and the code

One *task* is one accepted request with its run of `execute_bid_resync_job` or
`execute_favorite_initial_refresh_job`. `pc[t]` is where the function is:
`scheduled` after `add_task`, then for each service `fetch` (remote calls, no
lock), `store` (the first flush, waiting for the lock), `hold` (lock held,
perhaps still fetching), then `mark` (a progress report between services),
`finish`, `report` (the except clause), and the three ways to be gone: `ended`,
`died` (an exception escaped: "database is locked" outside of the try
statement), `lost` (the process stopped). `done[t]` counts the services that
committed, `items[t]` remembers which returned items: the failure handler of
the resync job infers the failed step from the item counts, that of the
favorite refresh from `detail_finished_at`. `rows` is `sync_job_logs` reduced
to what reports tell: status, step statuses, failed step. `_update_sync_log`
is `UpdateLog`: it silently does nothing when the row is gone. `Cleanup`
deletes by id instead of by age (ids grow with `started_at`) and frees ids, which
`NextId` hands out as SQLite does. The services are reduced here to their
transaction and outcome; `Enrichment` opens them.

The sample backend's short cut is an initial choice (`backend`); "auto" behaves
as "sqlmodel" for jobs, with `NothingToStore` for bids that are not in the table.

### BidVersions and the code

A *writer* is a session of `sync_bid_notices` (one or two items of this notice,
all operations taken together) or of `_save_favorite_bid_from_search`. Its
first item is read without the lock (`ReadFirst`) and written with it
(`UpsertFirst`); later items are read and written with the lock held
(`UpsertNext`). `Update` is SQLAlchemy's UPDATE of changed columns, which is
where a stale object matters. `work` is the database as the lock holder sees
it; `bids` and `raw` are what is committed. A favorite save commits, reads
the row again and commits a second time. Rows from before the version columns
(`_sync_sqlite_legacy_columns`) have no type and the defaults of the migration.

`NoticeVersions` knows no sessions, objects or lock. A sync brings its versions, a
save its one version with its choice, and both read the rows they change at that
moment; a save is confirmed later from what it has read in between, so that it may
write nothing, or overrule a user's change in its own direction, or never come.
Under the mapping (`Shown`, `Stored`, `Saves`) a commit is a `Sync` or a `Save`, the
second transaction of a save is `Confirm`, its failure `Abandon`; everything before a
commit is a stutter. Not among what is seen are the effective flag, the parent and
which of its types a row has: of these, two writers can leave a mixture
(`versions_effective_flag`).

### Enrichment and the code

A *run* is one call of a service for one bid: a sequence of operations
(`plan`), each of which fetches (`got`), reads what is stored (`base`), and
leaves its changes to the next flush (`Flush`), which is where the lock is
taken, except in the crawl, whose SELECT flushes the changed `bid_details` row
first (`TakesLockFirst`). Tables with serial ids are replaced wholesale
(`ReplaceAll`: inserts before deletes, deletes by the ids that were read);
attachments and changes have positions as ids (`Place`, `Accepted`), attachments
being matched by name and URL (`Lookups`). `overlapped` and `last` are history
variables for the properties.

### SyncCalls and the code

A *call* is one request to an endpoint of `admin_sync_router.py`, one run of a
`sync_*` command, one `_refresh_favorite_bids` or one `_run_manual_bid_action`;
what they have in common is the record `Request`: which services run in which
order, the bids given, how the detail service selects, whether a batch narrows
later steps to the detail step's bids, and how the call ends (`raises`: a command
line raises again after it has logged, the API answers). `pc[c]` is where the
call is: `select` before a service (or at the end of the last), `next` between two
bids, `fetch` at a remote request, `write` at the first or a further flush,
`failed` in the except clause, `refresh` and `notify` in `log_sync_job`.
`Selections` are the services' queries for their bids, where no ids means
"all" to some, "targeted" to one and "nothing" to others; `passed` is
`processed_bid_ids`. `Attempt` is one turn of the loop of `run_with_retry`
together with the loop over lookup values around it. `pending` is what the
session has flushed: leaving its `with` block drops it (`Rollback`). What is
stored for a bid is opened in `Enrichment`; here `stored` only says who stored
something for which bid. The row of a call is written by a session of its own,
read back (`Refresh`), and, if it says "failed", sent to the webhook. Reading it
back can fail, which turns a completed call into a failed one with two rows, and
a failed one into an exception without an alert; `readBack`, a history variable,
tells these from the others, whose failures must reach the webhook.

### BidListing, LiveSearch, Browsing and the code

`BidListing` translates `SqlModelBidRepository._list_statement` and
`_apply_version_selection`, the sample repository's list, the "auto" fallback of
`list_raw_bids` and `list_raw_bids_page`, and the pagination of the page context, as
operators on the table. Text is not put together: `Mentions` says which bids a text
is found in, field by field, and `Column` gives the columns that nothing
changes a rank (0 for NULL). `Sequenced` puts a finite set in an order by saying how many
elements come before each, and `At` is a list comprehension; both are first-order, so
that the prover can be told about them. `LiveSearch` translates the search service in the same
way, on sequences of items. `NumberLike` are the texts that the search takes for a
notice's number by their looks alone, whether there is such a notice or not.

`Browsing` puts them to work. A *request* is one call of a route that writes:
the table's and the drawer's favorite toggles and status fields, the JSON API's
`PATCH`, `POST` and `DELETE`, the save of a search result. Handlers declared `async`
have no `await` between read and write, so they occupy the event loop (`loop`)
until they have answered; the others run in the thread pool and interleave.
The table's actions answer with a list page computed after the write
(`AnswerTable`), from the filter that came back with the form. The *reader* walks a
list page by page over the API, or searches: one request per operation,
any of which may fail, the favorites mark read from the database at the end. `Sync`
is a sync's commit as a reader sees it; `BidVersions` opens it.

## 3. Runs

| Run | Question | Result |
|---|---|---|
| `jobs` | log honesty, lock discipline, row ownership, settling, refinement of `JobLifecycle` | holds |
| `jobs_failed_step` | does a failed resync name the step that failed? | no: a detail step that stored no item is blamed for a later step's failure |
| `versions` | one latest version; all or nothing; no lost user choice; refinement of `NoticeVersions` | holds |
| `versions_effective_flag` | does `is_effective_version` follow the version's type? | not with two writers of one row |
| `versions_latest_effective` | is the "latest effective version" effective? | no, readers look at `status` only |
| `enrichment` | without overlap, tables mirror the last response; crawled files do in any case; failed runs leave nothing | holds |
| `enrichment_duplicates` | do two runs for one bid leave duplicates? | yes |
| `enrichment_purchases` | are purchase items kept? | no, the next purchase operation deletes them |
| `enrichment_files` | can every list of files be stored? | no, a new file before a known one collides with its key |
| `sync_calls` | all or nothing per service, truthful rows, honest retry counts, alerts, selection kept, every call ends | holds |
| `sync_scope` | does a batch keep to its selection? | not to an empty one: the next two services read it as "all bids" |
| `browsing` | pages make the export, one version per notice, news first, favorites listed, tables show their page, toggles cancel, searches show the newest and the best | holds |

The seven runs that find a violation each contradict a sentence of the docs or a
test; they are quoted under `findings`.

### Bounds, and why they are enough

* `jobs`: two tasks (two is what it takes for a job to meet another job's lock
  or row), two ids (an id can be freed and handed out while the other job runs),
  one stop of the process (the log can only stay as it is after it; a second
  one repeats the first on the other task). Each task makes one run, with all
  outcomes of all its services.
* `versions`: two writers of up to two items each over three versions (older
  than, equal to and newer than the other's), one version that may be there
  from before the version columns, one change by a user. `Kinds = {"other"}`
  still gives three types: cancelled, original and revision. Three writers or
  edits give no new pair of read and write around a flush.
* `enrichment`: three runs (a stale run can meet two that committed in the
  meantime), two names, up to two items (so order, repetition and an empty
  response occur), one plan per kind of table. `goods`, `services`, `foreign`
  have a run of their own.

* `sync_calls`: one call of each of 15 requests (every service from each entry,
  with and without bids given, batches with and without their detail step, a
  refresh with either backend) beside a writer that takes the lock at any time
  and adds bids, and users who change them. Two bids, one with a detail page, so
  that a selection can be empty, partial or complete and a later bid can fail
  after an earlier one was flushed; two lookup values; every initial state of the
  bids. To a call another call is a holder of the lock and a source of new bids,
  which `Other` is; the theorems of section 4 are about any number of calls.
* `sync_scope`: two calls, as the violation may need a list sync beside the batch.
* `browsing`: two writing requests, chosen from eight, one reader, one sync; three
  notices of which one has two versions, two columns to sort by with ties and
  a NULL, one sample bid, and pages of two, so that lists of three have a second
  page; searches by a text, a number and a text that only looks like one, over
  responses that repeat a bid with what an older item says otherwise, and a limit of
  three, which cuts what four bids match; backend "auto", in which both
  others are contained (a bid is looked for in the database, then in the fixture).

`CHECK_DEADLOCK FALSE` is set where writers, runs, calls and requests happen once and may all be
over. In `jobs` it is checked: users' cleanups and other writers go on.

### Fairness

`jobs` and `sync_calls` have a liveness property. For `EveryTaskSettles` the
`FairSpec` of `BackgroundJobs` assumes weak
fairness of each task (its thread is scheduled; remote calls and lock waits have
time-outs, after which they raise, so each step is taken or fails) and of
`OtherReleases` (another process commits or rolls back). No request, cleanup
or stop is assumed. A wait for the lock needs no strong fairness: as long as the
lock is taken, `WaitFails` or `Escapes` is enabled, as the driver's time-out is.

`EveryCallEnds` rests on weak fairness of the steps of each call that has begun, for
the same reasons: the remote clients and the webhook have time-outs, attempts
and lookup values are bounded, and a wait for the lock ends with the lock or with
`StoreFails` or `LogFails`. Beginning a call, stopping it and what others
do, the release of their lock included, is not assumed.

## 4. Proofs

`BackgroundJobs_proofs` proves for any set of tasks, any number of ids and of
stops of the process:

| Theorem | States |
|---|---|
| `Invariance` | `Spec => []IInv`, the inductive invariant |
| `TypeCorrect` | `TypeOK` |
| `LogHonesty` | `ClaimsAreCommitted` |
| `FailedStepSafety` | `FailedStepNeverOverclaims` |
| `FavoriteFailedStep` | `FavoriteFailedStepIsExact` |
| `LockDiscipline` | `LockOnlyInService` |
| `RowOwnership` | `OwnRow` |
| `Refinement` | `Spec => ImplementsLifecycle` |

They rest on the named assumptions of the module: at least one id, a finite
number of stops, task names other than the two lock values, `NoRow` is not a row.

Why an inductive invariant is needed: `ClaimsAreCommitted` says that a claimed
step is committed, but the next report is written from what the function
remembers, so the invariant ties the function's place to its counters (between
services `1 <= done < NumSteps`, at `finish` `done = NumSteps`, items only of
returned steps), and the row a live task writes to must still be the one it
inserted: `OwnRow` in turn rests on the cleanup's cutoff lying beyond every live
task's id (`RetentionOutlivesJobs`) and on ids being handed out above every
one in use. The refinement adds that the status of a live task's row follows
its place (queued while scheduled, running after), from which each step maps to
a step of `JobLifecycle` or to a stutter. The proof has one lemma per group of
actions and one step per action.

`SyncCalls_proofs` proves for any number of calls, bids and lookup values and any
requests that run no service twice:

| Theorem | States |
|---|---|
| `Invariance` | `Spec => []IInv`, the inductive invariant |
| `TypeCorrect` | `TypeOK` |
| `Atomicity` | `ServicesAreAtomic` |
| `HonestCompletion` | `CompletedIsTrue` |
| `SelectionKept` | `LaterStepsKeepSelection` |
| `HonestRetries` | `RetriesAreHonest` |
| `Alerting` | `FailuresAreAlerted` |

Its assumptions are the named ones of `SyncCalls`: the lock's other values are no
calls, at least one lookup value, well-formed requests, and `StepAssumption`: no
request names a service twice and no batch the list service. The last holds of
every request the code can make; without it `stored`, which is kept by service,
could not tell two steps apart. The properties speak of what a call leaves behind, so the
inductive invariant says what holds on the way: how many services have selected at
each place (`Places`); that what is flushed belongs to the current service, is
held under the lock and, except for the services that pass over bids, covers all
selected bids that are no longer to do (`Flushes`), from which the commit
makes `Atomic` out of `Atomic`; that what is handed on is what the detail step
selected (`Kept`); that errors before the last were passing and fewer than the
policy allows (`Tried`); that a second row only follows a completed one, and that
between reading a failed row back and answering or raising there is only the alert
(`Logged`). All of it is about one call: `Untouched` says what the step of another
one leaves alone, `UntouchedCall` that the invariant then stays, and each action
has a lemma about the call that takes it.

`BidVersions_proofs` proves for any number of writers, versions, items of a batch
and changes by users:

| Theorem | States |
|---|---|
| `Invariance` | `Spec => []IInv`, the inductive invariant |
| `TypeCorrect` | `TypeOK` |
| `LatestVersion` | `OneLatestVersion` |
| `Completeness` | `AllOrNothing` |
| `UserChoicesKept` | `SyncsKeepUserChoices` |
| `WritersAreSerial` | `Spec => ImplementsNoticeVersions` |

Its assumptions are the named ones of `BidVersions`. The invariant has two halves.
`Stores` is about the committed rows and the lock holder's view of them together:
the marks of both are right (`Marked`: before the first sync no row is marked), no
row or type is lost from the one to the other (`Grows`), and what is committed is
from writers that committed. `Writer` is about one writer: what it has stored so
far of its batch (`Has`), and that its view differs from the committed rows in
users' columns only as a favorite save may (`KeepsChoices`), which is what a commit
then publishes. The case that needs an argument is the flush of a stale object,
whose `UPDATE` leaves out columns that did not change: `UpsertFacts` has it. The
mark is then right because a row whose mark was loaded as true was marked by a
synced version, so the stored marks are right; that a type or a row, once
there, stays there (`Grown`) carries this across the steps of others. That
`Seqs` has a newest member is `NewestFacts`, by well-foundedness of `<`.

`WritersAreSerial` needs more than that no choice is lost: what a commit publishes must
be what the abstract step computes from the committed rows. The second invariant,
`Serial`, says so of the lock holder on its way: its table is the committed one with its
items so far brought at once (`AsOne`), and its items are its own. It holds
after the first flush although the object may be stale (`UpsertFacts`), and item by item
from there, as bringing some versions and then others is bringing them all
(`AsOneNext`). The committed rows cannot change meanwhile, since everybody
else needs the lock (`SerialKeeps`). Then each step maps to a step of `NoticeVersions`
or to a stutter: `CommitShown`, `SaveAgainShown`, `FailsShown`, `UserShown`, `HiddenSteps`.

`Enrichment_proofs` proves for any number of runs, names and items, any plans and
any responses:

| Theorem | States |
|---|---|
| `Invariance` | `Spec => [](IInv /\ CInv /\ SInv)`, the inductive invariant |
| `TypeCorrect` | `TypeOK` |
| `OnlyCommittedRows` | `NothingFromFailedRuns` |
| `CurrentFiles` | `CrawledFilesAreCurrent` |
| `SerialRuns` | `SerialRunsMirror` |

Its assumptions are the named ones of `Enrichment`. `ContractAssumption` says that
integrations are only written by the contract process service, whose plan is
`<<"integration", "timeline">>`: `NothingFound`, the early return of that service,
is about no other plan. The invariant has three parts. `IInv` says that the rows
the lock holder sees were told to committed runs or to the holder itself (`Seen`,
`Told`), which a commit makes true of the stored rows and a rollback drops. `CInv`
is about crawls: one that has read the attachments keeps the lock until it ends
(`Crawl`), so that what it read is still there when it replaces it; on this,
`CrawlPlaceFacts` says what the upsert by name and URL leaves. `SInv` is about
runs that do not overlap: a run's read is what it replaces, tables it has not
written are as committed, and a table it has written is a copy of the last
response for it (`Copies`); `ReplacedFacts` shows that a replacement of what was
read yields such a copy. Then counts follow from bijections (`ListingFacts`,
`DistinctFacts`, `UniqueFacts`), and that bounded ids have a largest one from
the well-foundedness of `<` (`LargestExists`).

About `Browsing` two modules prove, for any number of bids, versions, requests and
syncs, any filters, searches and responses, any size of a page and any limit:

| Theorem | States | In |
|---|---|---|
| `Invariance` | `Spec => []IInv`, the inductive invariant of clicks | `Browsing_proofs` |
| `ClicksCancel` | `TableTogglesCancel` | `Browsing_proofs` |
| `ReadingInvariance` | `Spec => []RInv`, the inductive invariant of readers | `Reading_proofs` |
| `BrowsingTyped` | `TypeOK` | `Reading_proofs` |
| `PagesAreTheExport` | `PagesMakeTheExport` | `Reading_proofs` |
| `EveryNoticeOnce` | `NoticesAreListedOnce` | `Reading_proofs` |
| `NewsAreListedFirst` | `NewsComeFirst` | `Reading_proofs` |
| `EveryFavoriteOnce` | `FavoritesAreListed` | `Reading_proofs` |
| `AnswersShowTheirPage` | `TablesShowTheirPage` | `Reading_proofs` |
| `NewestIsShown` | `SearchShowsNewest` | `Reading_proofs` |
| `BestIsShown` | `SearchKeepsBest` | `Reading_proofs` |

They rest on the named assumptions of `BidListing`, `LiveSearch` and `Browsing`. Three
of them deserve a word: the bids are finitely many, as a table's rows are; `Empty`,
a filter that is not given, is not the number of a notice; and a request for a
status carries one of the statuses that the pages' forms and the schema of the
API offer (the handlers of the forms do not look).

*Clicks.* The property counts the clicks that are done, but in between a click has
read the flag, and what it writes is right only if nobody has written since. So
the invariant says that a toggle of the table that has begun occupies the event loop
(`Loop`), that a click on its way has read the flag as it is (`Counted`), and that
clicks are counted from the write on (`Written`), which is when the flag turns
over; rows keep their flags through status changes, syncs and saves of other bids
(`SameFlags`).

*Lists.* `BidListing_proofs` first shows that a finite set can be put in order at
all: with a strict total order each element has its own number of predecessors,
an injection of the set into as many numbers as it has elements, hence onto them
(`SequencedFacts`; no induction, only the library's facts about cardinalities).
That order by a column, with ties broken by the id, is such an order is
`OrderOrders`. Then the operators follow one by one: what the statement returns
(`ListStatementFacts`), which version stands for a notice (`RepresentativeFacts`)
and which are selected and in what order (`SelectedFacts`), where a page begins and which page is the
last (`DivFacts`, `TotalPagesFacts`, `PageOfFacts`), and that `list_raw_bids_page`
cuts its page out of the list that `list_raw_bids` returns, although the two
decide on the fallback to the sample data differently (`ListPageFacts`: the one asks
for an empty list, the other for an empty page of an empty list).
`LiveSearch_proofs` does the same for merging (`NewestOfFacts`, `DedupedFacts`),
sorting and reversing (`SearchSortedFacts`) and cutting (`ResultsFacts`).

*Readers.* Most of the properties then hold in every state of the right type. Three
need the invariant `RInv`: a reader whose list no write has changed has read its
beginning up to the end of the page it is at (`Walked`, `Upto`; `NextPageRead` is the
step), from which `PagesMakeTheExport` follows at the last page; an answer shows a
page of the list it counts (`AnswerKeeps`); and what a toggle has found is still
there when it writes (`Ready`), so that its write stays in the table or the fixture it
was found in, and types stay.

**Model-checked only**: `EveryTaskSettles` and `EveryCallEnds`, which are liveness under
fairness. Every other property of a passing run is also a theorem.

`RetentionOutlivesJobs` is an assumption about operation, not about code: with a
negative `--days` the cleanup would delete rows of running jobs.

## 5. Not modelled, and why

* Formatting, templates, schemas, wording of messages: no state.
* Remote APIs, Playwright (and its profile directory), the webhook: external; an
  answer, an empty answer or an exception. The parsing of their answers.
* The health report, the operations page, the pre-specification and result
  pages and the contents of the drawer: single queries that write nothing.
  What they say that a document does not is listed below.
* Back-off times, the date window and the single page per operation of a search.
* The contents of a bid that no property tells apart.
* Rows of other bids in `Enrichment` and of other notices in `BidVersions`; they
  share the write lock, which `BackgroundJobs` and `SyncCalls` cover.
* SQLite databases other than a file shared by processes (the default).

### Disagreements without a run

Met while modelling, where a run would only restate one line, or no sentence of
the repository says what should hold:

* A version of a notice that is stored before an earlier one keeps no parent
  link (`g2b_bid_sync_service.py`, `_parent_bid_id`), although the data model
  (data-model.md:93) describes the link as one to the preceding version.
* The table's status field has the name of the list's status filter, so the answer
  is filtered by the status just set (`FormFilter`); phase-3.md:110 has the
  filter kept.
* Failures of background jobs do not alert (`main.py`:2081 writes the row itself),
  though operations-runbook.md:26 and phase-4-checklist.md:32 speak of failed jobs
  in general.
* Health is "degraded" by the job that *started* last only, a recent failure may be
  hidden behind it (phase-4-checklist.md:34).
* The archived original version is labelled differently in the drawer and on the
  results page (phase-3.md:144 wants one meaning).
* The table is cut at the page asked for, its pagination at a clamped one:
  `TablesShowTheirPage` has to except that case.
* The docs order the versions of a notice by `bid_seq` and mean by "effective" not
  cancelled (bid-versioning-strategy.md:81 and 88-90,
  g2b-bid-version-field-mapping.md:116-118). The lists take the version that comes
  first in their own sort order, by default by `last_changed_at`, and "effective" for
  not archived. So a cancelled version may stand for a notice (the run
  `versions_latest_effective` is about that), and with a filter, another order, or
  after a favorite save an older one. No property claims more than holds: `NewsComeFirst`
  and `NoticesAreListedOnce`.
* With the backend "auto", a filter that matches nothing shows sample bids.
* A save from the search overwrites `last_changed_at` with the opening time or
  NULL (`main.py`:885, `Saved`), and answers with an error, though it is stored, when the job
  cannot be queued (`Save`).
* The drawer's favorite toggle can lose a click to another one;
  `TableTogglesCancel` is about the table's, which cannot.

## 6. Plan

1. **`BackgroundJobs`**, `JobLifecycle`, proofs. *Done.*
2. **`BidVersions`**, `NoticeVersions`, proofs. *Done.*
3. **`Enrichment`**, proofs. *Done.*
4. **`SyncCalls`** with its proofs (the phase 2 batch, the other calls, retries).
   *Done.*
5. **`BidListing`, `LiveSearch`, `Browsing`**, proofs. *Done.*
6. The drawer's tabs, and the health report as a reader of the rows that
   `SyncCalls` and `BackgroundJobs` write.
