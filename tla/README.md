# Whisp in TLA+

Whisp analyses plots of land: a client submits a GeoJSON, WKT or GeoID
collection, a Celery worker runs the analysis on Earth Engine, and the client
reads the result. This directory holds TLA+ models of that system, from the
functions of the database to the pages of the app, the TLC runs that check
them, and the theorems that TLAPS proves about them. Paths below are relative to
the root of the repository.

* [The system](#the-system): its parts, how they interact, what is hard
* [Modules](#modules): what each models, and how it corresponds to the code
* [Runs](#runs): what TLC checks, with which bounds, and what violations say
* [Theorems](#theorems): what is proved, and how
* [Not modelled](#not-modelled) and [What is left](#what-is-left)

## The system

| component | where | state it keeps | operations | status |
|---|---|---|---|---|
| Job submission | `api/src/submit/service.py`, `api/src/db/jobs.py` | the row of `analysis_jobs`, the input file | `submit`, `create_analysis_job`, `_wait_for_completion` | modelled |
| Job status | `api/src/status/` | none of its own | GET status, POST cancel, GET stream | modelled |
| Progress channel | `api/src/redis/events.py` | snapshot key with a 600 s TTL, pub/sub channel | `publish`, `get`, `wait_for`, `subscribe` | modelled |
| Analysis workers | `api/src/worker/` | Celery message, the result file | `before_start`, `run_analysis`, `on_failure`, `after_return`, `on_timeout` | modelled |
| Stuck job release | `db/migrations/20260522_release_stuck_jobs`, `infra/k8s/03.05-cronjobs.yaml` | none of its own | `release_stuck_analysis_jobs` every 5 minutes | modelled |
| Database pool | `api/src/db/pool.py` | a pool for the API, a loop and a pool per worker process | `run_sync`, `init_pool` | partly (`run_sync`) |
| Submission endpoints | `api/src/submit/router.py`, `validators.py` | none | validation, the features that are extracted | partly (without sizes and parsing) |
| GeoID client | `api/src/geoid/client.py` | tasks and slots of one call | `resolve_geo_ids` | modelled |
| API keys, rate limit | `api/src/auth/`, `api/src/db/api_keys.py` | window counters in memory | `check_rate_limit`, `api_key_dependency` | modelled |
| Result export | `api/src/geojson/`, `api/src/result_fields/` | the cached CSV | `generate_geojson`, `load_or_build_csv` | partly (not the CSV of the fields) |
| Configuration, responses, start-up | `api/src/main.py`, `codes.py`, `config.py` | none | - | partly (the statuses) |
| Accounts | functions under `db/migrations/` | users, links, API keys | keys; register, verify, reset, log in, link SSO, delete | partly |
| Migration runner | `db/migrate.js` | `migration_history` | `run` | modelled |
| Sessions and SSO | `app/src/lib/auth/`, `app/src/app/auth/` | cookies, tokens of Keycloak, the user of a document | sign in, refresh, sign out | modelled |
| API key cache, proxy | `app/src/lib/server/api-client.ts` | two caches per Node process | `resolveApiKey`, `resolveGeoidToken`, `invalidateApiKeyCache` | modelled |
| Status hook, submission | `app/src/lib/submission/`, `app/src/components/submission/` | the state of a browser tab | stream, then polling; read files, submit, open | modelled |
| Data services | `app/src/lib/db/` | none of their own | SQL statements | partly |
| Pages, components, reports | `app/src/app/`, `app/src/components/`, `app/src/lib/results/` | the state of a page | see the modules | partly (the pages with state) |
| Lookup tables, manifests, scripts | `db/migrations/*seed*`, `infra/`, `scripts/` | data, configuration | - | not modelled |

### The life of a job

A submit request inserts a row in state `analysis_queued`, publishes it, writes
the input file and sends a Celery message. A worker of the queue takes the
message and runs the task in a pool process (the *child*), which writes the row
and publishes progress, writes the result file, and records the outcome. Three
more actors write the row: the worker process when the hard time limit expires,
the API on a cancel request, and the cron job that releases stuck rows. Readers
(GET status, the stream, the synchronous submit) prefer the Redis snapshot and
fall back to the row.

What makes this hard:

* every check of the row and the write that depends on it are two statements,
  and the write has no condition (`update_analysis_job`), so each actor may
  overwrite what another one did in between;
* the row, the snapshot, the message and the result file are four stores with
  no transaction across them, and any two writes may be separated by a crash;
* publishing may fail without anybody noticing, and the snapshot outlives what
  it says by up to its time to live;
* messages are acknowledged late, so a job may run again after a crash, and
  write its result file again while it is downloaded;
* a killed child runs no handler at all.

What makes it correct: what clients are shown was recorded first; a completed
job has a result that can be read, and the result never changes afterwards;
every admitted job ends, whatever fails; what clients are shown comes to agree
with the database; whoever waits is answered; and a download is the whole result
of one run.

### What surrounds a submission

`submit_geojson` and `submit_wkt` check a request and flatten it into features;
`submit_geo_ids` asks an outside service for the features, a few at a time, each
with one retry, and its tasks outlive the call when one of them fails. Every call
of a worker to the database goes through `run_sync`, which repeats whatever ended
with an exception on a new loop with a new pool. What makes it correct: the
features that are analysed are those that were sent, in their order; a failure of
the service is not blamed on a geo id; a call that meets no new fault succeeds
whatever the pool has lived through.

### Keys, sessions and accounts

The app calls the API with the key of the user who is signed in, or with the
temporary key of the system user (id -1000) for everybody else. It takes keys
from the database and keeps them in a cache of its process until a minute before
they expire. Users create and delete their key from the account page, the SSO
callback creates one for a user without, and `get_temp_api_key` renews the
temporary key when it finds none that is valid. The API looks the key up on
every call and then counts the call in the window of that key.

Sessions are cookies: a short access token that server actions renew from a
longer one, and, for users of Keycloak, the refresh token with which the app gets
the token of the GeoID service. Accounts with a password are made and changed by
functions of the database, one transaction for each call, and by links in mails.

What makes this hard: a key waits in a variable of a request between the
database and the cache, and the cache may be cleared in between; the functions
of the database are several statements, and the handlers several functions; a
request carries the cookies the browser had when it was sent, and its answer
sets cookies later; Keycloak replaces a refresh token by using it; the window of
the rate limit is fixed, and calls come at its boundary. What makes it correct:
a key that has been refused stays refused; the cache forgets a dead key, and
holds one only where calls raced; no window of time lets twice the limit
through; a submission carries the token of its user; a link changes the account
it was made for, and a deleted user leaves no jobs.

### The app

Next.js pages in a browser talk to server actions, which a document sends one at
a time, and to proxy routes, which it sends as it likes. What makes this hard:
answers come late, in another order or not at all, to a page that has gone on;
effects and closures see an earlier render; what is selected, filtered and paged
refers to what the last render derived; several documents share the cookies and
the database. What makes it correct: what is displayed belongs together (a
selection is among the rows, a count agrees with the list behind it, a form shows
what it will send), and whoever waits stops waiting.

### Deployments

Each deployment starts a runner of the migrations, which may fail, be started
again, and overlap with another. What makes it correct: a runner that ends well
leaves its files applied in order, and once if no two overlapped.

`PROJECT.json` lists every hazard at its line, with the properties that would
catch it.

## Modules

| module | models |
|---|---|
| `AnalysisJobs` | the life of a job across all its actors |
| `JobLedger` | what the service promises of a job, whichever handler does it; `AnalysisJobs` implements it |
| `StatusClients` | `AnalysisJobs` with the stream and the synchronous submit that follow a job |
| `SubmitChecks` | what the endpoints of a submission check and extract |
| `GeoIds` | the features of a list of geo ids, asked for at the GeoID service |
| `RunSync` | the calls of a worker process to the database |
| `ResultExport` | the downloads of a result while it is written |
| `RateLimiter` | the window that counts the calls of one API key |
| `ApiKeys` | the keys in the database, the cache of the app, and the check of the API |
| `Accounts` | the accounts with a password, their links and their deletion |
| `SsoSession` | the cookies of a browser, Keycloak, and the token of a submission by geo id |
| `AppSession` | the user, the key and the first spinner of one document of the app |
| `Submission` | the forms of the home page, and the page of a local result |
| `ResultsPage` | the results page of one job: stream, polls, cancel button |
| `RiskTrees`, `ResultsView`, `FieldPicker`, `OfflineReport` | the results once they are there: decision trees, search and filters, columns, the report |
| `JobsPage`, `AccountPage`, `KeysPage`, `ReferencePage` | the other pages that keep state |
| `Migrations` | the runners of the database's migrations |
| `ResultsDisplay`, `AccountPages` | `ResultsPage` with the view, the trees, the picker and the report; `AppSession` with the four other pages: what each page promises beside the others |
| `NoValue`, `Lists` | `None`, which the modules share; a list filtered, added up, put together |
| `MCAnalysisJobs`, `MCStatusClients`, `MCApiKeys`, `MCBackend`, `MCResults`, `MCAccount`, `MCSubmit` | instances for TLC, one part or several that share no state |
| `AnalysisJobsProofs` | theorems about `AnalysisJobs`, `JobLedger`, `StatusClients`, and their proofs |
| `ApiKeysProofs` | those about `ApiKeys` and `RateLimiter` |
| `BackendProofs` | those about `GeoIds`, `RunSync`, `ResultExport`, `Migrations` |
| `AccountsProofs` | those about `Accounts` and `SsoSession` |
| `SubmissionProofs` | those about `Submission` and `SubmitChecks` |
| `PagesProofs` | those about `AppSession`, `KeysPage`, `AccountPage`, `JobsPage`, `ReferencePage` |
| `ResultsPageProofs` | those about `ResultsPage`, `ResultsView`, `RiskTrees`, `FieldPicker`, `OfflineReport` |
| `ListsProofs` | lemmas about lists and about pages of rows, for the three before |

Two modules compose others: `StatusClients` extends `AnalysisJobs`, whose steps
the clients see, and `JobLedger` is instantiated by `AnalysisJobs` as what it
implements. `ResultsDisplay` and `AccountPages` put parts side by side that share no
state: each part is an instance over variables of its own. The other modules meet at what one takes from the other as given: `ResultsPage` at
the job's status as the API answers it, `ResultExport` at the attempts of
`AnalysisJobs`, `SubmitChecks` and `GeoIds` at the submit handler, the pages of
the app at the answers of server actions. What they suppose there is in the
comments of the actions of the outside.

A note on cuts. A handler is cut where something else can run: at an access to a
shared store on the server, at an `await` in an event loop, at a wait for an
answer in the browser. React renders and runs effects to the end before the next
event, so that in the page modules an action is an event handler with the
effects that follow. The server actions of one document are queued by Next.js
and answered in order: `calls` is a sequence there, and a set where `fetch` is
used.

Actions and operators whose comment begins with "Mutant:" are not part of the
specifications. Each is a plausible bug of the definition that follows it, and shows that the
properties of the runs can tell the two apart.

### AnalysisJobs

| variable | code |
|---|---|
| `row`, `recorded` | `analysis_jobs.status`; every status it has held (history) |
| `snapshot` | the status in `job:{id}:state` |
| `result` | the result file: absent, partial, whole |
| `message` | the Celery message: unsent, ready, unacked, acked |
| `submit` | how far the submit request is |
| `attempt`, `outcome`, `waiting` | how far the child is, `_outcome`, the queued jobs whose position it has yet to publish |
| `monitor` | how far `on_timeout` is, in the worker process |
| `cancel`, `answer` | how far the cancel request is, and what it answered |
| `revoked` | the revocation is in the memory of the workers |
| `stuck` | the rows old enough for `release_stuck_analysis_jobs` |
| `crashes` | bound |

Each handler is cut at every access to a shared store and nowhere else: what it
does in between is not visible to the others. `AlreadyTerminal`, `SetRow`,
`Publish` and `JobState` are the four operations everything goes through, as in
the code: the check, the unconditional UPDATE, the publish that swallows errors,
and the read that prefers Redis. Steps that can raise do so for the jobs in
`Fragile`; an exception in `on_timeout` is logged by the pool, which kills the
child all the same (`TimeoutFails`). `CrashWorker(q)` loses every child of a
queue's deployment and returns its messages.

Two facts of Celery are modelled from the options the code sets. A message is
acknowledged when its child has ended, for success, failure, revocation and loss
of the child alike (`task_acks_late`, the defaults of `acks_on_failure_or_timeout`
and `reject_on_worker_lost`), and goes back to the queue when the worker itself is
lost, or loses its broker (`worker_cancel_long_running_tasks_on_connection_loss`:
the children are killed first). At the hard time limit the acknowledgement may
come before `on_timeout` runs or after it, and the model allows both. The Redis
broker delivers again after one hour without acknowledgement; both time limits (60
s, 1800 s) are shorter, so no second child starts while the first lives.

Time appears in two places. `BecomeStuck(j)` says when a row may be older than
its limit. A queued row needs a day, by which time the submit request has ended
one way or the other; a processing row needs its time limit plus five minutes
since `started_at`, by which time the hard time limit has killed the child that
set it. `ExpireSnapshot(j)` may happen at any time.

### JobLedger

The abstract specification has four variables, which are `row`, `recorded`,
`snapshot` and `result` of `AnalysisJobs` (the refinement mapping is the
identity on them), and says what may happen to them without naming a process: a
job is admitted once and first; it may be started, again and again after a lost
child or a cancel that lost its race, until it has been completed; it may end,
and a later handler may give it another end, but it is completed only with a
whole result; the stuck jobs are given up; only what has been recorded is shown;
and the result is written only between the admission and the first completion.
Statuses do not only move forward, and the ledger does not promise they do: a
handler that passed its check overwrites a terminal row.

### StatusClients

`stream` and `wait` are the handlers of GET stream and of `wait_for`, cut at
their reads and at the subscription. `Observed(A)` is a step `A` of the job
lifecycle, as the clients see it: if it publishes a terminal status, whoever is
subscribed keeps it until it reads it. Progress events change nothing but what
is displayed and are not kept. Time appears as `due`: a wait that runs polls
every 30 seconds, so a snapshot (600 seconds) does not expire between two of its
reads. The publish of the API is two Redis commands, `setex` then `publish`; they
are one step here, since a client between the two sees what a client just before
or just after them sees.

### RateLimiter

`count` and `resetAt` are the two numbers of an entry of `_store`; `now` is the
clock; `granted` and `told` are history: when calls were let through, and when
the callers turned away were told to come back. Keys do not share anything, so
one key is modelled. A call is one step: the dependency runs on the event loop
and does not await between the clock and the store. The store is memory of one
API process, so that the bounds are per process, and for its life. The clock is
taken not to go backwards, and the limits of a key not to change.

### ApiKeys

| variable | code |
|---|---|
| `active`, `revoked` | the rows of `api_keys` with `revoked` false (at most one for each user, by the unique index) and true |
| `replaced` | keys that were overwritten in their row (history) |
| `age` | whether a key is within a minute of the expiry it was created with, or past it |
| `cache` | `cache` of `api-client.ts` |
| `request`, `held` | how far a call of `apiFetch` is, and the key in its variable |
| `change`, `seen` | how far a creation, a deletion or an SSO callback is, and the row its UPDATE locked |
| `raced` | the keys that a race may leave in the cache (history, see `Races`) |

A request is cut where it awaits the database; `get_temp_api_key` is cut between
its SELECT and its INSERT, and `create_or_replace_api_key` between its UPDATE and
its INSERT. Under READ COMMITTED a second UPDATE waits for the first to commit
and then finds the row revoked, so that the second INSERT meets the unique index
(`CommitCreate`, its second branch); a deletion that waits for a creation is
taken to come before it, which ends in the same rows. Keys are UUIDs and never
drawn twice. `age` stands for time: `expires_at` of the row and `validUntil` of
the cache come from the same value. `fetchTempApiKey` has the effect of a request
that stops once it has its key. There is one app process, with one cache, as the
module-level map of `api-client.ts` supposes.

### SubmitChecks

One state for each request: what it is (`request`), what the endpoint answers
(`verdict`) and the features it hands to the analysis (`fc`). The checks are
those of `validators.py` in the order of the endpoint, the first that fails
decides; the features are those of the flattening in `submit/service.py`.
Geometries are trees, so that the checks recurse: `Gather` goes through the members
of a collection as `_iter_coords` and `_extract_features` do, and `Nesting` says how
deep each geometry is, which is what ends the recursion. A coordinate is in range, out
of range, or no pair of numbers. Two things that a reader may not expect are as in the
code: lines and features without a geometry are dropped without a word from a
GeoJSON submission, and the members of a collection are not checked for missing
coordinates. `Null` stands for coordinates that are null: they are there for
`_check_geometry`, are none for `_iter_coords`, and make `_extract_features` raise on
a polygon, which the endpoint answers with a server error.

### GeoIds

`task`, `tries`, `results` are the tasks of `asyncio.gather`, the attempts of
`_request` and the list it fills; `held` is what the service knows; `asked`,
`faults` and `odd` are history. A task holds a slot of the semaphore from its first
request to its end, the sleep before its retry included, and the slots are given
in the order of waiting. The first error ends `gather` and with it the `async
with` that owns the client (`Closed`): the tasks that are left fail at their next
request, which does not reach the network. The service answers 401 and 403 like
any other 4xx, so that a wrong credential of the app is reported as an invalid geo id.

### RunSync

A worker process runs one task at a time, so one call at a time. `loop` and
`pool` are the globals of the process; `pool` knows the loop it was created on
and whether its connections live. A call makes sure of a pool, executes, and
after any exception throws both away and does the same once more; a pool that
cannot be made ends it at once. `GoesDown` and `ComesUp` are the database's; the
second branch of `Execute` is a statement that took effect and whose answer did
not arrive.

### ResultExport

`result`, `csv` and `tmp` are the three files, each with the attempt whose data
it has and whether it is whole. The children write `result` in place. The API
handler does not await between its reads and its writes, so the requests of one
process follow one another and only the children and the end of the process come
between; `os.replace` is atomic. `Bare` attempts have a result without features,
of which no CSV can be made. `early` is history: the attempts whose result was read
for a CSV while the job was not completed. A CSV that is kept after the completion
may be of such an attempt, as `old_csv` shows, and of no other (`OldCsvIsEarly`).

### Accounts

`user`, `verify`, `reset`, `subscribed` and `jobs` are tables, `mailed` the links
that have left, `attempts` the count that limits registrations, `doc` the pages
that are open and how far their requests are. Each function of the database is one
transaction and one step, except where it reads without a lock what it goes on to
use: `create_password_reset_token` and `reset_password_with_token` are two steps
each. The handlers call several functions and are cut between them; a call that
fails ends the handler and leaves what came before (`Fails`). `typed` says whether
an address was typed in its normal form.

### SsoSession

`jar` holds the four cookies that matter. `call[s]` is a request with the cookies
it was sent with and, once handled, the cookies its answer sets; `Deliver` and
`Lost` are the two ends of an answer. Keycloak keeps which login has been
authenticated by whom, which code was exchanged, and which refresh tokens it
takes. With `Rotates` a refresh replaces the token. The sign-out is two
requests, a server action and a visit to `/auth/sso/logout`. A callback may fail at
the exchange, or after it and before a cookie is set (`CallbackFailed`): Keycloak has
then issued tokens that nobody keeps. What fails later changes only where the browser
is sent. `faults` is history,
and the properties say under which of them they hold: `"lapsed"` (a session
ended without its sign-out, or the sign-out was abandoned), `"overlap"` (requests
of the browser were on their way together), `"lost"`, `"outage"`, `"ended"`.

### AppSession

One document: the state of the three contexts (`auth`, `keyState`, `config`), the
initializer with its time out, the login form and the protected route; a visit
loads a new one with the same cookies. A call is answered, refused, rejected, or
hangs. A load of the profile retries twice after an answer that says it failed; a
rejected call skips the retries, as in the code. A sign-out that is refused leaves the
user signed in, with a message.

### Submission

`form` is the state of the form of the tab on display, `reads` the files being
read, `calls` the submissions on their way. A form that is left can no longer be
changed (`live` is false), but what it waits for still shows an error or moves
the user. Files are records of what the form looks at: size, extension, what
their text parses to, features, ids. `store` is the variable of `local-results.ts`.
`chosen`, `opened` and `crossed` are history; `crossed` says that the user chose,
typed, cleared or went elsewhere while something was on its way, and the
properties that hold only of users who wait say so.

### ResultsPage

`conn` and `events` are the stream, `fallback`, `timer` and `poll` the polling,
`response`, `completed` and `rows` what the hook has kept and what the table was
given. The API (`job`, `readable`) is outside. The stream's first ten seconds are
`StreamTimesOut`; an interval fires whether or not the last poll was answered, so
that polls overtake one another where `Poll` has more than one. `Faults` names
what may go wrong, so that a property can be stated for the faults it withstands.

### RiskTrees, ResultsView, FieldPicker, OfflineReport

`RiskTrees` has the trees of the three commodities as sequences of nodes and the
loop of `buildTreeSteps` as its actions, one node for a step: which plots come to
a node, which leave it, and whether the selected plot passes. Its reference
definition decides each plot alone (`Decision`).

`ResultsView` is the state of the page: search, the two filters, sort, pages,
selection, overlays, and the layer of the map, which keeps the plots and the
closures of the render that made it until its React key changes. The sorted rows
are stated by their ranks: a plot comes at the place that as many plots precede as
come before it, by its cell, and by its row where cells are alike, since the sort of
JavaScript is stable. `FieldPicker` is
the choice of columns with a catalogue that arrives at any time; `OfflineReport`
is the script of the downloaded file, over the data that the page put in it.

### JobsPage, AccountPage, KeysPage, ReferencePage

`JobsPage` cuts `getStats` at its two queries, between which jobs go on, and
derives the list, its pages and the error window as the page does. `AccountPage`
has the four sections of the settings over one queue of calls, and the refresh
of the profile, which unmounts all of them. `KeysPage` has the context, the
revealed key and the two windows; another tab may change the key. `ReferencePage`
has a table with several administrators, each with a document that lists, edits
and saves; `base` and `edited` are history for the question whose edits survive. The
button of a deletion (`deleting`) is of the list, which a form takes off the page: the
answer of a deletion that was asked for by an earlier list leaves the button of the
present one alone (`Away`, `StillDeleting`).

### Migrations

A runner reads the history once, and then for each pending file: executes it
(`executed`), commits file and record together, or rolls back and records the
failure in a statement of its own. The connection may be lost at any step,
also between a COMMIT and its answer. Files are numbered in the order in which the
runner sorts them, and `Repeatable` says which can be carried out again. A runner that
meets a file another one has just applied fails and then writes `failure` over the
other's `success` (`RecordFailure`): the next run repeats that file.

## Runs

A run that passes shows that its properties hold of every behavior of its
instance; one that is a violation shows one behavior in which the code does not
do what a text of the repository says.

Parts that share no state need not be explored together. A run over several of
them (`keys`, `backend`, `results`, `account`, `submit`) has a variable `part`,
chosen once: the part it names moves as its module says, the others stay as they
began, and each part keeps the instance and the fairness it would have alone. A
property of a part says nothing where another part moves, and where its own moves
it says what it would say of that part alone.

| run | instance | properties |
|---|---|---|
| `lifecycle` | one job, cancelled once, with every fault and one crash of its worker | `CompletedIsReadable`, `CompletedResultFrozen`, `TerminalRowIsGuarded`, `LedgerIsKept` (the refinement of `JobLedger`), `JobsSettle`, `StatusSettles`, the inductive invariant `IndInv` |
| `queue` | two jobs in one queue, one of them cancelled | `ShownWasRecorded` |
| `clients` | one job, streamed and awaited, cancelled or timed out | `AnswersAreBacked`, `WaitIsAnswered`, `SubscribedStreamEnds` |
| `keys` | two requests or three changes of a user, three keys; or one window of calls | `StaleNeedsRace`, `DeadStaysDead`, `DeadIsForgotten`, `BurstIsBounded`, `RetryIsHonest`, the inductive invariant `KeysInv` |
| `backend` | three geo ids; three database calls; three attempts at a result; two runners of migrations | `ListIsAnswered`, `TasksInv`, `SyncInv`, `DownloadsAreWhole`, `OldCsvIsEarly`, `MigInv`, `EarlierFirst`, `BackendEnds` |
| `results` | the results page with one poll or two at a time; the table of three plots; the decision trees; the report; the picker | `ViewInv`, `TreesAreDecisions`, `ReportInv`, `RowsStay`, `PageSettles`, `NumbersAreHonest` |
| `account` | one document; the settings, four choices of two sections; the key; two jobs; one administrator and two | `SettingsInv`, `JobsInv`, `KeyOnDisplayWorks`, `FormsAreKept`, `RequestsEnd` |
| `submit` | the home page with three files; every small request; two requests of one browser; two pages of an account | `SubmissionSafe`, `ChecksAreSound`, `SsoInv`, `AccountsSafe` |
| `cancel_answer` | one job, cancelled | violates `CancelledDoesNotComplete` |
| `limit_race` | two jobs of one user, limit one | violates `ConcurrencyLimit` |
| `stream_without_final` | one job, streamed | violates `StreamEnds` |
| `old_csv` | the attempts and downloads of `backend` | violates `CompletedCsvIsServed` |

Some of the properties are conjunctions, whose parts are defined, with what each
says of the code, next to them:

| property | of | parts |
|---|---|---|
| `TasksInv` | `GeoIds` | `TasksTypeOK`, `BlameIsRight`, `OneFaultIsForgiven` |
| `SyncInv` | `RunSync` | `SyncTypeOK`, `PoolOfItsLoop`, `EffectIsBounded`, `StalePoolHeals` |
| `MigInv` | `Migrations` | `MigTypeOK`, `Pending`, `Solitude`, `DoneIsComplete`, `OnceAlone` |
| `BackendEnds` | `GeoIds`, `RunSync`, `Migrations` | `CallEnds` of the first two, `RunEnds` |
| `ViewInv` | `ResultsView`, `FieldPicker` | `TypeOK`, `SelectedIsListed`, `FilterIsAtHand`, `PageHasRows`, `OneOverlay`, `SelectionIsDrawn`; `QueryIsForgotten`, `GroupIsOnDisplay`, `SelectedAreTicked` |
| `TreesAreDecisions` | `RiskTrees` | `TypeOK`, `CountsAreDecisions`, `PathIsDecision`, `TonesAreHonest` |
| `ReportInv` | `OfflineReport` | `FilterHasButton`, `DetailIsOfOneRow` |
| `NumbersAreHonest` | `ResultsView`, `OfflineReport` | `TilesAreHonest`, `ClickTurnsToRow`; `CountsAreRows` |
| `PageSettles` | `ResultsPage` | `EndIsDisplayed`, with one poll at a time |
| `SettingsInv` | `AccountPage` | `PasswordsForgotten`, `SwitchIsHonest` |
| `JobsInv` | `JobsPage` | `CountsAreNotAhead`, `PageHasRows`, `LabelIsClose` |
| `KeyOnDisplayWorks` | `AppSession`, `KeysPage` | `TypeOK`, `KeyNeedsUser`, `KeyIsCurrent`; `DisplayedWorks`, `ReplacedWhenAsked` |
| `RequestsEnd` | `AppSession`, `AccountPage`, `JobsPage` | `SpinnerEnds`, `LoadingEnds`; `DeletedLeaves`, `BusyEnds`; `LoadingEnds` |
| `SubmissionSafe` | `Submission` | `ShownIsChosen`, `SentAsCounted`, `LastIsShown`, `LocalIsOpened` |
| `ChecksAreSound` | `SubmitChecks` | `NothingLostOrMixed`, `WithinLimit`, `PositionsAreFine`, `ColumnIsThere`, `EndpointsAgree` |
| `SsoInv` | `SsoSession` | `TokenIsOwn`, `StoredIsCurrent` |
| `AccountsSafe` | `Accounts` | `LinkMatchesPassword`, `OneResetLink`, `DeletedLeaveNoJobs` |
| `FormsAreKept` | `ReferencePage` | `FormStays`, `OthersAreKept` |

### The bounds, and why they are enough

* *Jobs* interact in two ways only: through the count of `create_analysis_job`
  and through the positions a starting child publishes for the others; two jobs
  show both. Everything else happens between the actors of one job, and one job
  is enough to have all five of them active together. One crash gives a second
  delivery after a child that was lost; that a third and later ones add nothing
  to safety is what the theorems say, which know no bound on crashes. One cancel request per job
  is the bound of `Cancellable`; a second one finds the state the first could
  have found.
* *Around a submission.* Three geo ids with two slots make one wait, and let a
  repeated geo id, a bad one and a missing one meet; `MaxAttempts` is the code's.
  `ListNamesInOrder` leaves out lists that differ only in the names of the geo ids.
  `run_sync` needs a call to leave a broken pool, one to find it and one to come
  after; four faults allow both attempts of a call to be hit, and the next call
  too. Three attempts at a result let the CSV be of a first that was lost, while
  the second cannot be converted and the third completes; the API ends twice, so
  that what one process left is found by the next, and by the next of that one.
  The checks see every request of up to two features over small geometries of
  every type, with limits of 2 and 3 for lists of up to four features after the
  collections are taken apart.
* *Keys.* The clock of `RateLimiter` leaves room for two whole windows and part
  of a third, and 5 is no multiple of 3, so that rounding shows. In `ApiKeys`
  three keys allow a key, its replacement and the replacement of that; once all
  are used, nothing can be created and what is left is expiry. `Bounded` splits the
  instance in two: both requests meet a creation and a deletion over two keys, and
  one request meets these and a single sign-on over three.
* *Accounts and sessions.* Requests meet in pairs; two links are
  an old one and a new one; `MaxVisits` bounds the pages that are opened one after
  another, and `MaxAttempts`, five in the code, is 2 so that it is met. `Within` takes
  the pages of an account in three groups, each with the bounds it needs. Two pages, or
  two requests, are interchangeable (`Alike`, the symmetry of `submit`, whose
  properties are all safety). The part of the single sign-on stops where both kinds
  of faults have happened (`Claimed`), since its invariant says nothing there.
* *The app.* Two polls are enough to overtake, two files or submissions to come
  in the wrong order, two documents to disagree. Three rows on pages of one and
  two make a first page, a middle one and a last that is not full. A page
  is reloaded once; what it finds then is what a later reload finds. `MaxSaves`,
  `MaxToggles`, `MaxCalls`, `MaxKeys` and `MaxVisits` bound what a user does
  without waiting. The sections of the settings share the user and the order of the
  calls, and meet in pairs. Two administrators work on one row with two fields and
  meet no error (`NoErrors`); one of them alone also creates rows, meets errors
  and a table that is only displayed.
* *Deployments.* Two versions, where the second brings a file that sorts before
  one of the first; three starts let a runner fail, meet the other, and come back.

Deadlock is not checked (`CHECK_DEADLOCK FALSE`), since in every instance users,
jobs or bounds come to an end, and nothing is left to do.

### What the violations say

* `cancel_answer`: `terminate_analysis` returns silently when the job is no
  longer running, and `cancel_status` answers `analysis_cancelled` regardless.
  A job that completes between the two reads is reported as cancelled to the
  client that asked and as completed to everybody else.
* `limit_race`: the count and the insert share a READ COMMITTED transaction
  without a lock, so that simultaneous submits pass `max_concurrent_analyses`
  together.
* `stream_without_final`: `subscribe(skip_cached=True)` reads the snapshot and
  passes over it, then subscribes. An end published in between is never sent,
  and the stream, which unlike `wait_for` does not read the snapshot again,
  goes on in silence until something else closes the connection.
* `old_csv`: `load_or_build_csv` returns the CSV that is there and asks neither for
  the status of the job nor for the age of the result. An attempt has written its
  whole result and is lost before it records it; somebody downloads the CSV; the
  message is delivered again and a second attempt completes the job. From then on
  the GeoJSON is of the second attempt, and the CSV of the first.

### Disagreements without a run

Modelling showed more places in which the program does something its users would
not expect. They have no run of their own; where a property would fail because of
one of them, it says so.

Jobs and downloads:

* `wait_for` reads Redis and never the row. A child that is killed after it
  recorded its outcome and before it published it (`on_timeout` and a cancel request
  both find the row terminal and publish nothing) leaves a synchronous
  submit without an answer; `_wait_for_completion` has no time limit of its own.
  `WaitIsAnswered` and `SubscribedStreamEnds` are therefore about a job that runs
  its course (`RunsItsCourse`).
* The downloads ask for a file and not for the status: the result of a job that
  still runs, has failed or was cancelled is served.
* The sequence described in `README.md:108-109` writes the input before it publishes
  `queued`; the code publishes first (`api/src/submit/service.py:143-156`).

Accounts and sessions:

* The token of a reset link is read without a lock and revoked
  last, so that two requests of one link both set the password.
* Two renewals of the temporary key at once overwrite a key that has just been handed
  out, and requests that use it are refused; `StaleNeedsRace` counts this as a race.
* `forgotPassword` does not normalise the address, as registration and login do.
* A job whose key was checked before its user was deleted is
  inserted afterwards with the user's id; and the deletion leaves the row of
  `notification_subscriptions`.
* Of two submissions that refresh with the same token the second
  is refused, and its answer clears the cookie with the token the first was given.
* The proxy does not renew the access token: half an hour after the
  last server action a browser with a session submits with the key of everybody.
* A login that is started in two tabs can be finished in the second only, since both
  keep their state in one cookie (`app/src/lib/auth/session.ts:127`).

The app:

* The ten seconds' timeout of the stream aborts the controller that the
  fallback asks about (`useJobStatus.ts:77`), so that nothing polls and the spinner
  stays; so does a stream that is closed without its final event. `PageSettles`
  leaves out both faults (`PollingFaults`).
* A poll that is answered late takes the results away, and a refused cancel request
  sends its user home as if the job were over. `TableStays` and `HomeMeansOver` are
  proved where polls do not overtake one another and no request is refused.
* A filter that leaves as many plots as the one before leaves the old ones on the
  map, since the key of the layer has only the number.
* A report made before the catalogue of fields has arrived has counts and rows
  without cells.
* "Previous page" steps from the page that was set, not from the one on display
  after the list has become shorter.
* A profile call that rejects skips the retries and sends a signed-in user to the
  login page.
* A status of the notifications that is answered after the switch was turned turns
  it back; and after a save the refresh takes the page down, so that "Saved" is
  never seen.
* After a load that failed the page offers to create a key and replaces the one in
  use without the window that warns.
* An update of a row that is gone is reported as saved.
* The configuration is read once for each document, so that limits and versions are
  those of its first load.

### Fairness

Every liveness property states what it trusts.

* `FairSpec` of `AnalysisJobs` trusts no handler to go on by itself once faults
  are enabled. It assumes what is outside the handlers: requests end
  (`SubmitNext`: they proceed or fail), the hard time limit fires for a child that
  hangs and its handler runs (Celery's timer; a job outside `Slow` reaches its
  end first), the worker acknowledges what has ended, the cron job of
  `infra/k8s/03.05-cronjobs.yaml` runs, and Redis expires keys. There is no
  fairness on `Deliver`: the workers of a queue may be down for ever, and
  `JobsSettle` holds all the same. `ClientsFairness` is for the healthy path: the
  event loop runs the handlers, a worker takes the message, and its child ends.
* `keys` assumes that time passes, for each key, and nothing else: no
  request or change need ever end for the app to forget a dead key.
* `backend`. `GeoIds`: the event loop goes on, and a request ends, because the client
  has a timeout of 30 seconds. `RunSync`: an attempt ends, because connections and
  commands have time limits (`db_connect_timeout`, `db_command_timeout`); the
  database need never come back. `Migrations`: the process of a runner goes on and
  the database answers it. Nothing is assumed of `ResultExport`.
* `results`: the browser runs its callbacks and timers, a stream that is
  asked for comes to something, and of the polls that are sent again and again
  some are answered: strong fairness, since a poll may be lost any number of times.
  Nothing is assumed of the job, which need not end, nor of the page with two polls.
* `account`. `AppSession`, `AccountPage`: the queue of server actions goes on
  (`Answers` covers refusals and losses), and timers fire. A call that hangs is a
  state of its own (`lost`), and what follows from it is excused by name.
  `JobsPage`: a request ends, by its answer or by the failure of its connection.

## Theorems

TLAPS proves for every value of the constants what the runs check on small
instances. Where the property is a part of one that a run checks, or is implied by
an inductive invariant that a run checks, no run names it.

| module | theorem | property |
|---|---|---|
| `AnalysisJobsProofs` | `Invariance` | `IndInv` |
| | `TypeCorrectness` | `TypeOK` |
| | `ShownAfterRecorded` | `ShownWasRecorded` |
| | `CompletedReadable` | `CompletedIsReadable` |
| | `CompletedFrozen` | `CompletedResultFrozen` |
| | `TerminalGuarded` | `TerminalRowIsGuarded` |
| | `LedgerKept` | `LedgerIsKept` |
| | `AnswersBacked` | `AnswersAreBacked` |
| | `ClientsTypeHolds` | `ClientsTypeOK` |
| | `LimitIsOverrunByCounts` | `AtMostCounting(n)` always implies `LimitWithin(n)` always |
| `ApiKeysProofs` | `KeysInvariance` | `KeysInv` |
| | `StaleRaced` | `StaleNeedsRace` |
| | `DeadStays` | `DeadStaysDead` |
| | `LimiterInvariance` | `LimiterInv` |
| | `BurstBounded` | `BurstIsBounded` |
| | `RetryHonest` | `RetryIsHonest` |
| `BackendProofs` | `ListIsAnsweredHolds` | `ListIsAnswered` |
| | `BlameIsRightHolds` | `BlameIsRight` |
| | `OneFaultIsForgivenHolds` | `OneFaultIsForgiven` |
| | `NothingAfterTheEndHolds` | `NothingAfterTheEnd` |
| | `TasksInvHolds` | `TasksInv` |
| | `DownloadsAreWholeHolds` | `DownloadsAreWhole` |
| | `OldCsvIsEarlyHolds` | `OldCsvIsEarly` |
| | `CompletedIsServedHolds` | `CompletedIsServed` |
| | `MigInvHolds` | `MigInv` |
| | `DoneIsCompleteHolds` | `DoneIsComplete` |
| | `OnceAloneHolds` | `OnceAlone` |
| | `EarlierFirstHolds` | `EarlierFirst` |
| | `SyncInvHolds` | `SyncInv` |
| `AccountsProofs` | `AccountsSafeHolds` | `AccountsSafe` |
| | `SsoInvHolds` | `SsoInv` |
| `SubmissionProofs` | `ShownIsChosenHolds` | `ShownIsChosen` |
| | `SentAsCountedHolds` | `SentAsCounted` |
| | `LastIsShownHolds` | `LastIsShown` |
| | `LocalIsOpenedHolds` | `LocalIsOpened` |
| | `SubmissionSafeHolds` | `SubmissionSafe` |
| | `ChecksAreSoundHolds` | `ChecksAreSound` |
| `PagesProofs` | `KeyOnDisplayHolds` | `KeyOnDisplayWorks`, from `SessionInvHolds` and `DisplayedKeyWorks` |
| | `FormsKept` | `FormsAreKept` |
| | `SettingsInvHolds` | `SettingsInv` |
| | `JobsInvHolds` | `JobsInv` |
| `ResultsPageProofs` | `PageInvHolds` | `PageInv` |
| | `RowsStayHolds` | `RowsStay` |
| | `HomeMeansOverHolds` | `HomeMeansOver`, where `"refuse" \notin Faults` |
| | `TableStaysHolds` | `TableStays`, where `Poll` has one member at most |
| | `ReportInvHolds` | `ReportInv` |
| | `ViewInvHolds` | `ViewInv` |
| | `NumbersAreHonestHolds` | `NumbersAreHonest` |
| | `TreesAreDecisionsHolds` | `TreesAreDecisions` |

The assumptions are `ConstantsAssumption`, `ClientsAssumption`,
`LimiterAssumption`, `KeysAssumption`, `MigrationsAssumption`, `PageAssumption`,
`SubmissionAssumption`, `ExportAssumption`, `GeoIdsAssumption`, `GeometryAssumption`
and `RequestAssumption`, which say which sets the constants are taken from; the window,
the limit and the length of a second are positive, and files are numbers. A member of a
collection is nested less deep than the collection: a request is a text, which ends.
Coordinates that are null are not missing, and a list of one position is neither. A
WKT carries no CRS, and its parser gives each geometry its coordinates. TLC evaluates
them in the runs. The two
conditions of `HomeMeansOverHolds` and `TableStaysHolds` are hypotheses of the
theorems, and neither can go: see what is said of late polls and refused cancel
requests above.

Other theorems name what they suppose of the constants:

* `SyncConstants`, `SsoConstants`, `AccountsConstants`, `DocumentConstants`,
  `SettingsConstants` and the hypothesis of `FormsKept`: bounds are numbers, and
  `None` is not a value of what it is the absence of (a row, a pool, a request).
* `JobsConstants`: limits, sizes of pages and durations are numbers, and a job that
  ends ends in one of the terminal statuses.
* `ReportConstants`: the plot ids of a result differ, since the script takes the plot
  id for the id of a row; and a page knows of the columns that its summary counts.
* `PickerConstants`: the ids of the catalogue differ; they are the keys of a table.
* `TreeConstants`: the plots of a result are finitely many, and the commodities are
  those that have a tree.
* `ViewConstants`: a plot is in the table once, a search finds plots of the table, a
  page has a row at least, and a column puts the plots in an order.

The constants of the runs satisfy each of them.

### The argument

`CompletedIsReadable` is not inductive: nothing in it says why the child of a
second delivery does not truncate a result that clients have been told of. The
reason is `CompletedIsOver`: once `completed` has been recorded the row never
runs again, so that `_already_terminal` turns back every later child before it
writes. That in turn needs `OutcomeIsReady` (a child records `completed` only
after it wrote the whole result) and `OnlySentRuns` (the insert, which is the
other way to a running row, comes before any child). `ShownWasRecorded` needs
`PendingWasRecorded`: whatever an actor is about to publish it has recorded, or
read in the row, before. The conjunction `IndInv` is preserved by every action;
the proof has a lemma for each family of actions and one step per action. The
two action properties follow from `IndInv` and a case split on the actions.

`LedgerKept` needs one invariant more, `AdmittedFirst`: a job has a record
exactly from its insert on, and is started, written, ended and cancelled only
after that. It is kept apart from `IndInv`, on which it rests and which does not
need it. With both, each action is shown to be the ledger's step of the same
meaning, or to leave the four variables alone.

For the clients, `ClientsInv` adds that the messages in the channels are backed
by the row and the result file; what is recorded stays recorded, and a completed
result stays whole by `CompletedIsOver`.

`BurstIsBounded` counts calls over time, and the program keeps one number. The
invariant ties the two: the calls of the window are the last `count` calls let
through (`WindowIsOpened`), and the call `Limit` places before the first of them
is a window older than it (`PreviousWindow`), because the previous window lets
through no more than `Limit` calls, so that it was not open before that call. Of
`2 * Limit` consecutive calls, then, the last and the first are a whole window
apart, and `2 * Limit - 1` is the most that less than a window lets through.

`StaleNeedsRace` is not inductive: a request may store what it holds. `KeysInv`
adds that what is cached or held for an owner was a key of that owner and of
nobody else (`CachedIsOwn`, `HeldIsOwn`), so that a change of one owner's row
concerns one entry of the cache, and that a key which died in the hands of a
request has raced. The lemma `RowInv` is the heart of the proof: it says when a
row may get or lose a key, and the renewal, the creation and the deletion are
instances of it. `QuietInv` does the same for the steps that change no row.
`DeadStaysDead` rests on fresh keys and on the fact that no function gives a key
back its expiry or its row.

`MigInv` says what a runner has behind it: whatever of its version is not in `todo`
has taken effect (`Pending`), because it was recorded as successful when the
history was read, or was committed by the runner itself. `DoneIsComplete` is this
for a runner with nothing left, and needs in addition that no effect is ever
undone. `OnceAlone` needs `Solitude`: as long as no two runners overlapped, what is
pending has not taken effect, since the record is committed with the effect.
A commit is the one step that writes for others, and has a lemma of its own
(`CommitStep`), which also serves the connection that is lost after the COMMIT.
`EarlierFirst` follows from `Pending`, since a runner takes the first file left.

`PageInv` has `OneSource`: the page polls only once its stream is over, and no
poll is out before that. `RowsStay` follows, with `CompletedIsTaken`, since an
answer that says completed gives rows only once. `TableStays` needs that nothing is
heard after the end (`NothingFollows`): under one poll, the poll that brings the
end is the last one, and it stops the interval. `HomeMeansOver` needs that a
cancel request that was answered, and not refused, left the job over
(`AnsweredMeansOver`), and that a job that is over stays over.

`SubmitInv` says of a form that it counts what it holds and names what it holds
(`FormInv`), and of a user who did not cross what was on its way that the reads
that can still change the form are of the file chosen last (`ReadsInv`) and that
there is one submission at most, whose form waits for it (`CallsInv`). The four
properties are parts of it. What makes it hold is that the reads and submissions of
a form that was left are marked so by the same step that leaves it
(`DeadReads`, `DeadCalls`).

`ExportInv` says that whatever the API reads, builds or keeps is backed: if it is
whole, it is the result of an attempt that came to a whole one (`Backed`). A child
may be writing while the API reads, and what it then reads is not whole and is
turned down. `CompletedIsServed` needs that a job which is over has no child, so
that nobody opens its result for writing again. For `OldCsvIsEarly` whatever a CSV is
or will be made of was read before the completion, or is the result of the job that is
completed (`Sourced`), and the result of a completed job is of the last attempt that
began: a message delivered again starts none.

`GeoInv` gives each word about a geo id its reason. A task that is done has brought
back what the service has (`ResultsAreHeld`); a task that goes on has failed in
every attempt before the present one (`FaultsAreCounted`), so that the last failure
makes `MaxAttempts` of them; an error names a geo id whose task failed for good
(`FailedForGood`), which no later step changes, since a task that has failed is
never asked again. `NothingAfterTheEnd` needs that all tasks take their first step
together, before any error (`StartedAtOnce`). The lemma `MinIsMember` gives the
task that waits longest, and the first geo id that does not parse, for a list of any
length.

`SlotsInv` counts the tasks that hold a slot. A task takes one when one is free, and
that of a task that ends goes to the one that has waited longest, so that the count
over the list (`Holding`, a finite set) never passes `Concurrency`.

`SyncInd` says of each stage of a call what it can have done already: no effect
before the first answer is lost, one at most before the second attempt, and if one
then an answer was lost. The pool that the second attempt uses was made by it, on
the loop of its own.

`AccountsInd` ties a link to its user: ids are given once (`IdsOK`), a link that
works has the password of its user as it is now, and of a registration whose link is
still to come the user has the password that was typed (`PasswordsOK`). A user about
to be deleted has no jobs (`JobsAreGone`), from the step that makes them anonymous to
the one that deletes. Each part is said of histories without the overlap that breaks
it, and a lemma for each kind of change (`IdsChange`, `PasswordsChange`,
`ResetsChange`, `JobsChange`) keeps the lemmas of the steps short.

`SsoInd` has a reason for each token. Whatever an answer sets is good when it is made
(`SetsOK`); a request that carries a token is the only one on its way, and its token
is the one that the browser keeps (`TokenIsAlone`); so a token that a refresh
replaces is still in the jar only while the answer with the new one is under way
(`TokenIsGood`). Tokens in the jar, along a submission and in the cache belong to
whom they are used for (`TokensAreOwn`).

`DocumentInd` adds to `KeyNeedsUser` and `KeyIsCurrent` that the queue of calls has
each load of the profile once and a creation only where there is room, and that a
call whose answer shows a key finds the user there, or no session. `KeysInd` says
that, while nobody else changes the key, one call waits at most (`Orderly`): the page
agrees with the database before and after it.

`AdminsInd` follows an edit into its save: a form has one save on its way, which has
the fields of the form as it was when it was sent; whatever was not edited is as it
was read. `SettingsInd` says that a switch is honest as long as calls are answered in
their order: nothing but the sign-out follows a reading of the profile, one call of
the switch waits at most, and it turns what is stored into what is shown
(`InOrder`, `Honest`).

`JobsInd` compares the two queries of one refresh: between them jobs may be added
and may end, but what has ended stays as it ended (`Later`). Each job counted maps to
its place in the list, a different one for each, so that no number is ahead of the
list (`Fits`).

`FileInd` says that an open detail has a row on the page; that it has one only is the
plot ids' doing. `PickerInd` has the visible columns as ids that differ and belong to
columns of the picker (`Ticked`). `ViewInd` says that a layer on display has the
plots of its own list and was made for the plot that is selected (`SelectionOK`),
though its other plots may be stale. `PageHasRows` is arithmetic on pages
(`PageOfIndex`, `PageRange`). For `NumbersAreHonest` two filters that keep the same
rows give lists of one length (`SelectionsAlike`), and the sorted list is a
permutation of the filtered one: in a strict order on `n` plots the numbers of those
before each are `0` to `n - 1`, each once, and a sum of two sets' sizes shows it.

`TreeInd` says what the loop of `buildTreeSteps` keeps in `remaining` and `steps` by
the plots and their answers alone: the plots that come to a node are those which every
earlier node sends on (`Came`), and each step counts those of them that say yes and the
others (`StepAt`). That the next node gets what this one sends on (`CameNext`) needs
that no node goes on by both sides (`NodeOK`). From there on it is about trees: the
answers of a plot stop at one node (`FirstStop`, `ComeUpToStop`), the one that decides
(`DecisionAtStop`), so that the plots which stop at an outcome, node by node, are
disjoint sets, and their sizes add up to the number of plots that the outcome is decided
for (`TotalOfParts`, `EndsAreDecisions`). The tones are a comparison of the decision
with and without an indicator, once the tree is spelled out (`TimberDecision`).

For `ChecksAreSound` the lemmas go by the depth of a geometry: what holds of a geometry
if it holds of all that are nested less deep holds of every one (`GeometryInduction`),
stated with a set in the place of a predicate. `GatherSteps` gives the recursion its two
equations. The rest says that putting lists together can be done before or after what
is done to their members (`FlatMapFlatten`, `FlatMapConcat`), so that the positions of
the extracted features are those of the document (`ExtractKeepsPositions`,
`DocumentIsKept`), and that a list put together holds what its parts hold
(`FlattenOnly`), so that a position that was checked in the document is checked in the
features.

`LimitIsOverrunByCounts` says what remains of `ConcurrencyLimit`, which is violated: as
long as at most `n` requests of a user are between their count and their insert, the
user has at most `n - 1` jobs running beyond the limit. Jobs that ended once and were set
back to processing by a task that had been started before (`MarkProcessing`) are left
out; without that the statement is false even for one request at a time, because the
count of a request does not see a job that is to come back. The invariant counts the
requests that may still insert with the jobs (`LimitInd`): a step either lets nobody in
(`NextLetsIn`) or is a count, which finds fewer jobs than the limit, and at most `n`
requests at this point.

A filter, a sum and a concatenation are recursions over a list. `ListsProofs` proves what it returns by
induction, with a set in the place of a predicate: `SetInduction` is stated for a
set of numbers, which the provers can instantiate. `SelectionSteps` gives the
recursion step by step, `SelectionPicks` the place in the list of each place of the
selection, in order, and the other lemmas follow. `UpToExists` does once for sums and
concatenations what they share: a function that is given step by step exists.

### What the attempts changed

* `KeyIsCurrent` was not inductive where a call was lost. It now names the case: as
  long as nothing is lost the key on display is none or the one in the database.
* `RegisterUser` marks an overlap also when it makes a new row: another page may have
  asked about the address before.
* The cookies of an answer were merged with `@@`, and lists filtered and sorted with
  operators of libraries that the provers do not open. `Receive`, `Selection` and
  `SortedData` say the same in a form that can be reasoned about.
* The checks of a submission recursed by `RECURSIVE` operators. They are functions of a
  geometry now, with its depth as a constant, and take any request, of which the run
  enumerates the small ones.
* Arms of a `CASE` overlapped in these checks, where the first that applies was meant;
  TLA+ chooses among them. They are conditionals in the order of the code.
* The trees of the crops were put together from parts. They are listed in full, as in
  `TREE_DEFS`, and so are the counts of the drawing, step by step (`CountAt`).

### What stays with TLC

* Liveness: fairness and `ENABLED` are beyond the prover. These are `JobsSettle`,
  `StatusSettles`, `WaitIsAnswered`, `SubscribedStreamEnds`, `DeadIsForgotten`,
  `BackendEnds`, `PageSettles` and `RequestsEnd`.
* `ConcurrencyLimit` and the other violated properties, which are false.

Every invariant and every action property that the passing runs check is stated by a
theorem.

## Not modelled

* The analysis itself (openforis_whisp, Earth Engine), the contents of results,
  the texts of messages.
* The queue position that `create_analysis_job` returns: it is displayed only.
* Jobs deleted by hand, and more than one message for a job: `send_task` is
  called once per token.
* Parsing and limits of bytes: the body of a request, JSON, WKT, the nesting of
  coordinate arrays (a position is in range, out of range or no pair of numbers).
* The pool of the API process, which is created at start-up and closed at the end,
  and what a forked child inherits of its parent's memory.
* `api/src/result_fields`: reads a table and lays it out as CSV.
* `anonymize_expired_pii`, one UPDATE that the cron job runs, and functions of the
  schema that nothing calls any more.
* Rendering: `components/ui`, the documentation pages, navigation, themes, the
  tiles and the drawing of the map. Their state is a single flag, or is derived.
* Seeds, lookup tables, manifests and scripts: data and configuration. The number of
  workers, the time limits and the period of the cron job are used as assumptions.
* Two Node processes of the app, whose caches would know nothing of each other: the
  deployment has one, as the module-level maps of `api-client.ts` suppose.

One hazard has no property: a stream that times out, or ends without its final
event, is not followed by polling (`useJobStatus.ts:77`). The page that waits for
it waits for ever, and what could be stated is that it does. The faults `"hang"` and
`"close"` are in the model and in the part `"torn page"` of the run `results`, whose
safety properties hold with them.

## What is left

1. `ResultsPage` over `StatusClients` instead of over the status as given, so that
   a stream without its final event is seen through to the page.
