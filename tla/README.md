# gitmon in TLA+

gitmon registers web sites and scans them again and again: is the site alive,
and does it serve its `.git` directory? One process is the web server, another
the worker; they share a MySQL database and a Redis job queue. This directory
holds TLA+ models of that system, the configurations with which TLC checks them
on small instances, and proofs, for the TLA+ proof system, of every safety
property that those configurations check. The job queue that gitmon used
before, `deprecated/`, is kept in the repository for reference and not
compiled; it has a model of its own.

Paths below are relative to the repository's root.

## 1. The system

| Component | State it keeps | Operations | Talks to |
|---|---|---|---|
| **Tables** (`sites.go`, `scan.go`, `migrations.go`) | rows of `sites` and `scans` | gorm statements, none of them in a transaction with another | everything |
| **Job queue** (`queue.go`, `jobs.go`, gocraft/work on Redis) | queued, running, retried and dead jobs | `Queue.Push`; the library's fetch, ack, retry, reap | server and scheduler push, the pool takes |
| **Site routes** (`server.go`, `app.go`) | one handler per request | create, bulk create, trigger, delete; the `site.created` handler | tables, queue |
| **Page store** (`scanner.go`) | `http_responses`, one file per body | `RecordTransaction` | scan engine calls it |
| **Scan engine** (`scanner.go`, `scan.go`, `scanner_*.go`, `fetch.go`) | copies of a site and a scan in each of 200 goroutines | `ExecuteScanJob.Handle`, `Scan`, `Execute`, `Scans.Start`, `Scans.Save` | tables, queue, the sites' servers |
| **Scheduler** (`worker.go`, `scanner.go`) | the list `ScansDue` returned | every 90 s: query per scanner, push per due pair | tables, queue |
| **Worker process** (`worker.go`) | loops, signal goroutine, main goroutine | `DoEvery`, shutdown | state store, pool |
| **State store** (`state.go`) | table `state` | `Has`, `Get`, `Put`, `Delete` | worker process writes, `/admin/jobs` reads |
| **Accounts, password resets** (`user.go`, `auth_routes.go`) | `users`, `password_resets` | register, verify, ask for a reset, reset, the stamp of a login; their mail jobs | queue |
| **Sessions, OTP** (`auth_routes.go`, `app.go`, `user.go`, `worker.go`) | `sessions`, `user_sessions`, the cookies | login, one-time password, logout, clean-up | accounts |
| **Notification settings** (`server.go`, `notifications.go`) | `notification_configs` | one POST | accounts |
| **Former queue** (`deprecated/`) | table `jobs`, a channel, the pool | `Queue.Push`, `Handle`; feeder, reports, loops, `Factory.Stop` | |
| Events, mail, monitoring, entry points, views | none that anything decides on | publish, send, show | |

How a site is scanned: `POST /admin/sites` counts the rows with the same user
and url, inserts the site and publishes `site.created`, whose handler pushes one
job per scanner. A goroutine of the worker's pool takes a job, inserts an open
scan row, fetches the page with a 10 second timeout, writes `last_scanned_at`
and then saves the row with its scanner id. From then on the scheduler finds
the saved row when it is old enough, and pushes a job for the pair again.

What makes this hard, and what the models are for:

* **Statements without transactions.** Count and insert, delete and purge,
  touch and save are separate statements of concurrent actors.
* **Dropped errors.** A refused insert leaves a `Site` with the id 0, whose jobs
  are pushed; a failing `Enqueue` is printed; a failing fetch panics and is
  recovered to a nil error.
* **Crashes.** A job in progress is handed to another goroutine; its scan row
  stays open; a request stops halfway.
* **Saved rows drive the schedule.** A pair is repeated because a scan of it
  was *saved*. A pair whose first scan is lost in any of the ways above is not
  scanned again until a user asks.
* **Copies.** A handler keeps the row it loaded while it sends its next
  statements. gorm's `Save` writes every column of such a copy, `Update` only
  its own: which of the two a handler uses decides whose write survives.
* **Two tables for one thing.** A session is a row the store writes and a row
  of `user_sessions` that event handlers write; a page is a row and a file.
  Neither pair is written together, and both ends may be shared.
* **Rendezvous at shutdown.** All channels of the worker are unbuffered. In the
  former worker one is buffered, and a quit may reach either of two selects.

What makes each component correct: rows that were saved are final; no two
goroutines work on the same job or row; only jobs that can never succeed use up
retries, and they do end; the scheduler only repeats; a pair that is in the
schedule stays in it; a worker that is told to stop does stop, quietly, and
shows itself until then; an account's password changes only through a token of
that account, of which it never has more than a bounded number, and which is
spent by it; the settings of a user are those of one whole post; the sessions
in use are on their user's list, and a token that was entered in one stays; a
page that was written to its end is whole, whoever else writes it; a bulk import
is answered when all its valid lines are stored.

## 2. The modules

```
Tables ── WorkQueue ─┬─ SiteRoutes ──┐
                     ├─ ScanEngine ──┼── ScanPipeline ─┬─ MCScanPipeline
                     │      │        │        │        └─ ScanPipelineProofs ── ScheduleProofs
                     │      ScanPool │        └ INSTANCE Monitoring
                     └─ CreateWork ──┘
StateStore ── WorkerProcess ──┐
JobTable ── JobFactory ───────┴── MCWorkers
JobFactory, Sessions, BulkImport, PageStore ── MCHandlers
Sessions ── MCSessions
Accounts ─┬─ MCAccounts
          └─ NotificationSettings ── MCNotificationSettings
                     └ INSTANCE SettingsRegister

NotificationSettings ── AccountsProofs      PageStore ───── PageStoreProofs
Sessions ────────────── SessionsProofs      WorkerProcess ─ WorkerProofs
BulkImport ──────────── BulkImportProofs    JobFactory ──── JobFactoryProofs
```

* **Tables**: `sites`, `scans` and the clock. An id is unborn, live, then gone,
  and never used twice (auto-increment). A saved row is one with a scanner id:
  `Scans.Start` inserts the row without it and `Scans.Save` writes it.
* **WorkQueue**: a job is one record from push to end. `Push` may lose the job.
  The library is not part of the repository: fetch, acknowledgement, retry with
  four attempts by default, the dead list and the reaper of dead pools are
  modelled from how `worker.go` registers its handlers. The order of the list
  is left out, so any queued job may be next.
* **SiteRoutes**: each request walks through its statements. `BeginCreate` is
  the count, `InsertSite` the insert with both outcomes of the unique index,
  `PushScan` each of the two pushes, `DeleteSite` and `PurgeScans` the two
  statements of the delete route. Requests that are refused change nothing and
  are left out. Publication holds a lock of the bus while handlers run, so the
  pushes of two creates do not really interleave; the model lets them.
* **ScanEngine**: a goroutine goes `idle → start → execute → handle → touch →
  save → ack → idle`, or to `fail`. `StartScan` is `Scans.Start` with gorm's
  behaviour for a `Site` without an id: associations are not updated but they
  are created, so a site owned by nobody may be inserted on the way, or the
  transaction rolled back with its error dropped. `Execute` reloads the site of
  a job that carries no url. `FetchFails` is the recovered panic, `Handled` the
  two scanners. What a handler writes to `http_responses` nobody reads back, so
  it is apart, in PageStore.
* **PageStore**: `RecordTransaction` inserts a row, empties the file named by
  the body's hash and writes it chunk by chunk at its own offset, several
  goroutines at once. `CloseFile` ends a copy; `DiskFails` and `WorkerCrash` end
  it early.
* **CreateWork**: a round of the scheduler: the clock is read once, a query per
  scanner in any order (Go map iteration) and then one push at a time.
* **ScanPipeline** composes the three around the tables and the queue, and adds
  crashes of the server and of the worker and the passing of time.
* **Monitoring** is the abstract specification, one variable for one pair of a
  site and a scanner: `unborn → pending → in → gone`, with `out` for a pair that
  nothing will scan. `ScanPipeline!Phase` is the refinement mapping and
  `KeepsMonitoring` the implementation of `Monitoring` by every pair.
* **ScanPool** is the pool alone with fairness, for what must happen.
* **StateStore**, **WorkerProcess**: `Put` is a `Has` and a write; the process
  is its main goroutine, its signal goroutine and three loops. A send on an
  unbuffered channel and its receive are one step.
* **Accounts**: requests walk through the statements of registration, asking for
  a reset, resetting and signing in; the mail jobs wait in a set and may be
  lost.
* **NotificationSettings** adds the POST of the settings, which holds a copy of
  the user's row: the gate and `Bind`, the `First`, the `Save`. The table is
  kept by id. `Bind` fills the whole struct, so a form also gives the
  organization of the row and may give its id; `Target` is the id that `Save`
  gets: the user's first row if there is one, else the form's. `Taken` is the
  unique index of user and organization, `NewIds` the auto-increment.
  **SettingsRegister** is what the handler promises, one step per post, by user
  and organization; `KeepsSettings` is the refinement.
* **Sessions**: a request reads its cookie's session (`Begin`), looks it up
  again (`Find`), writes or deletes it (`Write`, `Drop`), changes
  `user_sessions` (`List`, `Sweep`) and sets the browser's cookie (`Answer`; a
  logout leaves it, as the options of `GetLogout` have no `Path` and clear
  another one). The store is a library, modelled from its use: its `SELECT` does
  not see expired rows, and a session that is not found gets a new id, a fresh
  random string. Ids are compared by `user.logged_out` and so are ordered.
  `Purge` is the last statement of the scheduler's round.
* **BulkImport**: the lines of `POST /admin/sites_bulk` one by one, each checked
  (`CheckLine`), counted (`CountUrl`) and inserted (`InsertUrl`). `IsValidUrl`
  accepts a line, refuses it or panics. `DeleteUrl` is the first statement of
  `DELETE /admin/sites/:id`, at any time; `POST /admin/sites` is an import of
  one line.
* **JobTable**, **JobFactory**: the table of the former queue and its process:
  the feeder that puts queued rows into the channel `jobs` again and again, the
  `Workit` goroutines, `RunInBackgroundLoop` with its two selects that may take
  a quit, the loops, the chain of quits, and `Factory.Stop`, whose goroutines
  read the loop variable when they run.
* The **MC** modules add symmetry and bounds. `MCWorkers` and `MCHandlers` put
  modules that share no state into one run: a behaviour is about one of them
  while the others stand still or have ended.

Operators whose comment begins with "Mutant of" are deliberately wrong variants
of the operator they name. Nothing uses them; they are there to show that the
properties can fail.

## 3. What is checked

Bounds are in the `.cfg` files. Ids of rows, jobs and tokens bound how many are
ever handed out; when they run out the actions that need one are disabled.

| Run | Instance | Properties |
|---|---|---|
| `CreateRace` | 2 requests, 1 url, 2 sites, 2 scans, 2 jobs, 2 attempts | `TypeOK`, `LiveSitesNeverRetry`, `KeepsMonitoring` |
| `Schedule` | 1 request, 2 sites, clock to 3 (15 minutes), page of 1 | `OnlyRepeats`, `LastScannedIsAScan` |
| `WorkerCrash` | 2 goroutines, 3 scans, 2 crashes of either process | `IInv`, `OneHolder`, `SavedRowsAreFinal` |
| `Pool` | 2 goroutines; 2 jobs without crashes, or 1 job with 2 crashes; 4 attempts; fairness | `JobsSettle`, `DoomedJobsDie` |
| `Workers` | 2 incarnations, 1 kill; or a former worker with 1 `Workit`, 2 rows, 1 name, a channel of 1; fairness | `QuietDrain`, `ShowsItself`, `SignalEnds`, `QueuedAreHandled`, `SignalStops` |
| `Accounts` | 1 account, 2 passwords; 2 requests, 3 tokens, clock to 2 (10 minutes), 1 mail while one request is under way; or 2 posts, 2 forms, 1 request, 1 token; or 2 posts of 2 accounts, 2 organizations, 2 rows | `TokensBounded`, `UsedTokensAreSpent`, `PasswordsChangeByToken`, `KeepsSettings` |
| `Handlers` | 2 requests of a browser, clock to 2: 1 user and 2 session ids, or 2 users, 1 id and 1 crash; or 2 imports of 1 or 2 lines, 2 urls that may be deleted, a refused and a malformed line; or 2 scans, 2 bodies of 3 chunks; or 2 former `Workit`s, 2 rows, a channel of 1 | `SessionsAreListed`, `EnteredTokensStay`, `DoneLinesAreStored`, `CountsItsSites`, `IntactPagesAreWhole`, `StartedAreHeld` |

Why these bounds: two requests are what a race of two needs, and the loser's
jobs need a second site id for the one gorm inserts. The clock counts units of 5
minutes; `git_scan` is due after two units, exclusively, so 3 is the first
moment at which both scanners are due. A page of one is smaller than the two
sites that may be due (one of them deleted, with orphan rows). Two crashes hand
the same job on twice, and three scan rows let every one of its attempts open
one. Four attempts are the library's default. Three tokens for two requests let
a third request find two tokens at once. Two rows of settings are the two of one
user, or one of each; a form names an id up to that bound, and the two accounts
enter different values, so that it shows whose they are. In the sessions one id
is renewed while another is drawn, or two users share one; a unit of time is the
four hours of a login, and the store's 30 days are 180 of them, beyond the
clock, so that only logins expire in the run. Two chunks written and one left
are enough for a writer to be overtaken; two lines let two imports meet in both
orders, and one import find its own url deleted. A channel of one is full as
soon as the feeder is ahead of the only worker, and two rows let one of them be
passed over; that two workers have the same row is in `Handlers`, which checks
no liveness and so affords them.

Requests, goroutines, passwords, tokens and urls are symmetric where a run says
so, and posts and forms share the values of requests and passwords; ids handed
out by `NextId` are not, because the choice of the next id is fixed, nor are
session ids, which are ordered. No run with liveness uses symmetry.

Deadlock is checked in the runs of `ScanPipeline` and `Accounts`. `ScanPool`
stops when every job is settled, the workers when the last process has ended,
and an import when it is answered, so `Pool`, `Workers` and `Handlers` do not
check it.

What the runs show, property by property:

* `KeepsMonitoring`: whatever requests, goroutines and the scheduler interleave,
  a pair enters the schedule only by a saved scan that was awaited, and stays
  until its site is deleted. A pair that fell out comes back by the step
  `Request`, of which Monitoring does not say who takes it; that the scheduler
  does not is what `OnlyRepeats` shows. It also shows the weakness: `Miss` and
  the second branch of `Register` are real.
* `LiveSitesNeverRetry`: a failing site never uses up its job's attempts.
* `OneHolder`, `SavedRowsAreFinal`: the second run of a job after a crash opens
  a row of its own and leaves every saved row alone.
* `OnlyRepeats`: a job of the scheduler for a live site repeats a saved scan by
  the same scanner, also when rows are purged between query and push.
* `LastScannedIsAScan`: `last_scanned_at` is the start of a scan that is in the
  table. (It may go backwards; see below.)
* `JobsSettle`, `DoomedJobsDie`: no job stays in the queue for ever, and a
  scheduler's job whose site was deleted always ends in the dead list.
* `QuietDrain`, `SignalEnds`, `ShowsItself`: the shutdown sequence finishes from
  every state of the loops, nothing runs while the pool drains, and a single
  worker's row is its own from its Put until it is told to stop.
* `TokensBounded`, `UsedTokensAreSpent`: overlapping requests for a reset can
  leave several tokens, but never more than there are requests at once; a token
  that set a password is deleted by the request that used it. A server that
  dies between the two statements leaves it valid; that is the named exception.
* `PasswordsChangeByToken`: neither a lost race of two registrations, nor a
  login stamp, nor a saved form with its copy of the user replaces a password.
* `KeepsSettings`: however posts overlap and whatever ids and organizations they
  give, a user has at most one row for an organization, which is the form of one
  whole post. A post replaces settings of its own user and adds none, unless its
  user had none when it began or lost them to another post meanwhile: then it
  may add a row, or take the place of another user's. And only such a post, or
  one that gives an organization its user has another row for, may come to
  nothing.
* `SessionsAreListed`: a session in use is in `user_sessions` with its user, or
  a login is about to put it there, at any time. The exceptions are kept in the
  history variable `excused`, as pairs of a user and a session, and are four: a
  logout of an id at least as great; a crash between the two rows; a session
  renewed between the two look-ups of a login, for which `""` is listed; and a
  session that ended while a token was being entered in it, which is saved again
  and not listed.
* `EnteredTokensStay`: while a session lasts, the token entered in it is undone
  only by a login that had loaded the session before the token was last saved.
  Such a login does undo it: the last save of a session decides.
* `DoneLinesAreStored`, `CountsItsSites`: every valid line an import is done
  with is stored until its site is deleted, although a refused insert is not
  noticed; the count of the answer errs only by lines another request inserted.
* `IntactPagesAreWhole`: a page whose last opener finished is whole, although
  earlier openers go on writing: they write the same bytes at the same offsets.
* `QueuedAreHandled`, `SignalStops`, `StartedAreHeld`: in the former worker a
  queued row is handled unless the process ends, a signal ends the process also
  with a full channel, and a row marked as started is in some worker's hands.

### What the code does not keep

Five runs end in a counterexample, each against a line of the repository:

* `InvalidSite`: `scanner.go:127` refuses a site with the id 0, but the loser of
  a race of two creates gets its job scanned, for a site owned by user 0.
* `OverdueOnly`: the query in `scan.go:69-72` and the commented `Having` of
  `scanner.go:111` look at the latest scan of a pair; the code's query finds any
  old one, so from its second scan on a pair is due in every round.
* `WorkerAlive`: `server.go:255` shows a worker as alive while its row exists;
  a signal during start-up leaves the row behind after an orderly shutdown.
* `LogoutOthers`: `user.go:251-255` cleans up sessions that have expired; a
  logout (`app.go:166`) takes every row off the list whose id is not greater
  than its own, of other users too, while those sessions stay in use.
* `TokenMail`: `jobs.go:58` promises ten minutes from a mail that may be sent
  after they are over, or after a second request replaced the token.

More does not hold, and has no run of its own, being one step of the model to
see or promised nowhere:

* `scan.go:35` says result 0 means "didnt_finish"; a finished git scan that
  finds nothing has it (`Handled`).
* `sites.go:79` reads the scheme of a url before the error of `url.Parse` is
  looked at: a malformed line ends a bulk import with a panic (`CheckLine`).
* `auth_routes.go:73` gives a session four hours, but a one-time password saves
  it again with the store's 30 days, and the next login with four hours: which
  it is depends on the save that comes last (`Life`, `Write`).
* A user without a row of settings whose form gives the id of a row changes that
  row, whoever's it is, and makes it the user's own (`Target`). A user with two
  rows always changes the first, whatever organization the form gives.
* Rows of `user_sessions` whose session was deleted, and those for `""`, are
  never cleaned up (`Purge` looks for expired rows of `sessions`).
* Names of the former queue are not unique: two pushes at once both count none
  (`CountNamed`). `Factory.Stop` may tell one worker twice and another never
  (`StopOne`); the process ends all the same.
* `last_scanned_at` may go backwards when scans of a site overlap; `Save(user)`
  in `ResetPassword` undoes an address verification, or the stamp of a login,
  made since it loaded the row.

### Fairness

`ScanPool!Fairness`: every goroutine step is weakly fair, because Go runs ready
goroutines and a fetch ends within its timeouts (`fetch.go`). Taking a given
queued job is strongly fair: goroutines come and go, but the Redis list is first
in, first out. Requeuing and reaping are weakly fair, being periodic in the
library. Deletions and crashes are not fair.

`WorkerProcess!Fairness`: weak fairness of each goroutine; strong fairness of
the receive from a quit channel, because a `select` whose ticker and quit are
both ready picks one at random. Nothing is assumed of tickers and signals.
`JobFactory!Fairness` is the same for the goroutines of the former worker, whose
handlers return. Nothing is assumed of kills in either.

## 4. What is proved

Every type invariant, safety invariant, action property and refinement that the
passing runs check is also a theorem, for all values of the constants that
satisfy the `ASSUME`s: any number of requests, goroutines, sites, scans, jobs,
tokens, sessions, processes and crashes. Of the type invariants the runs check
that of the pipeline; those of the other components are proved.

| Module | Theorem | States |
|---|---|---|
| `ScanPipelineProofs` | `TypeCorrect` | `Spec => []TypeOK` |
| | `OneHolderHolds` | `Spec => []OneHolder` |
| | `SavedRowsStayFinal` | `Spec => SavedRowsAreFinal` |
| | `LiveSitesAreNeverRetried` | `Spec => []LiveSitesNeverRetry` |
| | `Inductive` | `Spec => []IInv` |
| `ScheduleProofs` | `TheSchedulerRepeats` | `Spec => []OnlyRepeats` |
| | `LastScannedStaysAScan` | `Spec => []LastScannedIsAScan` |
| | `MonitoringIsKept` | `Spec => KeepsMonitoring` |
| `AccountsProofs` | `AccountsTypeCorrect` | `Spec => []TypeOK` |
| | `UsedTokensStaySpent` | `Spec => []UsedTokensAreSpent` |
| | `TokensStayBounded` | `Spec => []TokensBounded` |
| | `PasswordsChangeOnlyByToken` | `Spec => PasswordsChangeByToken` |
| | `SettingsLeaveAccounts` | `SettingsSpec => Spec` |
| | `SettingsRefine` | `SettingsSpec => KeepsSettings` |
| `SessionsProofs` | `SessionsTypeCorrect`, `SessionsStayListed` | `SessionsSpec => []` of `SessionsTypeOK`, `SessionsAreListed` |
| | `TokensStayEntered` | `SessionsSpec => EnteredTokensStay` |
| `WorkerProofs` | `WorkerTypeCorrect`, `DrainsQuietly`, `AloneItShows` | `Spec => []` of `TypeOK`, `QuietDrain`, `ShowsItself` |
| `BulkImportProofs` | `ImportTypeCorrect`, `DoneLinesStayStored`, `CountsStayTrue` | `ImportSpec => []` of `ImportTypeOK`, `DoneLinesAreStored`, `CountsItsSites` |
| `PageStoreProofs` | `PagesTypeCorrect`, `IntactPagesStayWhole` | `PagesSpec => []` of `PagesTypeOK`, `IntactPagesAreWhole` |
| `JobFactoryProofs` | `FactoryTypeCorrect`, `StartedStayHeld` | `Spec => []` of `TypeOK`, `StartedAreHeld` |

### Assumptions

They are named in the module that declares the constants, and TLC evaluates them
in the runs. Null values (`NoSite`, `NoJob`, `NoToken`, ...) are not ids; the
bounds and limits are natural numbers, `MaxFails`, `DueLimit`, `MaxLines`,
`Chunks`, `ChanCap`, `MaxAlive` and the lives of sessions positive; there is at
least one address, user, browser, organization and hash, since an idle row needs
some value in each column. `Requests` of `Accounts` is finite: it stands for the
requests a server handles at once, and `TokensBounded` counts them. No other set
of requests, ids or rows is assumed to be finite.

### The arguments

None of the properties but the typing ones is inductive. What each proof adds,
and why it is needed:

**The pipeline's holders** (`IInv`, also checked by TLC in `WorkerCrash`), three
layers, each an invariant of its own that the next one uses.

1. `JobInv`: types; a job that may run again has an attempt left (otherwise
   `Reject` would leave the range of `fails`); a busy goroutine holds a running
   job, alone. The reaper takes a job back only when nobody holds it, which is
   what keeps the last part.
2. `HeldRows`: a goroutine holds its scan row alone and the row has no scanner
   until it is saved. With it, `SaveRow` writes a row nobody else holds and that
   was never saved, which gives `OneHolder` and `SavedRowsAreFinal`.
3. `KnownSites`, `HeldSites`: whatever names a site names one that was
   registered, and a goroutine works on the site of its job. So a goroutine
   that fails a job found its site missing, and a site that was registered and
   is missing is gone for good: `LiveSitesNeverRetry`.

**The schedule** (`RowsInv`, `ScheduleInv`). What a site says of its last scan,
and what the scheduler read of a pair, are statements about rows that other
actors may delete. They survive because the delete route removes the site
before its rows (`RequestSites`: who is about to purge the rows of a site has
already deleted it), because a goroutine's row is of its own site and time
(`HeldScans`), and because ids are not used twice. The lemma `RowsStay` says it
in one sentence: the rows of a site that is there after a step stay. Then

* `LastScannedIsAScan` follows from `HeldScans` when `TouchSite` writes it and
  from `RowsStay` ever after;
* `OnlyRepeats` is carried from the query (`DueAreScanned`, about the list the
  scheduler holds) through the push to the job;
* `KeepsMonitoring`: a pair's phase is a function of the tables and the jobs.
  `PhaseMoves` goes through what a step may do to the site: a site that is new
  has no saved scan (`NewIsUnscanned`), a first saved scan was awaited
  (`SavedWasAwaited`), a saved one stays (`ScannedStays`), a deleted site does
  not come back. Each is a step of `Monitoring` or none.

Swapping the two statements of the delete route would break `RequestSites` and
with it all three.

**Accounts** (`AccountsInv`). A request between its look-up of a token and its
last statement must know that the token was issued for its address
(`TokensInHand`); tokens keep their address once issued. That is what
`PasswordsChangeByToken` rests on at `SaveUser`. `TokensBounded` is an induction
on a sum of two cardinalities: a request that issues a token moves from the
second set to the first, and one that is about to issue has just emptied the
first. `SettingsLeaveAccounts` lets the settings use all of this: its steps are
steps of the accounts or stutter. For `SettingsRefine`, `PostsKnow` says that no
two rows have the same user and organization (the index is checked by each
`Save`), and what a post between its statements knows: the row it found is its
user's or was taken over since, and its user has rows unless it had none when
the post began or lost them. So a `Save` writes the place that the register
allows it to write.

**Sessions** (`SessionsInv`). Between the write of a session and its listing
`BeingListed` holds. It needs that a request which lists an id the store gave it
has stored that very session (`RequestOK`), which is where the renewal between
two look-ups appears: the one case in which the ids differ goes to the excuses.
A request that enters a token lists nothing, and may write a session again that
has expired and was cleaned up: `TokenKnown` says that the session was known
when the request began and has stayed so, or is excused. For
`EnteredTokensStay`, `CopyFresh` says that a login which is about to write
without the token either loaded the session as it is, or is among the
`overtaken`.

**Worker** (`WorkerInv`). The signal goroutine stops the loops one after the
other; `GoroutinesOK` says which have stopped at each of its steps. For
`ShowsItself`, at most `MaxAlive` processes are alive (`FewAlive`); where that
is one, whoever touches the row is the process itself, and what it found
(`ShownBy`) is still so when it writes.

**Bulk import** (`ImportInv`). A request about to insert a line found no such
url when it counted, so if there is one now another request inserted it, however
often the url was deleted and inserted (`Raced`). So a line that counts although
its insert was refused was inserted by another request, and `CountsItsSites`
gains one on both sides. `Kept` is `DoneLinesAreStored` for one request.

**Page store** (`PagesInv`). A writer at chunk `n` that was the last to open the
file has the chunks before `n` in it (`OpenersWrite`); others only add to them
until the next one empties it.

**Former worker** (`FactoryInv`). A goroutine that handles has a row, and the
feeder that sends has one (`HandsAreFull`); a status is written to a row only by
a goroutine that has it in hand, and an outcome ends what it is written for.

### What is only model-checked

Liveness: `JobsSettle`, `DoomedJobsDie`, `SignalEnds`, `QueuedAreHandled`,
`SignalStops`. They hold under fairness, and the proof system proves neither
such properties nor the `ENABLED` conditions that fairness means. The five
counterexamples of section 3 are of small instances and need no proof.

Two definitions were corrected while their theorems were proved: `Phase` of
ScanPipeline and `Write` of Sessions chose among cases that overlap, of which
TLC takes the first and TLA+ any. Both now say which.

## 5. What is not modelled

* Pages that only read, and the gates of `/auth` and `/admin`, which refuse or
  redirect without a change of state.
* The computation of one-time passwords, and the senders of notifications, which
  nothing calls.
* The data of jobs of the former queue, and that its workers decode it into one
  handler object per class (`deprecated/queue.go:119`).
* Forms of the settings that `Bind` cannot read, which panic, and negative ids in
  them.
* Failures of MySQL itself. Lost pushes and crashes of the two processes are in.
* Re-use of auto-increment keys after a restart of MySQL.
* The order of the Redis list, priorities and the library's `Unique` jobs, which
  gitmon does not use.
* Urls that name no host but pass `IsValidUrl`, whose fetch always fails.
* Contents of pages, headers, hashes, timings, titles; rendering; statsd; mail
  delivery; functions nobody calls.

## 6. Plan

1. Done: tables, queue, routes, engine, scheduler, their composition, the pool
   with fairness, the abstract `Monitoring`; the worker process; accounts;
   settings and their abstract register; sessions; bulk imports; the page store;
   the former queue.
2. Done: the theorems of section 4, every safety property and both refinements.
3. Left with TLC: the five liveness properties. Without a property: rows of
   `user_sessions` that are never found again, and names of the former queue
   that are not unique (section 3, what does not hold).
