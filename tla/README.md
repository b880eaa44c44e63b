# Verification of clinepass-manager

TLA+ models of clinepass-manager's components that act concurrently, talk to
unreliable services or survive restarts; the TLC runs that check them on small
instances; and TLAPS proofs of what matters most for all instances.

Every definition is translated from the Go source; `PROJECT.json` names the lines
each one stands for. Paths below are relative to the repository.

## 1. The system

Two processes, each with its own SQLite database (WAL, immediate transactions,
foreign keys on):

* **Manager** (`cmd/server`, `internal/`) owns the pool of paid accounts. It is a
  load-balancing proxy in front of the upstream API, keeps the usage of every
  account up to date, logs requests, shows a dashboard, keeps a model catalog, and
  exchanges accounts with Auto.
* **Auto** (`auto/`) logs accounts in with real browsers, optionally pays for them
  with virtual cards, receives phone codes, and keeps cookies fresh once a day.

| component | state | operations | hard because |
|---|---|---|---|
| job queue `auto/internal/job/manager.go` | `jobs`, `queue`, `running`, `active`, `activeCookie` under `mu`; one goroutine per running job; the account rows | enqueue, pump, run, fail, status | goroutines, several callers, writes to the store outside the lock, restart |
| login flow `auto/internal/login/flow.go`, `microsoft.go`, `error.go`, `python.go` | the page, deadlines, what was typed and clicked, the result so far | Run, RefreshPayment, RefreshCookies | the page moves by itself, loops that hand over to each other, errors classified after the fact |
| phone verification `auto/internal/login/radar.go`, `auto/internal/herosms` | a bought number, attempts | buy, wait for the code, finish, cancel | every exit must settle the number |
| browser sessions `auto/internal/browser` | the unpacked browser, `ensureMu`, what a session has acquired, relay connections | EnsureBinary, Launch, Close, relay | five acquisitions that may fail, a shared directory, crashes |
| card pool `auto/internal/api/amzkeys.go` | the current and the prepared card, pay counts, pending tasks | warm, checkout, create, finish, release, discard, recycle | tasks that answer late, several waiters, a bounded number of payments |
| Auto server `auto/internal/api/server.go`, `auto/internal/job/keep.go` | settings, last keep date | daily cookie keep, batches, events | time, restart |
| forwarding proxy `internal/proxy/handler.go`, balancer `pick.go` | balancer maps `cool`, `inflight`, `lastPick`, `refreshing`, `picks`; per request: pool read, accounts tried | reserve, end, hold, cooldown, refresh after 429 | many requests at once, a pool that is stale when used, deadlines |
| usage sync `internal/usage/sync.go` | `st`, `kicking`, usage rows | StartLoop, StartAll, StartBatch, Refresh, run, syncOne | read-fetch-write without a lock, waiters, rows deleted under a scan |
| transfer `internal/api/auto_transfer.go`, `internal/store/auto_import.go`, `auto_receive.go` | links, imports, remote jobs, cookies on both sides | upload, poll, pull, import | two processes, lost answers, late results |
| catalog `internal/gomodel` | catalog in memory and in the store, validators | load, refresh, parse, run | slow fetches, documents cut short, restart between two writes |
| request log and dashboard `internal/store/logs.go`, `dashboard_history.go` | rows with ids, hourly history | insert, update, clear, prune | ids used again after a clear, deletion under requests |

Parsing of upstream bodies, export, backup, configuration files, the web interface
and deployment are conversions, I/O or presentation (section 6).

**How they interact.** The API of Auto calls `enqueue`; `pump` starts goroutines;
these launch a browser and run a login flow in it, which buys a phone number when
AuthKit asks for one and, when the login is to pay, hands the page to a Python
worker that checks a card out of the card pool; then they write the account row.
Rows are also written by uploads of Manager. Manager polls the results of Auto
into its own pool. The proxy reads that pool once per request, picks accounts with
the balancer and, after a 429, starts a refresh of the usage, which writes the row
the next request reads; every request is logged, which triggers the history. The
scan writes the same rows as the refreshes.

**What makes each part correct.** No account has two browser sessions, slots are
neither lost nor given back twice, no accepted job is forgotten, a job that was
asked to pay succeeds only when it paid, and a verdict is final. A login returns all
that it promises, settles every number it bought, submits no card twice, takes a
refusal for what it is, and returns. A launch that fails leaks nothing, and no running
browser is deleted. The proxy's counters are exact, the limit per minute holds, an
account whose usage is being read is left alone and comes back, every request ends. A
scan's figures add up and it ends. A card is never paid with too often nor bought
twice. Neither a transfer nor an import goes back to an older login, nor to an older cookie
unless its login was moved. The catalog goes back to no partial list, and to an older one
only where a restart falls back to the builtin list. The history counts every request
once. All hazards, each at its line, are in `PROJECT.json`.

## 2. Modules

| module | what it is | instances | proofs |
|---|---|---|---|
| `JobManager` | the job queue, detailed | `MCJobManager`, `MCEnds` | `JobManagerProofs` |
| `AccountLease` | what it promises: one uninterrupted lease of an account per job | | |
| `MCJobManager` | the queue in the environments of the runs, and the two in which the violated properties hold | itself | `JobManagerProofs` |
| `LoginPage` | the page of a session, and the predicates the code reads it with | | |
| `PhoneVerify` | the phone verification and its numbers | | |
| `MicrosoftLogin` | the Microsoft pages | | |
| `LoginFlow` | a login session, composed of the three above | `MCLoginScan` | `LoginScanProofs` |
| `BrowserSession` | launches, the browser they share, their relays | `MCEnds` | `BrowserSessionProofs` |
| `CardPool` | the stored cards, payment sessions and warming goroutines | itself | `CardPoolProofs` |
| `MCCardPoolPaid` | CardPool with an observer that counts the accounts each card has paid for | itself | `CardPoolProofs` |
| `CardLedger` | what it promises: payments made and payments under way never exceed the limit of a card | | |
| `Forwarder` | requests, balancer and refresh after a 429 | `MCProxyTransfer`, `MCEnds` | `ForwarderProofs` |
| `MCForwarderWatch` | Forwarder with two observers: when accounts were asked, and how long they have to rest | itself, `MCManager` | `ForwarderProofs` |
| `UsageSync` | scans of the usage | `MCLoginScan` | `LoginScanProofs` |
| `CookieTransfer` | one account between Manager and Auto | `MCProxyTransfer`, itself | `CookieTransferProofs` |
| `ModelCatalog` | the document, its parser, refreshes | `MCManager` | `ManagerProofs` |
| `RequestLog` | rows, triggers, history, clearing, pruning | `MCManager` | `ManagerProofs` |
| `FoldTheorems` | facts about sums and folds over finite sets that `ForwarderProofs` and `ManagerProofs` cite | | |

An operator whose name starts with `Mut` and stands before a definition of the same
name is a plausible bug in that definition. It is used nowhere; with it in place of
the original TLC finds the property named in `PROJECT.json` violated, which shows that
the property depends on that code.

### JobManager

`phase[j]` is where the goroutine of job `j` stands: `queued` (in `m.queue`),
`started` (slot taken, not yet in `run`), then the steps of `run` up to `exiting`,
`repumping` (slot given back, `pump` owed) and `done`. `call[j]` is where the API
call that asked for it stands. `status[j]` is what the API shows; `account` holds
the rows; `cap` is what the running `pump` read of the limits.

One action is one critical section or one statement of the store: `EnqueueCheck`
(everything before the lock), `EnqueueAdd`/`EnqueueRefuse` (the section under it),
`EnqueueMark` (UpdateStatus after it), `EnqueuePump`. `pump` holds the lock
throughout, so while `pumping` is true no other critical section runs:
`BeginPump` reads the limits, `PumpStart` starts one job, `PumpEnd` finds none.
`RunEnter` ... `RunExit` follow `run` statement by statement;
`RunReturn` is the browser session, whose outcome is any of `Results`. Statements
of the store may fail (`RunStoreError`). `DeleteAccount`, `SyncPaid`,
`ReceiveUpload`, `SaveLimits` and `Restart` are the rest of the process.

Abstracted: credentials are `none`, `cookie` or `full`; an account row keeps what
the queue reads or writes; the expiry mark that SaveCookies clears, log lines,
stages, subscribers, the card warmer and HoldPump (tests only) are left out.

### LoginFlow, with LoginPage, PhoneVerify and MicrosoftLogin

`pc` is where the Go engine stands; its three loops (`google`, `cline1`, `cline2`) and
`handleAuthkitWait` (`authkit`, `authkitWait`), which they call, are explicit, and so is
the deadline of the loop at hand (`late`). `page` is the kind of URL the browser is at.
The code never sees a page change, it only reads the URL again: `Moves` may change the
page between any two steps, and a step that navigates ends anywhere. `got` is what the
result holds so far, `outcome` the class of the error (`error.go`), which `Wrapped` and
`Named` compute from the error and the page as it is read *then*. `refused` records that
the code has read `policy_denied`. `Worker` is the Python engine: any result, any code.

In `PhoneVerify` each action is one call of `requestRadarCode` with its waits; `open`
counts numbers that were handed out and not yet settled, and each way out says itself
whether the deferred Cancel runs. In `MicrosoftLogin` a look finds any card that the
fields and the URL admit; a card that stands still is claimed (`submitted`) and then
clicked (`clicks`); two clocks (`elapsed`, `idle`) end the loop.

Abstracted: selectors, typing and waiting come down to whether they succeed; the four
classes of Google pages that are a card with a button are one; codes and numbers have
no digits. The `tries` of GetNumber and the ticks of the clocks stand for durations.
Raising a callback's error and reading the page again to classify it are one step
(`CallbackFails`, `flow.go:112-117`, `:948`), and so are the two reads of the page in
`handleAuthkitWait` (`AuthkitWait`, `:842`, `:924`); a submit that fails although the
session is logged in has no step of its own (`MsSubmit`, `microsoft.go:224-244`, `:283`).

### BrowserSession

`lpc[s]` follows EnsureBinary and Launch; `holds[s]` is what the call has acquired and
not given back, of `archive`, `driver`, `relay`, `profile`, `context`. `cache` is the
chrome file of each edition in the shared directory: absent, `part`, `whole`; it survives
`Crash`, which may come at any step. `mutex` is `ensureMu`. `tunnel[s]` is one connection
through the relay of the session: its head, its dial, its two copying goroutines.

*What the model shows beside the properties.* `cachedBinaryPath` accepts any chrome file
that exists. One that a crash left cut short (`part`) is taken for a whole one by every
later launch until the version changes.

### CardPool

`cur` and `next` are the stored card and its Next, `recent` an error that still keeps
the timer from ordering. `at[p]` is where a payment session or a warming goroutine
is: `waiting` in WaitTask, `ready` for the second reservation of its checkout,
`paying`, `rejected` (about to ask for another card), `failed` (about to remember an
error). A slot is `empty`, `ordered`, `stale` (ordered more than 7 minutes ago) or `ready`.

Each critical section of `amzCardMu` is one action: `Checkout` or `Replace` (with the
discard and, as the code sends it under the lock, the order), `CreateDone` or
`CreateFails` (the end of finishAmzKeysCreate), `CheckoutReady`, the release in
`Settle`, `Warm`, `RememberError`, `Clear`. `CreateUseless` is the way out that leaves
the order in its slot. `Vanish` is a worker that dies or whose release is lost.
A goroutine of WarmAmzKeysCard may start at any time, which covers the timer, the
jobs and the calls after checkout, release and clear. A warming by hand differs in
not looking at `recent`: `ErrorAges` before `Warm`.

Abstracted: a card is the task that orders it, so two cards never share their last
four digits; the amount, and so `MaxPays`, is the same for all cards; the store does
not fail. Task numbers are used again when nothing refers to them, which makes
the instances finite without a bound on orders, payments or restarts.

*What the model shows beside the properties.* The settings page says of a card with one
payment left that another is opened by itself, and `amzShouldWarmNext` asks for it;
but beginAmzKeysCreateLocked returns at once while the current card is usable, so
`Warm` is disabled then and a next card is ordered only when the current one is used
up and still in use. The observer's run takes such a next card to its fault: see the
findings below. There is a second way to that fault, with one waiter per order. While it
waits for a next card its order may be promoted to current; the answer then fills the
empty next slot and leaves the current one pending, and a later checkout that joins the
pending order opens the same card once more, as one that has paid nothing. `FoundSpec` in
`MCCardPoolPaid` describes the behaviours in which an answer changes no slot but the one
that holds its order; no card is paid with too often in any of them (section 4).

### Forwarder

`phase[r]` is where request `r` stands in ServeHTTP: `reading` the pool, `picking`,
`upstream` (first call), `again` (the second call after a timeout), `copying` the body;
after an answer that released the account, `ended` (hold to be saved), `cooling`
(cooldown to be set), `holding` (refresh to be started); `done`, or `lost` by a
restart. The balancer's maps keep their names, except `lastPick`, which is the
order `older` of the accounts. `task[r][a]` is the goroutine of refreshAfter429:
`called`, `waiting` for another run, `fetching`, `leaving`; `prev` is the row it read.

Each critical section of the balancer is one action (`Reserve` ranks and takes).
What an upstream call may end with is one of ten classes (`Replies`), told apart
by what the code does after them. Time is relative: `Tick` brings all deadlines
nearer and ages the picks; `cool` and `picks` are pruned lazily as in the code.

Abstracted: weekly and rolling quota are one class, as their handling differs only
in the duration; every account has a usage row; DeleteExpiredAccounts and the
listing are one step, SetUsageHold's read and write too, and so are SetAccountPaid
and SaveAccountUsage in syncOne; account_rpm and max_retries are read at the pick
(the code reads them just before it takes the lock); last picks never tie; the
request log, probes, the model list and the bodies are left out.

### UsageSync

`loop` is the goroutine of StartLoop, `batch` the list that somebody who starts a scan
by hand has filtered but not yet claimed, `status` is `st`, `todo` the accounts of the
scan without a goroutine, `slots` the places taken in its channel, `asking[a]` the row
a sync of `a` has read. `LoopStart` and `ByHandStart` claim the scan under the lock
(`Claim`), for a list read before; `SyncSpent`, `SyncStale`, `SyncFails` and `SyncDone`
are the ways out of syncOne with what each writes back; `EditRow` is everybody else who
writes or deletes a row meanwhile (single syncs, 429s, uploads, the administrator).

*What the model shows beside the properties.* A sync writes back the row it read: a
cookie uploaded during the fetch is marked as expired by the answer to the old one, and
every later sync then skips the account (`sync.go:298`, `:274`); a hold that a 429 set
during the fetch is lost; Hydrate saves the row of the scan over a newer cookie and
makes it look newer still (`sync.go:288`); a 429 that says the month is used up makes the
next sync delete the account.

### CookieTransfer

One account. A cookie says who made it, when its making began (`from`) and when it was
made (`at`); no code reads either. A row (`Entry`) is a cookie and its `login`, the
`last_login_at` that all comparisons use. Whoever makes a cookie sets `login` to the time
it was made (`Saved`). But the code also saves a row it read earlier, old cookie and all,
as a login of now: `ScanEnds` and `AutoScanEnds` when the user or the key was missing
(`usage/sync.go:281-289`), `LoginEnds` when a login failed (`auto/internal/job/manager.go:368-371`).
So `login` may be later than `at`. `scanned` is the cookie a scan of the manager has read,
`restore` that of a scan or login at Auto. A login that began without a cookie and failed
saves none, over an upload that came meanwhile; `emptied` remembers it.

`keep` is
keepPoolCookiesRemote (`KeepUpload`, `KeepLink`, `KeepStart`, `KeepSave`), `sync` the
poller (`SyncPoll`, `SyncApply`, `SyncForget`, then the pull of linked credentials
`SyncPull`, `SyncPulled`), `import` the results that imports by hand have read. Every
request between the two processes may be lost, or carried out and its answer lost.
`AutoRestart` loses the jobs of Auto, `ManagerRestart` everything the manager has in
flight; `Edit` and `RemoveAccount` come at any time. `clock` counts whole seconds, as
the times the code stores do.

Abstracted: both machines have the same clock; one account stands for all, and a page of
results holds it or not; one job of Auto is told apart at a time, and at Auto one scan or
login; a renewal and a login that succeed take longer than a second. Whether Auto's row
counts as paid, which a login asks for and any scan may set, is not kept, nor are the user
and the key, so every scan may find them missing.

*What the model shows beside the properties.* After a scan or a failed login has
moved the login of an old cookie, the comparisons go by a time that is not the cookie's.
An upload of it then replaces a cookie that Auto renewed in between (what
`auto_receive.go:12-14` means to prevent), and a pull of it replaces a local edit made after the login the
cookie is from (`auto_import.go:193`). That is why `CookieNeverOlder` admits an older cookie
in a row with a moved login, and only there. A failed login takes away a cookie that
was uploaded while it ran. ImportAutoAccount does not look at
the time of the local cookie: an import that read an old result applies it over a newer
cookie that the poller brought (its watermark, of one second, only orders imports). In
the poller an answer other than 200 or 404 for one job ends the poll for all jobs behind
it (`auto_transfer.go:267-270`).

### ModelCatalog

The first half is the reader of the document: elements are headings and tables;
`ParseDocument` folds over them as the code does, with one state, and `Reference` says
what a document lists without reading it from top to bottom. `Arrives(doc)` is what may
arrive of it: all, or a part cut off anywhere, also inside a table. The second half are
the refreshes: `AskSite`, then `NotModified`, `BodyArrives` or `RefreshFails`, then
`SaveCatalog` and `Publish`, two steps a restart may come between. A snapshot carries the
version each of its validators names and the one its list came from (`of`, read by no code).
`RestartCatalog` is NewSyncer: it takes the cached list, or the builtin one if there is none,
if it cannot be loaded, or if it is refused (`sync.go:79-94`). Why loading failed is not
told apart, so any restart may fall back; the row in the store stays, and the next refresh
compares with nothing. `NeverOlder` therefore allows the published list to become
older by that fallback alone, and the cached one never.

### RequestLog

`logs` is the table, `seq` its row of sqlite_sequence, `own[c]` the id the insert of
request `c` returned, `history` the hourly table that the two triggers (`OnInsert`,
`OnUpdate`) keep. `ClearRows` and `ClearSequence` are the statements of a clear;
`PruneCount` and `PruneSurplus` the janitor's, with the rows it counted; requests are
inserted and end between any two of them. A request under way is younger than the two
weeks of `PruneOld`.

*What the model shows beside the properties.* The sums of the history stay right, but a
request whose row was cleared stays "processing" in it for ever, and after a clear has
reset the ids a request that was under way writes its result into the row of a later
one (`logs.go:206`, `:218`).

## 3. Runs

| run | instance | checks | states |
|---|---|---|---|
| `jobs_full` | 1 account, 2 calls, 3 kinds, limit 1, 1 retry, 1 restart, the whole environment but edits of the limits | types, one job per account, exact slots, payment verdicts, AccountLease | 3.0 M |
| `jobs_queue` | 2 calls, 2 accounts, limits 1..2 edited at any time; or up to 4 calls, 4 accounts, limits 1; no retry (`PairOrCrowd`) | no lost wake-up, start within limit, order | 1.3 M |
| `jobs_queued_row` | 1 call | **violated**: row says queued, no job behind it | |
| `jobs_paid` | 1 call | **violated**: a paid account gets a session | |
| `login_scan` | login: 2 numbers, 2 requests each, 2 rounds, 2 and 3 ticks; scan: 2 accounts, 1 place | numbers settled, cards once, refusal final, whole result, session returns; figures add up, scan ends | 434 k |
| `ends` | 2 launches; 2 cookie jobs on one place; 2 requests on 1 account with timeouts and 429s | nothing leaks, running browser stays; launches, jobs and requests end, a held account returns | 43 k |
| `cards_full` | 1 session, 2 goroutines, 2 payments per card, clearing, restarts | counts, no second card, used cards stay, a usable card comes back | 291 k |
| `cards_paid` | 2 sessions, 1 goroutine, no clearing, no restart | **violated**: a card pays for one account more than it may | |
| `proxy_transfer` | proxy: 1 account, 2 requests, all answers, time, edits, month end, 1 restart; transfer: 3 seconds, 2 imports, scans and logins on both sides (`FewHeld`) | types, exact counters, refresh keeps out; cookies and imports never go back | 2.4 M |
| `proxy_rest` | 1 account, 3 requests, 429s of 1 or 2 ticks | **violated**: pause cut short by a later 429 | |
| `manager` | proxy: 2 accounts, 3 requests, window of 2 ticks, rpm 1..2 edited; log: 3 requests, 2 models; catalog: 3 versions, 2 callers; 11,111 documents | limit per minute, least busy first; history counts once; parser agrees, list is whole and never older but by a fallback | 1.3 M |
| `cookie_edit` | 3 seconds, 1 import | **violated**: a late renewal overwrites an edited cookie | |

**Several parts in one run.** `MCLoginScan`, `MCEnds`, `MCManager` and `MCProxyTransfer`
hold parts that share no state their properties speak of. The variable `part` says
which one is started; the others stay in one initial state, in which nothing is enabled
that their fairness speaks of (the first step, `Run`, `StartLoop`, `Call` or an API call, has no
fairness). The states of the parts add up instead of multiplying, and a property of a part is
checked on exactly the behaviours the part has alone.

**Why the bounds are enough.** A second actor is what it takes to break a
critical section, a counter or a lease, so `jobs_full` has two calls on one account,
the proxy of `proxy_transfer` two requests on one account, `ends` two launches, the
catalog two callers; a third repeats what the second did. Skipping over a full pool and
removing from the middle of the queue can only reorder with a running renewal, a queued
one, a login behind it and a renewal behind that: four jobs on four accounts, as
`jobs_queue` has them besides its pairs. `PairOrCrowd` bounds the rest of the crowd: one
login, no failures, renewals accepted one after the other. The RPM window needs a pick that has left
it, one that has not and one to come (`manager`: three requests, two ticks). A next number,
a last number and a second round need two of each (`login_scan`); `LoginTicks` is above
`NoProgressTicks`, so each clock ends a login first in some behaviour. An order joined by
a second waiter and a promotion under a waiter need a session and two goroutines; a card
is in use twice when a worker vanishes and its session's successor pays with the same card;
two sessions at once are in `cards_paid`, and any number in the proofs. A renewal that starts,
an edit during it, its end and an import after it need three seconds. `FewHeld` bounds the
copies of rows that are on their way at once: one, or two imports, or an upload beside a
scan or login of Auto, or a result in the poller beside a scan of the manager; these are the
pairs of writers of one row, and the proofs have no such bound. Documents of up to
four elements of ten shapes hold two sections with a table each, nested and side by side.
Constants that bound the models: `MaxLimit`, `AuthkitRetries` (the code's 2, fewer
in runs), `MaxRestarts`, `Longest`, `Window`, `HoldTimes`, `MaxLogs`, `ClearBatch`,
`LastVersion`, `LastSecond`, `MaxImports`, `MaxRounds`, `RadarPhoneAttempts`,
`GetNumberTries`. Limits at a bound behave as at any other value: the proofs hold for all
of them. Calls and requests are interchangeable, so safety runs use symmetry; runs with a
liveness property do not. Deadlock is not checked where the system may really stop: jobs,
requests, launches and a login are over at some time. The card pool never stops, and
`cards_full` checks it.

**The violated properties** are findings. (1) `enqueue` marks the row after
unlocking; a fast job is over by then and the row stays at *queued*. (2) payment is
checked when a job is accepted, not when it starts. (3) `cooldown` and
`SetUsageHold` overwrite a longer pause by a shorter one. (4) When a session and the
warming goroutine wait for the same next card, the answer that comes second resets
the counts of the card the first one already pays with; a promotion under a waiter has
the same effect (section 2, CardPool). `Prompt` in `MCCardPoolPaid`
excludes unlikely delays: nobody waits on for a card while another pays with it to
the end. (5) A cookie edited while its renewal runs is older than the end of the
renewal, which is the time the comparison uses, so the completed task overwrites it,
although the comment above the call says it never does (an edit can also lose to a row that
was written back as a later login, section 2, CookieTransfer). `PROJECT.json` quotes the lines.

For each finding a theorem says that there is no other cause: in the behaviours that leave
the cause out, the property holds for all values of the constants (section 4, *The violated
properties*). For (2) the attempt at a proof brought up a second cause: the row may become paid between
the check of enqueue and its append, by another job of the account that ends just then.

**Fairness.** A goroutine that can run does run (the Go scheduler): weak fairness of
the steps of each job, call, request, refresh, launch and scan. Beyond that:

* `EveryJobEnds`, `EveryRequestIsAnswered`, `HeldAccountReturns` (`ends`): browser sessions
  and upstream calls end, as both have timeouts. The copying of a body has none of its
  own; that it ends (the client or the upstream closes) is an assumption. None is made
  of time, edits or restarts.
* `LaunchEnds` (`ends`): every wait of Launch has a limit, the head of a request and the dial
  have one, and the browser's end of a tunnel closes with the browser. Nothing is assumed of
  a tunnel while its browser runs; no fairness for Close, edits, crashes.
* `SessionReturns` (`login_scan`): steps are taken and time passes (`Deadline`, `Ticks`).
  Nothing is assumed of the page, which may move back and forth for ever, nor of the
  services, nor of the worker, which has no timeout: a session that reaches it counts as
  returned from the Go engine.
* `ScanEnds` (`login_scan`): a call to Cline has a time limit. Edits and deletions may go on
  for ever, and nobody has to start anything.
* `CardReturns` (`cards_full`): the ticker of Server.Run and the two deadlines (a stale
  order, an aged error), and that the card service works now and then: strong
  fairness of accepted orders and of delivered cards, an assumption on the service and
  not on the code.

## 4. Proofs

For any sets of accounts, jobs, requests, launches, cards, callers, models and documents,
and any limits, within the assumptions the modules state (`JobManagerAssumption`,
`ForwarderAssumption`, `CardPoolAssumption`, `LimitsAssumption`, `TicksAssumption`,
`RoundsAssumption`, `NobodyAssumption`, `ScanAssumption`, `TransferAssumption`,
`NoOneAssumption`, `VersionsAssumption`, `DocumentsAssumption`, `NilAssumption`,
`RequestLogAssumption`, `ElementsAssumption`: limits are positive numbers, absent values
are no members, and where something is counted it is finite). The theorems about a
composed specification hold for any value of its remaining constants:

| module | theorems (invariant first) |
|---|---|
| `JobManagerProofs` | `TypeCorrect`, `RecordsAgree`; `NoSharedAccount`, `SlotsAreExact`, `NoJobIsForgotten`, `LimitIsKept`, `NoOvertaking`, `NoUnpaidSuccess`, `OneVerdict`, `ImplementsAccountLease`; `QueuedRowHasJobInTurn`, `PaidAccountIsSkippedUnlessPaidInBetween` |
| `ForwarderProofs` | `TypeCorrect`, `RecordsAgree`; `InflightCounts`, `HoldCounts`, `NoPickDuringRefresh`, `LeastBusyIsPicked`; `WindowsAreExact`, `RateIsKept`; `RestIsKeptUnlessShortened` |
| `CardPoolProofs` | `TypeCorrect`; `OneOrderAtATime`, `NoUseIsDropped`; `PaidWithinLimitWhenFound`, `ImplementsCardLedger` |
| `LoginScanProofs` | session: `SessionAgrees`; `EveryNumberIsSettled`, `NoSecondClick`, `RefusedForGood`, `WholeResult`; scan: `ScanAgrees`; `FiguresAddUp`; both: `TypeCorrectParts`, `PartsKeep` |
| `BrowserSessionProofs` | `OneDownload`; `EveryLaunchGivesBack`, `BrowserStays`, `PartsKeep` |
| `CookieTransferProofs` | `ResultsInOrder`; `NoOlderCookie`, `NoOlderImport`, `EditedCookieStaysUnlessEditedInBetween`; with the proxy: `TypeCorrectParts`, `PartsKeep` |
| `ManagerProofs` | log: `LogCounts`; `DashboardCountsOnce`; catalog: `OneRefresh`; `NoOlderList`, `ReaderIsRight`, `WholeList`; all parts: `TypeCorrectManager`, `TextIsReadRight`, `ManagerKeeps` |
| `FoldTheorems` | lemmas only |

Every invariant and every action property of a passing run is the statement of one of
these theorems. The runs that start one part of several check them under the composed
specification; `PartsKeep` and `ManagerKeeps` carry the theorems over to it, by showing
that each of its steps is a step or a stutter of every part.

*The queue.* None of the properties is inductive: that no account
has two jobs rests on `accountBusy`, which looks at the queue and the running map,
so these must say which goroutines exist. `IInv` ties the four records of a job
together: `QueueMatches`, `CallsMatch`, `RunningMatches`, `SlotsMatch`. Steps that
touch none of them are frame steps, treated once (`FramePreserves`); append, start,
exit and restart are the others. No lost wake-up has its own invariant on top:
whoever frees a slot or appends owes a pump until it has read the limits. So have the
verdicts: `Verdict` says where a job stands as long as its status is undecided, and that
one that was asked to pay reaches `confirming` only when its session said paid. Order in
the queue needs what `RemoveIndex` does to positions (`RemoveIndexProperties`): `pump` takes
the *first* job that fits, two jobs of one pool fit or do not together, and what is
behind the gap moves up by one.

*The proxy.* `end` never goes below zero and a set cannot count one
goroutine twice, so the counters alone are not inductive. `AtMatches` says that a
request that has an account has asked it and has no refresh of it yet,
`TaskMatches` that a refresh belongs to an account its request has tried; then
reserve adds one user, the ways out remove one, and likewise for refreshes. That a
refresh keeps requests out follows from the exact hold and the filter in `Eligible`.
That the least busy account is taken is the order in which `Reserve` ranks the accounts.

*The limit per minute.* `RpmIsKept` speaks of what an observer has seen (`asked`: how long
ago each request asked each account), the code of a list it prunes only when it picks.
`WatchInv` says for *every* age up to the window, not just the window itself, that the list
has as many entries younger than that as the observer has seen: a tick turns the
statement for one age into that for the next (`TickMatches`), pruning cuts a sorted list
where the window ends (`PruneKeeps`), and a pick adds one on either side.

*The cards.* The types are inductive as they stand, and they say
more than shapes: uses never exceed payments, payments never `MaxPays`, pending cards
have neither. The two action properties follow from them step by step: every slot
an action writes is an old slot, a ready card or empty (`AllKept`) except in `Order`,
whose guards say that nothing is in stock; and a slot that loses its card was not
ready, not in use, or had its last use ended by that step (`NotLost`), for which the
set of ending uses has at most one member.

*The limit of a card.* `PaidWithinLimit` is violated (section 3), so what is proved is where
it holds: in every behaviour of `FoundSpec`, with clearing, restarts and any delays. A card
*owes* the accounts it has paid for and those that pay with it now. `OwedInv` says that a
stored card has counted at least what it owes, that no card, stored or not, owes more than
it may pay, and that the two slots hold different cards; a reservation counts one and owes
one, a payment owes the same as before, a release that counts down owes one less, and an
order is for a card that owes nothing. The only action this leaves open is
`CreateDone` in a slot that does not hold its order, which is what both ways to
the fault have in common. The sessions are assumed to be finitely many. With `OwedInv` each
step of the pool is one of `CardLedger`, where a session holds the card it pays with
(`HeldCard`): a reservation is `Take`, whose guard is what the slot's count says of what the
card owes; a settlement is `GiveBack`, with the payment or without; a restart is `LoseAll`;
all else is `Renew`, the bookkeeping of numbers that nothing refers to any more.

*The violated properties.* Each of the five holds when one thing is left out, and what is
left out is the cause of its finding and no more:

| property | holds in | which leaves out |
|---|---|---|
| `QueuedRowHasJob` | `InTurnSpec` | a goroutine that marks its row before its caller has; a restart |
| `PaidAccountIsSkipped` | `UnpaidSpec` | a row that becomes paid inside enqueue, or from outside while a job waits |
| `AnnouncedRest` | `LongestSpec` | a cooldown that is shorter than the one in force; a restart |
| `PaidWithinLimit` | `FoundSpec` | an answer that is stored where its order is not found |
| `EditedCookieStays` | `SpecUnedited` | an edit while a renewal or a login runs; a row written back with its old cookie |

Until a call has marked its row, its job has not (`MarkComes`), and a queued row belongs to a
job that has not marked it yet (`RowHasJob`); `RowSteps` and `CallSteps` say what every step
does to a row and to a call.
An account whose job waits is not paid (`UnpaidUntilBrowser`), since only the job itself
or the outside can pay, and no other job of the account exists (`OneJobPerAccount`). The
rest an account announced never exceeds what the balancer keeps it out for (`RestIsKept`). The
login of every row is the time of its cookie, and no edit lies within a renewal or a login,
whichever machine, answer or import holds the two cookies (`UneditedInv`), so the time a
renewal ended tells as much as the time it began.

*A login session.* `LoginInv` has a part per module. `NumbersInv`: a number is open
exactly while the attempt is at a place that holds one, and one is reported as used only
by the step that returns success. `CardsInv`: a card whose button was pressed was claimed,
and the card about to be pressed was not pressed yet; this needs the claim to come before
the click. `FlowInv`: a place of the code that uses cookies or the key is only reached
with them, which makes the result whole at the end. Steps of one part leave the other
parts' variables alone. Its types need four more parts: `AttemptsInv` (a number is only asked
for while there is an attempt and a try left), `ClocksInv` (the clocks stop at their limits),
`PlaceInv` (rounds and outcomes) and `KnownInv` (what the session knows, and that
`handleAuthkitWait` was called by a loop it can return to).

*The browsers.* That a running browser is never removed is not inductive, as a download
deletes. `LockInv` adds that only the holder of `ensureMu` downloads, and that it began
when there was no browser at all; since files only appear under the lock, nothing can run
from the directory that is deleted.

*The scan.* `ScanAddsUp` alone would allow a scan to start over accounts that an earlier
one left behind. `ScanShape` adds that none is waiting and being synced at once, and
that a scan that does not run has neither. The counting uses the library's facts on the
cardinality of finite sets, hence the assumption that there are finitely many accounts.
`RowsInv` adds what the rows and figures may be, which closes the types.

*The transfer.* The comparisons order logins, and a row's login is never older than its cookie
(part of `ResultsInOrder`); so a row that replaces another has the later login, and an older
cookie only if its own login was moved (`Follows`). For imports the invariant must
relate results somebody has read to the row at Auto now: what was written later has the
later login, unless a failed login emptied the row in between (`emptied`), so a newer
watermark means a newer login, up to the second in which both were written.

*The catalog.* `syncing` alone does not show that a slow answer is not older: `OneInv` adds
that the one refresh there is began with the list that is still published, and the
versions along site, answer, cache and published list are in order: no cached list is older
than the published one, so that a restart that takes the cached list does not go back. A restart
that falls back to the builtin list makes the published list older than the cached one; the
order still holds, and the first refresh after it, which compares with nothing, brings a
list at least as new as the cached one (`OrderInv`).

*The reader of the document.* `ReadInv` says what the one state of `ParseDocument` means after
`j` elements: the section at hand is the one that is still open there and it has a table
or not (`SectionInv`), the rows found are those of every table so far (`RowsInv`); once
failed, the document is `Bad`, by one of the three faults of `Reference`. One element more
(`HeadingOK`, `TableOK`) keeps it, for documents of any length. On top of it `WholeInv` follows
each list, with the version it came from and each validator it carries, from site to cache to
publication: an answer that was cut short anywhere is refused, and one that says *not
modified* says so of a version that lists the same (`NotModifiedWhole`).

*The history.* Its sums are over all models, so the invariant needs the arithmetic of sums
(`SumChange`: changing one summand changes the sum by the difference). `CountInv` says that
every insert is counted in one bucket, that a bucket adds up, and that it counts at least the
rows there are, without which an update could take one away from a bucket at zero; `IdInv`
bounds the ids by the number of inserts, so that an id used again after a clear is that of
a counted row.

**What stays with TLC.** Liveness under fairness and anything with ENABLED, which the
prover does not reach: `CardReturns`, `SessionReturns`, `ScanEnds`, `LaunchEnds`,
`EveryJobEnds`, `EveryRequestIsAnswered`, `HeldAccountReturns`. Induction over data with the
library's theorems is out of reach as well, as they take an operator as a parameter; where a sum
or a fold over a document had to be reasoned about, `FoldTheorems` takes the set of the
natural numbers for which the claim fails and its least member instead (`Least`, `Inductive`,
`SubsetInduction`). No module uses RECURSIVE operators. That the five properties are violated is
a matter of single behaviours, which TLC shows.

## 5. Abstract specifications

`AccountLease` is the abstract specification of the queue: leases of accounts that are
asked for, taken, held without interruption and given back. `JobManager` implements it
under the mapping `Lease` (checked by `jobs_full`, proved by `ImplementsAccountLease`).
`CardLedger` is that of the card pool: cards that are taken, paid with and given back, one
counter per card. `MCCardPoolPaid` implements it under the mapping `HeldCard` in the
behaviours of `FoundSpec` (proved by `ImplementsCardLedger`; no run checks it, as `WatchSpec`,
where answers may miss their order, does not implement it).
`Reference` is that of the document reader, a definition by sections and not by
reading (checked by `manager` on all short documents). The observers of `MCForwarderWatch`
and `MCCardPoolPaid` state what balancer and card pool promise in terms of the past.

Left open, in order of weight: a bound for how long
`CardReturns` takes, as a safety property that could be proved; `CookieTransfer` for several accounts,
to bring in the paging of results, where an account may be missed while the list changes;
the composition of `JobManager` with `LoginFlow`, whose outcomes it now takes as free choices.

## 6. Not modelled

* *Response relaying and usage parsing* (`envelope.go`, `usage.go`), *usage fetching*
  (`fetch.go`, `parse.go`, `internal/cline`): conversions of bodies and streams. What comes
  of them is a choice in `Forwarder` and `UsageSync`.
* *Configuration, export, backup* (`internal/config`, `internal/backup`, `auto/internal/export`,
  `internal/netproxy`): pure functions and one-shot jobs of the administrator.
* *Web interface, demo, deployment*: presentation.
* Of the components that are modelled: log lines, stages and subscribers of jobs; prices,
  countries and the splitting of a phone number; the checks of the browser manifest; the
  HTTP calls of the card service, 3DS codes and the pages of the payment; handlers that
  read or write one row (batches, suffixes, settings). Concurrent PATCHes of the settings
  can lose one another's update; that is the store's read-modify-write and needs no model.
* When the daily cookie keep is due (`keep.go`) is a pure function of clock and settings.
  A failed write of its date makes it due again in the next minute.
* In the phone service, a number that is sold while its answer is lost, or whose country
  code cannot be read, is in no one's hands: `GetFails` covers it, and nothing could cancel
  it (`client.go:137-181`).
* A `policy_denied` that handleRadar meets goes through CompactError and not through
  wrapIfAuthkit: `verdict = "lost"` is classified by its page and is retried by the queue,
  although `error.go:17` says such logins are not. `RefusalIsFinal` speaks of the refusals
  the login loops read from a callback.
