# Yoga Chain in TLA+

TLA+ specifications of *Yoga Chain for Veeam*, the read-only explorer of restore points in
this repository: a Go program that serves a web console and reads the REST API of a Veeam
Backup & Replication server (VBR). The models are translated from the source. TLC checks
them on small instances; TLAPS proves every safety property that holds for every value of the
constants.
Module names below are files of this directory, source names are files under `src/`.

## 1. Inventory

### The parts of the system

| Part | Source | State it keeps | Operations | Model |
|---|---|---|---|---|
| REST reads | `vbr/client.go`, `vbr/session.go` | per session: `cache` (body and time of put, per path), `inflight` (one call per path) | `Get`, `joinOrLead`, `leadDone`, `cacheGet`, `cacheGetStale`, `cachePut`, `doGet` | `RestGet`, `VbrReads` |
| Token renewal | `vbr/client.go`, `vbr/session.go` | access and refresh token, time of expiry, `renewMu`, `tokMu` | `fetchOnce`, `renewToken`, `tokenGrant`, `SetTokens`, `token` | `TokenRenewal` |
| Session store, data, trace | `vbr/session.go` | map of sessions; per session a map of data and a ring of traced calls | `New`, `Get`, `Delete`, `Count`; `Set`, `Value`; `addTrace`, `Trace` | `Console`; data inside its users |
| Collections | `chain/rest.go` | none | `getAll` (page after page), `getObj` | `Collections` |
| Inventory, loading | `chain/inventory.go` | session data: the inventory, the progress | `LoadInventory`, `Refresh`, `InventoryProgress`, the calls of `buildInventory` | `InventoryCache` |
| Inventory, linking | `chain/inventory.go`, `chain/model.go` | maps object → backup, backup → job, ... | the rest of `buildInventory`, `listJobs` | `InventoryLinks` |
| Restore points | `chain/restorepoints.go` | none; goroutines and a semaphore during a call | `RestorePoints`, `scopeBackups`, `fileRP`, `mapRP` | `RestorePoints` |
| Paging | `server/handlers.go`, `index.html` | session data: the list of a selection; console: rows, `loadSeq` | handler `restorePoints`, `selectAndLoad` | `RestorePointPaging` |
| Detail | `chain/detail.go`, `restorepoints.go`, `index.html` | console: `S.selectedRp`, `S.detail` | `LoadDetail`, `GetRestorePoint`, `fileDetail`, `selectRp` | `RestorePointDetail` |
| GFS retention | `chain/retention.go` | none | `LoadRetention`, `keepFor`, `expiry`, `periodLabel`, `shift` | `Retention` |
| Application consistency | `chain/aaip.go` | none | `Aaip`, `classifyGuestLogs` | `RestorePointDetail` |
| Server | `server/server.go`, `handlers.go` | none of its own | one handler per route | `Console` (connect, disconnect); the others with their components |
| Console | `frontend/index.html` | `S`: inventory, selection, rows, detail, sequence numbers | connect, select, page, detail, retention, refresh, disconnect | `Console`, `RestorePointPaging`, `RestorePointDetail` |
| Diagnostics, demo data, start, build | `diagnostics.go`, `demo.go`, `main.go`, `web.go`, `dbg.go`, scripts | — | — | not modelled |

### How they interact

The browser calls handlers; each request is a goroutine. A handler resolves its session and
calls package `chain`, which reads VBR only through `vbr.Get`, usually by `getAll` and in
parallel (four lanes in `RestorePoints`, more handlers at once from an impatient console).
All of them share the session: its REST cache and its table of calls in flight, its token
pair, its inventory, its progress, the list kept for the following pages. Nothing is
persisted: a restart of the program ends all sessions, and there is no recovery to model.

### What is hard here

* Locks are released between a look and the act it decides: cache and single flight,
  reading a token and renewing it, looking for an inventory and building one.
* Builds, refreshes and progress reports of one session overlap and end in any order.
* Calls of VBR fail, time out, are answered after their budget, and some failures are
  tolerated while others are not.
* The console abandons loads without cancelling their requests; answers of old selections
  arrive late, and answers of old sessions too: its functions wait for answers while the user
  clicks on, and share one global state.
* VBR tells the same thing in several ways, some of them wrong or empty, and any call for one
  of them may fail.
* What is read changes meanwhile: lists between two pages, backups between two calls.
* Dates: months of different length, weeks that cross a year, days cut towards zero.

`PROJECT.json` lists the hazards one by one, each at the line where it bites and with the
properties that are about it, or why there is none yet.

### What makes each part correct

* REST reads: one exchange per path at a time; no reader goes back in time; a bound on how
  old the information is; every `Get` returns.
* Tokens: one renewal per token; the session keeps the newest pair; the session does not
  expire by its own doing; nobody waits for ever.
* Inventory: only complete inventories are kept; a refresh drops; the bar comes to rest and
  does not go back.
* Linking: a link between a workload and a job is true, known on both sides, and leads to an
  object; a failed call costs no more than its own answer.
* Collections: nothing is missed or doubled but by what came or went between two pages.
* Restore points: nothing foreign, nothing twice, nothing too old, and nothing missing but
  what failed.
* Paging: the rows on the screen are those of the selection, in place and complete.
* Detail: one chain of one job, the files a restore reads, the other locations; the pane
  shows the point that is selected.
* Console: form, inventory and rows belong to the session of the page and to the selection;
  nothing is left behind on either side of the wire.
* Retention: expiry, period and expectation agree; a gap is reported, and stays.

## 2. Modules

Each component has a module with its variables, `Init`, one action per step between two
points where another goroutine can come in (a lock, a REST call, an `await`), `Next`, `Spec`
and, where it has liveness properties, `FairSpec`. `MC...` modules give TLC values and
symmetry; `...Proofs` modules extend the component and TLAPS; two of them prove about two
components, for which `Retention` and `RestorePointDetail` have their names in front of `Init`,
`Next`, `Spec` and `TypeOK`. An operator whose comment
speaks of a *slip* is not part of the model: it is a plausible mistake in the operator that
follows, and shows that a property notices it (`mutants` in `PROJECT.json`).

**`RestGet`** — `Get` with the cache and the single flight table. `CacheGet` and `JoinOrLead`
are two critical sections and so two actions; `Settle`, `Delete`, `Close` are the order of
`cachePut`, `delete` and `close` at the end of a call. A body is the version of the resource
it shows. Time passes in ticks and is kept as ages: of a copy since it was put (`age`) and of
the information in it since VBR answered (`data`). A body may be on its way for a while
(`transit`), which is what makes the order of put and answer matter.

**`VbrReads`** — what the callers of `Get` may rely on, with no cache in it: a read returns a
state the resource has had and never an older one than a read that ended before it began.
`RestGet` implements it under the mapping `Reads == INSTANCE VbrReads WITH ...`, whose `version`,
`seen`, `floor` and `got` are those of `RestGet` and whose `path` is the path a getter asks for.

**`TokenRenewal`** — one exchange of `RestGet` seen from inside: `fetchOnce` with its retry,
`renewToken` under `renewMu`, the grant at VBR that rotates the pair, `SetTokens`. A pair is
its number. VBR lets tokens die whenever it likes, refuses, does not answer, or leaves the
refresh token out of its answer; a response may be lost after VBR rotated the pair. `faulty`
remembers that something outside failed. `renewToken` reads the two tokens one after the other; they
are one step of `Renew`, because nobody writes them but who holds `renewMu`, which the reader does.

**`InventoryCache`** — handlers of `inventory` and `inventory/refresh` over one session.
A build is a walk over the points at which `buildInventory` publishes progress; `Required`
says which of its calls are mandatory. An inventory is the number of its build and what was
read for it. `Refresh` and `Wipe` are the two `Set` of `Refresh`.

**`InventoryLinks`** — the same `buildInventory` as the one who puts the answers together. Each
`getAll` is an action that may fail: `ReadRepositories`, `ReadStates`, `ReadScaleOut`, the three
sources of `ListJobs`, `ReadBackups`, `ReadObjects`, then for each backup `ReadContents` or
`ReadEmpty` and `ReadFiles`, at last `FallBack`. `world` is what VBR holds during the build: what
is in each backup, what its files name, what each object claims, which objects the catalog
lists. `objectBackup`, `JobIDs` and `VMIDs` are variables of the model; the maps that never
change once written (`backupJob`, `objectVM`) are constants with the domain that is `known`.
The configuration of the jobs, sizes and names are left out: `RepoID` and the texts of a job take
no part in links.

**`Collections`** — the loop of `getAll` over a collection in which VBR inserts and removes items
while it is read. A page comes from any state the collection has had, because each one has an
age of its own in the cache of `RestGet`. `states` is the history of the collection and belongs
to VBR. Where VBR inserts is not known, so items come anywhere. No caller of `getAll` sets `max`.

**`RestorePoints`** — `RestorePoints` from the pivot to the sorted list: `Scope`, the lanes
(`Ask`, `Answered`, `AskFails`), `Merge` per object, then `ReadFiles` for the backups that
showed nothing. A backup file stands for its restore point too; `rest` says whether VBR
publishes one. An answer contains all that was there during the whole call and any part of
what came or went meanwhile: that covers pages read at different times and copies from the
cache. The first half is so of collections of one page; for longer ones `LostOnlyByRemoval` of
`Collections` says when a point that stayed may be missed, and such a point counts here as one
that went. A request that joins one that VBR has answered already may miss what came between the two;
`RestorePoints` counts from the first of them, for which such a point came while the list was read.
Sizes, labels and types of rows are left out.

**`RestorePointPaging`** — the handler of `restore-points`, which computes a list for the
first page and keeps it in the session for the others, and `selectAndLoad`, whose loads are
abandoned when `loadSeq` moves on. A row is its selection, its list and its position.

**`RestorePointDetail`** — the pane of the console and the handler behind it. `Select` is
`selectRp` up to its `await`, `Deliver` the rest, which is one step with the answer of the
handler: answers come in any order either way. A request reads the point
(`GetRestorePoint`), then asks for the history of its workload (`AskList`) and gets it later
(`ListAnswered`), while `Make` and `Retire` change VBR; as in `RestorePoints`, a list has
what was there all the time and any part of what came or went, misses objects that failed
and shows backups through their files. What a request reads may be older than the request: restore
points are not cached, but a request for the same path as another's joins it (`Others`), so
the point may be as the other one saw it, and *all the time* counts from when VBR was asked
first; the files come from the cache or its fallback (`FileRows`), that is, any of those the backup ever had,
as the fulls or increments they were. A row of the timeline may be a file: a plug-in's, or one that
stands for a point in `Clicked`. Backups without a job have the same `Job`, `NoJob`. Only an increment whose full is there is ever made,
and a full that goes is merged into the next point. `answer` holds what is being answered
for the one step in which the properties look at it. The loops over the sorted slice are
`Opens`, `Closes` and `NeededFor` over sets ordered by date.

**`Retention`** — the calendar arithmetic of `LoadRetention` for a job. The view is computed
at once and is an operator of the moment, the policy and the points that were read (`seen`); actions
are time, the making and removal of points, the reading, and edits of the policy. A point has the
sequence that VBR calls `gfsPeriods`; the code keeps the first that is not `None` (`GFS`). `Read`
takes up any points of VBR and of those already read, since the marks come with the files of a
backup, whose call may fail or be answered from the cache. Months have their real lengths
(`MonthStart`); `AddMonths` runs over into the next month as `time.AddDate` does; `Trunc`
cuts towards zero as Go's conversion does, for which moments are half days.

**`Console`** — the page and the sessions of the server. Every function of the page is cut at its
`await`s: `Connect`, `Open` (the server), `Connected`, `InventoryComes` are `doConnect`,
`Refresh`, `Refreshed`, `RefreshComes` are `refreshInventory`, `Disconnect` and `Disconnected` are
`disconnect`; between two of them any other click may happen that a visible button offers.
A superseded loop of `selectAndLoad` changes nothing, so one loop is kept, with who runs it.
`lists` is the set of the lists of an inventory that are not `null`: where one is, the code
throws, and what follows is not done. Retention, details, the search box, the polling of the
progress and the redrawing after a change of language are left out of this module. The
negotiation of the API version is part of `Open`.

`RestGet` implements `VbrReads` by `INSTANCE`; the other modules meet at the edges, each stating
as an action what another one shows: what `RestGet` calls an exchange is `TokenRenewal`; that
every call of `InventoryCache`, `InventoryLinks`, `Collections` and `RestorePoints` ends is
`EveryGetReturns` of `RestGet`; which states a page of `Collections` may show is
`AgeOfInformation`; a build of `InventoryCache` makes the result of `InventoryLinks`, which is the
constant inventory of `RestorePoints`; that `Compute` of `RestorePointPaging` ends is
`EveryCallReturns` of `RestorePoints`; a load of `Console` is one of `RestorePointPaging`.

## 3. What is checked

| Run | Instance | Distinct states | Shows |
|---|---|---|---|
| `RestGet` | 2 getters, a cacheable path, TTLs 1 and 2, budget 1, 2 versions | 94 k | `SingleFlight`, `NoGoingBack`, `AgeOfInformation`, `EveryGetReturns`, refinement of `VbrReads` |
| `Tokens` | 2 fetches, 3 pairs, all lives of tokens, all faults | 119 k | `RenewedOnce`, `NewestPair`, `ExpiredHasCause`, `EveryFetchEnds` |
| `Inventory` | 2 handlers, 4 requests, a job and a backup | 85 k | `WholeInventory`, `RefreshDrops`, `BarNeverStuck`, `PercentGrows`, `EveryLoadReturns` |
| `Links` | 4 backups of 3 jobs and of none, 4 objects of 3 workloads, 768 worlds, any calls fail | 105 k | `LinksTrue`, `NothingLostButFailed`, `LinkedIsFound` |
| `Collections` | 5 items, pages of 2, 4 states, symmetry of items | 128 k | `LostOnlyByRemoval`, `TwiceOnlyByInsertion` |
| `Paging` | 2 requests, 2 selections, pages of 2, lists up to 4, 3 loads, 4 lists | 224 k | `OneSelection`, `InPlace`, `WholeList`, `EveryLoadSettles` |
| `RestorePoints` | 5 objects in 3 backups, 5 files, 2 lanes, 6 pivots | 346 k | `OnlyPivot`, `CompleteButFailed`, `EveryCallReturns` |
| `Detail` | 2 requests, 8 points in 5 backups of 2 jobs and of none, 2 changes of rows and 1 failed backup per list, symmetry of requests | 166 k | `OneChain`, `DetailIsTrue`, `VerdictOfItsLog`, `LoadingIsAwaited`, `OnlyLangMixesPanes` |
| `Retention` | the calendar of six years, 89 moments, 3 policies, one point of one tier or two | 108 k | `GapsAccountedFor`, `ExpectedUnexpired`, `GapStays` |
| `Console` | 2 sessions, 2 kinds of items, 2 refreshes and 2 disconnects that wait, symmetry of both | 747 k | `RowsOfSelection`, `OnlyLateInventoryMixes`, `StuckOnlyByRefresh`, `OrphanedOnlyByLoss` |

The type invariants of `Retention` and `RestorePointDetail` are part of their runs, because they
say more than types (a policy bounds what is expected; each point of VBR stands on a full);
they and those of the other modules are theorems (section 4).

`DetailIsTrue` compares an answer with VBR: when nothing failed, came or went since VBR was
asked for what is in the list, no backup is shown through its files and the workload of the point
was recognised, the locations are the copies of other jobs within 18 hours; and if the backup of
the point has a job, the chain is the set of points that stand on the same full of the same backup and
the needed files are those from that full to the point. The code never looks at backups there,
only at jobs and dates. The premise is what the code depends on: VBR was first asked by another
request, if the list was joined, and then later changes are not in it; files may be half an hour old,
so that points that are gone are among the locations; and of backups without a job the chain is not
that of VBR (section 5). `OneChain` is what is left when none of this is so; all its
points belong to the workload asked for. `OnlyLangMixesPanes` says that the pane shows another point than the selected one only
after a change of language, which draws whatever answer came last.

`LinksTrue` has two ways for a link to be true: a backup of the job holds the workload, or no
backup that holds it could be read and an object of it claims the backup. `NothingLostButFailed`
is the other direction: every backup that was read has linked what it holds, whichever others
failed. `LostOnlyByRemoval` and `TwiceOnlyByInsertion` speak of items that are there in every
state a page was read from, and name the only cause: between two pages, something before the
item went away or came. Three properties of `Console` name the only way out of a good state:
an inventory of another session is on the screen only after one arrived late
(`OnlyLateInventoryMixes`), the loading view is left behind only by a refresh that failed
(`StuckOnlyByRefresh`), a session is forgotten only by a lost answer, a lost call or a second
click on disconnect (`OrphanedOnlyByLoss`). `RowsOfSelection` holds whenever the inventory is
the session's and complete enough to draw the pivot.

`GapsAccountedFor` says what a gap means, of the points that were read: what is shown as missing is
within what the policy keeps, a kept period that is not shown has a point that VBR marked for it,
and if a point is marked for a period that is shown, another tier comes before it among its
marks. `GapStays` says that only a point that was read, a change of the policy, or time takes a gap off.

Two runs end in a violation, each of one property that quotes a document:

* `Retention_gap` (`GapsShown`). From the 29th on, one month back may be a day of the present
  month, so the month before is not expected and its missing point is not reported
  (`retention.go:4-5`, `:103`, `:162`).
* `Console_empty` (`ConnectShowsInventory`). Of a VBR without jobs and backups, `README.md:112`
  says that *the console says so instead of showing an empty screen*. Lists nothing was appended
  to are `null` in the JSON of the inventory (`inventory.go:79`, `:200`, `:320`); `doConnect` throws
  at `S.inv.jobs[0]` (`index.html:556`), and its `catch` disconnects.

### Bounds, and why they are enough

Two getters are a leader and a follower, or a leader and a late comer, and change roles;
one path is enough because paths meet nowhere but in the session's maps. It is cacheable: one that
is not differs by leaving out `CacheGet`, `Put` and the fallback, and the theorems of `RestGet` cover
it along with any number of getters. TTLs of one and two ticks with a budget of one let a copy
be fresh, usable as fallback and too old, before and after an exchange. Two fetches are the one that renews and the one that waits;
three pairs are two renewals in a row. Two handlers overlap in every way two builds and a
refresh can, and four requests let a refresh and a reload follow; the number of jobs and
backups matters only to the estimate, and that theorem is proved for every number.
The worlds of `Links` mix wrong claims, claims of backups that are gone, an object in two
backups, a file that names the object of another backup, an empty backup whose files tell, a job
that is in no list, an imported backup without a job, and an incomplete catalog; the states of
repositories repeat an id. Five items and pages of two make collections of no page, of full ones
and of a broken one, and four states let items go and come between any of three pages.
A page of two rows and lists up to four make empty, partial, exact and overfull pages. The
restore points have a job with two workloads in one backup, a second backup of one of them,
a plug-in job with two workloads, a job without a chain, one that does not exist, a workload
and a repository; two lanes for two objects or more make the semaphore matter. The detail has a
chain of a full and an increment, the next full of the same job in another backup, a copy
within and points beyond 18 hours, two backups without a job whose points take turns, a file that
names two workloads, one that names none, a plug-in's file, and a point whose file is a row too; two
requests are one click and a later one, or the same point twice, where the second joins the
first. Of the points two may expire, the full under an increment and the copy. A list that sees
two changes may have the one and not the other; backups that fail are independent of one another, so
one is enough. The moments of `Retention` are the days around the ends of the months from February
2024 to March 2025, February 29th among them, and some between; its properties speak of one point
at a time, which is of one tier or of two in either order. In `Console` two sessions are the one that ends and
the next; two refreshes and two disconnects are a call that waits and one that overtakes it;
another item of a list behaves as the first item of another one. The bounds are constants with
`Max` in their names, and the guards that use them stop the environment (requests, loads,
lists, versions, renewals, points, states, sessions), never the code.

### Fairness, and why the code justifies it

* `RestGet`: weak fairness of every step of a getter, because goroutines run; strong fairness
  of `Tick`, because time passes. VBR need not answer: the budget of `doGet` ends the call.
* `TokenRenewal`: weak fairness of the steps, and strong fairness of `Lock`: a `sync.Mutex`
  hands itself to a waiter that has waited for a millisecond. The grant need not be
  answered: the client has a timeout.
* `InventoryCache`, `RestorePoints`, `RestorePointPaging`: weak fairness of the steps of a
  handler and of the console, and that every REST call ends, with a result or an error
  (`EveryGetReturns`). No request has to be made and no call has to succeed.
* `InventoryLinks`, `Collections`, `Console` and `Retention` state safety only. That a build ends is
  `EveryLoadReturns`; `getAll` would not end if a collection grew for ever faster than it is read.
* `RestorePointDetail` assumes no fairness. That a loading pane settles is left as the safety
  property `LoadingIsAwaited`: a request for it is under way, and each of its calls ends.

## 4. What is proved

All theorems are for arbitrary sets of goroutines and paths and arbitrary bounds, under
the named assumptions of the modules, which TLC evaluates in the runs. Most of them only say
that null values are not members of their sets, that limits are natural numbers
(`CacheTTL <= StaleTTL`, `Budget > 0`, `Limit > 0`), and that tables have their types. These say
more:

* `ChainsAssumption` is what VBR and its jobs do, not what the code does: an increment is made
  when its chain has a full; of one workload a job makes one point at a time, and in one backup at
  a time (a job whose backup moved does not go back); a workload of a plug-in has files
  only. Without the second and third, a chain that is told apart by job and date could not be
  right. The third is not assumed of backups without a job, which have nobody to see to it: no theorem
  says that their chain is that of VBR, and it need not be (section 5).
* `InventoryAssumption` of the detail: the workload of a point is among those of its backup. An
  inventory older than the point behaves as `Owner` says, which may answer `NoVm`.
* `CalendarAssumption` (months of 28 to 31 days, Decembers of 31) is all that is assumed of the
  calendar: leap years may be anywhere. `HorizonAssumption` says that it is long enough for what
  a view computes; that of the code has no end.
* `RepositoriesAssumption`, `TasksAssumption`: a list is a list.

* **`RestGetProofs`**: `TypeCorrect`, `OneFetchAtATime`, `ReadsNeverGoBack`,
  `InformationAgeBounded`, `ImplementsReads`. No reader goes back because the cache is ahead
  of every body that was handed out (`CacheAhead`), a body on its way is ahead of both
  (`FlightAhead`), and no getter holds, or waits for, a body older than what it has to beat
  (`Floors`). `Calls` says that the call in flight belongs to one running leader, which is
  `SingleFlight`; without it a second body could be on its way. `DataAges` splits the bound on
  the age into what the budget and what the TTL allow.
* **`TokenRenewalProofs`**: `TokensTypeCorrect`, `TokenRenewedOnce`, `SessionHoldsNewestPair`,
  `ExpiryIsNotSelfMade`. `Mutex` gives the pair one writer; `Exchange` says that the token
  posted is the one the session still has until `SetTokens`; `Counted` that no newer token
  has been posted; `Refusals` that a retry uses another token than the one refused.
* **`InventoryCacheProofs`**: `InventoryTypeCorrect`, `InventoryIsWhole`,
  `DroppedNeverServed`, `BarComesToRest`, `EstimateGrows`. `Reading` ties what a build has read to
  the point it has reached; `Numbering` says that a build that is not stored has a number of
  its own that nobody has seen or dropped, so that a drop is for good; `AtRest` is
  `BarNeverStuck` before `InventoryProgress` looks at the inventory. The estimate needs some
  lemmas about `\div` and the weights of the stages.
* **`RestorePointPagingProofs`**: `PagingTypeCorrect`, `TimelineOfSelection`,
  `TimelineInPlace`, `TimelineIsWhole`. `OneRequest`: the running load has one request, for the
  position that comes next; all others are older than `loadSeq`. `TimelineIsWhole` needs `WInv`:
  lists with one number are one list (`Copies`), which is the one whose length is `total` when the
  pages came from one (`OneList`); nobody replaces the list of a load that began alone
  (`Alone`); and a load ends where its list ends (`Ended`).
* **`LinksAndRetentionProofs`**, first part: `LinksTypeCorrect`, `LinksAreTrue`,
  `LinkedWorkloadsAreFound`, `NothingElseIsLost`, for any
  sequence of backups, any claims and catalog. `Grounded` says that every link before the fallback
  is of a backup that holds the workload, `Mutual` that both sides know of it, `Complete` that each
  backup behind `at` has failed or linked all it was told: a workload the fallback takes up is
  therefore in no backup that could be read. `Traced` says where `objectBackup` has its value from.
  `LinkedWorkloadsAreFound` adds `Found`: an object of a workload that no two jobs share stays with
  the backup that linked it, since no other backup can take it over. `NothingElseIsLost` adds what
  `repos` holds after each of its calls (`Repos`); `AddedHasAll` says what the loop that appends the
  ids not seen before leaves: all of both lists, each once.
* **`LinksAndRetentionProofs`**, second part: `RetentionTypeCorrect`, `GapsAreAccountedFor`,
  `CoveredPointsAreUnexpired`, `GapsStay`, for any calendar, policies, points and moments. State is
  nothing here; the work is the calendar. `MonthsGrow` and `MonthFound` make `Month` a function
  that does not decrease, `MonthsBack` says what `time.AddDate` makes of some months back (the month
  meant, or the next one when the day runs over, which it does not up to the 28th), `YearsBack`
  the same of years. So `shift` leads as many periods back as it is told (`PeriodBefore`), the
  expected periods are the last `Keep` ones (`PeriodsCovered`), and a date that is pushed out of its
  month only gets later (`LaterMonthIsLater`), which keeps `expiry` on the safe side. That a point which does not count for a
  period has another tier first is the choice of `GFS`, the least index that is not `None`.
* **`CollectionsAndDetailProofs`**, first part: `DetailTypeCorrect`, `ChainIsOne`, `VerdictIsQuoted`,
  `LoadingEnds`, `OnlyLangMixes`, `DetailTellsTheTruth`, for any points, chains, tasks and number of
  requests. The inductive invariant has three parts that meet only in the answer. VBR: each
  point there is has a full of its chain that is not later (`Rooted`), which `Make` keeps because a
  point still to be made has its chain or its full ahead (`Ready`), and `Retire` because the next
  point takes the blocks over. Requests: the workload that was found is that of the point
  unless its file names several (`Asks`), and `steady` is there, with `fleeting` it is all there is
  (`Reads`). The console: a selection without a detail has a request under way (`Pane`), so what
  setLang draws again may be "loading" too. `ChainIs` reads off the code's loops what `OneChain`
  says of any list. `steady` stays what VBR has when a list is joined, because it is the other
  request's; file rows are of any age (`FileRowsAre`, `IdsAre`) and enter no chain but that of a
  file. For an undisturbed list of a backup with a job `ChainIsThatOfVBR` shows that the last full of the
  job before the point is its base, since a full in between would be of the same backup, and
  that up to the next full of the job nothing is of another backup.
* **`CollectionsAndDetailProofs`**, second part: `CollectionsTypeCorrect`, `MissedOnlyByRemoval`, `DoubledOnlyByInsertion`, for
  any page size and any number of changes. `Place` compares the position of an item in the state read
  last with `skip`: before an item is read it is behind `skip` if nothing before it went, after that
  at or before `skip` if nothing came. That positions move so is a lemma about the cardinality of
  the items before one (`Before`).
* **`RestorePointsProofs`**: `RestorePointsTypeCorrect`, `RowsAreOfPivot`, `OnlyTheFailedIsMissing`, for any
  inventory, order of answers and number of lanes. `Origin` gives each row its source: a point of a
  backup that was seen, or a file of one that was not, which is why none is shown both ways
  (`Once`). `Gained` says that an answer has what was there all the time, `Merging` that it is merged
  or still to be.
* **`ConsoleProofs`**: `ConsoleTypeCorrect`, `FormShownWithoutSession`, `RowsAreOfSelection`,
  `OnlyLateInventory`, `SessionsForgottenOnlyByLoss`, `LoadingEndsButForRefresh`, and `SelectionIsOfPivot`
  (the selection leaves the kind of the pivot only when a connection selects a job under the old
  pivot, or when a list is missing), for any number of sessions and of clicks that wait. `Holds`
  follows the session a running `doConnect` needs; `OwnRows` adds to `RowsOfSelection` that the loop asks
  its pages of the session whose inventory is shown; `OwnRail` that a click on an item selects one
  of the pivot.

Each invariant `IInv` is proved by one lemma or step per action.

Only model-checked: all liveness (`EveryGetReturns`, `EveryFetchEnds`, `EveryLoadReturns`,
`EveryCallReturns`, `EveryLoadSettles`), since fairness and `ENABLED` are beyond this prover. Every
other property of a run that passes is a theorem.

The induction rules of the library take a predicate as a parameter, which the installed provers
cannot instantiate. Where a fact needs an induction (the months of a calendar, the members of
a list one by one), it is made with `LeastNatural` instead: a set of naturals that has a member
has a least one, here the first counterexample. It rests on the well-foundedness of the
inclusion of finite sets and stands in both modules that need it. That the recursive
function of `Added` exists at all is proved so too (`GrownExists`). No module declares a
recursive operator.

## 5. What the documents say and no run is about

Noticed while modelling, besides the two runs above:

* `README.md:93` says that `inventory/refresh` *drops the cached inventory and reloads it*. A build
  that began before a refresh stores its inventory afterwards (`inventory.go:70`), and the reload
  itself may find and return it. What does hold is `RefreshDrops`.
* `handlers.go:196` says that the list of a selection is *calculated once* and kept for the
  following pages. The first page of an abandoned load of the same selection replaces it under the
  running load, which then shows pages of two lists; `WholeList` says when this cannot happen.
* `restorepoints.go:125-131` says that files are shown for plug-in backups, which publish no restore
  points. The code tells them by having seen no point (`:133`), which is also so when the call for
  the object of an ordinary backup failed: its files are then shown as points of their own.
* A refresh that fails leaves the loading view on the screen; only disconnect is left
  (`index.html:590`). A connection after a disconnect keeps the pivot and selects a job under it
  (`index.html:556`).
* A refresh or a connection that is overtaken by a disconnect shows its inventory without a
  session, under the connect form (`index.html:553`, `:590`).
* `session.go:37-38` promises one request per path for parallel GETs that miss the cache
  together. `Get` looks at the cache before `joinOrLead` and not again when it has become
  the leader (`client.go:160`, `:170`), so a getter that was overtaken by a whole exchange
  asks again. `SingleFlight` and `NoGoingBack` hold all the same.
* `client.go:137` speaks of a fallback when the fetch *times out*; the code falls back after
  any error (`client.go:180`).
* `client.go:103` promises one renewal for many parallel 401s. That holds of grants that
  succeed (`RenewedOnce`); when one fails, every waiter posts it again.
* `client.go:122` reports *Session expired* also when only the grant failed and VBR still
  accepts the access token.
* `inventory.go:29` says the progress is *done* once an inventory is loaded; after two
  overlapping loads it may be the *error* of the one that failed.
* `detail.go:18` calls `needed` the files to read to restore the point, and the pane says
  *Restoring this point reads {f} file(s)* (`index.html:425`). When the history could not be
  read or the workload of the point is not known, the answer is one file, also for an
  increment; nothing on the pane tells (`detail.go:67`).
* The same `needed` counts files of other backups when the backup has no job. Such backups
  share the empty `JobID` (`inventory.go:212`, `:219`), by which a chain is told apart (`detail.go:73`): when
  two of one workload take turns, their points are cut into chains together, and the full of a point's
  own backup may be left out. The points of the instance of `Detail` do so; `DetailIsTrue`
  claims nothing of such a chain, `OneChain` what is left.
* `detail.go:19` calls the locations *the same data*. They are any points of the workload
  of another job within 18 hours, so that two daily points claim the same copy; and through
  the files of a shared backup that has no points of the workload left, they may be of
  another workload (the rows with `file` that `OneChain` leaves out). Those files may be a copy of half
  an hour ago, of points that are gone. Backups without a job are never locations of one another.
* `client.go:144` says that restore points are not cached, *what the user wants to see fresh*. A
  request that joins the exchange of another gets what VBR may have answered before it was made.
  `DetailIsTrue` counts from that answer.
* Two clicks on the same point may be answered in the other order: `selectRp` looks at the
  point, not at the click, and an error of the first hides the answer of the second.
* `retention.go:33` calls the missing periods *expected periods without a GFS point*. `gfsPeriods` is an
  array (`docs/API-MAPPING.md:27`, `:50`), of which the code keeps the first entry that is not `None`
  (`restorepoints.go:229-235`, `:310-318`): a point marked `Weekly` and `Monthly` counts for its week only,
  and its month is shown as missing. So is the period of a point whose file could not be read
  (`restorepoints.go:109`). `GapsAccountedFor` says that there is no other way.
* `retention.go:43` says `noPolicy` means that no job has a policy; it is also true of a job
  with a policy and no point yet, and the console then shows no missing periods.
* `retention.go:24` says negative days mean *expired*; in the first day they are 0.

## 6. What is not modelled, and the plan

Left out for good: drawing, translations, the demo data (invented answers that stand for VBR),
diagnostics (a report over the other components), the ring of traced calls that it prints,
program start, build; of `aaip.go` the keywords that tell a line about the guest; of
`inventory.go` the texts made of a job's configuration; dates in several zones
(`detail.go:77`, `retention.go:145`), since neither the code nor its tests fix what VBR sends; that
a follower of a call gets the error of its leader when the leader's client goes away
(`client.go:176`), against which no document speaks.

Still open, in this order:

1. Compositions, with their refinements proved: `TokenRenewal` inside `RestGet`, so that an
   exchange of `RestGet` is a fetch; `RestorePoints` over `Collections`, so that `Answered` is a
   theorem about pages.
2. An abstract timeline that `RestorePointPaging` implements, which puts `OneSelection`, `InPlace` and
   `WholeList` into one specification.
3. The retention view of the console with its `retSeq`.

## 7. Running

    tlc -workers 2 -config RestGet.cfg RestGet     # any run: its cfg and module (PROJECT.json)
    tlapm RestGetProofs.tla                                  # any proof module
