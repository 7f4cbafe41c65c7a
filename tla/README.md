# Formal model of money-management-api

TLA+ modules, TLC configurations and TLAPS proofs about the Rust API in `src/`.
The API keeps a user's money in Postgres: accounts, income, expenses,
transfers, budgets and the templates they recur from. Several replicas serve
requests; each caches what it reads per user, and each runs a daily job that
turns templates into rows, credits interest and freezes closed pay periods.

Run `tlc -config <run>.cfg <MC module>` and `tlapm <module>Proofs.tla` in this
directory.

## Inventory

| Part | Code | State | Operations | Hard behaviour |
|---|---|---|---|---|
| user data cache | `cache/`, `routes/helpers.rs`, `repos/settings.rs` | per replica: the settings row (with `cache_revision`), and entries keyed by revision | read through, insert, evict, expire; `finish_write` after every commit | reads racing writes and evictions, other replicas, request timeouts |
| daily job | `jobs/daily_expenses.rs` | a session advisory lock, the pass in memory | wake, lock, per user: charge, accrue, remind, freeze; unlock | overlapping replicas, crashes, one step of one user failing |
| materialization | `services/charge_due_*.rs`, template repos | templates, rows with one slot per occurrence, tombstones | charge, edit and delete templates, archive an account, delete a row, pay early | snapshots held for a whole step, repeats, unique indexes as the last line |
| accounts and interest | `routes/accounts.rs`, `services/accrue_interest.rs` | account: rate, cursor, carry; credits | create, update, archive; accrue day by day | read in one transaction, written in another; aborted passes; whole units and a carry |
| projection history | `services/projection_history.rs` | one frozen row per closed period | `sync_history`: Append, From, Rebuild; clear | overlapping syncs with inputs of different times, failed syncs, client and server calendars |
| budgets | `routes/budgets.rs`, `repos/budgets.rs` | budgets, their expenses | create, update, delete, complete; add and remove expenses | checks and writes in separate transactions; which date to re-freeze from |
| projection kernel | `services/projections.rs`, `expense_period.rs` | none | pure functions of rows | double counting of an occurrence and its row; several computations of the same money |
| pay periods | `services/pay_periods.rs` | none | occurrences, periods | month ends, leap days, tiling |
| exchange rates | `services/exchange_rates.rs`, `fx_memory.rs` | memory and snapshot table, refresh lock | get, force refresh | one reload for many waiters, connections held across a wait, failing upstream |
| authentication | `auth/`, `repos/users.rs` | signing keys, last refresh, users known and onboarded | validate, refresh, make sure of the user's row, find it onboarded | key rotation, one fetch for many waiters, lookups skipped for what was seen once |
| connection context | `repos/connection.rs`, `state.rs` | `app.user_id`, `app.is_admin` of a pooled session | check out as user, admin, nobody | context left by an earlier checkout, statements of a dropped request still on their way |
| reminders | `services/subscription_reminders.rs`, `repos/` of the same name | reminder rows | generate, list, dismiss | due on one day only, passes that repeat a day or run past midnight |
| reports | `services/reports.rs` | none | totals, time series, prior range | ranges cut into buckets at both ends |
| tags, savings, settings, HTTP shell | the rest of `routes/`, `services/`, `repos/` | | mostly single statements and pure functions | |

The parts meet in few places. A write commits its rows and a bump of
`cache_revision` in one transaction, then `finish_write` refreshes the frozen
rows and evicts the settings row of its own replica. The job writes the same
tables without `finish_write`, bumps the revision at the end of each step and
evicts its replica's settings row. Reads take the revision from the settings
row and use it as the key of everything else. Freezing and live projections
share one kernel. Before any of that, a request passes the token check and the
lookup of its user, and every query, of requests and jobs alike, runs on a
pooled connection whose settings say whose rows it may see.

What makes each part correct:

* cache: an entry is never older than the revision in its key; reads converge
  to the last write on every replica; what a failed step left unpublished is
  shown once the entries that lack it expire.
* job and materialization: one pass at a time; one row per occurrence for ever;
  nothing that fell due is skipped, whatever failed or crashed.
* interest: every day accrues exactly once, none before interest was turned on;
  credits and carry add up.
* history: frozen rows are continuous, equal to a live computation, of closed
  periods only, and every closed period gets frozen.
* budgets: spending is in the budget's currency, expenses keep their budget, a
  completed budget is closed, every change re-freezes from far enough back.
* authentication: a good token is not refused because the keys are being
  replaced; a handler runs only for a user who is there and onboarded.
* connection context: a query runs with its sender's identity and no other.
* reminders: one per charge and kind, in time, true when listed, and dismissed
  for good.
* reports: totals are those of the rows, and buckets and totals agree.

## Modules

Every module keeps the code's order of transactions and awaits: where the code
awaits, another process may step. A process is a record with a `pc` and the
values it has read. Faults are named in a `Faults` constant, and clocks, edits
and faults are bounded by named constants.

Where the code withstands some disturbances and not others, a history variable
records what has happened (`raced` in Budgets, `upsets` in InterestAccrual,
`missed` and `overlapped` in ProjectionHistory, `aborted` in UserDataCache) and
each property names the disturbance that can break it. All interleavings are
explored in one run, and a property is not weakened by what does not touch it: a
budget's spending, for instance, is in the budget's currency whatever races, as
long as no update does.

Such an exception is usually the very failure that the property is about, and
then the property says less than its name. `RowsArePublished` excepts failed
steps, `SpendInBudgetCurrency` and `ExpensesKeepTheirBudget` the races between a
check and a write of two requests, `CompletedIsClosed` the requests that read
the budget before it was completed, `ListedAreTrue` edits after the load: the
code lets these through. What the properties show there is that nothing else
does, over any sequence of the other requests, and their hazards say so.

### UserDataCache

`settings` and `entries` are the moka caches, `revision` is
`user_settings.cache_revision`, `published[r]` what revision r stands for,
`frozen` the newest write the frozen rows know of. A reader goes through
`UserDataLoader`: settings row, lookup by revision, load, insert. A writer
commits (`CommitWrite`) and runs `finish_write` step by step; the job commits
single rows (`JobInsert`), bumps at `EndStep`, and syncs. `TimeoutWrite` and
`TimeoutRead` are the 503 layer of `app.rs`, which drops the handler's future.
`ReadReplicas` and `JobReplicas` say which replicas serve reads and run the job.

### Materialization

An occurrence is a template and a due day. `rows` holds what records it, live
or tombstone; the unique indexes are `Occupied`. `pass[p]` is the scheduler of
replica p with the snapshot of templates of its current step. `SaveTemplate`
stands for create, update and the cancel-reminder switch, which all set
`updated_at`. An early payment checks in one step and inserts in another, for
any day its route accepts as the date it was paid.
A charged recurring expense cannot be deleted, so `DeleteRow` is for income and
transfers.

### InterestAccrual

`account[a]` has the columns interest depends on. A pass loads the accounts
once and commits one day per transaction, guarded by the cursor it started
from. `since`, `times` and `earned` are history: what should have accrued and
what has. `upsets` notes a request that overlapped a pass, midnight or another
request ("overlap"), a gap between passes longer than the catch-up window
("late": days beyond it are lost by design), a cursor that an update wrote back ("rewound"), and one that an
update wrote back over a time in which interest was off ("revived": it read the
row before another update turned interest off and on again, and its older cursor
makes those days accrue).

### ProjectionHistory

Periods are numbered and equally long, the kernel is the sum of a period's
amounts, and `sync_history` is four steps: load inputs, list the frozen rows,
DELETE, INSERT with commit. Under READ COMMITTED a row another sync commits
after the DELETE began survives it (the process's `raced`), and ON CONFLICT DO
NOTHING keeps it.

A pass of the job commits rows one at a time (`JobCharges`); the step they
belong to reports them when it ends (`StepEnds`), and one that fails after a row
counts as 0 (`StepFails`), so that the pass may append although it has put rows
into a frozen period. A pass can also die anywhere (`PassDies`), and a handler
be dropped anywhere (`Timeout`). Either may leave frozen rows wrong: `Owes` is
the first day a process has made wrong and not replaced yet, and `missed` keeps
the earliest day that nobody is going to replace any more, until a sync or a
clear reaches back as far. `overlapped` is whether two processes have ever been
at work together.

### Budgets

One process per request, one step per transaction. `Lines` and `OwnItems` say
what a projection shows of a budget on a day; a frozen day whose content
changes is `dirty` until a `finish_write` from that day or an earlier one.
`Tick` also makes days dirty when a line changes with the calendar alone.
A day is taken as frozen once it lies before yesterday, the earliest a period
ending on it can be frozen. `raced` has the kinds of request that were under
way together.

### ExchangeRates

`memory` is `FX_MEMORY`, `saved` the latest snapshot of the table, `lock` the
`REFRESH_LOCK`; rates are told apart by the time they were fetched at. A request
looks at memory, waits for the lock, looks again, checks out a connection, reads
the snapshot, calls the upstream, checks out again, saves, publishes.
`FreeConnections` counts the connections of the pool. A "holding" request is
`load_projection_inputs`, which asks for rates with its own connection checked
out: it may wait for the lock while the lock's holder waits for a connection,
and only the pool's checkout timeout (`CheckoutTimeout`) undoes the knot. The
comment at `exchange_rates.rs:95`, that a slow upstream cannot pin a pooled
connection, is true of the reload's own connection, not of that one.

### PayPeriods

Schedules, occurrences and pay periods as functions on day numbers. The
calendar is a constant, the first day of every month, so nothing here depends
on which years TLC looks at. A list of dates in increasing order is the set of
its dates. The grid of pay dates extends before the schedule's first date and
periods are cut from it; occurrences begin at the first date. What the grid is
(`OnGrid`), that a list of periods tiles the days from one date to another
(`Tile`), and how far a calendar reaches for a schedule (`Reaches`) are stated
here without the stepping, for the properties and the theorems.

### Projections

What one user's projection shows, and everything that is computed from the same
rows: the items of a period, the expenses tab, account balances, what may be
paid early, and the rows that continue a frozen period. A row records an
occurrence, the payment of the one-time expense, spending on the budget, or is
entered by hand, and keeps
its slot when it is deleted or voided. `BuildRows` is `build_projection_rows`;
its rows carry their items, as those are what must not be counted twice.
Transactions and their races are in the modules above, so a request is one
step here. `touched` is the day a step asks to re-freeze history from: the
property `RefreezeReachesFarEnough` compares what a frozen period would hold
before and after each step, instead of keeping frozen rows. The job's step
charges one occurrence of its window and succeeds; the order of charges is in
Materialization, and what a step that fails half-way leaves frozen is in
ProjectionHistory.

An occurrence, a payment or a row counts once; budgets without dates are in
Budgets, conversion between currencies is left out (all money is in one), and
of template edits only a last payment date and a deletion are modelled.
`BalancesAgree` compares two computations that differ by design in a few things,
which its hypotheses name: the opening period shows no income
(`projections.rs:265`); a budget's spending is taken off on its last day, so the
budget and what is spent on it lie on one side of the day looked at, within the
projection and on counted accounts; and a row without an account is in the
projection and in no balance.

### Reports

`services/reports.rs` over the rows and pay periods of Projections, which it
extends: the validation of a range, the range before it, the choice of days,
weeks or months, their cuts at both ends, the totals, the spending beyond plan.
A report is a function of the rows, so the module adds operators and no action.
`ReportsAddUp` compares its parts with each other in every state of the
`projections` run, and is proved for every instance.

### SigningKeys

The sets of keys that Supabase publishes are numbered in their order (`KeySets`);
`keys` is the one in memory, `fetching` the holder of the mutex of
`last_refresh`. A request looks its key up, looks again when the check has
failed, waits for the mutex, fetches unless a fetch began less than `Interval`
ago, replaces the map, and looks a last time. A failed fetch counts for the
interval and leaves the map alone. `InitLock` and `InitStore` are the fetch of a
process that starts. `since` is history: the set in memory when the token came.

### ConnectionContext

`sent[c]` holds the statements on their way to connection c's server process,
which executes them in order; `session[p]` is how far the checkout of client p
is. A checkout sends one statement that sets the context, waits for it, and
sends its queries one at a time. A client may be dropped at any await (`Drop`)
and its connection handed to another at once, as the pool recycles without a
check (`state.rs:42`); what it has sent stays sent.

### RequestPath

The composition of SigningKeys and ConnectionContext: `auth/middleware.rs` and
the queries of `repos/users.rs` between the token and the handler. Each of its
steps is a step of one of the two, or of none, conjoined with what the
middleware does with the outcome; a dropped request gives back its place at the
keys and its connection together, and a restart ends both. `rows` is the table
of users, changed and read when the server executes a query, under the policies
of row-level security (`Visible`); `known_users` and `onboarded_users` are the
replica's sets of the same names. A request that completes the onboarding and a
protected one differ in what they ask. The job is one more client, with the
administrator's identity.

### Reminders

The reminders step of a pass, for one user: it takes the day the pass began on,
loads the subscriptions once, and records what is due on that day. Passes begin
at any time, and again on the same day, and may be cut short anywhere; the
clock runs on while they do. `saves` numbers a template's edits and a
reminder's `of` is the edit it was made from; both are history. Schedules and
occurrences are PayPeriods'.

### Abstract specifications

* `ReloadedCopy`: what a replica promises of a value it keeps a copy of: one
  reload at a time, only its holder replaces the copy, never by an older value
  and never by one that is not kept elsewhere. ExchangeRates implements it
  (`ImplementsReloadedCopy`: `kept` is the table, `copy` the memory) and so
  does SigningKeys (`KeysImplementReloadedCopy`: `kept` is what Supabase
  publishes).
* `SlotTable`: what a table with a unique index over live and deleted rows
  promises: a slot is filled once and what it holds is closed for good. The rows
  of Materialization implement it (`RowsFillSlots`: a slot is a template and a
  due day) and so do the reminders (`RemindersFillSlots`: a subscription, a
  charge day and a kind).

Each of these is a property of a run and a theorem.

* `CompoundInterest`: what interest promises: the days of an account are taken
  in order, each once, and a day adds the rate on what the account holds in
  whole units; an edit takes nothing earned away and starts on no day that has
  earned. InterestAccrual implements it as long as nothing is upset
  (`CompoundsDaily`, a theorem only; the book of an account is what cursor, carry
  and credits amount to): that a pass loads accounts once, reads a balance and
  commits in separate steps, may be cut short after any day, and credits whole
  units with a carry makes no difference.

### Proof modules

`UserDataCacheProofs`, `MaterializationProofs`, `InterestAccrualProofs`,
`ProjectionHistoryProofs` and `BudgetsProofs` are each about one module;
`RequestPathProofs` is about RequestPath with its two parts, SigningKeys and
ConnectionContext, and about ExchangeRates, which requests share;
`ScheduleProofs` is about Reminders and PayPeriods, and `ProjectionsProofs`,
which rests on it, about Projections and Reports; see below.

## Runs

Passing runs:

| Run | Instance | Shows |
|---|---|---|
| `cache_races` | a reader of a view and its list, a writer, the job with one charge step, two commits | against timeouts, expiry, failed steps and syncs, and crashes: no entry is older than the revision in its key (`EntriesCoverTheirRevision`); rows are published unless a step was cut short (`RowsArePublished`), and then they are shown when the entries that lack them have expired (`UnpublishedRowsAppear`) |
| `cache_converge` | two replicas, reads on one, a write on either | the settings row and the projections converge to the last write, also where the write's eviction does not reach and when a re-freeze fails |
| `mat_passes` | two replicas, two users, two templates, an edit, a crash or failed step | a finished pass has settled its window (`PassCatchesUp`); a charge is of an occurrence its template calls for, unless the template changed after it was loaded (`ChargesFollowTemplates`) |
| `mat_rows` | two replicas, two templates, early payment, deleted rows, two crashes or lost lock sessions | the rows are a table of slots though passes overlap (`RowsFillSlots`); what falls due is recorded in the end |
| `interest_days` | two accounts, two edits, an aborted pass, clients a day off | which days accrue and how often, credits and carry add up, nothing is backfilled, cursors catch up |
| `history_syncs` | two periods of two days, a handler and the job, a catch-up window of two days, two changes, two failures | frozen rows are of closed periods only; without an overlap they are continuous, complete in the end, and equal to a live computation but for the periods whose re-freeze was missed |
| `budget_requests` | two requests of any of seven kinds on a budget and an expense, two currencies, four days | re-freezing follows every sequence of requests; spending, expenses and completed budgets hold unless the named pair of kinds raced |
| `rates_requests` | three requests on a pool of two, rates that age, a failing upstream, restarts, another replica | a reload is never repeated by who waited for it; the refresh implements `ReloadedCopy` (`ImplementsReloadedCopy`); every request ends |
| `requests` | two requests of two users, a job, one connection, a rotation of two keys, every fault | no good token is refused while keys are replaced; every query runs as its sender; handlers run for onboarded users only; the keys implement `ReloadedCopy` |
| `reminders` | a subscription, two weekly schedules of which one ends, thirteen days, four edits, a pass cut short | a completed step has recorded what was due on its day (`RemindedInTime`); what is listed will be charged (`ListedAreTrue`); the reminders are a table of slots |
| `projections` | six setups around month ends, leap days and paydays, each over a day or two and a request or two | occurrences and periods are those a definition day by day gives; each counts once, through charge, early payment, voiding and deletion; frozen and live rows, a period's items, the expenses tab, account balances, what may be paid early and reports agree; every handler re-freezes from early enough; a charge does not change the total |

Runs that find a violation, each a finding in `PROJECT.json` with the sentence
of the code it contradicts:

| Run | Finds |
|---|---|
| `cache_stale_projection` | a projection read that takes the new settings row between a write's commit and its re-freeze caches stale frozen rows under the new revision |

Three more findings are the exceptions of passing runs:

* An account update writes back the cursor it read over the days a pass has
  credited meanwhile, and those accrue again. `InterestConserved` (run
  `interest_days`) leaves out exactly the behaviours in which that has happened
  ("rewound"), and `NothingBackfilled` those in which the cursor was written back
  over a time without interest ("revived").
* A charge step that fails after it has committed rows counts as 0, so the pass
  appends and frozen periods keep rows without the charge; no later pass
  repairs them, although the job says that each step heals itself on the next
  run. `FrozenEqualsLive` (run `history_syncs`) excepts the periods missed.
* The same step publishes nothing, so entries that lack its rows stay under the
  current revision and are served, although the cache says that entries are
  never stale and that their time to live is about memory only.
  `UnpublishedRowsAppear` (run `cache_races`) says that it is what ends this; a
  view built from a stale list can outlive the list by its own time to live.

Two more places where the code does not do what one might expect are hazards
without a property: two accounts can archive each other, as the count of active
accounts and the archive are separate transactions (`routes/accounts.rs:173`);
and completing an undated budget whose first expense lies in the future leaves
its start after its end (`repos/budgets.rs:339`).

### Bounds

One or two processes of each kind are enough for every hazard listed: each is
about one actor's read and write around one step of another. Two writes or
changes let a second write meet what the first left behind. Clocks run for a
window and one to three days, so that a pass can be missed and caught up, a
period can close and be frozen, an occurrence can leave the window and a rate
can outlive its time to live. Amounts are small but cross the unit: interest
has a carry that overflows. Three requests and two connections let the pool be
used up by requests that hold a connection while a third has the lock.
`cache_converge` allows one write, as convergence is about what one write
leaves behind; `cache_races` allows two, and its job's window does not reach the
closed period, whose rows the reader of a list does not look at.
`history_syncs` has a catch-up window as long as a period: a shorter one cannot
charge a day of a period that is frozen, and a failed step would have nothing to
leave behind. Two failures let a step fail and then a sync. Liveness runs use no symmetry.
`CHECK_DEADLOCK FALSE` appears in the runs of budgets, projections, reminders
and requests only, where requests, days, edits or faults run out; the other
modules always have a step left, which TLC checks.

`requests` has one connection, so that every checkout follows someone else's,
and up to two statements on their way (`MaxSent`): one left by a dropped client
and one of its successor. The token check and the queries share nothing but the
request, so the constraint `Apart` explores them apart: either nobody has got
past the token check, or the keys have settled and the users' rows, queries and
connections move. Requests and users are symmetric. Both halves together are
covered by the theorems, which need neither bound nor constraint. `reminders`
runs over thirteen days, in which the reminders of either kind for two charges
of the weekly schedules fall due, one of them at a last payment date.

`projections` starts from setups (`Setups` in MCProjections) chosen for the
dates where stepping can go wrong: the 29th to the 31st around a leap day and
in a common year, weekly and two-weekly periods across a month end, a yearly
schedule from 29 February, a start inside a period, a period closed before
yesterday, a schedule with a last payment date. They also cover every exclusion of two
accounts, a pinned account, an overdue one-time expense and a budget that ends
across a period's end. Each says how many days pass and requests come; one
request of any kind meets every row of the setup, and in one setup a second
request meets what the first left. Rows are entered by hand on three days
around today (`ManualDays`), at most one of a kind on an account and a day,
and occurrences are compared `LookAhead` days ahead, over a month end. The
calendar runs from January 2027 to the end of 2034, two leap days.

### Fairness

Weak fairness on the steps of a handler that has begun (tokio polls it to its
end), on the job's loop and on the clock, on a cached row's time to live, and
on the restart of a dead replica (the platform's policy). A step of a request
for rates may be the pool's or the upstream client's timeout, which are timers
of their own; taking `REFRESH_LOCK` is strongly fair, as tokio's mutex serves
its waiters in order. Never is a client's request, an edit, a fault or a crash
fair. `mat_rows` also assumes that a pass ends before the next half day
(`ShortPasses`): a pass of hours would be needed to break it.

## Proofs

All proofs are for every value of the constants that satisfies the module's
named ASSUME.

* **Cache** (`CacheInvariant`). `EntriesCoverTheirRevision` is not inductive: a
  reader in flight carries data that becomes an entry later. `CacheInv` adds
  that the revisions known to readers and caches exist, that what a reader
  carries covers its revision, that `published` grows with the rows, and that
  rows the job has created in a step still running are the only unpublished
  ones. `TypeCorrect`, `EntriesCover` and `RowsPublished` follow.
* **Materialization**. `OneRow` is inductive with type correctness: every insert
  looks at the slot in the same transaction, so neither the lock nor the
  snapshot matters. `LockExclusion` strengthens mutual exclusion to "who runs
  holds the lock" and assumes that no session is lost. `CatchesUp` is the long
  one: `PassesProgress` splits a pass by users, steps, days and templates that
  are done, and each action keeps each part, using that rows are never removed
  from a slot. `RowsImplementSlots` maps every step to filling a slot, closing
  one, or a stutter. `ChargesFollow` adds to the invariant that what a step
  has left to charge on its day was due by the templates it loaded
  (`LeftIsDue`).
* **Exchange rates** (`RatesInv`). "Memory never goes back" needs to know
  what a request carries: from the snapshot it read until its answer is in
  memory, memory is not ahead of its rates (`Carries`), because only the
  holder of the lock writes memory (`OneReloadAtATime`) and memory is never
  ahead of the table (`MemoryIsSaved`). `NeverGoesBack`, `StaleOnlyOnFailure`
  and the refinement `RatesImplementCopy` are proved from that invariant.
* **Signing keys** (`KeysInv`). A refused token is blamed on a set published
  since it arrived (`AgainOnlyIfLacked`); that holds through the refresh because
  the keys in memory never go back behind those a request has found
  (`KeysSinceArrival`), a fetched set is at least as new as memory
  (`FetchedIsNewer`), and only the holder of the lock has one (`OneRefresher`).
  `StableKeys` and `KeysImplementCopy` follow.
* **Connections** (`PoolInv`). On a connection only the next statement can be a
  query, and then the settings are its sender's (`QueriesAreNext`): a client
  waits for the answer of what it sent last (`WaitsForLast`), and has the
  connection to itself when it sends a query (`AloneWhenServed`), since the
  statement that set its context was executed after everything before it.
  That a new owner's statement queues behind a dropped client's query is what
  makes recycling without a check safe.
* **The way of a request**. `PathChecksTokens` and `PathSharesPool` prove that
  the composition implements each of its parts, so that what is proved of the
  keys and of the connections holds of it (`RequestsAreSafe`), by temporal logic
  alone. `OnboardedOnly` needs what a request has found out about its user's
  row at each stage (`RequestHas`), which in turn rests on `PoolInv`: a query
  that is served was executed with its user's settings.
* **Budgets** (`BudgetsInv`). A request checks in one transaction and writes in
  another, so the invariant says for each stage what a request knows (`Knows`:
  the budget's currency and dates as it read them, unless a kind of request that
  can change them has run meanwhile) and that what it will re-freeze covers what
  is dirty (`Holds`). `Overlap` ties `raced` to the requests under way.
  `SpendCurrency`, `ExpensesKept`, `CompletedClosed` and `HistoryFollowsWrites`
  follow, each but for the named race. A budget is on some day (`LastDay` is at
  least 1) and "none" is not an id.
* **Interest** (`InterestInv`). Four parts, each inductive with the rows' types.
  No cursor lies before the day interest was turned on, nor does what a request
  or pass would write (`CursorsReach`); the credits of a pass are those of the
  days between its cursor and the account's (`CreditsReach`, `PassFollows`), so
  that credits and carry are what was earned; and without upsets one pass
  accrues at a time, in time, each day exactly once (`OnceInv`). `NoBackfill`,
  `AccruedOnce` and `Conservation` follow. The sums over days and credits change
  by one term at a step, which needs lemmas about sums but no induction.
  `InterestCompounds` and `ImplementsCompoundInterest` add that without an
  overlap the terms a pass has loaded are the account's (`TermsKept`): a
  committed day is then the next one, it earns the rate on all whole units
  credited so far, and these are what division makes of the account's worth
  (`WholeUnits`).
* **Projection history** (`HistoryInv`). As long as no two processes overlap, the
  frozen rows form a chain from the first on: each opens with the balance the
  one before closes with, also across what a sync has read and is about to
  insert (`ChainInv`). Rows of the periods before `missed`, and before what a
  process at work still owes (`Held`), are those of a live computation, and what
  a sync carries is what its inputs give (`AgreeInv`). A step that drops a
  process moves what it owes to `missed` (`MissHolds`), a commit that reaches
  back as far clears it, and a date before every frozen period owes nothing.
  `ClosedOnly`, `NoGaps` and `FrozenIsLive` follow.
* **Reminders**. `RemindersInv` is the unique index; with it
  `RemindersImplementSlots` maps every step to the table of slots.
  `ListingInvariant` adds what is true of a row and of a step's work
  (`RowsTrue`, `StepFollows`): a reminder not yet dismissed whose template was
  not edited since is for a charge that will come (`ListedTrue`), and a completed
  step has recorded everything due on its day (`RemindedWhenCompleted`).
* **The calendar**. `PayDatesAreOccurrences` and `OccursOnAgrees` say that the
  code's stepping from a first date gives the dates that a definition day by day
  gives (`Occurs`), month ends and leap days included; `ProjectionPeriodsTile`
  and `OverlappingPeriodsTile` that the periods cut from the grid are
  consecutive, without gap or overlap, that the first holds the start and that the last
  holds the horizon. The loops are recursive functions over the naturals, which
  the library shows to exist; what the provers lack in induction is replaced by
  the least counterexample, a set of naturals having a smallest member. These
  theorems are about any schedule and any calendar of months of 28 to 31 days.

* **Projections** (`ProjectionsInv`). Types, one row per occurrence and one
  payment of the one-time expense, and that the calendar holds what schedules are
  looked at on any day to come. With it what is proved of PayPeriods holds of a
  user's templates and range on every day (`TemplatesOccur`,
  `PeriodsOfProjectionTile`). `HistoryRefrozen` is about every step: a period
  that ended before yesterday shows its rows and the budget's line only
  (`PastIsRecorded`), so what a step changes, be it a row, the end of the budget
  or a pay period's place in the list, is compared with the date it re-freezes
  from. Paying early needs that the current pay period begins after every frozen
  one (`CurrentPeriodLater`), the next day that a list of periods that starts on
  the same day and reaches further keeps a past period (`StaysListed`), and that
  a line's sums do not tell a budget's planned line from its spent one
  (`SumsExchange`). Sums are folds in an order nobody knows; that such a fold
  exists, and that any element may be taken first (`TotalTake`), is proved from
  the well-foundedness of finite sets. What a projection shows is read off its
  rows: the row of a period lists what `ItemsIn` gives (`RowsShow`), an item is a
  row, the one-time expense, the budget's line or an occurrence that is due
  (`ComesFrom`), and the rows cover the days from the first to the last
  (`RowsCover`). `OffersAreTaken` follows; so does `OccurrencesShownOnce`, because
  two items with one slot are one (`SlotsOnce`), which is dated in one period
  (`SlotsDiffer`), and an occurrence that is due has an item in the row of its
  period (`DueIsShown`). `ChargedAsProjected` exchanges, in the items of one
  period, the projected occurrence for the row that records it (`ItemsAfter`),
  which has the same amount and the same side. `PeriodsOpened` shows that a list
  from a period's first day to its pay date is that period alone (`AloneListed`),
  and needs, for the expenses tab, that no row but income and transfers is ever
  a tombstone (`LiveRows`). `HistoryGoesOnLive` shows that the list from the day
  after a past period is the rest of the list (`RestListed`), that each line is
  then the same, and that balances that start from a row's go on as those of the
  whole do (`RunningRest`). `HeldAsProjected` compares two sums over the same
  rows in different orders: by periods, where a past period adds what its rows are
  worth less what its budget took (`PastLine`, and `CarriedOut` for the periods up
  to it), and by accounts, which is exchanged for a sum over rows of what each does
  to all accounts (`SumByRows`, `HeldSums`); a row is worth what it does, but for
  spending on the budget (`WorthIs`, `SpentWithin`). It needs that a transfer has
  two distinct accounts and nothing else has a second (`RoutedRows`).
* **Reports** (`ReportsAdd`). What a report cuts its range into are numbered,
  consecutive parts (`PartsNumbered`): days, weeks and months cut at both ends
  (`BucketsPart`), and the pay periods that overlap it (`CutPeriodsNumber`, from
  `OverlappingPeriodsTile`). The rows of such parts are those of the range, each
  in one (`PartsTotal`), so each sum over the parts is that over the range
  (`SeriesAddsUp`, `ExtrasAddUp`, `KpisAdd`). `RangesReached` is the invariant that
  the calendar holds every range asked for on every day to come.

Some theorems state what no run checks: the type invariants, mutual exclusion of
passes (`OnePassAtATime`), `StaleOnlyIfUpstreamFails`, and, implied by the
refinements that runs do check, `OneRowPerOccurrence`, `OneReloadAtATime`,
`MemoryIsSaved` and `MemoryNeverGoesBack`.

What the theorems assume beyond types: the calendar is a constant and ends
somewhere, so the dates concerned must lie before its end by what one step can
reach (`CalendarReaches` in Reminders, `ProjectionsReach` in Projections,
`ReportsReach` in Reports,
`Reaches` as a hypothesis of the lemmas about periods; chrono's calendar reaches
some 260 000 years). The setups of Projections are any that are typed and hold
one row per slot, with no tombstones but of income and transfers
(`ProjectionsAssumption`); there are finitely many accounts, and a transfer is
between two of them, as its table requires. That the last
period holds the horizon is proved where the bound on the number of periods
suffices: 5000 for a projection, 400 for a range, each more than six days long.

The leaves are proved by SMT and Zenon, the temporal steps by PTL.

Only model-checked: liveness under fairness (outside the prover:
`ReadsConverge`, `UnpublishedRowsAppear`, `EveryOccurrenceRecorded`,
`InterestCatchesUp`, `EveryPeriodFrozen`, `EveryRequestAnswered`), and the count of connections (the
last part of `TypeOK` in ExchangeRates). Every other property of a passing run
is also a theorem. Only proved: `CompoundsDaily`, beside the theorems above that
no run checks.

## Not modelled

* Currencies: conversion of amounts and the rounding that comes with it. All
  money is in one currency, except where a budget's is compared with its
  expenses'.
* The width of amounts: a credit beyond `i32` fails a user's interest step for
  good (`accrue_interest.rs:79`); the runs' amounts are small.
* Tags: labels set by single transactions. `repos/tags.rs` inserts the tags of
  a row in the order the client gave, so that two requests may lock them in
  opposite orders; Postgres breaks such a knot with an error.
* Savings, names, metadata of templates: single statements without state beyond
  their row.
* Totals per tag, and the split by subscription, of a report.
* Formatting, validation messages, CORS, rate limits, HTTP and TLS,
  configuration, DTOs and generated code. Of the HTTP shell the request
  timeout is modelled, wherever it can drop a handler.
* The rebuild script, an operator's one-off `sync_history` per user, which is
  `Rebuild` of ProjectionHistory.
* Which signature, audience or issuer a token has: a token is in order or not.
* Editing the amount of a row other than voiding it, transfers by hand, and the
  hour at which the scheduler wakes.

What the plan has left is a revisioned store that UserDataCache would implement.
