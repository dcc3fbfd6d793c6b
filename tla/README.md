# ILMS-IERP: specifications, model checks and proofs

This directory is a verification development for the ILMS-IERP repository: a
language institute's ERP (FastAPI, SQLAlchemy 2.0 async, PostgreSQL, Redis), a
student portal and their web frontends (Next.js). It has two halves. The first
models the part of the backend where money and seats change hands. The second
models the frontends: the HTTP client, the realtime channel, the enrollment
wizard and the pages of all three applications. Both are checked with TLC, and
every safety property that holds is proved with TLAPS. Paths below are relative to
the repository; `modules/` stands for `apps/erp/backend/app/modules/`, `erp/`
for `apps/erp/frontend/`, `portal/` for `apps/portal/frontend/`.

## 1. Inventory

### Components, their state and their operations

| Component | State | Operations that change it |
|---|---|---|
| Contract ledger (`lms/ledger_service.py`) | `teacher_wallets`, `ledger_entries`, `section_contracts` | record, assign, activate, finalize, settle, cancel, deactivate |
| Compensation amendments (`lms/compensation_service.py`) | `compensation_amendment_requests`, a contract's fee | request, approve, reject |
| Payments and expenses (`lms/financial_service.py`) | `payments`, `expenses`, document numbers | create_payment, create_expense, void_expense |
| Daily closure (`lms/closure_service.py`) | `daily_closures` | close_day, request_unlock, approve_unlock, reject_unlock |
| Cashier (`lms/cashier_service.py`) | `pending_refunds`, `refunds` | disburse_pending_refund, undo_refund |
| Staff payroll (`lms/staff_payroll_service.py`) | `expenses` of type salary_draw | process_salary_withdrawal |
| Enrollments (`academic/service.py`) | `course_sections.enrolled_count`, `enrollments` | create (with or without payment), delete |
| Unenrollment (`academic/unenrollment_service.py`) | enrollment, count, pending refund, audit rows | unenroll_student |
| Section cancellation (`academic/cancellation_service.py`) | section, contract, pending refunds | cancel_section |
| Section lifecycle (`academic/service.py`) | section and contract status | activate, complete, deactivate |
| HTTP clients (`erp/lib/api.ts`, `portal/lib/api.ts`) | retry marks of a request, `isRefreshing`, `refreshSubscribers`, cookies | interceptors, `refreshSession` |
| Realtime client (`erp/lib/events.ts`, `NotificationBell.tsx`) | the `EventSource`, timers, connection state, the badge | on, open, onerror, recoverAndReopen, poll |
| Enrollment wizard (`erp/components/wizards/`) | the reducer's form, `submitting`, the guard's `isDirty` | select, create, enroll, pay, leave |
| Pages (`erp/app`, `portal/app`, `apps/marketing/app`) | what was loaded, flags, error, dialogs, an offer to undo | loads and handlers, close to 70 pages and widgets |
| Realtime server (`modules/events/`) | Redis pub/sub, one stream per tab | publish, subscribe, recycle |
| Idempotency keys (`middleware/idempotency.py`) | `idempotency_keys` | check, store, cleanup |
| Identity (`identity/`) | users, login counter, refresh tokens, roles | login, refresh, logout, role changes |
| Permissions cache (`core/permissions_cache.py`) | Redis sets with a TTL | fill, invalidate |
| Notifications, daily job | `notifications`, `daily_jobs_log` | emit, read, daily checks |
| Job queue (`core/queue.py`, portal `services/queue.py`) | Redis stream and its pending entries | enqueue, dequeue, ack |
| Portal backend | portal users, tokens, cache | auth, proxied reads |
| Everything else | documents, backups, layouts, sessions of the frontends | see PROJECT.json for the reason each is left out |

### How they interact

Every ERP request is one coroutine with one `AsyncSession` (`db/session.py`,
`get_db`): one READ COMMITTED transaction that is committed once after the
handler has returned and rolled back if it raised. Handlers call the services of
other modules directly, inside the same transaction: cancelling a section
(`academic`) cancels its contract (`lms`), a payment (`lms`) reads the section
and the contract (`academic`) and posts to the wallet. Components therefore
meet in the database, not in messages: in rows they both read, in row locks
(`FOR UPDATE`, the locks of `UPDATE`, the share locks of foreign keys), in one
advisory lock per calendar day, and in unique indexes.

Two facts about SQLAlchemy decide most of what is checked here.

* **The identity map.** A row that a session has loaded is not refreshed by a
  later query, `SELECT ... FOR UPDATE` included, unless `populate_existing` is
  asked for, which this code never does. A row that is first read plainly and
  then locked is therefore locked but stale. Every model keeps the row as
  first read (`snap`, `seen`) apart from the row as committed.
* **Autoflush is off.** Writes reach the database at `flush()` or at commit;
  a change of an attribute before that is private. The models keep it in the
  transaction's record and move it to the committed state in `Commit`.

The frontends meet the backend in requests that may be lost, answered late or in
another order. A page is a React component: its state survives between the start
of a handler and the answer it awaits, everything else may have changed by then,
and the handler of a page that was left still runs. The tabs of one browser share
cookies but no memory. One tab has one axios client for all its calls and one
event stream for all its subscribers.

### What is hard

* Backend: interleavings of requests between two statements; rows read before a
  lock and used after it; conditional updates against updates by key; the order
  of locks; failure or crash half-way through a transaction; long legal sequences
  such as activate, deactivate, activate, deactivate.
* Client: a lost answer whose request ran, and the resend; many calls that wait
  for one refresh; two tabs that rotate one refresh token.
* Stream: errors of a source that was replaced, expired cookies that an
  `EventSource` cannot renew, hints that nobody receives, answers out of order.
* Pages: answers that come after the user went on; one flag shared by two
  requests; a change that succeeded and a reload that did not; a failed load that
  looks like an empty list; buttons pressed twice; buttons the server refuses.

`PROJECT.json` lists each at its line under "hazards", with the property that
covers it, or the reason why none does.

### What makes each component correct

* Ledger: a wallet is the sum of its entries; an activation is credited once;
  a cancelled contract holds nothing, in any wallet; a settled one has no holdback;
  terminal states are terminal; every request ends.
* Cash day: numbers are unique and have no gaps; a refund is paid exactly if its
  claim is; a day is opened only on request.
* Enrollments: one seat per student, a count that counts; payments within the
  price, and no less than them refunded on cancellation.
* Salary draws: a draw on the payroll page leaves what that page has paid up to
  its date within the salary; vouchers and money agree.
* HTTP client: every call ends; an answer means that the server ran it; it leaves
  for the login page only over a failed authentication.
* Stream: never at rest without a stream; the source in use has the listeners; the
  badge converges to the server's count.
* Wizard: what the completion screen says is so; sections are held back for the
  right student; progress is guarded; submissions end.
* Pages: no flag stays up; a failure does not look like an empty list; changes are
  seen or the page says that something went wrong; one change per press; nothing
  is offered that the server forbids.

## 2. Modules

| Module | Models | Extends |
|---|---|---|
| `LedgerTypes` | statuses, deltas of an entry, the 80/20 split | |
| `AtomicLedger` | the abstract specification: every ledger operation as one indivisible step | `LedgerTypes` |
| `ContractLedger` | the ledger service and its callers, one step per statement | `LedgerTypes` |
| `ContractLedger_proofs` | theorems about `ContractLedger` when requests overlap and when they do not; the refinement of `AtomicLedger` | `ContractLedger` |
| `CashDay` | one calendar day: closure, receipts, vouchers, refunds | |
| `CashDay_proofs` | theorems about `CashDay` | `CashDay` |
| `Enrollments` | the seats of one section and the money of its enrollments | |
| `Enrollments_proofs` | theorems about `Enrollments`, with and without overlap | `Enrollments` |
| `SalaryDraws` | the salary draws of one employee in one month | |
| `SalaryDraws_proofs` | theorems about `SalaryDraws` | `SalaryDraws` |
| `ApiClient` | the interceptors of both axios clients, the cookies, the refresh endpoint | |
| `ApiClient_proofs` | theorems about `ApiClient`; the refinement of `Exchange` | `ApiClient` |
| `Exchange` | the abstract specification: to a page, a call is one exchange that ends once | |
| `EventStream` | the event stream of one tab and the badge on it | |
| `EventStream_proofs` | theorems about `EventStream` | `EventStream` |
| `EnrollmentWizard` | the wizard, the guard of the layout and the two endpoints it calls | |
| `EnrollmentWizard_proofs` | theorems about `EnrollmentWizard` | `EnrollmentWizard` |
| `ScreenRules` | the vocabulary of the pages, and who may open and change what | |
| `MoneyScreens`, `AcademicScreens`, `PeopleScreens`, `AdminScreens`, `ReportScreens`, `PublicScreens` | the rules of each page | `ScreenRules` |
| `Screens` | what the rules mean: one page, one user, a server that answers in any order | `ScreenRules` |
| `ScreenHabits` | what the rules of a page must keep to, assumed of every page | `Screens` |
| `Screens_proofs` | theorems about `Screens` for pages that keep to it | `ScreenHabits` |
| `MC...` | model values for TLC; `MCScreens` puts the rules of all pages together | the above |

The four state machines of the backend have the same shape. `Workers` are requests in flight.
`txn[w]` is the transaction of worker `w`: what was asked, the next statement
(`step`) and what the session has read. The variables under `committed` are what
other transactions can see; those under `locks` are the database's. A worker
goes from `Idle` through one action per statement that can wait, decide or be
overtaken, to `Commit` (or a `Finish...` action), or through `"failed"` to
`Rollback`. `Crash` ends a transaction anywhere. `\* Mutant:` definitions are
deliberately wrong variants, used only to see that the properties notice.

### `ContractLedger`

`wallet[p]` and `ledger[p]` are the wallet of teacher `p` and its entries; `ledger`
keeps the three sums the code asks the table for (all entries, the entries of a
contract, its activation credits) instead of the rows. `contract[c]` is a contract
with the columns of its section that matter: both rows have a teacher of their own.
`assign_contract` sets both (`teacher` and `lecturer` here), editing a section sets
the section's alone. A payment posts its share to the section's teacher
(`financial_service.py:154`); activating, settling, cancelling, deactivating and
amending work on the wallet of the contract's. A contract may change hands as often
as its section is pending, whatever was posted before. `walletLock` and `rowLock` are
the row locks, with PostgreSQL's lock modes as far as they conflict here. The
advisory lock per date that payments take (`financial_service.py:78-81`) is left out:
the payments of the model are of any dates. Wallets exist from the start.

| Action | Code |
|---|---|
| `BeginPayment` ... `BeginEdit` | the endpoints and the checks before the first wait (`lms/router.py`, `financial_service.py`, `cancellation_service.py`, `academic/service.py`, `compensation_service.py`) |
| `LockContract` | the `FOR UPDATE` or `UPDATE` of the contract row that comes first in activate, finalize, amend and assign |
| `FetchWallet` | `get_or_create_wallet` 137-154, with and without `lock=True` |
| `SumEntries` | the `SUM` over `ledger_entries` in settle 356, cancel 447, deactivate 574, and what they check on it |
| `LockWallet`, `Flush`, `RefusePosting` | `record` 16-66 and the CHECK constraints D05-D08 of migration 202607130000 |
| `FinishActivate`, `FinishCancel`, ... | the last, conditional or unconditional `UPDATE` and the commit |
| `DeadlockAbort` | PostgreSQL's detector: a transaction on a wait cycle (`WaitCycle`) fails |

Fees and shares are multiples of 5, which the default holdback of 20% splits
without rounding; rounding to two decimals is not what the properties are about.
A withdrawal of 4 is the available part of one share of 5.

### `CashDay`

`closure` is the row of the day in `daily_closures`; `used[d]` the numbers
committed for a kind of document, `pending[r]` the pending refunds. `Check` is
`is_date_closed`, `LockDate` the advisory lock, `ReadNumber` the `max + 1`
query, `Claim` the conditional update of a pending refund, `Insert` the unique
index, `WriteClosure` the update of the day's row.

### `Enrollments`

`section`, `row`, `paid` and `owed` are the section, the enrollment rows and the
sums of their payments and pending refunds. Operations are sequences of
statements (`Path`): the order is that of the code with the flush order of
SQLAlchemy's unit of work. `Read` is the first, unlocked read, `LockSection`
the `FOR UPDATE` of `create_enrollment` or an `UPDATE` of the section,
`ShareRows` the foreign key lock of a new pending refund. The payments of a
section's enrollments are summed in one step although the code asks for each
enrollment in turn: each sum concerns its own row only.

### `SalaryDraws`

`drawn[p][d]` is what page `p` has drawn from the first of the month up to day `d`,
the sum the payroll page asks for; `used` the voucher numbers per day.
The two pages are the two ways to the same expense: `process_salary_withdrawal` with the employee
locked, and `create_expense` without.

### `ApiClient`

`phase[r]` is where call `r` stands in the interceptor, `config[r]` its axios
config with the marks the code hangs on it (`_retryCount`, `_retry`,
`_csrfRetried`), `renewal[t]` the refresh of tab `t`, and `runs[r]` how often the
server has carried the call out. `Retry`, `FetchToken`, `Renew` and `Refuse` are
the branches of the response interceptor in its order; `OnRefreshed` and
`OnRefreshFailed` empty `refreshSubscribers`. `Respond` has the order of the CSRF
middleware, which calls the endpoint first and compares the token afterwards.
`Rotate` is the refresh endpoint. The two clients differ in how a queued call is
sent again (`NewlyChained`), and `app` says which one is looked at.

### `EventStream`

`conn[i]` is one `EventSource` with its server side: connecting, accepted with
the count read, or open. `source`, `timer`, `authRetried`, `recovering` and
`state` are the fields of `EventStreamClient` and the calls of `recoverAndReopen`
that await the refresh. `OnDrop` is an error after which the browser reconnects
by itself, `OnClosed` one after which it does not. The bell is the only subscriber
there is; `gets` are its requests for the count, answered in any order.

### `EnrollmentWizard`

The reducer's state, the guard's state, and `calls[v]`, the submission that visit
`v` of the page has under way. A submission outlives its page; what it then does
to the guard is `MarkClean`. `haunted` is a history variable: it says that the
submission of an earlier visit ended in this one. The actions have the names of
the handlers.

### `Screens` and the rules of the pages

Close to 70 pages and widgets follow one pattern: a few `useState` flags, loads in
effects, handlers that `await` one request. `ScreenRules` has the vocabulary for
it. A load says when it is sent and what it does when it starts, succeeds and
fails; a handler the same for a change, with the endpoint it calls; a region what
it lists, which flags hide it, and which operations it offers to whom. An example,
`handleSave` of `payments/page.tsx`:

    Held(Following(Handler("payments", "submitting", {"lock"}, {"unlock", "reload"}, {"unlock"}),
                   {"close"}))

The button is disabled while `submitting` is set, the dialog closes when the
payment is made, a summary is asked for, and then the list is loaded again. One
definition stands for one function or one part of the JSX, and is mapped to it.
`Screens` has the actions: `Ask`, `Answer`, `Fail`, `Open`, `Submit`, `Agree`,
`Refuse`, `FollowUp`, `Close`, `Dismiss`, `Expire`. `Init` chooses the page and a
class of users that the page treats alike.

On thirteen pages (`Dismissible`) the user can take an error down with a × or by
clearing a form. `Dismiss` does so at any time. What the error was about is then in
`told`: the user has been told once, and until it is asked for again the page says
nothing more of it. A search on the POS page that failed then shows "no students
found" (`pos/page.tsx:444`). The two properties about errors end there: they say that
a failure is shown until the user takes it down.

A few pages do not keep a property. Each is named in the table beside that
property (`Stuck`, `Silent`, `Outdated`, `Unheld`, `Forbidden`), so that a run
fails as soon as another page joins them; the reasons are in section 3.

`ScreenHabits` says of the rules alone, one handler and one load at a time, what keeps
a page out of the tables: an effect that lowers the flag on success and on failure, a
handler that waits for a flag which nobody else lowers, an error that no other answer
takes away, a reload behind every change. It has six assumptions, which TLC evaluates
for the rules of every page with the same tables; section 5 proves what follows from
them. A review of a page can therefore look at one handler at a time: a handler with
the habits cannot break its page, whatever else is under way. The mutants of `Screens`
are bugs of what all pages share (a flag lowered outside a `finally`, a failure that is
only logged, a handler that does not look at its flag), since a page with a bug of its
own already fails an assumption.

### The abstract specifications

`AtomicLedger` says what callers rely on: an operation checks the contract,
appends at most one entry, changes the wallet by exactly that entry and moves
the contract, in one step. `ImplementsAtomicLedger` is
`Atomic!Spec` with `Atomic == INSTANCE AtomicLedger WITH ...` on the committed
variables. It holds while requests do not overlap (`ledger_serial`), failures and
crashes included: `ledger_serial` checks it on an instance, `SerialRefinement`
proves it. It does not hold when they overlap (`ledger_lost_update`).

`Exchange` says what pages rely on: a call that was placed ends once, answered or
rejected, answered only if the server has carried it out, and carried out a bounded
number of times. `ImplementsExchange` maps the nine phases of a call to the four
outcomes of `Exchange`; `ExchangeImplemented` proves it.

## 3. Runs

Counts are distinct states. The runs set `CHECK_DEADLOCK FALSE` where a
behaviour is over when its requests are, its page is left or everything is shown;
`realtime` does not need to. That nothing is stuck is checked instead by the
liveness properties and by `NothingIsStuck`.

| Run | Instance | States | Shows |
|---|---|---|---|
| `ledger_concurrent` | 2 workers, 2 teachers, 1 contract, fees 5 and 10, 3 requests, all ten kinds | 160k | what the locks guarantee when requests overlap: `LockedSnapshotIsFresh`, `LockedKindsAddNoDrift`, `CreditOnlyByActivating`, `CancelReversesAll`; every request ends, deadlocks included |
| `ledger_serial` | 1 worker, 2 teachers, 2 contracts, 5 requests, all kinds | 366k | without overlap each wallet is its ledger and every operation is atomic: `WalletMatchesLedger`, `CancelledHoldsNothing`, `TerminalIsFinal`, `SettlementReleasesHoldback`, `ImplementsAtomicLedger` |
| `cash_concurrent` | 2 workers, 2 refunds, 5 requests, all kinds | 78k | numbers, claims and reopenings are sound, and every request ends |
| `enroll_concurrent` | 2 workers, 1 student with 2 rows, price 2, 4 requests | 128k | payments stay within the price, no one gets two seats (also after leaving), and every request ends; in the behaviours without overlap the count counts and a cancellation refunds everything (`SerialCountMatchesActive`, `SerialCancellationRefundsAll`) |
| `salary_draws` | 2 workers, both pages, 2 days, salary 2, 4 requests | 81k | the lock keeps each payroll draw within the salary, vouchers and money agree, every request ends |
| `api_client` | 2 tabs, a payment and a read, 1 retry, either application | 152k | nobody waits for a refresh that is over; only failed authentication leaves the page; a call is one exchange that ends |
| `realtime` | 2 sources, 2 requests at a time, 1 change, outage and expiry each, 2 mounts | 258k | the stream never rests; the badge converges |
| `screens` | every page, 2 answers under way | 220k | the five rules of the pages |
| `wizard` | 2 codes, 1 section, 2 visits | 161k | the wizard keeps its word, also when submissions outlive their visit |

**Why the bounds are enough.** Two workers show every race of two requests, and
all the races of this code are between one reader that decides and one writer
that overtakes it. A wait cycle needs no third either, since the locks of one
module are few. Four or five requests let the protocols through that need
history: enroll, leave and enroll again beside a payment, close, ask, approve and
close again. In `ledger_concurrent` three requests are two that overlap and one
before or after them; two teachers are the one a contract had and the one it has.
The longest sequences of the ledger need no overlap and are in `ledger_serial`:
activate, deactivate, activate, deactivate, or pay, hand over, activate and settle,
with one request to spare. One payment share and two fees are enough to tell a lost,
doubled or reversed amount from a right one. For all properties but liveness
the proofs of section 5 remove the bounds altogether.
Symmetry of workers, contracts and students is used in the runs that check no
liveness property, and only there.

In `api_client` one retry (`MaxRetries`, the code has 2) already has a first
attempt, a resend and an end of the resends; a queue behind a refresh needs two
calls, a race for the refresh token two tabs. `Init` takes every distribution of
the calls over the tabs and both cookies present or missing. In `realtime` two
sources are the one in use and the one that was replaced, two requests are enough
to be answered out of order, and one of each disturbance makes them meet. In
`screens` two answers (`MaxBusy`) are the two that can overtake each other or share
a flag; the proofs are for any number, and TLC finds no error with three either. In `wizard` two visits are the submission
that outlives its page and the page it meets.

### The pages that are named in tables

* `Stuck`: a search that is cleared while it is under way returns before its
  `finally` may lower the flag (`GlobalSearch.tsx`, `search/page.tsx`); the wallets'
  `handleSubmitWithdrawal` lowers `modalSubmitting` only when it fails; marking all
  notifications as read raises the list's flag and does not lower it on failure.
* `Silent`: an empty `catch`, or none. What did not load looks like nothing there.
* `Outdated`: the reload behind a change keeps its failure to itself, is not sent
  when a second step fails, is not sent at all, or is an answer older than the
  change.
* `Unheld`: `ConfirmModal` and a few buttons have no disabled state; the preview in
  `UnenrollModal` and `CancelSectionModal` lowers the flag of the confirmation.
* `Forbidden`: the secretary sees the draw of a salary, and the server refuses it.

### Where code and documents disagree

Each of these runs checks one statement of the repository's documents
against the model, and TLC finds a behaviour that breaks it. `PROJECT.json`
quotes the statement.

| Run | What happens |
|---|---|
| `ledger_lost_update` | two payments of different dates, both computed from the balance of an unlocked read: one is lost |
| `ledger_reassigned` | a section is paid for, given to another teacher, activated and cancelled; the share stays with the first teacher |
| `api_paid_twice` | the answer to a payment is lost; the resend carries a new key, and the payment is made twice |

### Other behaviours of the code

Behaviours of the models that a reader of the code may not expect. No run is spent
on them, because they have the same causes, or because a model of them would say no
more than the line does.

* One request at a time: every teacher withdrawal breaks CHECK D08, which wants an
  entry's total to be the sum of its deltas; cancelling a section refunds also the
  enrollments that unenrolling has refunded; a section whose contract is still
  ASSIGNED cannot be cancelled, because the last `UPDATE` of `cancel_contract`
  matches no row; a second deactivation reverses the credit of the first activation
  again (`deactivate_contract` sums every `ACTIVATION_CREDIT` of the contract), which
  can take the frozen part of a contract below zero, covered by that of another
  contract of the teacher, and settlement leaves it there; a backdated draw does not see later ones.
* A contract that changes hands, still one request at a time: what the first teacher
  was credited stays in that wallet when the contract is cancelled
  (`ledger_reassigned`), and its holdback stays frozen when the contract is settled.
  The properties about cancelling and settling therefore speak of one teacher's
  wallet, the contract's at that time. A section that is
  edited to another teacher without its contract (the page saves both, in two calls,
  `sections/page.tsx:340`) sends its shares to one teacher and its fee, its holdback
  and its reversals to the other.
* With two requests: two completions release one holdback twice; a payment is booked
  on a day that was closed while it waited for the lock, and expenses and refunds
  check the day without any lock; two students get the last seat; a late deactivation
  turns CANCELLED back into ASSIGNED; a payment posts its share to a contract
  cancelled meanwhile; two expenses get one voucher number and the second fails; a
  late unlock request shuts a day that was reopened; two removals take less than two
  off the count; two draws from the expenses page pass the salary.
* Client: a queued call of the portal that later ends in a business error leads to the
  login page (`portal/lib/api.ts:161`), which is why `OnlyAuthErrorsLeave` speaks of
  the ERP; of two tabs that refresh at once, the second loses its session; the answer
  stored for a key is missing for streamed responses.
* Stream: subscribing while a reconnection is due opens a source that the timer then
  replaces without closing it; a bell that comes back to an open stream shows 0 until
  the next one starts; an event between the count and the subscription is lost until
  then; while the backend refuses a session that the refresh accepted, the client
  tries again every few seconds in silence.
* Wizard: a payment whose summary cannot be loaded is reported as failed; the
  browser's own buttons, the search and the bell pass the guard; sections whose
  enrollments could not be loaded are offered again and refused by the server.
* Wallet page: a withdrawal reloads the teachers, and then the withdrawals of the
  teacher whose row is open, keeping a failure to itself; taking it back reloads the
  teachers only, and leaves the open row as it was (`teacher-wallet/page.tsx:505-510, 523-532`).
* Pages: a late answer about the section, account or child chosen before is shown as
  that of the one chosen now, in the attendance page and the gradebook also saved as
  such; rights, settings and texts that did not load are saved over what is there;
  a successful answer closes the dialog that is open by then, whichever record it is
  about.

## 4. Fairness

`WF_vars(Step(w))` for every worker: the event loop resumes a coroutine whose
statement can run, the database grants a lock that is free, and its deadlock
detector ends a wait cycle. Nothing is assumed of `Receive` (requests need not
come) or of `Crash`. PostgreSQL queues lock waiters, so a waiter is not passed
over for ever; weak fairness is enough here all the same, because each behaviour
has finitely many requests and a lock that stays free at the end is taken.

`ApiClient`: the server or the network answers each call, timers fire and a refresh
ends; nobody has to make a call. `EventStream`: requests are answered, timers fire,
the server ends each stream in the end (`EVENT_STREAM_MAX_SECONDS`), an outage
passes; nobody has to look at the tab, and the premise of `BadgeConverges` says
that somebody does. `EnrollmentWizard`: a submission is answered in the end, though
it may be lost and sent again (`Lose` is not fair). `Screens` has no liveness: its
properties speak of pages at rest.

## 5. Proofs

Eight modules hold theorems. Each has an inductive invariant (`IInv`; TLC checked it on
the instances of the runs before it was proved), lemmas about what the operators of
the model do, one lemma per action that the action keeps the invariant, and at the end
the theorems. An assumption is always one that the model's module, or for
the pages `ScreenHabits`, names and TLC evaluates in its runs.

Two modules also prove what holds as long as requests do not overlap. Their theorems
have the form `Spec /\ []NoOverlap => ...`, where `NoOverlap` says that at most one
transaction is in flight, of any number of workers; the run `ledger_serial` has one
worker to make it so, and in `Enrollments` the properties say so themselves
(`[]NoOverlap => ...`). Failures, rollbacks and crashes stay in.

### `ContractLedger_proofs`

Proved for any sets of workers, teachers, contracts, fees,
shares and withdrawals and any bound on the requests:

| Theorem | Property |
|---|---|
| `TypeCorrect` | `TypeOK`: no wallet row is ever negative and no lock or transaction leaves its states |
| `SnapshotsAreFresh` | `LockedSnapshotIsFresh` |
| `LockedKindsKeepTheBooks` | `LockedKindsAddNoDrift` |
| `ActivationsCreditOnce` | `CreditOnlyByActivating` |
| `CancellationIsComplete` | `CancelReversesAll` |

Assumptions: the constants' own (`AmountsAssumption`, `DrawsAssumption`,
`BoundAssumption`, `KindsAssumption`, `DistinctAssumption`), which TLC evaluates
in every ledger run.

The properties are not inductive. `CancelReversesAll`, say, speaks of the commit
of a cancellation, and what it needs is that the reversal computed two
statements before is still exact. That holds because every posting transaction
holds the wallet lock when it commits, and a cancellation holds it from its
`SUM` on. The invariant `IInv` is `TypeOK` and ten facts about each worker:

* who holds a wallet's lock is past taking it (`LockHeldLate`), and record()
  takes it only for those that have not (`LocksOnce`);
* nothing is flushed or committed to the wallet without the lock
  (`PostsUnderLock`), and cancellation holds it from its `SUM` on
  (`CancelsUnderLock`);
* what was read or checked under the lock still holds: the snapshot (`Fresh`),
  the CHECK constraints (`StillAccepted`), the reversal (`ReversalIsExact`);
* bookkeeping: which kinds have a contract, a sum, a pending entry
  (`ArgumentsOK`, `SumKinds`, `NothingYet`).

The proof goes in three layers: facts about deltas and sums; `OthersKept`,
`BeginKeeps`, `FailKeeps`, `AbortKeeps`, `CommitWrites` and `CommitKeeps` for
what actions have in common (a commit that changes the wallet or the ledger
holds the lock, so no one else's facts go stale); and one lemma per action,
put together in `NextKeeps`. The action properties follow from the invariant
and from `OnlyCommitsWrite`, `FinishCommits` and `LockedCommitKeepsDrift`.

The second half of the module is about requests of which no two overlap, again for any
workers, teachers, contracts, fees and shares:

| Theorem | Property |
|---|---|
| `SerialBooksCorrect` | `WalletMatchesLedger` |
| `SerialCancelledCorrect` | `CancelledHoldsNothing` |
| `SerialTerminalCorrect` | `TerminalIsFinal` |
| `SerialSettlementCorrect` | `SettlementReleasesHoldback` |
| `SerialRefinement` | `ImplementsAtomicLedger` |

The assumptions are the same. This proof has two halves. The first is about
`AtomicLedger` alone: `AtomicKeeps` shows that its eight operations keep `BooksOK`
(each wallet is its ledger, its frozen part is covered, a contract's status follows
its section's, what is cancelled holds nothing of its teacher's) and never move a
final contract. The
second is about the steps of a request. `SerialInv` adds to `IInv` and `BooksOK` that
what the request has read still holds (`ReadsHold`): the contract row and the wallet
are as it saw them, its first checks are still true, and what it is about to post is
what the atomic operation posts. Only a commit can spoil reads, and without overlap it
finds nobody who has any. `FinishSimulates` then takes each `Finish...` action to its
atomic operation, and `QuietHolds` every other step to a stutter. Withdrawals drop
out: `WithdrawalsAreRefused` proves that none reaches its commit (CHECK D08, section 3).

The attempt corrected a property. `SettlementReleasesHoldback` used to say that the
frozen sum of a settled contract is zero, which no run of five requests contradicts.
The proof could not exclude a sum below zero; TLC, with up to eleven requests of one
worker, showed how the code gets there (the repeated deactivation of section 3). The
property now says that nothing is left frozen, which is what `settle_contract`
tests. `CancelReversesAll`, `CancelledHoldsNothing` and `SettlementReleasesHoldback`
are about the wallet that the operation reads, that of the contract's teacher at the
time. That no other wallet keeps anything is false, and is `ledger_reassigned`.

### `EnrollmentWizard_proofs`

Proved for any students, sections and number of visits:

| Theorem | Property |
|---|---|
| `Invariance` | the inductive invariant `IInv` |
| `TypeCorrect` | `TypeOK`, with `paid` within `seats` |
| `CompletionCorrect` | `CompletionIsReal` |
| `TakenCorrect` | `TakenIsOfStudent` |
| `GuardCorrect` | `ProgressIsGuarded` |

Assumptions: `RegisteredAssumption`, `NoneAssumption`, `VisitsAssumption`. The
completion screen shows the form as it is when the answer comes, not as it was
sent. So the invariant must say that the two are the same (`CallMatchesForm`), for
which the page's flag has to tell of its own call and no other visit's
(`FlagTellsOfCall`, `VisitsInOrder`), the steps must have what they need
(`StepsInOrder`, `LoadingIsEmpty`), and what the server has agreed to must be in the
database (`CallsInv`). `TakenIsOfStudent` needs that answers under way are about
the student who is chosen (`AskingForStudent`). There is one lemma per action.

### `CashDay_proofs`

Proved for any workers, refunds and requests:

| Theorem | Property |
|---|---|
| `Invariance`, `TypeCorrect` | `IInv`; `TypeOK`, with no number beyond the number of requests |
| `NoGap` | `NumbersHaveNoGap` |
| `NoCollision` | `ReceiptsNeverCollide` |
| `ClaimsCorrect` | `ClaimsMatchRefunds` |
| `ReopeningCorrect` | `ReopensOnRequest` |

Assumptions: `BoundAssumption`, `KindsAssumption`, `DistinctAssumption`. A number is
read long before it is committed. The invariant says that it is the next one or has
been overtaken (`NumberInReach`), that the unique index has admitted the number of an
inserted row (`NumberIsNew`, `NumbersDiffer`), and that a receipt's number is not
overtaken because the payment has the advisory lock (`PaysUnderLock`,
`ReceiptIsNew`). The bound on numbers needs that every transaction under way is one
of the requests counted (`NumbersAreCounted`). Claims and the closure rest on the row
locks (`RefundIsHeld`, `ClosureIsHeld`).

### `SalaryDraws_proofs`

Proved for any workers, days, salary and requests: `Invariance`, `TypeCorrect`
(`TypeOK`), `VouchersCorrect` (`VouchersCoverDraws`) and `CeilingCorrect`
(`DrawKeepsCeiling`). Assumptions: `BoundsAssumption`, `PagesAssumption`,
`DistinctAssumption`. Voucher numbers go as in `CashDay`, without any lock. The ceiling
needs that the payroll page holds the employee from its sum on (`SumsUnderLock`), so
that what the sum left room for still fits at the commit (`RoomIsLeft`). `drawn` is
kept cumulative for this proof's sake: a sum over days would be a fold, which the
provers cannot reason about.

### `Enrollments_proofs`

Proved for any workers, students, rows, capacity, price and requests:

| Theorem | Property |
|---|---|
| `Invariance`, `TypeCorrect` | `IInv`; `TypeOK`, the count never below zero included |
| `PaymentsCorrect` | `PaidWithinPrice` |
| `SeatsCorrect` | `NoDuplicateSeat` |
| `SerialInvariance`, `SerialCountCorrect` | without overlap: `SerialInv`; `SerialCountMatchesActive` |
| `SerialRefundsCorrect` | `SerialCancellationRefundsAll` |

Assumptions: `BoundsAssumption`, `KindsAssumption`, `DistinctAssumption`. A seat is
guarded by the section's lock from the search for the student to the commit
(`SeatIsGuarded`), a payment by the lock of its enrollment (`PaymentIsGuarded`,
`LocksAgree`) or by the enrollment being new, so that no other request can name it
(`RowIsFresh`); then what the check found room for still fits (`RoomIsLeft`). The count
and the refunds are worked out from plain reads. `SerialInv` says that these still
hold: the section is as it was read, the row to be given up is active, the payments of
all enrollments are in the refunds. With overlap both are false: TLC finds two removals
that take one off the count, and a payment that commits after a cancellation has
summed the payments, on the instance of `enroll_concurrent`.

### `ApiClient_proofs`

Proved for any tabs, calls, mutations and resends, and for both applications:

| Theorem | Property |
|---|---|
| `Invariance`, `TypeCorrect` | `IInv`; `TypeOK`, with the bounds on runs and tokens |
| `NoWaitForNothing` | `NoOneWaitsForNothing` |
| `LeavingCorrect` | `OnlyAuthErrorsLeave` |
| `ExchangeImplemented` | `ImplementsExchange` |

Assumptions: `CallsAssumption` (calls are finite in number and mutations are calls)
and `BoundsAssumption`. The calls that wait in a tab, the one that asked for
the refresh and the refresh come and go together (`WaitersHaveARefresh`). How often
the server may have carried a call out follows from the marks on its config
(`RunsAreCounted`), and the tokens issued from the calls that may still ask for one
(`TokensAreCounted`). That the ERP leaves only over authentication needs that only
the portal chains the calls that waited (`OnlyPortalChains`). For the refinement,
each action is a step of `Exchange` for one call, for all that waited at once, or a
stutter.

### `EventStream_proofs`

Proved for any sources, requests, mounts, outages and expiries: `Invariance`,
`TypeCorrect` (`TypeOK`), `NotStranded` (`NeverStranded`), `SourceListens`
(`CurrentSourceListens`). Assumptions: `SourcesAssumption`, `BoundsAssumption`. A source that was replaced
lives on and may report that it opened, dropped or closed; the one fact the
properties lack to be inductive is that there is none before the first
subscription (`IdleHasNoStream`).

### `Screens_proofs`

Proved for any pages whose rules have the habits of `ScreenHabits`, and any number of
answers under way (`MaxBusy`):

| Theorem | Property |
|---|---|
| `Invariance`, `TypeCorrect` | `IInv`; `TypeOK` |
| `FlagsComeDownInTheEnd` | `NothingIsStuck` |
| `FailuresAreNotEmptyLists` | `NoFalseEmpty` |
| `ChangesAreSeenInTheEnd` | `WritesAreSeen` |
| `OneChangeAtATime` | `OncePerPress` |
| `OfferedIsAdmitted` | `NothingForbiddenIsOffered` |

Assumptions: `BusyAssumption` and the six of `ScreenHabits`, one of them on the form of
the rules and one per property. All but the first are about the rules only; TLC
evaluates them for the rules of every page (`AllRules`) in the run `screens`. The
properties speak of a page at rest, so none of them is inductive. The invariant says
what the page waits for while it is not:

* a flag that is up has a request under way that lowers it, or a call of a handler
  that shares it (`SpinInv`, `LockInv`); something follows only what announced it
  (`FollowInv`);
* handlers that wait for one flag have one call between them, and the flag is up for
  as long (`PressInv`). A dialog that goes away when it is sent has no call of its own;
* a load that failed and left nothing has a request under way, or the error is on the
  page, or was until the user took it down (`EmptyInv`);
* rows that are older than a change, or will be when an old answer comes, have a
  request younger than every change behind them, or a step that follows the change
  and asks again, or the error, or had it (`SeenInv`). The queue keeps this order: an old request
  was sent before a young one (`OldFirst`), so the answer of a young one overtakes all
  that are old;
* rows that are patched by hand were there before anything could change them, because
  what changes them is hidden until then (`PatchInv`).

The steps of pages differ in their effects only. So the proof first reduces each action
to one of a few shapes (`Resent`, `Answered`, `Ended`, `Pressed`, `Came`), shows for each
shape that it keeps each part (`ResentKeepsSeen`, `CameKeepsCalls`, ...), and then puts
these together, one lemma per action. `Only`, which drops the requests that a new one
cancels, is a recursive function. `OnlyUnfolds` and `OnlyKeeps` prove what it returns for
a queue of any length: that what is kept is in the queue, in its order. The induction
is by the least number principle (`LeastNatural`, from the well-founded order of the
naturals), since the library's induction theorem takes an operator.

## 6. What is only model-checked, and what is not modelled

Liveness (`EveryRequestEnds`, `EveryCallEnds`, `EverySubmissionEnds`,
`BadgeConverges`) is out of the prover's reach and stays with TLC. Every safety
property of the passing runs, and both refinements, are theorems. The three runs that
expect a violation need none: their properties are false. That the rules of each page
have the habits of `ScreenHabits` is a finite fact about constants, which TLC evaluates;
that they say what the page's source does is for the reader of both to see.

Not modelled in the modelled components, and why:

* `reverse_teacher_shares`: `calculate_reversal_amount` joins the entries to
  payments by `reference_id`, which `create_payment` passes before the flush
  that gives the payment its id; the amount is always 0 and nothing is called.
* `undo_refund`: PostgreSQL refuses its `FOR UPDATE` on the nullable side of an
  outer join. `void_expense`: it reads `created_at`, which `Expense` lacks. Both
  always raise and change nothing.
* The completion of a section whose contract is still ASSIGNED (it first
  activates it), PERCENTAGE amendments, other holdback rates.
* Capacity and price are constants of a section; the closed-day check of
  `unenroll_student` looks at a job log nobody writes.
* Audit rows, notifications and narratives, which no decision reads.
* Teachers without a wallet: payments and activations make one, an amendment fails.
* In the pages: which record a row, dialog or sheet is about, the contents of
  fields, pagination, the selection for bulk actions, and clearing all
  notifications, which asks the server only when the offer to undo is over.
  `ReceiptModal`, `StudentSearchPicker` and `BulkActionBar` send nothing of their
  own that matters here; `OverdueSummaryWidget` is used nowhere; the ingestion page
  and the program pages of the public site are static.
* A ready count that fails although the rest of the endpoint works: the stream then
  starts without one, and the badge waits for the next stream.

The components without a module, and the reason for each, are in `PROJECT.json`.
Sessions (login, logout, single sign-on) are the most important of them.

## 7. Plan

1. Done: the backend's money and seats (`ContractLedger` with proofs, `CashDay`,
   `Enrollments`, `SalaryDraws`); the frontends (`ApiClient`, `EventStream`,
   `EnrollmentWizard` with proofs, `Screens` with the rules of the pages).
2. Done: proofs of every safety property of these modules and of both refinements
   (section 5).
3. Proofs that could follow: for `ContractLedger` with overlap, how far the wallet can
   drift from its ledger (`Drift` changes only by what the unlocked reads of two
   postings share); a refinement of `Screens` by a page with the contents of its rows.
4. Modules after that: `Session` (login, logout, single sign-on, the failed-login
   counter, the permissions cache), `IdempotencyKeys` composed with `ApiClient`,
   `Sheets` (attendance page and gradebook with the section a sheet is of),
   `Amendments`, `SectionLifecycle`, `DailyJob`, `JobQueue`.
