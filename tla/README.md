# A formal model of ledger-pro

TLA+ modules, TLC configurations and TLAPS proofs about the multi-tenant
double-entry ledger in `src/`: a Go server (PostgreSQL, Redis, RabbitMQ, an
S3-compatible store) and a Next.js client. Paths and line numbers below are
relative to the repository, with `src/` standing for its root.

- [The system](#the-system): components, state, operations, interactions, hazards
- [The modules](#the-modules): what each one models, and how
- [The runs](#the-runs): what TLC checks, bounds, fairness
- [The proofs](#the-proofs): theorems, assumptions, inductive invariants
- [Disagreements](#where-code-and-documents-disagree) between code and documents
- [What is not modelled](#what-is-not-modelled), and [the plan](#plan)

## The system

```
          chi router: RequestTimeout > RateLimit > APIKeyAuth > RequireRole
 browser --HTTP-->       |                 |             |
 (web/src)               v                 v             v
                      Handler       Redis (window)  Redis (session)
                         |
                         v
       LedgerService --lock, idempotency cache--> Redis
             |      --one DB transaction--------> PostgreSQL  <--poll, settle-- OutboxWorker
             |      --documents-----------------> object store                     |
                                                              RabbitMQ <--publish--+
```

| Component | State | Operations | Interacts with |
|---|---|---|---|
| **Transaction creation** `internal/service/ledger.go:289-490` | rows of `transactions`, `postings`, `ledger_outbox`; Redis lock and idempotency entry per (tenant, key) | Obtain, GET, BEGIN, INSERTs, COMMIT, read postings, SET, Release | Redis, PostgreSQL, the outbox table |
| **Outbox worker** `internal/service/outbox.go` | `status` and `retry_count` of each outbox row; the batch in memory; the AMQP channel | poll, publish, mark published / failed, count a retry, start, stop | PostgreSQL, RabbitMQ, other server processes on the same table |
| **Accounts, postings, balances** `ledger.go:95-250`, `handler.go`, `000001_init_ledger.up.sql` | rows of `accounts`, `transactions`, `postings` | CreateAccount, the three balance checks, GetAccountBalance | PostgreSQL |
| **Listing and pagination** `handler.go`, `ledger.go` | none; reads rows by cursor or OFFSET | ListAccounts, ListTransactions, ListAccountPostings | concurrent inserts |
| **Document attachment** `ledger.go:549-638`, `storage.go`, `document_handler.go` | objects, document rows | look the transaction up, upload, INSERT | object store, PostgreSQL |
| **Sessions, signup, login** `auth_handler.go`, `service/auth.go` | tenants, users, sessions (role and tenant) with a sliding TTL | Signup, Login, Me, Logout | PostgreSQL, Redis |
| **Authentication and roles** `api/middleware.go:152-240` | none | APIKeyAuthMiddleware, RequireRole | sessions |
| **Rate limiter** `middleware.go:256-350` | a sorted set per client | an atomic script | Redis |
| **Server process** `cmd/server/main.go` | phases of start and shutdown | migrate, start worker, serve, drain | all of the above |
| **Web application** `web/src` | form, idempotency key of the open dialog, session | submit, retry | the API |
| **Generated API, problem details, health, CORS** | none | | |

What is hard about them, and what makes them correct:

- *Transaction creation* runs concurrently for one key, under a lock that a
  crash or a cancelled context leaves behind, over two stores that are not
  updated together. Correct: one transaction per key, written whole; one answer
  per key; the cache never ahead of the database; every call ends; the lock is
  freed; an error has a cause.
- *The outbox worker* decides on stale copies of rows, shares the table with the
  workers of other processes without row locks, and has its UPDATE after its
  side effect. Correct: nothing is marked published that was not sent; nothing
  is given up before its retries are used; settled rows stay settled; Stop
  waits for the batch and returns.
- *The arithmetic* is done twice in wrapping `int64` and once in `NUMERIC`.
  Correct: committed transactions balance exactly, and the balances a tenant
  reads add up to zero and do not depend on other tenants.
- *Pagination* meets inserts between two pages. Correct: a row that was there
  from the start is shown once, as far as the cursor allows, and one that comes
  later is missed only if the cursor has passed it.
- *Signup* is three writes without a transaction, *sessions* slide while a logout
  deletes them, and a dead session falls through to an API key. Correct: a
  request runs under what its login proved, a session counts until it ends, and
  a logout ends it for good.
- The *rate limiter* counts at its limit with the clocks of several processes.
  Correct: never more than the limit within a window, no denial before it.
- *Documents* live in two stores. Correct: what is listed exists.
- *Shutdown* spends one 30 s budget on the worker and on the requests. Correct:
  nobody is cut off before its own deadline, and the process ends.
- The *web client* keeps an idempotency key while its form is edited.

The repository has no Go tests; the docs, comments and migrations are the only
statements of intent.

## The modules

| Module | Models | Extends / instantiates |
|---|---|---|
| `CreateTransaction` | `LedgerService.CreateTransaction` step by step | instantiates `IdempotentLedger` |
| `IdempotentLedger` | the abstract promise of `POST /v1/transactions` | |
| `CreateTransactionProofs` | theorems of the two | `CreateTransaction`, `TLAPS` |
| `OutboxWorker` | the outbox table, any number of workers, the broker | |
| `OutboxWorkerProofs` | its theorems | `OutboxWorker`, `TLAPS`, `FiniteSetTheorems` |
| `DoubleEntry` | accounts, posting checks, balances, single transactions | |
| `SumTheorems` | what holds of the sums of the community modules, for any finite set | `FiniteSetTheorems`, `TLAPS` |
| `DoubleEntryProofs` | theorems of the books and of the three checks | `DoubleEntry`, `SumTheorems`, `SequenceTheorems` |
| `Pagination` | the three listings, walked page by page during inserts | |
| `PaginationProofs` | its theorems | `Pagination`, `TLAPS`, theorem modules |
| `Sessions` | signup, login, session, logout, authentication, roles | |
| `RateLimiter` | the sliding window of one client | |
| `Clock` | the time of the next three | |
| `Gateway` | the middleware stack: limiter, then sessions and routes | `Sessions`, `RateLimiter`, on one `Clock` |
| `Documents` | uploads over object store and database | |
| `Server` | the process from migrations to exit, with `Documents` as its requests | `Documents` |
| `GatewayProofs` | theorems of limiter and sessions | `Gateway`, `TLAPS`, `FiniteSetTheorems` |
| `ServerProofs` | theorems of uploads and shutdown | `Server`, `TLAPS` |
| `MC*` | instances for TLC: model values, symmetry, request lists | |

Operators whose comment says *Mutant* are faulty variants of the operator that
follows them. They belong to no specification; `PROJECT.json` says which
property each one breaks when it takes the operator's place.

### CreateTransaction

One value of `Request` is one call; a client's retry is another value with the
same `Key`, a (tenant, idempotency key) pair. A request writes at most one row,
under a fresh UUID, so the request names its transaction.

`pc[r]` is the next step of the call. The numbers are those of the
comments `Step 1` to `Step 9` inside the function.

| `pc` | Step | Actions |
|---|---|---|
| `idle` | arrival and validation (400/422 are one code) | `Arrive` |
| `obtain` | 1: SET NX with a random token, retried while busy, else 503 | `Obtain`, `ObtainBusy`, `ObtainFails` |
| `get` | 2: idempotency cache; any error but a hit goes on | `Replay`, `NoReplay` |
| `insert` | 3, 4: BEGIN, INSERT into transactions; the unique index waits for an uncommitted row and refuses a committed one | `InsertTransaction`, `InsertRefused`, `StatementFails` |
| `postings` | 5: the postings; a foreign key may refuse them | `InsertPostings`, `StatementFails` |
| `outbox` | 6: the event row, same database transaction | `WriteOutbox`, `StatementFails` |
| `commit` | 7: COMMIT and its deferred trigger | `Commit`, `CommitFails`, `CommitInDoubt` |
| `fetch` | 8: read the postings back; a failure leaves them out | `FetchPostings` |
| `set` | 9: store the response, best effort | `StoreIdempotencyKey` |
| `release` | deferred Release, with the request's own context | `Release` |

`work[r]` is what is written and not committed; `ledger`, `posted` and `events`
are the committed rows. `ctxDone[r]` is the state of the request's context: once
it is done every Redis call and every statement of the request fails, Release
included. The environment, switched on per kind by `Faults`: a process dies
(`crash`), a context ends (`cancel`), a Redis call fails, applied or not
(`redis`), an entry expires or is evicted (`evict`), a statement fails (`db`; the
serialization failures that SERIALIZABLE may bring count as such),
the reply to COMMIT is lost and the server decides later (`reply`), a lock
vanishes under a live holder (`lease`).

`LockMayExpire` reflects the constants: the lock's TTL (30 s) is counted from
Obtain, and the request's timeout (`SERVER_WRITE_TIMEOUT`, 30 s by default)
from earlier, so a TTL ends no lock whose holder's context is live. A deployment
that raises the timeout above 30 s is the `lease` fault.

Bodies are abstract: `Balanced` are those the Go validation accepts, `Known`
those the foreign keys accept, `Bookable` those the trigger accepts.
`DoubleEntry` says which bodies these are. A cached value that is not the JSON of
a response is left out: only this code writes under those keys.

`IdempotentLedger` is the promise without lock, cache or database transaction: a
call asks for a key; at most one transaction per key is booked, together with
its event, possibly after its caller was told that it failed, never after it was
told to try again (or that the request is invalid); a success shows the booked
transaction. The refinement mapping reads `asked` from `key`, `booked` from
`ledger`, `announced` from `events`, and `reply` from the status and the
response of the calls that have returned.

### OutboxWorker

`Event` are rows of `ledger_outbox`, numbered by `created_at`. As `created_at`
is the start of the database transaction, `CommitEvent` makes them visible in
any order. One `Worker` is the goroutine of one server process with its channel:

| `phase` | Code | Actions |
|---|---|---|
| `down` | no process | `Start` |
| `waiting` | the `select` in `run` | `Poll`, `NoticeStop` |
| `publish` | loop over the batch | `Publish`, `PublishClosed`, `PublishBreaks` |
| `sent` / `unsent` | after `publishEvent` | `HandleSuccess` / `HandleFailure`, `UpdateFails` |
| `stopped` | `Stop` has returned, the deferred closes follow | `Exit` |

`batch[w]` and `seen[w]` are the copies of the rows the worker fetched: the
retry decision uses `seen`, not the row. Shutdown takes effect between batches
only, and a ready tick may win the `select` again. The channel is not in confirm
mode, so a message is `inflight` after Publish and the broker accepts it
(`Accept`), drops it for want of a queue (`Drop`) or never sees it (`Close`,
`Crash`). `errors` and `lost` are history variables for the properties.
`main.go:251-252`, where the HTTP server fails and the worker is not stopped, is
a `Crash` here. `RequeueFailedOutboxEvents` has no caller and is left out.

### DoubleEntry

`accounts`, `transactions` and `postings` are the tables; a creation is one
step. A sum runs over a set of row numbers, as a SELECT's runs over rows:
`RowsOf` and the sets in `Total` and `GetTransaction` are the WHERE clauses, `Side`
is the CASE on the direction. `Validate` is the check that handler and service share, in wrapping
`int64` arithmetic; `CreatePosting` is the foreign key and the CHECK;
`CheckTransactionBalance` is the deferred trigger, which adds in `NUMERIC` and
casts to `BIGINT`, so that a sum out of range is an error.
`GetAccountBalance` filters by account *and* tenant, and the same cast may fail.
Nothing ties a posting's account to the tenant of its transaction, and the model
has that too. `GetTransaction` reads a transaction and its postings in two queries;
as neither ever changes they are one operator. A failed INSERT of an account uses up a `BIGSERIAL` value; only the
order of ids matters, so ids are consecutive here. Currencies are stored and
never compared, so they are left out.

### Pagination

The rows are those one listing matches. `Begin` is the start of a database
transaction, which fixes `created_at` (the column's default is `now()`),
`Insert` takes the next `BIGSERIAL` value, `CommitRow` makes the row visible
and `Abort` wastes the value, so ids and timestamps appear out of order.
`Matching`, `Before` and `PagesFrom` are the WHERE, ORDER BY and LIMIT/OFFSET of
the three queries; an ORDER BY that leaves ties open gives any order, a new one
in each query. `StartWalk` and `NextPage` are the requests: the client stops
at a page that is not full, as `docs/api.md:656-660` shows it. The
first cursor of the transactions is one second ahead of the server's clock
(`handler.go:492`); `Lead` assumes that the server's clock is less than that
second behind the database's, and so is positive: a first cursor equal to the
database's clock would skip rows of the current instant, since the query asks for
`created_at < cursor`.

### Sessions, RateLimiter, Gateway

A request names the tenant, user and session it may create, all under fresh
random ids. `pc[r]` is the next store it touches:

| `pc` | Code | Actions |
|---|---|---|
| `new` | limiter, then authentication by path, cookie, key | `Pass`, `PassUncounted`, `TurnAway`, with `Enter` |
| `tenant`, `user` | signup's two INSERTs | `CreateTenant`, `CreateUser`, `...Fails` |
| `find` | login's lookup and password check | `GetUserByEmail`, `UserNotFound` |
| `store` | CreateSession | `CreateSession`, `CreateSessionFails` |
| `get`, `expire` | the two pipelined commands of ValidateSession | `GetSession`, `ExpireSession`, `ValidateFails` |
| `route` | RequireRole and the handler | `Route` |
| `delete` | logout | `RevokeSession`, `RevokeFails` |

`read` stands for every route that any role may call, `/me` included, `write`
for those that need admin or write. A client sends only cookies it was given,
dead ones included. `hurt[r]` records that a call of `r` failed; a failed
call may have been applied. Passwords are compared, not hashed. The model has
API keys configured: without any (a development setup) the server installs no
authentication and every request runs under the zero tenant.

`RateLimiter` is the Lua script, which Redis runs atomically. Scores are the time
of the process that sends it (`Skew`), the key's TTL is Redis's. A member is
the score and a random number, as Lua prints them; equal members coincide
(`tostring` keeps 14 digits, about 0.1 ms, and Redis seeds `math.random` anew
for each script), so the script counts different entries and not requests.
`grants` is its history. The client is one: windows do not interact.

### Documents and Server

`Documents` is AttachDocument: look the transaction up, put the object, insert
the row. Each call fails under an ended context, a statement under a closed
pool, and each store may fail by itself, having applied the write or not.
`Server` is `main`:

| `phase` | Code | Leaves by |
|---|---|---|
| `migrate`, `connect` | `runMigrations`; pool to worker | `RunMigrations`, `Connect`, or `os.Exit(1)` |
| `serve` | the `select` | `Signal`, `ListenFails` |
| `stopWorker` | `outboxWorker.Stop()`, the budget running, the listener still open | `WorkerStopped` |
| `shutdown` | `server.Shutdown` | `ShutdownReturns`, `ForceClose` |
| `close` | deferred closes | `ClosePool`, `Exit` |

`age[r]` and `Timeout` are the request's deadline, `left` is what remains of the
30 s. What `Stop` waits for is `OutboxWorker`'s `NoticeStop`; here it takes any
time. Time moves on only when no request is past its deadline: a handler
whose context has ended is assumed to return at once, as all its calls take that
context. `TimesAssumption` is `SERVER_WRITE_TIMEOUT <= 30s`, the default.

## The runs

| Run | Question | Properties |
|---|---|---|
| `create_faults` | three concurrent requests on two keys under every fault at once | `TypeOK` `OneTransactionPerKey` `BooksAreWhole` `AnswersAgree` `CacheFaithful` |
| `create_recovery` | two requests with every kind of body, crashes and cancelled contexts | `MutualExclusion` `ErrorsHaveACause` `NoLockLeftBehind` `Terminates` `LocksAreFreed` `ImplementsPromise` |
| `create_replay` (violated) | a retry after a crash between COMMIT and the cache write | `ReplayReturnsOriginal` |
| `outbox_pair` | two processes on one table, everything may break | `TypeOK` `PublishedWasSent` `FailedAfterRetries` `RetriesAreErrors` `SettledStays` |
| `outbox_single` | one process, restarts, one fault, a channel that may close | `RetryBudget` `DeliveredOnce` `PublishedIsFinal` `Settles` `StopReturns` |
| `outbox_confirms` (violated) | a connection that closes under published messages | `NoSilentLoss` |
| `outbox_dead_letter` (violated) | a channel that closes and stays closed | `AtLeastOnce` |
| `double_entry` | two tenants, amounts up to the largest integer | `TypeOK` `EveryTransactionBalances` `OwnBooksBalance` `TenantIsolation` |
| `paging` | rows inserted and rolled back during a walk of each listing | `AccountsShownOnce` `TransactionsSkipOnlyTies` `PostingsShiftOnly` |
| `gateway` | three requests of one client, failing stores, a crash, a server's clock ahead of Redis's | `TypeOK` `ServedAsProved` `LiveSessionsCount` `LogoutEnds` `SignupsAreWhole` `LimitHolds` `DenialsAreDue` |
| `signup_twice` (violated) | two signups with one address, no fault | `EmailsAreUnique` |
| `server` | two uploads during start, shutdown, forced close, crash | `TypeOK` `ListedDocumentsExist` `AnswersHold` `ShutdownIsGraceful` `SignalEnds` |

The passing runs show that the properties hold on their instances. What they
mean, in the terms of the code:

- The lock is an optimisation for safety: `create_faults` loses it at will, and
  uniqueness, wholeness and agreement of the answers still hold, because of the
  unique index and of what the cache may contain. The lock is what
  `ErrorsHaveACause` and `MutualExclusion` rest on: without faults of Redis and
  PostgreSQL (serialization failures included) nobody gets a 500 merely because
  two requests of a key met.
- A request that was not cut short never leaves its lock behind, and a lock that
  is left behind by a crash or a timeout goes away.
- Two workers may publish an event twice and may fail a row the other has
  published, but they never lose, revive or prematurely fail one.
- With one worker, a duplicate needs a crash, a failed UPDATE or a publish that
  broke half-way; restarts alone produce none.
- The trigger makes wrapping in the Go checks harmless: it accepts just those
  requests that pass them and whose exact sums fit (`TriggerAddsRange`, proved).
- The id cursor of accounts shows every account once, although ids become visible
  out of order, except for accounts that were committed during the walk with an id
  below a page end already served: those the client misses. The cursor of transactions repeats nothing but
  skips rows that tie with the last row of a page; the offset of postings skips
  nothing (without ties) and repeats rows only after an insert.
- A request never runs under a tenant or role nobody proved, whatever fails. A
  failing Redis makes a live session count for nothing and a logout undone;
  without that, a session counts until it ends and a logout ends it, also
  between another request's GET and EXPIRE.
- Every signup that fails half-way leaves at most a tenant without user, or a
  user that can log in.
- The limiter's window is exact up to the drift between the clocks (proved for any): at most the
  limit within a window less the drift, a denial only if the limit was
  reached within a window plus the drift.
- A listed document can be downloaded, also if the server is cut off at any point;
  an object without a row is the worst that remains.
- A shutdown cuts off only requests that have used their whole deadline, or that
  arrived after the signal, while the worker was being stopped; and it ends.

### Bounds

| Bound | Value | Why it is enough |
|---|---|---|
| `Request`, `Key` | 3 on 2 keys; 2 on 2 keys | a winner, a loser and a third that retries; a bystander under another key. Keys do not interact otherwise |
| `LockRetries` | 1, 2 (5 in the code) | the count is compared once; both sides of the comparison occur |
| `Event`, `BatchSize` | 2 or 3 rows, batches of 2 | a full batch, a row beyond it and a row that appears in between |
| `MaxRetries` | 2 (5 in the code) | one error is counted, the next one gives up |
| `MaxStops`, `MaxFaults` | 1; 1 or 2 | a graceful restart; a fault of each of two workers. `Close` is not bounded |
| `MaxInt` | 3, standing for 2^63 - 1 | three bits wrap with four postings, and balances leave the range after two transactions |
| `Row`, `PageSize`, `MaxClock` (paging) | 4, 2, 2 | two full pages, ties across a page boundary, rows before and after the walk starts |
| `Request`, `TTL`, `Window`, `MaxClock` (gateway) | 3, 2, 2, 3 | a login, its request and a logout; expiry before, between and after them; a refresh |
| `Limit`, `Skew`, `Draw` | 1, {1}, {1} | the limit reached, left and reached again; a process whose clock is ahead of Redis's. Members can coincide only below a limit, so one draw is enough for a limit of 1. Larger limits, coinciding members and several clocks are the theorems `LimitIsKept` and `DenialsAreJust` |
| `Budget`, `Timeout` | 3, 3 | the defaults, equal; the worker's Stop takes none, some or all of it |
| `MaxPostings`, `MaxAccounts`, `MaxTransactions` | 4, 3, 2 | own and foreign accounts on both sides, a second transaction over the first |

`create_faults`, `outbox_pair`, `double_entry`, `paging` and `gateway` check
safety under symmetry; no run with a liveness property uses symmetry.
`CHECK_DEADLOCK FALSE` is set for `CreateTransaction`, where every call may have
ended, for `OutboxWorker`, where every row may be settled and the worker idle,
for `Pagination` and `Gateway`, where all rows and requests may be used up, and
for `Server`, which exits.

### Fairness

`CreateTransaction`: weak fairness of each call's own steps (Go schedules every
handler, and every Redis and SQL call returns or fails at the latest when its
context ends), of the server's decision about a COMMIT whose sender has gone,
and of the expiry of a lock whose TTL may run out. A call, a cancellation, a
crash or an eviction need never happen.

`OutboxWorker`: weak fairness of the goroutine's steps, of the restart of the
process, of its exit and of the broker taking a message; strong fairness of
`NoticeStop`, because Go's `select` picks at random among the ready cases, so
`stopCh` cannot lose against the ticker for ever. Commits, signals and faults
need never happen.

`Server`: weak fairness of `main`, of time and of each handler's steps. `main`'s
includes that the worker's Stop returns, which is `StopReturns` of
`OutboxWorker`. Requests, signals, a dead listener and crashes need never
happen. The other modules state no liveness.

## The proofs

TLAPS checks these for all values of the constants: any number of requests,
keys, bodies, events and workers, any number of retries and faults, any limit,
window, clock drift, TTL, deadline and shutdown budget, any tenants, accounts and
lists of postings, any width of the integers, any rows and page size. Every
invariant and every action property of the passing runs is among them.

| Theorem | Property |
|---|---|
| `CreateTransactionProofs!TypeCorrect` | `TypeOK` |
| `UniqueTransactions` | `OneTransactionPerKey` |
| `AtomicBooks` | `BooksAreWhole` |
| `AgreeingAnswers` | `AnswersAgree` |
| `FaithfulCache` | `CacheFaithful` |
| `ExclusiveLock` | `MutualExclusion`, if `"lease"` is no fault |
| `CausedErrors` | `ErrorsHaveACause`, if only crashes and cancellations are faults |
| `LocksGivenBack` | `NoLockLeftBehind`, under the same condition |
| `Refinement` | `Spec => Promise!Spec` |
| `OutboxWorkerProofs!TypeCorrect` | `TypeOK` |
| `PublishedRowsWereSent` | `PublishedWasSent` |
| `CountsAreErrors` | `RetriesAreErrors` |
| `FailuresAreEarned` | `FailedAfterRetries` |
| `SettledForGood` | `SettledStays` |
| `BudgetOfOneWorker` | `RetryBudget`, for one worker |
| `FinalWithOneWorker` | `PublishedIsFinal`, for one worker |
| `OnceWithOneWorker` | `DeliveredOnce`, for one worker |
| `DoubleEntryProofs!TypeCorrect` | `TypeOK` |
| `TransactionsBalanced` | `EveryTransactionBalances` |
| `OwnBooksBalanced` | `OwnBooksBalance` |
| `TenantsIsolated` | `TenantIsolation` |
| `WrappedSums` | the `int64` sum of any list of postings is the exact sum, wrapped once |
| `TriggerAddsRange` | the trigger accepts what the Go checks accept and what fits a `BIGINT`, nothing else |
| `PaginationProofs!TypeCorrect` | `TypeOK`, which no run checks |
| `AccountsListed` | `AccountsShownOnce` |
| `TransactionsListed` | `TransactionsSkipOnlyTies` |
| `PostingsListed` | `PostingsShiftOnly` |
| `GatewayProofs!TypeCorrect` | `TypeOK` |
| `LimitIsKept` | `LimitHolds` |
| `DenialsAreJust` | `DenialsAreDue` |
| `LogoutIsFinal` | `LogoutEnds` |
| `LiveSessionsAreHeeded` | `LiveSessionsCount` |
| `ServiceIsProved` | `ServedAsProved` |
| `SignupsStayWhole` | `SignupsAreWhole` |
| `ServerProofs!TypeCorrect` | `TypeOK` |
| `ListedExist` | `ListedDocumentsExist` |
| `AnswersAreTrue` | `AnswersHold` |
| `ShutdownKeepsGrace` | `ShutdownIsGraceful` |

**Assumptions.** Those declared with the constants: the classes of bodies are
sets of bodies, limits are naturals (batch and retry limits positive), fault
kinds are the listed ones, `None` is none of the other values, rows are numbered
by integers, the set of workers is finite; two clocks differ by at most the
drift, and the request timeout is not above the shutdown budget; a request of
`DoubleEntry` is a finite list of postings and the largest integer is positive; the
rows of a listing are finitely many, page size and `Lead` positive. The
conditions in the table are hypotheses of the theorems.

**CreateTransaction.** None of the properties is inductive by itself.
*Uniqueness* needs what the unique index looks at: the uncommitted rows and the
committed ones are jointly unique per key, and a row is in one of the two sets
only. *Wholeness* needs that `work` at each `pc` is exactly the parts written so
far and that only a complete `work` is left in doubt. *Agreement* needs that a
response shows a committed transaction of its key and that the maker of a
response never changes it, which also makes the cache faithful. *Exclusion*
needs that a holder with a live context owns the lock entry. *Causes* need the
order of Step 9 and Release: while a transaction is committed without a cached
response, its maker holds the lock or was disturbed. The *refinement* uses these
invariants: each action maps to one abstract action or to a stutter.

**OutboxWorker.** *Sent* needs that the row a worker is about to mark was handed
to its connection. *Counts* cannot be proved from one worker's view: an error
that was counted in `errors` may not have reached `retry_count` yet. The
invariant is that `retry_count` plus the number of workers that owe a count of
this row is at most `errors` (or `errors` has reached its limit), hence the
cardinality lemmas. *Failures* need that a worker's stale `seen`
never exceeds `errors`, and not even `seen + 1` does once that worker's own
publish has failed. For a single worker, `seen` equals the row's count and a row in the
batch is pending, which gives the budget and the finality of `published`.
*Once* (`OnceInv`) needs that a row that was handed to the connection is published
already or is the very one the worker is about to mark: only the three faults
(a crash, a failed UPDATE, a publish cut in half) can separate the two, so while
none has happened the row is not fetched again.

**DoubleEntry.** `LedgerInv` adds three facts to `TypeOK`: a posting row has the
tenant of its transaction (no foreign key says so; `CreateTransaction` writes
both from one variable), the rows of each transaction balance and some are
debits, and all the rows of a tenant balance. Committing appends rows, so each
sum over the old rows is unchanged (`SumCongruent`), the sum over the new ones is
the request's shifted (`SumShift`), and the two add up (`SumUnion`). A tenant's
trial balance is the sum over its accounts of the sum over their rows, exchanged
by induction over the set of accounts, and a balance that can be read is exact.
*Isolation* follows since a step that adds no transaction of a tenant leaves the
set of its rows as it was. *The trigger* needs Euclidean division by
`2 * (MaxInt + 1)`, proved from the order of the naturals: wrapping after every
addition or once at the end is the same, and wrapping changes nothing that fits.

`SumTheorems` is where the induction is. The library's induction theorems take an
operator as parameter, but in the form "a set of numbers (a set of subsets) that
contains its successors is everything" the argument needs no such parameter;
that `FoldFunctionOnSet` is the function its CHOOSE describes is then proved by
induction over the subsets of a finite set, and the laws of sums after it.

**Pagination.** `PageInv` joins four parts. *Rows*: an id, once assigned, is
unique and not above the sequence, which is the number of ids assigned.
*Accounts*: what was shown has increasing ids up to the cursor, which is the end
of the last full page, and a row that was there is shown or has an id beyond the
cursor. The last page takes in all ids beyond it, so what is missed at that step
lies below a page end and was not there at the start; as rows go on
appearing afterwards, this is stated of the step and not of a state.
*Transactions*: pages shown while the
walk goes on are full, so the last row of each is at a multiple of the page size;
a row that was there is shown, is still below the cursor, or ties with such a
row. *Postings*: the offset is the number of rows shown; without ties a row's
place in the listing is the number of committed rows that are newer, which only
grows, so a row that was there is shown or still at or beyond the offset, and if
nothing was committed meanwhile every row was shown at its own place, once.

**Gateway.** *The limit* needs `LimiterInv`: an entry that was granted within the
last window, less the drift, is still in the set (no process's clock has purged
it and the key has not expired), so at the moment of a grant the entries granted
in any such span are among those the script has just counted. *Denials* need
the converse, that the set holds nothing but granted entries. *Logout* and *live
sessions* need that a cookie is the token of an answered login, which is no
longer at the step that writes it, so a session can only end; *identities* that
a session, and a login about to write one, hold what was proved with credentials
that stay valid as users are only added; *signups* that a request writes no rows
but its own.

**Server.** The uploads need what each has written at its step (`DocShape`),
which neither deadlines nor a closed pool nor the end of the process undo. *The
shutdown* needs that a request outstanding at the signal has aged at least as
much as the budget has shrunk, so that it is past its deadline when the budget is
spent, and that after `Close` whoever still runs has been told.

**Only model-checked.** Liveness under fairness: `Terminates`, `LocksAreFreed`,
`Settles`, `StopReturns`, `SignalEnds`. The proof system has no support for ENABLED.

## Where code and documents disagree

1. `docs/api.md:262` promises that replaying a key returns the original response.
   After a crash between COMMIT and the cache write, or after the entry's TTL,
   the retry's INSERT hits the unique index and the call answers 500; the 409 of
   `docs/api.md:357` is never produced (`create_replay`).
2. `outbox.go:26-28` says Publisher Confirms guarantee delivery; the channel is
   never put in confirm mode (`outbox_confirms`).
3. `docs/api.md:265` guarantees at-least-once delivery; a closed channel is never
   reopened, and pending rows are marked failed after five polls
   (`outbox_dead_letter`).
4. `README.md:20` says money cannot appear or disappear; no code compares the
   currencies of two legs, so that a debit in one and a credit in another balance.
5. Migration `000002:55-56` says a published row is immutable;
   `MarkOutboxEventFailed` has no status guard. With one worker the row is final
   all the same (`FinalWithOneWorker`), with two it is not.

6. `auth_handler.go:152-158` answers a second signup with an address by "email
   already exists". Since migration `000005:17-18` the constraint is per tenant
   and each signup has a new one: it succeeds, and a login looks up either user
   (`signup_twice`).
7. `docs/api.md:643` promises consistent pages; transactions with equal timestamps
   at a page boundary are skipped (what holds is `TransactionsSkipOnlyTies`),
   and so are accounts committed late with an id the cursor has passed (`AccountsShownOnce`).
8. `docs/api.md:86` says logout revokes the session; an error of Redis is ignored
   and the session lives on behind a 204 (`LogoutEnds` holds without one).
9. `main.go:259` gives outstanding requests 30 seconds; the worker's Stop spends
   from the same 30, and requests are accepted meanwhile (`ShutdownIsGraceful`).
10. `document_handler.go:25` limits uploads to 10 MB; `ParseMultipartForm` limits
    only what is kept in memory.

Further, `auth.go:74` calls a pipeline atomic, which `LogoutEnds` does not need;
`docs/api.md:80` says sessions refresh on each request, which is true of Redis
but not of the cookie, set once for 24 hours; `middleware.go:402-405`
announces a 504 on timeout that is never sent; no property depends on it.

## What is not modelled

- The web client: rendering around the API. Its one hazard, a dialog that keeps
  its idempotency key while its form is edited, is on the server's side
  `AnswersAgree`: the retry is shown the response of the first body.
- Generated code, problem details, CORS, health checks, tracing and logging have
  no state.
- A server without API keys (development), and sessions in the format of older
  versions.
- Formats: the presigning of URLs is local and its failure is ignored, multipart
  parsing and JSON decoding end in a 400 before any effect.
- `ReadTimeout` and `IdleTimeout` only end connections, which is the end of a
  context; `RequeueFailedOutboxEvents` has no caller; panics (`Recoverer`) are
  500s of a request like its other errors.

## Plan

Done: every component of the server is modelled, and every safety property of the
passing runs is proved.

Left: a composition of `IdempotentLedger` and `OutboxWorker` through the outbox
table, so that each booked transaction has one event row whose fate is known, as
a theorem: `BooksAreWhole` and `Refinement` are its first half,
`FailuresAreEarned` and `SettledForGood` its second.
