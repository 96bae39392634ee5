-------------------------- MODULE CreateTransaction --------------------------
(***************************************************************************)
(* LedgerService.CreateTransaction: concurrent requests, each identified   *)
(* by a (tenant, idempotency key) pair, that take a Redis lock, look in    *)
(* the Redis idempotency cache, write one PostgreSQL transaction (row,     *)
(* postings, outbox event) and store the response in the cache.            *)
(*                                                                         *)
(* One value of Request is one call of the service; a client's retry is    *)
(* another Request with the same key.  A request inserts at most one row,  *)
(* under a fresh UUID, so the request names the transaction it creates.    *)
(***************************************************************************)
EXTENDS Naturals

CONSTANTS
    Request,      \* calls of LedgerService.CreateTransaction
    Key,          \* (tenant_id, idempotency_key) pairs
    Body,         \* request bodies
    Balanced,     \* the bodies the service's own validation accepts
    Known,        \* the bodies whose postings PostgreSQL accepts (foreign keys)
    Bookable,     \* the bodies the deferred balance trigger accepts
    LockRetries,  \* retries of a busy lock (5 in the code)
    Faults,       \* the failures of the environment that may happen
    None          \* no request, no key, no body, no response

(* crash: the process dies.  cancel: the request's context ends, by the
   30 s RequestTimeout or because the client left.  redis: a Redis call
   fails, applied or not.  evict: a cache entry expires or is evicted.
   db: a statement fails.  reply: the answer of COMMIT is lost.
   lease: the lock vanishes under a live holder (failover, eviction).    *)
FaultKinds == {"crash", "cancel", "redis", "evict", "db", "reply", "lease"}

(* A response: the transaction it shows and whether it lists the postings. *)
Receipt == [tx : Request, full : BOOLEAN]

ASSUME BodyAssumption ==
    /\ Balanced \subseteq Body
    /\ Known \subseteq Body
    /\ Bookable \subseteq Body
ASSUME RetriesAssumption == LockRetries \in Nat
ASSUME FaultsAssumption == Faults \subseteq FaultKinds
ASSUME NoneAssumption == None \notin Request \cup Key \cup Body \cup Receipt

VARIABLES
    pc,       \* pc[r]: the step request r is about to take
    key,      \* key[r], body[r]: what r asks for
    body,
    tries,    \* retries of the busy lock so far
    ctxDone,  \* the request's context is cancelled or past its deadline
    lock,     \* Redis: lock[k] is the request whose token the lock key holds
    cache,    \* Redis: the response stored under the idempotency key
    work,     \* PostgreSQL: what r has written and not committed
    ledger,   \* PostgreSQL: committed rows of transactions,
    posted,   \*   transactions whose postings are committed,
    events,   \*   and transactions whose outbox event is committed
    receipt,  \* the response r has built or found in the cache
    status    \* the HTTP status r returns, 0 while there is none

reqVars == <<pc, key, body, tries, ctxDone, receipt, status>>
redisVars == <<lock, cache>>
dbVars == <<work, ledger, posted, events>>
vars == <<reqVars, redisVars, dbVars>>

Parts == {"row", "postings", "event"}

Holding == {"get", "insert", "postings", "outbox", "commit", "fetch", "set",
            "release"}
Running == {"obtain"} \cup Holding
Ended == {"done", "dead"}

TypeOK ==
    /\ pc \in [Request -> {"idle"} \cup Running \cup Ended]
    /\ key \in [Request -> Key \cup {None}]
    /\ body \in [Request -> Body \cup {None}]
    /\ tries \in [Request -> 0..LockRetries]
    /\ ctxDone \in [Request -> BOOLEAN]
    /\ lock \in [Key -> Request \cup {None}]
    /\ cache \in [Key -> Receipt \cup {None}]
    /\ work \in [Request -> SUBSET Parts]
    /\ ledger \subseteq Request
    /\ posted \subseteq Request
    /\ events \subseteq Request
    /\ receipt \in [Request -> Receipt \cup {None}]
    /\ status \in [Request -> {0, 201, 422, 500, 503}]

Init ==
    /\ pc = [r \in Request |-> "idle"]
    /\ key = [r \in Request |-> None]
    /\ body = [r \in Request |-> None]
    /\ tries = [r \in Request |-> 0]
    /\ ctxDone = [r \in Request |-> FALSE]
    /\ lock = [k \in Key |-> None]
    /\ cache = [k \in Key |-> None]
    /\ work = [r \in Request |-> {}]
    /\ ledger = {}
    /\ posted = {}
    /\ events = {}
    /\ receipt = [r \in Request |-> None]
    /\ status = [r \in Request |-> 0]

------------------------------------------------------------------------------
(* Steps of control shared by the actions.                                 *)

Goto(r, step) == pc' = [pc EXCEPT ![r] = step]

(* Mutant: the lock is released on the success path only.                  *)
ReturnWithoutRelease(r, c) ==
    /\ status' = [status EXCEPT ![r] = c]
    /\ Goto(r, IF pc[r] = "set" THEN "release" ELSE "done")

(* Return with code c: from a step that holds the lock the deferred
   Rollback discards the uncommitted work and the deferred Release follows. *)
Return(r, c) == /\ status' = [status EXCEPT ![r] = c]
                /\ Goto(r, IF pc[r] \in Holding THEN "release" ELSE "done")
Rollback(r) == work' = [work EXCEPT ![r] = {}]

(* Mutant: Redis is called with a context that never ends.                 *)
RedisIgnoresContext(r) == "redis" \in Faults

(* A Redis call or a statement may fail, and always does once ctx is done. *)
RedisMayFail(r) == ctxDone[r] \/ "redis" \in Faults
DbMayFail(r) == ctxDone[r] \/ "db" \in Faults

------------------------------------------------------------------------------
(* The call and its validation; 422 stands for its 400s as well.           *)

Arrive(r) ==
    /\ pc[r] = "idle"
    /\ \E k \in Key, b \in Body :
          /\ key' = [key EXCEPT ![r] = k]
          /\ body' = [body EXCEPT ![r] = b]
          /\ IF b \in Balanced
                THEN Goto(r, "obtain") /\ UNCHANGED status
                ELSE Return(r, 422)
    /\ UNCHANGED <<tries, ctxDone, receipt, redisVars, dbVars>>

(* Step 1: the lock.  SET NX with the request's token.                     *)
Obtain(r) ==
    /\ pc[r] = "obtain" /\ ~ctxDone[r]
    /\ lock[key[r]] = None
    /\ lock' = [lock EXCEPT ![key[r]] = r]
    /\ Goto(r, "get")
    /\ UNCHANGED <<key, body, tries, ctxDone, receipt, status, cache, dbVars>>

(* Mutant: one retry too many.                                             *)
ObtainBusyOffByOne(r) ==
    /\ pc[r] = "obtain" /\ ~ctxDone[r]
    /\ lock[key[r]] # None
    /\ IF tries[r] <= LockRetries
          THEN /\ tries' = [tries EXCEPT ![r] = @ + 1]
               /\ UNCHANGED <<pc, status>>
          ELSE /\ Return(r, 503)
               /\ UNCHANGED tries
    /\ UNCHANGED <<key, body, ctxDone, receipt, redisVars, dbVars>>

ObtainBusy(r) ==
    /\ pc[r] = "obtain" /\ ~ctxDone[r]
    /\ lock[key[r]] # None
    /\ IF tries[r] < LockRetries
          THEN /\ tries' = [tries EXCEPT ![r] = @ + 1]
               /\ UNCHANGED <<pc, status>>
          ELSE /\ Return(r, 503)
               /\ UNCHANGED tries
    /\ UNCHANGED <<key, body, ctxDone, receipt, redisVars, dbVars>>

(* Any error of Obtain is 503, also when the SET was applied and only its
   reply was lost.                                                         *)
ObtainFails(r) ==
    /\ pc[r] = "obtain" /\ RedisMayFail(r)
    /\ \/ UNCHANGED lock
       \/ lock[key[r]] = None /\ lock' = [lock EXCEPT ![key[r]] = r]
    /\ Return(r, 503)
    /\ UNCHANGED <<key, body, tries, ctxDone, receipt, cache, dbVars>>

(* Mutant: the cache key does not name the tenant.                         *)
ReplayAcrossTenants(r) ==
    /\ pc[r] = "get" /\ ~ctxDone[r]
    /\ \E k \in Key : /\ cache[k] # None
                      /\ receipt' = [receipt EXCEPT ![r] = cache[k]]
    /\ Return(r, 201)
    /\ UNCHANGED <<key, body, tries, ctxDone, redisVars, dbVars>>

(* Step 2: the idempotency cache.                                          *)
Replay(r) ==
    /\ pc[r] = "get" /\ ~ctxDone[r]
    /\ cache[key[r]] # None
    /\ receipt' = [receipt EXCEPT ![r] = cache[key[r]]]
    /\ Return(r, 201)
    /\ UNCHANGED <<key, body, tries, ctxDone, redisVars, dbVars>>

(* A miss, and any other error of GET, goes on: the cache fails open.      *)
NoReplay(r) ==
    /\ pc[r] = "get"
    /\ cache[key[r]] = None \/ RedisMayFail(r)
    /\ Goto(r, "insert")
    /\ UNCHANGED <<key, body, tries, ctxDone, receipt, status, redisVars, dbVars>>

(* Steps 3 and 4: BeginTx and the INSERT into transactions, which waits for
   an uncommitted row of the same key and is refused by a committed one.   *)
Collides(r, S) == \E s \in S \ {r} : key[s] = key[r]
InFlight == {s \in Request : "row" \in work[s]}

(* Mutant: no UNIQUE (tenant_id, idempotency_key).                         *)
InsertTransactionAnyKey(r) ==
    /\ pc[r] = "insert" /\ ~ctxDone[r]
    /\ work' = [work EXCEPT ![r] = {"row"}]
    /\ Goto(r, "postings")
    /\ UNCHANGED <<key, body, tries, ctxDone, receipt, status, redisVars,
                   ledger, posted, events>>

InsertTransaction(r) ==
    /\ pc[r] = "insert" /\ ~ctxDone[r]
    /\ ~Collides(r, InFlight) /\ ~Collides(r, ledger)
    /\ work' = [work EXCEPT ![r] = {"row"}]
    /\ Goto(r, "postings")
    /\ UNCHANGED <<key, body, tries, ctxDone, receipt, status, redisVars,
                   ledger, posted, events>>

InsertRefused(r) ==
    /\ pc[r] = "insert" /\ ~ctxDone[r]
    /\ Collides(r, ledger)
    /\ Return(r, 500)
    /\ UNCHANGED <<key, body, tries, ctxDone, receipt, redisVars, dbVars>>

(* Step 5: the postings, in one action: nobody sees part of them.          *)
InsertPostings(r) ==
    /\ pc[r] = "postings" /\ ~ctxDone[r]
    /\ IF body[r] \in Known
          THEN /\ work' = [work EXCEPT ![r] = @ \cup {"postings"}]
               /\ Goto(r, "outbox")
               /\ UNCHANGED status
          ELSE Rollback(r) /\ Return(r, 500)
    /\ UNCHANGED <<key, body, tries, ctxDone, receipt, redisVars, ledger,
                   posted, events>>

(* Mutant: the event is written outside the database transaction.          *)
WriteOutboxAtOnce(r) ==
    /\ pc[r] = "outbox" /\ ~ctxDone[r]
    /\ events' = events \cup {r}
    /\ Goto(r, "commit")
    /\ UNCHANGED <<key, body, tries, ctxDone, receipt, status, redisVars,
                   work, ledger, posted>>

(* Step 6: the outbox row, in the same database transaction.               *)
WriteOutbox(r) ==
    /\ pc[r] = "outbox" /\ ~ctxDone[r]
    /\ work' = [work EXCEPT ![r] = @ \cup {"event"}]
    /\ Goto(r, "commit")
    /\ UNCHANGED <<key, body, tries, ctxDone, receipt, status, redisVars,
                   ledger, posted, events>>

(* A statement of Steps 3 to 6 fails: 500 and the deferred Rollback.       *)
StatementFails(r) ==
    /\ pc[r] \in {"insert", "postings", "outbox"} /\ DbMayFail(r)
    /\ Rollback(r)
    /\ Return(r, 500)
    /\ UNCHANGED <<key, body, tries, ctxDone, receipt, redisVars, ledger,
                   posted, events>>

(* What COMMIT does in the database once the deferred trigger has passed.  *)
Apply(r) ==
    /\ body[r] \in Bookable
    /\ ledger' = IF "row" \in work[r] THEN ledger \cup {r} ELSE ledger
    /\ posted' = IF "postings" \in work[r] THEN posted \cup {r} ELSE posted
    /\ events' = IF "event" \in work[r] THEN events \cup {r} ELSE events
    /\ Rollback(r)

(* Step 7: COMMIT.                                                         *)
Commit(r) ==
    /\ pc[r] = "commit" /\ ~ctxDone[r]
    /\ Apply(r)
    /\ Goto(r, "fetch")
    /\ UNCHANGED <<key, body, tries, ctxDone, receipt, status, redisVars>>

(* Mutant: the error of COMMIT is ignored.                                 *)
CommitFailureIgnored(r) ==
    /\ pc[r] = "commit"
    /\ body[r] \notin Bookable \/ DbMayFail(r)
    /\ Rollback(r)
    /\ Goto(r, "fetch")
    /\ UNCHANGED <<key, body, tries, ctxDone, receipt, status, redisVars,
                   ledger, posted, events>>

(* COMMIT fails: the trigger, a serialization failure, a dead connection.  *)
CommitFails(r) ==
    /\ pc[r] = "commit"
    /\ body[r] \notin Bookable \/ DbMayFail(r)
    /\ Rollback(r)
    /\ Return(r, 500)
    /\ UNCHANGED <<key, body, tries, ctxDone, receipt, redisVars, ledger,
                   posted, events>>

(* Mutant: a lost COMMIT reply is answered like a busy lock.               *)
CommitInDoubtRejected(r) ==
    /\ pc[r] = "commit"
    /\ "reply" \in Faults \/ ctxDone[r]
    /\ Return(r, 503)
    /\ UNCHANGED <<key, body, tries, ctxDone, receipt, redisVars, dbVars>>

(* COMMIT is sent and no answer comes: the service gives up with 500, the
   server decides later.                                                   *)
CommitInDoubt(r) ==
    /\ pc[r] = "commit"
    /\ "reply" \in Faults \/ ctxDone[r]
    /\ Return(r, 500)
    /\ UNCHANGED <<key, body, tries, ctxDone, receipt, redisVars, dbVars>>

(* Mutant: the lock is released right after COMMIT, before Step 9.         *)
FetchPostingsUnlocking(r) ==
    /\ pc[r] = "fetch"
    /\ receipt' = [receipt EXCEPT ![r] = [tx |-> r, full |-> ~ctxDone[r]]]
    /\ lock' = IF lock[key[r]] = r THEN [lock EXCEPT ![key[r]] = None]
                                   ELSE lock
    /\ Goto(r, "set")
    /\ UNCHANGED <<key, body, tries, ctxDone, status, cache, dbVars>>

(* Step 8: the response; a failed read of the postings leaves them out.    *)
FetchPostings(r) ==
    /\ pc[r] = "fetch"
    /\ \E full \in BOOLEAN :
          /\ full => ~ctxDone[r]
          /\ ~full => DbMayFail(r)
          /\ receipt' = [receipt EXCEPT ![r] = [tx |-> r, full |-> full]]
    /\ Goto(r, "set")
    /\ UNCHANGED <<key, body, tries, ctxDone, status, redisVars, dbVars>>

(* Step 9: the idempotency cache, best effort: an error is only logged.    *)
StoreIdempotencyKey(r) ==
    /\ pc[r] = "set"
    /\ \/ ~ctxDone[r] /\ cache' = [cache EXCEPT ![key[r]] = receipt[r]]
       \/ RedisMayFail(r) /\ UNCHANGED cache
    /\ Return(r, 201)
    /\ UNCHANGED <<key, body, tries, ctxDone, receipt, lock, dbVars>>

(* The deferred Release, with the request's own context: deletes the lock
   key if it still holds this request's token, and its error is ignored.   *)
Release(r) ==
    /\ pc[r] = "release"
    /\ \/ /\ ~ctxDone[r]
          /\ lock' = IF lock[key[r]] = r THEN [lock EXCEPT ![key[r]] = None]
                                         ELSE lock
       \/ RedisMayFail(r) /\ UNCHANGED lock
    /\ Goto(r, "done")
    /\ UNCHANGED <<key, body, tries, ctxDone, receipt, status, cache, dbVars>>

------------------------------------------------------------------------------
(* The environment.                                                        *)

(* RequestTimeout expires, or the client disconnects.                      *)
Cancel(r) ==
    /\ "cancel" \in Faults
    /\ pc[r] \in Running /\ ~ctxDone[r]
    /\ ctxDone' = [ctxDone EXCEPT ![r] = TRUE]
    /\ UNCHANGED <<pc, key, body, tries, receipt, status, redisVars, dbVars>>

(* The process dies: no defer runs, PostgreSQL rolls back what was not
   committed unless a COMMIT was already on its way.                       *)
Crash(r) ==
    /\ "crash" \in Faults
    /\ pc[r] \in Running
    /\ Goto(r, "dead")
    /\ \/ Rollback(r)
       \/ pc[r] \in {"commit", "release"} /\ UNCHANGED work
    /\ UNCHANGED <<key, body, tries, ctxDone, receipt, status, redisVars,
                   ledger, posted, events>>

(* The server decides a COMMIT whose sender has gone.                      *)
InDoubt(r) == work[r] # {} /\ pc[r] \in {"release"} \cup Ended

ResolveCommit(r) ==
    /\ InDoubt(r)
    /\ Apply(r)
    /\ UNCHANGED <<reqVars, redisVars>>

ResolveAbort(r) ==
    /\ InDoubt(r)
    /\ Rollback(r)
    /\ UNCHANGED <<reqVars, redisVars, ledger, posted, events>>

(* Mutants: a TTL shorter than the request's timeout; no TTL at all.       *)
LockMayExpireEarly(h) == TRUE
LockNeverExpires(h) == FALSE

(* The lock's TTL and the request's timeout are both 30 s and the request
   starts first, so the TTL ends no lock under a live context.             *)
LockMayExpire(h) == pc[h] \in Ended \/ ctxDone[h] \/ "lease" \in Faults

ExpireLock(k) ==
    /\ lock[k] # None
    /\ LockMayExpire(lock[k])
    /\ lock' = [lock EXCEPT ![k] = None]
    /\ UNCHANGED <<reqVars, cache, dbVars>>

(* IDEMPOTENCY_KEY_TTL passes, or Redis evicts or loses the entry.         *)
ExpireCache(k) ==
    /\ "evict" \in Faults
    /\ cache[k] # None
    /\ cache' = [cache EXCEPT ![k] = None]
    /\ UNCHANGED <<reqVars, lock, dbVars>>

------------------------------------------------------------------------------
(* The call's own steps, once it has arrived.                              *)
Proceed(r) ==
    \/ Obtain(r) \/ ObtainBusy(r) \/ ObtainFails(r)
    \/ Replay(r) \/ NoReplay(r)
    \/ InsertTransaction(r) \/ InsertRefused(r)
    \/ InsertPostings(r) \/ WriteOutbox(r) \/ StatementFails(r)
    \/ Commit(r) \/ CommitFails(r) \/ CommitInDoubt(r)
    \/ FetchPostings(r) \/ StoreIdempotencyKey(r) \/ Release(r)

Resolve(r) == ResolveCommit(r) \/ ResolveAbort(r)

Next ==
    \/ \E r \in Request : Arrive(r) \/ Proceed(r) \/ Resolve(r)
    \/ \E r \in Request : Cancel(r) \/ Crash(r)
    \/ \E k \in Key : ExpireLock(k) \/ ExpireCache(k)

Spec == Init /\ [][Next]_vars

(* Go schedules every handler, PostgreSQL decides every COMMIT and Redis
   expires every lock; nothing obliges a client to call or a fault to come. *)
Fairness ==
    /\ \A r \in Request : WF_vars(Proceed(r)) /\ WF_vars(Resolve(r))
    /\ \A k \in Key : WF_vars(ExpireLock(k))

FairSpec == Spec /\ Fairness

------------------------------------------------------------------------------
(* Properties.                                                             *)

Answered(r, c) == pc[r] = "done" /\ status[r] = c
Sound(r) == body[r] \in Balanced \cap Known \cap Bookable
Disturbed(r) == ctxDone[r] \/ pc[r] = "dead"

(* Two transactions with one idempotency key are never both committed,
   whatever happens to the lock, the cache and the replies.                *)
OneTransactionPerKey ==
    \A r, s \in ledger : key[r] = key[s] => r = s

(* A committed transaction has its postings and its outbox event, and
   neither exists without the transaction: no lost and no phantom event.   *)
BooksAreWhole == posted = ledger /\ events = ledger

(* Every success given for a key shows one and the same response, of a
   committed transaction with that key.                                    *)
AnswersAgree ==
    \A r, s \in Request :
        Answered(r, 201) /\ Answered(s, 201) /\ key[r] = key[s] =>
            /\ receipt[r] = receipt[s]
            /\ receipt[r].tx \in ledger
            /\ key[receipt[r].tx] = key[r]

(* The cache never runs ahead of the database or across keys: what it holds
   under a key is the response of the transaction committed for that key.  *)
CacheFaithful ==
    \A k \in Key : cache[k] # None =>
        LET t == cache[k].tx IN
            t \in ledger /\ key[t] = k /\ receipt[t] = cache[k]

(* Of the requests of one key whose contexts are live, one at a time is
   between Obtain and Release.  (Without the lease fault.)                 *)
MutualExclusion ==
    \A r, s \in Request :
        /\ pc[r] \in Holding /\ ~ctxDone[r]
        /\ pc[s] \in Holding /\ ~ctxDone[s]
        /\ key[r] = key[s]
        => r = s

(* A sound request is answered 500 only if its own context ended, or a
   request of the same key was cut short and left its row without a cached
   response.  It needs Step 9 to come before the lock is released.
   (With crashes and cancellations as the only faults.)                    *)
ErrorsHaveACause ==
    \A r \in Request : Answered(r, 500) /\ Sound(r) =>
        \E s \in Request : key[s] = key[r] /\ Disturbed(s)

(* A request leaves its lock behind only if it was cut short: every return
   of the code after Obtain passes through the deferred Release.           *)
NoLockLeftBehind ==
    \A r \in Request : pc[r] = "done" /\ ~Disturbed(r) =>
        \A k \in Key : lock[k] # r

(* Every call ends, with an answer or with its process.                    *)
Terminates == \A r \in Request : pc[r] \in Running ~> pc[r] \in Ended

(* No lock stays taken for good, whoever dies holding it.                  *)
LocksAreFreed == \A k \in Key : []<>(lock[k] = None)

(* docs/api.md:262: replaying a key returns the original response.         *)
ReplayReturnsOriginal ==
    \A r \in Request :
        (\E t \in ledger \ {r} : key[t] = key[r]) => ~Answered(r, 500)

(* The service implements the promise of IdempotentLedger.                 *)
Reply(r) ==
    IF pc[r] # "done" THEN "none"
    ELSE IF status[r] = 201 THEN receipt[r].tx
    ELSE IF status[r] = 500 THEN "failed" ELSE "rejected"

Promise == INSTANCE IdempotentLedger WITH
    asked <- key, booked <- ledger, announced <- events,
    reply <- [r \in Request |-> Reply(r)]

ImplementsPromise == Promise!Spec
==============================================================================
