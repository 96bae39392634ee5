----------------------- MODULE CreateTransactionProofs -----------------------
(***************************************************************************)
(* Safety of CreateTransaction for every set of requests, keys and bodies  *)
(* and every set of faults.                                                *)
(***************************************************************************)
EXTENDS CreateTransaction, TLAPS

(* A request that has arrived has a key.                                   *)
Asked == \A r \in Request : pc[r] # "idle" => key[r] \in Key

TypeInv == TypeOK /\ Asked

USE DEF Goto

(* The values of every variable keep their type, and a request keeps the
   key it arrived with.                                                    *)
LEMMA TypeStep == TypeInv /\ [Next]_vars => TypeInv'
<1> SUFFICES ASSUME TypeInv, [Next]_vars
             PROVE  TypeInv'
    OBVIOUS
<1> USE RetriesAssumption DEF TypeInv, TypeOK, Asked, Holding, Running, Ended,
        Parts, reqVars, redisVars, dbVars
<1>1. ASSUME NEW r \in Request, Arrive(r) PROVE TypeInv'
  <2>1. PICK k \in Key, b \in Body :
          /\ key' = [key EXCEPT ![r] = k]
          /\ body' = [body EXCEPT ![r] = b]
          /\ IF b \in Balanced
                THEN Goto(r, "obtain") /\ UNCHANGED status
                ELSE Return(r, 422)
    BY <1>1 DEF Arrive
  <2>2. QED
    BY <1>1, <2>1 DEF Arrive, Return
<1>2. ASSUME NEW r \in Request, Obtain(r) PROVE TypeInv'
  BY <1>2 DEF Obtain
<1>3. ASSUME NEW r \in Request, ObtainBusy(r) PROVE TypeInv'
  BY <1>3 DEF ObtainBusy, Return
<1>4. ASSUME NEW r \in Request, ObtainFails(r) PROVE TypeInv'
  BY <1>4 DEF ObtainFails, Return
<1>5. ASSUME NEW r \in Request, Replay(r) PROVE TypeInv'
  BY <1>5 DEF Replay, Return
<1>6. ASSUME NEW r \in Request, NoReplay(r) PROVE TypeInv'
  BY <1>6 DEF NoReplay
<1>7. ASSUME NEW r \in Request, InsertTransaction(r) PROVE TypeInv'
  BY <1>7 DEF InsertTransaction
<1>8. ASSUME NEW r \in Request, InsertRefused(r) PROVE TypeInv'
  BY <1>8 DEF InsertRefused, Return
<1>9. ASSUME NEW r \in Request, InsertPostings(r) PROVE TypeInv'
  BY <1>9 DEF InsertPostings, Return, Rollback
<1>10. ASSUME NEW r \in Request, WriteOutbox(r) PROVE TypeInv'
  BY <1>10 DEF WriteOutbox
<1>11. ASSUME NEW r \in Request, StatementFails(r) PROVE TypeInv'
  BY <1>11 DEF StatementFails, Return, Rollback
<1>12. ASSUME NEW r \in Request, Commit(r) PROVE TypeInv'
  BY <1>12 DEF Commit, Apply, Rollback
<1>13. ASSUME NEW r \in Request, CommitFails(r) PROVE TypeInv'
  BY <1>13 DEF CommitFails, Return, Rollback
<1>14. ASSUME NEW r \in Request, CommitInDoubt(r) PROVE TypeInv'
  BY <1>14 DEF CommitInDoubt, Return
<1>15. ASSUME NEW r \in Request, FetchPostings(r) PROVE TypeInv'
  BY <1>15 DEF FetchPostings, Receipt
<1>16. ASSUME NEW r \in Request, StoreIdempotencyKey(r) PROVE TypeInv'
  BY <1>16 DEF StoreIdempotencyKey, Return
<1>17. ASSUME NEW r \in Request, Release(r) PROVE TypeInv'
  BY <1>17 DEF Release
<1>18. ASSUME NEW r \in Request, Resolve(r) PROVE TypeInv'
  BY <1>18 DEF Resolve, ResolveCommit, ResolveAbort, Apply, Rollback
<1>19. ASSUME NEW r \in Request, Cancel(r) PROVE TypeInv'
  BY <1>19 DEF Cancel
<1>20. ASSUME NEW r \in Request, Crash(r) PROVE TypeInv'
  BY <1>20 DEF Crash, Rollback
<1>21. ASSUME NEW k \in Key, ExpireLock(k) \/ ExpireCache(k) PROVE TypeInv'
  BY <1>21 DEF ExpireLock, ExpireCache
<1>22. CASE UNCHANGED vars
  BY <1>22 DEF vars
<1>23. QED
  BY <1>1, <1>2, <1>3, <1>4, <1>5, <1>6, <1>7, <1>8, <1>9, <1>10, <1>11,
     <1>12, <1>13, <1>14, <1>15, <1>16, <1>17, <1>18, <1>19, <1>20, <1>21,
     <1>22 DEF Next, Proceed

(* TypeOK holds in every reachable state of the protocol.                  *)
THEOREM TypeCorrect == Spec => []TypeOK
<1>1. Init => TypeInv
  BY RetriesAssumption DEF Init, TypeInv, TypeOK, Asked
<1>2. TypeInv => TypeOK
  BY DEF TypeInv
<1>3. QED
  BY <1>1, <1>2, TypeStep, PTL DEF Spec

------------------------------------------------------------------------------
(* Uniqueness and atomicity.  The inductive invariant ties the uncommitted
   work to the step the request has reached, and extends uniqueness from
   the committed rows to the uncommitted ones that COMMIT would add.       *)

WorkOf(r) ==
    /\ pc[r] \in {"idle", "obtain", "get", "insert", "fetch", "set"}
          => work[r] = {}
    /\ pc[r] = "postings" => work[r] = {"row"}
    /\ pc[r] = "outbox" => work[r] = {"row", "postings"}
    /\ pc[r] = "commit" => work[r] = Parts
    /\ work[r] = {} \/ work[r] = Parts \/ pc[r] \in {"postings", "outbox"}
    /\ pc[r] \in {"fetch", "set"} => r \in ledger
    /\ r \in ledger => /\ work[r] = {}
                       /\ pc[r] \in {"fetch", "set", "release", "done", "dead"}

WorkInv == \A r \in Request : WorkOf(r)

UniqueInv ==
    \A r, s \in Request :
        /\ r \in ledger \/ "row" \in work[r]
        /\ s \in ledger \/ "row" \in work[s]
        /\ key[r] = key[s]
        => r = s

BookInv == TypeInv /\ WorkInv /\ BooksAreWhole /\ UniqueInv

(* Every step keeps the books whole and the rows of a key unique.        *)
LEMMA BookStep == BookInv /\ [Next]_vars => BookInv'
<1> SUFFICES ASSUME BookInv, [Next]_vars
             PROVE  (WorkInv /\ BooksAreWhole /\ UniqueInv)'
    BY TypeStep DEF BookInv
<1> USE DEF BookInv, TypeInv, TypeOK, Asked, WorkInv, WorkOf, BooksAreWhole,
        UniqueInv, Holding, Running, Ended, Parts, reqVars, redisVars, dbVars
<1>1. ASSUME NEW r \in Request, Arrive(r)
       PROVE  (WorkInv /\ BooksAreWhole /\ UniqueInv)'
  BY <1>1 DEF Arrive, Return
<1>2. ASSUME NEW r \in Request, Obtain(r)
       PROVE  (WorkInv /\ BooksAreWhole /\ UniqueInv)'
  BY <1>2 DEF Obtain
<1>3. ASSUME NEW r \in Request, ObtainBusy(r)
       PROVE  (WorkInv /\ BooksAreWhole /\ UniqueInv)'
  BY <1>3 DEF ObtainBusy, Return
<1>4. ASSUME NEW r \in Request, ObtainFails(r)
       PROVE  (WorkInv /\ BooksAreWhole /\ UniqueInv)'
  BY <1>4 DEF ObtainFails, Return
<1>5. ASSUME NEW r \in Request, Replay(r)
       PROVE  (WorkInv /\ BooksAreWhole /\ UniqueInv)'
  BY <1>5 DEF Replay, Return
<1>6. ASSUME NEW r \in Request, NoReplay(r)
       PROVE  (WorkInv /\ BooksAreWhole /\ UniqueInv)'
  BY <1>6 DEF NoReplay
<1>7. ASSUME NEW r \in Request, InsertTransaction(r)
       PROVE  (WorkInv /\ BooksAreWhole /\ UniqueInv)'
  BY <1>7 DEF InsertTransaction, Collides, InFlight
<1>8. ASSUME NEW r \in Request, InsertRefused(r)
       PROVE  (WorkInv /\ BooksAreWhole /\ UniqueInv)'
  BY <1>8 DEF InsertRefused, Return
<1>9. ASSUME NEW r \in Request, InsertPostings(r)
       PROVE  (WorkInv /\ BooksAreWhole /\ UniqueInv)'
  BY <1>9 DEF InsertPostings, Return, Rollback
<1>10. ASSUME NEW r \in Request, WriteOutbox(r)
       PROVE  (WorkInv /\ BooksAreWhole /\ UniqueInv)'
  BY <1>10 DEF WriteOutbox
<1>11. ASSUME NEW r \in Request, StatementFails(r)
       PROVE  (WorkInv /\ BooksAreWhole /\ UniqueInv)'
  BY <1>11 DEF StatementFails, Return, Rollback
<1>12. ASSUME NEW r \in Request, Commit(r)
       PROVE  (WorkInv /\ BooksAreWhole /\ UniqueInv)'
  BY <1>12 DEF Commit, Apply, Rollback
<1>13. ASSUME NEW r \in Request, CommitFails(r)
       PROVE  (WorkInv /\ BooksAreWhole /\ UniqueInv)'
  BY <1>13 DEF CommitFails, Return, Rollback
<1>14. ASSUME NEW r \in Request, CommitInDoubt(r)
       PROVE  (WorkInv /\ BooksAreWhole /\ UniqueInv)'
  BY <1>14 DEF CommitInDoubt, Return
<1>15. ASSUME NEW r \in Request, FetchPostings(r)
       PROVE  (WorkInv /\ BooksAreWhole /\ UniqueInv)'
  BY <1>15 DEF FetchPostings
<1>16. ASSUME NEW r \in Request, StoreIdempotencyKey(r)
       PROVE  (WorkInv /\ BooksAreWhole /\ UniqueInv)'
  BY <1>16 DEF StoreIdempotencyKey, Return
<1>17. ASSUME NEW r \in Request, Release(r)
       PROVE  (WorkInv /\ BooksAreWhole /\ UniqueInv)'
  BY <1>17 DEF Release
<1>18. ASSUME NEW r \in Request, Resolve(r)
       PROVE  (WorkInv /\ BooksAreWhole /\ UniqueInv)'
  <2>1. work[r] = Parts
    BY <1>18 DEF Resolve, ResolveCommit, ResolveAbort, InDoubt
  <2>2. CASE ResolveCommit(r)
    <3>1. /\ ledger' = ledger \cup {r} /\ posted' = posted \cup {r}
          /\ events' = events \cup {r} /\ work' = [work EXCEPT ![r] = {}]
          /\ pc[r] \in {"release", "done", "dead"}
          /\ UNCHANGED <<pc, key>>
      BY <2>1, <2>2 DEF ResolveCommit, Apply, Rollback, InDoubt
    <3>2. WorkInv'
      BY <3>1
    <3>3. BooksAreWhole'
      BY <3>1
    <3>4. UniqueInv'
      BY <2>1, <3>1
    <3>5. QED
      BY <3>2, <3>3, <3>4
  <2>3. CASE ResolveAbort(r)
    BY <2>3 DEF ResolveAbort, Rollback, InDoubt
  <2>4. QED
    BY <1>18, <2>2, <2>3 DEF Resolve
<1>19. ASSUME NEW r \in Request, Cancel(r)
       PROVE  (WorkInv /\ BooksAreWhole /\ UniqueInv)'
  BY <1>19 DEF Cancel
<1>20. ASSUME NEW r \in Request, Crash(r)
       PROVE  (WorkInv /\ BooksAreWhole /\ UniqueInv)'
  BY <1>20 DEF Crash, Rollback
<1>21. ASSUME NEW k \in Key, ExpireLock(k) \/ ExpireCache(k)
       PROVE  (WorkInv /\ BooksAreWhole /\ UniqueInv)'
  BY <1>21 DEF ExpireLock, ExpireCache
<1>22. CASE UNCHANGED vars
  BY <1>22 DEF vars
<1>23. QED
  BY <1>1, <1>2, <1>3, <1>4, <1>5, <1>6, <1>7, <1>8, <1>9, <1>10, <1>11,
     <1>12, <1>13, <1>14, <1>15, <1>16, <1>17, <1>18, <1>19, <1>20, <1>21,
     <1>22 DEF Next, Proceed

(* Whatever happens to locks, caches, replies and processes, two requests
   with one idempotency key never both commit a transaction.               *)
THEOREM UniqueTransactions == Spec => []OneTransactionPerKey
<1>1. Init => BookInv
  BY RetriesAssumption DEF Init, BookInv, TypeInv, TypeOK, Asked, WorkInv,
     WorkOf, BooksAreWhole, UniqueInv
<1>2. BookInv => OneTransactionPerKey
  BY DEF BookInv, UniqueInv, OneTransactionPerKey, TypeInv, TypeOK
<1>3. QED
  BY <1>1, <1>2, BookStep, PTL DEF Spec

(* A transaction, its postings and its outbox event are committed together
   or not at all.                                                          *)
THEOREM AtomicBooks == Spec => []BooksAreWhole
<1>1. Init => BookInv
  BY RetriesAssumption DEF Init, BookInv, TypeInv, TypeOK, Asked, WorkInv,
     WorkOf, BooksAreWhole, UniqueInv
<1>2. BookInv => BooksAreWhole
  BY DEF BookInv
<1>3. QED
  BY <1>1, <1>2, BookStep, PTL DEF Spec

------------------------------------------------------------------------------
(* Responses.  A response is true when it shows a committed transaction of
   the right key and is the response that transaction's own request built;
   that request builds it once, so every copy agrees with it.              *)

TrueFor(v, k) ==
    /\ v.tx \in ledger
    /\ key[v.tx] = k
    /\ receipt[v.tx] = v

ReceiptOf(r) ==
    /\ receipt[r] # None => TrueFor(receipt[r], key[r])
    /\ receipt[r] # None => pc[r] \in {"set", "release", "done", "dead"}
    /\ pc[r] = "set" \/ status[r] = 201 => receipt[r] # None

ReceiptInv ==
    /\ \A r \in Request : ReceiptOf(r)
    /\ \A k \in Key : cache[k] # None => TrueFor(cache[k], k)

ResponseInv == BookInv /\ ReceiptInv

(* Every step keeps all responses true, those in the cache included.     *)
LEMMA ReceiptStep == ResponseInv /\ [Next]_vars => ResponseInv'
<1> SUFFICES ASSUME ResponseInv, [Next]_vars
             PROVE  ReceiptInv'
    BY BookStep DEF ResponseInv
<1> BookInv'
    BY BookStep DEF ResponseInv
<1> USE NoneAssumption
        DEF ResponseInv, ReceiptInv, ReceiptOf, TrueFor, BookInv, TypeInv,
        TypeOK, Asked, WorkInv, WorkOf, Receipt, Holding, Running, Ended,
        reqVars, redisVars, dbVars
<1>1. ASSUME NEW r \in Request, Arrive(r) PROVE ReceiptInv'
  BY <1>1 DEF Arrive, Return
<1>2. ASSUME NEW r \in Request, Obtain(r) PROVE ReceiptInv'
  BY <1>2 DEF Obtain
<1>3. ASSUME NEW r \in Request, ObtainBusy(r) PROVE ReceiptInv'
  BY <1>3 DEF ObtainBusy, Return
<1>4. ASSUME NEW r \in Request, ObtainFails(r) PROVE ReceiptInv'
  BY <1>4 DEF ObtainFails, Return
<1>5. ASSUME NEW r \in Request, Replay(r) PROVE ReceiptInv'
  BY <1>5 DEF Replay, Return
<1>6. ASSUME NEW r \in Request, NoReplay(r) PROVE ReceiptInv'
  BY <1>6 DEF NoReplay
<1>7. ASSUME NEW r \in Request, InsertTransaction(r) PROVE ReceiptInv'
  BY <1>7 DEF InsertTransaction
<1>8. ASSUME NEW r \in Request, InsertRefused(r) PROVE ReceiptInv'
  BY <1>8 DEF InsertRefused, Return
<1>9. ASSUME NEW r \in Request, InsertPostings(r) PROVE ReceiptInv'
  BY <1>9 DEF InsertPostings, Return, Rollback
<1>10. ASSUME NEW r \in Request, WriteOutbox(r) PROVE ReceiptInv'
  BY <1>10 DEF WriteOutbox
<1>11. ASSUME NEW r \in Request, StatementFails(r) PROVE ReceiptInv'
  BY <1>11 DEF StatementFails, Return, Rollback
<1>12. ASSUME NEW r \in Request, Commit(r) PROVE ReceiptInv'
  BY <1>12 DEF Commit, Apply, Rollback
<1>13. ASSUME NEW r \in Request, CommitFails(r) PROVE ReceiptInv'
  BY <1>13 DEF CommitFails, Return, Rollback
<1>14. ASSUME NEW r \in Request, CommitInDoubt(r) PROVE ReceiptInv'
  BY <1>14 DEF CommitInDoubt, Return
<1>15. ASSUME NEW r \in Request, FetchPostings(r) PROVE ReceiptInv'
  BY <1>15 DEF FetchPostings
<1>16. ASSUME NEW r \in Request, StoreIdempotencyKey(r) PROVE ReceiptInv'
  BY <1>16 DEF StoreIdempotencyKey, Return
<1>17. ASSUME NEW r \in Request, Release(r) PROVE ReceiptInv'
  BY <1>17 DEF Release
<1>18. ASSUME NEW r \in Request, Resolve(r) PROVE ReceiptInv'
  BY <1>18 DEF Resolve, ResolveCommit, ResolveAbort, Apply, Rollback
<1>19. ASSUME NEW r \in Request, Cancel(r) PROVE ReceiptInv'
  BY <1>19 DEF Cancel
<1>20. ASSUME NEW r \in Request, Crash(r) PROVE ReceiptInv'
  BY <1>20 DEF Crash, Rollback
<1>21. ASSUME NEW k \in Key, ExpireLock(k) \/ ExpireCache(k) PROVE ReceiptInv'
  <2>1. CASE ExpireLock(k)
    BY <2>1 DEF ExpireLock
  <2>2. CASE ExpireCache(k)
    BY <2>2 DEF ExpireCache
  <2>3. QED
    BY <1>21, <2>1, <2>2
<1>22. CASE UNCHANGED vars
  BY <1>22 DEF vars
<1>23. QED
  BY <1>1, <1>2, <1>3, <1>4, <1>5, <1>6, <1>7, <1>8, <1>9, <1>10, <1>11,
     <1>12, <1>13, <1>14, <1>15, <1>16, <1>17, <1>18, <1>19, <1>20, <1>21,
     <1>22 DEF Next, Proceed

(* There is no response at the start.                                    *)
LEMMA ReceiptInit == Init => ResponseInv
  BY RetriesAssumption, NoneAssumption
     DEF Init, BookInv, TypeInv, TypeOK, Asked, WorkInv, WorkOf,
     BooksAreWhole, UniqueInv, ResponseInv, ReceiptInv, ReceiptOf

(* Every success of a key shows the same response of the one transaction
   committed for that key.                                                 *)
THEOREM AgreeingAnswers == Spec => []AnswersAgree
<1>1. ResponseInv => AnswersAgree
  <2> SUFFICES ASSUME ResponseInv,
                      NEW r \in Request, NEW s \in Request,
                      Answered(r, 201), Answered(s, 201), key[r] = key[s]
               PROVE  /\ receipt[r] = receipt[s]
                      /\ receipt[r].tx \in ledger
                      /\ key[receipt[r].tx] = key[r]
    BY DEF AnswersAgree
  <2>1. TrueFor(receipt[r], key[r]) /\ TrueFor(receipt[s], key[r])
    BY DEF ResponseInv, ReceiptInv, ReceiptOf, Answered
  <2>2. receipt[r].tx = receipt[s].tx
    BY <2>1 DEF TrueFor, ResponseInv, BookInv, UniqueInv, TypeInv, TypeOK
  <2>3. QED
    BY <2>1, <2>2 DEF TrueFor
<1>2. QED
  BY <1>1, ReceiptInit, ReceiptStep, PTL DEF Spec

(* The cache holds nothing but responses of committed transactions.        *)
THEOREM FaithfulCache == Spec => []CacheFaithful
<1>1. ResponseInv => CacheFaithful
  BY DEF ResponseInv, ReceiptInv, TrueFor, CacheFaithful
<1>2. QED
  BY <1>1, ReceiptInit, ReceiptStep, PTL DEF Spec

------------------------------------------------------------------------------
(* The lock.  As long as the lock cannot vanish under a live holder, a
   request between Obtain and Release whose context is live still holds
   the lock of its key.                                                    *)

LeaseInv ==
    \A r \in Request : pc[r] \in Holding /\ ~ctxDone[r] => lock[key[r]] = r

(* Every step leaves the lock with its live holder.                      *)
LEMMA LeaseStep ==
    ASSUME "lease" \notin Faults
    PROVE  TypeInv /\ LeaseInv /\ [Next]_vars => LeaseInv'
<1> SUFFICES ASSUME TypeInv, LeaseInv, [Next]_vars
             PROVE  LeaseInv'
    OBVIOUS
<1> USE NoneAssumption
        DEF LeaseInv, TypeInv, TypeOK, Asked, Holding, Running, Ended,
        reqVars, redisVars, dbVars
<1>1. ASSUME NEW r \in Request, Arrive(r) PROVE LeaseInv'
  BY <1>1 DEF Arrive, Return
<1>2. ASSUME NEW r \in Request, Obtain(r) PROVE LeaseInv'
  BY <1>2 DEF Obtain
<1>3. ASSUME NEW r \in Request, ObtainBusy(r) PROVE LeaseInv'
  BY <1>3 DEF ObtainBusy, Return
<1>4. ASSUME NEW r \in Request, ObtainFails(r) PROVE LeaseInv'
  BY <1>4 DEF ObtainFails, Return
<1>5. ASSUME NEW r \in Request, Replay(r) PROVE LeaseInv'
  BY <1>5 DEF Replay, Return
<1>6. ASSUME NEW r \in Request, NoReplay(r) PROVE LeaseInv'
  BY <1>6 DEF NoReplay
<1>7. ASSUME NEW r \in Request, InsertTransaction(r) PROVE LeaseInv'
  BY <1>7 DEF InsertTransaction
<1>8. ASSUME NEW r \in Request, InsertRefused(r) PROVE LeaseInv'
  BY <1>8 DEF InsertRefused, Return
<1>9. ASSUME NEW r \in Request, InsertPostings(r) PROVE LeaseInv'
  BY <1>9 DEF InsertPostings, Return, Rollback
<1>10. ASSUME NEW r \in Request, WriteOutbox(r) PROVE LeaseInv'
  BY <1>10 DEF WriteOutbox
<1>11. ASSUME NEW r \in Request, StatementFails(r) PROVE LeaseInv'
  BY <1>11 DEF StatementFails, Return, Rollback
<1>12. ASSUME NEW r \in Request, Commit(r) PROVE LeaseInv'
  BY <1>12 DEF Commit, Apply, Rollback
<1>13. ASSUME NEW r \in Request, CommitFails(r) PROVE LeaseInv'
  BY <1>13 DEF CommitFails, Return, Rollback
<1>14. ASSUME NEW r \in Request, CommitInDoubt(r) PROVE LeaseInv'
  BY <1>14 DEF CommitInDoubt, Return
<1>15. ASSUME NEW r \in Request, FetchPostings(r) PROVE LeaseInv'
  BY <1>15 DEF FetchPostings
<1>16. ASSUME NEW r \in Request, StoreIdempotencyKey(r) PROVE LeaseInv'
  BY <1>16 DEF StoreIdempotencyKey, Return
<1>17. ASSUME NEW r \in Request, Release(r) PROVE LeaseInv'
  BY <1>17 DEF Release
<1>18. ASSUME NEW r \in Request, Resolve(r) PROVE LeaseInv'
  BY <1>18 DEF Resolve, ResolveCommit, ResolveAbort, Apply, Rollback
<1>19. ASSUME NEW r \in Request, Cancel(r) PROVE LeaseInv'
  BY <1>19 DEF Cancel
<1>20. ASSUME NEW r \in Request, Crash(r) PROVE LeaseInv'
  BY <1>20 DEF Crash, Rollback
<1>21. ASSUME NEW k \in Key, ExpireLock(k) \/ ExpireCache(k) PROVE LeaseInv'
  BY <1>21 DEF ExpireLock, ExpireCache, LockMayExpire
<1>22. CASE UNCHANGED vars
  BY <1>22 DEF vars
<1>23. QED
  BY <1>1, <1>2, <1>3, <1>4, <1>5, <1>6, <1>7, <1>8, <1>9, <1>10, <1>11,
     <1>12, <1>13, <1>14, <1>15, <1>16, <1>17, <1>18, <1>19, <1>20, <1>21,
     <1>22 DEF Next, Proceed

(* Without lease loss, two live requests of one key are never both between
   Obtain and Release: the lock's TTL is safe against the request timeout. *)
THEOREM ExclusiveLock ==
    "lease" \notin Faults => (Spec => []MutualExclusion)
<1> SUFFICES ASSUME "lease" \notin Faults
             PROVE  Spec => []MutualExclusion
    OBVIOUS
<1>1. Init => TypeInv /\ LeaseInv
  BY RetriesAssumption DEF Init, TypeInv, TypeOK, Asked, LeaseInv, Holding
<1>2. TypeInv /\ LeaseInv /\ [Next]_vars => (TypeInv /\ LeaseInv)'
  BY TypeStep, LeaseStep
<1>3. TypeInv /\ LeaseInv => MutualExclusion
  BY DEF LeaseInv, MutualExclusion
<1>4. QED
  BY <1>1, <1>2, <1>3, PTL DEF Spec

------------------------------------------------------------------------------
(* Errors with a cause, when crashes and cancellations are the only faults.
   While no request of a key has been cut short, the key's cache is empty
   as long as one of them works below Step 2, and a committed transaction
   is either still on its way to the cache or in it.                       *)

OnlyCutShort == Faults \subseteq {"crash", "cancel"}
Calm(k) == \A r \in Request : key[r] = k => ~Disturbed(r)
Fresh == \A r \in Request : pc[r] = "idle" => ~ctxDone[r] /\ status[r] = 0
DoubtInv ==
    \A r \in Request :
        work[r] # {} /\ pc[r] \in {"release", "done"} => ctxDone[r]

CalmOf(r) ==
    /\ pc[r] \in {"insert", "postings", "outbox", "commit", "fetch", "set"}
          => cache[key[r]] = None
    /\ r \in ledger => pc[r] \in {"fetch", "set"} \/ cache[key[r]] # None
    /\ status[r] = 500 => ~Sound(r)

CalmInv == \A r \in Request : Calm(key[r]) /\ pc[r] # "idle" => CalmOf(r)

CauseInv == ResponseInv /\ LeaseInv /\ Fresh /\ DoubtInv /\ CalmInv

(* A call that has not arrived is untouched, and a COMMIT is in doubt only
   after its request was cut short.                                      *)
LEMMA FreshStep ==
    ASSUME OnlyCutShort
    PROVE  BookInv /\ Fresh /\ DoubtInv /\ [Next]_vars => (Fresh /\ DoubtInv)'
<1> SUFFICES ASSUME BookInv, Fresh, DoubtInv, [Next]_vars
             PROVE  (Fresh /\ DoubtInv)'
    OBVIOUS
<1> USE DEF OnlyCutShort, Fresh, DoubtInv, BookInv, WorkInv, WorkOf, TypeInv,
        TypeOK, Holding, Running, Ended, reqVars, redisVars, dbVars
<1>1. ASSUME NEW r \in Request, Arrive(r) PROVE (Fresh /\ DoubtInv)'
  BY <1>1 DEF Arrive, Return
<1>2. ASSUME NEW r \in Request, Obtain(r) PROVE (Fresh /\ DoubtInv)'
  BY <1>2 DEF Obtain
<1>3. ASSUME NEW r \in Request, ObtainBusy(r) PROVE (Fresh /\ DoubtInv)'
  BY <1>3 DEF ObtainBusy, Return
<1>4. ASSUME NEW r \in Request, ObtainFails(r) PROVE (Fresh /\ DoubtInv)'
  BY <1>4 DEF ObtainFails, Return
<1>5. ASSUME NEW r \in Request, Replay(r) PROVE (Fresh /\ DoubtInv)'
  BY <1>5 DEF Replay, Return
<1>6. ASSUME NEW r \in Request, NoReplay(r) PROVE (Fresh /\ DoubtInv)'
  BY <1>6 DEF NoReplay
<1>7. ASSUME NEW r \in Request, InsertTransaction(r) PROVE (Fresh /\ DoubtInv)'
  BY <1>7 DEF InsertTransaction
<1>8. ASSUME NEW r \in Request, InsertRefused(r) PROVE (Fresh /\ DoubtInv)'
  BY <1>8 DEF InsertRefused, Return
<1>9. ASSUME NEW r \in Request, InsertPostings(r) PROVE (Fresh /\ DoubtInv)'
  BY <1>9 DEF InsertPostings, Return, Rollback
<1>10. ASSUME NEW r \in Request, WriteOutbox(r) PROVE (Fresh /\ DoubtInv)'
  BY <1>10 DEF WriteOutbox
<1>11. ASSUME NEW r \in Request, StatementFails(r) PROVE (Fresh /\ DoubtInv)'
  BY <1>11 DEF StatementFails, Return, Rollback
<1>12. ASSUME NEW r \in Request, Commit(r) PROVE (Fresh /\ DoubtInv)'
  BY <1>12 DEF Commit, Apply, Rollback
<1>13. ASSUME NEW r \in Request, CommitFails(r) PROVE (Fresh /\ DoubtInv)'
  BY <1>13 DEF CommitFails, Return, Rollback
<1>14. ASSUME NEW r \in Request, CommitInDoubt(r) PROVE (Fresh /\ DoubtInv)'
  BY <1>14 DEF CommitInDoubt, Return
<1>15. ASSUME NEW r \in Request, FetchPostings(r) PROVE (Fresh /\ DoubtInv)'
  BY <1>15 DEF FetchPostings
<1>16. ASSUME NEW r \in Request, StoreIdempotencyKey(r) PROVE (Fresh /\ DoubtInv)'
  BY <1>16 DEF StoreIdempotencyKey, Return
<1>17. ASSUME NEW r \in Request, Release(r) PROVE (Fresh /\ DoubtInv)'
  BY <1>17 DEF Release
<1>18. ASSUME NEW r \in Request, Resolve(r) PROVE (Fresh /\ DoubtInv)'
  BY <1>18 DEF Resolve, ResolveCommit, ResolveAbort, Apply, Rollback
<1>19. ASSUME NEW r \in Request, Cancel(r) PROVE (Fresh /\ DoubtInv)'
  BY <1>19 DEF Cancel
<1>20. ASSUME NEW r \in Request, Crash(r) PROVE (Fresh /\ DoubtInv)'
  BY <1>20 DEF Crash, Rollback
<1>21. ASSUME NEW k \in Key, ExpireLock(k) \/ ExpireCache(k) PROVE (Fresh /\ DoubtInv)'
  BY <1>21 DEF ExpireLock, ExpireCache
<1>22. CASE UNCHANGED vars
  BY <1>22 DEF vars
<1>23. QED
  BY <1>1, <1>2, <1>3, <1>4, <1>5, <1>6, <1>7, <1>8, <1>9, <1>10, <1>11,
     <1>12, <1>13, <1>14, <1>15, <1>16, <1>17, <1>18, <1>19, <1>20, <1>21,
     <1>22 DEF Next, Proceed

(* What a request has asked for, and that it was cut short, is final.      *)
Keeps(r) ==
    /\ key'[r] = key[r] /\ body'[r] = body[r]
    /\ Disturbed(r) => Disturbed(r)'
    /\ pc'[r] # "idle"

(* Every step keeps them.                                                *)
LEMMA KeepsStep ==
    ASSUME TypeInv, [Next]_vars, NEW q \in Request, pc[q] # "idle"
    PROVE  Keeps(q)
<1> USE DEF Keeps, Disturbed, TypeInv, TypeOK, Holding, Running, Ended,
        reqVars, redisVars, dbVars
<1>1. ASSUME NEW r \in Request, Arrive(r) PROVE Keeps(q)
  BY <1>1 DEF Arrive, Return
<1>2. ASSUME NEW r \in Request, Obtain(r) PROVE Keeps(q)
  BY <1>2 DEF Obtain
<1>3. ASSUME NEW r \in Request, ObtainBusy(r) PROVE Keeps(q)
  BY <1>3 DEF ObtainBusy, Return
<1>4. ASSUME NEW r \in Request, ObtainFails(r) PROVE Keeps(q)
  BY <1>4 DEF ObtainFails, Return
<1>5. ASSUME NEW r \in Request, Replay(r) PROVE Keeps(q)
  BY <1>5 DEF Replay, Return
<1>6. ASSUME NEW r \in Request, NoReplay(r) PROVE Keeps(q)
  BY <1>6 DEF NoReplay
<1>7. ASSUME NEW r \in Request, InsertTransaction(r) PROVE Keeps(q)
  BY <1>7 DEF InsertTransaction
<1>8. ASSUME NEW r \in Request, InsertRefused(r) PROVE Keeps(q)
  BY <1>8 DEF InsertRefused, Return
<1>9. ASSUME NEW r \in Request, InsertPostings(r) PROVE Keeps(q)
  BY <1>9 DEF InsertPostings, Return, Rollback
<1>10. ASSUME NEW r \in Request, WriteOutbox(r) PROVE Keeps(q)
  BY <1>10 DEF WriteOutbox
<1>11. ASSUME NEW r \in Request, StatementFails(r) PROVE Keeps(q)
  BY <1>11 DEF StatementFails, Return, Rollback
<1>12. ASSUME NEW r \in Request, Commit(r) PROVE Keeps(q)
  BY <1>12 DEF Commit, Apply, Rollback
<1>13. ASSUME NEW r \in Request, CommitFails(r) PROVE Keeps(q)
  BY <1>13 DEF CommitFails, Return, Rollback
<1>14. ASSUME NEW r \in Request, CommitInDoubt(r) PROVE Keeps(q)
  BY <1>14 DEF CommitInDoubt, Return
<1>15. ASSUME NEW r \in Request, FetchPostings(r) PROVE Keeps(q)
  BY <1>15 DEF FetchPostings
<1>16. ASSUME NEW r \in Request, StoreIdempotencyKey(r) PROVE Keeps(q)
  BY <1>16 DEF StoreIdempotencyKey, Return
<1>17. ASSUME NEW r \in Request, Release(r) PROVE Keeps(q)
  BY <1>17 DEF Release
<1>18. ASSUME NEW r \in Request, Resolve(r) PROVE Keeps(q)
  BY <1>18 DEF Resolve, ResolveCommit, ResolveAbort, Apply, Rollback
<1>19. ASSUME NEW r \in Request, Cancel(r) PROVE Keeps(q)
  BY <1>19 DEF Cancel
<1>20. ASSUME NEW r \in Request, Crash(r) PROVE Keeps(q)
  BY <1>20 DEF Crash, Rollback
<1>21. ASSUME NEW k \in Key, ExpireLock(k) \/ ExpireCache(k) PROVE Keeps(q)
  BY <1>21 DEF ExpireLock, ExpireCache
<1>22. CASE UNCHANGED vars
  BY <1>22 DEF vars
<1>23. QED
  BY <1>1, <1>2, <1>3, <1>4, <1>5, <1>6, <1>7, <1>8, <1>9, <1>10, <1>11,
     <1>12, <1>13, <1>14, <1>15, <1>16, <1>17, <1>18, <1>19, <1>20, <1>21,
     <1>22 DEF Next, Proceed

(* No step turns a disturbed key calm.                                     *)
LEMMA CalmBack ==
    ASSUME TypeInv, Fresh, [Next]_vars, NEW r \in Request, pc[r] # "idle",
           Calm(key[r])'
    PROVE  Calm(key[r])
<1> SUFFICES ASSUME NEW s \in Request, key[s] = key[r]
             PROVE  ~Disturbed(s)
    BY DEF Calm
<1>1. key'[r] = key[r]
  BY KeepsStep DEF Keeps
<1>2. CASE pc[s] = "idle"
  BY <1>2 DEF Fresh, Disturbed
<1>3. CASE pc[s] # "idle"
  BY <1>1, <1>3, KeepsStep DEF Keeps, Calm
<1>4. QED
  BY <1>2, <1>3

(* Every step keeps the relation of ledger and cache under a calm key.   *)
LEMMA CalmStep ==
    ASSUME OnlyCutShort
    PROVE  CauseInv /\ [Next]_vars => CalmInv'
<1> SUFFICES ASSUME CauseInv, [Next]_vars,
                    NEW q \in Request, Calm(key[q])', pc'[q] # "idle"
             PROVE  CalmOf(q)'
    BY DEF CalmInv
<1> \A r \in Request : pc[r] # "idle" /\ key[r] = key[q] /\ pc[q] # "idle"
       => ~ctxDone[r] /\ ~ctxDone'[r] /\ pc[r] # "dead" /\ pc'[r] # "dead"
          /\ key'[r] = key[r] /\ body'[r] = body[r] /\ CalmOf(r)
  <2> SUFFICES ASSUME NEW r \in Request, pc[r] # "idle", key[r] = key[q],
                      pc[q] # "idle"
               PROVE  /\ ~Disturbed(r) /\ ~Disturbed(r)' /\ key'[r] = key[r]
                      /\ body'[r] = body[r] /\ CalmOf(r)
      BY DEF Disturbed
  <2>1. Keeps(q) /\ Keeps(r)
    BY KeepsStep DEF CauseInv, ResponseInv, BookInv
  <2>2. Calm(key[q])
    BY CalmBack DEF CauseInv, ResponseInv, BookInv
  <2>3. QED
    BY <2>1, <2>2 DEF Keeps, Calm, CauseInv, CalmInv
<1> USE NoneAssumption
        DEF CauseInv, CalmOf, Sound, ResponseInv, BookInv, Asked,
        WorkInv, WorkOf, TypeInv, TypeOK, Holding, Running, Ended,
        RedisMayFail, DbMayFail, OnlyCutShort, reqVars, redisVars, dbVars
<1>1. ASSUME NEW r \in Request, Arrive(r) PROVE CalmOf(q)'
  <2>1. CASE r = q
    BY <1>1, <2>1 DEF Arrive, Return, Fresh
  <2>2. CASE r # q
    BY <1>1, <2>2 DEF Arrive, Return
  <2>3. QED
    BY <2>1, <2>2
<1>2. ASSUME NEW r \in Request, Obtain(r) PROVE CalmOf(q)'
  BY <1>2 DEF Obtain
<1>3. ASSUME NEW r \in Request, ObtainBusy(r) PROVE CalmOf(q)'
  BY <1>3 DEF ObtainBusy, Return
<1>4. ASSUME NEW r \in Request, ObtainFails(r) PROVE CalmOf(q)'
  BY <1>4 DEF ObtainFails, Return
<1>5. ASSUME NEW r \in Request, Replay(r) PROVE CalmOf(q)'
  BY <1>5 DEF Replay, Return
<1>6. ASSUME NEW r \in Request, NoReplay(r) PROVE CalmOf(q)'
  BY <1>6 DEF NoReplay
<1>7. ASSUME NEW r \in Request, InsertTransaction(r) PROVE CalmOf(q)'
  BY <1>7 DEF InsertTransaction
<1>8. ASSUME NEW r \in Request, InsertRefused(r) PROVE CalmOf(q)'
  <2>1. CASE r = q
    <3>1. PICK t \in ledger \ {q} : key[t] = key[q]
      BY <1>8, <2>1 DEF InsertRefused, Collides
    <3>2. pc[q] = "insert" /\ lock[key[q]] = q
      BY <1>8, <2>1 DEF InsertRefused, LeaseInv
    <3>3. t \in Request /\ pc[t] \in {"fetch", "set"}
      BY <3>1, <3>2
    <3>4. lock[key[t]] = t
      BY <3>1, <3>2, <3>3 DEF LeaseInv
    <3>5. QED
      BY <3>1, <3>2, <3>4
  <2>2. CASE r # q
    BY <1>8, <2>2 DEF InsertRefused, Return
  <2>3. QED
    BY <2>1, <2>2
<1>9. ASSUME NEW r \in Request, InsertPostings(r) PROVE CalmOf(q)'
  BY <1>9 DEF InsertPostings, Return, Rollback
<1>10. ASSUME NEW r \in Request, WriteOutbox(r) PROVE CalmOf(q)'
  BY <1>10 DEF WriteOutbox
<1>11. ASSUME NEW r \in Request, StatementFails(r) PROVE CalmOf(q)'
  BY <1>11 DEF StatementFails, Return, Rollback
<1>12. ASSUME NEW r \in Request, Commit(r) PROVE CalmOf(q)'
  BY <1>12 DEF Commit, Apply, Rollback
<1>13. ASSUME NEW r \in Request, CommitFails(r) PROVE CalmOf(q)'
  BY <1>13 DEF CommitFails, Return, Rollback
<1>14. ASSUME NEW r \in Request, CommitInDoubt(r) PROVE CalmOf(q)'
  BY <1>14 DEF CommitInDoubt, Return
<1>15. ASSUME NEW r \in Request, FetchPostings(r) PROVE CalmOf(q)'
  BY <1>15 DEF FetchPostings
<1>16. ASSUME NEW r \in Request, StoreIdempotencyKey(r) PROVE CalmOf(q)'
  <2>1. CASE r = q
    BY <1>16, <2>1 DEF StoreIdempotencyKey, Return, ReceiptInv, ReceiptOf
  <2>2. CASE r # q /\ key[r] = key[q]
    <3>1. pc[r] = "set" /\ pc[q] # "idle" /\ ~ctxDone[q] /\ ~ctxDone[r]
      BY <1>16, <2>2 DEF StoreIdempotencyKey, Return
    <3>2. lock[key[q]] = r /\ pc[q] \notin Holding /\ receipt[r] # None
      BY <2>2, <3>1 DEF LeaseInv, ReceiptInv, ReceiptOf
    <3>3. QED
      BY <1>16, <2>2, <3>1, <3>2 DEF StoreIdempotencyKey, Return
  <2>3. CASE key[r] # key[q]
    BY <1>16, <2>3 DEF StoreIdempotencyKey, Return
  <2>4. QED
    BY <2>1, <2>2, <2>3
<1>17. ASSUME NEW r \in Request, Release(r) PROVE CalmOf(q)'
  BY <1>17 DEF Release
<1>18. ASSUME NEW r \in Request, Resolve(r) PROVE CalmOf(q)'
  <2>1. CASE r = q
    BY <1>18, <2>1 DEF Resolve, ResolveCommit, ResolveAbort, InDoubt, DoubtInv
  <2>2. CASE r # q
    BY <1>18, <2>2 DEF Resolve, ResolveCommit, ResolveAbort, Apply, Rollback
  <2>3. QED
    BY <2>1, <2>2
<1>19. ASSUME NEW r \in Request, Cancel(r) PROVE CalmOf(q)'
  BY <1>19 DEF Cancel
<1>20. ASSUME NEW r \in Request, Crash(r) PROVE CalmOf(q)'
  BY <1>20 DEF Crash, Rollback
<1>21. ASSUME NEW k \in Key, ExpireLock(k) \/ ExpireCache(k) PROVE CalmOf(q)'
  BY <1>21 DEF ExpireLock, ExpireCache
<1>22. CASE UNCHANGED vars
  BY <1>22 DEF vars
<1>23. QED
  BY <1>1, <1>2, <1>3, <1>4, <1>5, <1>6, <1>7, <1>8, <1>9, <1>10, <1>11,
     <1>12, <1>13, <1>14, <1>15, <1>16, <1>17, <1>18, <1>19, <1>20, <1>21,
     <1>22 DEF Next, Proceed

(* The invariant of CausedErrors holds at the start.                     *)
LEMMA CauseInit == Init => CauseInv
  BY ReceiptInit DEF Init, CauseInv, LeaseInv, Fresh, DoubtInv, CalmInv, Holding

(* With crashes and cancellations as the only faults, a sound request is
   answered 500 only if a request of its key was cut short.                *)
THEOREM CausedErrors == OnlyCutShort => (Spec => []ErrorsHaveACause)
<1> SUFFICES ASSUME OnlyCutShort
             PROVE  Spec => []ErrorsHaveACause
    OBVIOUS
<1>1. CauseInv /\ [Next]_vars => CauseInv'
  <2>1. "lease" \notin Faults
    BY DEF OnlyCutShort
  <2>2. QED
    BY <2>1, ReceiptStep, LeaseStep, FreshStep, CalmStep
    DEF CauseInv, ResponseInv, BookInv
<1>2. CauseInv => ErrorsHaveACause
  <2> SUFFICES ASSUME CauseInv, NEW r \in Request, Answered(r, 500), Sound(r),
                      Calm(key[r])
               PROVE  FALSE
      BY DEF ErrorsHaveACause, Calm
  <2> QED
    BY DEF CauseInv, CalmInv, CalmOf, Answered
<1>3. QED
  BY <1>1, <1>2, CauseInit, PTL DEF Spec

(* Who may be found as the owner of a lock.                                *)
OwnerInv ==
    \A k \in Key : lock[k] # None =>
        /\ key[lock[k]] = k /\ pc[lock[k]] # "idle"
        /\ pc[lock[k]] \in Holding \/ Disturbed(lock[k])

(* A lock always belongs to a request that holds it or was cut short.    *)
LEMMA OwnerStep ==
    ASSUME OnlyCutShort
    PROVE  TypeInv /\ OwnerInv /\ [Next]_vars => OwnerInv'
<1> SUFFICES ASSUME TypeInv, OwnerInv, [Next]_vars
             PROVE  OwnerInv'
    OBVIOUS
<1> USE NoneAssumption
        DEF OwnerInv, Disturbed, TypeInv, TypeOK, Asked, Holding, Running,
        Ended, OnlyCutShort, RedisMayFail, DbMayFail, reqVars, redisVars, dbVars
<1>1. ASSUME NEW r \in Request, Arrive(r) PROVE OwnerInv'
  BY <1>1 DEF Arrive, Return
<1>2. ASSUME NEW r \in Request, Obtain(r) PROVE OwnerInv'
  BY <1>2 DEF Obtain
<1>3. ASSUME NEW r \in Request, ObtainBusy(r) PROVE OwnerInv'
  BY <1>3 DEF ObtainBusy, Return
<1>4. ASSUME NEW r \in Request, ObtainFails(r) PROVE OwnerInv'
  BY <1>4 DEF ObtainFails, Return
<1>5. ASSUME NEW r \in Request, Replay(r) PROVE OwnerInv'
  BY <1>5 DEF Replay, Return
<1>6. ASSUME NEW r \in Request, NoReplay(r) PROVE OwnerInv'
  BY <1>6 DEF NoReplay
<1>7. ASSUME NEW r \in Request, InsertTransaction(r) PROVE OwnerInv'
  BY <1>7 DEF InsertTransaction
<1>8. ASSUME NEW r \in Request, InsertRefused(r) PROVE OwnerInv'
  BY <1>8 DEF InsertRefused, Return
<1>9. ASSUME NEW r \in Request, InsertPostings(r) PROVE OwnerInv'
  BY <1>9 DEF InsertPostings, Return, Rollback
<1>10. ASSUME NEW r \in Request, WriteOutbox(r) PROVE OwnerInv'
  BY <1>10 DEF WriteOutbox
<1>11. ASSUME NEW r \in Request, StatementFails(r) PROVE OwnerInv'
  BY <1>11 DEF StatementFails, Return, Rollback
<1>12. ASSUME NEW r \in Request, Commit(r) PROVE OwnerInv'
  BY <1>12 DEF Commit, Apply, Rollback
<1>13. ASSUME NEW r \in Request, CommitFails(r) PROVE OwnerInv'
  BY <1>13 DEF CommitFails, Return, Rollback
<1>14. ASSUME NEW r \in Request, CommitInDoubt(r) PROVE OwnerInv'
  BY <1>14 DEF CommitInDoubt, Return
<1>15. ASSUME NEW r \in Request, FetchPostings(r) PROVE OwnerInv'
  BY <1>15 DEF FetchPostings
<1>16. ASSUME NEW r \in Request, StoreIdempotencyKey(r) PROVE OwnerInv'
  BY <1>16 DEF StoreIdempotencyKey, Return
<1>17. ASSUME NEW r \in Request, Release(r) PROVE OwnerInv'
  BY <1>17 DEF Release
<1>18. ASSUME NEW r \in Request, Resolve(r) PROVE OwnerInv'
  BY <1>18 DEF Resolve, ResolveCommit, ResolveAbort, Apply, Rollback
<1>19. ASSUME NEW r \in Request, Cancel(r) PROVE OwnerInv'
  BY <1>19 DEF Cancel
<1>20. ASSUME NEW r \in Request, Crash(r) PROVE OwnerInv'
  BY <1>20 DEF Crash, Rollback
<1>21. ASSUME NEW k \in Key, ExpireLock(k) \/ ExpireCache(k) PROVE OwnerInv'
  BY <1>21 DEF ExpireLock, ExpireCache
<1>22. CASE UNCHANGED vars
  BY <1>22 DEF vars
<1>23. QED
  BY <1>1, <1>2, <1>3, <1>4, <1>5, <1>6, <1>7, <1>8, <1>9, <1>10, <1>11,
     <1>12, <1>13, <1>14, <1>15, <1>16, <1>17, <1>18, <1>19, <1>20, <1>21,
     <1>22 DEF Next, Proceed

(* With crashes and cancellations as the only faults, a request that was
   not cut short has given its lock back by the time it returns.           *)
THEOREM LocksGivenBack == OnlyCutShort => (Spec => []NoLockLeftBehind)
<1> SUFFICES ASSUME OnlyCutShort
             PROVE  Spec => []NoLockLeftBehind
    OBVIOUS
<1>1. Init => TypeInv /\ OwnerInv
  BY RetriesAssumption, NoneAssumption
  DEF Init, TypeInv, TypeOK, Asked, OwnerInv
<1>2. TypeInv /\ OwnerInv /\ [Next]_vars => (TypeInv /\ OwnerInv)'
  BY TypeStep, OwnerStep
<1>3. TypeInv /\ OwnerInv => NoLockLeftBehind
  BY NoneAssumption DEF TypeInv, TypeOK, OwnerInv, NoLockLeftBehind, Holding
<1>4. QED
  BY <1>1, <1>2, <1>3, PTL DEF Spec

------------------------------------------------------------------------------
(* Refinement.  What the statuses say about the database.                  *)

StatusOf(r) ==
    /\ pc[r] = "idle" => key[r] = None
    /\ pc[r] \in {"release", "done"} => status[r] # 0
    /\ pc[r] = "release" => status[r] \in {201, 500}
    /\ work[r] # {} => status[r] \in {0, 500}
    /\ status[r] \in {422, 503} => r \notin ledger
    /\ pc[r] \notin {"release", "done", "dead"} => status[r] = 0

StatusInv == \A r \in Request : StatusOf(r)

PromiseInv == ResponseInv /\ StatusInv

(* Every step keeps the relation of status and database.                 *)
LEMMA StatusStep == ResponseInv /\ StatusInv /\ [Next]_vars => StatusInv'
<1> SUFFICES ASSUME ResponseInv, StatusInv, [Next]_vars
             PROVE  StatusInv'
    OBVIOUS
<1> USE NoneAssumption
        DEF ResponseInv, StatusInv, StatusOf, BookInv, TypeInv, TypeOK, Asked,
        WorkInv, WorkOf, Parts, Holding, Running, Ended, reqVars, redisVars,
        dbVars
<1>1. ASSUME NEW r \in Request, Arrive(r) PROVE StatusInv'
  BY <1>1 DEF Arrive, Return
<1>2. ASSUME NEW r \in Request, Obtain(r) PROVE StatusInv'
  BY <1>2 DEF Obtain
<1>3. ASSUME NEW r \in Request, ObtainBusy(r) PROVE StatusInv'
  BY <1>3 DEF ObtainBusy, Return
<1>4. ASSUME NEW r \in Request, ObtainFails(r) PROVE StatusInv'
  BY <1>4 DEF ObtainFails, Return
<1>5. ASSUME NEW r \in Request, Replay(r) PROVE StatusInv'
  BY <1>5 DEF Replay, Return
<1>6. ASSUME NEW r \in Request, NoReplay(r) PROVE StatusInv'
  BY <1>6 DEF NoReplay
<1>7. ASSUME NEW r \in Request, InsertTransaction(r) PROVE StatusInv'
  BY <1>7 DEF InsertTransaction
<1>8. ASSUME NEW r \in Request, InsertRefused(r) PROVE StatusInv'
  BY <1>8 DEF InsertRefused, Return
<1>9. ASSUME NEW r \in Request, InsertPostings(r) PROVE StatusInv'
  BY <1>9 DEF InsertPostings, Return, Rollback
<1>10. ASSUME NEW r \in Request, WriteOutbox(r) PROVE StatusInv'
  BY <1>10 DEF WriteOutbox
<1>11. ASSUME NEW r \in Request, StatementFails(r) PROVE StatusInv'
  BY <1>11 DEF StatementFails, Return, Rollback
<1>12. ASSUME NEW r \in Request, Commit(r) PROVE StatusInv'
  BY <1>12 DEF Commit, Apply, Rollback
<1>13. ASSUME NEW r \in Request, CommitFails(r) PROVE StatusInv'
  BY <1>13 DEF CommitFails, Return, Rollback
<1>14. ASSUME NEW r \in Request, CommitInDoubt(r) PROVE StatusInv'
  BY <1>14 DEF CommitInDoubt, Return
<1>15. ASSUME NEW r \in Request, FetchPostings(r) PROVE StatusInv'
  BY <1>15 DEF FetchPostings
<1>16. ASSUME NEW r \in Request, StoreIdempotencyKey(r) PROVE StatusInv'
  BY <1>16 DEF StoreIdempotencyKey, Return
<1>17. ASSUME NEW r \in Request, Release(r) PROVE StatusInv'
  BY <1>17 DEF Release
<1>18. ASSUME NEW r \in Request, Resolve(r) PROVE StatusInv'
  BY <1>18 DEF Resolve, ResolveCommit, ResolveAbort, Apply, Rollback
<1>19. ASSUME NEW r \in Request, Cancel(r) PROVE StatusInv'
  BY <1>19 DEF Cancel
<1>20. ASSUME NEW r \in Request, Crash(r) PROVE StatusInv'
  BY <1>20 DEF Crash, Rollback
<1>21. ASSUME NEW k \in Key, ExpireLock(k) \/ ExpireCache(k) PROVE StatusInv'
  BY <1>21 DEF ExpireLock, ExpireCache
<1>22. CASE UNCHANGED vars
  BY <1>22 DEF vars
<1>23. QED
  BY <1>1, <1>2, <1>3, <1>4, <1>5, <1>6, <1>7, <1>8, <1>9, <1>10, <1>11,
     <1>12, <1>13, <1>14, <1>15, <1>16, <1>17, <1>18, <1>19, <1>20, <1>21,
     <1>22 DEF Next, Proceed

(* The refinement mapping's value of reply.                                *)
Answers == [r \in Request |-> Reply(r)]

(* A function that differs from another at one point is an update of it. *)
LEMMA FunctionUpdate ==
    ASSUME NEW f, NEW g, NEW S, NEW x \in S, NEW v,
           f = [y \in S |-> f[y]], g = [y \in S |-> g[y]],
           g[x] = v, \A y \in S \ {x} : g[y] = f[y]
    PROVE  g = [f EXCEPT ![x] = v]
  OBVIOUS

(* The same for the answers, of which a step changes at most one.        *)
LEMMA AnswersUpdate ==
    ASSUME NEW r \in Request, NEW a, Reply(r)' = a,
           \A s \in Request \ {r} : Reply(s)' = Reply(s)
    PROVE  Answers' = [Answers EXCEPT ![r] = a]
<1>1. /\ Answers = [s \in Request |-> Answers[s]]
      /\ Answers' = [s \in Request |-> Answers'[s]]
      /\ Answers'[r] = a
      /\ \A s \in Request \ {r} : Answers'[s] = Answers[s]
  BY DEF Answers
<1>2. QED
  BY <1>1, FunctionUpdate

(* An answer that shows a booked transaction of the key is promised.      *)
LEMMA PromiseShows ==
    ASSUME NEW r \in Request, key[r] # None, Answers[r] = "none",
           NEW t \in ledger, key[t] = key[r],
           Answers' = [Answers EXCEPT ![r] = t], UNCHANGED <<key, ledger, events>>
    PROVE  Promise!Show(r)
  BY DEF Promise!Show, Answers

(* Every step of the service is a step of the promise, or a stutter.     *)
LEMMA PromiseStep ==
    PromiseInv /\ [Next]_vars => [Promise!Next]_(Promise!vars)
<1> SUFFICES ASSUME PromiseInv, [Next]_vars
             PROVE  [Promise!Next]_(Promise!vars)
    OBVIOUS
<1> USE NoneAssumption
        DEF PromiseInv, ResponseInv, StatusInv, StatusOf, BookInv, TypeInv,
        TypeOK, Asked, WorkInv, WorkOf, BooksAreWhole, Parts, Holding, Running,
        Ended, reqVars, redisVars, dbVars
<1>1. ASSUME NEW r \in Request, Arrive(r) PROVE [Promise!Next]_(Promise!vars)
  <2>1. PICK k \in Key, b \in Body :
          /\ key' = [key EXCEPT ![r] = k]
          /\ body' = [body EXCEPT ![r] = b]
          /\ IF b \in Balanced
                THEN Goto(r, "obtain") /\ UNCHANGED status
                ELSE Return(r, 422)
    BY <1>1 DEF Arrive
  <2>2. PICK a \in {"none", "rejected"} :
          Reply(r)' = a /\ \A s \in Request \ {r} : Reply(s)' = Reply(s)
    BY <1>1, <2>1 DEF Arrive, Return, Reply
  <2>3. Answers' = [Answers EXCEPT ![r] = a]
    BY <2>2, AnswersUpdate
  <2>4. Promise!Ask(r)
    <3>1. key[r] = None /\ key' = [key EXCEPT ![r] = k]
          /\ UNCHANGED <<ledger, events>>
      BY <1>1, <2>1 DEF Arrive
    <3>2. \E c \in Key, v \in {"none", "rejected"} :
            /\ key' = [key EXCEPT ![r] = c]
            /\ Answers' = [Answers EXCEPT ![r] = v]
      <4> WITNESS k \in Key, a \in {"none", "rejected"}
      <4> QED
        BY <3>1, <2>3
    <3>3. QED
      BY <3>1, <3>2, Zenon DEF Promise!Ask, Answers
  <2>5. QED
    BY <2>4 DEF Promise!Next
<1>2. ASSUME NEW r \in Request, Obtain(r) PROVE [Promise!Next]_(Promise!vars)
  BY <1>2 DEF Obtain, Promise!vars, Reply
<1>3. ASSUME NEW r \in Request, ObtainBusy(r) PROVE [Promise!Next]_(Promise!vars)
  <2>1. CASE UNCHANGED <<pc, status>>
    BY <1>3, <2>1 DEF ObtainBusy, Promise!vars, Reply
  <2>2. CASE Return(r, 503)
    <3>1. Reply(r)' = "rejected" /\ \A s \in Request \ {r} : Reply(s)' = Reply(s)
      BY <1>3, <2>2 DEF ObtainBusy, Return, Reply
    <3>2. Answers' = [Answers EXCEPT ![r] = "rejected"]
      BY <3>1, AnswersUpdate
    <3>3. Promise!Reject(r)
      BY <1>3, <2>2, <3>2 DEF Promise!Reject, ObtainBusy, Answers, Reply
    <3>4. QED
      BY <3>3 DEF Promise!Next
  <2>3. QED
    BY <1>3, <2>1, <2>2 DEF ObtainBusy
<1>4. ASSUME NEW r \in Request, ObtainFails(r) PROVE [Promise!Next]_(Promise!vars)
  <2>1. Reply(r)' = "rejected" /\ \A s \in Request \ {r} : Reply(s)' = Reply(s)
    BY <1>4 DEF ObtainFails, Return, Reply
  <2>2. Answers' = [Answers EXCEPT ![r] = "rejected"]
    BY <2>1, AnswersUpdate
  <2>3. Promise!Reject(r)
    BY <1>4, <2>2 DEF Promise!Reject, ObtainFails, Answers, Reply
  <2>4. QED
    BY <2>3 DEF Promise!Next
<1>5. ASSUME NEW r \in Request, Replay(r) PROVE [Promise!Next]_(Promise!vars)
  BY <1>5 DEF Replay, Return, Promise!vars, Reply
<1>6. ASSUME NEW r \in Request, NoReplay(r) PROVE [Promise!Next]_(Promise!vars)
  BY <1>6 DEF NoReplay, Promise!vars, Reply
<1>7. ASSUME NEW r \in Request, InsertTransaction(r) PROVE [Promise!Next]_(Promise!vars)
  BY <1>7 DEF InsertTransaction, Promise!vars, Reply
<1>8. ASSUME NEW r \in Request, InsertRefused(r) PROVE [Promise!Next]_(Promise!vars)
  BY <1>8 DEF InsertRefused, Return, Promise!vars, Reply
<1>9. ASSUME NEW r \in Request, InsertPostings(r) PROVE [Promise!Next]_(Promise!vars)
  BY <1>9 DEF InsertPostings, Return, Rollback, Promise!vars, Reply
<1>10. ASSUME NEW r \in Request, WriteOutbox(r) PROVE [Promise!Next]_(Promise!vars)
  BY <1>10 DEF WriteOutbox, Promise!vars, Reply
<1>11. ASSUME NEW r \in Request, StatementFails(r) PROVE [Promise!Next]_(Promise!vars)
  BY <1>11 DEF StatementFails, Return, Rollback, Promise!vars, Reply
<1>12. ASSUME NEW r \in Request, Commit(r) PROVE [Promise!Next]_(Promise!vars)
  <2>1. Answers' = Answers
    BY <1>12 DEF Commit, Apply, Rollback, Answers, Reply
  <2>2. Promise!Book(r)
    BY <1>12, <2>1
    DEF Promise!Book, Commit, Apply, UniqueInv, Answers, Reply
  <2>3. QED
    BY <2>2 DEF Promise!Next
<1>13. ASSUME NEW r \in Request, CommitFails(r) PROVE [Promise!Next]_(Promise!vars)
  BY <1>13 DEF CommitFails, Return, Rollback, Promise!vars, Reply
<1>14. ASSUME NEW r \in Request, CommitInDoubt(r) PROVE [Promise!Next]_(Promise!vars)
  BY <1>14 DEF CommitInDoubt, Return, Promise!vars, Reply
<1>15. ASSUME NEW r \in Request, FetchPostings(r) PROVE [Promise!Next]_(Promise!vars)
  BY <1>15 DEF FetchPostings, Promise!vars, Reply
<1>16. ASSUME NEW r \in Request, StoreIdempotencyKey(r) PROVE [Promise!Next]_(Promise!vars)
  BY <1>16 DEF StoreIdempotencyKey, Return, Promise!vars, Reply
<1>17. ASSUME NEW r \in Request, Release(r) PROVE [Promise!Next]_(Promise!vars)
  <2>1. \A s \in Request \ {r} : Reply(s)' = Reply(s)
    BY <1>17 DEF Release, Reply
  <2>2. CASE status[r] = 201
    <3>1. TrueFor(receipt[r], key[r]) /\ Reply(r)' = receipt[r].tx
      BY <1>17, <2>2 DEF Release, ReceiptInv, ReceiptOf, Reply
    <3>2. Answers' = [Answers EXCEPT ![r] = receipt[r].tx]
      BY <2>1, <3>1, AnswersUpdate
    <3>3. Promise!Show(r)
      <4>1. /\ key[r] # None /\ Reply(r) = "none"
            /\ receipt[r].tx \in ledger /\ key[receipt[r].tx] = key[r]
            /\ UNCHANGED <<key, ledger, events>>
        BY <1>17, <3>1 DEF Release, TrueFor, Reply
      <4>2. Answers[r] = "none"
        BY <4>1 DEF Answers
      <4>3. QED
        <5> HIDE DEF PromiseInv
        <5>1. QED
          BY <3>2, <4>1, <4>2, PromiseShows
    <3>4. QED
      BY <3>3 DEF Promise!Next
  <2>3. CASE status[r] = 500
    <3>1. Reply(r)' = "failed"
      BY <1>17, <2>3 DEF Release, Reply
    <3>2. Answers' = [Answers EXCEPT ![r] = "failed"]
      BY <2>1, <3>1, AnswersUpdate
    <3>3. Promise!Fail(r)
      BY <1>17, <3>2 DEF Promise!Fail, Release, Answers, Reply
    <3>4. QED
      BY <3>3 DEF Promise!Next
  <2>4. QED
    BY <1>17, <2>2, <2>3 DEF Release
<1>18. ASSUME NEW r \in Request, Resolve(r) PROVE [Promise!Next]_(Promise!vars)
  <2>1. Answers' = Answers
    BY <1>18 DEF Resolve, ResolveCommit, ResolveAbort, Answers, Reply
  <2>2. CASE ResolveCommit(r)
    <3>1. work[r] = Parts /\ Answers[r] \in {"none", "failed"}
      BY <2>2 DEF ResolveCommit, InDoubt, Answers, Reply
    <3>2. Promise!Book(r)
      BY <2>1, <2>2, <3>1
      DEF Promise!Book, ResolveCommit, Apply, InDoubt, UniqueInv, Answers
    <3>3. QED
      BY <3>2 DEF Promise!Next
  <2>3. CASE ResolveAbort(r)
    BY <2>1, <2>3 DEF ResolveAbort, Promise!vars, Answers
  <2>4. QED
    BY <1>18, <2>2, <2>3 DEF Resolve
<1>19. ASSUME NEW r \in Request, Cancel(r) PROVE [Promise!Next]_(Promise!vars)
  BY <1>19 DEF Cancel, Promise!vars, Reply
<1>20. ASSUME NEW r \in Request, Crash(r) PROVE [Promise!Next]_(Promise!vars)
  BY <1>20 DEF Crash, Rollback, Promise!vars, Reply
<1>21. ASSUME NEW k \in Key, ExpireLock(k) \/ ExpireCache(k) PROVE [Promise!Next]_(Promise!vars)
  BY <1>21 DEF ExpireLock, ExpireCache, Promise!vars, Reply
<1>22. CASE UNCHANGED vars
  BY <1>22 DEF vars, Promise!vars, Reply
<1>23. QED
  BY <1>1, <1>2, <1>3, <1>4, <1>5, <1>6, <1>7, <1>8, <1>9, <1>10, <1>11,
     <1>12, <1>13, <1>14, <1>15, <1>16, <1>17, <1>18, <1>19, <1>20, <1>21,
     <1>22 DEF Next, Proceed

(* The locks, caches, database transactions, failures and retries of the
   service implement a ledger that books each key at most once, together
   with its event, and shows only what is booked.                          *)
THEOREM Refinement == Spec => ImplementsPromise
<1>1. Init => PromiseInv
  BY ReceiptInit DEF PromiseInv, StatusInv, StatusOf, Init
<1>2. PromiseInv /\ [Next]_vars => PromiseInv'
  BY ReceiptStep, StatusStep DEF PromiseInv
<1>3. Init => Promise!Init
  BY DEF Init, Promise!Init, Reply
<1>4. QED
  BY <1>1, <1>2, <1>3, PromiseStep, PTL DEF Spec, ImplementsPromise, Promise!Spec
==============================================================================
