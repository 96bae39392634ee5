----------------------------- MODULE OutboxWorker -----------------------------
(***************************************************************************)
(* The transactional outbox: ledger_outbox rows appear as transactions     *)
(* commit, and one OutboxWorker per server process polls the pending ones, *)
(* publishes each on its AMQP channel and records the outcome in the row.  *)
(*                                                                         *)
(* The channel is not in confirm mode: Publish succeeds once the message   *)
(* is on the connection, and the broker takes it, or not, later.           *)
(***************************************************************************)
EXTENDS Integers, FiniteSets

CONSTANTS
    Event,      \* rows of ledger_outbox, numbered in the order of created_at
    Worker,     \* server processes, each with one worker and one channel
    BatchSize,  \* rows fetched per poll (50 in the code)
    MaxRetries, \* publish errors before a row is marked failed (5)
    MaxStops,   \* graceful shutdowns that may happen
    MaxFaults,  \* crashes, failed UPDATEs and half-sent publishes that may happen
    Breaks      \* how a message may be lost: "close", "unroutable"

ASSUME EventAssumption == Event \subseteq Int
ASSUME WorkerAssumption == IsFiniteSet(Worker)
ASSUME LimitAssumption ==
    /\ BatchSize \in Nat \ {0} /\ MaxRetries \in Nat \ {0}
    /\ MaxStops \in Nat /\ MaxFaults \in Nat
ASSUME BreaksAssumption == Breaks \subseteq {"close", "unroutable"}

VARIABLES
    status,     \* status[e] of the row, "absent" before its commit
    retries,    \* retry_count[e]
    phase,      \* phase[w]: where w's goroutine is
    batch,      \* batch[w]: fetched rows w has not dealt with
    seen,       \* seen[w][e]: the retry_count w fetched
    stopping,   \* stopping[w]: stopCh is closed
    open,       \* open[w]: the AMQP channel is open
    inflight,   \* inflight[w]: events on the connection, not at the broker
    delivered,  \* delivered[e]: times the broker queued e: 0, 1 or 2 (several)
    lost,       \* events of which a message vanished (history)
    errors,     \* publish errors of e, up to MaxRetries (history)
    stopsLeft, faultsLeft

rowVars == <<status, retries>>
workVars == <<phase, batch, seen, stopping>>
netVars == <<open, inflight, delivered, lost>>
limits == <<stopsLeft, faultsLeft>>
vars == <<rowVars, workVars, netVars, errors, limits>>

Phases == {"down", "waiting", "publish", "sent", "unsent", "stopped"}
Busy == {"publish", "sent", "unsent"}
Nothing == [e \in Event |-> 0]

TypeOK ==
    /\ status \in [Event -> {"absent", "pending", "published", "failed"}]
    /\ retries \in [Event -> Nat]
    /\ phase \in [Worker -> Phases]
    /\ batch \in [Worker -> SUBSET Event]
    /\ seen \in [Worker -> [Event -> Nat]]
    /\ stopping \in [Worker -> BOOLEAN]
    /\ open \in [Worker -> BOOLEAN]
    /\ inflight \in [Worker -> SUBSET Event]
    /\ delivered \in [Event -> 0..2]
    /\ lost \subseteq Event
    /\ errors \in [Event -> 0..MaxRetries]
    /\ stopsLeft \in 0..MaxStops
    /\ faultsLeft \in 0..MaxFaults

Init ==
    /\ status = [e \in Event |-> "absent"]
    /\ retries = Nothing
    /\ phase = [w \in Worker |-> "down"]
    /\ batch = [w \in Worker |-> {}]
    /\ seen = [w \in Worker |-> Nothing]
    /\ stopping = [w \in Worker |-> FALSE]
    /\ open = [w \in Worker |-> FALSE]
    /\ inflight = [w \in Worker |-> {}]
    /\ delivered = Nothing
    /\ lost = {}
    /\ errors = Nothing
    /\ stopsLeft = MaxStops
    /\ faultsLeft = MaxFaults

Fault == faultsLeft > 0 /\ faultsLeft' = faultsLeft - 1

-------------------------------------------------------------------------------
(* The ledger's side.                                                       *)

(* A transaction commits and its row becomes visible.  created_at is the
   start of that transaction, so rows become visible in any order.          *)
CommitEvent(e) ==
    /\ status[e] = "absent"
    /\ status' = [status EXCEPT ![e] = "pending"]
    /\ UNCHANGED <<retries, workVars, netVars, errors, limits>>

-------------------------------------------------------------------------------
(* The worker.                                                              *)

(* The process starts: a fresh connection, a fresh channel, Start.          *)
Start(w) ==
    /\ phase[w] = "down"
    /\ phase' = [phase EXCEPT ![w] = "waiting"]
    /\ open' = [open EXCEPT ![w] = TRUE]
    /\ stopping' = [stopping EXCEPT ![w] = FALSE]
    /\ UNCHANGED <<rowVars, batch, seen, inflight, delivered, lost, errors, limits>>

(* ORDER BY created_at ASC LIMIT n *)
Oldest(P, n) == {e \in P : Cardinality({d \in P : d < e}) < n}

(* Mutant: the query does not look at the status.                           *)
PendingAnyStatus == {e \in Event : status[e] # "absent"}

Pending == {e \in Event : status[e] = "pending"}

(* A tick: fetch the oldest pending rows, without locking them.  A failed
   fetch, and an empty one, change nothing.                                 *)
Poll(w) ==
    /\ phase[w] = "waiting"
    /\ Pending # {}
    /\ batch' = [batch EXCEPT ![w] = Oldest(Pending, BatchSize)]
    /\ seen' = [seen EXCEPT ![w] = [e \in Event |->
                  IF e \in Oldest(Pending, BatchSize) THEN retries[e] ELSE 0]]
    /\ phase' = [phase EXCEPT ![w] = "publish"]
    /\ UNCHANGED <<rowVars, stopping, netVars, errors, limits>>

(* The row being handled: rows are taken in the order they were fetched.    *)
IsNext(w, e) == e \in batch[w] /\ \A d \in batch[w] : e <= d

(* publishEvent on an open channel: the message is on the connection.       *)
Publish(w) ==
    /\ phase[w] = "publish" /\ open[w]
    /\ \E e \in Event : /\ IsNext(w, e)
                        /\ inflight' = [inflight EXCEPT ![w] = @ \cup {e}]
    /\ phase' = [phase EXCEPT ![w] = "sent"]
    /\ UNCHANGED <<rowVars, batch, seen, stopping, open, delivered, lost,
                   errors, limits>>

CountError(e) ==
    errors' = [errors EXCEPT ![e] = IF @ < MaxRetries THEN @ + 1 ELSE @]

(* Mutants: the error is dropped; publishing waits for a new channel.       *)
PublishClosedUnnoticed(w) ==
    /\ phase[w] = "publish" /\ ~open[w]
    /\ phase' = [phase EXCEPT ![w] = "sent"]
    /\ UNCHANGED <<rowVars, batch, seen, stopping, netVars, errors, limits>>
PublishClosedBlocks(w) == FALSE

(* publishEvent on a closed channel: ErrClosed, and nothing reopens it.     *)
PublishClosed(w) ==
    /\ phase[w] = "publish" /\ ~open[w]
    /\ \E e \in Event : IsNext(w, e) /\ CountError(e)
    /\ phase' = [phase EXCEPT ![w] = "unsent"]
    /\ UNCHANGED <<rowVars, batch, seen, stopping, netVars, limits>>

(* The connection breaks while the message is written: an error, and the
   broker may have the message all the same.                                *)
Deliver(D) == delivered' = [e \in Event |->
    IF e \in D /\ delivered[e] < 2 THEN delivered[e] + 1 ELSE delivered[e]]

PublishBreaks(w) ==
    /\ "close" \in Breaks /\ Fault
    /\ phase[w] = "publish" /\ open[w]
    /\ \E e \in Event :
          /\ IsNext(w, e)
          /\ CountError(e)
          /\ Deliver({e}) \/ UNCHANGED delivered
    /\ open' = [open EXCEPT ![w] = FALSE]
    /\ lost' = lost \cup inflight[w]
    /\ inflight' = [inflight EXCEPT ![w] = {}]
    /\ phase' = [phase EXCEPT ![w] = "unsent"]
    /\ UNCHANGED <<rowVars, batch, seen, stopping, stopsLeft>>

(* On to the next row of the batch, or back to the select.                  *)
Handled(w, e) ==
    /\ batch' = [batch EXCEPT ![w] = @ \ {e}]
    /\ seen' = [seen EXCEPT ![w][e] = 0]
    /\ phase' = [phase EXCEPT ![w] =
                   IF batch[w] = {e} THEN "waiting" ELSE "publish"]

(* Mutant: no WHERE status = 'pending'.                                     *)
MarkPublishedAlways(e) == status' = [status EXCEPT ![e] = "published"]

(* UPDATE ... SET status = 'published' WHERE status = 'pending'.            *)
MarkPublished(e) ==
    status' = [status EXCEPT ![e] = IF @ = "pending" THEN "published" ELSE @]

(* Mutant: a status outside the enum.                                       *)
MarkFailedAsDead(e) == status' = [status EXCEPT ![e] = "dead"]

(* UPDATE ... SET status = 'failed', whatever the status is.                *)
MarkFailed(e) == status' = [status EXCEPT ![e] = "failed"]

(* Mutants: counting twice; a count that is not stored.                     *)
IncrementRetryTwice(e) ==
    retries' = [retries EXCEPT ![e] = IF status[e] = "pending" THEN @ + 2 ELSE @]
IncrementRetryLost(e) == UNCHANGED retries

(* UPDATE ... SET retry_count = retry_count + 1 WHERE status = 'pending'.   *)
IncrementRetry(e) ==
    retries' = [retries EXCEPT ![e] = IF status[e] = "pending" THEN @ + 1 ELSE @]

HandleSuccess(w) ==
    /\ phase[w] = "sent"
    /\ \E e \in Event : IsNext(w, e) /\ MarkPublished(e) /\ Handled(w, e)
    /\ UNCHANGED <<retries, stopping, netVars, errors, limits>>

(* Mutants: one error too early; one too late.                              *)
HandleFailureEarly(w) ==
    /\ phase[w] = "unsent"
    /\ \E e \in Event :
          /\ IsNext(w, e)
          /\ IF seen[w][e] + 2 >= MaxRetries
                THEN MarkFailed(e) /\ UNCHANGED retries
                ELSE IncrementRetry(e) /\ UNCHANGED status
          /\ Handled(w, e)
    /\ UNCHANGED <<stopping, netVars, errors, limits>>
HandleFailureLate(w) ==
    /\ phase[w] = "unsent"
    /\ \E e \in Event :
          /\ IsNext(w, e)
          /\ IF seen[w][e] + 1 > MaxRetries
                THEN MarkFailed(e) /\ UNCHANGED retries
                ELSE IncrementRetry(e) /\ UNCHANGED status
          /\ Handled(w, e)
    /\ UNCHANGED <<stopping, netVars, errors, limits>>

(* The count fetched with the row decides, not the one in the row now.      *)
HandleFailure(w) ==
    /\ phase[w] = "unsent"
    /\ \E e \in Event :
          /\ IsNext(w, e)
          /\ IF seen[w][e] + 1 >= MaxRetries
                THEN MarkFailed(e) /\ UNCHANGED retries
                ELSE IncrementRetry(e) /\ UNCHANGED status
          /\ Handled(w, e)
    /\ UNCHANGED <<stopping, netVars, errors, limits>>

(* The UPDATE fails: logged, and the batch goes on.                         *)
UpdateFails(w) ==
    /\ phase[w] \in {"sent", "unsent"} /\ Fault
    /\ \E e \in Event : IsNext(w, e) /\ Handled(w, e)
    /\ UNCHANGED <<rowVars, stopping, netVars, errors, stopsLeft>>

Work(w) == \/ Poll(w)
           \/ Publish(w) \/ PublishClosed(w) \/ PublishBreaks(w)
           \/ HandleSuccess(w) \/ HandleFailure(w) \/ UpdateFails(w)

-------------------------------------------------------------------------------
(* Shutdown, crashes and the broker.                                        *)

(* SIGTERM: main calls Stop, which closes stopCh and waits.                 *)
Stop(w) ==
    /\ phase[w] \in {"waiting"} \cup Busy /\ ~stopping[w]
    /\ stopsLeft > 0 /\ stopsLeft' = stopsLeft - 1
    /\ stopping' = [stopping EXCEPT ![w] = TRUE]
    /\ UNCHANGED <<rowVars, phase, batch, seen, netVars, errors, faultsLeft>>

(* Mutant: the worker leaves in the middle of a batch.                      *)
NoticeStopAtOnce(w) ==
    /\ phase[w] \in {"waiting"} \cup Busy /\ stopping[w]
    /\ phase' = [phase EXCEPT ![w] = "stopped"]
    /\ batch' = [batch EXCEPT ![w] = {}]
    /\ seen' = [seen EXCEPT ![w] = Nothing]
    /\ UNCHANGED <<rowVars, stopping, netVars, errors, limits>>

(* The select sees stopCh, between batches only; a tick that is ready at the
   same time may be taken first.                                            *)
NoticeStop(w) ==
    /\ phase[w] = "waiting" /\ stopping[w]
    /\ phase' = [phase EXCEPT ![w] = "stopped"]
    /\ UNCHANGED <<rowVars, batch, seen, stopping, netVars, errors, limits>>

(* The deferred closes: channel.close is answered after what was published. *)
Exit(w) ==
    /\ phase[w] = "stopped"
    /\ Deliver(inflight[w])
    /\ inflight' = [inflight EXCEPT ![w] = {}]
    /\ open' = [open EXCEPT ![w] = FALSE]
    /\ phase' = [phase EXCEPT ![w] = "down"]
    /\ UNCHANGED <<rowVars, batch, seen, stopping, lost, errors, limits>>

Crash(w) ==
    /\ phase[w] # "down" /\ Fault
    /\ phase' = [phase EXCEPT ![w] = "down"]
    /\ batch' = [batch EXCEPT ![w] = {}]
    /\ seen' = [seen EXCEPT ![w] = Nothing]
    /\ open' = [open EXCEPT ![w] = FALSE]
    /\ lost' = lost \cup inflight[w]
    /\ inflight' = [inflight EXCEPT ![w] = {}]
    /\ UNCHANGED <<rowVars, stopping, delivered, errors, stopsLeft>>

(* The channel or its connection closes; what was on its way is gone.       *)
Close(w) ==
    /\ "close" \in Breaks
    /\ open[w]
    /\ open' = [open EXCEPT ![w] = FALSE]
    /\ lost' = lost \cup inflight[w]
    /\ inflight' = [inflight EXCEPT ![w] = {}]
    /\ UNCHANGED <<rowVars, workVars, delivered, errors, limits>>

(* The broker queues a message,                                             *)
Accept(w, e) ==
    /\ e \in inflight[w]
    /\ Deliver({e})
    /\ inflight' = [inflight EXCEPT ![w] = @ \ {e}]
    /\ UNCHANGED <<rowVars, workVars, open, lost, errors, limits>>

(* or drops it, as no queue is bound and mandatory is false.                *)
Drop(w, e) ==
    /\ "unroutable" \in Breaks
    /\ e \in inflight[w]
    /\ lost' = lost \cup {e}
    /\ inflight' = [inflight EXCEPT ![w] = @ \ {e}]
    /\ UNCHANGED <<rowVars, workVars, open, delivered, errors, limits>>

Next ==
    \/ \E e \in Event : CommitEvent(e)
    \/ \E w \in Worker : \/ Start(w) \/ Work(w)
                         \/ Stop(w) \/ NoticeStop(w) \/ Exit(w)
                         \/ Crash(w) \/ Close(w)
    \/ \E w \in Worker, e \in Event : Accept(w, e) \/ Drop(w, e)

Spec == Init /\ [][Next]_vars

(* The goroutine is scheduled, the platform restarts the process, Go's select
   picks among ready cases at random (so a closed stopCh is seen in the end)
   and the broker answers.  Nothing obliges a transaction to commit, a signal
   or a fault to come.                                                      *)
Fairness ==
    /\ \A w \in Worker : /\ WF_vars(Start(w)) /\ WF_vars(Work(w))
                         /\ SF_vars(NoticeStop(w)) /\ WF_vars(Exit(w))
    /\ \A w \in Worker, e \in Event : WF_vars(Accept(w, e))

FairSpec == Spec /\ Fairness

-------------------------------------------------------------------------------
(* Properties.                                                              *)

OnTheWay(e) == \E w \in Worker : e \in inflight[w]

(* A row is marked published only after a message of it was handed to the
   connection, whichever worker marks it: every published event is at the
   broker, on its way, or among the messages the network lost.              *)
PublishedWasSent ==
    \A e \in Event : status[e] = "published" =>
        delivered[e] > 0 \/ OnTheWay(e) \/ e \in lost

(* A row is given up only after MaxRetries publish errors of that row, also
   when several workers count on stale copies of retry_count.               *)
FailedAfterRetries ==
    \A e \in Event : status[e] = "failed" => errors[e] = MaxRetries

(* retry_count never counts an error that did not happen.                   *)
RetriesAreErrors ==
    \A e \in Event : retries[e] <= errors[e] \/ errors[e] = MaxRetries

(* A row that was settled never becomes pending again, and a failed row stays
   failed: the late UPDATE of another worker does not revive it.            *)
SettledStays ==
    [][\A e \in Event :
         /\ status[e] \in {"published", "failed"} => status'[e] # "pending"
         /\ status[e] = "failed" => status'[e] = "failed"]_vars

(* One worker: a pending row has a retry left (it is failed in time).       *)
RetryBudget ==
    \A e \in Event : status[e] = "pending" => retries[e] < MaxRetries

(* One worker: a published row is final (migration 000002:55-56).           *)
PublishedIsFinal ==
    [][\A e \in Event : status[e] = "published" => status'[e] = "published"]_vars

(* One worker: as long as no process crashed, no UPDATE failed and no publish
   was cut in half, no event reaches the broker twice, not even across
   graceful restarts: Stop waits for the batch.                             *)
DeliveredOnce ==
    faultsLeft = MaxFaults => \A e \in Event : delivered[e] <= 1

(* Every committed event is settled, as published or as failed.             *)
Settles == \A e \in Event :
    status[e] = "pending" ~> status[e] \in {"published", "failed"}

(* Stop returns: the worker ends after a signal.                            *)
StopReturns == \A w \in Worker : stopping[w] ~> phase[w] \in {"stopped", "down"}

(* internal/service/outbox.go:26-28: Publisher Confirms guarantee delivery, so
   a row marked published is at the broker or about to be.                  *)
NoSilentLoss ==
    \A e \in Event : status[e] = "published" => delivered[e] > 0 \/ OnTheWay(e)

(* docs/api.md:265: guaranteed at-least-once delivery.  Not even the worker
   has to know more than that the message was sent.                         *)
AtLeastOnce == \A e \in Event :
    status[e] = "pending" ~> delivered[e] > 0 \/ status[e] = "published"
===============================================================================
