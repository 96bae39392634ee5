-------------------------------- MODULE Server --------------------------------
(***************************************************************************)
(* The server process from migrations to exit, around the uploads of       *)
(* Documents as the requests it serves: graceful shutdown with its one     *)
(* budget of time, which the outbox worker's Stop spends first, forced     *)
(* close, and the deferred closes.                                         *)
(*                                                                         *)
(* Time moves on only when no request is past its deadline: a handler      *)
(* whose context has ended returns without delay.                          *)
(***************************************************************************)
EXTENDS Documents

CONSTANTS
    Budget,   \* of the shutdown, in units of time (30 s)
    Timeout   \* RequestTimeout, the server's write timeout (30 s by default)

ASSUME TimesAssumption ==
    /\ Budget \in Nat \ {0} /\ Timeout \in Nat \ {0}
    /\ Timeout <= Budget

VARIABLES
    phase,        \* what main is doing
    left,         \* time left of shutdownCtx
    age,          \* age[r]: time since r was accepted
    outstanding,  \* history: the requests running when the signal came
    ending        \* history: how the end came about

mainVars == <<phase, left, outstanding, ending>>
vars == <<docVars, pool, mainVars, age>>

Phases == {"migrate", "connect", "serve", "stopWorker", "shutdown", "close", "exited"}

TypeOK ==
    /\ DocumentsTypeOK
    /\ phase \in Phases
    /\ left \in 0..Budget
    /\ age \in [Request -> 0..Timeout]
    /\ outstanding \subseteq Request
    /\ ending \in {"none", "signal", "forced", "error", "crash"}

Init ==
    /\ DocumentsInit
    /\ phase = "migrate"
    /\ left = Budget
    /\ age = [r \in Request |-> 0]
    /\ outstanding = {}
    /\ ending = "none"

InFlight == {r \in Request : pc[r] \in Running}

-------------------------------------------------------------------------------
(* Start.                                                                   *)

(* Migrations; then pool, Redis, RabbitMQ, storage, the outbox worker; then
   the listener.  Any failure is os.Exit(1).                                *)
RunMigrations ==
    /\ phase = "migrate"
    /\ phase' \in {"connect", "exited"}
    /\ UNCHANGED <<docVars, pool, left, outstanding, ending, age>>

Connect ==
    /\ phase = "connect"
    /\ phase' \in {"serve", "exited"}
    /\ UNCHANGED <<docVars, pool, left, outstanding, ending, age>>

-------------------------------------------------------------------------------
(* Requests.                                                                *)

(* The listener is open until Shutdown closes it, while the worker is being
   stopped too.                                                             *)
Accept(r) ==
    /\ phase \in {"serve", "stopWorker"}
    /\ Receive(r)
    /\ UNCHANGED <<pool, mainVars, age>>

Handle(r) ==
    /\ phase # "exited"
    /\ Proceed(r)
    /\ UNCHANGED <<pool, mainVars, age>>

(* Mutant: the deadline is one unit late.                                   *)
TickLate ==
    /\ phase \notin {"migrate", "connect", "exited"}
    /\ InFlight # {} \/ phase = "stopWorker"
    /\ \A r \in InFlight : ~ctxDone[r]
    /\ age' = [r \in Request |-> IF r \in InFlight THEN age[r] + 1 ELSE age[r]]
    /\ ctxDone' = [r \in Request |-> ctxDone[r] \/ age'[r] > Timeout]
    /\ left' = IF phase \in {"stopWorker", "shutdown"} /\ left > 0 THEN left - 1 ELSE left
    /\ UNCHANGED <<pc, target, status, objects, rows, pool, phase, outstanding, ending>>

(* The context's deadline, or that of shutdownCtx, comes nearer.            *)
Tick ==
    /\ phase \notin {"migrate", "connect", "exited"}
    /\ InFlight # {} \/ phase = "stopWorker"
    /\ \A r \in InFlight : ~ctxDone[r]
    /\ age' = [r \in Request |-> IF r \in InFlight THEN age[r] + 1 ELSE age[r]]
    /\ ctxDone' = [r \in Request |-> ctxDone[r] \/ age'[r] = Timeout]
    /\ left' = IF phase \in {"stopWorker", "shutdown"} /\ left > 0 THEN left - 1 ELSE left
    /\ UNCHANGED <<pc, target, status, objects, rows, pool, phase, outstanding, ending>>

-------------------------------------------------------------------------------
(* Shutdown.                                                                *)

(* SIGINT or SIGTERM: the budget starts and the worker is told to stop.     *)
Signal ==
    /\ phase = "serve"
    /\ phase' = "stopWorker"
    /\ left' = Budget
    /\ outstanding' = InFlight
    /\ ending' = "signal"
    /\ UNCHANGED <<docVars, pool, age>>

(* Stop returns (OutboxWorker), however long its batch has taken; Shutdown
   closes the listener.                                                     *)
WorkerStopped ==
    /\ phase = "stopWorker"
    /\ phase' = "shutdown"
    /\ UNCHANGED <<docVars, pool, left, outstanding, ending, age>>

(* Mutant: Shutdown looks at the clock first.                               *)
ShutdownReturnsInTime ==
    /\ phase = "shutdown" /\ left > 0 /\ InFlight = {}
    /\ phase' = "close"
    /\ UNCHANGED <<docVars, pool, left, outstanding, ending, age>>

(* Shutdown looks for idle connections before it looks at the clock.        *)
ShutdownReturns ==
    /\ phase = "shutdown" /\ InFlight = {}
    /\ phase' = "close"
    /\ UNCHANGED <<docVars, pool, left, outstanding, ending, age>>

(* Mutant: the context of the shutdown is already cancelled.                *)
ForceCloseEarly ==
    /\ phase = "shutdown" /\ left < Budget /\ InFlight # {}
    /\ phase' = "close"
    /\ ending' = "forced"
    /\ ctxDone' = [r \in Request |-> ctxDone[r] \/ r \in InFlight]
    /\ UNCHANGED <<pc, target, status, objects, rows, pool, left, outstanding, age>>

(* The budget is spent: Close breaks the connections, which ends the
   contexts of their requests and does not wait for their handlers.         *)
ForceClose ==
    /\ phase = "shutdown" /\ left = 0 /\ InFlight # {}
    /\ phase' = "close"
    /\ ending' = "forced"
    /\ ctxDone' = [r \in Request |-> ctxDone[r] \/ r \in InFlight]
    /\ UNCHANGED <<pc, target, status, objects, rows, pool, left, outstanding, age>>

(* ListenAndServe returns an error: main goes on to the deferred closes at
   once, over whatever is running.                                          *)
ListenFails ==
    /\ phase = "serve"
    /\ phase' = "close"
    /\ ending' = "error"
    /\ UNCHANGED <<docVars, pool, left, outstanding, age>>

(* The deferred closes; the pool's is the last one.                         *)
ClosePool ==
    /\ phase = "close" /\ pool = "open"
    /\ pool' = "closed"
    /\ UNCHANGED <<docVars, mainVars, age>>

Stops == pc' = [r \in Request |-> IF r \in InFlight THEN "dead" ELSE pc[r]]

(* main returns: the process ends under the handlers that are left.         *)
Exit ==
    /\ phase = "close" /\ pool = "closed"
    /\ phase' = "exited"
    /\ Stops
    /\ UNCHANGED <<target, ctxDone, status, objects, rows, pool, left, outstanding,
                   ending, age>>

(* The process is killed.                                                   *)
Crash ==
    /\ phase \in {"serve", "stopWorker", "shutdown"}
    /\ phase' = "exited"
    /\ Stops
    /\ ending' = "crash"
    /\ UNCHANGED <<target, ctxDone, status, objects, rows, pool, left, outstanding, age>>

Main == RunMigrations \/ Connect \/ WorkerStopped \/ ShutdownReturns \/ ForceClose
        \/ ClosePool \/ Exit

Next ==
    \/ Main \/ Signal \/ ListenFails \/ Crash \/ Tick
    \/ \E r \in Request : Accept(r) \/ Handle(r)

(* main, the handlers and time go on; requests, signals and failures of the
   process need never come.                                                 *)
Spec ==
    /\ Init /\ [][Next]_vars
    /\ WF_vars(Main) /\ WF_vars(Tick) /\ \A r \in Request : WF_vars(Handle(r))

-------------------------------------------------------------------------------
(* Properties.                                                              *)

(* A shutdown cuts nobody off unless it is forced, and then a request that was
   outstanding at the signal has had all the time its own deadline allows,
   however much of the budget the worker spent (main.go:259).               *)
Cut == {r \in Request : pc[r] \in Running \cup {"dead"}}
ShutdownIsGraceful ==
    phase \in {"close", "exited"} =>
        /\ ending = "signal" => Cut = {}
        /\ ending = "forced" => \A r \in outstanding \cap Cut : age[r] = Timeout

(* After a signal the process exits, with every request answered or dead.   *)
SignalEnds ==
    phase = "stopWorker" ~> phase = "exited" /\ InFlight = {}
===============================================================================
