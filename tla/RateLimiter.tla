----------------------------- MODULE RateLimiter -----------------------------
(***************************************************************************)
(* RateLimitMiddleware for one client: a Redis sorted set with an entry    *)
(* per granted request, purged, counted and extended by one atomic script. *)
(* The script's notion of now is the clock of the server process that      *)
(* sends it; Redis expires the key by its own.                             *)
(***************************************************************************)
EXTENDS Clock, FiniteSets

CONSTANTS
    Limit,     \* max_requests (100 per minute by default)
    Window,    \* its length in units of the clock
    Skew,      \* how far the clocks of the server processes are off
    Drift,     \* the largest difference between two of them
    Draw       \* what math.random returns; Redis seeds it anew in each script

ASSUME LimiterAssumption ==
    /\ Limit \in Nat \ {0} /\ Window \in Nat \ {0}
    /\ Skew \subseteq Int /\ Drift \in Nat
    /\ \A here, there \in Skew : here - there <= Drift

VARIABLES
    entries,   \* the sorted set: [score, draw] records, the member is both
    keyExpiry, \* when Redis drops the whole key
    grants     \* history: the entries that were written, each with its time

limiterVars == <<entries, keyExpiry, grants>>

Entry == [score : Int, draw : Draw]

LimiterTypeOK ==
    /\ entries \subseteq Entry /\ IsFiniteSet(entries)
    /\ Cardinality(entries) <= Limit
    /\ keyExpiry \in 0..(MaxClock + Window)
    /\ grants \subseteq [time : 0..MaxClock, entry : Entry]

LimiterInit == entries = {} /\ keyExpiry = 0 /\ grants = {}

-------------------------------------------------------------------------------
(* The script, sent at now by a process whose clock is off by o.            *)

(* Mutant: what is left of the set is what the last window saw.             *)
LeftHalfWindow(o) ==
    IF clock >= keyExpiry THEN {}
    ELSE {e \in entries : e.score > clock + o - (Window \div 2)}

(* ZREMRANGEBYSCORE -inf window_start, unless the key has expired.          *)
Left(o) ==
    IF clock >= keyExpiry THEN {}
    ELSE {e \in entries : e.score > clock + o - Window}

(* ZCARD below the limit: ZADD, which overwrites an equal member, PEXPIRE.  *)
Grant(o) ==
    /\ Cardinality(Left(o)) < Limit
    /\ \E d \in Draw :
          LET e == [score |-> clock + o, draw |-> d]
          IN  /\ entries' = Left(o) \cup {e}
              /\ grants' = grants \cup {[time |-> clock, entry |-> e]}
    /\ keyExpiry' = clock + Window

(* Mutant: a request that is denied is counted too.                         *)
DenyCounted(o) ==
    /\ Cardinality(Left(o)) >= Limit
    /\ entries' = Left(o) \cup [score : {clock + o}, draw : Draw]
    /\ keyExpiry' = clock + Window
    /\ UNCHANGED grants

Deny(o) ==
    /\ Cardinality(Left(o)) >= Limit
    /\ entries' = Left(o)
    /\ UNCHANGED <<keyExpiry, grants>>

(* Redis does not answer, before the script or after it: the request passes,
   also if it was over the limit.                                           *)
FailOpen == UNCHANGED limiterVars \/ \E o \in Skew : Deny(o)

-------------------------------------------------------------------------------
(* Properties.                                                              *)

GrantedIn(first, last) ==
    {g.entry : g \in {g \in grants : g.time \in first..last}}

(* Within any span of a window, less the drift of the clocks, the script
   writes at most Limit different entries.                                  *)
LimitHolds ==
    \A t \in 0..clock :
        Cardinality(GrantedIn(t, t + Window - Drift - 1)) <= Limit

(* A request would be denied only if Limit others were granted within the window
   before it, plus the drift.                                               *)
DenialsAreDue ==
    \A o \in Skew :
        Cardinality(Left(o)) >= Limit =>
            Cardinality(GrantedIn(clock - Window - Drift + 1, clock)) >= Limit
===============================================================================
