-------------------------------- MODULE Gateway --------------------------------
(***************************************************************************)
(* The middleware stack around the handlers: the rate limiter of one       *)
(* client first, authentication and roles behind it, and one clock that    *)
(* the limiter's window and the sessions' TTL run by.                      *)
(***************************************************************************)
EXTENDS Sessions, RateLimiter

vars == <<clock, sessionVars, limiterVars>>

TypeOK == ClockTypeOK /\ SessionsTypeOK /\ LimiterTypeOK

Init == ClockInit /\ SessionsInit /\ LimiterInit

Tick == Advance /\ UNCHANGED <<sessionVars, limiterVars>>

(* A request arrives at a server process whose clock is off by o.           *)
Pass(r, o, a) ==
    /\ Enter(r, a)
    /\ Grant(o)
    /\ UNCHANGED clock

(* Redis failed the limiter; it may answer the rest of the request.         *)
PassUncounted(r, a) ==
    /\ "redis" \in Faults
    /\ Enter(r, a)
    /\ FailOpen
    /\ UNCHANGED clock

(* 429: the request gets no further.                                        *)
TurnAway(r, o) ==
    /\ pc[r] = "new" /\ Deny(o)
    /\ Answer(r, 429)
    /\ UNCHANGED <<clock, ask, who, hurt, dbVars, redisVars>>

Next ==
    \/ Tick
    \/ \E r \in Request :
          \/ \E a \in Ask : PassUncounted(r, a) \/ \E o \in Skew : Pass(r, o, a)
          \/ \E o \in Skew : TurnAway(r, o)
          \/ Proceed(r) /\ UNCHANGED <<clock, limiterVars>>

Spec == Init /\ [][Next]_vars
===============================================================================
