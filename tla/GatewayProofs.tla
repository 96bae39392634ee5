----------------------------- MODULE GatewayProofs -----------------------------
(***************************************************************************)
(* The rate limiter and the sessions of Gateway for every number of        *)
(* requests, every limit, window, drift and TTL, and all faults.           *)
(***************************************************************************)
EXTENDS Gateway, FiniteSetTheorems, TLAPS

-------------------------------------------------------------------------------
(* The limiter.                                                             *)

Written == {g.entry : g \in grants}

(* What was written is in the set until a window, plus the drift, has passed;
   and the set holds nothing else.                                          *)
LimiterInv ==
    /\ clock \in Int /\ keyExpiry \in Int
    /\ IsFiniteSet(entries) /\ Cardinality(entries) <= Limit
    /\ IsFiniteSet(Written)
    /\ \A g \in grants :
          /\ g.time \in Nat /\ g.time <= clock
          /\ \E o \in Skew : g.entry.score = g.time + o
          /\ g.time + Window <= keyExpiry
          /\ g.time > clock - Window + Drift => g.entry \in entries
    /\ \A e \in entries : \E g \in grants : g.entry = e
    /\ \A t \in Nat :
          /\ IsFiniteSet(GrantedIn(t, t + Window - Drift - 1))
          /\ Cardinality(GrantedIn(t, t + Window - Drift - 1)) <= Limit

(* What is left of the set is part of it.                                   *)
LEMMA LeftIsPart ==
  ASSUME LimiterInv, NEW o \in Skew
  PROVE  /\ Left(o) \subseteq entries
         /\ IsFiniteSet(Left(o))
         /\ Cardinality(Left(o)) \in Nat
         /\ Cardinality(Left(o)) <= Limit
<1>1. Left(o) \subseteq entries
  BY DEF Left
<1>2. /\ IsFiniteSet(Left(o))
      /\ Cardinality(Left(o)) <= Cardinality(entries)
  BY <1>1, FS_Subset DEF LimiterInv
<1>3. Cardinality(Left(o)) \in Nat /\ Cardinality(entries) \in Nat
  BY <1>2, FS_CardinalityType DEF LimiterInv
<1>4. QED
  BY <1>1, <1>2, <1>3, LimiterAssumption DEF LimiterInv

(* An entry that is younger than a window less the drift survives the purge. *)
LEMMA YoungIsLeft ==
  ASSUME LimiterInv, NEW o \in Skew, NEW g \in grants,
         g.time > clock - Window + Drift
  PROVE  g.entry \in Left(o)
<1>1. PICK own \in Skew : g.entry.score = g.time + own
  BY DEF LimiterInv
<1>2. /\ clock \in Int /\ keyExpiry \in Int /\ g.time \in Int /\ own \in Int /\ o \in Int
      /\ Window \in Nat /\ Drift \in Nat /\ o - own <= Drift
  BY <1>1, LimiterAssumption DEF LimiterInv
<1>3. g.entry \in entries /\ g.time + Window <= keyExpiry
  BY DEF LimiterInv
<1>4. ~(clock >= keyExpiry)
  BY <1>2, <1>3
<1>5. g.entry.score > clock + o - Window
  BY <1>1, <1>2
<1>6. QED
  BY <1>3, <1>4, <1>5 DEF Left

(* A denial purges and writes nothing.                                      *)
LEMMA DenyKeeps ==
  ASSUME LimiterInv, NEW o \in Skew, Deny(o), UNCHANGED clock
  PROVE  LimiterInv'
<1>1. /\ entries' = Left(o) /\ keyExpiry' = keyExpiry /\ grants' = grants /\ clock' = clock
  BY DEF Deny
<1>2. IsFiniteSet(entries') /\ Cardinality(entries') <= Limit
  BY <1>1, LeftIsPart
<1>3. \A e \in entries' : \E g \in grants' : g.entry = e
  BY <1>1, LeftIsPart DEF LimiterInv
<1>4. ASSUME NEW g \in grants'
      PROVE  /\ g.time \in Nat /\ g.time <= clock'
             /\ \E p \in Skew : g.entry.score = g.time + p
             /\ g.time + Window <= keyExpiry'
             /\ g.time > clock' - Window + Drift => g.entry \in entries'
  BY <1>1, <1>4, YoungIsLeft DEF LimiterInv
<1>5. Written' = Written /\ \A t \in Nat : GrantedIn(t, t + Window - Drift - 1)' =
                                            GrantedIn(t, t + Window - Drift - 1)
  BY <1>1 DEF Written, GrantedIn
<1>6. QED
  BY <1>1, <1>2, <1>3, <1>4, <1>5 DEF LimiterInv

(* A grant adds one entry to a set that was below the limit.                *)
LEMMA GrantKeeps ==
  ASSUME LimiterInv, clock \in Nat, NEW o \in Skew, Grant(o), UNCHANGED clock
  PROVE  LimiterInv'
<1>1. PICK d \in Draw :
        /\ entries' = Left(o) \cup {[score |-> clock + o, draw |-> d]}
        /\ grants' = grants \cup
              {[time |-> clock, entry |-> [score |-> clock + o, draw |-> d]]}
  BY DEF Grant
<1> DEFINE new == [score |-> clock + o, draw |-> d]
           fresh == [time |-> clock, entry |-> new]
<1> HIDE DEF new
<1>2. /\ entries' = Left(o) \cup {new} /\ grants' = grants \cup {fresh}
      /\ clock' = clock /\ keyExpiry' = clock + Window
      /\ Cardinality(Left(o)) < Limit
  BY <1>1 DEF Grant, new
<1>3. fresh.time = clock /\ fresh.entry = new /\ new.score = clock + o
  BY DEF new
<1>4. Window \in Nat /\ Drift \in Nat /\ Limit \in Nat /\ o \in Int
  BY LimiterAssumption
<1>5. /\ IsFiniteSet(Left(o) \cup {new})
      /\ Cardinality(Left(o) \cup {new}) \in Nat
      /\ Cardinality(Left(o) \cup {new}) <= Limit
  <2>1. /\ IsFiniteSet(Left(o) \cup {new})
        /\ Cardinality(Left(o) \cup {new}) =
              IF new \in Left(o) THEN Cardinality(Left(o)) ELSE Cardinality(Left(o)) + 1
    BY LeftIsPart, FS_AddElement
  <2>2. QED
    BY <2>1, <1>2, <1>4, LeftIsPart
<1>6. \A e \in entries' : \E g \in grants' : g.entry = e
  <2>1. \A e \in Left(o) : \E g \in grants : g.entry = e
    BY LeftIsPart DEF LimiterInv
  <2>2. QED
    BY <2>1, <1>2, <1>3
<1>7. ASSUME NEW g \in grants'
      PROVE  /\ g.time \in Nat /\ g.time <= clock'
             /\ \E p \in Skew : g.entry.score = g.time + p
             /\ g.time + Window <= keyExpiry'
             /\ g.time > clock' - Window + Drift => g.entry \in entries'
  <2>1. CASE g = fresh
    BY <2>1, <1>2, <1>3, <1>4
  <2>2. CASE g \in grants
    <3>1. g.time \in Nat /\ g.time <= clock /\ \E p \in Skew : g.entry.score = g.time + p
      BY <2>2 DEF LimiterInv
    <3>2. g.time > clock - Window + Drift => g.entry \in Left(o)
      BY <2>2, YoungIsLeft
    <3>3. QED
      BY <3>1, <3>2, <1>2, <1>4
  <2>3. QED
    BY <2>1, <2>2, <1>2, <1>7
<1>8. IsFiniteSet(Written')
  <2>1. Written' = Written \cup {new}
    BY <1>2, <1>3 DEF Written
  <2>2. QED
    BY <2>1, FS_AddElement DEF LimiterInv
<1>9. ASSUME NEW t \in Nat
      PROVE  /\ IsFiniteSet(GrantedIn(t, t + Window - Drift - 1)')
             /\ Cardinality(GrantedIn(t, t + Window - Drift - 1)') <= Limit
  <2> DEFINE last == t + Window - Drift - 1
  <2>1. CASE clock \in t..last
    <3>1. GrantedIn(t, last)' \subseteq Left(o) \cup {new}
      <4>1. SUFFICES ASSUME NEW g \in grants', g.time \in t..last
                     PROVE  g.entry \in Left(o) \cup {new}
        BY DEF GrantedIn
      <4>2. CASE g = fresh
        BY <4>2, <1>3
      <4>3. CASE g \in grants
        <5>1. g.time \in Int /\ g.time > clock - Window + Drift
          BY <4>1, <4>3, <2>1, <1>4 DEF LimiterInv
        <5>2. QED
          BY <5>1, <4>3, YoungIsLeft
      <4>4. QED
        BY <4>1, <4>2, <4>3, <1>2
    <3>2. /\ IsFiniteSet(GrantedIn(t, last)')
          /\ Cardinality(GrantedIn(t, last)') <= Cardinality(Left(o) \cup {new})
      BY <3>1, <1>5, FS_Subset
    <3>3. Cardinality(GrantedIn(t, last)') \in Nat
      BY <3>2, FS_CardinalityType
    <3>4. QED
      BY <3>2, <3>3, <1>4, <1>5
  <2>2. CASE clock \notin t..last
    <3>1. GrantedIn(t, last)' = GrantedIn(t, last)
      BY <2>2, <1>2, <1>3 DEF GrantedIn
    <3>2. QED
      BY <3>1 DEF LimiterInv
  <2>3. QED
    BY <2>1, <2>2
<1>10. QED
  BY <1>2, <1>4, <1>5, <1>6, <1>7, <1>8, <1>9 DEF LimiterInv

(* Time passes.                                                             *)
LEMMA AdvanceKeeps ==
  ASSUME LimiterInv, clock' = clock + 1, UNCHANGED limiterVars
  PROVE  LimiterInv'
<1>1. Window \in Nat /\ Drift \in Nat
  BY LimiterAssumption
<1>2. entries' = entries /\ keyExpiry' = keyExpiry /\ grants' = grants
  BY DEF limiterVars
<1>3. Written' = Written /\ \A t \in Nat : GrantedIn(t, t + Window - Drift - 1)' =
                                            GrantedIn(t, t + Window - Drift - 1)
  BY <1>2 DEF Written, GrantedIn
<1>4. ASSUME NEW g \in grants'
      PROVE  /\ g.time \in Nat /\ g.time <= clock'
             /\ \E p \in Skew : g.entry.score = g.time + p
             /\ g.time + Window <= keyExpiry'
             /\ g.time > clock' - Window + Drift => g.entry \in entries'
  BY <1>1, <1>2, <1>4 DEF LimiterInv
<1>5. QED
  BY <1>2, <1>3, <1>4 DEF LimiterInv

-------------------------------------------------------------------------------
(* The ranges of the variables.                                             *)

(* A configured key stands for a role and the default tenant.               *)
LEMMA KeyIdentities ==
  ASSUME NEW k \in ApiKey
  PROVE  KeyIdentity(k) \in Identity
BY KeyAssumption DEF KeyIdentity, Identity

(* A failing call is remembered, of this request alone.                     *)
LEMMA HurtTypes ==
  ASSUME SessionsTypeOK, NEW r \in Request, hurt' = hurt \/ BecomeHurt(r)
  PROVE  hurt' \in [Request -> BOOLEAN]
<1>1. hurt \in [Request -> BOOLEAN]
  BY DEF SessionsTypeOK
<1>2. CASE hurt' = hurt
  BY <1>1, <1>2
<1>3. CASE hurt' = [hurt EXCEPT ![r] = TRUE]
  BY Zenon, <1>1, <1>3
<1>4. QED
  BY <1>2, <1>3 DEF BecomeHurt

(* What a request asks for at each step.                                    *)
Credentials(kind) == [kind : {kind}, email : Email, password : Password]
ByApiKey == [kind : {"keylogin"}, key : ApiKey]
Protecteds == [kind : Protected, cookie : Request \cup {None}, key : ApiKey \cup {None}]
Cookied == [kind : Protected, cookie : Request, key : ApiKey \cup {None}]

Shape(r) ==
    /\ pc[r] = "new" => ask[r] = None
    /\ ask[r] = None => pc[r] = "new" \/ (pc[r] = "done" /\ status[r] = 429)
    /\ pc[r] \notin Ended => status[r] = 0
    /\ pc[r] \in {"tenant", "user"} => ask[r] \in Credentials("signup")
    /\ pc[r] = "find" => ask[r] \in Credentials("login")
    /\ pc[r] = "store" =>
          ask[r] \in Credentials("signup") \cup Credentials("login") \cup ByApiKey
    /\ pc[r] \in {"get", "expire", "delete"} => ask[r] \in Cookied
    /\ pc[r] = "route" => ask[r] \in Protecteds
    /\ pc[r] = "delete" => ask[r].kind = "logout"
    /\ pc[r] \in {"store", "expire", "route", "delete"} => who[r] \in Identity

TypeInv == SessionsTypeOK /\ \A r \in Request : Shape(r)

(* A request that gets past the limiter.                                    *)
LEMMA EnterTypes ==
  ASSUME TypeInv, NEW r \in Request, NEW a \in Ask, Enter(r, a)
  PROVE  TypeInv'
<1> USE DEF TypeInv
<1>1. ask' = [ask EXCEPT ![r] = a] /\ a # None /\ pc[r] = "new"
      /\ hurt' = hurt /\ tenants' = tenants /\ users' = users
      /\ sessions' = sessions /\ expiry' = expiry
  <2>1. a # None
    BY NoneAssumption
  <2>2. QED
    BY <2>1 DEF Enter, dbVars, redisVars
<1>2. CASE a.kind = "signup"
  <2>1. a \in Credentials("signup")
    BY <1>2 DEF Ask, Credentials, Protected
  <2>2. QED
    BY <1>1, <1>2, <2>1 DEF Enter, SessionsTypeOK, Goto, Protected, Shape, Ended
<1>3. CASE a.kind = "login"
  <2>1. a \in Credentials("login")
    BY <1>3 DEF Ask, Credentials, Protected
  <2>2. QED
    BY <1>1, <1>3, <2>1 DEF Enter, SessionsTypeOK, Goto, Protected, Shape, Ended
<1>4. CASE a.kind = "keylogin"
  <2>1. a.key \in ApiKey \cup {None} /\ (a.key # None => a \in ByApiKey)
    BY <1>4 DEF Ask, Protected, ByApiKey
  <2>2. QED
    BY <1>1, <1>4, <2>1, KeyIdentities
       DEF Enter, SessionsTypeOK, Goto, Answer, RunAs, Protected, Ended, Shape
<1>5. CASE a.kind \in Protected
  <2>1. a.key \in ApiKey \cup {None} /\ a \in Protecteds /\ (a.cookie # None => a \in Cookied)
    BY <1>5 DEF Ask, Protected, Protecteds, Cookied
  <2>2. CASE a.cookie = None
    BY <1>1, <1>5, <2>1, <2>2, KeyIdentities
       DEF Enter, SessionsTypeOK, Protected, ByKey, Goto, Answer, RunAs, Ended, Shape
  <2>3. CASE a.cookie # None
    BY <1>1, <1>5, <2>1, <2>3 DEF Enter, SessionsTypeOK, Goto, Protected, Shape, Ended
  <2>4. QED
    BY <2>2, <2>3
<1>6. QED
  BY <1>2, <1>3, <1>4, <1>5 DEF Ask, Protected

(* The steps of a signup.                                                   *)
LEMMA SignupTypes ==
  ASSUME TypeInv, NEW r \in Request,
         CreateTenant(r) \/ CreateTenantFails(r) \/ CreateUser(r) \/ CreateUserFails(r)
  PROVE  TypeInv'
<1> USE DEF TypeInv
<1>1. ask[r] \in Credentials("signup")
  BY DEF CreateTenant, CreateTenantFails, CreateUser, CreateUserFails, Shape
<1>2. ask' = ask /\ sessions' = sessions /\ expiry' = expiry
  BY DEF CreateTenant, CreateTenantFails, CreateUser, CreateUserFails, redisVars
<1>3. NewUser(r) \in User /\ [role |-> "admin", tenant |-> r] \in Identity
  BY <1>1 DEF NewUser, User, Credentials, Identity, Roles
<1>4. CASE CreateTenant(r)
  BY <1>1, <1>2, <1>4 DEF CreateTenant, Goto, SessionsTypeOK, Shape, Ended
<1>5. CASE CreateTenantFails(r)
  BY <1>1, <1>2, <1>5, NoneAssumption
     DEF CreateTenantFails, DbFails, BecomeHurt, Answer, Goto, SessionsTypeOK, Shape, Ended
<1>6. CASE CreateUser(r)
  BY <1>1, <1>2, <1>3, <1>6 DEF CreateUser, RunAs, Goto, SessionsTypeOK, Shape, Ended
<1>7. CASE CreateUserFails(r)
  BY <1>1, <1>2, <1>3, <1>7, NoneAssumption
     DEF CreateUserFails, DbFails, BecomeHurt, Answer, Goto, SessionsTypeOK, Shape, Ended
<1>8. QED
  BY <1>4, <1>5, <1>6, <1>7

(* The steps of a login, and the session that a login or signup ends in.    *)
LEMMA LoginTypes ==
  ASSUME TypeInv, ClockTypeOK, NEW r \in Request,
         \/ GetUserByEmail(r) \/ UserNotFound(r)
         \/ CreateSession(r) \/ CreateSessionFails(r)
  PROVE  TypeInv'
<1> USE DEF TypeInv
<1>1. CASE GetUserByEmail(r)
  <2>1. PICK u \in users :
          IF u.password = ask[r].password
             THEN Goto(r, "store") /\ UNCHANGED status
                  /\ RunAs(r, [role |-> u.role, tenant |-> u.tenant])
             ELSE Answer(r, 401) /\ UNCHANGED who
    BY <1>1 DEF GetUserByEmail
  <2>2. [role |-> u.role, tenant |-> u.tenant] \in Identity
    BY DEF SessionsTypeOK, User, Identity, Roles
  <2>3. QED
    BY <1>1, <2>1, <2>2, NoneAssumption
       DEF GetUserByEmail, dbVars, redisVars, Goto, Answer, RunAs, SessionsTypeOK, Shape, Ended
<1>2. CASE UserNotFound(r)
  <2>1. hurt' \in [Request -> BOOLEAN]
    BY <1>2, HurtTypes DEF UserNotFound, DbFails
  <2>2. /\ pc[r] = "find" /\ Answer(r, 401)
        /\ UNCHANGED <<ask, who, dbVars, redisVars>>
    BY <1>2 DEF UserNotFound
  <2>3. QED
    BY <2>1, <2>2, NoneAssumption
       DEF dbVars, redisVars, Goto, Answer, SessionsTypeOK, Shape, Ended
<1>3. ASSUME pc[r] = "store", Store(r)
      PROVE  sessions' \in [Request -> Identity \cup {None}] /\ expiry' \in [Request -> Nat]
  BY <1>3, TTLAssumption, ClockAssumption DEF Store, SessionsTypeOK, ClockTypeOK
<1>4. CASE CreateSession(r)
  BY <1>3, <1>4, NoneAssumption
     DEF CreateSession, dbVars, Goto, Answer, SessionsTypeOK, Shape, Ended
<1>5. CASE CreateSessionFails(r)
  <2>1. sessions' \in [Request -> Identity \cup {None}] /\ expiry' \in [Request -> Nat]
    BY <1>3, <1>5 DEF CreateSessionFails, redisVars, SessionsTypeOK
  <2>2. hurt' \in [Request -> BOOLEAN]
    BY <1>5, HurtTypes DEF CreateSessionFails, RedisFails
  <2>3. pc[r] = "store" /\ Answer(r, 500) /\ UNCHANGED <<ask, who, dbVars>>
    BY <1>5 DEF CreateSessionFails
  <2>4. QED
    BY <2>1, <2>2, <2>3, NoneAssumption
       DEF dbVars, Goto, Answer, SessionsTypeOK, Shape, Ended
<1>6. QED
  BY <1>1, <1>2, <1>4, <1>5

(* The steps of a request behind the authentication.                        *)
LEMMA SessionTypes ==
  ASSUME TypeInv, ClockTypeOK, NEW r \in Request,
         \/ GetSession(r) \/ ExpireSession(r) \/ ValidateFails(r) \/ Route(r)
         \/ RevokeSession(r) \/ RevokeFails(r) \/ Cut(r)
  PROVE  TypeInv'
<1> USE DEF TypeInv
<1>1. ASSUME pc[r] \in {"get", "expire", "delete"}
      PROVE  /\ ask[r] \in Cookied /\ ask[r] \in Protecteds /\ ask[r] # None
             /\ ask[r].cookie \in Request /\ ask[r].cookie # None
             /\ ask[r].key \in ApiKey \cup {None}
  BY <1>1, NamesAssumption DEF Shape, Cookied, Protecteds, Ended
<1>2. ASSUME NEW t \in Request, Refresh(t)
      PROVE  sessions' = sessions /\ expiry' \in [Request -> Nat]
  BY <1>2, TTLAssumption, ClockAssumption DEF Refresh, SessionsTypeOK, ClockTypeOK
<1>3. CASE GetSession(r)
  <2>1. CASE Live(ask[r].cookie)
    <3>1. sessions[ask[r].cookie] \in Identity
      BY <1>1, <1>3, <2>1 DEF GetSession, Live, SessionsTypeOK
    <3>2. QED
      BY <1>1, <1>3, <2>1, <3>1
         DEF GetSession, dbVars, redisVars, Goto, RunAs, SessionsTypeOK, Shape, Ended
  <2>2. CASE ~Live(ask[r].cookie)
    BY <1>1, <1>3, <2>2, KeyIdentities
       DEF GetSession, dbVars, redisVars, ByKey, Answer, Goto, RunAs, SessionsTypeOK,
           Shape, Ended
  <2>3. QED
    BY <2>1, <2>2
<1>4. CASE ExpireSession(r)
  BY <1>1, <1>2, <1>4 DEF ExpireSession, dbVars, Goto, SessionsTypeOK, Shape, Ended
<1>5. CASE ValidateFails(r)
  <2>1. sessions' = sessions /\ expiry' \in [Request -> Nat]
    BY <1>1, <1>2, <1>5 DEF ValidateFails, redisVars, SessionsTypeOK
  <2>2. hurt' \in [Request -> BOOLEAN]
    BY <1>5, HurtTypes DEF ValidateFails, RedisFails
  <2>3. /\ pc[r] \in {"get", "expire"} /\ ByKey(r, ask[r].key)
        /\ UNCHANGED <<ask, dbVars>>
    BY <1>5 DEF ValidateFails
  <2>4. QED
    BY <1>1, <2>1, <2>2, <2>3, KeyIdentities
       DEF dbVars, ByKey, Answer, Goto, RunAs, SessionsTypeOK, Shape, Ended
<1>6. CASE Route(r)
  <2>1. /\ ask[r] \in Protecteds /\ ask[r] # None
        /\ ask[r].cookie # None => ask[r] \in Cookied
    BY <1>6 DEF Route, Shape, Protecteds, Cookied, Ended
  <2>2. QED
    BY <1>6, <2>1
       DEF Route, dbVars, redisVars, Answer, Goto, SessionsTypeOK, Shape, Ended
<1>7. ASSUME NEW t \in Request, Delete(t)
      PROVE  sessions' \in [Request -> Identity \cup {None}] /\ expiry' \in [Request -> Nat]
  BY <1>7 DEF Delete, SessionsTypeOK
<1>8. CASE RevokeSession(r)
  BY <1>1, <1>7, <1>8 DEF RevokeSession, dbVars, Answer, Goto, SessionsTypeOK, Shape, Ended
<1>9. CASE RevokeFails(r)
  <2>1. sessions' \in [Request -> Identity \cup {None}] /\ expiry' \in [Request -> Nat]
    BY <1>1, <1>7, <1>9 DEF RevokeFails, redisVars, SessionsTypeOK
  <2>2. hurt' \in [Request -> BOOLEAN]
    BY <1>9, HurtTypes DEF RevokeFails, RedisFails
  <2>3. pc[r] = "delete" /\ Answer(r, 204) /\ UNCHANGED <<ask, who, dbVars>>
    BY <1>9 DEF RevokeFails
  <2>4. QED
    BY <1>1, <2>1, <2>2, <2>3
       DEF dbVars, Answer, Goto, SessionsTypeOK, Shape, Ended
<1>10. CASE Cut(r)
  BY <1>10 DEF Cut, dbVars, redisVars, Goto, SessionsTypeOK, Shape, Ended
<1>11. QED
  BY <1>3, <1>4, <1>5, <1>6, <1>8, <1>9, <1>10

(* A request that the limiter turns away asks for nothing.                  *)
LEMMA TurnAwayTypes ==
  ASSUME TypeInv, NEW r \in Request, NEW o \in Skew, TurnAway(r, o)
  PROVE  TypeInv'
BY DEF TurnAway, Answer, Goto, dbVars, redisVars, TypeInv, SessionsTypeOK, Shape, Ended

-------------------------------------------------------------------------------
(* The theorems of the limiter.                                             *)

(* The clock stays within its bound, and what a step does to the limiter.   *)
LEMMA ClockKeeps ==
  ASSUME ClockTypeOK, [Next]_vars
  PROVE  ClockTypeOK'
<1>1. clock' = clock \/ Advance
  BY DEF Next, vars, Tick, Pass, PassUncounted, TurnAway
<1>2. QED
  BY <1>1, ClockAssumption DEF ClockTypeOK, Advance

(* Every step grants, denies, lets time pass or leaves the limiter alone.   *)
LEMMA LimiterSteps ==
  ASSUME [Next]_vars
  PROVE  \/ UNCHANGED <<clock, limiterVars>>
         \/ clock' = clock + 1 /\ UNCHANGED limiterVars
         \/ clock' = clock /\ \E o \in Skew : Grant(o) \/ Deny(o)
<1>1. CASE Tick
  BY <1>1 DEF Tick, Advance
<1>2. ASSUME NEW r \in Request, NEW a \in Ask, PassUncounted(r, a)
      PROVE  UNCHANGED <<clock, limiterVars>> \/ (clock' = clock /\ \E o \in Skew : Deny(o))
  BY <1>2 DEF PassUncounted, FailOpen
<1>3. ASSUME NEW r \in Request, NEW a \in Ask, NEW o \in Skew, Pass(r, o, a)
      PROVE  clock' = clock /\ Grant(o)
  BY <1>3 DEF Pass
<1>4. ASSUME NEW r \in Request, NEW o \in Skew, TurnAway(r, o)
      PROVE  clock' = clock /\ Deny(o)
  BY <1>4 DEF TurnAway
<1>5. CASE UNCHANGED vars
  BY <1>5 DEF vars
<1>6. QED
  BY <1>1, <1>2, <1>3, <1>4, <1>5 DEF Next

(* The limiter's invariant is inductive.                                    *)
LEMMA LimiterKeeps ==
  ASSUME ClockTypeOK, LimiterInv, [Next]_vars
  PROVE  LimiterInv'
<1>1. CASE UNCHANGED <<clock, limiterVars>>
  <2>1. entries' = entries /\ keyExpiry' = keyExpiry /\ grants' = grants /\ clock' = clock
    BY <1>1 DEF limiterVars
  <2>2. QED
    BY <2>1 DEF LimiterInv, Written, GrantedIn
<1>2. CASE clock' = clock + 1 /\ UNCHANGED limiterVars
  BY <1>2, AdvanceKeeps
<1>3. CASE clock' = clock /\ \E o \in Skew : Grant(o) \/ Deny(o)
  <2>1. clock \in Nat
    BY ClockAssumption DEF ClockTypeOK
  <2>2. QED
    BY <1>3, <2>1, GrantKeeps, DenyKeeps
<1>4. QED
  BY <1>1, <1>2, <1>3, LimiterSteps

(* At the start nothing has been written.                                   *)
LEMMA LimiterStarts ==
  ASSUME Init
  PROVE  ClockTypeOK /\ LimiterInv
<1>1. clock = 0 /\ entries = {} /\ keyExpiry = 0 /\ grants = {}
  BY DEF Init, ClockInit, LimiterInit
<1>2. Written = {} /\ \A t \in Nat : GrantedIn(t, t + Window - Drift - 1) = {}
  BY <1>1 DEF Written, GrantedIn
<1>3. IsFiniteSet({}) /\ Cardinality({}) = 0
  BY FS_EmptySet
<1>4. Limit \in Nat /\ 0 \in Int /\ 0 <= Limit /\ 0 \in 0..MaxClock
  BY LimiterAssumption, ClockAssumption
<1>5. \A t \in Nat : /\ IsFiniteSet(GrantedIn(t, t + Window - Drift - 1))
                     /\ Cardinality(GrantedIn(t, t + Window - Drift - 1)) <= Limit
  BY <1>2, <1>3, <1>4
<1>6. IsFiniteSet(Written) /\ IsFiniteSet(entries) /\ Cardinality(entries) <= Limit
  BY <1>1, <1>2, <1>3, <1>4
<1>7. QED
  BY <1>1, <1>4, <1>5, <1>6 DEF ClockTypeOK, LimiterInv

(* Within any span of a window, less the drift of the servers' clocks, at most
   Limit entries are written by the script of RateLimitMiddleware: for every
   limit, window and drift, also while Redis fails.                         *)
THEOREM LimitIsKept == Spec => []LimitHolds
<1>1. Init => ClockTypeOK /\ LimiterInv
  BY LimiterStarts
<1>2. ClockTypeOK /\ LimiterInv /\ [Next]_vars => (ClockTypeOK /\ LimiterInv)'
  BY ClockKeeps, LimiterKeeps
<1>3. ClockTypeOK /\ LimiterInv => LimitHolds
  BY ClockAssumption DEF ClockTypeOK, LimiterInv, LimitHolds
<1>4. QED
  BY <1>1, <1>2, <1>3, PTL DEF Spec

(* What the purge leaves was granted within the window before, plus the
   drift.                                                                   *)
LEMMA LeftIsRecent ==
  ASSUME ClockTypeOK, LimiterInv, NEW o \in Skew
  PROVE  /\ Left(o) \subseteq GrantedIn(clock - Window - Drift + 1, clock)
         /\ IsFiniteSet(GrantedIn(clock - Window - Drift + 1, clock))
<1> DEFINE recent == GrantedIn(clock - Window - Drift + 1, clock)
<1>1. ASSUME NEW e \in Left(o)
      PROVE  e \in recent
  <2>1. e \in entries /\ e.score > clock + o - Window
    BY <1>1 DEF Left
  <2>2. PICK g \in grants : g.entry = e
    BY <2>1 DEF LimiterInv
  <2>3. PICK own \in Skew : g.entry.score = g.time + own
    BY DEF LimiterInv
  <2>4. /\ g.time \in Nat /\ g.time <= clock /\ clock \in Int /\ own \in Int /\ o \in Int
        /\ Window \in Nat /\ Drift \in Nat /\ own - o <= Drift
    BY LimiterAssumption DEF LimiterInv
  <2>5. g.time \in (clock - Window - Drift + 1)..clock
    BY <2>1, <2>2, <2>3, <2>4
  <2>6. QED
    BY <2>2, <2>5 DEF GrantedIn
<1>2. recent \subseteq Written
  BY DEF GrantedIn, Written
<1>3. IsFiniteSet(recent)
  BY <1>2, FS_Subset DEF LimiterInv
<1>4. QED
  BY <1>1, <1>3

(* A request is denied only if Limit others were granted within the window
   before it, plus the drift: denied requests are not counted.              *)
THEOREM DenialsAreJust == Spec => []DenialsAreDue
<1>1. Init => ClockTypeOK /\ LimiterInv
  BY LimiterStarts
<1>2. ClockTypeOK /\ LimiterInv /\ [Next]_vars => (ClockTypeOK /\ LimiterInv)'
  BY ClockKeeps, LimiterKeeps
<1>3. ASSUME ClockTypeOK, LimiterInv
      PROVE  DenialsAreDue
  <2> DEFINE recent == GrantedIn(clock - Window - Drift + 1, clock)
  <2>1. SUFFICES ASSUME NEW o \in Skew, Cardinality(Left(o)) >= Limit
                 PROVE  Cardinality(recent) >= Limit
    BY DEF DenialsAreDue
  <2>2. IsFiniteSet(recent) /\ Left(o) \subseteq recent
    BY <1>3, LeftIsRecent
  <2>3. /\ Cardinality(Left(o)) <= Cardinality(recent)
        /\ Cardinality(Left(o)) \in Nat /\ Cardinality(recent) \in Nat
    BY <2>2, FS_Subset, FS_CardinalityType
  <2>4. QED
    BY <2>1, <2>3, LimiterAssumption
<1>4. QED
  BY <1>1, <1>2, <1>3, PTL DEF Spec

-------------------------------------------------------------------------------
(* The ranges of the variables of Gateway.                                  *)

(* The ranges of the limiter's variables are kept.                          *)
LEMMA LimiterTypes ==
  ASSUME ClockTypeOK, LimiterTypeOK, LimiterInv, [Next]_vars
  PROVE  LimiterTypeOK'
<1>1. IsFiniteSet(entries') /\ Cardinality(entries') <= Limit
  BY LimiterKeeps DEF LimiterInv
<1>2. CASE UNCHANGED limiterVars
  BY <1>2, <1>1 DEF limiterVars, LimiterTypeOK
<1>3. ASSUME NEW o \in Skew, Deny(o)
      PROVE  LimiterTypeOK'
  BY <1>1, <1>3, LeftIsPart DEF Deny, LimiterTypeOK
<1>4. ASSUME NEW o \in Skew, Grant(o)
      PROVE  LimiterTypeOK'
  <2>1. PICK d \in Draw :
          /\ entries' = Left(o) \cup {[score |-> clock + o, draw |-> d]}
          /\ grants' = grants \cup
                {[time |-> clock, entry |-> [score |-> clock + o, draw |-> d]]}
    BY <1>4 DEF Grant
  <2>2. [score |-> clock + o, draw |-> d] \in Entry
    BY LimiterAssumption DEF Entry, LimiterInv
  <2>3. entries' \subseteq Entry
    BY <2>1, <2>2, LeftIsPart DEF LimiterTypeOK
  <2>4. grants' \subseteq [time : 0..MaxClock, entry : Entry]
    BY <2>1, <2>2 DEF LimiterTypeOK, ClockTypeOK
  <2>5. keyExpiry' \in 0..(MaxClock + Window)
    BY <1>4, LimiterAssumption, ClockAssumption DEF Grant, ClockTypeOK
  <2>6. QED
    BY <1>1, <2>3, <2>4, <2>5 DEF LimiterTypeOK
<1>5. QED
  BY <1>2, <1>3, <1>4, LimiterSteps

(* The ranges of the sessions' variables are kept.                          *)
LEMMA TypesKeep ==
  ASSUME ClockTypeOK, TypeInv, [Next]_vars
  PROVE  TypeInv'
<1>1. CASE UNCHANGED sessionVars
  BY <1>1 DEF sessionVars, requestVars, dbVars, redisVars, TypeInv, SessionsTypeOK, Shape
<1>2. ASSUME NEW r \in Request, NEW a \in Ask,
             PassUncounted(r, a) \/ \E o \in Skew : Pass(r, o, a)
      PROVE  TypeInv'
  BY <1>2, EnterTypes DEF PassUncounted, Pass
<1>3. ASSUME NEW r \in Request, NEW o \in Skew, TurnAway(r, o)
      PROVE  TypeInv'
  BY <1>3, TurnAwayTypes
<1>4. ASSUME NEW r \in Request, Proceed(r)
      PROVE  TypeInv'
  BY <1>4, SignupTypes, LoginTypes, SessionTypes DEF Proceed
<1>5. QED
  BY <1>1, <1>2, <1>3, <1>4 DEF Next, vars, Tick

(* What every reachable state satisfies.                                    *)
GatewayInv == ClockTypeOK /\ TypeInv /\ LimiterTypeOK /\ LimiterInv

(* It holds at the start and is kept by every step.                         *)
LEMMA GatewayInvHolds ==
  /\ Init => GatewayInv
  /\ GatewayInv /\ [Next]_vars => GatewayInv'
<1>1. ASSUME Init
      PROVE  GatewayInv
  <2>1. ClockTypeOK /\ LimiterInv
    BY <1>1, LimiterStarts
  <2>2. entries = {} /\ keyExpiry = 0 /\ grants = {}
    BY <1>1 DEF Init, LimiterInit
  <2>3. 0 \in 0..(MaxClock + Window)
    BY LimiterAssumption, ClockAssumption
  <2>4. LimiterTypeOK
    BY <2>1, <2>2, <2>3 DEF LimiterInv, LimiterTypeOK
  <2>5. TypeInv
    BY <1>1 DEF Init, SessionsInit, TypeInv, SessionsTypeOK, Shape, Ended
  <2>6. QED
    BY <2>1, <2>4, <2>5 DEF GatewayInv
<1>2. GatewayInv /\ [Next]_vars => GatewayInv'
  BY ClockKeeps, TypesKeep, LimiterTypes, LimiterKeeps DEF GatewayInv
<1>3. QED
  BY <1>1, <1>2

(* Every variable of Gateway keeps its range, and the sorted set of the limiter
   never holds more than Limit entries.                                     *)
THEOREM TypeCorrect == Spec => []TypeOK
<1>1. GatewayInv => TypeOK
  BY DEF GatewayInv, TypeInv, TypeOK
<1>2. QED
  BY <1>1, GatewayInvHolds, PTL DEF Spec

-------------------------------------------------------------------------------
(* The sessions: what one request's step does to the others and to Redis.   *)

TurnedAway(r) ==
    /\ pc[r] = "new" /\ Answer(r, 429)
    /\ UNCHANGED <<ask, who, hurt, dbVars, redisVars>>

Acts(r) == (\E a \in Ask : Enter(r, a)) \/ TurnedAway(r) \/ Proceed(r)

(* A step of Gateway is one of time, or one of a request.                   *)
LEMMA OneActs ==
  ASSUME [Next]_vars
  PROVE  \/ UNCHANGED sessionVars /\ (clock' = clock \/ clock' = clock + 1)
         \/ clock' = clock /\ \E r \in Request : Acts(r)
BY DEF Next, vars, Tick, Advance, Pass, PassUncounted, TurnAway, TurnedAway, Acts

(* A request changes nothing that is another's, and users only come.        *)
LEMMA OthersRest ==
  ASSUME TypeInv, NEW r \in Request, Acts(r)
  PROVE  /\ pc[r] \notin Ended
         /\ \A q \in Request \ {r} :
               /\ pc'[q] = pc[q] /\ ask'[q] = ask[q] /\ who'[q] = who[q]
               /\ status'[q] = status[q] /\ hurt'[q] = hurt[q]
         /\ pc[r] # "new" => ask'[r] = ask[r]
         /\ hurt[r] => hurt'[r]
         /\ users \subseteq users' /\ tenants \subseteq tenants'
<1> USE DEF TypeInv, SessionsTypeOK
<1>1. CASE \E a \in Ask : Enter(r, a)
  BY <1>1 DEF Enter, dbVars, ByKey, Answer, Goto, RunAs, Ended
<1>2. CASE TurnedAway(r)
  BY <1>2 DEF TurnedAway, dbVars, Answer, Goto, Ended
<1>3. CASE CreateTenant(r) \/ CreateTenantFails(r) \/ CreateUser(r) \/ CreateUserFails(r)
  <2>1. hurt' = hurt \/ BecomeHurt(r)
    BY <1>3 DEF CreateTenant, CreateTenantFails, CreateUser, CreateUserFails, DbFails
  <2>2. \A q \in Request \ {r} : hurt'[q] = hurt[q]
    BY <2>1 DEF BecomeHurt
  <2>3. hurt[r] => hurt'[r]
    BY <2>1 DEF BecomeHurt
  <2>4. /\ pc[r] \in {"tenant", "user"} /\ ask' = ask
        /\ \E step : Goto(r, step)
        /\ status' = status \/ \E code : status' = [status EXCEPT ![r] = code]
        /\ who' = who \/ \E identity : RunAs(r, identity)
        /\ users \subseteq users' /\ tenants \subseteq tenants'
    BY <1>3 DEF CreateTenant, CreateTenantFails, CreateUser, CreateUserFails, Answer
  <2>5. QED
    BY <2>2, <2>3, <2>4 DEF Goto, RunAs, Ended
<1>4. CASE GetUserByEmail(r) \/ UserNotFound(r) \/ CreateSession(r) \/ CreateSessionFails(r)
  BY <1>4
     DEF GetUserByEmail, UserNotFound, CreateSession, CreateSessionFails, DbFails,
         RedisFails, BecomeHurt, dbVars, Answer, Goto, RunAs, Ended
<1>5. CASE GetSession(r) \/ ExpireSession(r) \/ ValidateFails(r) \/ Route(r)
  BY <1>5
     DEF GetSession, ExpireSession, ValidateFails, Route, RedisFails, BecomeHurt, dbVars,
         ByKey, Answer, Goto, RunAs, Ended
<1>6. CASE RevokeSession(r) \/ RevokeFails(r) \/ Cut(r)
  BY <1>6
     DEF RevokeSession, RevokeFails, Cut, RedisFails, BecomeHurt, dbVars, Answer, Goto, Ended
<1>7. QED
  BY <1>1, <1>2, <1>3, <1>4, <1>5, <1>6 DEF Acts, Proceed

(* No request starts over.                                                  *)
LEMMA NeverNewAgain ==
  ASSUME TypeInv, NEW r \in Request, Acts(r)
  PROVE  pc'[r] # "new"
<1> USE DEF TypeInv, SessionsTypeOK, Answer, Goto
<1>1. CASE \E a \in Ask : Enter(r, a)
  BY <1>1 DEF Enter, ByKey
<1>2. CASE TurnedAway(r)
  BY <1>2 DEF TurnedAway
<1>3. CASE \/ CreateTenant(r) \/ CreateTenantFails(r) \/ CreateUser(r) \/ CreateUserFails(r)
           \/ UserNotFound(r) \/ CreateSession(r) \/ CreateSessionFails(r)
  <2>1. \E step \in {"user", "store", "done"} : pc' = [pc EXCEPT ![r] = step]
    BY <1>3
       DEF CreateTenant, CreateTenantFails, CreateUser, CreateUserFails, UserNotFound,
           CreateSession, CreateSessionFails
  <2>2. QED
    BY <2>1
<1>4. CASE GetUserByEmail(r)
  BY <1>4 DEF GetUserByEmail
<1>5. CASE \/ GetSession(r) \/ ExpireSession(r) \/ ValidateFails(r) \/ Route(r)
           \/ RevokeSession(r) \/ RevokeFails(r) \/ Cut(r)
  BY <1>5
     DEF GetSession, ExpireSession, ValidateFails, Route, RevokeSession, RevokeFails, Cut,
         ByKey
<1>6. QED
  BY <1>1, <1>2, <1>3, <1>4, <1>5 DEF Acts, Proceed

(* Only the login that is at its last step starts a session; a session that has
   ended stays ended.                                                       *)
LEMMA SessionsOnlyEnd ==
  ASSUME TypeInv, ClockTypeOK, NEW r \in Request, Acts(r), clock' = clock,
         NEW t \in Request, ~(t = r /\ pc[r] = "store")
  PROVE  /\ sessions'[t] = sessions[t] \/ sessions'[t] = None
         /\ Live(t)' => Live(t) /\ sessions'[t] = sessions[t]
<1> USE DEF TypeInv, SessionsTypeOK
<1>1. CASE UNCHANGED redisVars
  BY <1>1 DEF redisVars, Live
<1>2. CASE Store(r) /\ t # r
  BY <1>2 DEF Store, Live
<1>3. ASSUME NEW c \in Request, Refresh(c)
      PROVE  /\ sessions'[t] = sessions[t]
             /\ Live(t)' => Live(t)
  BY <1>3 DEF Refresh, Live
<1>4. ASSUME NEW c \in Request, Delete(c)
      PROVE  /\ sessions'[t] = sessions[t] \/ sessions'[t] = None
             /\ Live(t)' => Live(t) /\ sessions'[t] = sessions[t]
  BY <1>4 DEF Delete, Live
<1>5. pc[r] \in {"get", "expire", "delete"} => ask[r].cookie \in Request
  BY DEF Shape, Cookied
<1>6. \/ UNCHANGED redisVars
      \/ pc[r] = "store" /\ Store(r)
      \/ pc[r] \in {"get", "expire"} /\ Refresh(ask[r].cookie)
      \/ pc[r] = "delete" /\ Delete(ask[r].cookie)
  BY DEF Acts, Enter, TurnedAway, Proceed, CreateTenant, CreateTenantFails, CreateUser,
         CreateUserFails, GetUserByEmail, UserNotFound, CreateSession, CreateSessionFails,
         GetSession, ExpireSession, ValidateFails, Route, RevokeSession, RevokeFails, Cut
<1>7. QED
  BY <1>1, <1>2, <1>3, <1>4, <1>5, <1>6

(* A login that was answered stays answered.                                *)
LEMMA IssuedStay ==
  ASSUME TypeInv, NEW r \in Request, Acts(r)
  PROVE  Issued \subseteq Issued'
BY OthersRest DEF Issued, Ended

(* A login proves no less when users have come.                             *)
LEMMA ProvedStays ==
  ASSUME TypeInv, NEW r \in Request, Acts(r), NEW t \in Request, ask'[t] = ask[t],
         ask[t].kind \in {"signup", "login", "keylogin"}
  PROVE  Proved(t) \subseteq Proved(t)'
<1>1. users \subseteq users'
  BY OthersRest
<1>2. CASE ask[t].kind = "signup"
  BY <1>2 DEF Proved
<1>3. CASE ask[t].kind = "login"
  BY <1>1, <1>3 DEF Proved
<1>4. CASE ask[t].kind = "keylogin"
  BY <1>4 DEF Proved, KeyIdentity
<1>5. QED
  BY <1>2, <1>3, <1>4

(* What a cookie proves is what the login it came from proves.              *)
LEMMA CookieProves ==
  ASSUME NEW r, NEW c, ask'[r].cookie = c
  PROVE  Proved(ask[r].cookie)' = Proved(c)'
BY DEF Proved

-------------------------------------------------------------------------------
(* Cookies and logout.                                                      *)

(* A cookie is that of an answered login.                                   *)
CookieInv == \A r \in Request : HasCookie(r) => ask[r].cookie \in Issued

LogoutInv ==
    \A r \in Request :
        pc[r] = "done" /\ status[r] = 204 /\ HasCookie(r) /\ ~hurt[r]
        => sessions[ask[r].cookie] = None

LiveInv ==
    \A r \in Request :
        /\ pc[r] \in {"expire", "route", "delete", "done"} /\ HasCookie(r)
        /\ status[r] # 429 /\ ~hurt[r] /\ Live(ask[r].cookie)
        => who[r] = sessions[ask[r].cookie] /\ status[r] # 401

(* Clients know no other tokens than those they were given.                 *)
LEMMA CookieKeeps ==
  ASSUME TypeInv, CookieInv, NEW r \in Request, Acts(r)
  PROVE  CookieInv'
<1>1. ASSUME NEW q \in Request, q # r, HasCookie(q)'
      PROVE  ask'[q].cookie \in Issued'
  BY <1>1, OthersRest, IssuedStay DEF HasCookie, CookieInv
<1>2. ASSUME HasCookie(r)'
      PROVE  ask'[r].cookie \in Issued'
  <2>1. CASE pc[r] # "new"
    BY <1>2, <2>1, OthersRest, IssuedStay DEF HasCookie, CookieInv
  <2>2. ASSUME NEW a \in Ask, Enter(r, a)
        PROVE  ask'[r].cookie \in Issued
    <3>1. ask'[r] = a
      BY <2>2 DEF Enter, TypeInv, SessionsTypeOK
    <3>2. a.kind \in Protected /\ a.cookie # None
      BY <1>2, <3>1 DEF HasCookie
    <3>3. QED
      BY <2>2, <3>1, <3>2 DEF Enter, Protected
  <2>3. ~TurnedAway(r)
    <3>1. SUFFICES ASSUME TurnedAway(r)
                   PROVE  FALSE
      OBVIOUS
    <3>2. ask'[r] = None
      BY <3>1 DEF TurnedAway, TypeInv, Shape
    <3>3. QED
      BY <1>2, <3>2 DEF HasCookie
  <2>4. pc[r] = "new" => ~Proceed(r)
    BY DEF Proceed, CreateTenant, CreateTenantFails, CreateUser, CreateUserFails,
           GetUserByEmail, UserNotFound, CreateSession, CreateSessionFails, GetSession,
           ExpireSession, ValidateFails, Route, RevokeSession, RevokeFails, Cut
  <2>5. QED
    BY <2>1, <2>2, <2>3, <2>4, IssuedStay DEF Acts
<1>3. QED
  BY <1>1, <1>2 DEF CookieInv

(* The cookie of a request is the token of another, which is no longer at work. *)
LEMMA CookieIsOld ==
  ASSUME TypeInv, CookieInv, NEW q \in Request, HasCookie(q)
  PROVE  /\ ask[q].cookie \in Request
         /\ pc[ask[q].cookie] = "done"
         /\ sessions[ask[q].cookie] # None => sessions[ask[q].cookie] \in Identity
BY DEF CookieInv, Issued, TypeInv, SessionsTypeOK

(* What a request asks for while it signs up or logs in carries no cookie.  *)
LEMMA LoginsHaveNone ==
  ASSUME TypeInv, NEW r \in Request, pc[r] \in {"new", "tenant", "user", "find", "store"}
  PROVE  ~HasCookie(r) /\ (ask[r] # None => ask[r].kind \notin Protected)
BY DEF TypeInv, Shape, HasCookie, Credentials, ByApiKey, Protected

(* A logout that answered 204 and did not fail has ended its session, and no
   step brings it back.                                                     *)
LEMMA LogoutKeeps ==
  ASSUME TypeInv, ClockTypeOK, CookieInv, LogoutInv, NEW r \in Request, Acts(r),
         clock' = clock
  PROVE  LogoutInv'
<1>1. ASSUME NEW q \in Request, q # r,
             pc'[q] = "done", status'[q] = 204, HasCookie(q)', ~hurt'[q]
      PROVE  sessions'[ask'[q].cookie] = None
  <2>1. /\ pc[q] = "done" /\ status[q] = 204 /\ HasCookie(q) /\ ~hurt[q]
        /\ ask'[q] = ask[q]
    BY <1>1, OthersRest DEF HasCookie
  <2>2. sessions[ask[q].cookie] = None
    BY <2>1 DEF LogoutInv
  <2>3. ask[q].cookie \in Request /\ pc[ask[q].cookie] # "store"
    BY <2>1, CookieIsOld
  <2>4. QED
    BY <2>1, <2>2, <2>3, SessionsOnlyEnd
<1>2. ASSUME pc'[r] = "done", status'[r] = 204, HasCookie(r)', ~hurt'[r]
      PROVE  sessions'[ask'[r].cookie] = None
  <2> USE DEF TypeInv, SessionsTypeOK
  <2>1. CASE RevokeSession(r)
    <3>1. ask[r] \in Cookied
      BY <2>1 DEF RevokeSession, Shape
    <3>2. QED
      BY <2>1, <3>1 DEF RevokeSession, Delete, Cookied
  <2>2. ~RevokeFails(r)
    BY <1>2 DEF RevokeFails, RedisFails, BecomeHurt
  <2>3. ~Route(r)
    BY <1>2 DEF Route, Answer, Goto, HasCookie
  <2>4. ~(\E a \in Ask : Enter(r, a)) /\ ~TurnedAway(r)
    BY <1>2 DEF Enter, TurnedAway, ByKey, Answer, Goto
  <2>5. ~(\/ CreateTenant(r) \/ CreateTenantFails(r) \/ CreateUser(r) \/ CreateUserFails(r)
          \/ GetUserByEmail(r) \/ UserNotFound(r) \/ CreateSession(r)
          \/ CreateSessionFails(r))
    BY <1>2, LoginsHaveNone
       DEF CreateTenant, CreateTenantFails, CreateUser, CreateUserFails, GetUserByEmail,
           UserNotFound, CreateSession, CreateSessionFails, HasCookie
  <2>6. ~(GetSession(r) \/ ExpireSession(r) \/ ValidateFails(r) \/ Cut(r))
    BY <1>2 DEF GetSession, ExpireSession, ValidateFails, Cut, ByKey, Answer, Goto
  <2>7. QED
    BY <2>1, <2>2, <2>3, <2>4, <2>5, <2>6 DEF Acts, Proceed
<1>3. QED
  BY <1>1, <1>2 DEF LogoutInv

(* A request that saw its session in Redis runs under it as long as it lives. *)
LEMMA LiveKeeps ==
  ASSUME TypeInv, ClockTypeOK, CookieInv, LiveInv, NEW r \in Request, Acts(r),
         clock' = clock
  PROVE  LiveInv'
<1>1. ASSUME NEW q \in Request, q # r, pc'[q] \in {"expire", "route", "delete", "done"},
             HasCookie(q)', status'[q] # 429, ~hurt'[q], Live(ask[q].cookie)'
      PROVE  who'[q] = sessions'[ask'[q].cookie] /\ status'[q] # 401
  <2>1. /\ pc[q] \in {"expire", "route", "delete", "done"} /\ HasCookie(q)
        /\ status[q] # 429 /\ ~hurt[q]
        /\ ask'[q] = ask[q] /\ who'[q] = who[q] /\ status'[q] = status[q]
    BY <1>1, OthersRest DEF HasCookie
  <2>2. PICK c \in Request : c = ask[q].cookie /\ pc[c] = "done"
    BY <2>1, CookieIsOld
  <2>3. Live(ask[q].cookie) /\ sessions'[ask[q].cookie] = sessions[ask[q].cookie]
    <3>1. Live(c)'
      BY <1>1, <2>1, <2>2 DEF Live
    <3>2. Live(c) /\ sessions'[c] = sessions[c]
      BY <3>1, <2>2, SessionsOnlyEnd
    <3>3. QED
      BY <3>2, <2>2 DEF Live
  <2>4. QED
    BY <2>1, <2>3 DEF LiveInv
<1>2. ASSUME pc'[r] \in {"expire", "route", "delete", "done"}, HasCookie(r)',
             status'[r] # 429, ~hurt'[r], pc[r] # "new", Live(ask[r].cookie)'
      PROVE  who'[r] = sessions'[ask'[r].cookie] /\ status'[r] # 401
  <2>1. ask'[r] = ask[r] /\ HasCookie(r) /\ ~hurt[r]
    BY <1>2, OthersRest DEF HasCookie
  <2>2. PICK c \in Request : c = ask[r].cookie /\ pc[c] = "done"
    BY <2>1, CookieIsOld
  <2>3. Live(ask[r].cookie) /\ sessions'[ask[r].cookie] = sessions[ask[r].cookie]
    <3>1. Live(c)'
      BY <1>2, <2>1, <2>2 DEF Live
    <3>2. Live(c) /\ sessions'[c] = sessions[c]
      BY <3>1, <2>2, SessionsOnlyEnd
    <3>3. QED
      BY <3>2, <2>2 DEF Live
  <2>4. pc[r] \in {"get", "expire", "route", "delete"} /\ status[r] = 0
    BY <1>2, <2>1, LoginsHaveNone, OthersRest DEF TypeInv, SessionsTypeOK, Shape
  <2>5. pc[r] # "get" => who[r] = sessions[ask[r].cookie]
    BY <2>1, <2>3, <2>4 DEF LiveInv
  <2> USE DEF TypeInv, SessionsTypeOK
  <2>6. CASE GetSession(r)
    BY <2>1, <2>3, <2>4, <2>6 DEF GetSession, RunAs, Goto
  <2>7. CASE ExpireSession(r) \/ Route(r) \/ RevokeSession(r)
    BY <2>1, <2>3, <2>4, <2>5, <2>7 DEF ExpireSession, Route, RevokeSession, Answer, Goto
  <2>8. ~(ValidateFails(r) \/ RevokeFails(r))
    BY <1>2 DEF ValidateFails, RevokeFails, RedisFails, BecomeHurt
  <2>9. ~Cut(r)
    BY <1>2 DEF Cut, Goto
  <2>10. Proceed(r)
    BY <1>2 DEF Acts, Enter, TurnedAway
  <2>11. QED
    BY <2>4, <2>6, <2>7, <2>8, <2>9, <2>10
       DEF Proceed, CreateTenant, CreateTenantFails, CreateUser, CreateUserFails,
           GetUserByEmail, UserNotFound, CreateSession, CreateSessionFails
<1>3. ASSUME pc[r] = "new"
      PROVE  ~(pc'[r] \in {"expire", "route", "delete", "done"} /\ HasCookie(r)')
             \/ status'[r] = 429
  <2> USE DEF TypeInv, SessionsTypeOK
  <2>1. CASE TurnedAway(r)
    BY <2>1 DEF TurnedAway, Answer
  <2>2. ASSUME NEW a \in Ask, Enter(r, a), HasCookie(r)'
        PROVE  pc'[r] = "get"
    <3>1. ask'[r] = a
      BY <2>2 DEF Enter
    <3>2. a.kind \in Protected /\ a.cookie # None
      BY <2>2, <3>1 DEF HasCookie
    <3>3. QED
      BY <2>2, <3>2 DEF Enter, Protected, Goto
  <2>3. ~Proceed(r)
    BY <1>3
       DEF Proceed, CreateTenant, CreateTenantFails, CreateUser, CreateUserFails,
           GetUserByEmail, UserNotFound, CreateSession, CreateSessionFails, GetSession,
           ExpireSession, ValidateFails, Route, RevokeSession, RevokeFails, Cut
  <2>4. QED
    BY <2>1, <2>2, <2>3 DEF Acts
<1>4. QED
  <2>1. SUFFICES ASSUME NEW q \in Request, pc'[q] \in {"expire", "route", "delete", "done"},
                        HasCookie(q)', status'[q] # 429, ~hurt'[q], Live(ask[q].cookie)'
                 PROVE  who'[q] = sessions'[ask'[q].cookie] /\ status'[q] # 401
    BY <1>3, OthersRest DEF LiveInv
  <2>2. QED
    BY <1>1, <1>2, <1>3, <2>1

-------------------------------------------------------------------------------
(* Identities.                                                              *)

Logins == {"signup", "login", "keylogin"}

(* A session, and a login about to write one, hold what the login proved.   *)
StoreInv ==
    \A t \in Request :
        /\ pc[t] = "store" => who[t] \in Proved(t)
        /\ sessions[t] # None =>
              pc[t] # "new" /\ ask[t].kind \in Logins /\ sessions[t] \in Proved(t)

Entitled(r) ==
    \/ HasCookie(r) /\ who[r] \in Proved(ask[r].cookie)
    \/ ask[r].key # None /\ who[r] = KeyIdentity(ask[r].key)

Served(r) == pc[r] = "done" /\ status[r] \in {200, 204}

EntitledInv ==
    \A r \in Request :
        /\ pc[r] \in {"expire", "route", "delete"} \/ Served(r) =>
              (ask[r].kind \in Protected => Entitled(r))
        /\ Served(r) /\ ask[r].kind = "write" => who[r].role \in {"admin", "write"}

(* A login asks for nothing but to log in.                                  *)
LEMMA LoginKinds ==
  ASSUME TypeInv, NEW r \in Request, pc[r] \in {"tenant", "user", "find", "store"}
  PROVE  /\ ask[r].kind \in Logins /\ ask[r].kind \notin Protected /\ ask[r] # None
         /\ pc[r] \in {"tenant", "user"} => ask[r].kind = "signup"
         /\ pc[r] = "find" => ask[r].kind = "login"
BY DEF TypeInv, Shape, Credentials, ByApiKey, Logins, Protected, Ended

(* A login reaches its last step with what it proved.                       *)
LEMMA StoreProved ==
  ASSUME TypeInv, StoreInv, NEW r \in Request, Acts(r), pc'[r] = "store"
  PROVE  who'[r] \in Proved(r)'
<1> USE DEF TypeInv, SessionsTypeOK
<1>1. ASSUME NEW a \in Ask, Enter(r, a)
      PROVE  who'[r] \in Proved(r)'
  <2>1. ask'[r] = a /\ a.kind = "keylogin" /\ a.key # None
    BY <1>1 DEF Enter, ByKey, Answer, Goto, Protected
  <2>2. who'[r] = KeyIdentity(a.key)
    BY <1>1, <2>1 DEF Enter, RunAs, Protected
  <2>3. QED
    BY <2>1, <2>2 DEF Proved, KeyIdentity
<1>2. CASE CreateUser(r)
  <2>1. who'[r] = [role |-> "admin", tenant |-> r] /\ ask' = ask
    BY <1>2 DEF CreateUser, RunAs
  <2>2. ask[r].kind = "signup"
    BY <1>2, LoginKinds DEF CreateUser
  <2>3. QED
    BY <2>1, <2>2 DEF Proved
<1>3. CASE GetUserByEmail(r)
  <2>1. ask[r].kind = "login" /\ ask' = ask /\ users' = users
    BY <1>3, LoginKinds DEF GetUserByEmail, dbVars
  <2>2. PICK u \in users :
          /\ u.email = ask[r].email /\ u.password = ask[r].password
          /\ who' = [who EXCEPT ![r] = [role |-> u.role, tenant |-> u.tenant]]
    BY <1>3 DEF GetUserByEmail, Answer, Goto, RunAs
  <2>3. who'[r] \in {[role |-> v.role, tenant |-> v.tenant] : v \in {v \in users' :
            v.email = ask'[r].email /\ v.password = ask'[r].password}}
    BY <2>1, <2>2
  <2>4. QED
    BY <2>1, <2>3 DEF Proved
<1>4. ~TurnedAway(r)
  BY DEF TurnedAway, Answer, Goto
<1>5. ~(\/ CreateTenant(r) \/ CreateTenantFails(r) \/ CreateUserFails(r)
        \/ UserNotFound(r) \/ CreateSession(r) \/ CreateSessionFails(r))
  BY DEF CreateTenant, CreateTenantFails, CreateUserFails, UserNotFound, CreateSession,
         CreateSessionFails, Answer, Goto
<1>6. ~(\/ GetSession(r) \/ ExpireSession(r) \/ ValidateFails(r) \/ Route(r)
        \/ RevokeSession(r) \/ RevokeFails(r) \/ Cut(r))
  BY DEF GetSession, ExpireSession, ValidateFails, Route, RevokeSession, RevokeFails, Cut,
         ByKey, Answer, Goto
<1>7. QED
  BY <1>1, <1>2, <1>3, <1>4, <1>5, <1>6 DEF Acts, Proceed

(* What is stored is what was proved, and stays proved.                     *)
LEMMA StoreKeeps ==
  ASSUME TypeInv, ClockTypeOK, StoreInv, NEW r \in Request, Acts(r), clock' = clock
  PROVE  StoreInv'
<1>1. ASSUME NEW t \in Request, pc'[t] = "store"
      PROVE  who'[t] \in Proved(t)'
  <2>1. CASE t = r
    BY <1>1, <2>1, StoreProved
  <2>2. CASE t # r
    <3>1. pc[t] = "store" /\ ask'[t] = ask[t] /\ who'[t] = who[t]
      BY <1>1, <2>2, OthersRest
    <3>2. Proved(t) \subseteq Proved(t)'
      BY <3>1, LoginKinds, ProvedStays DEF Logins
    <3>3. QED
      BY <3>1, <3>2 DEF StoreInv
  <2>3. QED
    BY <2>1, <2>2
<1>2. ASSUME NEW t \in Request, sessions'[t] # None
      PROVE  pc'[t] # "new" /\ ask'[t].kind \in Logins /\ sessions'[t] \in Proved(t)'
  <2>1. CASE t = r /\ pc[r] = "store"
    <3>1. /\ ask'[r] = ask[r] /\ ask[r].kind \in Logins /\ pc'[r] # "new"
          /\ sessions'[r] = who[r] \/ sessions'[r] = sessions[r]
      BY <2>1, LoginKinds
         DEF Acts, Enter, TurnedAway, Proceed, CreateTenant, CreateTenantFails, CreateUser,
             CreateUserFails, GetUserByEmail, UserNotFound, CreateSession,
             CreateSessionFails, GetSession, ExpireSession, ValidateFails, Route,
             RevokeSession, RevokeFails, Cut, Store, redisVars, Answer, Goto, TypeInv,
             SessionsTypeOK
    <3>2. Proved(r) \subseteq Proved(r)'
      BY <3>1, ProvedStays DEF Logins
    <3>3. QED
      BY <1>2, <2>1, <3>1, <3>2 DEF StoreInv
  <2>2. CASE ~(t = r /\ pc[r] = "store")
    <3>1. sessions'[t] = sessions[t]
      BY <1>2, <2>2, SessionsOnlyEnd
    <3>2. pc[t] # "new" /\ ask[t].kind \in Logins /\ sessions[t] \in Proved(t)
      BY <1>2, <3>1 DEF StoreInv
    <3>3. ask'[t] = ask[t]
      BY <3>2, OthersRest
    <3>4. pc'[t] # "new"
      BY <3>2, OthersRest, NeverNewAgain
    <3>5. Proved(t) \subseteq Proved(t)'
      BY <3>2, <3>3, ProvedStays DEF Logins
    <3>6. QED
      BY <3>1, <3>2, <3>3, <3>4, <3>5
  <2>3. QED
    BY <2>1, <2>2
<1>3. QED
  BY <1>1, <1>2 DEF StoreInv

(* A request that falls back on its API key runs as that key.               *)
LEMMA KeyEntitles ==
  ASSUME TypeInv, NEW r \in Request, ByKey(r, ask[r].key), ask'[r] = ask[r],
         Served(r)' \/ pc'[r] \in {"expire", "route", "delete"}
  PROVE  Entitled(r)'
<1>1. ask[r].key # None
  BY DEF ByKey, Answer, Goto, Served, TypeInv, SessionsTypeOK
<1>2. who'[r] = KeyIdentity(ask[r].key)
  BY <1>1 DEF ByKey, RunAs, TypeInv, SessionsTypeOK
<1>3. QED
  BY <1>1, <1>2 DEF Entitled, KeyIdentity

(* A request that is served, or is to be served, runs as its session or key. *)
LEMMA ActorEntitled ==
  ASSUME TypeInv, CookieInv, StoreInv, EntitledInv, NEW r \in Request, Acts(r),
         pc'[r] \in {"expire", "route", "delete"} \/ Served(r)', ask'[r].kind \in Protected
  PROVE  Entitled(r)'
<1> USE DEF TypeInv, SessionsTypeOK
<1>1. ASSUME NEW a \in Ask, Enter(r, a)
      PROVE  Entitled(r)'
  <2>1. ask'[r] = a /\ a.kind \in Protected
    BY <1>1 DEF Enter
  <2>2. a.cookie = None /\ ByKey(r, a.key)
    BY <1>1, <2>1 DEF Enter, Goto, Protected, Served
  <2>3. a.key # None /\ who'[r] = KeyIdentity(a.key)
    BY <2>2 DEF ByKey, Answer, Goto, RunAs, Served
  <2>4. QED
    BY <2>1, <2>3 DEF Entitled, KeyIdentity
<1>2. ~TurnedAway(r)
  BY DEF TurnedAway, Answer, Goto, Served
<1>3. ASSUME Proceed(r)
      PROVE  Entitled(r)'
  <2>1. ask'[r] = ask[r] /\ pc[r] \in {"get", "expire", "route", "delete"}
    <3>1. pc[r] # "new"
      BY <1>3
         DEF Proceed, CreateTenant, CreateTenantFails, CreateUser, CreateUserFails,
             GetUserByEmail, UserNotFound, CreateSession, CreateSessionFails, GetSession,
             ExpireSession, ValidateFails, Route, RevokeSession, RevokeFails, Cut
    <3>2. ask'[r] = ask[r] /\ pc[r] \notin {"tenant", "user", "find", "store"} \cup Ended
      BY <3>1, OthersRest, LoginKinds
    <3>3. QED
      BY <3>1, <3>2 DEF Ended
  <2>2. ASSUME UNCHANGED <<who, users>>, pc[r] \in {"expire", "route", "delete"}
        PROVE  Entitled(r)'
    <3>1. Entitled(r)
      BY <2>1, <2>2 DEF EntitledInv
    <3>2. CASE HasCookie(r) /\ who[r] \in Proved(ask[r].cookie)
      <4>1. PICK c \in Request : c = ask[r].cookie /\ c \in Issued
        BY <3>2 DEF CookieInv, Issued
      <4>2. ask'[c] = ask[c]
        BY <4>1, OthersRest DEF Issued
      <4>3. Proved(c) \subseteq Proved(c)'
        BY <4>1, <4>2, ProvedStays DEF Issued
      <4>4. who'[r] = who[r] /\ who[r] \in Proved(c)
        BY <2>2, <3>2, <4>1
      <4>5. ask'[r].cookie = c /\ HasCookie(r)'
        BY <2>1, <3>2, <4>1 DEF HasCookie
      <4>6. Proved(ask[r].cookie)' = Proved(c)'
        BY <4>5, CookieProves
      <4>7. who'[r] \in Proved(ask[r].cookie)'
        BY <4>3, <4>4, <4>6
      <4>8. QED
        BY <4>5, <4>7 DEF Entitled
    <3>3. CASE ask[r].key # None /\ who[r] = KeyIdentity(ask[r].key)
      BY <2>1, <2>2, <3>3 DEF Entitled, KeyIdentity
    <3>4. QED
      BY <3>1, <3>2, <3>3 DEF Entitled
  <2>3. CASE GetSession(r) /\ Live(ask[r].cookie)
    <3>1. ask[r] \in Cookied /\ ask[r].cookie # None /\ ask[r] # None
      BY <2>3, NamesAssumption DEF GetSession, Shape, Cookied, Ended
    <3>2. HasCookie(r)
      BY <3>1 DEF HasCookie, Cookied
    <3>3. PICK c \in Request : c = ask[r].cookie /\ c \in Issued
      BY <3>2 DEF CookieInv, Issued
    <3>4. who'[r] = sessions[c] /\ sessions[c] # None /\ users' = users /\ ask' = ask
      BY <2>3, <3>3 DEF GetSession, Live, RunAs, dbVars
    <3>5. who'[r] \in Proved(c)
      BY <3>4 DEF StoreInv
    <3>6. Proved(c) \subseteq Proved(c)'
      BY <3>3, <3>4, ProvedStays DEF Issued
    <3>7. HasCookie(r)' /\ who'[r] \in Proved(ask[r].cookie)'
      <4>1. ask'[r].cookie = c
        BY <3>3, <3>4
      <4>2. Proved(ask[r].cookie)' = Proved(c)'
        BY <4>1, CookieProves
      <4>3. HasCookie(r)'
        BY <3>2, <3>4 DEF HasCookie
      <4>4. QED
        BY <3>5, <3>6, <4>2, <4>3
    <3>8. QED
      BY <3>7 DEF Entitled
  <2>4. CASE GetSession(r) /\ ~Live(ask[r].cookie)
    BY <2>1, <2>4, KeyEntitles DEF GetSession
  <2>5. CASE ValidateFails(r)
    BY <2>1, <2>5, KeyEntitles DEF ValidateFails
  <2>6. CASE ExpireSession(r) \/ Route(r) \/ RevokeSession(r) \/ RevokeFails(r) \/ Cut(r)
    <3>1. pc[r] # "get"
      BY <2>6 DEF ExpireSession, Route, RevokeSession, RevokeFails, Cut, Goto, Served
    <3>2. UNCHANGED <<who, users>>
      BY <2>6 DEF ExpireSession, Route, RevokeSession, RevokeFails, Cut, dbVars
    <3>3. QED
      BY <2>1, <2>2, <3>1, <3>2
  <2>7. QED
    BY <1>3, <2>1, <2>3, <2>4, <2>5, <2>6
       DEF Proceed, CreateTenant, CreateTenantFails, CreateUser, CreateUserFails,
           GetUserByEmail, UserNotFound, CreateSession, CreateSessionFails
<1>4. QED
  BY <1>1, <1>2, <1>3 DEF Acts

(* A write is served to a role that may write.                              *)
LEMMA ActorMayWrite ==
  ASSUME TypeInv, NEW r \in Request, Acts(r), Served(r)', ask'[r].kind = "write"
  PROVE  who'[r].role \in {"admin", "write"}
<1> USE DEF TypeInv, SessionsTypeOK
<1>1. ~(\E a \in Ask : Enter(r, a)) /\ ~TurnedAway(r)
  BY DEF Enter, TurnedAway, ByKey, Answer, Goto, Served
<1>2. Proceed(r)
  BY <1>1 DEF Acts
<1>3. CASE Route(r)
  <2>1. ask[r].kind = "write" /\ who'[r] = who[r]
    BY <1>3 DEF Route
  <2>2. who[r].role \in Allowed[ask[r].kind]
    BY <1>3 DEF Route, Answer, Goto, Served
  <2>3. QED
    BY <2>1, <2>2 DEF Allowed, Protected
<1>4. ~(\/ CreateTenant(r) \/ CreateTenantFails(r) \/ CreateUser(r) \/ CreateUserFails(r)
        \/ GetUserByEmail(r) \/ UserNotFound(r) \/ CreateSession(r) \/ CreateSessionFails(r))
  <2>1. ~(pc[r] \in {"tenant", "user", "find", "store"} /\ ask'[r] = ask[r])
    BY LoginKinds DEF Protected
  <2>2. QED
    BY <2>1
       DEF CreateTenant, CreateTenantFails, CreateUser, CreateUserFails, GetUserByEmail,
           UserNotFound, CreateSession, CreateSessionFails
<1>5. ~(GetSession(r) \/ ExpireSession(r) \/ ValidateFails(r) \/ Cut(r))
  BY DEF GetSession, ExpireSession, ValidateFails, Cut, ByKey, Answer, Goto, Served
<1>6. ~(RevokeSession(r) \/ RevokeFails(r))
  BY DEF RevokeSession, RevokeFails, Shape
<1>7. QED
  BY <1>2, <1>3, <1>4, <1>5, <1>6 DEF Proceed

(* Whoever is served is entitled to it.                                     *)
LEMMA EntitledKeeps ==
  ASSUME TypeInv, CookieInv, StoreInv, EntitledInv, NEW r \in Request, Acts(r)
  PROVE  EntitledInv'
<1>1. ASSUME NEW q \in Request, q # r,
             pc'[q] \in {"expire", "route", "delete"} \/ Served(q)',
             ask'[q].kind \in Protected
      PROVE  Entitled(q)'
  <2>1. /\ pc[q] \in {"expire", "route", "delete"} \/ Served(q)
        /\ ask'[q] = ask[q] /\ who'[q] = who[q]
    BY <1>1, OthersRest DEF Served
  <2>2. Entitled(q)
    BY <1>1, <2>1 DEF EntitledInv
  <2>3. CASE HasCookie(q) /\ who[q] \in Proved(ask[q].cookie)
    <3>1. PICK c \in Request : c = ask[q].cookie /\ c \in Issued
      BY <2>3 DEF CookieInv, Issued
    <3>2. ask'[c] = ask[c]
      BY <3>1, OthersRest DEF Issued, Ended
    <3>3. Proved(c) \subseteq Proved(c)'
      BY <3>1, <3>2, ProvedStays DEF Issued
    <3>4. who'[q] \in Proved(c)' /\ ask'[q].cookie = c /\ HasCookie(q)'
      BY <2>1, <2>3, <3>1, <3>3 DEF HasCookie
    <3>5. Proved(ask[q].cookie)' = Proved(c)'
      BY <3>4, CookieProves
    <3>6. QED
      BY <3>4, <3>5 DEF Entitled
  <2>4. CASE ask[q].key # None /\ who[q] = KeyIdentity(ask[q].key)
    BY <2>1, <2>4 DEF Entitled, KeyIdentity
  <2>5. QED
    BY <2>2, <2>3, <2>4 DEF Entitled
<1>2. ASSUME NEW q \in Request, q # r, Served(q)', ask'[q].kind = "write"
      PROVE  who'[q].role \in {"admin", "write"}
  BY <1>2, OthersRest DEF EntitledInv, Served
<1>3. QED
  BY <1>1, <1>2, ActorEntitled, ActorMayWrite DEF EntitledInv

-------------------------------------------------------------------------------
(* Signups.                                                                 *)

Registered(r) == \E u \in users : u.tenant = r

SignupInv ==
    \A r \in Request :
        /\ Registered(r) \/ pc[r] = "user" => r \in tenants
        /\ r \in tenants => Registered(r) \/ hurt[r] \/ pc[r] \in {"user", "dead"}
        /\ pc[r] = "store" /\ ask[r].kind = "signup" => Registered(r)
        /\ sessions[r] # None /\ ask[r].kind = "signup" => Registered(r)
        /\ pc[r] = "done" /\ status[r] = 201 => Registered(r)

(* A request writes no tenant and no user but its own.                      *)
LEMMA OwnRows ==
  ASSUME TypeInv, NEW r \in Request, Acts(r)
  PROVE  /\ tenants' = tenants \/ (pc[r] = "tenant" /\ tenants' = tenants \cup {r})
         /\ users' = users \/ (pc[r] = "user" /\ users' = users \cup {NewUser(r)})
<1>1. CASE UNCHANGED dbVars
  BY <1>1 DEF dbVars
<1>2. CASE CreateTenant(r) \/ CreateTenantFails(r) \/ CreateUser(r) \/ CreateUserFails(r)
  BY <1>2 DEF CreateTenant, CreateTenantFails, CreateUser, CreateUserFails
<1>3. QED
  BY <1>1, <1>2
     DEF Acts, Enter, TurnedAway, Proceed, GetUserByEmail, UserNotFound, CreateSession,
         CreateSessionFails, GetSession, ExpireSession, ValidateFails, Route,
         RevokeSession, RevokeFails, Cut

(* The lookup of a login refuses it or goes on to store its session.        *)
LEMMA LookupEnds ==
  ASSUME TypeInv, NEW r \in Request, GetUserByEmail(r)
  PROVE  pc'[r] = "store" \/ (pc'[r] = "done" /\ status'[r] = 401)
<1>1. \/ Goto(r, "store")
      \/ Answer(r, 401)
  BY DEF GetUserByEmail
<1>2. QED
  BY <1>1 DEF Answer, Goto, TypeInv, SessionsTypeOK

(* The rows of the request that acts.                                       *)
LEMMA ActorRows ==
  ASSUME TypeInv, StoreInv, SignupInv, NEW r \in Request, Acts(r)
  PROVE  /\ Registered(r) => Registered(r)'
         /\ Registered(r)' \/ pc'[r] = "user" => r \in tenants'
         /\ r \in tenants' => Registered(r)' \/ hurt'[r] \/ pc'[r] \in {"user", "dead"}
<1> USE DEF TypeInv, SessionsTypeOK
<1>1. Registered(r) => Registered(r)'
  BY OthersRest DEF Registered
<1>2. ASSUME Registered(r)'
      PROVE  r \in tenants'
  BY <1>2, OwnRows, OthersRest DEF Registered, SignupInv
<1>3. ASSUME pc'[r] = "user"
      PROVE  r \in tenants'
  <2>1. ~(\E a \in Ask : Enter(r, a)) /\ ~TurnedAway(r)
    BY <1>3 DEF Enter, TurnedAway, ByKey, Answer, Goto
  <2>2. ~(\/ CreateTenantFails(r) \/ CreateUser(r) \/ CreateUserFails(r)
          \/ UserNotFound(r) \/ CreateSession(r) \/ CreateSessionFails(r))
    BY <1>3 DEF CreateTenantFails, CreateUser, CreateUserFails, UserNotFound,
                CreateSession, CreateSessionFails, Answer, Goto
  <2>3. ~GetUserByEmail(r)
    BY <1>3, LookupEnds
  <2>4. ~(\/ GetSession(r) \/ ExpireSession(r) \/ ValidateFails(r) \/ Route(r)
          \/ RevokeSession(r) \/ RevokeFails(r) \/ Cut(r))
    BY <1>3 DEF GetSession, ExpireSession, ValidateFails, Route, RevokeSession, RevokeFails,
                Cut, ByKey, Answer, Goto
  <2>5. CreateTenant(r)
    BY <2>1, <2>2, <2>3, <2>4 DEF Acts, Proceed
  <2>6. QED
    BY <2>5 DEF CreateTenant
<1>4. ASSUME r \in tenants', ~hurt'[r], pc'[r] \notin {"user", "dead"}
      PROVE  Registered(r)'
  <2>1. r \in tenants /\ ~hurt[r]
    <3>1. pc[r] # "tenant" \/ tenants' = tenants
      <4>1. SUFFICES ASSUME pc[r] = "tenant"
                     PROVE  tenants' = tenants
        OBVIOUS
      <4>2. ~CreateTenant(r)
        BY <1>4 DEF CreateTenant, Goto
      <4>3. ~CreateTenantFails(r)
        BY <1>4 DEF CreateTenantFails, DbFails, BecomeHurt
      <4>4. QED
        BY <4>1, <4>2, <4>3
           DEF Acts, Enter, TurnedAway, Proceed, CreateUser, CreateUserFails, GetUserByEmail,
               UserNotFound, CreateSession, CreateSessionFails, GetSession, ExpireSession,
               ValidateFails, Route, RevokeSession, RevokeFails, Cut, dbVars
    <3>2. QED
      BY <1>4, <3>1, OwnRows, OthersRest
  <2>2. CASE Registered(r)
    BY <2>2, <1>1
  <2>3. CASE pc[r] = "user"
    <3>1. ~Cut(r)
      BY <1>4 DEF Cut, Goto
    <3>2. ~CreateUserFails(r)
      BY <1>4 DEF CreateUserFails, DbFails, BecomeHurt
    <3>3. CreateUser(r)
      BY <2>3, <3>1, <3>2
         DEF Acts, Enter, TurnedAway, Proceed, CreateTenant, CreateTenantFails,
             GetUserByEmail, UserNotFound, CreateSession, CreateSessionFails, GetSession,
             ExpireSession, ValidateFails, Route, RevokeSession, RevokeFails
    <3>4. NewUser(r) \in users' /\ NewUser(r).tenant = r
      BY <3>3 DEF CreateUser, NewUser
    <3>5. QED
      BY <3>4 DEF Registered
  <2>4. QED
    BY <2>1, <2>2, <2>3, OthersRest DEF SignupInv, Ended
<1>5. QED
  BY <1>1, <1>2, <1>3, <1>4

(* The sessions and the 201 of the request that acts.                       *)
LEMMA ActorSession ==
  ASSUME TypeInv, ClockTypeOK, StoreInv, SignupInv, NEW r \in Request, Acts(r),
         clock' = clock
  PROVE  /\ pc'[r] = "store" /\ ask'[r].kind = "signup" => Registered(r)'
         /\ sessions'[r] # None /\ ask'[r].kind = "signup" => Registered(r)'
         /\ pc'[r] = "done" /\ status'[r] = 201 => Registered(r)'
<1> USE DEF TypeInv, SessionsTypeOK
<1>1. Registered(r) => Registered(r)'
  BY OthersRest DEF Registered
<1>2. ASSUME pc'[r] = "store", ask'[r].kind = "signup"
      PROVE  Registered(r)'
  <2>1. ~(\E a \in Ask : Enter(r, a)) /\ ~TurnedAway(r)
    BY <1>2 DEF Enter, TurnedAway, ByKey, Answer, Goto, Protected
  <2>2. ~(\/ CreateTenant(r) \/ CreateTenantFails(r) \/ CreateUserFails(r)
          \/ UserNotFound(r) \/ CreateSession(r) \/ CreateSessionFails(r))
    BY <1>2 DEF CreateTenant, CreateTenantFails, CreateUserFails, UserNotFound,
                CreateSession, CreateSessionFails, Answer, Goto
  <2>3. ~GetUserByEmail(r)
    BY <1>2, LoginKinds DEF GetUserByEmail
  <2>4. ~(\/ GetSession(r) \/ ExpireSession(r) \/ ValidateFails(r) \/ Route(r)
          \/ RevokeSession(r) \/ RevokeFails(r) \/ Cut(r))
    BY <1>2 DEF GetSession, ExpireSession, ValidateFails, Route, RevokeSession, RevokeFails,
                Cut, ByKey, Answer, Goto
  <2>5. CreateUser(r)
    BY <2>1, <2>2, <2>3, <2>4 DEF Acts, Proceed
  <2>6. NewUser(r) \in users' /\ NewUser(r).tenant = r
    BY <2>5 DEF CreateUser, NewUser
  <2>7. QED
    BY <2>6 DEF Registered
<1>3. ASSUME sessions'[r] # None, ask'[r].kind = "signup"
      PROVE  Registered(r)'
  <2>1. CASE pc[r] = "store"
    BY <1>1, <1>3, <2>1, OthersRest DEF SignupInv
  <2>2. CASE pc[r] # "store"
    <3>1. sessions[r] # None
      BY <1>3, <2>2, SessionsOnlyEnd
    <3>2. ask'[r] = ask[r]
      BY <3>1, OthersRest DEF StoreInv
    <3>3. QED
      BY <1>1, <1>3, <3>1, <3>2 DEF SignupInv
  <2>3. QED
    BY <2>1, <2>2
<1>4. ASSUME pc'[r] = "done", status'[r] = 201
      PROVE  Registered(r)'
  <2>1. ~(\E a \in Ask : Enter(r, a)) /\ ~TurnedAway(r)
    BY <1>4 DEF Enter, TurnedAway, ByKey, Answer, Goto, Shape, Ended
  <2>2. ~(\/ CreateTenant(r) \/ CreateTenantFails(r) \/ CreateUser(r) \/ CreateUserFails(r)
          \/ UserNotFound(r) \/ CreateSessionFails(r))
    BY <1>4 DEF CreateTenant, CreateTenantFails, CreateUser, CreateUserFails, UserNotFound,
                CreateSessionFails, Answer, Goto
  <2>3. ~GetUserByEmail(r)
    BY <1>4, LookupEnds
  <2>4. ~(\/ GetSession(r) \/ ExpireSession(r) \/ ValidateFails(r) \/ Route(r)
          \/ RevokeSession(r) \/ RevokeFails(r) \/ Cut(r))
    BY <1>4 DEF GetSession, ExpireSession, ValidateFails, Route, RevokeSession, RevokeFails,
                Cut, ByKey, Answer, Goto
  <2>5. CreateSession(r)
    BY <2>1, <2>2, <2>3, <2>4 DEF Acts, Proceed
  <2>6. pc[r] = "store" /\ ask[r].kind = "signup"
    BY <1>4, <2>5 DEF CreateSession, Answer
  <2>7. QED
    BY <1>1, <2>6 DEF SignupInv
<1>5. QED
  BY <1>2, <1>3, <1>4

(* A signup stays whole.                                                    *)
LEMMA SignupKeeps ==
  ASSUME TypeInv, ClockTypeOK, StoreInv, SignupInv, NEW r \in Request, Acts(r),
         clock' = clock
  PROVE  SignupInv'
<1>1. ASSUME NEW q \in Request, q # r
      PROVE  /\ Registered(q)' = Registered(q)
             /\ q \in tenants' <=> q \in tenants
             /\ pc'[q] = pc[q] /\ hurt'[q] = hurt[q] /\ ask'[q] = ask[q]
             /\ status'[q] = status[q]
             /\ sessions'[q] # None => sessions[q] # None
  <2>1. Registered(q)' = Registered(q)
    BY <1>1, OwnRows DEF Registered, NewUser
  <2>2. QED
    BY <1>1, <2>1, OwnRows, OthersRest, SessionsOnlyEnd
<1>2. QED
  BY <1>1, ActorRows, ActorSession DEF SignupInv

-------------------------------------------------------------------------------
(* The theorems of the sessions.                                            *)

SessionInv ==
    /\ ClockTypeOK /\ TypeInv
    /\ CookieInv /\ LogoutInv /\ LiveInv /\ StoreInv /\ EntitledInv /\ SignupInv

(* Time ends sessions and does nothing else to them.                        *)
LEMMA TimeKeeps ==
  ASSUME SessionInv, UNCHANGED sessionVars, clock' = clock \/ clock' = clock + 1
  PROVE  /\ CookieInv' /\ LogoutInv' /\ LiveInv' /\ StoreInv'
         /\ EntitledInv' /\ SignupInv'
<1>1. /\ pc' = pc /\ ask' = ask /\ who' = who /\ status' = status /\ hurt' = hurt
      /\ tenants' = tenants /\ users' = users /\ sessions' = sessions /\ expiry' = expiry
  BY DEF sessionVars, requestVars, dbVars, redisVars
<1>2. Issued' = Issued
  BY <1>1 DEF Issued
<1>3. ASSUME NEW t \in Request
      PROVE  Proved(t)' = Proved(t) /\ (Live(t)' => Live(t))
  <2>1. Proved(t)' = Proved(t)
    BY <1>1 DEF Proved, KeyIdentity
  <2>2. clock \in Int /\ expiry[t] \in Int
    BY ClockAssumption DEF SessionInv, ClockTypeOK, TypeInv, SessionsTypeOK
  <2>3. QED
    BY <1>1, <2>1, <2>2 DEF Live
<1>4. ASSUME NEW r \in Request
      PROVE  /\ HasCookie(r)' = HasCookie(r) /\ Served(r)' = Served(r)
             /\ Registered(r)' = Registered(r) /\ Entitled(r)' = Entitled(r)
  BY <1>1 DEF HasCookie, Served, Registered, Entitled, Proved, KeyIdentity
<1>5. CookieInv' /\ LogoutInv'
  BY <1>1, <1>2, <1>4 DEF SessionInv, CookieInv, LogoutInv
<1>6. LiveInv'
  <2>1. SUFFICES ASSUME NEW r \in Request,
                        pc[r] \in {"expire", "route", "delete", "done"}, HasCookie(r),
                        status[r] # 429, ~hurt[r], Live(ask[r].cookie)'
                 PROVE  who[r] = sessions[ask[r].cookie] /\ status[r] # 401
    BY <1>1, <1>4 DEF LiveInv
  <2>2. PICK c \in Request : c = ask[r].cookie
    BY <2>1, CookieIsOld DEF SessionInv
  <2>3. Live(c)'
    BY <1>1, <2>1, <2>2 DEF Live
  <2>4. Live(ask[r].cookie)
    BY <1>3, <2>2, <2>3
  <2>5. QED
    BY <2>1, <2>4 DEF SessionInv, LiveInv
<1>7. StoreInv' /\ EntitledInv' /\ SignupInv'
  BY <1>1, <1>3, <1>4 DEF SessionInv, StoreInv, EntitledInv, SignupInv
<1>8. QED
  BY <1>5, <1>6, <1>7

(* The sessions' invariant holds at the start and is kept by every step.    *)
LEMMA SessionInvHolds ==
  /\ Init => SessionInv
  /\ SessionInv /\ [Next]_vars => SessionInv'
<1>1. ASSUME Init
      PROVE  SessionInv
  <2>1. ClockTypeOK /\ TypeInv
    BY <1>1, GatewayInvHolds DEF GatewayInv
  <2>2. /\ \A r \in Request : pc[r] = "new" /\ ask[r] = None /\ sessions[r] = None
        /\ tenants = {} /\ users = {}
    BY <1>1 DEF Init, SessionsInit
  <2>3. QED
    BY <2>1, <2>2
       DEF SessionInv, CookieInv, LogoutInv, LiveInv, StoreInv, EntitledInv, SignupInv,
           HasCookie, Served, Registered
<1>2. ASSUME SessionInv, [Next]_vars
      PROVE  SessionInv'
  <2>1. ClockTypeOK' /\ TypeInv'
    BY <1>2, ClockKeeps, TypesKeep DEF SessionInv
  <2>2. CASE UNCHANGED sessionVars /\ (clock' = clock \/ clock' = clock + 1)
    BY <1>2, <2>1, <2>2, TimeKeeps DEF SessionInv
  <2>3. ASSUME NEW r \in Request, Acts(r), clock' = clock
        PROVE  SessionInv'
    BY <1>2, <2>1, <2>3, CookieKeeps, LogoutKeeps, LiveKeeps, StoreKeeps, EntitledKeeps,
       SignupKeeps DEF SessionInv
  <2>4. QED
    BY <1>2, <2>2, <2>3, OneActs
<1>3. QED
  BY <1>1, <1>2

(* After a logout that answered 204 and in which Redis did not fail, its session
   is gone for good: neither a validation that was under way (GET and EXPIRE
   are two commands) nor another login brings it back.                      *)
THEOREM LogoutIsFinal == Spec => []LogoutEnds
<1>1. SessionInv => LogoutEnds
  BY DEF SessionInv, LogoutInv, LogoutEnds, Answered, Live
<1>2. QED
  BY <1>1, SessionInvHolds, PTL DEF Spec

(* A request whose session lives is served under it, and never refused for
   want of authentication, unless a call to Redis failed.                   *)
THEOREM LiveSessionsAreHeeded == Spec => []LiveSessionsCount
<1>1. SessionInv => LiveSessionsCount
  BY DEF SessionInv, LiveInv, LiveSessionsCount
<1>2. QED
  BY <1>1, SessionInvHolds, PTL DEF Spec

(* Nobody is served under a tenant or role that neither the login behind its
   cookie nor its API key proved; only writers write.                       *)
THEOREM ServiceIsProved == Spec => []ServedAsProved
<1>1. SessionInv => ServedAsProved
  BY DEF SessionInv, EntitledInv, Entitled, Served, ServedAsProved, Answered
<1>2. QED
  BY <1>1, SessionInvHolds, PTL DEF Spec

(* A signup that answered 201 has its tenant, user and session behind it, and
   what is left half done was failed or cut.                                *)
THEOREM SignupsStayWhole == Spec => []SignupsAreWhole
<1>1. SessionInv => SignupsAreWhole
  BY DEF SessionInv, SignupInv, SignupsAreWhole, Registered
<1>2. QED
  BY <1>1, SessionInvHolds, PTL DEF Spec
===============================================================================
