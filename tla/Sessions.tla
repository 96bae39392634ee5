------------------------------- MODULE Sessions -------------------------------
(***************************************************************************)
(* Signup, login, sessions and logout, and the middlewares that turn a     *)
(* session cookie or an API key into the tenant and role of a request.     *)
(*                                                                         *)
(* A request is one HTTP call.  A signup writes at most one tenant and one *)
(* user, a login at most one session, under fresh random ids: the request  *)
(* names them all.  Sessions live in Redis with a sliding TTL.  API keys   *)
(* are configured, so the authentication middleware is installed.          *)
(***************************************************************************)
EXTENDS Clock

CONSTANTS
    Request, Email, Password, ApiKey,
    RoleOf,       \* role of each API key
    TTL,          \* of a session, in units of the clock (24 h)
    Faults,       \* failures that may happen: "redis", "db", "crash"
    DefaultTenant, None

Roles == {"admin", "write", "read"}
Protected == {"read", "write", "logout"}

(* RequireRole on the routes.  /me, like /logout, needs any role: a read.    *)
Allowed == [kind \in Protected |->
                IF kind = "write" THEN {"admin", "write"} ELSE Roles]

ASSUME KeyAssumption == RoleOf \in [ApiKey -> Roles]
ASSUME TTLAssumption == TTL \in Nat \ {0}
ASSUME SessionFaultsAssumption == Faults \subseteq {"redis", "db", "crash"}
ASSUME NamesAssumption ==
    None \notin Request \cup Email \cup Password \cup ApiKey \cup {DefaultTenant}

VARIABLES
    pc,        \* pc[r]: the next step of request r
    ask,       \* ask[r]: what r asks for
    who,       \* who[r]: the role and tenant it runs or logs in under
    status,    \* its HTTP status, 0 while there is none
    hurt,      \* history: a call to Redis or PostgreSQL failed under r
    tenants, users,   \* tables
    sessions, expiry  \* Redis: session of each token, and when it ends

requestVars == <<pc, ask, who, status, hurt>>
dbVars == <<tenants, users>>
redisVars == <<sessions, expiry>>
sessionVars == <<requestVars, dbVars, redisVars>>

Identity == [role : Roles, tenant : Request \cup {DefaultTenant}]
Ask == [kind : {"signup", "login"}, email : Email, password : Password]
       \cup [kind : {"keylogin"}, key : ApiKey \cup {None}]
       \cup [kind : Protected, cookie : Request \cup {None}, key : ApiKey \cup {None}]
User == [tenant : Request, email : Email, password : Password, role : {"admin"}]
Ended == {"done", "dead"}

ASSUME NoneAssumption == None \notin Ask \cup Identity

SessionsTypeOK ==
    /\ pc \in [Request -> {"new", "tenant", "user", "find", "store", "get",
                           "expire", "route", "delete"} \cup Ended]
    /\ ask \in [Request -> Ask \cup {None}]
    /\ who \in [Request -> Identity \cup {None}]
    /\ status \in [Request -> {0, 200, 201, 204, 401, 403, 409, 429, 500}]
    /\ hurt \in [Request -> BOOLEAN]
    /\ tenants \subseteq Request
    /\ users \subseteq User
    /\ sessions \in [Request -> Identity \cup {None}]
    /\ expiry \in [Request -> Nat]

SessionsInit ==
    /\ pc = [r \in Request |-> "new"]
    /\ ask = [r \in Request |-> None]
    /\ who = [r \in Request |-> None]
    /\ status = [r \in Request |-> 0]
    /\ hurt = [r \in Request |-> FALSE]
    /\ tenants = {} /\ users = {}
    /\ sessions = [r \in Request |-> None]
    /\ expiry = [r \in Request |-> 0]

-------------------------------------------------------------------------------

Goto(r, step) == pc' = [pc EXCEPT ![r] = step]
Answer(r, code) == Goto(r, "done") /\ status' = [status EXCEPT ![r] = code]
BecomeHurt(r) == hurt' = [hurt EXCEPT ![r] = TRUE]
RunAs(r, identity) == who' = [who EXCEPT ![r] = identity]

RedisFails(r) == "redis" \in Faults /\ BecomeHurt(r)
DbFails(r) == "db" \in Faults /\ BecomeHurt(r)

Live(t) == sessions[t] # None /\ clock < expiry[t]

(* The tokens that clients know: those of answered logins.                  *)
Issued == {t \in Request : pc[t] = "done" /\ status[t] \in {200, 201}
                           /\ ask[t].kind \in {"signup", "login", "keylogin"}}

KeyIdentity(k) == [role |-> RoleOf[k], tenant |-> DefaultTenant]

(* The second half of the middleware: the API key, whatever became of the
   cookie.                                                                  *)
ByKey(r, k) ==
    IF k = None THEN Answer(r, 401) /\ UNCHANGED who
    ELSE Goto(r, "route") /\ RunAs(r, KeyIdentity(k)) /\ UNCHANGED status

(* Mutant: the API key is looked at first.                                  *)
EnterKeyFirst(r, a) ==
    /\ pc[r] = "new"
    /\ ask' = [ask EXCEPT ![r] = a]
    /\ \/ a.kind = "signup" /\ Goto(r, "tenant") /\ UNCHANGED <<who, status>>
       \/ a.kind = "login" /\ Goto(r, "find") /\ UNCHANGED <<who, status>>
       \/ /\ a.kind = "keylogin"
          /\ IF a.key = None THEN Answer(r, 401) /\ UNCHANGED who
             ELSE Goto(r, "store") /\ RunAs(r, KeyIdentity(a.key)) /\ UNCHANGED status
       \/ /\ a.kind \in Protected
          /\ IF a.cookie = None \/ a.key # None THEN ByKey(r, a.key)
             ELSE a.cookie \in Issued /\ Goto(r, "get") /\ UNCHANGED <<who, status>>
    /\ UNCHANGED <<hurt, dbVars, redisVars>>

(* The request behind the rate limiter: login and signup are public, the
   others take the cookie if there is one.  None stands for a key that is
   missing or not configured.                                               *)
Enter(r, a) ==
    /\ pc[r] = "new"
    /\ ask' = [ask EXCEPT ![r] = a]
    /\ \/ a.kind = "signup" /\ Goto(r, "tenant") /\ UNCHANGED <<who, status>>
       \/ a.kind = "login" /\ Goto(r, "find") /\ UNCHANGED <<who, status>>
       \/ /\ a.kind = "keylogin"
          /\ IF a.key = None THEN Answer(r, 401) /\ UNCHANGED who
             ELSE Goto(r, "store") /\ RunAs(r, KeyIdentity(a.key)) /\ UNCHANGED status
       \/ /\ a.kind \in Protected
          /\ IF a.cookie = None THEN ByKey(r, a.key)
             ELSE a.cookie \in Issued /\ Goto(r, "get") /\ UNCHANGED <<who, status>>
    /\ UNCHANGED <<hurt, dbVars, redisVars>>

-------------------------------------------------------------------------------
(* Signup: three writes, in no transaction.  A write whose call fails may
   have been done.                                                          *)

CreateTenant(r) ==
    /\ pc[r] = "tenant"
    /\ tenants' = tenants \cup {r}
    /\ Goto(r, "user")
    /\ UNCHANGED <<ask, who, status, hurt, users, redisVars>>

CreateTenantFails(r) ==
    /\ pc[r] = "tenant" /\ DbFails(r)
    /\ tenants' \in {tenants, tenants \cup {r}}
    /\ Answer(r, 500)
    /\ UNCHANGED <<ask, who, users, redisVars>>

NewUser(r) == [tenant |-> r, email |-> ask[r].email, password |-> ask[r].password,
               role |-> "admin"]

(* UNIQUE (tenant_id, email): the tenant is new.                            *)
EmailTaken(r) == \E u \in users : u.tenant = r /\ u.email = ask[r].email

CreateUser(r) ==
    /\ pc[r] = "user" /\ ~EmailTaken(r)
    /\ users' = users \cup {NewUser(r)}
    /\ RunAs(r, [role |-> "admin", tenant |-> r])
    /\ Goto(r, "store")
    /\ UNCHANGED <<ask, status, hurt, tenants, redisVars>>

(* Mutant: an error of the INSERT is logged and forgotten.                  *)
CreateUserFailsUnnoticed(r) ==
    /\ pc[r] = "user" /\ DbFails(r)
    /\ users' \in {users, users \cup {NewUser(r)}}
    /\ RunAs(r, [role |-> "admin", tenant |-> r])
    /\ Goto(r, "store")
    /\ UNCHANGED <<ask, status, tenants, redisVars>>

(* 409 for any error.                                                       *)
CreateUserFails(r) ==
    /\ pc[r] = "user" /\ DbFails(r)
    /\ users' \in {users, users \cup {NewUser(r)}}
    /\ Answer(r, 409)
    /\ UNCHANGED <<ask, who, tenants, redisVars>>

-------------------------------------------------------------------------------
(* Login.                                                                   *)

(* Mutant: the tenant is left at its zero value.                            *)
GetUserByEmailNoTenant(r) ==
    /\ pc[r] = "find"
    /\ \E u \in users :
          /\ u.email = ask[r].email
          /\ IF u.password = ask[r].password
                THEN Goto(r, "store") /\ UNCHANGED status
                     /\ RunAs(r, [role |-> u.role, tenant |-> DefaultTenant])
                ELSE Answer(r, 401) /\ UNCHANGED who
    /\ UNCHANGED <<ask, hurt, dbVars, redisVars>>

(* LIMIT 1 without ORDER BY: any of the users with that address, and then
   its password.                                                            *)
GetUserByEmail(r) ==
    /\ pc[r] = "find"
    /\ \E u \in users :
          /\ u.email = ask[r].email
          /\ IF u.password = ask[r].password
                THEN Goto(r, "store") /\ UNCHANGED status
                     /\ RunAs(r, [role |-> u.role, tenant |-> u.tenant])
                ELSE Answer(r, 401) /\ UNCHANGED who
    /\ UNCHANGED <<ask, hurt, dbVars, redisVars>>

(* 401 for an unknown address and for any error.                            *)
UserNotFound(r) ==
    /\ pc[r] = "find"
    /\ \/ UNCHANGED hurt /\ \A u \in users : u.email # ask[r].email
       \/ DbFails(r)
    /\ Answer(r, 401)
    /\ UNCHANGED <<ask, who, dbVars, redisVars>>

Store(r) == /\ sessions' = [sessions EXCEPT ![r] = who[r]]
            /\ expiry' = [expiry EXCEPT ![r] = clock + TTL]

CreateSession(r) ==
    /\ pc[r] = "store"
    /\ Store(r)
    /\ Answer(r, IF ask[r].kind = "signup" THEN 201 ELSE 200)
    /\ UNCHANGED <<ask, who, hurt, dbVars>>

CreateSessionFails(r) ==
    /\ pc[r] = "store" /\ RedisFails(r)
    /\ Store(r) \/ UNCHANGED redisVars
    /\ Answer(r, 500)
    /\ UNCHANGED <<ask, who, dbVars>>

-------------------------------------------------------------------------------
(* ValidateSession: GET and EXPIRE are pipelined, not a transaction.        *)

(* Redis answers the GET; the result is used if the EXPIRE succeeds too.    *)
GetSession(r) ==
    /\ pc[r] = "get"
    /\ IF Live(ask[r].cookie)
          THEN RunAs(r, sessions[ask[r].cookie]) /\ Goto(r, "expire") /\ UNCHANGED status
          ELSE ByKey(r, ask[r].key)
    /\ UNCHANGED <<ask, hurt, dbVars, redisVars>>

(* EXPIRE does nothing to a key that has gone.                              *)
Refresh(t) ==
    /\ expiry' = IF Live(t) THEN [expiry EXCEPT ![t] = clock + TTL] ELSE expiry
    /\ UNCHANGED sessions

(* Mutant: the session is written back with its new TTL.                    *)
ExpireSessionRewrites(r) ==
    /\ pc[r] = "expire"
    /\ sessions' = [sessions EXCEPT ![ask[r].cookie] = who[r]]
    /\ expiry' = [expiry EXCEPT ![ask[r].cookie] = clock + TTL]
    /\ Goto(r, "route")
    /\ UNCHANGED <<ask, status, who, hurt, dbVars>>

ExpireSession(r) ==
    /\ pc[r] = "expire"
    /\ Refresh(ask[r].cookie)
    /\ Goto(r, "route")
    /\ UNCHANGED <<ask, who, status, hurt, dbVars>>

(* An error of either command: the request goes on without the session.     *)
ValidateFails(r) ==
    /\ pc[r] \in {"get", "expire"} /\ RedisFails(r)
    /\ UNCHANGED redisVars \/ Refresh(ask[r].cookie)
    /\ ByKey(r, ask[r].key)
    /\ UNCHANGED <<ask, dbVars>>

(* RequireRole and the handler, which runs under who[r].                    *)
Route(r) ==
    /\ pc[r] = "route"
    /\ IF who[r].role \notin Allowed[ask[r].kind] THEN Answer(r, 403)
       ELSE IF ask[r].kind = "logout" /\ ask[r].cookie # None
            THEN Goto(r, "delete") /\ UNCHANGED status
            ELSE Answer(r, IF ask[r].kind = "logout" THEN 204 ELSE 200)
    /\ UNCHANGED <<ask, who, hurt, dbVars, redisVars>>

Delete(t) == /\ sessions' = [sessions EXCEPT ![t] = None]
             /\ expiry' = [expiry EXCEPT ![t] = 0]

(* Logout: the cookie is cleared and 204 returned, DEL or no DEL.           *)
RevokeSession(r) ==
    /\ pc[r] = "delete"
    /\ Delete(ask[r].cookie)
    /\ Answer(r, 204)
    /\ UNCHANGED <<ask, who, hurt, dbVars>>

RevokeFails(r) ==
    /\ pc[r] = "delete" /\ RedisFails(r)
    /\ Delete(ask[r].cookie) \/ UNCHANGED redisVars
    /\ Answer(r, 204)
    /\ UNCHANGED <<ask, who, dbVars>>

(* The process dies under the request.                                      *)
Cut(r) ==
    /\ "crash" \in Faults /\ pc[r] \notin {"new"} \cup Ended
    /\ Goto(r, "dead")
    /\ UNCHANGED <<ask, who, status, hurt, dbVars, redisVars>>

Proceed(r) ==
    \/ CreateTenant(r) \/ CreateTenantFails(r) \/ CreateUser(r) \/ CreateUserFails(r)
    \/ GetUserByEmail(r) \/ UserNotFound(r) \/ CreateSession(r) \/ CreateSessionFails(r)
    \/ GetSession(r) \/ ExpireSession(r) \/ ValidateFails(r) \/ Route(r)
    \/ RevokeSession(r) \/ RevokeFails(r) \/ Cut(r)

-------------------------------------------------------------------------------
(* Properties.                                                              *)

Answered(r) == pc[r] = "done" /\ status[r] # 429
HasCookie(r) == ask[r] # None /\ ask[r].kind \in Protected /\ ask[r].cookie # None

(* Who the login t proved to be, by what it was asked with.                 *)
Proved(t) ==
    CASE ask[t].kind = "signup" -> {[role |-> "admin", tenant |-> t]}
      [] ask[t].kind = "login" ->
            {[role |-> u.role, tenant |-> u.tenant] : u \in {u \in users :
                u.email = ask[t].email /\ u.password = ask[t].password}}
      [] ask[t].kind = "keylogin" -> {KeyIdentity(ask[t].key)}

(* A request is served under a tenant and role that the login behind its
   cookie proved with its credentials, or under those of its own API key,
   and writes only with a role that may.                                    *)
ServedAsProved ==
    \A r \in Request : Answered(r) /\ status[r] \in {200, 204} /\ ask[r].kind \in Protected =>
        /\ \/ HasCookie(r) /\ who[r] \in Proved(ask[r].cookie)
           \/ ask[r].key # None /\ who[r] = KeyIdentity(ask[r].key)
        /\ ask[r].kind = "write" => who[r].role \in {"admin", "write"}

(* A request with a cookie is refused, or served under its API key instead,
   only if a call to Redis failed or the session has ended, for good.       *)
LiveSessionsCount ==
    \A r \in Request :
        /\ pc[r] \in {"route", "delete", "done"} /\ HasCookie(r) /\ status[r] # 429
        /\ ~hurt[r] /\ Live(ask[r].cookie)
        => who[r] = sessions[ask[r].cookie] /\ status[r] # 401

(* After a logout in which Redis did not fail the session has ended for good,
   also if another request was being validated meanwhile.                   *)
LogoutEnds ==
    \A r \in Request :
        Answered(r) /\ status[r] = 204 /\ HasCookie(r) /\ ~hurt[r]
        => ~Live(ask[r].cookie)

(* A user and its session have their tenant, a successful signup has all
   three, and only a failed or unfinished one leaves a tenant without user. *)
SignupsAreWhole ==
    \A r \in Request :
        LET registered == \E u \in users : u.tenant = r
        IN  /\ registered => r \in tenants
            /\ r \in tenants => registered \/ hurt[r] \/ pc[r] \in {"user", "dead"}
            /\ sessions[r] # None /\ ask[r].kind = "signup" => registered
            /\ pc[r] = "done" /\ status[r] = 201 => registered

(* auth_handler.go:152-158: a second signup with an address conflicts.      *)
EmailsAreUnique == \A u, v \in users : u.email = v.email => u = v
===============================================================================
