--------------------------- MODULE IdempotentLedger ---------------------------
(***************************************************************************)
(* What POST /v1/transactions promises, without locks, caches or database  *)
(* transactions: a call asks for a key, at most one transaction is booked  *)
(* per key together with its event, and a success shows the booked one.    *)
(***************************************************************************)
CONSTANTS Request, Key, None

VARIABLES
    asked,     \* asked[r]: the key of call r, None before it arrives
    booked,    \* the calls whose transaction is in the ledger
    announced, \* the calls whose event is in the outbox
    reply      \* "none", "rejected", "failed", or the transaction shown

vars == <<asked, booked, announced, reply>>

Init ==
    /\ asked = [r \in Request |-> None]
    /\ booked = {}
    /\ announced = {}
    /\ reply = [r \in Request |-> "none"]

(* An invalid call is rejected at once.                                    *)
Ask(r) ==
    /\ asked[r] = None
    /\ \E k \in Key, a \in {"none", "rejected"} :
          /\ asked' = [asked EXCEPT ![r] = k]
          /\ reply' = [reply EXCEPT ![r] = a]
    /\ UNCHANGED <<booked, announced>>

(* The transaction and its event appear together, also after the call was
   told that it failed, never after it was rejected.                       *)
Book(r) ==
    /\ asked[r] # None /\ reply[r] \in {"none", "failed"}
    /\ \A s \in booked : asked[s] # asked[r]
    /\ booked' = booked \cup {r}
    /\ announced' = announced \cup {r}
    /\ UNCHANGED <<asked, reply>>

Show(r) ==
    /\ asked[r] # None /\ reply[r] = "none"
    /\ \E t \in booked : /\ asked[t] = asked[r]
                         /\ reply' = [reply EXCEPT ![r] = t]
    /\ UNCHANGED <<asked, booked, announced>>

(* Told to retry: nothing was booked for this call and nothing will be.    *)
Reject(r) ==
    /\ asked[r] # None /\ reply[r] = "none" /\ r \notin booked
    /\ reply' = [reply EXCEPT ![r] = "rejected"]
    /\ UNCHANGED <<asked, booked, announced>>

(* An internal error: the transaction may or may not be booked.            *)
Fail(r) ==
    /\ asked[r] # None /\ reply[r] = "none"
    /\ reply' = [reply EXCEPT ![r] = "failed"]
    /\ UNCHANGED <<asked, booked, announced>>

Next == \E r \in Request :
            Ask(r) \/ Book(r) \/ Show(r) \/ Reject(r) \/ Fail(r)

Spec == Init /\ [][Next]_vars
===============================================================================
