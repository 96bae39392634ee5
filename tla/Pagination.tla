------------------------------ MODULE Pagination ------------------------------
(***************************************************************************)
(* A client walks through one of the three listings, page by page, while   *)
(* rows are inserted: the accounts by id, the transactions by their        *)
(* created_at, the postings of an account by OFFSET.                       *)
(*                                                                         *)
(* Row are the rows that match the listing's WHERE clause (one tenant,     *)
(* one account).  A row gets its created_at when its database transaction  *)
(* starts, its BIGSERIAL id when it is inserted, and is seen when that     *)
(* transaction commits.  Nothing is ever deleted.                          *)
(***************************************************************************)
EXTENDS Naturals, Sequences, FiniteSets, Functions

CONSTANTS
    Row,       \* rows that may be inserted
    Listing,   \* the listings a client may walk
    PageSize,  \* page_size (20 by default, at most 100)
    Lead,      \* the first transaction cursor is now plus this (1 s)
    MaxClock   \* bound: ticks of the database's clock

ASSUME RowAssumption == IsFiniteSet(Row)
ASSUME ListingAssumption ==
    Listing \subseteq {"accounts", "transactions", "postings"}
ASSUME SizeAssumption == PageSize \in Nat \ {0} /\ Lead \in Nat \ {0} /\ MaxClock \in Nat

VARIABLES
    clock,    \* now() of the database, in its smallest unit
    state,    \* state[r]: how far the insertion of r is
    at,       \* at[r]: created_at
    id,       \* id[r], 0 before the INSERT
    lastId,   \* the BIGSERIAL sequence
    listing,  \* what the client walks through
    walk,     \* "idle", "walking" or "over"
    cursor,   \* the cursor or offset of the next request
    initial,  \* the rows that were there when the walk began
    shown     \* the rows of all pages so far, in order

tableVars == <<clock, state, at, id, lastId>>
walkVars == <<listing, walk, cursor, initial, shown>>
vars == <<tableVars, walkVars>>

TypeOK ==
    /\ clock \in 0..MaxClock
    /\ state \in [Row -> {"new", "begun", "written", "committed", "aborted"}]
    /\ at \in [Row -> 0..MaxClock]
    /\ id \in [Row -> 0..Cardinality(Row)]
    /\ lastId \in 0..Cardinality(Row)
    /\ listing \in Listing
    /\ walk \in {"idle", "walking", "over"}
    /\ cursor \in 0..(MaxClock + Lead + Cardinality(Row))
    /\ initial \in SUBSET Row
    /\ shown \in Seq(Row)

Init ==
    /\ clock = 0
    /\ state = [r \in Row |-> "new"]
    /\ at = [r \in Row |-> 0]
    /\ id = [r \in Row |-> 0]
    /\ lastId = 0
    /\ listing \in Listing
    /\ walk = "idle"
    /\ cursor = 0
    /\ initial = {}
    /\ shown = <<>>

Committed == {r \in Row : state[r] = "committed"}

-------------------------------------------------------------------------------
(* The insertions.                                                          *)

Tick == clock < MaxClock /\ clock' = clock + 1
        /\ UNCHANGED <<state, at, id, lastId, walkVars>>

Begin(r) ==
    /\ state[r] = "new"
    /\ state' = [state EXCEPT ![r] = "begun"]
    /\ at' = [at EXCEPT ![r] = clock]
    /\ UNCHANGED <<clock, id, lastId, walkVars>>

(* Mutant: the sequence hands out every other number.                        *)
InsertSkipping(r) ==
    /\ state[r] = "begun"
    /\ state' = [state EXCEPT ![r] = "written"]
    /\ lastId' = lastId + 2
    /\ id' = [id EXCEPT ![r] = lastId + 2]
    /\ UNCHANGED <<clock, at, walkVars>>

Insert(r) ==
    /\ state[r] = "begun"
    /\ state' = [state EXCEPT ![r] = "written"]
    /\ lastId' = lastId + 1
    /\ id' = [id EXCEPT ![r] = lastId + 1]
    /\ UNCHANGED <<clock, at, walkVars>>

CommitRow(r) ==
    /\ state[r] = "written"
    /\ state' = [state EXCEPT ![r] = "committed"]
    /\ UNCHANGED <<clock, at, id, lastId, walkVars>>

(* The id is used up all the same.                                          *)
Abort(r) ==
    /\ state[r] \in {"begun", "written"}
    /\ state' = [state EXCEPT ![r] = "aborted"]
    /\ UNCHANGED <<clock, at, id, lastId, walkVars>>

-------------------------------------------------------------------------------
(* The queries.                                                             *)

(* Mutant: created_at <= cursor.                                            *)
MatchingNotAfter(r) ==
    CASE listing = "accounts" -> id[r] > cursor
      [] listing = "transactions" -> at[r] <= cursor
      [] listing = "postings" -> TRUE

(* The WHERE clause; the postings have no condition on the cursor.          *)
Matching(r) ==
    CASE listing = "accounts" -> id[r] > cursor
      [] listing = "transactions" -> at[r] < cursor
      [] listing = "postings" -> TRUE

(* ORDER BY: id ASC for accounts, created_at DESC, and nothing else, for the
   other two.                                                               *)
Before(r, s) == IF listing = "accounts" THEN id[r] < id[s] ELSE at[r] > at[s]

(* Rows that ORDER BY does not tell apart come in any order, a different one
   in each query.                                                           *)
Orderings(R) ==
    {s \in Bijection(1..Cardinality(R), R) :
        \A i, j \in DOMAIN s : i < j => ~Before(s[j], s[i])}

OffsetOf(c) == IF listing = "postings" THEN c ELSE 0

(* LIMIT and OFFSET.                                                        *)
PagesFrom(offset) ==
    {SubSeq(s, offset + 1, IF Len(s) < offset + PageSize THEN Len(s)
                           ELSE offset + PageSize) :
        s \in Orderings({r \in Committed : Matching(r)})}

-------------------------------------------------------------------------------
(* The handlers and the client.                                             *)

FirstCursor == IF listing = "transactions" THEN clock + Lead ELSE 0

(* Mutant: the cursor counts the rows shown, like the offset.               *)
NextCursorCounts(p) ==
    CASE listing = "accounts" -> cursor + Len(p)
      [] listing = "transactions" -> at[p[Len(p)]]
      [] listing = "postings" -> cursor + Len(p)

(* Mutant: the offset is the length of the page.                            *)
NextCursorOfPage(p) ==
    CASE listing = "accounts" -> id[p[Len(p)]]
      [] listing = "transactions" -> at[p[Len(p)]]
      [] listing = "postings" -> cursor + PageSize + 1

(* next_cursor, or offset, of a response with the rows p.                   *)
NextCursor(p) ==
    CASE listing = "accounts" -> id[p[Len(p)]]
      [] listing = "transactions" -> at[p[Len(p)]]
      [] listing = "postings" -> cursor + Len(p)

StartWalk ==
    /\ walk = "idle"
    /\ walk' = "walking"
    /\ cursor' = FirstCursor
    /\ initial' = Committed
    /\ UNCHANGED <<listing, shown, tableVars>>

(* One request; a page that is not full is the last one.                    *)
NextPage ==
    /\ walk = "walking"
    /\ \E p \in PagesFrom(OffsetOf(cursor)) :
          /\ shown' = shown \o p
          /\ IF Len(p) < PageSize
                THEN walk' = "over" /\ UNCHANGED cursor
                ELSE cursor' = NextCursor(p) /\ UNCHANGED walk
    /\ UNCHANGED <<listing, initial, tableVars>>

Next ==
    \/ Tick \/ StartWalk \/ NextPage
    \/ \E r \in Row : Begin(r) \/ Insert(r) \/ CommitRow(r) \/ Abort(r)

Spec == Init /\ [][Next]_vars

-------------------------------------------------------------------------------
(* Properties.                                                              *)

Skipped == IF walk = "over" THEN initial \ Range(shown) ELSE {}
Repeats == ~IsInjective(shown)
Ties == \E r, s \in Committed : r # s /\ at[r] = at[s]

(* Accounts: at the end of the walk every account committed by then has been
   shown exactly once, in order, though rows are not seen in the order of their
   ids.  The only ones missed were committed during the walk, with an id below
   the end of a page that had been served already.                          *)
InOrder == \A i, j \in DOMAIN shown : i < j => id[shown[i]] < id[shown[j]]
BelowPageEnd(r) == \E i \in DOMAIN shown : i % PageSize = 0 /\ id[r] < id[shown[i]]
MissedLateOnly ==
    \A r \in Committed \ Range(shown) : r \notin initial /\ BelowPageEnd(r)
AccountsShownOnce ==
    [][listing = "accounts" =>
          InOrder' /\ (walk = "walking" /\ walk' = "over" => MissedLateOnly')]_vars

(* Transactions: no row is shown twice, and one that was there is left out
   only if the last row of a full page has its timestamp.                   *)
TransactionsSkipOnlyTies ==
    listing = "transactions" =>
        /\ ~Repeats
        /\ \A r \in Skipped : \E i \in DOMAIN shown :
              i % PageSize = 0 /\ at[shown[i]] = at[r]

(* Postings: without ties no row that was there is left out, and a row is
   shown twice only after another one was committed during the walk.        *)
PostingsShiftOnly ==
    listing = "postings" /\ ~Ties =>
        Skipped = {} /\ (Repeats => Committed \ initial # {})
===============================================================================
