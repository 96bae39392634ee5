------------------------------ MODULE DoubleEntry ------------------------------
(***************************************************************************)
(* The double-entry arithmetic of the ledger: which requests become        *)
(* transactions, and what the balances computed from the posting rows say. *)
(*                                                                         *)
(* The handler and the service add amounts in int64, which wraps; the      *)
(* database adds them in NUMERIC and casts to BIGINT, which fails when the *)
(* sum does not fit.  Both have the range -(MaxInt + 1) .. MaxInt here.    *)
(* A creation is one step: CreateTransaction.tla takes it apart.  The      *)
(* currency of an account is compared with nothing and is left out.        *)
(***************************************************************************)
EXTENDS Integers, Sequences, Functions

CONSTANTS
    Tenant, Name,
    Request,         \* posting lists a client may send
    MaxInt,          \* 2^63 - 1 in the code
    MaxPostings,     \* postings per request (100)
    MaxAccounts,     \* bound: accounts that are opened
    MaxTransactions  \* bound: transactions that commit

Direction == {"debit", "credit"}
Leg == [account : Int, amount : Int, direction : Direction]

ASSUME RequestAssumption == \A legs \in Request : legs \in Seq(Leg)
ASSUME WidthAssumption ==
    /\ MaxInt \in Nat \ {0} /\ MaxPostings \in Nat
    /\ MaxAccounts \in Nat /\ MaxTransactions \in Nat

VARIABLES
    accounts,      \* accounts[id], BIGSERIAL across all tenants
    transactions,  \* transactions[n]: the tenant that created the n-th
    postings       \* the table of posting rows

vars == <<accounts, transactions, postings>>

Posting == [tenant : Tenant, transaction : Nat, account : Nat, amount : Nat,
            direction : Direction]

(* Every row has its range, and its foreign keys and CHECK hold.            *)
TypeOK ==
    /\ accounts \in Seq([tenant : Tenant, name : Name])
    /\ transactions \in Seq(Tenant)
    /\ postings \in Seq(Posting)
    /\ \A i \in DOMAIN postings :
          /\ postings[i].account \in DOMAIN accounts
          /\ postings[i].transaction \in DOMAIN transactions
          /\ postings[i].amount > 0

Init == accounts = <<>> /\ transactions = <<>> /\ postings = <<>>

-------------------------------------------------------------------------------
(* Sums.                                                                    *)

(* int64 addition.                                                          *)
Wrap(n) == ((n + MaxInt + 1) % (2 * (MaxInt + 1))) - (MaxInt + 1)
Add(m, n) == Wrap(m + n)

(* The amounts of a table or a request, and its lines on one side; rows is a
   set of line numbers.                                                     *)
Amounts(table) == [i \in DOMAIN table |-> table[i].amount]
Side(table, rows, d) == {i \in rows : table[i].direction = d}

Sum(table, rows, d) == SumFunctionOnSet(Amounts(table), Side(table, rows, d))
WrappedSum(legs, d) ==
    FoldFunctionOnSet(Add, 0, Amounts(legs), Side(legs, DOMAIN legs, d))

Fits(n) == -(MaxInt + 1) <= n /\ n <= MaxInt

-------------------------------------------------------------------------------
(* Operations.                                                              *)

(* UNIQUE (tenant_id, account_name).                                        *)
NameTaken(t, n) ==
    \E id \in DOMAIN accounts : accounts[id].tenant = t /\ accounts[id].name = n

CreateAccount(t, n) ==
    /\ Len(accounts) < MaxAccounts
    /\ ~NameTaken(t, n)
    /\ accounts' = Append(accounts, [tenant |-> t, name |-> n])
    /\ UNCHANGED <<transactions, postings>>

(* The check of the handler, repeated by the service.                       *)
Validate(legs) ==
    /\ Len(legs) \in 2..MaxPostings
    /\ \A i \in DOMAIN legs : legs[i].account > 0 /\ legs[i].amount > 0
    /\ WrappedSum(legs, "debit") = WrappedSum(legs, "credit")

(* Mutant: the account is not looked up.                                    *)
CreatePostingUnchecked(legs) == \A i \in DOMAIN legs : legs[i].amount > 0

(* The INSERTs: CHECK (amount > 0), and the account exists, whose ever it is. *)
CreatePosting(legs) ==
    \A i \in DOMAIN legs :
        legs[i].amount > 0 /\ legs[i].account \in DOMAIN accounts

(* Mutant: the trigger adds like Go does.                                   *)
CheckTransactionBalanceWraps(legs) ==
    WrappedSum(legs, "debit") = WrappedSum(legs, "credit")

(* The deferred trigger, at COMMIT: both sums fit a BIGINT and are equal.   *)
CheckTransactionBalance(legs) ==
    LET debits == Sum(legs, DOMAIN legs, "debit")
        credits == Sum(legs, DOMAIN legs, "credit")
    IN  Fits(debits) /\ Fits(credits) /\ debits = credits

Accepted(legs) ==
    Validate(legs) /\ CreatePosting(legs) /\ CheckTransactionBalance(legs)

(* The posting rows of the n-th transaction.                                *)
Rows(t, n, legs) ==
    [i \in DOMAIN legs |->
        [tenant |-> t, transaction |-> n, account |-> legs[i].account,
         amount |-> legs[i].amount, direction |-> legs[i].direction]]

CreateTransaction(t, legs) ==
    /\ Len(transactions) < MaxTransactions
    /\ Accepted(legs)
    /\ transactions' = Append(transactions, t)
    /\ postings' = postings \o Rows(t, Len(transactions) + 1, legs)
    /\ UNCHANGED accounts

(* 400 or 500: everything is rolled back.                                   *)
Refuse(t, legs) == ~Accepted(legs) /\ UNCHANGED vars

Next ==
    \/ \E t \in Tenant, n \in Name : CreateAccount(t, n)
    \/ \E t \in Tenant, legs \in Request :
          CreateTransaction(t, legs) \/ Refuse(t, legs)

Spec == Init /\ [][Next]_vars

-------------------------------------------------------------------------------
(* Reads.                                                                   *)

(* Mutant: WHERE account_id = $1 only.                                      *)
TotalOfAllTenants(t, id, d) ==
    Sum(postings, {i \in DOMAIN postings : postings[i].account = id}, d)

RowsOf(t) == {i \in DOMAIN postings : postings[i].tenant = t}

(* SUM over the rows WHERE account_id = $1 AND tenant_id = $2.              *)
Total(t, id, d) == Sum(postings, {i \in RowsOf(t) : postings[i].account = id}, d)

(* Mutant: the sums wrap.                                                   *)
GetAccountBalanceWraps(t, id) ==
    LET debits == Total(t, id, "debit")
        credits == Total(t, id, "credit")
    IN  [status |-> 200, net |-> Wrap(debits - credits)]

(* 404 for an account of another tenant, 500 if a cast to BIGINT fails.     *)
GetAccountBalance(t, id) ==
    LET debits == Total(t, id, "debit")
        credits == Total(t, id, "credit")
    IN  IF accounts[id].tenant # t THEN [status |-> 404, net |-> 0]
        ELSE IF Fits(debits) /\ Fits(credits)
        THEN [status |-> 200, net |-> debits - credits]
        ELSE [status |-> 500, net |-> 0]

(* 404 for a transaction of another tenant; its postings by transaction and
   tenant.                                                                  *)
GetTransaction(t, n) ==
    IF transactions[n] # t THEN [status |-> 404, legs |-> {}]
    ELSE [status |-> 200, legs |-> {i \in RowsOf(t) : postings[i].transaction = n}]

-------------------------------------------------------------------------------
(* Properties.                                                              *)

Own(t) == {id \in DOMAIN accounts : accounts[id].tenant = t}

(* The trial balance over ids, as a client adds it up from the balances.    *)
Readable(t, ids) == \A id \in ids : GetAccountBalance(t, id).status = 200
NetOf(t, ids) == SumFunction([id \in ids |-> GetAccountBalance(t, id).net])

(* A tenant is shown its transactions with both sides, and their legs add up
   exactly, in spite of requests whose sums agree only because int64 wrapped;
   no leg of another tenant's transaction is shown.                         *)
EveryTransactionBalances ==
    \A t \in Tenant : \A n \in DOMAIN transactions :
        LET legs == GetTransaction(t, n).legs
        IN  /\ Sum(postings, legs, "debit") = Sum(postings, legs, "credit")
            /\ transactions[n] = t <=> Side(postings, legs, "debit") # {}

(* The balances a tenant can read sum to zero, as long as it posts to its own
   accounts only: whatever the other tenants post, to its accounts even, and
   however large the totals, as long as all balances can be read.           *)
OwnBooksBalance ==
    \A t \in Tenant :
        (\A i \in DOMAIN postings :
            postings[i].tenant = t => postings[i].account \in Own(t))
        /\ Readable(t, Own(t)) => NetOf(t, Own(t)) = 0

(* A step that adds no transaction of a tenant changes no balance the tenant
   reads, nor whether it can be read.                                       *)
TransactionsOf(t) == {n \in DOMAIN transactions : transactions[n] = t}
TenantIsolation ==
    [][\A t \in Tenant : TransactionsOf(t)' = TransactionsOf(t) =>
          \A id \in DOMAIN accounts :
              GetAccountBalance(t, id)' = GetAccountBalance(t, id)]_vars
===============================================================================
