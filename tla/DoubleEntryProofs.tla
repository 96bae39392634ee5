--------------------------- MODULE DoubleEntryProofs ---------------------------
(***************************************************************************)
(* Proofs about DoubleEntry, for all tenants, accounts, requests, numbers  *)
(* of rows and widths of an integer: the tables are well formed, every     *)
(* transaction balances, a tenant's own books sum to zero, and no tenant   *)
(* sees what another one posts.                                            *)
(***************************************************************************)
EXTENDS DoubleEntry, SumTheorems, SequenceTheorems

-------------------------------------------------------------------------------
(* Lists of lines, and their sums.                                          *)

(* The line numbers of a table, and some of them, are finitely many.        *)
LEMMA LinesFinite ==
    ASSUME NEW S, NEW table \in Seq(S), NEW rows \in SUBSET DOMAIN table
    PROVE  IsFiniteSet(rows) /\ rows \subseteq 1..Len(table)
<1>1. DOMAIN table = 1..Len(table) /\ Len(table) \in Nat
  BY LenProperties
<1>2. IsFiniteSet(1..Len(table))
  BY <1>1, FS_Interval
<1>3. QED
  BY <1>1, <1>2, FS_Subset

(* Rows that are appended leave the sums over the earlier rows as they were. *)
LEMMA EarlierRows ==
    ASSUME NEW p \in Seq(Posting), NEW q \in Seq(Posting),
           NEW rows \in SUBSET DOMAIN p, NEW d
    PROVE  /\ Side(p \o q, rows, d) = Side(p, rows, d)
           /\ Sum(p \o q, rows, d) = Sum(p, rows, d)
<1>1. \A i \in rows : i \in DOMAIN (p \o q) /\ (p \o q)[i] = p[i]
  BY LenProperties, ConcatProperties
<1>2. Side(p \o q, rows, d) = Side(p, rows, d)
  BY <1>1 DEF Side
<1>3. IsFiniteSet(Side(p, rows, d))
  BY LinesFinite DEF Side
<1>4. \A i \in Side(p, rows, d) : Amounts(p \o q)[i] = Amounts(p)[i]
  BY <1>1 DEF Side, Amounts
<1>5. QED
  BY <1>2, <1>3, <1>4, SumCongruent DEF Sum

(* Where each row of two tables is, in the one that follows the other.      *)
LEMMA ConcatRows ==
    ASSUME NEW S, NEW p \in Seq(S), NEW q \in Seq(S)
    PROVE  /\ p \o q \in Seq(S)
           /\ DOMAIN p = 1..Len(p) /\ Len(p) \in Nat
           /\ DOMAIN (p \o q) = 1..(Len(p) + Len(q))
           /\ \A i \in 1..Len(p) : (p \o q)[i] = p[i]
           /\ \A i \in (Len(p) + 1)..(Len(p) + Len(q)) : (p \o q)[i] = q[i - Len(p)]
BY ConcatProperties, LenProperties

(* The numbers of the rows that are appended for a request.                 *)
Appended(p, legs) == {i + Len(p) : i \in DOMAIN legs}

(* The rows of a transaction add up to the legs of the request.             *)
LEMMA AppendedRows ==
    ASSUME NEW p \in Seq(Posting), NEW legs \in Seq(Leg), NEW t, NEW n,
           Rows(t, n, legs) \in Seq(Posting), NEW d
    PROVE  Sum(p \o Rows(t, n, legs), Appended(p, legs), d) = Sum(legs, DOMAIN legs, d)
<1> DEFINE table == p \o Rows(t, n, legs)
           new == {i + Len(p) : i \in DOMAIN legs}
           side == Side(legs, DOMAIN legs, d)
<1>1. /\ DOMAIN legs = 1..Len(legs) /\ Len(legs) \in Nat
      /\ Len(p) \in Nat /\ IsFiniteSet(DOMAIN legs)
  BY LenProperties, LinesFinite
<1>2. Len(Rows(t, n, legs)) = Len(legs)
  BY <1>1, LenProperties DEF Rows
<1>3. ASSUME NEW i \in DOMAIN legs
      PROVE  /\ i + Len(p) \in DOMAIN table
             /\ table[i + Len(p)] = Rows(t, n, legs)[i]
  BY <1>1, <1>2, LenProperties, ConcatProperties
<1>4. ASSUME NEW i \in DOMAIN legs
      PROVE  /\ table[i + Len(p)].direction = legs[i].direction
             /\ Amounts(table)[i + Len(p)] = legs[i].amount
  BY <1>3 DEF Rows, Amounts
<1>5. Side(table, new, d) = {i + Len(p) : i \in side}
  BY <1>4 DEF Side
<1>6. side \in SUBSET Int /\ IsFiniteSet(side) /\ side \subseteq DOMAIN legs
  BY <1>1, LinesFinite DEF Side
<1>7. ASSUME NEW i \in DOMAIN legs
      PROVE  Amounts(legs)[i] = legs[i].amount /\ legs[i].amount \in Int
  <2>1. legs[i] \in Leg
    BY <1>1, ElementOfSeq
  <2>2. QED
    BY <2>1 DEF Amounts, Leg
<1>8. SumFunctionOnSet(Amounts(table), {i + Len(p) : i \in side}) =
        SumFunctionOnSet(Amounts(legs), side)
  <2>1. \A i \in side : /\ Amounts(legs)[i] \in Int
                         /\ Amounts(table)[i + Len(p)] = Amounts(legs)[i]
    <3> HIDE DEF table, side
    <3>1. QED
      BY <1>4, <1>6, <1>7
  <2>2. Len(p) \in Int
    BY <1>1
  <2> HIDE DEF table, side
  <2>3. QED
    BY Zenon, <1>6, <2>1, <2>2, SumShift
<1>9. QED
  BY <1>5, <1>8 DEF Sum, Appended

-------------------------------------------------------------------------------
(* The tables.                                                              *)

(* The rows of an accepted request.                                         *)
LEMMA RowsWritten ==
    ASSUME TypeOK, NEW t \in Tenant, NEW legs \in Request, Accepted(legs),
           NEW n, n = Len(transactions) + 1, NEW rows, rows = Rows(t, n, legs)
    PROVE  /\ legs \in Seq(Leg) /\ Len(legs) >= 2
           /\ rows \in Seq(Posting) /\ Len(rows) = Len(legs)
           /\ \A i \in 1..Len(legs) :
                 /\ rows[i].account \in DOMAIN accounts
                 /\ rows[i].transaction = n /\ rows[i].tenant = t
                 /\ rows[i].amount > 0
<1>1. legs \in Seq(Leg) /\ Len(legs) \in Nat /\ DOMAIN legs = 1..Len(legs)
  BY RequestAssumption, LenProperties
<1>2. Len(legs) >= 2
  BY <1>1 DEF Accepted, Validate
<1>3. /\ DOMAIN accounts \subseteq Nat
      /\ n \in Nat
  BY LenProperties DEF TypeOK
<1>4. ASSUME NEW i \in 1..Len(legs)
      PROVE  /\ rows[i] \in Posting
             /\ rows[i].account \in DOMAIN accounts
             /\ rows[i].transaction = n /\ rows[i].tenant = t
             /\ rows[i].amount > 0
  <2>1. legs[i] \in Leg
    BY <1>1, ElementOfSeq
  <2>2. legs[i].account \in DOMAIN accounts /\ legs[i].amount > 0
    BY <1>1 DEF Accepted, CreatePosting
  <2>3. rows[i] = [tenant |-> t, transaction |-> n, account |-> legs[i].account,
                   amount |-> legs[i].amount, direction |-> legs[i].direction]
    BY <1>1 DEF Rows
  <2>4. QED
    BY <1>3, <2>1, <2>2, <2>3 DEF Leg, Posting
<1>5. rows \in Seq(Posting)
  <2>1. rows = [i \in 1..Len(legs) |-> rows[i]]
    BY <1>1 DEF Rows
  <2>2. rows \in [1..Len(legs) -> Posting]
    BY <1>4, <2>1
  <2>3. QED
    BY <1>1, <2>2, SeqDef
<1>6. Len(rows) = Len(legs)
  BY <1>1, <1>5, LenProperties DEF Rows
<1>7. QED
  BY <1>1, <1>2, <1>4, <1>5, <1>6

(* Every step keeps the tables well formed.                                 *)
LEMMA TypeStep == TypeOK /\ [Next]_vars => TypeOK'
<1> SUFFICES ASSUME TypeOK, [Next]_vars
             PROVE  TypeOK'
    OBVIOUS
<1>1. ASSUME NEW t \in Tenant, NEW n \in Name, CreateAccount(t, n)
      PROVE  TypeOK'
  <2> DEFINE account == [tenant |-> t, name |-> n]
  <2>1. account \in [tenant : Tenant, name : Name]
    OBVIOUS
  <2>2. /\ accounts' = Append(accounts, account)
        /\ UNCHANGED <<transactions, postings>>
    BY <1>1 DEF CreateAccount
  <2> HIDE DEF account
  <2>3. accounts' \in Seq([tenant : Tenant, name : Name])
    BY <2>1, <2>2, AppendProperties DEF TypeOK
  <2>4. DOMAIN accounts \subseteq DOMAIN accounts'
    BY <2>1, <2>2, <2>3, AppendProperties, LenProperties DEF TypeOK
  <2>5. QED
    BY <2>2, <2>3, <2>4 DEF TypeOK
<1>2. ASSUME NEW t \in Tenant, NEW legs \in Request, CreateTransaction(t, legs)
      PROVE  TypeOK'
  <2> DEFINE n == Len(transactions) + 1
             rows == Rows(t, n, legs)
  <2>1. /\ transactions' = Append(transactions, t)
        /\ postings' = postings \o rows
        /\ UNCHANGED accounts
    BY <1>2 DEF CreateTransaction
  <2>2. /\ transactions' \in Seq(Tenant)
        /\ DOMAIN transactions \subseteq DOMAIN transactions'
        /\ n \in DOMAIN transactions'
    BY <2>1, AppendProperties, LenProperties DEF TypeOK
  <2>3. /\ rows \in Seq(Posting)
        /\ \A i \in 1..Len(rows) : /\ rows[i].account \in DOMAIN accounts
                                   /\ rows[i].transaction = n
                                   /\ rows[i].amount > 0
    BY <1>2, RowsWritten DEF CreateTransaction
  <2> HIDE DEF n, rows
  <2>4. postings' \in Seq(Posting)
    BY <2>1, <2>3, ConcatProperties DEF TypeOK
  <2>5. ASSUME NEW i \in DOMAIN postings'
        PROVE  /\ postings'[i].account \in DOMAIN accounts
               /\ postings'[i].transaction \in DOMAIN transactions'
               /\ postings'[i].amount > 0
    <3>1. /\ i \in 1..(Len(postings) + Len(rows))
          /\ Len(postings) \in Nat /\ Len(rows) \in Nat
          /\ DOMAIN postings = 1..Len(postings)
      BY <2>1, <2>3, <2>4, ConcatProperties, LenProperties DEF TypeOK
    <3>2. CASE i <= Len(postings)
      <4>1. i \in DOMAIN postings /\ postings'[i] = postings[i]
        BY <2>1, <2>3, <3>1, <3>2, ConcatProperties DEF TypeOK
      <4>2. QED
        BY <2>2, <4>1 DEF TypeOK
    <3>3. CASE i > Len(postings)
      <4>1. i - Len(postings) \in 1..Len(rows)
        BY <3>1, <3>3
      <4>2. postings'[i] = rows[i - Len(postings)]
        BY <2>1, <2>3, <3>1, <3>3, ConcatProperties DEF TypeOK
      <4>3. QED
        BY <2>2, <2>3, <4>1, <4>2
    <3>4. QED
      BY <3>1, <3>2, <3>3
  <2>6. QED
    BY <2>1, <2>2, <2>4, <2>5 DEF TypeOK
<1>3. CASE UNCHANGED vars
  BY <1>3 DEF TypeOK, vars
<1>4. QED
  BY <1>1, <1>2, <1>3 DEF Next, Refuse

(* The tables always hold well-formed rows, whose keys exist.               *)
THEOREM TypeCorrect == Spec => []TypeOK
<1>1. Init => TypeOK
  BY EmptySeq DEF Init, TypeOK
<1>2. QED
  BY <1>1, TypeStep, PTL DEF Spec

-------------------------------------------------------------------------------
(* The books.                                                               *)

(* A row belongs to the tenant of its transaction, as no foreign key says.  *)
RowsOwned ==
    \A i \in DOMAIN postings :
        postings[i].tenant = transactions[postings[i].transaction]

(* Each transaction balances and has both sides; hence so do all rows of a
   tenant together.                                                         *)
RowsOfTransaction(n) == {i \in DOMAIN postings : postings[i].transaction = n}
TransactionsBalance ==
    \A n \in DOMAIN transactions :
        /\ Sum(postings, RowsOfTransaction(n), "debit") =
             Sum(postings, RowsOfTransaction(n), "credit")
        /\ Side(postings, RowsOfTransaction(n), "debit") # {}
BooksBalance ==
    \A t \in Tenant :
        Sum(postings, RowsOf(t), "debit") = Sum(postings, RowsOf(t), "credit")

LedgerInv == TypeOK /\ RowsOwned /\ TransactionsBalance /\ BooksBalance

(* Some rows of the table have positive amounts, and an integer sum.        *)
LEMMA RowSums ==
    ASSUME NEW p \in Seq(Posting), \A i \in DOMAIN p : p[i].amount > 0,
           NEW rows \in SUBSET DOMAIN p, NEW d
    PROVE  /\ IsFiniteSet(rows)
           /\ IsFiniteSet(Side(p, rows, d))
           /\ \A i \in Side(p, rows, d) : Amounts(p)[i] \in Nat \ {0}
           /\ Sum(p, rows, d) \in Nat
           /\ Sum(p, rows, d) = 0 => Side(p, rows, d) = {}
<1>1. Side(p, rows, d) \in SUBSET DOMAIN p
  BY DEF Side
<1>2. IsFiniteSet(rows) /\ IsFiniteSet(Side(p, rows, d))
  BY <1>1, LinesFinite
<1>3. ASSUME NEW i \in DOMAIN p
      PROVE  Amounts(p)[i] \in Nat \ {0}
  <2>1. p[i] \in Posting
    BY ElementOfSeq, LenProperties
  <2>2. QED
    BY <2>1 DEF Amounts, Posting
<1>4. \A i \in Side(p, rows, d) : Amounts(p)[i] \in Nat \ {0}
  BY <1>1, <1>3
<1>5. QED
  BY <1>2, <1>4, SumPositive DEF Sum

(* The sum over two sets of rows with none in common.                       *)
LEMMA SumOfParts ==
    ASSUME NEW p \in Seq(Posting), \A i \in DOMAIN p : p[i].amount > 0,
           NEW rows \in SUBSET DOMAIN p, NEW more \in SUBSET DOMAIN p,
           rows \cap more = {}, NEW d
    PROVE  Sum(p, rows \cup more, d) = Sum(p, rows, d) + Sum(p, more, d)
<1>1. /\ IsFiniteSet(Side(p, rows, d))
      /\ \A i \in Side(p, rows, d) : Amounts(p)[i] \in Int
  <2>1. /\ IsFiniteSet(Side(p, rows, d))
        /\ \A i \in Side(p, rows, d) : Amounts(p)[i] \in Nat \ {0}
    BY Zenon, RowSums
  <2>2. QED
    BY <2>1
<1>2. /\ IsFiniteSet(Side(p, more, d))
      /\ \A i \in Side(p, more, d) : Amounts(p)[i] \in Int
  <2>1. /\ IsFiniteSet(Side(p, more, d))
        /\ \A i \in Side(p, more, d) : Amounts(p)[i] \in Nat \ {0}
    BY Zenon, RowSums
  <2>2. QED
    BY <2>1
<1>3. /\ Side(p, rows, d) \cap Side(p, more, d) = {}
      /\ Side(p, rows \cup more, d) = Side(p, rows, d) \cup Side(p, more, d)
  BY DEF Side
<1>4. \A i \in Side(p, rows, d) \cup Side(p, more, d) : Amounts(p)[i] \in Int
  BY <1>1, <1>2
<1>5. SumFunctionOnSet(Amounts(p), Side(p, rows, d) \cup Side(p, more, d)) =
        SumFunctionOnSet(Amounts(p), Side(p, rows, d)) +
        SumFunctionOnSet(Amounts(p), Side(p, more, d))
  BY Zenon, <1>1, <1>2, <1>3, <1>4, SumUnion
<1>6. QED
  BY <1>3, <1>5 DEF Sum

(* The n-th transaction is t's, and its rows, new, balance.                 *)
Extends(t, n, new) ==
    /\ DOMAIN postings' = DOMAIN postings \cup new
    /\ DOMAIN postings \cap new = {}
    /\ \A i \in DOMAIN postings : postings'[i] = postings[i]
    /\ \A i \in new : postings'[i].tenant = t /\ postings'[i].transaction = n
    /\ DOMAIN transactions' = DOMAIN transactions \cup {n}
    /\ n \notin DOMAIN transactions
    /\ \A m \in DOMAIN transactions : transactions'[m] = transactions[m]
    /\ transactions'[n] = t
    /\ Sum(postings', new, "debit") = Sum(postings', new, "credit")
    /\ Side(postings', new, "debit") # {}

(* What a creation does to the tables: rows of the new transaction are added
   that balance and have both sides, and the earlier rows stay.             *)
LEMMA Posted ==
    ASSUME TypeOK, NEW t \in Tenant, NEW legs \in Request,
           CreateTransaction(t, legs)
    PROVE  Extends(t, Len(transactions) + 1, Appended(postings, legs))
<1> DEFINE n == Len(transactions) + 1
           new == Appended(postings, legs)
           rows == Rows(t, n, legs)
<1>1. /\ transactions' = Append(transactions, t)
      /\ postings' = postings \o rows
      /\ Accepted(legs)
  BY DEF CreateTransaction
<1>2. /\ legs \in Seq(Leg) /\ Len(legs) >= 2
      /\ rows \in Seq(Posting) /\ Len(rows) = Len(legs)
      /\ \A i \in 1..Len(legs) : rows[i].transaction = n /\ rows[i].tenant = t
  BY <1>1, RowsWritten
<1>3. /\ DOMAIN legs = 1..Len(legs) /\ Len(legs) \in Nat
      /\ DOMAIN postings = 1..Len(postings) /\ Len(postings) \in Nat
      /\ DOMAIN transactions = 1..Len(transactions) /\ Len(transactions) \in Nat
      /\ postings \in Seq(Posting) /\ transactions \in Seq(Tenant)
  BY <1>2, LenProperties DEF TypeOK
<1>4. TypeOK'
  BY TypeStep DEF Next
<1>5. /\ DOMAIN postings' = 1..(Len(postings) + Len(legs))
      /\ \A i \in 1..Len(postings) : postings'[i] = postings[i]
      /\ \A i \in (Len(postings) + 1)..(Len(postings) + Len(legs)) :
            postings'[i] = rows[i - Len(postings)]
  <2>1. /\ postings' = postings \o rows
        /\ rows \in Seq(Posting) /\ Len(rows) = Len(legs)
        /\ postings \in Seq(Posting)
    BY <1>1, <1>2, <1>3
  <2> HIDE DEF rows
  <2>2. DOMAIN postings' = 1..(Len(postings) + Len(rows))
    BY <2>1, ConcatRows
  <2>3. \A i \in 1..Len(postings) : postings'[i] = postings[i]
    BY <2>1, ConcatRows
  <2>4. \A i \in (Len(postings) + 1)..(Len(postings) + Len(rows)) :
              postings'[i] = rows[i - Len(postings)]
    BY <2>1, ConcatRows
  <2>5. QED
    BY <2>1, <2>2, <2>3, <2>4
<1>6. /\ DOMAIN transactions' = DOMAIN transactions \cup {n}
      /\ n \notin DOMAIN transactions
      /\ \A m \in DOMAIN transactions : transactions'[m] = transactions[m]
      /\ transactions'[n] = t
  BY <1>1, <1>3, AppendProperties, LenProperties
<1>7. new = (Len(postings) + 1)..(Len(postings) + Len(legs))
  <2>1. ASSUME NEW k \in (Len(postings) + 1)..(Len(postings) + Len(legs))
        PROVE  k - Len(postings) \in DOMAIN legs /\ k = (k - Len(postings)) + Len(postings)
    BY <1>3
  <2>2. \A k : k \in new <=> \E i \in DOMAIN legs : k = i + Len(postings)
    BY DEF Appended
  <2>3. ASSUME NEW k \in new
        PROVE  k \in (Len(postings) + 1)..(Len(postings) + Len(legs))
    BY <1>3, <2>2
  <2>4. QED
    BY <2>1, <2>2, <2>3
<1>8. /\ DOMAIN postings' = DOMAIN postings \cup new
      /\ DOMAIN postings \cap new = {}
      /\ \A i \in DOMAIN postings : postings'[i] = postings[i]
  BY <1>3, <1>5, <1>7
<1>9. ASSUME NEW i \in new
      PROVE  postings'[i].tenant = t /\ postings'[i].transaction = n
  <2>1. i - Len(postings) \in 1..Len(legs) /\ postings'[i] = rows[i - Len(postings)]
    BY <1>3, <1>5, <1>7
  <2>2. QED
    BY <1>2, <2>1
<1>10. Sum(postings', new, "debit") = Sum(postings', new, "credit")
  <2>1. \A d : Sum(postings', new, d) = Sum(legs, DOMAIN legs, d)
    <3>1. TAKE d
    <3>2. /\ legs \in Seq(Leg) /\ postings \in Seq(Posting)
          /\ Rows(t, n, legs) \in Seq(Posting)
          /\ postings' = postings \o Rows(t, n, legs)
      BY <1>1, <1>2, <1>3
    <3> HIDE DEF rows
    <3>3. QED
      BY <3>2, AppendedRows
  <2>2. QED
    BY <1>1, <2>1 DEF Accepted, CheckTransactionBalance
<1>11. Side(postings', new, "debit") # {}
  <2>1. SUFFICES ASSUME Side(postings', new, "debit") = {}
                 PROVE  FALSE
    OBVIOUS
  <2>2. Sum(postings', new, "credit") = 0
    BY <1>10, <2>1, SumEmpty DEF Sum
  <2>3. Side(postings', new, "credit") = {}
    <3>1. /\ postings' \in Seq(Posting)
          /\ \A i \in DOMAIN postings' : postings'[i].amount > 0
      BY <1>4 DEF TypeOK
    <3>2. QED
      BY <1>8, <2>2, <3>1, RowSums
  <2>4. PICK i \in new : TRUE
    <3>1. Len(postings) + 1 \in new
      BY <1>2, <1>3, <1>7
    <3>2. QED
      BY <3>1
  <2>5. postings'[i] \in Posting
    <3>1. postings' \in Seq(Posting) /\ i \in DOMAIN postings'
      BY <1>4, <1>8 DEF TypeOK
    <3>2. QED
      BY <3>1, ElementOfSeq, LenProperties
  <2>6. QED
    BY <2>1, <2>2, <2>3, <2>4, <2>5 DEF Side, Posting, Direction
<1>12. QED
  BY <1>6, <1>8, <1>9, <1>10, <1>11 DEF Extends

(* Sums over the earlier rows do not change when a transaction is created.  *)
LEMMA EarlierSums ==
    ASSUME TypeOK, NEW t \in Tenant, NEW legs \in Request,
           CreateTransaction(t, legs), NEW rows \in SUBSET DOMAIN postings, NEW d
    PROVE  /\ Side(postings', rows, d) = Side(postings, rows, d)
           /\ Sum(postings', rows, d) = Sum(postings, rows, d)
<1> DEFINE added == Rows(t, Len(transactions) + 1, legs)
<1>1. postings' = postings \o added /\ Accepted(legs)
  BY DEF CreateTransaction
<1>2. added \in Seq(Posting)
  BY <1>1, RowsWritten
<1>3. postings \in Seq(Posting)
  BY DEF TypeOK
<1> HIDE DEF added
<1>4. QED
  BY <1>1, <1>2, <1>3, EarlierRows

(* A creation keeps the books: the rows of the other transactions and tenants
   are what they were, and those that are added balance.                    *)
LEMMA CreationKeepsBooks ==
    ASSUME LedgerInv, NEW t \in Tenant, NEW legs \in Request,
           CreateTransaction(t, legs)
    PROVE  RowsOwned' /\ TransactionsBalance' /\ BooksBalance'
<1>1. TypeOK /\ RowsOwned /\ TransactionsBalance /\ BooksBalance
  BY DEF LedgerInv
<1> PICK n, new : Extends(t, n, new)
  BY <1>1, Posted
<1>2. /\ DOMAIN postings' = DOMAIN postings \cup new
      /\ DOMAIN postings \cap new = {}
      /\ \A i \in DOMAIN postings : postings'[i] = postings[i]
      /\ \A i \in new : postings'[i].tenant = t /\ postings'[i].transaction = n
  BY DEF Extends
<1>3. /\ DOMAIN transactions' = DOMAIN transactions \cup {n}
      /\ n \notin DOMAIN transactions
      /\ \A m \in DOMAIN transactions : transactions'[m] = transactions[m]
      /\ transactions'[n] = t
  BY DEF Extends
<1>4. /\ Sum(postings', new, "debit") = Sum(postings', new, "credit")
      /\ Side(postings', new, "debit") # {}
  BY DEF Extends
<1>5. \A rows \in SUBSET DOMAIN postings, d \in {"debit", "credit"} :
        /\ Side(postings', rows, d) = Side(postings, rows, d)
        /\ Sum(postings', rows, d) = Sum(postings, rows, d)
  BY <1>1, EarlierSums
<1>6. TypeOK'
  BY <1>1, TypeStep DEF Next
<1>7. \A i \in DOMAIN postings : postings[i].transaction \in DOMAIN transactions
  BY <1>1 DEF TypeOK
<1>8. RowsOwned'
  BY <1>1, <1>2, <1>3, <1>7 DEF RowsOwned
<1>9. ASSUME NEW m \in DOMAIN transactions'
      PROVE  /\ Sum(postings', RowsOfTransaction(m)', "debit") =
                  Sum(postings', RowsOfTransaction(m)', "credit")
             /\ Side(postings', RowsOfTransaction(m)', "debit") # {}
  <2>1. CASE m \in DOMAIN transactions
    <3>1. RowsOfTransaction(m)' = RowsOfTransaction(m)
      BY <1>2, <1>3, <2>1 DEF RowsOfTransaction
    <3>2. RowsOfTransaction(m) \in SUBSET DOMAIN postings
      BY DEF RowsOfTransaction
    <3>3. QED
      BY <1>1, <1>5, <2>1, <3>1, <3>2 DEF TransactionsBalance
  <2>2. CASE m = n
    <3>1. RowsOfTransaction(m)' = new
      BY <1>2, <1>3, <1>7, <2>2 DEF RowsOfTransaction
    <3>2. QED
      BY <1>4, <3>1
  <2>3. QED
    BY <1>3, <2>1, <2>2
<1>10. ASSUME NEW u \in Tenant
       PROVE  Sum(postings', RowsOf(u)', "debit") = Sum(postings', RowsOf(u)', "credit")
  <2>1. RowsOf(u) \in SUBSET DOMAIN postings
    BY DEF RowsOf
  <2>2. /\ Sum(postings', RowsOf(u), "debit") = Sum(postings, RowsOf(u), "debit")
        /\ Sum(postings', RowsOf(u), "credit") = Sum(postings, RowsOf(u), "credit")
    BY <1>5, <2>1
  <2>3. Sum(postings', RowsOf(u), "debit") = Sum(postings', RowsOf(u), "credit")
    BY <1>1, <2>2 DEF BooksBalance
  <2>4. CASE u # t
    <3>1. RowsOf(u)' = RowsOf(u)
      BY <1>2, <2>4 DEF RowsOf
    <3>2. QED
      BY <2>3, <3>1
  <2>5. CASE u = t
    <3>1. RowsOf(u)' = RowsOf(u) \cup new
      BY <1>2, <2>5 DEF RowsOf
    <3>2. RowsOf(u) \cap new = {}
      BY <1>2, <2>1
    <3>3. /\ postings' \in Seq(Posting)
          /\ \A i \in DOMAIN postings' : postings'[i].amount > 0
      BY <1>6 DEF TypeOK
    <3>4. /\ RowsOf(u) \in SUBSET DOMAIN postings'
          /\ new \in SUBSET DOMAIN postings'
      BY <1>2, <2>1
    <3>5. \A d : Sum(postings', RowsOf(u) \cup new, d) =
                   Sum(postings', RowsOf(u), d) + Sum(postings', new, d)
      BY <3>2, <3>3, <3>4, SumOfParts
    <3>6. QED
      BY <1>4, <2>3, <3>1, <3>5
  <2>6. QED
    BY <2>4, <2>5
<1>11. TransactionsBalance' /\ BooksBalance'
  BY <1>9, <1>10 DEF TransactionsBalance, BooksBalance
<1>12. QED
  BY <1>8, <1>11

(* Every step keeps the tables well formed and the books balanced.          *)
LEMMA LedgerStep == LedgerInv /\ [Next]_vars => LedgerInv'
<1> SUFFICES ASSUME LedgerInv, [Next]_vars
             PROVE  RowsOwned' /\ TransactionsBalance' /\ BooksBalance'
  BY TypeStep DEF LedgerInv
<1>1. ASSUME NEW t \in Tenant, NEW n \in Name, CreateAccount(t, n)
      PROVE  UNCHANGED <<transactions, postings>>
  BY <1>1 DEF CreateAccount
<1>2. ASSUME UNCHANGED <<transactions, postings>>
      PROVE  RowsOwned' /\ TransactionsBalance' /\ BooksBalance'
  BY <1>2 DEF LedgerInv, RowsOwned, TransactionsBalance, BooksBalance,
              RowsOfTransaction, RowsOf
<1>3. ASSUME NEW t \in Tenant, NEW legs \in Request, CreateTransaction(t, legs)
      PROVE  RowsOwned' /\ TransactionsBalance' /\ BooksBalance'
  BY <1>3, CreationKeepsBooks
<1>4. QED
  BY <1>1, <1>2, <1>3 DEF Next, Refuse, vars

(* The books balance initially, having no rows.                             *)
LEMMA LedgerInit == Init => LedgerInv
<1> SUFFICES ASSUME Init
             PROVE  LedgerInv
  OBVIOUS
<1>1. TypeOK
  BY EmptySeq DEF Init, TypeOK
<1>2. /\ DOMAIN postings = {} /\ DOMAIN transactions = {}
      /\ \A t : RowsOf(t) = {}
  BY EmptySeq DEF Init, RowsOf
<1>3. BooksBalance
  BY <1>2, SumEmpty DEF BooksBalance, Sum, Side
<1>4. QED
  BY <1>1, <1>2, <1>3 DEF LedgerInv, RowsOwned, TransactionsBalance

(* The tables are well formed and the books balance always.                 *)
LEMMA LedgerHolds == Spec => []LedgerInv
BY LedgerInit, LedgerStep, PTL DEF Spec

(* In every state, what a tenant is shown of its transactions adds up, and of
   the others it is shown nothing: GetTransaction selects by transaction and
   tenant, and CreateTransaction's rows passed the trigger.                 *)
THEOREM TransactionsBalanced == Spec => []EveryTransactionBalances
<1>1. ASSUME LedgerInv, NEW t \in Tenant, NEW n \in DOMAIN transactions
      PROVE  LET legs == GetTransaction(t, n).legs
             IN  /\ Sum(postings, legs, "debit") = Sum(postings, legs, "credit")
                 /\ transactions[n] = t <=> Side(postings, legs, "debit") # {}
  <2>1. CASE transactions[n] = t
    <3>1. GetTransaction(t, n).legs = RowsOfTransaction(n)
      BY <1>1, <2>1 DEF GetTransaction, RowsOf, RowsOfTransaction, LedgerInv, RowsOwned
    <3>2. QED
      BY <1>1, <2>1, <3>1 DEF LedgerInv, TransactionsBalance
  <2>2. CASE transactions[n] # t
    <3>1. GetTransaction(t, n).legs = {}
      BY <2>2 DEF GetTransaction
    <3>2. /\ Side(postings, {}, "debit") = {}
          /\ Sum(postings, {}, "debit") = Sum(postings, {}, "credit")
      BY SumEmpty DEF Sum, Side
    <3>3. QED
      BY <2>2, <3>1, <3>2
  <2>3. QED
    BY <2>1, <2>2
<1>2. LedgerInv => EveryTransactionBalances
  BY <1>1 DEF EveryTransactionBalances
<1>3. QED
  BY <1>2, LedgerHolds, PTL

-------------------------------------------------------------------------------
(* The balances.                                                            *)

(* The rows of a tenant on some accounts.                                   *)
On(t, ids) == {i \in RowsOf(t) : postings[i].account \in ids}
Net(t, ids) == Sum(postings, On(t, ids), "debit") - Sum(postings, On(t, ids), "credit")

(* The balances of some of a tenant's accounts, if it can read them, add up
   to the net of its rows on these accounts: by induction over the accounts. *)
LEMMA NetOfAccounts ==
    ASSUME TypeOK, NEW t \in Tenant, Readable(t, Own(t))
    PROVE  NetOf(t, Own(t)) = Net(t, Own(t))
<1> DEFINE own == Own(t)
           net == [id \in own |-> GetAccountBalance(t, id).net]
           Good == {ids \in SUBSET own : SumFunctionOnSet(net, ids) = Net(t, ids)}
<1>1. /\ postings \in Seq(Posting)
      /\ \A i \in DOMAIN postings : postings[i].amount > 0
  BY DEF TypeOK
<1>2. IsFiniteSet(own)
  BY LinesFinite DEF TypeOK, Own
<1>3. ASSUME NEW ids
      PROVE  /\ On(t, ids) \in SUBSET DOMAIN postings
             /\ Sum(postings, On(t, ids), "debit") \in Nat
             /\ Sum(postings, On(t, ids), "credit") \in Nat
  <2>1. On(t, ids) \in SUBSET DOMAIN postings
    BY DEF On, RowsOf
  <2>2. QED
    BY <1>1, <2>1, RowSums
<1>4. ASSUME NEW id \in own
      PROVE  net[id] = Net(t, {id}) /\ net[id] \in Int
  <2>1. {i \in RowsOf(t) : postings[i].account = id} = On(t, {id})
    BY DEF On
  <2>2. /\ Total(t, id, "debit") = Sum(postings, On(t, {id}), "debit")
        /\ Total(t, id, "credit") = Sum(postings, On(t, {id}), "credit")
    BY <2>1 DEF Total
  <2>3. GetAccountBalance(t, id).status = 200
    BY DEF Readable
  <2>4. GetAccountBalance(t, id).net = Total(t, id, "debit") - Total(t, id, "credit")
    BY <2>3 DEF GetAccountBalance
  <2>5. QED
    BY <1>3, <2>2, <2>4 DEF Net
<1>5. ASSUME NEW ids \in SUBSET own, \A fewer \in SUBSET ids : fewer # ids => fewer \in Good
      PROVE  ids \in Good
  <2>1. CASE ids = {}
    <3>1. On(t, {}) = {}
      BY DEF On
    <3>2. Net(t, {}) = 0
      BY <3>1, SumEmpty DEF Net, Sum, Side
    <3>3. QED
      BY <2>1, <3>2, SumEmpty
  <2>2. CASE ids # {}
    <3>1. PICK id \in ids : TRUE
      BY <2>2
    <3>2. SumFunctionOnSet(net, ids \ {id}) = Net(t, ids \ {id})
      BY <1>5
    <3>3. SumFunctionOnSet(net, ids) = net[id] + SumFunctionOnSet(net, ids \ {id})
      <4>1. IsFiniteSet(ids) /\ \A x \in ids : net[x] \in Int
        BY <1>2, <1>4, FS_Subset
      <4> HIDE DEF net
      <4>2. QED
        BY <4>1, SumRemove
    <3>4. /\ On(t, ids) = On(t, {id}) \cup On(t, ids \ {id})
          /\ On(t, {id}) \cap On(t, ids \ {id}) = {}
      BY DEF On
    <3>5. \A d : Sum(postings, On(t, ids), d) =
                   Sum(postings, On(t, {id}), d) + Sum(postings, On(t, ids \ {id}), d)
      <4> DEFINE one == On(t, {id})
                 rest == On(t, ids \ {id})
      <4>1. /\ one \in SUBSET DOMAIN postings /\ rest \in SUBSET DOMAIN postings
            /\ On(t, ids) = one \cup rest /\ one \cap rest = {}
        BY <1>3, <3>4
      <4> HIDE DEF one, rest
      <4>2. \A d : Sum(postings, one \cup rest, d) =
                     Sum(postings, one, d) + Sum(postings, rest, d)
        BY <1>1, <4>1, SumOfParts
      <4>3. QED
        BY <4>1, <4>2 DEF one, rest
    <3>6. Net(t, ids) = Net(t, {id}) + Net(t, ids \ {id})
      BY <1>3, <3>5 DEF Net
    <3>7. QED
      BY <1>4, <3>2, <3>3, <3>6
  <2>3. QED
    BY <2>1, <2>2
<1>6. Good = SUBSET own
  <2>1. \A ids \in SUBSET own :
          (\A fewer \in SUBSET ids : fewer # ids => fewer \in Good) => ids \in Good
    BY <1>5
  <2>2. Good \in SUBSET SUBSET own
    OBVIOUS
  <2> HIDE DEF Good
  <2>3. QED
    BY <1>2, <2>1, <2>2, SubsetsInduction
<1>7. SumFunctionOnSet(net, own) = Net(t, own)
  BY <1>6
<1>8. NetOf(t, own) = SumFunctionOnSet(net, own)
  BY DEF NetOf, SumFunction, SumFunctionOnSet
<1>9. QED
  BY <1>7, <1>8

(* In every state, the balances a tenant can read sum to zero: all rows of the
   tenant are on accounts of its own, and together they balance.            *)
THEOREM OwnBooksBalanced == Spec => []OwnBooksBalance
<1>1. ASSUME LedgerInv, NEW t \in Tenant,
             \A i \in DOMAIN postings :
                postings[i].tenant = t => postings[i].account \in Own(t),
             Readable(t, Own(t))
      PROVE  NetOf(t, Own(t)) = 0
  <2>1. NetOf(t, Own(t)) = Net(t, Own(t))
    BY <1>1, NetOfAccounts DEF LedgerInv
  <2>2. On(t, Own(t)) = RowsOf(t)
    BY <1>1 DEF On, RowsOf
  <2>3. Sum(postings, RowsOf(t), "debit") \in Nat
    BY <1>1, RowSums DEF LedgerInv, TypeOK, RowsOf
  <2>4. QED
    BY <1>1, <2>1, <2>2, <2>3 DEF LedgerInv, BooksBalance, Net
<1>2. LedgerInv => OwnBooksBalance
  BY <1>1 DEF OwnBooksBalance
<1>3. QED
  BY <1>2, LedgerHolds, PTL

(* What a tenant reads of an account stays as it is while no transaction of
   the tenant is created: a new transaction of another tenant adds no row of
   this one, and the balances are read from the tenant's rows only.         *)
THEOREM TenantsIsolated == Spec => TenantIsolation
<1>1. ASSUME TypeOK, Next, NEW t \in Tenant,
             TransactionsOf(t)' = TransactionsOf(t), NEW id \in DOMAIN accounts
      PROVE  GetAccountBalance(t, id)' = GetAccountBalance(t, id)
  <2>1. SUFFICES /\ accounts'[id].tenant = accounts[id].tenant
                 /\ Total(t, id, "debit")' = Total(t, id, "debit")
                 /\ Total(t, id, "credit")' = Total(t, id, "credit")
    BY DEF GetAccountBalance
  <2>2. ASSUME NEW u \in Tenant, NEW n \in Name, CreateAccount(u, n)
        PROVE  /\ accounts'[id].tenant = accounts[id].tenant
               /\ Total(t, id, "debit")' = Total(t, id, "debit")
               /\ Total(t, id, "credit")' = Total(t, id, "credit")
    <3> DEFINE account == [tenant |-> u, name |-> n]
    <3>1. /\ accounts' = Append(accounts, account)
          /\ UNCHANGED postings
      BY <2>2 DEF CreateAccount
    <3>2. account \in [tenant : Tenant, name : Name]
      OBVIOUS
    <3> HIDE DEF account
    <3>3. accounts'[id] = accounts[id]
      BY <1>1, <3>1, <3>2, AppendProperties, LenProperties DEF TypeOK
    <3>4. QED
      BY <3>1, <3>3 DEF Total, RowsOf
  <2>3. ASSUME NEW u \in Tenant, NEW legs \in Request, CreateTransaction(u, legs)
        PROVE  /\ accounts'[id].tenant = accounts[id].tenant
               /\ Total(t, id, "debit")' = Total(t, id, "debit")
               /\ Total(t, id, "credit")' = Total(t, id, "credit")
    <3> DEFINE rows == {i \in RowsOf(t) : postings[i].account = id}
    <3>1. PICK n, new : Extends(u, n, new)
      BY <1>1, <2>3, Posted
    <3>2. u # t
      BY <1>1, <3>1 DEF Extends, TransactionsOf
    <3>3. RowsOf(t)' = RowsOf(t)
      BY <3>1, <3>2 DEF Extends, RowsOf
    <3>4. {i \in RowsOf(t)' : postings'[i].account = id} = rows
      BY <3>1, <3>3 DEF Extends, RowsOf
    <3>5. rows \in SUBSET DOMAIN postings
      BY DEF RowsOf
    <3>6. /\ Sum(postings', rows, "debit") = Sum(postings, rows, "debit")
          /\ Sum(postings', rows, "credit") = Sum(postings, rows, "credit")
      <4> HIDE DEF rows
      <4>1. QED
        BY <1>1, <2>3, <3>5, EarlierSums
    <3>7. accounts' = accounts
      BY <2>3 DEF CreateTransaction
    <3>8. QED
      BY <3>4, <3>6, <3>7 DEF Total
  <2>4. CASE UNCHANGED vars
    BY <2>4 DEF vars, Total, RowsOf
  <2>5. QED
    BY <1>1, <2>2, <2>3, <2>4 DEF Next, Refuse
<1>2. TypeOK /\ [Next]_vars =>
        [\A t \in Tenant : TransactionsOf(t)' = TransactionsOf(t) =>
            \A id \in DOMAIN accounts :
                GetAccountBalance(t, id)' = GetAccountBalance(t, id)]_vars
  BY <1>1
<1>3. QED
  BY <1>2, TypeCorrect, PTL DEF Spec, TenantIsolation

-------------------------------------------------------------------------------
(* The arithmetic of the two checks.                                        *)

(* Division with remainder.                                                 *)
Divides(size, n, q, r) == n = size * q + r

LEMMA DivisionOfNumbers ==
    ASSUME NEW size \in Nat \ {0}
    PROVE  \A n \in Nat : \E q \in Nat, r \in 0..(size - 1) : Divides(size, n, q, r)
<1> DEFINE S == {n \in Nat : \E q \in Nat, r \in 0..(size - 1) : Divides(size, n, q, r)}
<1>1. 0 \in S
  <2>1. Divides(size, 0, 0, 0) /\ 0 \in 0..(size - 1)
    BY DEF Divides
  <2>2. QED
    BY <2>1
<1>2. ASSUME NEW n \in S
      PROVE  n + 1 \in S
  <2>1. PICK q \in Nat, r \in 0..(size - 1) : Divides(size, n, q, r)
    OBVIOUS
  <2>2. CASE r + 1 < size
    <3>1. Divides(size, n + 1, q, r + 1) /\ r + 1 \in 0..(size - 1)
      BY <2>1, <2>2 DEF Divides
    <3>2. QED
      BY <3>1
  <2>3. CASE r + 1 = size
    <3>1. size * (q + 1) = size * q + size
      OBVIOUS
    <3>2. Divides(size, n + 1, q + 1, 0) /\ 0 \in 0..(size - 1) /\ q + 1 \in Nat
      BY <2>1, <2>3, <3>1 DEF Divides
    <3>3. QED
      BY <3>2
  <2>4. QED
    BY <2>2, <2>3
<1>3. S = Nat
  <2> HIDE DEF S
  <2>1. S \in SUBSET Nat
    BY DEF S
  <2>2. QED
    BY <1>1, <1>2, <2>1, NumbersInduction
<1>4. QED
  BY <1>3

(* The same for negative numbers.                                           *)
LEMMA Division ==
    ASSUME NEW size \in Nat \ {0}, NEW n \in Int
    PROVE  \E q \in Int, r \in 0..(size - 1) : Divides(size, n, q, r)
<1>1. CASE n \in Nat
  BY <1>1, DivisionOfNumbers
<1>2. CASE n \notin Nat
  <2>1. -n - 1 \in Nat
    BY <1>2
  <2>2. PICK q \in Nat, r \in 0..(size - 1) : Divides(size, -n - 1, q, r)
    BY <2>1, DivisionOfNumbers
  <2>3. size * (-q - 1) = -(size * q) - size
    OBVIOUS
  <2>4. Divides(size, n, -q - 1, size - 1 - r)
    BY <2>2, <2>3 DEF Divides
  <2>5. size - 1 - r \in 0..(size - 1) /\ -q - 1 \in Int
    OBVIOUS
  <2>6. QED
    BY <2>4, <2>5
<1>3. QED
  BY <1>1, <1>2

(* The remainder is the one of a division.                                  *)
LEMMA Remainder ==
    ASSUME NEW size \in Nat \ {0}, NEW q \in Int, NEW r \in 0..(size - 1)
    PROVE  (size * q + r) % size = r
OBVIOUS

(* Wrapping subtracts a multiple of the number of integers there are.       *)
LEMMA Wrapped ==
    ASSUME NEW n \in Int
    PROVE  \E q \in Int : /\ Wrap(n) = n - (2 * (MaxInt + 1)) * q
                          /\ Wrap(n) \in -(MaxInt + 1)..MaxInt
<1> DEFINE half == MaxInt + 1
           size == 2 * half
<1>1. half \in Nat \ {0} /\ size \in Nat \ {0} /\ size = half + half /\ MaxInt = half - 1
  BY WidthAssumption
<1> HIDE DEF size
<1>2. n + half \in Int
  BY <1>1
<1>3. PICK q \in Int, r \in 0..(size - 1) : Divides(size, n + half, q, r)
  BY <1>1, <1>2, Division
<1>4. (n + half) % size = r
  BY <1>1, <1>3, Remainder DEF Divides
<1>5. Wrap(n) = r - half
  BY <1>4, WidthAssumption DEF Wrap, size
<1>6. size * q \in Int
  BY <1>1
<1> HIDE DEF half, size
<1>7. Wrap(n) = n - size * q /\ Wrap(n) \in -half..MaxInt
  BY <1>1, <1>3, <1>5, <1>6 DEF Divides
<1>8. QED
  BY <1>7 DEF half, size

(* The integer in range that differs by such a multiple is the wrapped one.  *)
LEMMA WrapIs ==
    ASSUME NEW q \in Int, NEW x \in -(MaxInt + 1)..MaxInt
    PROVE  Wrap((2 * (MaxInt + 1)) * q + x) = x
<1> DEFINE half == MaxInt + 1
           size == 2 * half
<1>1. half \in Nat \ {0} /\ size \in Nat \ {0} /\ size = half + half /\ MaxInt = half - 1
  BY WidthAssumption
<1> HIDE DEF size
<1>2. size * q \in Int /\ x + half \in 0..(size - 1)
  BY <1>1
<1>3. (size * q + (x + half)) % size = x + half
  BY <1>1, <1>2, Remainder
<1>4. (size * q + x) + MaxInt + 1 = size * q + (x + half)
  BY <1>1, <1>2
<1>5. Wrap(size * q + x) = (x + half) - half
  BY <1>3, <1>4 DEF Wrap, size
<1>6. QED
  BY <1>1, <1>5 DEF size

(* What fits is not changed.                                                *)
LEMMA WrapFits ==
    ASSUME NEW n \in Int, Fits(n)
    PROVE  Wrap(n) = n
<1>1. n \in -(MaxInt + 1)..MaxInt /\ MaxInt \in Nat
  BY WidthAssumption DEF Fits
<1>2. Wrap((2 * (MaxInt + 1)) * 0 + n) = n
  <2>1. 0 \in Int
    OBVIOUS
  <2>2. QED
    BY Zenon, <1>1, <2>1, WrapIs
<1>3. (2 * (MaxInt + 1)) * 0 + n = n
  BY <1>1
<1>4. QED
  BY Zenon, <1>2, <1>3

(* Adding to what has wrapped wraps as the sum does.                        *)
LEMMA WrapAdds ==
    ASSUME NEW m \in Int, NEW n \in Int
    PROVE  Add(m, Wrap(n)) = Wrap(m + n)
<1> DEFINE size == 2 * (MaxInt + 1)
           x == Wrap(m + n)
<1>1. PICK q \in Int : Wrap(n) = n - size * q
  BY Wrapped
<1>2. PICK p \in Int : x = (m + n) - size * p /\ x \in -(MaxInt + 1)..MaxInt
  <2>1. m + n \in Int
    OBVIOUS
  <2>2. QED
    BY <2>1, Wrapped
<1>3. size \in Nat /\ x \in Int
  BY <1>2, WidthAssumption
<1>4. Wrap(size * (p - q) + x) = x
  BY <1>2, WrapIs
<1> HIDE DEF size, x
<1>5. size * (p - q) = size * p - size * q /\ size * p \in Int /\ size * q \in Int
  BY <1>3
<1>6. m + Wrap(n) = size * (p - q) + x
  BY <1>1, <1>2, <1>3, <1>5
<1>7. QED
  BY <1>4, <1>6 DEF Add, x

(* The recursion of a wrapped sum.                                          *)
AddUnfold(f, g, s) == IF s = {} THEN 0 ELSE Add(f[Chosen(s)], g[s \ {Chosen(s)}])

(* The wrapped sum over a finite set is the sum, wrapped once at the end: the
   wrapped sums of all subsets solve the recursion, and nothing else does.  *)
LEMMA FoldOfAdd ==
    ASSUME NEW f, NEW S, IsFiniteSet(S), \A x \in S : f[x] \in Int
    PROVE  FoldFunctionOnSet(Add, 0, f, S) = Wrap(SumFunctionOnSet(f, S))
<1> DEFINE wrapped == [s \in SUBSET S |-> Wrap(SumFunctionOnSet(f, s))]
           g == CHOOSE g : g = [s \in SUBSET S |-> AddUnfold(f, g, s)]
           Good == {s \in SUBSET S : g[s] = Wrap(SumFunctionOnSet(f, s))}
<1>1. Wrap(0) = 0
  BY WrapFits, WidthAssumption DEF Fits
<1>2. ASSUME NEW s \in SUBSET S, s # {}
      PROVE  /\ Chosen(s) \in s
             /\ Wrap(SumFunctionOnSet(f, s)) =
                  Add(f[Chosen(s)], Wrap(SumFunctionOnSet(f, s \ {Chosen(s)})))
  <2>1. IsFiniteSet(s)
    BY FS_Subset
  <2>2. Chosen(s) \in s
        /\ SumFunctionOnSet(f, s) = f[Chosen(s)] + SumFunctionOnSet(f, s \ {Chosen(s)})
    BY <1>2, <2>1, SumUnfolds
  <2>3. f[Chosen(s)] \in Int /\ SumFunctionOnSet(f, s \ {Chosen(s)}) \in Int
    BY <2>1, <2>2, FS_RemoveElement, SumInt
  <2>4. QED
    BY <2>2, <2>3, WrapAdds
<1>3. \A s \in SUBSET S : wrapped[s] = AddUnfold(f, wrapped, s)
  <2>1. ASSUME NEW s \in SUBSET S, s # {}
        PROVE  wrapped[s] = AddUnfold(f, wrapped, s)
    <3>1. wrapped[s \ {Chosen(s)}] = Wrap(SumFunctionOnSet(f, s \ {Chosen(s)}))
      OBVIOUS
    <3>2. QED
      BY <1>2, <2>1, <3>1 DEF AddUnfold
  <2>2. wrapped[{}] = AddUnfold(f, wrapped, {})
    BY <1>1, SumEmpty DEF AddUnfold
  <2> HIDE DEF wrapped
  <2>3. QED
    BY <2>1, <2>2
<1>4. wrapped = [s \in SUBSET S |-> AddUnfold(f, wrapped, s)]
  BY <1>3
<1>5. g = [s \in SUBSET S |-> AddUnfold(f, g, s)]
  <2> HIDE DEF wrapped
  <2>1. \E h : h = [s \in SUBSET S |-> AddUnfold(f, h, s)]
    BY <1>4
  <2>2. QED
    BY <2>1
<1>6. FoldFunctionOnSet(Add, 0, f, S) = g[S]
  BY DEF FoldFunctionOnSet, MapThenFoldSet, AddUnfold, Chosen
<1> HIDE DEF g
<1>7. ASSUME NEW s \in SUBSET S, \A r \in SUBSET s : r # s => r \in Good
      PROVE  s \in Good
  <2>1. g[s] = AddUnfold(f, g, s)
    BY <1>5
  <2>2. CASE s = {}
    BY <1>1, <2>1, <2>2, SumEmpty DEF AddUnfold
  <2>3. CASE s # {}
    <3>1. Chosen(s) \in s
      BY <1>2, <2>3
    <3>2. g[s \ {Chosen(s)}] = Wrap(SumFunctionOnSet(f, s \ {Chosen(s)}))
      BY <1>7, <3>1
    <3>3. g[s] = Add(f[Chosen(s)], g[s \ {Chosen(s)}])
      BY <2>1, <2>3 DEF AddUnfold
    <3>4. QED
      BY <1>2, <2>3, <3>2, <3>3
  <2>4. QED
    BY <2>2, <2>3
<1>8. Good = SUBSET S
  <2>1. \A s \in SUBSET S : (\A r \in SUBSET s : r # s => r \in Good) => s \in Good
    BY <1>7
  <2>2. Good \in SUBSET SUBSET S
    OBVIOUS
  <2> HIDE DEF Good
  <2>3. QED
    BY <2>1, <2>2, SubsetsInduction
<1>9. QED
  BY <1>6, <1>8

(* The sums in the handler and the service, which add in int64, are the exact
   sums wrapped, whatever wrapped on the way.                               *)
THEOREM WrappedSums ==
    ASSUME NEW legs \in Seq(Leg), NEW d
    PROVE  /\ WrappedSum(legs, d) = Wrap(Sum(legs, DOMAIN legs, d))
           /\ Sum(legs, DOMAIN legs, d) \in Int
<1> DEFINE side == Side(legs, DOMAIN legs, d)
<1>1. side \in SUBSET DOMAIN legs
  BY DEF Side
<1>2. IsFiniteSet(side)
  BY <1>1, LinesFinite
<1>3. ASSUME NEW i \in side
      PROVE  Amounts(legs)[i] \in Int
  <2>1. legs[i] \in Leg
    BY <1>1, ElementOfSeq, LenProperties
  <2>2. QED
    BY <1>1, <2>1 DEF Amounts, Leg
<1> HIDE DEF side
<1>4. /\ FoldFunctionOnSet(Add, 0, Amounts(legs), side) =
           Wrap(SumFunctionOnSet(Amounts(legs), side))
      /\ SumFunctionOnSet(Amounts(legs), side) \in Int
  BY <1>2, <1>3, FoldOfAdd, SumInt
<1>5. QED
  BY <1>4 DEF WrappedSum, Sum, side

(* The trigger asks for exactly what the handler and the service ask for, and
   that both sums fit a BIGINT: a request whose int64 sums agree is refused by
   the trigger only if one of its exact sums is out of range, and none that
   the trigger accepts would have been refused by the other two.            *)
THEOREM TriggerAddsRange ==
    ASSUME NEW legs \in Seq(Leg)
    PROVE  CheckTransactionBalance(legs) <=>
             /\ WrappedSum(legs, "debit") = WrappedSum(legs, "credit")
             /\ Fits(Sum(legs, DOMAIN legs, "debit"))
             /\ Fits(Sum(legs, DOMAIN legs, "credit"))
<1>1. \A d : /\ WrappedSum(legs, d) = Wrap(Sum(legs, DOMAIN legs, d))
             /\ Sum(legs, DOMAIN legs, d) \in Int
  BY WrappedSums
<1>2. QED
  BY <1>1, WrapFits DEF CheckTransactionBalance
===============================================================================
