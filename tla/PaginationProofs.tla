--------------------------- MODULE PaginationProofs ----------------------------
(***************************************************************************)
(* Proofs about Pagination, for any rows, page size and lead of the first  *)
(* cursor: what a client is shown of each of the three listings while rows *)
(* are inserted and committed.                                             *)
(***************************************************************************)
EXTENDS Pagination, FiniteSetTheorems, FunctionTheorems, SequenceTheorems, TLAPS

-------------------------------------------------------------------------------
(* The invariant.                                                           *)

Seen(r) == \E i \in DOMAIN shown : shown[i] = r

(* An id is unique and there from the INSERT on; a row began in the past.   *)
Numbered == {r \in Row : id[r] # 0}
RowInv ==
    /\ lastId = Cardinality(Numbered)
    /\ \A r \in Row :
          /\ id[r] <= lastId
          /\ state[r] \in {"new", "begun"} => id[r] = 0
          /\ state[r] \in {"written", "committed"} => id[r] # 0
          /\ state[r] # "new" => at[r] <= clock
    /\ \A r, s \in Numbered : r # s => id[r] # id[s]

(* What is shown, and what was there when the walk began, is committed.     *)
WalkInv ==
    /\ initial \subseteq Committed
    /\ \A i \in DOMAIN shown : shown[i] \in Committed
    /\ walk = "idle" => initial = {} /\ shown = <<>>

(* Accounts are shown by increasing id, up to the cursor, by full pages of which
   the last one ends at the cursor; none that was there is left behind.     *)
WholePages == \E pages \in 0..Len(shown) : Len(shown) = pages * PageSize
CursorEndsPage ==
    cursor = 0 \/ \E i \in DOMAIN shown : i % PageSize = 0 /\ id[shown[i]] = cursor
AccountsInv ==
    /\ InOrder
    /\ walk = "walking" =>
          /\ \A i \in DOMAIN shown : id[shown[i]] <= cursor
          /\ WholePages /\ CursorEndsPage
    /\ \A r \in initial : Seen(r) \/ (walk = "walking" /\ id[r] > cursor)

(* Transactions are shown by full pages while the walk goes on, down to the
   cursor; one that was there comes later, or ties with the end of a page.  *)
TiesWithPageEnd(r) ==
    \E i \in DOMAIN shown : i % PageSize = 0 /\ at[shown[i]] = at[r]
TransactionsInv ==
    /\ \A i, j \in DOMAIN shown : i < j => shown[i] # shown[j]
    /\ walk = "walking" =>
          /\ WholePages /\ \A i \in DOMAIN shown : at[shown[i]] >= cursor
    /\ \A r \in initial :
          Seen(r) \/ TiesWithPageEnd(r) \/ (walk = "walking" /\ at[r] < cursor)

(* The place of a row in the listing of the postings, if there are no ties.
   It grows when other rows commit; a row that was there is shown or comes
   after the offset, and if none came later each is shown at its place.     *)
Rank(r) == Cardinality({s \in Committed : at[s] > at[r]})
PostingsInv ==
    /\ walk = "walking" => cursor = Len(shown)
    /\ ~Ties =>
          /\ \A r \in initial : Seen(r) \/ (walk = "walking" /\ Rank(r) >= cursor)
          /\ Committed \subseteq initial =>
                \A i \in DOMAIN shown : Rank(shown[i]) = i - 1

ListingInv ==
    /\ listing = "accounts" => AccountsInv
    /\ listing = "transactions" => TransactionsInv
    /\ listing = "postings" => PostingsInv

PageInv == TypeOK /\ RowInv /\ WalkInv /\ ListingInv

-------------------------------------------------------------------------------
(* Pages.                                                                   *)

Answer == {r \in Committed : Matching(r)}

(* The page p is what LIMIT and OFFSET leave of the ordered answer s.       *)
PageOf(s, offset, p) ==
    LET N == Cardinality(Answer)
    IN  /\ s \in [1..N -> Answer]
        /\ \A i, j \in 1..N : s[i] = s[j] => i = j
        /\ \A r \in Answer : \E i \in 1..N : s[i] = r
        /\ \A i, j \in 1..N : i < j => ~Before(s[j], s[i])
        /\ p \in Seq(Answer) /\ Len(p) <= PageSize
        /\ \A i \in 1..Len(p) : offset + i \in 1..N /\ p[i] = s[offset + i]
        /\ \A k \in 1..N :
              k > offset => k - offset \in 1..Len(p) \/ Len(p) = PageSize

(* The answer is finite.                                                    *)
LEMMA AnswerFinite == IsFiniteSet(Committed) /\ IsFiniteSet(Answer)
                      /\ Cardinality(Answer) \in Nat
<1>1. Committed \in SUBSET Row /\ Answer \in SUBSET Row
  BY DEF Committed, Answer
<1>2. QED
  BY <1>1, RowAssumption, FS_Subset, FS_CardinalityType

(* Every page is one of an ordered answer.                                  *)
LEMMA PagesOrdered ==
    ASSUME NEW offset \in Nat, NEW p \in PagesFrom(offset)
    PROVE  \E s : PageOf(s, offset, p)
<1> DEFINE N == Cardinality(Answer)
<1>1. PICK s \in Orderings(Answer) :
        p = SubSeq(s, offset + 1, IF Len(s) < offset + PageSize THEN Len(s)
                                  ELSE offset + PageSize)
  BY DEF PagesFrom, Answer
<1>2. /\ s \in [1..N -> Answer] /\ DOMAIN s = 1..N /\ N \in Nat
      /\ \A i, j \in 1..N : s[i] = s[j] => i = j
      /\ \A r \in Answer : \E i \in 1..N : s[i] = r
      /\ \A i, j \in 1..N : i < j => ~Before(s[j], s[i])
  BY AnswerFinite DEF Orderings, Bijection, Injection, Surjection, IsInjective
<1> HIDE DEF N
<1>3. Len(s) = N
  <2>1. s \in Seq(Answer)
    BY <1>2, SeqDef
  <2>2. DOMAIN s = 1..Len(s) /\ Len(s) \in Nat
    BY <2>1, LenProperties
  <2>3. QED
    BY <1>2, <2>2
<1> DEFINE last == IF N < offset + PageSize THEN N ELSE offset + PageSize
<1>4. /\ last \in Nat /\ last <= N /\ last <= offset + PageSize
      /\ last # N => last = offset + PageSize
  BY <1>2, SizeAssumption
<1>5. p = SubSeq(s, offset + 1, last)
  BY <1>1, <1>3
<1> HIDE DEF last
<1>6. \A i \in (offset + 1)..last : i \in 1..N /\ s[i] \in Answer
  BY <1>2, <1>4
<1>7. /\ p \in Seq(Answer)
      /\ Len(p) = IF offset + 1 <= last THEN last - offset ELSE 0
      /\ \A i \in 1..(last - offset) : p[i] = s[offset + i]
  <2>1. /\ p \in Seq(Answer)
        /\ Len(p) = IF offset + 1 <= last THEN last - (offset + 1) + 1 ELSE 0
        /\ \A i \in 1..(last - (offset + 1) + 1) : p[i] = s[offset + 1 + i - 1]
    <3>1. offset + 1 \in Int /\ last \in Int
      BY <1>4
    <3>2. \A i \in (offset + 1)..last : s[i] \in Answer
      BY <1>6
    <3>3. QED
      BY <1>5, <3>1, <3>2, SubSeqProperties
  <2>2. last - (offset + 1) + 1 = last - offset
    BY <1>4
  <2>3. \A i \in Int : offset + 1 + i - 1 = offset + i
    OBVIOUS
  <2>4. QED
    BY <2>1, <2>2, <2>3
<1>8. Len(p) <= PageSize
  BY <1>4, <1>7, SizeAssumption
<1>9. ASSUME NEW i \in 1..Len(p)
      PROVE  offset + i \in 1..N /\ p[i] = s[offset + i]
  <2>1. i \in 1..(last - offset)
    BY <1>4, <1>7
  <2>2. offset + i \in 1..N
    BY <1>2, <1>4, <2>1
  <2>3. QED
    BY <1>7, <2>1, <2>2
<1>10. \A k \in 1..N :
         k > offset => k - offset \in 1..Len(p) \/ Len(p) = PageSize
  BY <1>2, <1>4, <1>7, SizeAssumption
<1>11. PageOf(s, offset, p)
  BY <1>2, <1>7, <1>8, <1>9, <1>10 DEF PageOf, N
<1>12. QED
  BY <1>11

(* A page without an offset: in order, no row twice, and a row of the answer
   that is not on it does not come before its last row.                     *)
LEMMA FirstPage ==
    ASSUME NEW p \in PagesFrom(0)
    PROVE  /\ p \in Seq(Answer) /\ Len(p) \in 0..PageSize
           /\ \A i, j \in 1..Len(p) : i < j => p[i] # p[j] /\ ~Before(p[j], p[i])
           /\ \A r \in Answer :
                 \/ \E i \in 1..Len(p) : p[i] = r
                 \/ Len(p) = PageSize /\ ~Before(r, p[PageSize])
<1>1. PICK s : PageOf(s, 0, p)
  BY PagesOrdered
<1> DEFINE N == Cardinality(Answer)
<1>2. p \in Seq(Answer) /\ Len(p) \in 0..PageSize
  BY <1>1, LenProperties, SizeAssumption DEF PageOf
<1>3. \A i \in 1..Len(p) : i \in 1..N /\ p[i] = s[i]
  BY <1>1, <1>2 DEF PageOf
<1>4. \A i, j \in 1..Len(p) : i < j => p[i] # p[j] /\ ~Before(p[j], p[i])
  BY <1>1, <1>3 DEF PageOf
<1>5. ASSUME NEW r \in Answer
      PROVE  \/ \E i \in 1..Len(p) : p[i] = r
             \/ Len(p) = PageSize /\ ~Before(r, p[PageSize])
  <2>1. PICK k \in 1..N : s[k] = r
    BY <1>1 DEF PageOf
  <2>2. CASE k \in 1..Len(p)
    BY <1>3, <2>1, <2>2
  <2>3. CASE k \notin 1..Len(p)
    <3>1. Len(p) = PageSize
      BY <1>1, <2>3, AnswerFinite DEF PageOf
    <3>2. PageSize \in 1..N /\ p[PageSize] = s[PageSize] /\ PageSize < k
      BY <1>3, <2>3, <3>1, AnswerFinite, SizeAssumption
    <3>3. QED
      BY <1>1, <2>1, <3>1, <3>2 DEF PageOf
  <2>4. QED
    BY <2>2, <2>3
<1>6. QED
  BY <1>2, <1>4, <1>5

-------------------------------------------------------------------------------
(* The rows.                                                                *)

(* The invariant of the rows depends on the tables only.                    *)
LEMMA RowsStay ==
    ASSUME RowInv, UNCHANGED tableVars
    PROVE  RowInv' /\ Committed' = Committed
BY DEF RowInv, tableVars, Numbered, Committed

(* The database's clock.                                                    *)
LEMMA TickKeepsRows ==
    ASSUME TypeOK, RowInv, Tick
    PROVE  TypeOK' /\ RowInv'
<1>1. /\ clock' = clock + 1 /\ clock < MaxClock
      /\ UNCHANGED <<state, at, id, lastId, walkVars>>
  BY DEF Tick
<1>2. TypeOK'
  BY <1>1, SizeAssumption DEF TypeOK, walkVars
<1>3. Numbered' = Numbered
  BY <1>1 DEF Numbered
<1>4. QED
  BY <1>1, <1>2, <1>3 DEF TypeOK, RowInv

(* A row gets its time when its transaction begins.                         *)
LEMMA BeginKeepsRows ==
    ASSUME TypeOK, RowInv, NEW r \in Row, Begin(r)
    PROVE  TypeOK' /\ RowInv'
<1>1. /\ state[r] = "new"
      /\ state' = [state EXCEPT ![r] = "begun"]
      /\ at' = [at EXCEPT ![r] = clock]
      /\ UNCHANGED <<clock, id, lastId, walkVars>>
  BY DEF Begin
<1>2. TypeOK'
  BY <1>1 DEF TypeOK, walkVars
<1>3. Numbered' = Numbered
  BY <1>1 DEF Numbered
<1>4. \A q \in Row : /\ q # r => state'[q] = state[q] /\ at'[q] = at[q]
                     /\ state'[r] = "begun" /\ at'[r] = clock
  BY <1>1 DEF TypeOK
<1>5. QED
  BY <1>1, <1>2, <1>3, <1>4 DEF TypeOK, RowInv

(* A row gets the next number when it is inserted; there are no more numbers
   than rows.                                                               *)
LEMMA InsertKeepsRows ==
    ASSUME TypeOK, RowInv, NEW r \in Row, Insert(r)
    PROVE  TypeOK' /\ RowInv'
<1>1. /\ state[r] = "begun"
      /\ state' = [state EXCEPT ![r] = "written"]
      /\ lastId' = lastId + 1
      /\ id' = [id EXCEPT ![r] = lastId + 1]
      /\ UNCHANGED <<clock, at, walkVars>>
  BY DEF Insert
<1>2. lastId \in Nat
  BY DEF TypeOK
<1>3. \A q \in Row : /\ q # r => state'[q] = state[q] /\ id'[q] = id[q]
                     /\ state'[r] = "written" /\ id'[r] = lastId + 1
  BY <1>1 DEF TypeOK
<1>4. Numbered' = Numbered \cup {r}
  BY <1>2, <1>3 DEF Numbered
<1>5. r \notin Numbered
  BY <1>1 DEF RowInv, Numbered
<1>6. Numbered \in SUBSET Row /\ IsFiniteSet(Numbered)
  BY RowAssumption, FS_Subset DEF Numbered
<1>7. lastId' = Cardinality(Numbered')
  BY <1>1, <1>4, <1>5, <1>6, FS_AddElement DEF RowInv
<1>8. lastId' <= Cardinality(Row)
  <2>1. Numbered' \in SUBSET Row
    BY <1>4, <1>6
  <2>2. QED
    BY <1>7, <2>1, RowAssumption, FS_Subset
<1>9. TypeOK'
  <2>1. Cardinality(Row) \in Nat
    BY RowAssumption, FS_CardinalityType
  <2>2. lastId + 1 \in 0..Cardinality(Row)
    BY <1>1, <1>2, <1>8, <2>1
  <2>3. QED
    BY <1>1, <2>2 DEF TypeOK, walkVars
<1>10. ASSUME NEW q \in Row
       PROVE  /\ id'[q] <= lastId'
              /\ state'[q] \in {"new", "begun"} => id'[q] = 0
              /\ state'[q] \in {"written", "committed"} => id'[q] # 0
              /\ state'[q] # "new" => at'[q] <= clock'
  <2>1. id[q] \in Nat
    BY DEF TypeOK
  <2>2. QED
    BY <1>1, <1>2, <1>3, <2>1 DEF RowInv
<1>11. ASSUME NEW p \in Numbered', NEW q \in Numbered', p # q
       PROVE  id'[p] # id'[q]
  <2>1. \A x \in Numbered : x # r /\ id'[x] = id[x] /\ id[x] \in Nat /\ id[x] <= lastId
    BY <1>3, <1>5, <1>6 DEF RowInv, TypeOK
  <2>2. QED
    BY <1>2, <1>3, <1>4, <1>11, <2>1 DEF RowInv
<1>12. QED
  BY <1>7, <1>9, <1>10, <1>11 DEF RowInv

(* A row keeps its time and number whatever becomes of its transaction.     *)
LEMMA EndKeepsRows ==
    ASSUME TypeOK, RowInv, NEW r \in Row, CommitRow(r) \/ Abort(r)
    PROVE  TypeOK' /\ RowInv'
<1>1. PICK s \in {"committed", "aborted"} :
        /\ state' = [state EXCEPT ![r] = s]
        /\ s = "committed" => state[r] = "written"
        /\ state[r] # "new"
        /\ UNCHANGED <<clock, at, id, lastId, walkVars>>
  BY DEF CommitRow, Abort
<1>2. TypeOK'
  BY <1>1 DEF TypeOK, walkVars
<1>3. Numbered' = Numbered
  BY <1>1 DEF Numbered
<1>4. \A q \in Row : (q # r => state'[q] = state[q]) /\ state'[r] = s
  BY <1>1 DEF TypeOK
<1>5. QED
  BY <1>1, <1>2, <1>3, <1>4 DEF RowInv

-------------------------------------------------------------------------------
(* The insertions do not disturb the walk.                                  *)

(* Insertions do nothing to the rows that are seen, but there may be more.   *)
SeenStay ==
    /\ UNCHANGED walkVars
    /\ Committed \subseteq Committed'
    /\ \A r \in Committed : at'[r] = at[r] /\ id'[r] = id[r]

(* So do the clock and each insertion.                                      *)
LEMMA InsertionsKeepSeen ==
    ASSUME TypeOK, Tick \/ \E r \in Row : Begin(r) \/ Insert(r) \/ CommitRow(r) \/ Abort(r)
    PROVE  SeenStay
<1>1. CASE Tick
  BY <1>1 DEF Tick, SeenStay, Committed
<1>2. ASSUME NEW r \in Row, Begin(r) \/ Insert(r) \/ CommitRow(r) \/ Abort(r)
      PROVE  SeenStay
  <2>1. UNCHANGED walkVars
    BY <1>2 DEF Begin, Insert, CommitRow, Abort
  <2>2. state[r] # "committed"
    BY <1>2 DEF Begin, Insert, CommitRow, Abort
  <2>3. \A q \in Row : q # r =>
          state'[q] = state[q] /\ at'[q] = at[q] /\ id'[q] = id[q]
    BY <1>2 DEF Begin, Insert, CommitRow, Abort, TypeOK
  <2>4. QED
    BY <2>1, <2>2, <2>3 DEF SeenStay, Committed
<1>3. QED
  BY <1>1, <1>2

(* No row moves forward in the listing of the postings when others commit.  *)
LEMMA RanksGrow ==
    ASSUME TypeOK, TypeOK', SeenStay, NEW r \in Committed
    PROVE  /\ Rank(r) \in Nat /\ Rank(r)' \in Nat /\ Rank(r)' >= Rank(r)
           /\ Committed' = Committed => Rank(r)' = Rank(r)
<1> DEFINE old == {s \in Committed : at[s] > at[r]}
           new == {s \in Committed' : at'[s] > at'[r]}
<1>1. old \subseteq new /\ (Committed' = Committed => new = old)
  BY DEF SeenStay
<1>2. new \subseteq Row
  BY DEF Committed
<1>3. IsFiniteSet(new)
  BY <1>2, RowAssumption, FS_Subset
<1>4. IsFiniteSet(old) /\ Cardinality(old) <= Cardinality(new)
  BY <1>1, <1>3, FS_Subset
<1>5. Cardinality(old) \in Nat /\ Cardinality(new) \in Nat
  BY <1>3, <1>4, FS_CardinalityType
<1>6. Rank(r) = Cardinality(old) /\ Rank(r)' = Cardinality(new)
  BY DEF Rank
<1>7. QED
  BY <1>1, <1>4, <1>5, <1>6

(* Insertions keep what is known of the walk.                               *)
LEMMA InsertionsKeepWalk ==
    ASSUME TypeOK, TypeOK', WalkInv, ListingInv, SeenStay
    PROVE  WalkInv' /\ ListingInv'
<1>1. /\ UNCHANGED <<listing, walk, cursor, initial, shown>>
      /\ Committed \subseteq Committed'
      /\ \A r \in Committed : at'[r] = at[r] /\ id'[r] = id[r]
  BY DEF SeenStay, walkVars
<1>2. /\ initial \subseteq Committed
      /\ \A i \in DOMAIN shown : shown[i] \in Committed
  BY DEF WalkInv
<1>3. WalkInv'
  BY <1>1 DEF WalkInv
<1>4. \A r : Seen(r)' = Seen(r)
  BY <1>1 DEF Seen
<1>5. ASSUME AccountsInv
      PROVE  AccountsInv'
  <2>1. InOrder' /\ (WholePages => WholePages') /\ (CursorEndsPage => CursorEndsPage')
    BY <1>1, <1>2, <1>5 DEF AccountsInv, InOrder, WholePages, CursorEndsPage
  <2>2. \A i \in DOMAIN shown : id'[shown[i]] = id[shown[i]]
    BY <1>1, <1>2
  <2>3. \A r \in initial : id'[r] = id[r]
    BY <1>1, <1>2
  <2>4. QED
    BY <1>1, <1>4, <1>5, <2>1, <2>2, <2>3 DEF AccountsInv
<1>6. ASSUME TransactionsInv
      PROVE  TransactionsInv'
  <2>1. \A r \in initial : TiesWithPageEnd(r)' = TiesWithPageEnd(r)
    BY <1>1, <1>2 DEF TiesWithPageEnd
  <2>2. QED
    BY <1>1, <1>2, <1>4, <1>6, <2>1 DEF TransactionsInv, WholePages
<1>7. ASSUME PostingsInv
      PROVE  PostingsInv'
  <2>1. Ties => Ties'
    BY <1>1 DEF Ties
  <2>2. ASSUME ~Ties', NEW r \in initial
        PROVE  Seen(r) \/ (walk = "walking" /\ Rank(r)' >= cursor)
    <3>1. Rank(r)' >= Rank(r) /\ Rank(r) \in Nat /\ Rank(r)' \in Nat /\ cursor \in Nat
      BY <1>2, RanksGrow DEF TypeOK
    <3>2. QED
      BY <1>7, <2>1, <2>2, <3>1 DEF PostingsInv
  <2>3. ASSUME ~Ties', Committed' \subseteq initial, NEW i \in DOMAIN shown
        PROVE  Rank(shown[i])' = i - 1
    <3>1. Committed' = Committed /\ shown'[i] = shown[i]
      BY <1>1, <1>2, <2>3
    <3>2. Rank(shown[i]) = i - 1
      BY <1>7, <2>1, <2>3, <3>1 DEF PostingsInv
    <3>3. \A r \in Committed : Rank(r)' = Rank(r)
      BY <3>1, RanksGrow
    <3>4. Rank(shown[i])' = Cardinality({s \in Committed' : at'[s] > at'[shown[i]]})
      BY <1>1 DEF Rank
    <3>5. QED
      BY <1>2, <3>2, <3>3, <3>4 DEF Rank
  <2>4. QED
    BY <1>1, <1>4, <1>7, <2>2, <2>3 DEF PostingsInv
<1>8. QED
  BY <1>1, <1>3, <1>5, <1>6, <1>7 DEF ListingInv

-------------------------------------------------------------------------------
(* The walk.                                                                *)

(* The first request: nothing is shown, and the first cursor leaves out no
   row, the Lead because a row may have been created just now.              *)
LEMMA StartKeepsWalk ==
    ASSUME PageInv, StartWalk
    PROVE  TypeOK' /\ WalkInv' /\ ListingInv'
<1>1. /\ walk = "idle" /\ walk' = "walking"
      /\ cursor' = FirstCursor /\ initial' = Committed
      /\ UNCHANGED <<listing, shown, clock, state, at, id, lastId>>
      /\ shown = <<>>
  BY DEF StartWalk, tableVars, PageInv, WalkInv
<1>2. TypeOK /\ RowInv
  BY DEF PageInv
<1>3. Committed' = Committed /\ Committed \subseteq Row
  BY <1>1 DEF Committed
<1>4. cursor' \in Nat /\ cursor' \in 0..(MaxClock + Lead + Cardinality(Row))
  <2>1. Cardinality(Row) \in Nat
    BY RowAssumption, FS_CardinalityType
  <2>2. QED
    BY <1>1, <1>2, <2>1, SizeAssumption DEF FirstCursor, TypeOK
<1>5. TypeOK'
  BY <1>1, <1>2, <1>3, <1>4 DEF TypeOK
<1>6. DOMAIN shown = {} /\ Len(shown) = 0
  BY <1>1
<1>7. WalkInv'
  BY <1>1, <1>3, <1>6 DEF WalkInv
<1>8. CASE listing = "accounts"
  <2>1. cursor' = 0
    BY <1>1, <1>8 DEF FirstCursor
  <2>2. \A r \in Committed : id[r] > 0
    BY <1>2, <1>3 DEF TypeOK, RowInv, Committed
  <2>3. InOrder' /\ WholePages' /\ CursorEndsPage'
    <3>1. 0 \in 0..Len(shown) /\ Len(shown) = 0 * PageSize
      BY <1>6, SizeAssumption
    <3>2. QED
      BY <1>1, <1>6, <2>1, <3>1 DEF InOrder, WholePages, CursorEndsPage
  <2>4. AccountsInv'
    BY <1>1, <1>6, <2>1, <2>2, <2>3 DEF AccountsInv
  <2>5. QED
    BY <1>1, <1>5, <1>7, <1>8, <2>4 DEF ListingInv
<1>9. CASE listing = "transactions"
  <2>1. cursor' = clock + Lead
    BY <1>1, <1>9 DEF FirstCursor
  <2>2. \A r \in Committed : at[r] < cursor'
    BY <1>2, <1>3, <2>1, SizeAssumption DEF TypeOK, RowInv, Committed
  <2>3. 0 \in 0..Len(shown) /\ Len(shown) = 0 * PageSize
    BY <1>6, SizeAssumption
  <2>4. TransactionsInv'
    BY <1>1, <1>6, <2>2, <2>3 DEF TransactionsInv, WholePages
  <2>5. QED
    BY <1>1, <1>5, <1>7, <1>9, <2>4 DEF ListingInv
<1>10. CASE listing = "postings"
  <2>1. cursor' = 0
    BY <1>1, <1>10 DEF FirstCursor
  <2>2. ASSUME NEW r \in Committed
        PROVE  Rank(r)' >= 0
    <3>1. {s \in Committed' : at'[s] > at'[r]} \in SUBSET Committed
      BY <1>3
    <3>2. Rank(r)' \in Nat
      BY <3>1, AnswerFinite, FS_Subset, FS_CardinalityType DEF Rank
    <3>3. QED
      BY <3>2
  <2>3. PostingsInv'
    BY <1>1, <1>6, <2>1, <2>2 DEF PostingsInv
  <2>4. QED
    BY <1>1, <1>5, <1>7, <1>10, <2>3 DEF ListingInv
<1>11. QED
  BY <1>2, <1>8, <1>9, <1>10, ListingAssumption DEF TypeOK

(* Where each row is, once a page is put after what was shown.              *)
LEMMA PageAppended ==
    ASSUME NEW old \in Seq(Row), NEW p \in Seq(Row)
    PROVE  /\ old \o p \in Seq(Row) /\ Len(old) \in Nat /\ Len(p) \in Nat
           /\ Len(old \o p) = Len(old) + Len(p)
           /\ DOMAIN old = 1..Len(old)
           /\ DOMAIN (old \o p) = 1..(Len(old) + Len(p))
           /\ \A i \in 1..Len(old) : (old \o p)[i] = old[i]
           /\ \A i \in 1..Len(p) : (old \o p)[Len(old) + i] = p[i]
           /\ \A i \in 1..(Len(old) + Len(p)) :
                 i \in 1..Len(old) \/ \E k \in 1..Len(p) : i = Len(old) + k
<1>1. /\ old \o p \in Seq(Row) /\ Len(old) \in Nat /\ Len(p) \in Nat
      /\ Len(old \o p) = Len(old) + Len(p)
      /\ DOMAIN old = 1..Len(old)
      /\ DOMAIN (old \o p) = 1..(Len(old) + Len(p))
      /\ \A i \in 1..Len(old) + Len(p) : (old \o p)[i] =
            IF i <= Len(old) THEN old[i] ELSE p[i - Len(old)]
  BY ConcatProperties, LenProperties
<1>2. \A i \in 1..Len(p) : (old \o p)[Len(old) + i] = p[i]
  <2>1. TAKE i \in 1..Len(p)
  <2>2. /\ Len(old) + i \in 1..Len(old) + Len(p) /\ ~(Len(old) + i <= Len(old))
        /\ Len(old) + i - Len(old) = i
    BY <1>1
  <2>3. QED
    BY <1>1, <2>2
<1>3. ASSUME NEW i \in 1..(Len(old) + Len(p))
      PROVE  i \in 1..Len(old) \/ \E k \in 1..Len(p) : i = Len(old) + k
  <2>1. i > Len(old) => i - Len(old) \in 1..Len(p) /\ i = Len(old) + (i - Len(old))
    BY <1>1
  <2>2. QED
    BY <1>1, <2>1
<1>4. QED
  BY <1>1, <1>2, <1>3

-------------------------------------------------------------------------------
(* A page.                                                                  *)

(* One request that is answered with p: the handler's cursor, and whether the
   client goes on.                                                          *)
Served(p) ==
    /\ walk = "walking"
    /\ p \in PagesFrom(OffsetOf(cursor))
    /\ p \in Seq(Answer) /\ p \in Seq(Row) /\ Len(p) \in 0..PageSize
    /\ shown' = shown \o p
    /\ Len(p) < PageSize => walk' = "over" /\ cursor' = cursor
    /\ Len(p) = PageSize => walk' = "walking" /\ cursor' = NextCursor(p)
    /\ UNCHANGED <<listing, initial, clock, state, at, id, lastId>>

LEMMA NextPageServes ==
    ASSUME PageInv, NextPage
    PROVE  \E p : Served(p)
<1>1. PICK p \in PagesFrom(OffsetOf(cursor)) :
        /\ shown' = shown \o p
        /\ IF Len(p) < PageSize THEN walk' = "over" /\ UNCHANGED cursor
                                ELSE cursor' = NextCursor(p) /\ UNCHANGED walk
  BY DEF NextPage
<1>2. /\ walk = "walking"
      /\ UNCHANGED <<listing, initial, clock, state, at, id, lastId>>
  BY DEF NextPage, tableVars
<1>3. OffsetOf(cursor) \in Nat
  BY DEF OffsetOf, PageInv, TypeOK
<1>4. PICK s : PageOf(s, OffsetOf(cursor), p)
  BY <1>3, PagesOrdered
<1>5. p \in Seq(Answer) /\ Len(p) <= PageSize
  BY <1>4 DEF PageOf
<1>6. p \in Seq(Row)
  BY <1>5, SeqMonotonic DEF Answer, Committed
<1>7. Len(p) \in 0..PageSize
  BY <1>5, <1>6, LenProperties, SizeAssumption
<1>8. Served(p)
  BY <1>1, <1>2, <1>5, <1>6, <1>7, SizeAssumption DEF Served
<1>9. QED
  BY <1>8

(* What is shown afterwards: the rows shown before, then those of the page,
   which are committed.                                                     *)
LEMMA ShownGrows ==
    ASSUME PageInv, NEW p, Served(p)
    PROVE  /\ shown' \in Seq(Row) /\ Len(shown) \in Nat
           /\ Len(shown') = Len(shown) + Len(p)
           /\ DOMAIN shown = 1..Len(shown)
           /\ DOMAIN shown' = 1..(Len(shown) + Len(p))
           /\ \A i \in 1..Len(shown) : shown'[i] = shown[i] /\ shown[i] \in Committed
           /\ \A i \in 1..Len(p) : shown'[Len(shown) + i] = p[i] /\ p[i] \in Answer
           /\ \A i \in DOMAIN shown' :
                 \/ i \in 1..Len(shown)
                 \/ \E k \in 1..Len(p) : i = Len(shown) + k /\ shown'[i] = p[k]
           /\ \A r : Seen(r)' <=> Seen(r) \/ \E k \in 1..Len(p) : p[k] = r
<1>1. shown \in Seq(Row) /\ p \in Seq(Row) /\ shown' = shown \o p
  BY DEF PageInv, TypeOK, Served
<1>2. /\ shown' \in Seq(Row) /\ Len(shown) \in Nat /\ Len(p) \in Nat
      /\ Len(shown') = Len(shown) + Len(p)
      /\ DOMAIN shown = 1..Len(shown)
      /\ DOMAIN shown' = 1..(Len(shown) + Len(p))
  BY <1>1, PageAppended
<1>3. \A i \in 1..Len(shown) : shown'[i] = shown[i]
  BY <1>1, PageAppended
<1>4. \A i \in 1..Len(p) : shown'[Len(shown) + i] = p[i]
  BY <1>1, PageAppended
<1>5. \A i \in 1..(Len(shown) + Len(p)) :
         i \in 1..Len(shown) \/ \E k \in 1..Len(p) : i = Len(shown) + k
  BY <1>1, PageAppended
<1>6. ASSUME NEW i \in DOMAIN shown'
      PROVE  \/ i \in 1..Len(shown)
             \/ \E k \in 1..Len(p) : i = Len(shown) + k /\ shown'[i] = p[k]
  <2>1. CASE i \notin 1..Len(shown)
    <3>1. PICK k \in 1..Len(p) : i = Len(shown) + k
      BY <1>2, <1>5, <2>1
    <3>2. QED
      BY <1>4, <3>1
  <2>2. QED
    BY <2>1
<1>7. \A i \in 1..Len(shown) : shown[i] \in Committed
  BY <1>2 DEF PageInv, WalkInv
<1>8. \A i \in 1..Len(p) : p[i] \in Answer
  BY ElementOfSeq DEF Served
<1>9. ASSUME NEW r
      PROVE  Seen(r)' <=> Seen(r) \/ \E k \in 1..Len(p) : p[k] = r
  <2>1. ASSUME Seen(r)
        PROVE  Seen(r)'
    BY <1>2, <1>3, <2>1 DEF Seen
  <2>2. ASSUME NEW k \in 1..Len(p), p[k] = r
        PROVE  Seen(r)'
    <3>1. Len(shown) + k \in DOMAIN shown'
      BY <1>2
    <3>2. QED
      BY <1>4, <2>2, <3>1 DEF Seen
  <2>3. ASSUME Seen(r)'
        PROVE  Seen(r) \/ \E k \in 1..Len(p) : p[k] = r
    <3>1. PICK i \in DOMAIN shown' : shown'[i] = r
      BY <2>3 DEF Seen
    <3>2. CASE i \in 1..Len(shown)
      BY <1>2, <1>3, <3>1, <3>2 DEF Seen
    <3>3. CASE i \notin 1..Len(shown)
      <4>1. PICK k \in 1..Len(p) : i = Len(shown) + k
        BY <1>2, <1>5, <3>3
      <4>2. p[k] = r
        BY <1>4, <3>1, <4>1
      <4>3. QED
        BY <4>2
    <3>4. QED
      BY <3>2, <3>3
  <2>4. QED
    BY <2>1, <2>2, <2>3
<1>10. QED
  BY <1>2, <1>3, <1>4, <1>6, <1>7, <1>8, <1>9

(* A page keeps what is shown committed.                                    *)
LEMMA PageKeepsWalk ==
    ASSUME PageInv, NEW p, Served(p)
    PROVE  WalkInv'
<1>1. Committed' = Committed /\ initial' = initial /\ walk' # "idle"
  BY SizeAssumption DEF Served, Committed
<1>2. \A r \in Answer : r \in Committed
  BY DEF Answer
<1>3. \A i \in DOMAIN shown' : shown'[i] \in Committed
  BY <1>2, ShownGrows
<1>4. QED
  BY <1>1, <1>3 DEF PageInv, WalkInv

(* A multiple of the page size has no remainder.                            *)
LEMMA Multiple ==
    ASSUME NEW n \in Nat, NEW size \in Nat \ {0}
    PROVE  (n * size) % size = 0
OBVIOUS

(* After a full page the rows shown are full pages, and the last row is the end
   of one.                                                                  *)
LEMMA FullPage ==
    ASSUME PageInv, NEW p, Served(p), WholePages, Len(p) = PageSize
    PROVE  /\ WholePages'
           /\ Len(shown) + PageSize \in DOMAIN shown'
           /\ shown'[Len(shown) + PageSize] = p[PageSize]
           /\ (Len(shown) + PageSize) % PageSize = 0
<1>1. PICK pages \in 0..Len(shown) : Len(shown) = pages * PageSize
  BY DEF WholePages
<1>2. Len(shown) \in Nat /\ pages + 1 \in Nat /\ Len(shown') = Len(shown) + PageSize
  BY <1>1, ShownGrows
<1>3. Len(shown) + PageSize = (pages + 1) * PageSize
  BY <1>1, SizeAssumption
<1>4. WholePages'
  <2>1. pages + 1 \in 0..Len(shown')
    BY <1>1, <1>2, SizeAssumption
  <2>2. QED
    BY <1>2, <1>3, <2>1 DEF WholePages
<1>5. ((pages + 1) * PageSize) % PageSize = 0
  BY <1>2, SizeAssumption, Multiple
<1>6. PageSize \in 1..Len(p)
  BY SizeAssumption
<1>7. QED
  BY <1>2, <1>3, <1>4, <1>5, <1>6, ShownGrows

(* A page of accounts: above the cursor, by increasing id.                  *)
LEMMA PageOfAccounts ==
    ASSUME PageInv, NEW p, Served(p), listing = "accounts"
    PROVE  AccountsInv' /\ cursor' \in 0..(MaxClock + Lead + Cardinality(Row))
<1>1. /\ AccountsInv /\ TypeOK /\ RowInv /\ initial \subseteq Committed
      /\ walk = "walking" /\ initial' = initial /\ id' = id
      /\ Len(p) \in 0..PageSize
  BY DEF PageInv, ListingInv, WalkInv, Served
<1>2. \A r \in Committed : r \in Row /\ id[r] \in Nat \ {0} /\ id[r] <= lastId
  BY <1>1 DEF TypeOK, RowInv, Committed
<1>3. \A r, s \in Committed : r # s => id[r] # id[s]
  BY <1>1, <1>2 DEF RowInv, Numbered
<1>4. \A r : r \in Answer <=> r \in Committed /\ id[r] > cursor
  BY DEF Answer, Matching
<1>5. p \in PagesFrom(0)
  BY DEF Served, OffsetOf
<1>6. \A i \in 1..Len(p) : p[i] \in Committed /\ id[p[i]] > cursor
  BY <1>4, ShownGrows
<1>7. \A i, j \in 1..Len(p) : i < j => id[p[i]] < id[p[j]]
  <2>1. \A i, j \in 1..Len(p) : i < j => p[i] # p[j] /\ ~(id[p[j]] < id[p[i]])
    BY <1>5, FirstPage DEF Before
  <2>2. QED
    BY <1>2, <1>3, <1>6, <2>1
<1>8. cursor \in Nat
  BY <1>1 DEF TypeOK
<1>9. \A i \in 1..Len(shown) : id[shown[i]] <= cursor /\ shown[i] \in Committed
  BY <1>1, ShownGrows DEF AccountsInv
<1>10. ASSUME Len(p) = PageSize
       PROVE  /\ cursor' = id[p[PageSize]] /\ walk' = "walking"
              /\ PageSize \in 1..Len(p)
  BY <1>10, SizeAssumption DEF Served, NextCursor
<1>11. ASSUME NEW i \in DOMAIN shown', NEW j \in DOMAIN shown', i < j
       PROVE  id[shown'[i]] < id[shown'[j]]
  <2>1. CASE j \in 1..Len(shown)
    <3>1. i \in 1..Len(shown)
      BY <1>11, <2>1, ShownGrows
    <3>2. shown'[i] = shown[i] /\ shown'[j] = shown[j]
      BY <2>1, <3>1, ShownGrows
    <3>3. QED
      BY <1>1, <1>11, <2>1, <3>1, <3>2, ShownGrows DEF AccountsInv, InOrder
  <2>2. CASE j \notin 1..Len(shown)
    <3>1. PICK k \in 1..Len(p) : j = Len(shown) + k /\ shown'[j] = p[k]
      BY <2>2, ShownGrows
    <3>2. CASE i \in 1..Len(shown)
      <4>1. shown'[i] = shown[i]
        BY <3>2, ShownGrows
      <4>2. id[shown[i]] <= cursor /\ id[p[k]] > cursor
            /\ id[shown[i]] \in Nat /\ id[p[k]] \in Nat
        BY <1>2, <1>6, <1>9, <3>2
      <4>3. QED
        BY <1>8, <3>1, <4>1, <4>2
    <3>3. CASE i \notin 1..Len(shown)
      <4>1. PICK l \in 1..Len(p) : i = Len(shown) + l /\ shown'[i] = p[l]
        BY <3>3, ShownGrows
      <4>2. l < k
        BY <1>11, <3>1, <4>1, ShownGrows
      <4>3. QED
        BY <1>7, <3>1, <4>1, <4>2
    <3>4. QED
      BY <3>2, <3>3
  <2>3. QED
    BY <2>1, <2>2
<1>12. ASSUME walk' = "walking", NEW i \in DOMAIN shown'
       PROVE  id[shown'[i]] <= cursor'
  <2>1. Len(p) = PageSize
    BY <1>1, <1>12, SizeAssumption DEF Served
  <2>2. /\ cursor' = id[p[PageSize]] /\ PageSize \in 1..Len(p)
        /\ cursor' \in Nat /\ cursor' > cursor
    BY <1>2, <1>6, <1>10, <2>1
  <2>3. CASE i \in 1..Len(shown)
    <3>1. shown'[i] = shown[i] /\ id[shown[i]] <= cursor /\ id[shown[i]] \in Nat
      BY <1>2, <1>9, <2>3, ShownGrows
    <3>2. QED
      BY <1>8, <2>2, <3>1
  <2>4. ASSUME NEW k \in 1..Len(p), i = Len(shown) + k
        PROVE  id[shown'[i]] <= cursor'
    <3>1. shown'[i] = p[k] /\ id[p[k]] \in Nat
      BY <1>2, <1>6, <2>4, ShownGrows
    <3>2. k = PageSize \/ k < PageSize
      BY <2>1, SizeAssumption
    <3>3. QED
      BY <1>7, <2>2, <3>1, <3>2
  <2>5. QED
    BY <2>3, <2>4, ShownGrows
<1>13. ASSUME NEW r \in initial
       PROVE  Seen(r)' \/ (walk' = "walking" /\ id[r] > cursor')
  <2>1. Seen(r) => Seen(r)'
    BY ShownGrows
  <2>2. ASSUME id[r] > cursor
        PROVE  Seen(r)' \/ (walk' = "walking" /\ id[r] > cursor')
    <3>1. r \in Answer
      BY <1>1, <1>4, <2>2
    <3>2. CASE \E i \in 1..Len(p) : p[i] = r
      BY <3>2, ShownGrows
    <3>3. CASE \A i \in 1..Len(p) : p[i] # r
      <4>1. Len(p) = PageSize /\ ~(id[r] < id[p[PageSize]])
        BY <1>5, <3>1, <3>3, FirstPage DEF Before
      <4>2. cursor' = id[p[PageSize]] /\ walk' = "walking" /\ p[PageSize] # r
        BY <1>10, <3>3, <4>1
      <4>3. p[PageSize] \in Committed /\ r \in Committed
        BY <1>1, <1>6, <1>10, <4>1
      <4>4. id[r] # id[p[PageSize]] /\ id[r] \in Nat /\ id[p[PageSize]] \in Nat
        BY <1>2, <1>3, <4>2, <4>3
      <4>5. QED
        BY <4>1, <4>2, <4>4
    <3>4. QED
      BY <3>2, <3>3
  <2>3. QED
    BY <1>1, <2>1, <2>2 DEF AccountsInv
<1>14. ASSUME walk' = "walking"
       PROVE  WholePages' /\ CursorEndsPage'
  <2>1. Len(p) = PageSize /\ WholePages
    BY <1>1, <1>14, SizeAssumption DEF Served, AccountsInv
  <2>2. cursor' = id[p[PageSize]]
    BY <1>10, <2>1
  <2>3. QED
    BY <1>1, <2>1, <2>2, FullPage DEF CursorEndsPage
<1>15. AccountsInv'
  <2>1. InOrder'
    BY <1>1, <1>11 DEF InOrder
  <2>2. QED
    BY <1>1, <1>12, <1>13, <1>14, <2>1 DEF AccountsInv
<1>16. cursor' \in 0..(MaxClock + Lead + Cardinality(Row))
  <2>1. Cardinality(Row) \in Nat
    BY RowAssumption, FS_CardinalityType
  <2>2. CASE Len(p) = PageSize
    <3>1. cursor' = id[p[PageSize]] /\ p[PageSize] \in Row
      BY <1>2, <1>6, <1>10, <2>2
    <3>2. id[p[PageSize]] \in 0..Cardinality(Row)
      BY <1>1, <3>1 DEF TypeOK
    <3>3. QED
      BY <2>1, <3>1, <3>2, SizeAssumption
  <2>3. CASE Len(p) # PageSize
    <3>1. cursor' = cursor
      BY <1>1, <2>3, SizeAssumption DEF Served
    <3>2. QED
      BY <1>1, <3>1 DEF TypeOK
  <2>4. QED
    BY <2>2, <2>3
<1>17. QED
  BY <1>15, <1>16

(* A page of transactions: before the cursor, the newest first.             *)
LEMMA PageOfTransactions ==
    ASSUME PageInv, NEW p, Served(p), listing = "transactions"
    PROVE  TransactionsInv' /\ cursor' \in 0..(MaxClock + Lead + Cardinality(Row))
<1>1. /\ TransactionsInv /\ TypeOK /\ RowInv /\ initial \subseteq Committed
      /\ walk = "walking" /\ initial' = initial /\ at' = at
      /\ Len(p) \in 0..PageSize
  BY DEF PageInv, ListingInv, WalkInv, Served
<1>2. \A r \in Committed : r \in Row /\ at[r] \in Nat
  BY <1>1 DEF TypeOK, Committed
<1>3. \A r : r \in Answer <=> r \in Committed /\ at[r] < cursor
  BY DEF Answer, Matching
<1>4. p \in PagesFrom(0)
  BY DEF Served, OffsetOf
<1>5. \A i \in 1..Len(p) : p[i] \in Committed /\ at[p[i]] < cursor
  BY <1>3, ShownGrows
<1>6. \A i, j \in 1..Len(p) : i < j => p[i] # p[j] /\ ~(at[p[j]] > at[p[i]])
  BY <1>4, FirstPage DEF Before
<1>7. cursor \in Nat
  BY <1>1 DEF TypeOK
<1>8. \A i \in 1..Len(shown) : at[shown[i]] >= cursor /\ shown[i] \in Committed
  BY <1>1, ShownGrows DEF TransactionsInv
<1>9. ASSUME Len(p) = PageSize
      PROVE  /\ cursor' = at[p[PageSize]] /\ walk' = "walking"
             /\ PageSize \in 1..Len(p)
  BY <1>9, SizeAssumption DEF Served, NextCursor
<1>10. WholePages
  BY <1>1 DEF TransactionsInv
<1>11. ASSUME NEW i \in DOMAIN shown', NEW j \in DOMAIN shown', i < j
       PROVE  shown'[i] # shown'[j]
  <2>1. CASE j \in 1..Len(shown)
    <3>1. i \in 1..Len(shown)
      BY <1>11, <2>1, ShownGrows
    <3>2. shown'[i] = shown[i] /\ shown'[j] = shown[j]
      BY <2>1, <3>1, ShownGrows
    <3>3. QED
      BY <1>1, <1>11, <2>1, <3>1, <3>2, ShownGrows DEF TransactionsInv
  <2>2. CASE j \notin 1..Len(shown)
    <3>1. PICK k \in 1..Len(p) : j = Len(shown) + k /\ shown'[j] = p[k]
      BY <2>2, ShownGrows
    <3>2. CASE i \in 1..Len(shown)
      <4>1. shown'[i] = shown[i]
        BY <3>2, ShownGrows
      <4>2. at[shown[i]] >= cursor /\ at[p[k]] < cursor
            /\ at[shown[i]] \in Nat /\ at[p[k]] \in Nat
        BY <1>2, <1>5, <1>8, <3>2
      <4>3. QED
        BY <1>7, <3>1, <4>1, <4>2
    <3>3. CASE i \notin 1..Len(shown)
      <4>1. PICK l \in 1..Len(p) : i = Len(shown) + l /\ shown'[i] = p[l]
        BY <3>3, ShownGrows
      <4>2. l < k
        BY <1>11, <3>1, <4>1, ShownGrows
      <4>3. QED
        BY <1>6, <3>1, <4>1, <4>2
    <3>4. QED
      BY <3>2, <3>3
  <2>3. QED
    BY <2>1, <2>2
<1>12. ASSUME walk' = "walking"
       PROVE  WholePages' /\ \A i \in DOMAIN shown' : at[shown'[i]] >= cursor'
  <2>1. Len(p) = PageSize
    BY <1>1, <1>12, SizeAssumption DEF Served
  <2>2. /\ cursor' = at[p[PageSize]] /\ PageSize \in 1..Len(p)
        /\ cursor' \in Nat /\ cursor' < cursor
    BY <1>2, <1>5, <1>9, <2>1
  <2>3. ASSUME NEW i \in 1..Len(shown)
        PROVE  at[shown'[i]] >= cursor'
    <3>1. shown'[i] = shown[i] /\ at[shown[i]] >= cursor /\ at[shown[i]] \in Nat
      BY <1>2, <1>8, <2>3, ShownGrows
    <3>2. QED
      BY <1>7, <2>2, <3>1
  <2>4. ASSUME NEW i \in DOMAIN shown', NEW k \in 1..Len(p), i = Len(shown) + k
        PROVE  at[shown'[i]] >= cursor'
    <3>1. shown'[i] = p[k] /\ at[p[k]] \in Nat
      BY <1>2, <1>5, <2>4, ShownGrows
    <3>2. k = PageSize \/ k < PageSize
      BY <2>1, SizeAssumption
    <3>3. QED
      BY <1>6, <2>2, <3>1, <3>2
  <2>5. \A i \in DOMAIN shown' : at[shown'[i]] >= cursor'
    BY <2>3, <2>4, ShownGrows
  <2>6. WholePages'
    BY <1>10, <2>1, FullPage
  <2>7. QED
    BY <2>5, <2>6
<1>13. ASSUME NEW r \in initial, TiesWithPageEnd(r)
       PROVE  TiesWithPageEnd(r)'
  <2>1. PICK i \in DOMAIN shown : i % PageSize = 0 /\ at[shown[i]] = at[r]
    BY <1>13 DEF TiesWithPageEnd
  <2>2. i \in DOMAIN shown' /\ shown'[i] = shown[i]
    <3>1. i \in 1..Len(shown) /\ Len(shown) \in Nat /\ Len(p) \in Nat
      BY <1>1, ShownGrows
    <3>2. QED
      BY <3>1, ShownGrows
  <2>3. QED
    BY <1>1, <2>1, <2>2 DEF TiesWithPageEnd
<1>14. ASSUME NEW r \in initial, at[r] < cursor
       PROVE  \/ Seen(r)' \/ TiesWithPageEnd(r)'
              \/ walk' = "walking" /\ at[r] < cursor'
  <2>1. r \in Answer
    BY <1>1, <1>3, <1>14
  <2>2. CASE \E i \in 1..Len(p) : p[i] = r
    BY <2>2, ShownGrows
  <2>3. CASE \A i \in 1..Len(p) : p[i] # r
    <3>1. Len(p) = PageSize /\ ~(at[r] > at[p[PageSize]])
      BY <1>4, <2>1, <2>3, FirstPage DEF Before
    <3>2. /\ cursor' = at[p[PageSize]] /\ walk' = "walking"
          /\ PageSize \in 1..Len(p)
      BY <1>9, <3>1
    <3>3. at[r] \in Nat /\ at[p[PageSize]] \in Nat
      BY <1>1, <1>2, <1>5, <3>2
    <3>4. CASE at[r] = at[p[PageSize]]
      BY <1>1, <1>10, <3>1, <3>4, FullPage DEF TiesWithPageEnd
    <3>5. QED
      BY <3>1, <3>2, <3>3, <3>4
  <2>4. QED
    BY <2>2, <2>3
<1>15. \A r \in initial :
          Seen(r)' \/ TiesWithPageEnd(r)' \/ (walk' = "walking" /\ at[r] < cursor')
  BY <1>1, <1>13, <1>14, ShownGrows DEF TransactionsInv
<1>16. TransactionsInv'
  BY <1>1, <1>11, <1>12, <1>15 DEF TransactionsInv
<1>17. cursor' \in 0..(MaxClock + Lead + Cardinality(Row))
  <2>1. Cardinality(Row) \in Nat
    BY RowAssumption, FS_CardinalityType
  <2>2. CASE Len(p) = PageSize
    <3>1. cursor' = at[p[PageSize]] /\ p[PageSize] \in Row
      BY <1>2, <1>5, <1>9, <2>2
    <3>2. at[p[PageSize]] \in 0..MaxClock
      BY <1>1, <3>1 DEF TypeOK
    <3>3. QED
      BY <2>1, <3>1, <3>2, SizeAssumption
  <2>3. CASE Len(p) # PageSize
    <3>1. cursor' = cursor
      BY <1>1, <2>3, SizeAssumption DEF Served
    <3>2. QED
      BY <1>1, <3>1 DEF TypeOK
  <2>4. QED
    BY <2>2, <2>3
<1>18. QED
  BY <1>16, <1>17

(* Without ties, the place of a row in the ordered answer is its rank: exactly
   the rows at smaller places are newer.                                    *)
LEMMA PlacesAreRanks ==
    ASSUME TypeOK, listing = "postings", ~Ties, NEW offset, NEW p,
           NEW s, PageOf(s, offset, p), NEW k \in 1..Cardinality(Answer)
    PROVE  s[k] \in Committed /\ Rank(s[k]) = k - 1
<1> DEFINE N == Cardinality(Answer)
           newer == {r \in Committed : at[r] > at[s[k]]}
           f == [i \in 1..(k - 1) |-> s[i]]
<1>1. Answer = Committed
  BY DEF Answer, Matching
<1>2. /\ N \in Nat
      /\ s \in [1..N -> Committed]
      /\ \A i, j \in 1..N : s[i] = s[j] => i = j
      /\ \A r \in Committed : \E i \in 1..N : s[i] = r
      /\ \A i, j \in 1..N : i < j => ~(at[s[j]] > at[s[i]])
  BY <1>1, AnswerFinite DEF PageOf, Before
<1> HIDE DEF N
<1>3. k \in 1..N
  BY DEF N
<1>4. \A r \in Committed : r \in Row /\ at[r] \in Nat
  BY DEF Committed, TypeOK
<1>5. \A i, j \in 1..N : i # j => at[s[i]] # at[s[j]]
  BY <1>2 DEF Ties
<1>6. \A i, j \in 1..N : i < j => at[s[i]] > at[s[j]]
  <2>1. TAKE i, j \in 1..N
  <2>2. at[s[i]] \in Nat /\ at[s[j]] \in Nat
    BY <1>2, <1>4
  <2>3. QED
    BY <1>2, <1>5, <2>2
<1>7. \A i \in 1..N : at[s[i]] > at[s[k]] <=> i < k
  <2>1. TAKE i \in 1..N
  <2>2. at[s[i]] \in Nat /\ at[s[k]] \in Nat
    BY <1>2, <1>3, <1>4
  <2>3. i < k \/ i = k \/ i > k
    BY <1>2, <1>3
  <2>4. QED
    BY <1>3, <1>6, <2>2, <2>3
<1>8. \A i \in 1..(k - 1) : i \in 1..N /\ i < k
  BY <1>2, <1>3
<1>9. f \in Bijection(1..(k - 1), newer)
  <2>1. \A i \in 1..(k - 1) : f[i] \in newer
    BY <1>2, <1>7, <1>8
  <2>2. f \in [1..(k - 1) -> newer]
    BY <2>1
  <2>3. IsInjective(f)
    BY <1>2, <1>8 DEF IsInjective
  <2>4. ASSUME NEW r \in newer
        PROVE  \E i \in 1..(k - 1) : f[i] = r
    <3>1. PICK i \in 1..N : s[i] = r
      BY <1>2
    <3>2. i < k
      BY <1>7, <3>1
    <3>3. i \in 1..(k - 1)
      BY <1>2, <1>3, <3>2
    <3>4. QED
      BY <3>1, <3>3
  <2> HIDE DEF f, newer
  <2>5. QED
    BY <2>2, <2>3, <2>4 DEF Bijection, Injection, Surjection
<1>10. Cardinality(newer) = k - 1
  <2>1. /\ IsFiniteSet(1..(k - 1)) /\ Cardinality(1..(k - 1)) = k - 1
    <3>1. k - 1 \in Int /\ ~(1 > k - 1 /\ k - 1 # 0) /\ (k - 1) - 1 + 1 = k - 1
      BY <1>2, <1>3
    <3>2. QED
      BY <3>1, FS_Interval
  <2> HIDE DEF newer, f
  <2>2. ExistsBijection(1..(k - 1), newer)
    BY <1>9 DEF ExistsBijection
  <2>3. QED
    BY <2>1, <2>2, FS_Bijection
<1>11. QED
  BY <1>2, <1>3, <1>10 DEF Rank

(* A page of postings: the rows whose places follow the offset.             *)
LEMMA PageOfPostings ==
    ASSUME PageInv, NEW p, Served(p), listing = "postings"
    PROVE  PostingsInv' /\ cursor' \in 0..(MaxClock + Lead + Cardinality(Row))
<1> DEFINE N == Cardinality(Answer)
<1>1. /\ PostingsInv /\ TypeOK /\ initial \subseteq Committed
      /\ walk = "walking" /\ initial' = initial /\ at' = at
      /\ Committed' = Committed
      /\ Len(p) \in 0..PageSize
  BY DEF PageInv, ListingInv, WalkInv, Served, Committed
<1>2. cursor = Len(shown) /\ OffsetOf(cursor) = cursor /\ cursor \in Nat
  BY <1>1 DEF PostingsInv, OffsetOf, TypeOK
<1>3. PICK s : PageOf(s, cursor, p)
  BY <1>2, PagesOrdered DEF Served
<1>4. N \in Nat
  BY AnswerFinite
<1>5. Ties' <=> Ties
  BY <1>1 DEF Ties
<1>6. \A r : Rank(r)' = Rank(r)
  BY <1>1 DEF Rank
<1>7. Len(p) = PageSize => cursor' = cursor + PageSize /\ walk' = "walking"
  BY DEF Served, NextCursor
<1>8. walk' = "walking" => Len(p) = PageSize /\ cursor' = Len(shown')
  <2>1. walk' = "walking" => Len(p) = PageSize
    BY <1>1, SizeAssumption DEF Served
  <2>2. QED
    BY <1>2, <1>7, <2>1, ShownGrows
<1>9. ASSUME ~Ties, NEW r \in initial, Rank(r) >= cursor
      PROVE  Seen(r)' \/ (walk' = "walking" /\ Rank(r) >= cursor')
  <2>1. r \in Answer
    BY <1>1 DEF Answer, Matching
  <2>2. PICK k \in 1..N : s[k] = r
    BY <1>3, <2>1 DEF PageOf
  <2>3. Rank(r) = k - 1
    BY <1>1, <1>3, <1>9, <2>2, PlacesAreRanks
  <2>4. CASE k - cursor \in 1..Len(p)
    <3>1. p[k - cursor] = s[cursor + (k - cursor)] /\ cursor + (k - cursor) = k
      BY <1>2, <1>3, <1>4, <2>4 DEF PageOf
    <3>2. p[k - cursor] = r
      BY <2>2, <3>1
    <3>3. QED
      BY <2>4, <3>2, ShownGrows
  <2>5. CASE k - cursor \notin 1..Len(p)
    <3>1. k > cursor
      BY <1>2, <1>4, <1>9, <2>3
    <3>2. Len(p) = PageSize
      BY <1>3, <2>5, <3>1 DEF PageOf
    <3>3. Rank(r) >= cursor + PageSize
      BY <1>2, <1>4, <2>3, <2>5, <3>1, <3>2, SizeAssumption
    <3>4. QED
      BY <1>7, <3>2, <3>3
  <2>6. QED
    BY <2>4, <2>5
<1>10. ASSUME ~Ties, NEW r \in initial
       PROVE  Seen(r)' \/ (walk' = "walking" /\ Rank(r)' >= cursor')
  <2>1. Seen(r) => Seen(r)'
    BY ShownGrows
  <2>2. Seen(r) \/ Rank(r) >= cursor
    BY <1>1, <1>10 DEF PostingsInv
  <2>3. QED
    BY <1>6, <1>9, <1>10, <2>1, <2>2
<1>11. ASSUME ~Ties, Committed \subseteq initial, NEW i \in DOMAIN shown'
       PROVE  Rank(shown'[i]) = i - 1
  <2>1. CASE i \in 1..Len(shown)
    <3>1. shown'[i] = shown[i] /\ i \in DOMAIN shown
      BY <2>1, ShownGrows
    <3>2. QED
      BY <1>1, <1>11, <3>1 DEF PostingsInv
  <2>2. ASSUME NEW k \in 1..Len(p), i = Len(shown) + k, shown'[i] = p[k]
        PROVE  Rank(shown'[i]) = i - 1
    <3>1. PICK j \in 1..N : j = cursor + k /\ p[k] = s[j]
      BY <1>3 DEF PageOf
    <3>2. Rank(s[j]) = j - 1
      BY <1>1, <1>3, <1>11, PlacesAreRanks
    <3>3. QED
      BY <1>2, <2>2, <3>1, <3>2
  <2>3. QED
    BY <2>1, <2>2, ShownGrows
<1>12. \A i \in DOMAIN shown' : Rank(shown[i])' = Rank(shown'[i])
  BY <1>1 DEF Rank
<1>13. PostingsInv'
  BY <1>1, <1>5, <1>8, <1>10, <1>11, <1>12 DEF PostingsInv
<1>14. cursor' \in 0..(MaxClock + Lead + Cardinality(Row))
  <2>1. CASE Len(p) = PageSize
    <3>1. Cardinality(Row) \in Nat /\ N <= Cardinality(Row)
      BY RowAssumption, FS_CardinalityType, FS_Subset DEF Answer, Committed
    <3>2. PageSize \in 1..Len(p)
      BY <2>1, SizeAssumption
    <3>3. cursor + PageSize <= N
      BY <1>3, <3>2 DEF PageOf
    <3>4. QED
      BY <1>2, <1>4, <1>7, <2>1, <3>1, <3>3, SizeAssumption
  <2>2. CASE Len(p) # PageSize
    <3>1. cursor' = cursor
      BY <1>1, <2>2, SizeAssumption DEF Served
    <3>2. QED
      BY <1>1, <3>1 DEF TypeOK
  <2>3. QED
    BY <2>1, <2>2
<1>15. QED
  BY <1>13, <1>14

-------------------------------------------------------------------------------
(* The theorems.                                                            *)

(* Every step keeps the invariant.                                          *)
LEMMA PageStep == PageInv /\ [Next]_vars => PageInv'
<1> SUFFICES ASSUME PageInv, [Next]_vars
             PROVE  PageInv'
  OBVIOUS
<1>1. TypeOK /\ RowInv /\ WalkInv /\ ListingInv
  BY DEF PageInv
<1>2. ASSUME Tick \/ \E r \in Row : Begin(r) \/ Insert(r) \/ CommitRow(r) \/ Abort(r)
      PROVE  PageInv'
  <2>1. TypeOK' /\ RowInv'
    BY <1>1, <1>2, TickKeepsRows, BeginKeepsRows, InsertKeepsRows, EndKeepsRows
  <2>2. SeenStay
    BY <1>1, <1>2, InsertionsKeepSeen
  <2>3. QED
    BY <1>1, <2>1, <2>2, InsertionsKeepWalk DEF PageInv
<1>3. CASE StartWalk
  <2>1. RowInv'
    BY <1>1, <1>3, RowsStay DEF StartWalk
  <2>2. QED
    BY <1>3, <2>1, StartKeepsWalk DEF PageInv
<1>4. CASE NextPage
  <2>1. RowInv'
    BY <1>1, <1>4, RowsStay DEF NextPage
  <2>2. PICK p : Served(p)
    BY <1>4, NextPageServes
  <2>3. listing' = listing /\ listing \in {"accounts", "transactions", "postings"}
    BY <1>1, <2>2, ListingAssumption DEF Served, TypeOK
  <2>4. cursor' \in 0..(MaxClock + Lead + Cardinality(Row)) /\ ListingInv'
    BY <2>2, <2>3, PageOfAccounts, PageOfTransactions, PageOfPostings DEF ListingInv
  <2>5. TypeOK'
    <3>1. shown' \in Seq(Row)
      BY <2>2, ShownGrows
    <3>2. walk' \in {"walking", "over"}
      BY <2>2, SizeAssumption DEF Served
    <3>3. QED
      BY <1>1, <2>2, <2>4, <3>1, <3>2 DEF Served, TypeOK
  <2>6. QED
    BY <2>1, <2>2, <2>4, <2>5, PageKeepsWalk DEF PageInv
<1>5. CASE UNCHANGED vars
  <2>1. SeenStay /\ RowInv' /\ TypeOK'
    BY <1>1, <1>5, RowsStay DEF vars, tableVars, walkVars, SeenStay, Committed, TypeOK
  <2>2. QED
    BY <1>1, <2>1, InsertionsKeepWalk DEF PageInv
<1>6. QED
  BY <1>2, <1>3, <1>4, <1>5 DEF Next

(* It holds when there are no rows and the walk has not begun.              *)
LEMMA PageInit == Init => PageInv
<1> SUFFICES ASSUME Init
             PROVE  PageInv
  OBVIOUS
<1>1. Cardinality(Row) \in Nat
  BY RowAssumption, FS_CardinalityType
<1>2. TypeOK
  BY <1>1, SizeAssumption, EmptySeq DEF Init, TypeOK
<1>3. Numbered = {} /\ Cardinality(Numbered) = 0
  BY FS_EmptySet DEF Init, Numbered
<1>4. RowInv
  BY <1>3 DEF Init, RowInv
<1>5. DOMAIN shown = {} /\ Len(shown) = 0 /\ initial = {} /\ walk = "idle"
  BY DEF Init
<1>6. WalkInv
  BY <1>5 DEF Init, WalkInv
<1>7. ListingInv
  BY <1>5 DEF ListingInv, AccountsInv, InOrder, TransactionsInv, PostingsInv
<1>8. QED
  BY <1>2, <1>4, <1>6, <1>7 DEF PageInv

(* The invariant holds always.                                              *)
LEMMA PageHolds == Spec => []PageInv
BY PageInit, PageStep, PTL DEF Spec

(* The rows, the sequence and the cursor keep their ranges: there are no more
   ids than rows, and an offset never exceeds the rows there are.           *)
THEOREM TypeCorrect == Spec => []TypeOK
<1>1. PageInv => TypeOK
  BY DEF PageInv
<1>2. QED
  BY <1>1, PageHolds, PTL

(* What was there and is not skipped is seen.                               *)
LEMMA SkippedUnseen ==
    ASSUME TypeOK, NEW r \in Skipped
    PROVE  r \in initial /\ ~Seen(r) /\ walk = "over"
BY DEF Skipped, Seen, Range

(* A walk ends with a page that is not full, so whatever had an id above the
   cursor is shown by then, and the cursor is 0 or the end of a page.       *)
LEMMA LastPage ==
    ASSUME PageInv, NEW p, Served(p), listing = "accounts", walk' = "over"
    PROVE  MissedLateOnly'
<1>1. /\ TypeOK /\ RowInv /\ AccountsInv /\ AccountsInv' /\ walk = "walking"
      /\ Committed' = Committed /\ initial' = initial /\ id' = id /\ listing' = listing
  BY PageOfAccounts DEF PageInv, ListingInv, Served, Committed
<1>2. Len(p) # PageSize
  BY DEF Served
<1>3. SUFFICES ASSUME NEW r \in Committed, r \notin Range(shown')
               PROVE  r \notin initial /\ BelowPageEnd(r)'
  BY <1>1 DEF MissedLateOnly
<1>4. ~Seen(r)'
  BY <1>3 DEF Seen, Range
<1>5. r \notin initial
  BY <1>1, <1>4 DEF AccountsInv
<1>6. /\ r \in Row /\ id[r] \in Nat /\ id[r] > 0 /\ r \in Numbered
      /\ cursor \in Nat
  BY <1>1 DEF TypeOK, RowInv, Committed, Numbered
<1>7. ~(id[r] > cursor)
  <2>1. SUFFICES ASSUME id[r] > cursor
                 PROVE  FALSE
    OBVIOUS
  <2>2. r \in Answer /\ p \in PagesFrom(0)
    BY <2>1 DEF Answer, Matching, Served, OffsetOf
  <2>3. \E k \in 1..Len(p) : p[k] = r
    BY <1>2, <2>2, FirstPage
  <2>4. QED
    BY <1>4, <2>3, ShownGrows
<1>8. PICK i \in DOMAIN shown : i % PageSize = 0 /\ id[shown[i]] = cursor
  BY <1>1, <1>6, <1>7 DEF AccountsInv, CursorEndsPage
<1>9. i \in DOMAIN shown' /\ shown'[i] = shown[i] /\ shown[i] \in Committed
  <2>1. i \in 1..Len(shown) /\ Len(shown) \in Nat /\ Len(p) \in Nat
    BY <1>8, ShownGrows DEF Served
  <2>2. QED
    BY <2>1, ShownGrows
<1>10. shown[i] # r /\ shown[i] \in Numbered
  BY <1>1, <1>4, <1>9 DEF Seen, RowInv, Numbered, Committed
<1>11. id[r] # cursor
  BY <1>1, <1>6, <1>8, <1>10 DEF RowInv
<1>12. id[r] < id[shown[i]]
  BY <1>6, <1>7, <1>8, <1>11
<1>13. QED
  BY <1>1, <1>5, <1>8, <1>9, <1>12 DEF BelowPageEnd

(* When the client is done, the only accounts it was not shown came during the
   walk with an id that was below the end of a page by then, and each other one
   was shown once, by increasing id, however the ids were handed out and the
   rows committed meanwhile: ListAccounts pages by id.                      *)
THEOREM AccountsListed == Spec => AccountsShownOnce
<1>1. ASSUME PageInv, PageInv', [Next]_vars, listing = "accounts"
      PROVE  InOrder' /\ (walk = "walking" /\ walk' = "over" => MissedLateOnly')
  <2>1. listing' = listing
    BY <1>1 DEF Next, Tick, Begin, Insert, CommitRow, Abort, StartWalk, NextPage, walkVars,
                vars
  <2>2. InOrder'
    BY <1>1, <2>1 DEF PageInv, ListingInv, AccountsInv
  <2>3. ASSUME walk = "walking", walk' = "over"
        PROVE  MissedLateOnly'
    <3>1. NextPage
      BY <1>1, <2>3 DEF Next, Tick, Begin, Insert, CommitRow, Abort, StartWalk, walkVars, vars
    <3>2. PICK p : Served(p)
      BY <1>1, <3>1, NextPageServes
    <3>3. QED
      BY <1>1, <2>3, <3>2, LastPage
  <2>4. QED
    BY <2>2, <2>3
<1>2. PageInv /\ PageInv' /\ [Next]_vars =>
        [listing = "accounts" =>
            InOrder' /\ (walk = "walking" /\ walk' = "over" => MissedLateOnly')]_vars
  BY <1>1
<1>3. QED
  BY <1>2, PageHolds, PTL DEF Spec, AccountsShownOnce

(* The transactions are shown at most once, and one that was there is left
   out only if it has the timestamp of the last row of a full page, which is
   the cursor of the next one: ListTransactions pages by created_at.        *)
THEOREM TransactionsListed == Spec => []TransactionsSkipOnlyTies
<1>1. ASSUME PageInv, listing = "transactions"
      PROVE  /\ ~Repeats
             /\ \A r \in Skipped : \E i \in DOMAIN shown :
                   i % PageSize = 0 /\ at[shown[i]] = at[r]
  <2>1. TransactionsInv /\ TypeOK
    BY <1>1 DEF PageInv, ListingInv
  <2>2. DOMAIN shown \subseteq Nat
    BY <2>1, LenProperties DEF TypeOK
  <2>3. ~Repeats
    BY <2>1, <2>2 DEF TransactionsInv, Repeats, IsInjective
  <2>4. ASSUME NEW r \in Skipped
        PROVE  TiesWithPageEnd(r)
    BY <2>1, <2>4, SkippedUnseen DEF TransactionsInv
  <2>5. QED
    BY <2>3, <2>4 DEF TiesWithPageEnd
<1>2. PageInv => TransactionsSkipOnlyTies
  BY <1>1 DEF TransactionsSkipOnlyTies
<1>3. QED
  BY <1>2, PageHolds, PTL

(* As long as no two rows have one timestamp, every posting that was there is
   shown, and one is shown twice only if another was committed meanwhile:
   the postings are paged by OFFSET.                                        *)
THEOREM PostingsListed == Spec => []PostingsShiftOnly
<1>1. ASSUME PageInv, listing = "postings", ~Ties
      PROVE  Skipped = {} /\ (Repeats => Committed \ initial # {})
  <2>1. PostingsInv /\ TypeOK
    BY <1>1 DEF PageInv, ListingInv
  <2>2. DOMAIN shown \subseteq Nat
    BY <2>1, LenProperties DEF TypeOK
  <2>3. Skipped = {}
    BY <1>1, <2>1, SkippedUnseen DEF PostingsInv
  <2>4. ASSUME Committed \subseteq initial
        PROVE  ~Repeats
    <3>1. \A i \in DOMAIN shown : Rank(shown[i]) = i - 1
      BY <1>1, <2>1, <2>4 DEF PostingsInv
    <3>2. \A i, j \in DOMAIN shown : shown[i] = shown[j] => i - 1 = j - 1
      BY Zenon, <3>1
    <3>3. QED
      BY <2>2, <3>2 DEF Repeats, IsInjective
  <2>5. QED
    BY <2>3, <2>4
<1>2. PageInv => PostingsShiftOnly
  BY <1>1 DEF PostingsShiftOnly
<1>3. QED
  BY <1>2, PageHolds, PTL
===============================================================================
