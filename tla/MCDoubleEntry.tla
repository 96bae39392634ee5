----------------------------- MODULE MCDoubleEntry -----------------------------
(* Instances of DoubleEntry for TLC, in three-bit integers.                  *)
EXTENDS DoubleEntry, TLC

CONSTANTS t1, t2, n1, n2

MCTenant == {t1, t2}
MCName == {n1, n2}
Alike == Permutations(MCTenant) \cup Permutations(MCName)

D(id, n) == [account |-> id, amount |-> n, direction |-> "debit"]
C(id, n) == [account |-> id, amount |-> n, direction |-> "credit"]

(* With MaxInt = 3: transfers between three accounts, of 1 and of all an int
   can hold; three debits of 3, which wrap to 1; 6 on both sides, balanced and
   out of range; and requests that each check refuses.                       *)
Ids == 1..3
Transfers == {<<D(a, m), C(b, m)>> : a \in Ids, b \in Ids, m \in {1, 3}}
Wrapping == {<<D(a, 3), D(a, 3), D(a, 3), C(b, 1)>> : a \in {1, 2}, b \in {2, 3}}
TooLarge == {<<D(a, 3), D(a, 3), C(b, 3), C(b, 3)>> : a \in {1, 2}, b \in {2, 3}}
Faulty == {<<>>, <<D(1, 1)>>, <<D(1, 3), C(2, 1)>>, <<D(1, 0), C(2, 0)>>,
           <<D(0, 1), C(1, 1)>>, <<D(1, 2), D(1, 1), C(2, 1), C(2, 1), C(2, 1)>>}
MCRequest == Transfers \cup Wrapping \cup TooLarge \cup Faulty
===============================================================================
