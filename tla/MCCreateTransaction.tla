------------------------- MODULE MCCreateTransaction -------------------------
(* Instances of CreateTransaction for TLC.                                  *)
EXTENDS CreateTransaction, TLC

CONSTANTS r1, r2, r3, k1, k2, good, unbalanced, orphan, overflow

(* One body of each kind: bookable; rejected by the validation; naming an
   account that does not exist; rejected by the trigger at COMMIT.          *)
AllBodies == {good, unbalanced, orphan, overflow}

Interchangeable == Permutations({r1, r2, r3}) \cup Permutations({k1, k2})
==============================================================================
