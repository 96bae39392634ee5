------------------------------- MODULE MCGateway -------------------------------
(* Instances of Gateway for TLC.                                              *)
EXTENDS Gateway, TLC

CONSTANTS r1, r2, r3, mail, p, q, k, default

Requests == {r1, r2, r3}
Alike == Permutations(Requests) \cup Permutations({p, q})
MCRoleOf == [x \in ApiKey |-> "read"]
===============================================================================
