------------------------------- MODULE MCServer -------------------------------
(* An instance of Server for TLC: uploads to the transaction of one tenant,  *)
(* by that tenant or by another.                                             *)
EXTENDS Server

CONSTANTS r1, r2, t1, t2, x

MCOwner == [y \in Transaction |-> t1]
===============================================================================
