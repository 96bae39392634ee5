---------------------------- MODULE MCOutboxWorker ----------------------------
(* Instances of OutboxWorker for TLC.                                        *)
EXTENDS OutboxWorker, TLC

CONSTANTS w1, w2

Alike == Permutations({w1, w2})
===============================================================================
