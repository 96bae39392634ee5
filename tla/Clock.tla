--------------------------------- MODULE Clock ---------------------------------
(* The time that the limiter's window and the sessions' TTL run by.          *)
EXTENDS Integers

CONSTANT MaxClock  \* bound: ticks of the clock

ASSUME ClockAssumption == MaxClock \in Nat

VARIABLE clock  \* a unit is what the limiter's script tells apart

ClockTypeOK == clock \in 0..MaxClock

ClockInit == clock = 0

Advance == clock < MaxClock /\ clock' = clock + 1
===============================================================================
