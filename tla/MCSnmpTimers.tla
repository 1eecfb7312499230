---------------------------- MODULE MCSnmpTimers ----------------------------
(* SnmpTimers with two platforms and short countdowns.                     *)
EXTENDS SnmpTimers

CONSTANTS p1, p2

MCOrder == <<p1, p2>>

=============================================================================
