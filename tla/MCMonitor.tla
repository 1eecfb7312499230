----------------------------- MODULE MCMonitor -----------------------------
(* Monitor on small instances: two addresses, and two tables the database  *)
(* may hold, one of them with two subsystems on one server.                *)
EXTENDS Monitor

CONSTANTS s1, s2, s3, a1, a2

R(s, a) == [sys |-> s, ip |-> a]

MCSystems == {s1, s2, s3}
MCAddrs   == {a1, a2}
MCTables  == {<<R(s1, a1), R(s2, a2), R(s3, a1)>>, <<R(s2, a1)>>}

=============================================================================
