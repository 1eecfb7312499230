------------------------------- MODULE MCLamp -------------------------------
(* Lamp with four requests: one alarm, a second one of another grade, the  *)
(* first one over, and all over.                                           *)
EXTENDS Lamp

Of(f, s, c, sound) ==
  [count |-> [g \in Grades |-> IF g = "fatal" THEN f ELSE IF g = "serious" THEN s ELSE c],
   sound |-> sound]

MCRequests ==
  {Of(1, 0, 0, {"fatal"}), Of(1, 1, 1, {"serious", "common"}), Of(0, 1, 1, {}), Of(0, 0, 0, {})}

=============================================================================
