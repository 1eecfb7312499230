---------------------------- MODULE MCAlarmPath ----------------------------
(* AlarmPath with two devices that number their warnings alike.            *)
EXTENDS AlarmPath

MCWarnings == {[device |-> "d1", fnum |-> 1], [device |-> "d2", fnum |-> 1]}
MCSwapped == {"d2"}
MCAlive   == {"d1"}

=============================================================================
