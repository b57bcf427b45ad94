-------------------------- MODULE MCPrayerService --------------------------
(* PrayerService on a small instance: an offset that changes on the last day, or never; a file of    *)
(* the mosque for the second day of a year only, whose jamat the second configuration refuses.       *)
EXTENDS PrayerService

CONSTANTS c1, c2

MCOffset == [d \in Days |-> IF d = LastDay THEN 60 ELSE 0]
MCFixed  == [d \in Days |-> 0]
MCUploads == {{1}}
MCRefused == {<<1, c2>>}
=============================================================================
