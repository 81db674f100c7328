---------------------------- MODULE MCRetention ----------------------------
(* Timers of one job at a time: the two jobs sweep different tables and share *)
(* nothing but the holds, which each pass reads for itself.                   *)
EXTENDS Retention

MCTimers == {[x \in Passes |-> j] : j \in {"audit", "data"}}
CONSTANTS o1, o2, a3, a4
MCOwner == [r \in Rows |-> IF r \in {a3, a4} THEN o2 ELSE o1]
=============================================================================
