----------------------------- MODULE MCAttendance -----------------------------
(* Attendance with two windows updateRoom switches between, one of them without a *)
(* late part, and with interchangeable requests.                                 *)
EXTENDS Attendance, TLC

MCWindows == {[opens |-> 1, closes |-> 1, after |-> 1], [opens |-> 0, closes |-> 1, after |-> 0]}

Symmetry == Permutations(Requests)
=============================================================================
