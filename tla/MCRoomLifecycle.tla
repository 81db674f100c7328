-------------------------- MODULE MCRoomLifecycle --------------------------
(* TLC instances of RoomLifecycle. *)
EXTENDS RoomLifecycle, TLC

\* Requests and servers are interchangeable.  Only for runs without liveness.
Symmetry == Permutations(Requests) \cup Permutations(Pollers)
=============================================================================
