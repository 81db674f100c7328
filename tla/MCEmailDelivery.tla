-------------------------- MODULE MCEmailDelivery --------------------------
(* TLC instances of EmailDelivery. *)
EXTENDS EmailDelivery, TLC

\* Workers and rows are interchangeable.  Only for runs without liveness.
Symmetry == Permutations(Workers) \cup Permutations(Deliveries)
=============================================================================
