---------------------------- MODULE MCGateway ------------------------------
(* The transport service with two interchangeable sinks. *)
EXTENDS Gateway, TLC

MCSymmetry == Permutations(Sinks)
=============================================================================
