----------------------------- MODULE MCGateway ------------------------------
(* Small instances of Gateway for TLC. *)
EXTENDS Gateway, TLC

\* The first gateway agrees with Redis, the second is a tick behind.
Behind == [g \in Gateways |-> IF g = "g1" THEN 0 ELSE -1]

RequestsAreAlike == Permutations(Requests)

=============================================================================
