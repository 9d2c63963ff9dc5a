--------------------------- MODULE MCOrderService ---------------------------
(* Small instances of OrderService for TLC. *)
EXTENDS OrderService, TLC

\* Every order of the instance has one line: Items only matters when empty.
MCItems == [o \in Orders |-> <<"sku">>]

MCFaults(rollback, ack, error, commit, rebalance) ==
    [k \in FaultKinds |-> CASE k = "rollback"  -> rollback
                            [] k = "ack"       -> ack
                            [] k = "error"     -> error
                            [] k = "commit"    -> commit
                            [] k = "rebalance" -> rebalance]

EveryFaultButAck == MCFaults(1, 0, 1, 1, 1)
AckAndRebalance  == MCFaults(0, 1, 0, 0, 1)
NoFaults         == MCFaults(0, 0, 0, 0, 0)

AllAlike ==
    Permutations(Orders) \cup Permutations(Workers) \cup Permutations(Instances)

=============================================================================
