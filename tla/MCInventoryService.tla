------------------------- MODULE MCInventoryService -------------------------
(* Small instances of InventoryService for TLC. *)
EXTENDS InventoryService, TLC

L(s, n) == [sku |-> s, qty |-> n]

\* Two orders that want both SKUs, which suffice for one of them, and one
\* with three lines of one SKU: the first two only fit together after a
\* restock, the third has a quantity that the gateway would have rejected.
Rivals == [o1 |-> <<L("s1", 1), L("s2", 1)>>,
           o2 |-> <<L("s2", 1), L("s1", 1)>>,
           o3 |-> <<L("s1", 1), L("s1", 1), L("s1", 0)>>]
RivalStock == [s1 |-> 1, s2 |-> 1]

MCFaults(error, commit, rebalance) ==
    [k \in FaultKinds |-> CASE k = "error" -> error
                            [] k = "commit" -> commit
                            [] k = "rebalance" -> rebalance]

Everything    == MCFaults(1, 1, 1)
OneError      == MCFaults(1, 0, 0)
OneRebalance  == MCFaults(0, 0, 1)

=============================================================================
