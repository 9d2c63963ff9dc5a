--------------------------- MODULE MCMarketplace ----------------------------
(* Small instances of Marketplace for TLC. *)
EXTENDS Marketplace, TLC

\* Two orders that do not fit into the stock together, one of them with two
\* lines of the SKU: after the other order each line fits, but not both.
Line    == [sku |-> "s1", qty |-> 1]
Rivals  == [o1 |-> <<Line>>, o2 |-> <<Line, Line>>]
TwoUnits == [s1 |-> 2]

\* One fault of any kind, but the error of a handler, which loses a message.
RelayFaults == [rollback |-> 1, ack |-> 1]
StockFaults == [error |-> 0, commit |-> 1, rebalance |-> 1]
OrderFaults == RelayFaults @@ StockFaults

=============================================================================
