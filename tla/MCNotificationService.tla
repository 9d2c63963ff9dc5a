----------------------- MODULE MCNotificationService ------------------------
(* Small instances of NotificationService for TLC. *)
EXTENDS NotificationService, TLC

MCMessages(created, confirmed, cancelled) ==
    [t \in Topics |-> CASE t = "order.created"   -> created
                        [] t = "order.confirmed" -> confirmed
                        [] t = "order.cancelled" -> cancelled]

Duplicated == MCMessages(2, 1, 1)
OneEach    == MCMessages(1, 1, 0)

MCFaults(error, commit, rebalance, restart) ==
    [k \in FaultKinds |-> CASE k = "error"     -> error
                            [] k = "commit"    -> commit
                            [] k = "rebalance" -> rebalance
                            [] k = "restart"   -> restart]

Every    == MCFaults(1, 1, 1, 1)
NoFaults == MCFaults(0, 0, 0, 0)


=============================================================================
