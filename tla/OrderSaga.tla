----------------------------- MODULE OrderSaga ------------------------------
(***************************************************************************)
(* What the order service promises to a client and to the services that    *)
(* listen to it, without tables, workers, consumers or offsets: an order   *)
(* goes from CREATED over AWAITING_STOCK to one verdict, and an event is   *)
(* announced only when the order has (or had) the status it speaks of.     *)
(***************************************************************************)
CONSTANTS Orders

VARIABLES
    status,     \* status[o], "NONE" before the order is accepted
    announced   \* announced[o]: events of o that were made public

vars == <<status, announced>>

Verdicts == {"CONFIRMED", "CANCELLED"}

EventOf(s) == IF s = "CONFIRMED" THEN "order.confirmed" ELSE "order.cancelled"

Init ==
    /\ status    = [o \in Orders |-> "NONE"]
    /\ announced = [o \in Orders |-> {}]

Accept(o) ==
    /\ status[o] = "NONE"
    /\ status' = [status EXCEPT ![o] = "CREATED"]
    /\ UNCHANGED announced

\* Listeners may hear of an order before its status is AWAITING_STOCK,
\* and of a verdict only after the verdict was taken.
Announce(o, e) ==
    /\ \/ e = "order.created" /\ status[o] # "NONE"
       \/ status[o] \in Verdicts /\ e = EventOf(status[o])
    /\ announced' = [announced EXCEPT ![o] = @ \cup {e}]
    /\ UNCHANGED status

\* One step may move several orders: they were published in one batch.
AwaitStock(moved) ==
    /\ \A o \in moved : /\ status[o] = "CREATED"
                        /\ "order.created" \in announced[o]
    /\ status' = [o \in Orders |-> IF o \in moved THEN "AWAITING_STOCK"
                                                  ELSE status[o]]
    /\ UNCHANGED announced

Decide(o, verdict) ==
    /\ status[o] = "AWAITING_STOCK"
    /\ status' = [status EXCEPT ![o] = verdict]
    /\ UNCHANGED announced

Next ==
    \/ \E o \in Orders : Accept(o)
    \/ \E o \in Orders, e \in {"order.created", "order.confirmed", "order.cancelled"} :
            Announce(o, e)
    \/ \E moved \in SUBSET Orders : AwaitStock(moved)
    \/ \E o \in Orders, verdict \in Verdicts : Decide(o, verdict)

Spec == Init /\ [][Next]_vars

=============================================================================
