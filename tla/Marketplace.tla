---------------------------- MODULE Marketplace -----------------------------
(***************************************************************************)
(* The order service and the inventory service together: what one leaves   *)
(* to its environment is what the other does.  They share nothing but the  *)
(* topics in `log'; the inventory reads order.created from it, and its     *)
(* outbox workers write the two result topics.                             *)
(***************************************************************************)
EXTENDS Integers, Sequences, FiniteSets, Functions

CONSTANTS
    Orders,         \* order ids
    SKUs,           \* stock keeping units
    Items,          \* Items[o]: the lines [sku, qty] of order o
    InitialStock,   \* available units, for the SKUs with a row
    BatchSize,      \* rows one outbox worker takes per tick
    Workers,        \* outbox workers of the order service
    Instances,      \* processes of the order service
    MaxFaults,      \* bound: their faults, per kind
    MaxResults,     \* bound: messages per result topic
    StockWorkers,   \* outbox workers of the inventory service
    MaxRelayFaults, \* bound: their faults, per kind
    Consumers,      \* processes of the inventory service
    MaxStockFaults, \* bound: their faults, per kind
    MaxRestocks,    \* bound: restocks of one SKU
    MaxMessages,    \* bound: messages in order.created
    MaxAllFaults    \* bound: faults of all kinds in all services

VARIABLES
    status, version, outbox, batch, marked, group, handler, faults,
    log,
    stock, processed, answers, stockGroup, consumer, held, local, restocks,
    stockFaults,
    sent, stockBatch, stockMarked, relayFaults

orderVars == <<status, version, outbox, batch, marked, group, handler, faults>>
stockVars == <<stock, processed, stockGroup, consumer, held, local, restocks,
               stockFaults>>
relayVars == <<sent, stockBatch, stockMarked, relayFaults>>
vars      == <<orderVars, log, stockVars, answers, relayVars>>

OS == INSTANCE OrderService

IS == INSTANCE InventoryService
        WITH outbox <- answers, log <- log["order.created"],
             group <- stockGroup, handler <- consumer, faults <- stockFaults,
             Instances <- Consumers, MaxFaults <- MaxStockFaults

Relay == INSTANCE InventoryOutbox
           WITH batch <- stockBatch, marked <- stockMarked,
                faults <- relayFaults,
                Workers <- StockWorkers, MaxFaults <- MaxRelayFaults

\* What the modules of the services assume, and the numbers of faults.
ASSUME MarketplaceAssumption ==
    /\ DOMAIN Items = Orders
    /\ \A o \in Orders : Items[o] \in Seq([sku : SKUs, qty : Int])
    /\ DOMAIN InitialStock \subseteq SKUs
    /\ \A s \in DOMAIN InitialStock : InitialStock[s] \in Nat
    /\ BatchSize \in Nat \ {0}
    /\ Instances # {}
    /\ MaxResults \in Nat /\ MaxMessages \in Nat /\ MaxRestocks \in Nat
    /\ MaxAllFaults \in Nat
    /\ MaxFaults \in [OS!FaultKinds -> Nat]
    /\ MaxStockFaults \in [IS!FaultKinds -> Nat]
    /\ MaxRelayFaults \in [Relay!FaultKinds -> Nat]

-----------------------------------------------------------------------------
Happened(counts) == FoldFunction(LAMBDA n, m : n + m, 0, counts)

FaultsLeft ==
    Happened(faults) + Happened(stockFaults) + Happened(relayFaults) < MaxAllFaults

Init == OS!Init /\ IS!Init /\ Relay!Init

CreateOrder(o) == OS!CreateOrder(o) /\ UNCHANGED <<stockVars, answers, relayVars>>

OrderWorker(w) == OS!WorkerStep(w) /\ UNCHANGED <<stockVars, answers, relayVars>>

OrderWorkerFault(w) ==
    /\ FaultsLeft
    /\ OS!PublishUnacked(w) \/ OS!Rollback(w)
    /\ UNCHANGED <<stockVars, answers, relayVars>>

ResultConsumer(i, t) ==
    OS!HandlerStep(i, t) /\ UNCHANGED <<stockVars, answers, relayVars>>

ResultConsumerFault(i) ==
    /\ FaultsLeft
    /\ OS!Restart(i) \/ \E t \in OS!ResultTopics : OS!HandlerFault(i, t)
    /\ UNCHANGED <<stockVars, answers, relayVars>>

StockConsumer(i) ==
    /\ UNCHANGED <<orderVars, log, relayVars>>
    /\ IS!ConsumerStep(i)

StockConsumerFault(i) ==
    /\ FaultsLeft
    /\ UNCHANGED <<orderVars, log, relayVars>>
    /\ IS!ConsumerFault(i)

StockWorker(w) == Relay!WorkerStep(w) /\ UNCHANGED <<orderVars, stockVars>>

StockWorkerFault(w) ==
    /\ FaultsLeft
    /\ Relay!WorkerFault(w)
    /\ UNCHANGED <<orderVars, stockVars>>

Next ==
    \/ \E o \in Orders : CreateOrder(o)
    \/ \E w \in Workers : OrderWorker(w) \/ OrderWorkerFault(w)
    \/ \E i \in Instances : \/ \E t \in OS!ResultTopics : ResultConsumer(i, t)
                            \/ ResultConsumerFault(i)
    \/ \E i \in Consumers : StockConsumer(i) \/ StockConsumerFault(i)
    \/ \E w \in StockWorkers : StockWorker(w) \/ StockWorkerFault(w)

Spec == Init /\ [][Next]_vars

\* Every loop runs as long as its process does; only clients need not come.
Fairness ==
    /\ \A w \in Workers : WF_vars(OrderWorker(w))
    /\ \A i \in Instances, t \in OS!ResultTopics : WF_vars(ResultConsumer(i, t))
    /\ \A i \in Consumers : WF_vars(StockConsumer(i))
    /\ \A w \in StockWorkers : WF_vars(StockWorker(w))

FairSpec == Spec /\ Fairness

-----------------------------------------------------------------------------
(* Properties *)

\* Rows of the inventory's outbox are marked by the worker that locked them,
\* and what is marked or SENT was written.
TypeOK ==
    /\ OS!TypeOK
    /\ IS!TypeOK
    /\ sent \subseteq DOMAIN answers
    /\ stockBatch \in [StockWorkers -> SUBSET (DOMAIN answers)]
    /\ \A w \in StockWorkers : stockMarked[w] \subseteq stockBatch[w]
    /\ relayFaults \in [Relay!FaultKinds -> Nat]

\* An order is CONFIRMED only while its units are reserved, and CANCELLED
\* only when none are: no customer is promised units that nobody holds, and
\* no units are held for an order that was given up.  Five processes and
\* four transactions lie between the reservation and the status
\* (stock_repo.go:23-129, stock_result_consumer.go:96-140).
VerdictMatchesStock ==
    \A o \in Orders :
        /\ status[o] = "CONFIRMED" => o \in processed
        /\ status[o] = "CANCELLED" => o \notin processed

\* Without a restock no order is both reserved and refused, whichever messages
\* the order service's outbox worker publishes twice: a duplicate of a
\* reserved order ends in ErrAlreadyProcessed (stock_repo.go:32-40).
NeverBothAnswers == IS!NeverBothAnswers

\* The inventory's committed offset never passes an order without an answer,
\* over restarts and failed commits, as long as no call of a handler fails
\* (order_created_consumer.go:75-88).
CommittedIsAnswered == IS!CommittedIsAnswered

\* Each service does what the other one's module assumes of it: the answers
\* are StockResult steps, the published orders are OrderPublished steps.
ServicesFit == OS!Spec /\ IS!Spec

Answered(o) == o \in OS!Published("stock.reserved") \cup OS!Published("stock.failed")

\* The inventory's answer to every accepted order is published, over
\* rollbacks, lost acknowledgements, duplicates and restarts on either side.
EveryOrderAnswered == \A o \in Orders : status[o] # "NONE" ~> Answered(o)

=============================================================================
