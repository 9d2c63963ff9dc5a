------------------------- MODULE MarketplaceProofs --------------------------
(***************************************************************************)
(* What is proved of each service alone, carried over to the two together: *)
(* the environment that a service was proved in is there for any orders,   *)
(* stock, processes, faults and bounds, and the chain from a verdict back  *)
(* to the stock holds across both.                                         *)
(***************************************************************************)
EXTENDS Marketplace, SequenceTheorems, FiniteSetTheorems, TLAPS

\* The services with their theorems.
OSP == INSTANCE OrderServiceProofs

ISP == INSTANCE InventoryServiceProofs
         WITH outbox <- answers, log <- log["order.created"],
              group <- stockGroup, handler <- consumer, faults <- stockFaults,
              Instances <- Consumers, MaxFaults <- MaxStockFaults

Results == {"stock.reserved", "stock.failed"}

AnsweredBy(o, t) == \E k \in DOMAIN answers : answers[k].order = o /\ answers[k].type = t

RelayTyped ==
    /\ sent \subseteq DOMAIN answers
    /\ stockBatch \in [StockWorkers -> SUBSET (DOMAIN answers)]
    /\ stockMarked \in [StockWorkers -> SUBSET (DOMAIN answers)]
    /\ \A w \in StockWorkers : stockMarked[w] \subseteq stockBatch[w]
    /\ relayFaults \in [Relay!FaultKinds -> Nat]

\* The links between the services: only accepted orders are answered, and a
\* result is an answer that was written.
AnswersKnown ==
    \A k \in DOMAIN answers : answers[k].order \in OSP!Published("order.created")

ResultIsAnswer ==
    \A t \in Results, o \in Orders : o \in OSP!Published(t) => AnsweredBy(o, t)

Links  == RelayTyped /\ AnswersKnown /\ ResultIsAnswer
IndInv == OSP!IndInv /\ ISP!IndInv /\ Links

-----------------------------------------------------------------------------
(* The definitions of the services and of their proof modules are the same *)

\* What their theorems assume of the constants.
LEMMA Assumed ==
    /\ DOMAIN Items = Orders
    /\ BatchSize \in Nat \ {0}
    /\ Instances # {}
    /\ MaxResults \in Nat
    /\ MaxFaults \in [OSP!FaultKinds -> Nat]
    /\ \A o \in Orders : Items[o] \in Seq([sku : SKUs, qty : Int])
    /\ ISP!Stocked \subseteq SKUs
    /\ \A s \in ISP!Stocked : InitialStock[s] \in Nat
    /\ MaxMessages \in Nat /\ MaxRestocks \in Nat
    /\ MaxStockFaults \in [ISP!FaultKinds -> Nat]
BY MarketplaceAssumption
   DEF OS!FaultKinds, OSP!FaultKinds, IS!FaultKinds, ISP!FaultKinds, ISP!Stocked

LEMMA SameFaults ==
    /\ \A k : OS!Fault(k) <=> OSP!Fault(k)
    /\ \A k : IS!Fault(k) <=> ISP!Fault(k)
BY DEF OS!Fault, OSP!Fault, IS!Fault, ISP!Fault

LEMMA SameVariables ==
    /\ OSP!vars = <<status, version, outbox, batch, marked, log, group, handler, faults>>
    /\ ISP!vars = <<stock, processed, answers, log["order.created"], stockGroup, consumer,
                    held, local, restocks, stockFaults>>
BY DEF OSP!vars, ISP!vars

LEMMA SameInit == (OS!Init => OSP!Init) /\ (IS!Init => ISP!Init)
<1>1. OS!Init => OSP!Init
  BY DEF OS!Init, OS!NoOrder, OS!Topics, OS!OrderEvents, OS!ResultTopics, OS!NewGroup,
     OS!Idle, OS!FaultKinds, OSP!Init, OSP!NoOrder, OSP!Topics, OSP!OrderEvents,
     OSP!ResultTopics, OSP!NewGroup, OSP!Idle, OSP!FaultKinds
<1>2. IS!Init => ISP!Init
  BY DEF IS!Init, IS!Stocked, IS!NewGroup, IS!Idle, IS!NoRows, IS!FaultKinds,
     ISP!Init, ISP!Stocked, ISP!NewGroup, ISP!Idle, ISP!NoRows, ISP!FaultKinds
<1> QED
  BY <1>1, <1>2

LEMMA SameCreate == ASSUME NEW o PROVE OS!CreateOrder(o) <=> OSP!CreateOrder(o)
BY DEF OS!CreateOrder, OS!NoOrder, OS!PendingRow, OS!workerTx,
   OSP!CreateOrder, OSP!NoOrder, OSP!PendingRow, OSP!workerTx

LEMMA SameWorker ==
    ASSUME NEW w
    PROVE  /\ OS!WorkerStep(w) <=> OSP!WorkerStep(w)
           /\ OS!PublishUnacked(w) <=> OSP!PublishUnacked(w)
           /\ OS!Rollback(w) <=> OSP!Rollback(w)
<1>1. OS!fetchPendingTx(w) <=> OSP!fetchPendingTx(w)
  <2>1. OS!Locked = OSP!Locked /\ OS!Pending = OSP!Pending
    BY DEF OS!Locked, OSP!Locked, OS!Pending, OSP!Pending
  <2>2. \A n, rows : OS!Oldest(n, rows) = OSP!Oldest(n, rows)
    BY Zenon DEF OS!Oldest, OS!Cardinality, OSP!Oldest, OSP!Cardinality
  <2>3. OS!Fetchable = OSP!Fetchable
    BY <2>1, <2>2 DEF OS!Fetchable, OSP!Fetchable
  <2> QED
    BY <2>3 DEF OS!fetchPendingTx, OS!db, OSP!fetchPendingTx, OSP!db
<1>2. OS!Publish(w) <=> OSP!Publish(w)
  BY DEF OS!Publish, OS!NextRecord, OS!AppendToTopic, OS!db,
     OSP!Publish, OSP!NextRecord, OSP!AppendToTopic, OSP!db
<1>3. OS!CommitBatch(w) <=> OSP!CommitBatch(w)
  BY DEF OS!CommitBatch, OS!transitionToAwaitingStockTx,
     OSP!CommitBatch, OSP!transitionToAwaitingStockTx
<1>4. OS!PublishUnacked(w) <=> OSP!PublishUnacked(w)
  BY SameFaults DEF OS!PublishUnacked, OS!NextRecord, OS!AppendToTopic, OS!db, OS!workerTx,
     OSP!PublishUnacked, OSP!NextRecord, OSP!AppendToTopic, OSP!db, OSP!workerTx
<1>5. OS!Rollback(w) <=> OSP!Rollback(w)
  BY SameFaults DEF OS!Rollback, OS!db, OSP!Rollback, OSP!db
<1> QED
  BY <1>1, <1>2, <1>3, <1>4, <1>5 DEF OS!WorkerStep, OSP!WorkerStep

LEMMA SameHandler ==
    ASSUME NEW i, NEW t
    PROVE  /\ OS!HandlerStep(i, t) <=> OSP!HandlerStep(i, t)
           /\ OS!HandlerFault(i, t) <=> OSP!HandlerFault(i, t)
           /\ OS!Restart(i) <=> OSP!Restart(i)
<1>1. OS!FetchMessage(i, t) <=> OSP!FetchMessage(i, t)
  BY DEF OS!FetchMessage, OS!HasNext, OS!Deliver, OS!SetHandler, OS!Idle, OS!db, OS!workerTx,
     OSP!FetchMessage, OSP!HasNext, OSP!Deliver, OSP!SetHandler, OSP!Idle, OSP!db, OSP!workerTx
<1>2. OS!GetAndTransition(i, t) <=> OSP!GetAndTransition(i, t)
  BY DEF OS!GetAndTransition, OS!Subject, OS!TransitionTo, OS!allowedTransactions,
     OS!Statuses, OS!Verdict, OS!SetHandler, OS!db, OS!workerTx,
     OSP!GetAndTransition, OSP!Subject, OSP!TransitionTo, OSP!allowedTransactions,
     OSP!Statuses, OSP!Verdict, OSP!SetHandler, OSP!db, OSP!workerTx
<1>3. /\ OS!VersionMatches(i, t) <=> OSP!VersionMatches(i, t)
      /\ OS!Subject(i, t) = OSP!Subject(i, t)
  BY DEF OS!VersionMatches, OS!Subject, OSP!VersionMatches, OSP!Subject
<1>4. \A o : OS!ApplyVerdict(o, t) <=> OSP!ApplyVerdict(o, t)
  BY DEF OS!ApplyVerdict, OS!PendingRow, OS!Verdict, OS!buildStatusEvent,
     OSP!ApplyVerdict, OSP!PendingRow, OSP!Verdict, OSP!buildStatusEvent
<1>5. /\ OS!UpdateStatusWithEvent(i, t) <=> OSP!UpdateStatusWithEvent(i, t)
      /\ OS!UpdateReplyLost(i, t) <=> OSP!UpdateReplyLost(i, t)
  BY <1>3, <1>4, SameFaults
     DEF OS!UpdateStatusWithEvent, OS!UpdateReplyLost, OS!SetHandler, OS!Idle, OS!workerTx,
     OSP!UpdateStatusWithEvent, OSP!UpdateReplyLost, OSP!SetHandler, OSP!Idle, OSP!workerTx
<1>6. OS!OptimisticLockConflict(i, t) <=> OSP!OptimisticLockConflict(i, t)
  BY <1>3 DEF OS!OptimisticLockConflict, OS!SetHandler, OS!Idle, OS!maxRetries, OS!db,
     OS!workerTx, OSP!OptimisticLockConflict, OSP!SetHandler, OSP!Idle, OSP!maxRetries,
     OSP!db, OSP!workerTx
<1>7. /\ OS!CommitMessages(i, t) <=> OSP!CommitMessages(i, t)
      /\ OS!CommitError(i, t) <=> OSP!CommitError(i, t)
      /\ OS!HandlerError(i, t) <=> OSP!HandlerError(i, t)
  BY SameFaults DEF OS!CommitMessages, OS!CommitError, OS!HandlerError, OS!CommitOffset,
     OS!SetHandler, OS!Idle, OS!db, OS!workerTx,
     OSP!CommitMessages, OSP!CommitError, OSP!HandlerError, OSP!CommitOffset,
     OSP!SetHandler, OSP!Idle, OSP!db, OSP!workerTx
<1>8. OS!Rebalance(t, i) <=> OSP!Rebalance(t, i)
  BY SameFaults DEF OS!Rebalance, OS!Reassign, OS!db, OS!workerTx,
     OSP!Rebalance, OSP!Reassign, OSP!db, OSP!workerTx
<1>9. OS!Restart(i) <=> OSP!Restart(i)
  BY SameFaults DEF OS!Restart, OS!Reassign, OS!ResultTopics, OS!Idle, OS!db, OS!workerTx,
     OSP!Restart, OSP!Reassign, OSP!ResultTopics, OSP!Idle, OSP!db, OSP!workerTx
<1> QED
  BY <1>1, <1>2, <1>5, <1>6, <1>7, <1>8, <1>9
     DEF OS!HandlerStep, OS!HandlerFault, OSP!HandlerStep, OSP!HandlerFault

LEMMA SameConsumerTerms ==
    ASSUME NEW i
    PROVE  /\ IS!Subject(i) = ISP!Subject(i)
           /\ IS!Lines(i) = ISP!Lines(i)
           /\ IS!Line(i) = ISP!Line(i)
           /\ IS!Stocked = ISP!Stocked
           /\ IS!Wanted(i) = ISP!Wanted(i)
           /\ IS!AllCovered(i) <=> ISP!AllCovered(i)
           /\ IS!AllReserved(i) <=> ISP!AllReserved(i)
           /\ IS!Released(i) <=> ISP!Released(i)
           /\ IS!Stop(i) <=> ISP!Stop(i)
           /\ \A pc : IS!Goto(i, pc) <=> ISP!Goto(i, pc)
           /\ IS!Write(i) <=> ISP!Write(i)
           /\ \A o, t : IS!Answer(o, t) <=> ISP!Answer(o, t)
<1>1. /\ IS!Subject(i) = ISP!Subject(i)
      /\ IS!Lines(i) = ISP!Lines(i)
      /\ IS!Line(i) = ISP!Line(i)
      /\ IS!Stocked = ISP!Stocked
  BY DEF IS!Subject, IS!Lines, IS!Line, IS!Stocked,
     ISP!Subject, ISP!Lines, ISP!Line, ISP!Stocked
<1>2. IS!Wanted(i) = ISP!Wanted(i) /\ (IS!AllReserved(i) <=> ISP!AllReserved(i))
  BY <1>1 DEF IS!Wanted, IS!AllReserved, ISP!Wanted, ISP!AllReserved
<1>3. IS!AllCovered(i) <=> ISP!AllCovered(i)
  BY <1>1 DEF IS!AllCovered, IS!LineIsCovered, ISP!AllCovered, ISP!LineIsCovered
<1>4. /\ IS!Released(i) <=> ISP!Released(i)
      /\ IS!Stop(i) <=> ISP!Stop(i)
      /\ \A pc : IS!Goto(i, pc) <=> ISP!Goto(i, pc)
  BY <1>1 DEF IS!Released, IS!NoRows, IS!Stop, IS!Idle, IS!Goto,
     ISP!Released, ISP!NoRows, ISP!Stop, ISP!Idle, ISP!Goto
<1>5. \A o, t : IS!Answer(o, t) <=> ISP!Answer(o, t)
  BY DEF IS!Answer, ISP!Answer
<1>6. IS!Write(i) <=> ISP!Write(i)
  BY <1>1, <1>5 DEF IS!Write, ISP!Write
<1> QED
  BY <1>1, <1>2, <1>3, <1>4, <1>5, <1>6

LEMMA SameConsumer ==
    ASSUME NEW i
    PROVE  /\ IS!ConsumerStep(i) <=> ISP!ConsumerStep(i)
           /\ IS!ConsumerFault(i) <=> ISP!ConsumerFault(i)
           /\ IS!HandlerError(i) <=> ISP!HandlerError(i)
           /\ IS!DeadlockVictim(i) <=> ISP!DeadlockVictim(i)
           /\ IS!LineInvalid(i) <=> ISP!LineInvalid(i)
<1> USE SameConsumerTerms DEF IS!tables, IS!env, IS!tx, ISP!tables, ISP!env, ISP!tx
<1>1. /\ IS!FetchMessage(i) <=> ISP!FetchMessage(i)
      /\ IS!CommitMessages(i) <=> ISP!CommitMessages(i)
  BY DEF IS!FetchMessage, IS!CommitMessages, IS!HasNext, IS!Deliver, IS!CommitOffset,
     ISP!FetchMessage, ISP!CommitMessages, ISP!HasNext, ISP!Deliver, ISP!CommitOffset
<1>2. /\ IS!AlreadyProcessed(i) <=> ISP!AlreadyProcessed(i)
      /\ IS!NotProcessed(i) <=> ISP!NotProcessed(i)
      /\ IS!StockChecked(i) <=> ISP!StockChecked(i)
      /\ IS!StockRefused(i) <=> ISP!StockRefused(i)
  BY DEF IS!AlreadyProcessed, IS!NotProcessed, IS!StockChecked, IS!StockRefused,
     ISP!AlreadyProcessed, ISP!NotProcessed, ISP!StockChecked, ISP!StockRefused
<1>3. \A s : IS!LockRow(i, s) <=> ISP!LockRow(i, s)
  BY DEF IS!LockRow, IS!RowIsFree, ISP!LockRow, ISP!RowIsFree
<1>4. IS!ReserveLine(i) <=> ISP!ReserveLine(i)
  BY DEF IS!ReserveLine, ISP!ReserveLine
<1>5. /\ IS!LineRefused(i) <=> ISP!LineRefused(i)
      /\ IS!LineInvalid(i) <=> ISP!LineInvalid(i)
      /\ IS!RecordFailure(i) <=> ISP!RecordFailure(i)
  BY DEF IS!LineRefused, IS!LineInvalid, IS!RecordFailure,
     ISP!LineRefused, ISP!LineInvalid, ISP!RecordFailure
<1>6. /\ IS!CommitReservation(i) <=> ISP!CommitReservation(i)
      /\ IS!UniqueViolation(i) <=> ISP!UniqueViolation(i)
      /\ IS!CommitReplyLost(i) <=> ISP!CommitReplyLost(i)
  BY SameFaults DEF IS!CommitReservation, IS!UniqueViolation, IS!CommitReplyLost,
     ISP!CommitReservation, ISP!UniqueViolation, ISP!CommitReplyLost
<1>7. IS!DeadlockVictim(i) <=> ISP!DeadlockVictim(i)
  <2>1. \A j : IS!Wanted(j) = ISP!Wanted(j)
    OBVIOUS
  <2> QED
    BY <2>1 DEF IS!DeadlockVictim, ISP!DeadlockVictim
<1>8. /\ IS!HandlerError(i) <=> ISP!HandlerError(i)
      /\ IS!CommitError(i) <=> ISP!CommitError(i)
      /\ IS!Rebalance(i) <=> ISP!Rebalance(i)
      /\ IS!Restart(i) <=> ISP!Restart(i)
  BY SameFaults DEF IS!HandlerError, IS!CommitError, IS!Rebalance, IS!Restart, IS!Reassign,
     ISP!HandlerError, ISP!CommitError, ISP!Rebalance, ISP!Restart, ISP!Reassign
<1>9. IS!ReserveStep(i) <=> ISP!ReserveStep(i)
  BY <1>2, <1>3, <1>4, <1>5, <1>6, <1>7 DEF IS!ReserveStep, ISP!ReserveStep
<1> QED
  BY <1>1, <1>5, <1>6, <1>7, <1>8, <1>9
     DEF IS!ConsumerStep, IS!ConsumerFault, ISP!ConsumerStep, ISP!ConsumerFault

-----------------------------------------------------------------------------
(* What a step of the marketplace is to each service *)

\* An answer that is published, to the topic it is named for.
LEMMA RelayPublishes ==
    ASSUME IndInv, NEW w \in StockWorkers, Relay!Publish(w) \/ Relay!PublishUnacked(w)
    PROVE  \E t \in Results, o \in OSP!Published("order.created") :
              AnsweredBy(o, t) /\ log' = [log EXCEPT ![t] = Append(@, o)]
<1>1. PICK r \in stockBatch[w] : Relay!AppendToTopic(r)
  BY DEF Relay!Publish, Relay!PublishUnacked
<1>2. r \in DOMAIN answers
  BY DEF IndInv, Links, RelayTyped
<1>3. answers[r] \in ISP!AnswerRow
  BY <1>2, ElementOfSeq, LenProperties DEF IndInv, ISP!IndInv, ISP!TypeOK
<1>4. answers[r].type \in Results /\ answers[r].order \in OSP!Published("order.created")
  BY <1>2, <1>3 DEF ISP!AnswerRow, Results, IndInv, Links, AnswersKnown
<1> QED
  BY <1>1, <1>2, <1>4 DEF Relay!AppendToTopic, AnsweredBy

\* An event that is published, to the topic of its type.
LEMMA OrdersPublish ==
    ASSUME IndInv, NEW w \in Workers, OSP!Publish(w) \/ OSP!PublishUnacked(w)
    PROVE  \E t \in OSP!OrderEvents, o \in Orders : log' = [log EXCEPT ![t] = Append(@, o)]
<1>1. PICK r \in batch[w] : OSP!AppendToTopic(r)
  BY DEF OSP!Publish, OSP!PublishUnacked
<1>2. OSP!TypeOK /\ r \in DOMAIN outbox
  BY DEF IndInv, OSP!IndInv, OSP!TypeOK
<1>3. outbox[r].order \in Orders /\ outbox[r].type \in OSP!OrderEvents
  BY <1>2, Assumed, OSP!RowType
<1> QED
  BY <1>1, <1>3 DEF OSP!AppendToTopic

LEMMA LogTyped == IndInv => /\ log \in [OSP!Topics -> Seq(Orders)]
                            /\ log["order.created"] \in Seq(Orders)
                            /\ Results \subseteq OSP!Topics
                            /\ Results = OSP!ResultTopics
                            /\ OSP!OrderEvents \subseteq OSP!Topics
                            /\ "order.created" \in OSP!OrderEvents \ Results
                            /\ Results \cap OSP!OrderEvents = {}
BY DEF IndInv, OSP!IndInv, OSP!TypeOK, OSP!Topics, OSP!OrderEvents, OSP!ResultTopics, Results

\* To the order service the inventory is an environment that answers orders
\* that were published.
LEMMA OrderSide == IndInv /\ [Next]_vars => [OSP!OpenNext]_(OSP!vars)
<1> SUFFICES ASSUME IndInv, [Next]_vars PROVE [OSP!OpenNext]_(OSP!vars)
  OBVIOUS
<1>1. ASSUME NEW o \in Orders, CreateOrder(o) PROVE OSP!OpenNext
  BY <1>1, SameCreate DEF CreateOrder, OSP!OpenNext
<1>2. ASSUME NEW w \in Workers, OrderWorker(w) \/ OrderWorkerFault(w) PROVE OSP!OpenNext
  BY <1>2, SameWorker DEF OrderWorker, OrderWorkerFault, OSP!OpenNext
<1>3. ASSUME NEW i \in Instances, NEW t \in OS!ResultTopics, ResultConsumer(i, t)
      PROVE  OSP!OpenNext
  BY <1>3, SameHandler DEF ResultConsumer, OSP!OpenNext, OS!ResultTopics, OSP!ResultTopics
<1>4. ASSUME NEW i \in Instances, ResultConsumerFault(i) PROVE OSP!OpenNext
  BY <1>4, SameHandler
     DEF ResultConsumerFault, OSP!OpenNext, OS!ResultTopics, OSP!ResultTopics
<1>5. ASSUME UNCHANGED <<orderVars, log>> PROVE UNCHANGED OSP!vars
  BY <1>5, SameVariables DEF orderVars, OSP!vars
<1>6. ASSUME NEW w \in StockWorkers, StockWorker(w) \/ StockWorkerFault(w)
      PROVE  OSP!OpenNext \/ UNCHANGED OSP!vars
  <2>1. UNCHANGED orderVars
    BY <1>6 DEF StockWorker, StockWorkerFault
  <2>2. CASE Relay!Publish(w) \/ Relay!PublishUnacked(w)
    <3>1. PICK t \in Results, o \in OSP!Published("order.created") :
             log' = [log EXCEPT ![t] = Append(@, o)]
      BY <2>2, RelayPublishes
    <3>2. o \in Orders
      BY LogTyped, ElementOfSeq, LenProperties DEF OSP!Published
    <3>3. OSP!AnyResult(o, t)
      BY <2>1, <3>1 DEF OSP!AnyResult, OSP!db, OSP!workerTx, orderVars
    <3> QED
      BY <3>2, <3>3, LogTyped DEF OSP!OpenNext
  <2>3. CASE UNCHANGED log
    BY <1>5, <2>1, <2>3
  <2> QED
    BY <1>6, <2>2, <2>3 DEF StockWorker, StockWorkerFault, Relay!WorkerStep,
       Relay!WorkerFault, Relay!fetchPendingTx, Relay!CommitBatch, Relay!Rollback
<1>7. ASSUME NEW i \in Consumers, StockConsumer(i) \/ StockConsumerFault(i)
      PROVE  UNCHANGED OSP!vars
  BY <1>5, <1>7 DEF StockConsumer, StockConsumerFault
<1>8. UNCHANGED vars => UNCHANGED OSP!vars
  BY <1>5 DEF vars
<1> QED
  BY <1>1, <1>2, <1>3, <1>4, <1>6, <1>7, <1>8 DEF Next

\* To the inventory the order service is an environment that announces orders.
\* Nobody restocks.
LEMMA StockSide == IndInv /\ [Next]_vars => [ISP!ServiceNext]_(ISP!vars)
<1> SUFFICES ASSUME IndInv, [Next]_vars PROVE [ISP!ServiceNext]_(ISP!vars)
  OBVIOUS
<1>1. ASSUME UNCHANGED <<stockVars, answers>>, log'["order.created"] = log["order.created"]
      PROVE  UNCHANGED ISP!vars
  BY <1>1 DEF stockVars, ISP!vars
<1>2. ASSUME NEW t \in OSP!Topics, t # "order.created", NEW o,
             log' = [log EXCEPT ![t] = Append(@, o)]
      PROVE  log'["order.created"] = log["order.created"]
  BY <1>2, LogTyped
<1>3. ASSUME NEW w \in Workers, OrderWorker(w) \/ OrderWorkerFault(w)
      PROVE  ISP!ServiceNext \/ UNCHANGED ISP!vars
  <2>1. UNCHANGED <<stockVars, answers>>
    BY <1>3 DEF OrderWorker, OrderWorkerFault
  <2>2. CASE OSP!Publish(w) \/ OSP!PublishUnacked(w)
    <3>1. PICK t \in OSP!OrderEvents, o \in Orders : log' = [log EXCEPT ![t] = Append(@, o)]
      BY <2>2, OrdersPublish
    <3>2. CASE t = "order.created"
      <4>1. log'["order.created"] = Append(log["order.created"], o)
        BY <3>1, <3>2, LogTyped
      <4>2. ISP!Announce(o)
        BY <2>1, <4>1 DEF ISP!Announce, ISP!tables, ISP!tx, stockVars
      <4> QED
        BY <4>2 DEF ISP!ServiceNext
    <3>3. CASE t # "order.created"
      BY <1>1, <1>2, <2>1, <3>1, <3>3, LogTyped
    <3> QED
      BY <3>2, <3>3
  <2>3. CASE UNCHANGED log
    BY <1>1, <2>1, <2>3
  <2> QED
    BY <1>3, <2>2, <2>3, SameWorker DEF OrderWorker, OrderWorkerFault, OSP!WorkerStep,
       OSP!fetchPendingTx, OSP!CommitBatch, OSP!Rollback
<1>4. ASSUME NEW i \in Consumers, StockConsumer(i) \/ StockConsumerFault(i)
      PROVE  ISP!ServiceNext
  BY <1>4, SameConsumer DEF StockConsumer, StockConsumerFault, ISP!ServiceNext
<1>5. ASSUME NEW w \in StockWorkers, StockWorker(w) \/ StockWorkerFault(w)
      PROVE  UNCHANGED ISP!vars
  <2>1. UNCHANGED <<stockVars, answers>>
    BY <1>5 DEF StockWorker, StockWorkerFault, Relay!WorkerStep, Relay!WorkerFault,
       Relay!Publish, Relay!PublishUnacked, Relay!fetchPendingTx, Relay!CommitBatch,
       Relay!Rollback
  <2>2. CASE Relay!Publish(w) \/ Relay!PublishUnacked(w)
    BY <1>1, <1>2, <2>1, <2>2, RelayPublishes, LogTyped
  <2>3. CASE UNCHANGED log
    BY <1>1, <2>1, <2>3
  <2> QED
    BY <1>5, <2>2, <2>3 DEF StockWorker, StockWorkerFault, Relay!WorkerStep,
       Relay!WorkerFault, Relay!fetchPendingTx, Relay!CommitBatch, Relay!Rollback
<1>6. ASSUME NEW o \in Orders, CreateOrder(o) PROVE UNCHANGED ISP!vars
  BY <1>1, <1>6 DEF CreateOrder, OS!CreateOrder
<1>7. ASSUME NEW i \in Instances, NEW t \in OS!ResultTopics,
             ResultConsumer(i, t) \/ ResultConsumerFault(i)
      PROVE  UNCHANGED ISP!vars
  <2>1. UNCHANGED log
    BY <1>7 DEF ResultConsumer, ResultConsumerFault, OS!HandlerStep, OS!FetchMessage,
       OS!GetAndTransition, OS!UpdateStatusWithEvent, OS!OptimisticLockConflict,
       OS!CommitMessages, OS!HandlerFault, OS!HandlerError, OS!UpdateReplyLost,
       OS!CommitError, OS!Rebalance, OS!Restart
  <2> QED
    BY <1>1, <1>7, <2>1 DEF ResultConsumer, ResultConsumerFault
<1>8. "stock.reserved" \in OS!ResultTopics
  BY DEF OS!ResultTopics
<1>9. UNCHANGED vars => UNCHANGED ISP!vars
  BY <1>1 DEF vars
<1> QED
  BY <1>3, <1>4, <1>5, <1>6, <1>7, <1>8, <1>9 DEF Next

-----------------------------------------------------------------------------
(* The inductive invariant *)

LEMMA InitInv == Init => IndInv
<1> SUFFICES ASSUME Init PROVE IndInv
  OBVIOUS
<1>1. OSP!IndInv
  BY Assumed, SameInit, OSP!InitInv DEF Init
<1>2. ISP!IndInv
  BY Assumed, SameInit, ISP!InvInit DEF Init
<1>3. answers = <<>> /\ \A t \in Results : log[t] = <<>>
  BY DEF Init, IS!Init, OS!Init, OS!Topics, OS!ResultTopics, Results
<1>4. RelayTyped
  BY <1>3 DEF Init, Relay!Init, RelayTyped, Relay!FaultKinds
<1>5. AnswersKnown /\ ResultIsAnswer
  BY <1>3 DEF AnswersKnown, ResultIsAnswer, OSP!Published
<1> QED
  BY <1>1, <1>2, <1>4, <1>5 DEF IndInv, Links

\* A message more in topic t.
LEMMA Appended ==
    ASSUME IndInv, NEW t \in OSP!Topics, NEW o \in Orders,
           log' = [log EXCEPT ![t] = Append(@, o)]
    PROVE  \A u \in OSP!Topics : \A q : q \in OSP!Published(u)' =>
              q \in OSP!Published(u) \/ (u = t /\ q = o)
<1>1. log[t] \in Seq(Orders)
  BY LogTyped
<1>2. /\ DOMAIN Append(log[t], o) = DOMAIN log[t] \cup {Len(log[t]) + 1}
      /\ \A k \in DOMAIN log[t] : Append(log[t], o)[k] = log[t][k]
      /\ Append(log[t], o)[Len(log[t]) + 1] = o
  BY <1>1, AppendProperties, LenProperties
<1>3. \A u \in OSP!Topics : log'[u] = IF u = t THEN Append(log[t], o) ELSE log[u]
  BY LogTyped
<1> QED
  BY <1>2, <1>3 DEF OSP!Published

\* The rows of the inventory's outbox stay, and a new one answers an order
\* whose order.created is being handled.
LEMMA AnswersGrow ==
    ASSUME IndInv, [Next]_vars
    PROVE  /\ \A k \in DOMAIN answers : k \in DOMAIN answers' /\ answers'[k] = answers[k]
           /\ \A k \in DOMAIN answers' \ DOMAIN answers :
                 answers'[k].order \in OSP!Published("order.created")
<1>1. [ISP!OpenNext]_(ISP!vars) /\ ISP!TypeOK
  BY StockSide DEF IndInv, ISP!IndInv, ISP!OpenNext
<1>2. answers \in Seq(ISP!AnswerRow)
  BY <1>1 DEF ISP!TypeOK
<1>3. ASSUME NEW i \in Consumers, ISP!Working(i), NEW t \in Results,
             ISP!Answer(ISP!Subject(i), t)
      PROVE  /\ \A k \in DOMAIN answers : k \in DOMAIN answers' /\ answers'[k] = answers[k]
             /\ \A k \in DOMAIN answers' \ DOMAIN answers :
                   answers'[k].order \in OSP!Published("order.created")
  <2>1. /\ ISP!Subject(i) \in OSP!Published("order.created")
        /\ ISP!Subject(i) \in Orders
    BY <1>1, <1>3, LogTyped, ElementOfSeq, LenProperties
       DEF ISP!TypeOK, ISP!Working, ISP!Subject, OSP!Published
  <2> DEFINE row == [order |-> ISP!Subject(i), type |-> t]
  <2>2. answers' = Append(answers, row) /\ row.order = ISP!Subject(i)
    BY <1>3 DEF ISP!Answer
  <2>3. row \in ISP!AnswerRow
    BY <2>1 DEF ISP!AnswerRow, Results
  <2> HIDE DEF row
  <2>4. /\ DOMAIN answers' = DOMAIN answers \cup {Len(answers) + 1}
        /\ \A k \in DOMAIN answers : answers'[k] = answers[k]
        /\ answers'[Len(answers) + 1] = row
    BY <1>2, <2>2, <2>3, AppendProperties, LenProperties
  <2> QED
    BY <2>1, <2>2, <2>4
<1>4. CASE UNCHANGED <<processed, answers>>
  BY <1>4
<1>5. ASSUME NEW i \in Consumers, ISP!RecordFailure(i)
      PROVE  \E t \in Results : ISP!Working(i) /\ ISP!Answer(ISP!Subject(i), t)
  BY <1>5 DEF ISP!RecordFailure, ISP!Working, Results
<1>6. ASSUME NEW i \in Consumers, ISP!CommitReservation(i) \/ ISP!CommitReplyLost(i)
      PROVE  \E t \in Results : ISP!Working(i) /\ ISP!Answer(ISP!Subject(i), t)
  BY <1>6 DEF ISP!CommitReservation, ISP!CommitReplyLost, ISP!AllReserved, ISP!Write,
     ISP!Working, Results
<1>7. \/ UNCHANGED <<processed, answers>>
      \/ \E i \in Consumers : \/ ISP!RecordFailure(i)
                              \/ (ISP!CommitReservation(i) \/ ISP!CommitReplyLost(i)) /\ ISP!Write(i)
  BY <1>1, Assumed, ISP!AnswerSteps
<1> QED
  BY <1>3, <1>4, <1>5, <1>6, <1>7

\* The outbox workers of the inventory lock and mark rows that exist.
LEMMA RelayStep ==
    ASSUME IndInv, NEW w \in StockWorkers, Relay!WorkerStep(w) \/ Relay!WorkerFault(w)
    PROVE  RelayTyped'
<1>1. RelayTyped /\ UNCHANGED answers
  BY DEF IndInv, Links, Relay!WorkerStep, Relay!WorkerFault, Relay!fetchPendingTx,
     Relay!Publish, Relay!CommitBatch, Relay!PublishUnacked, Relay!Rollback
<1>2. Relay!Fetchable \subseteq DOMAIN answers
  BY DEF Relay!Fetchable
<1>3. ASSUME NEW k \in Relay!FaultKinds, Relay!Fault(k)
      PROVE  relayFaults' \in [Relay!FaultKinds -> Nat]
  BY <1>1, <1>3 DEF RelayTyped, Relay!Fault
<1>4. CASE Relay!fetchPendingTx(w)
  <2>1. stockMarked[w] = {}
    BY <1>1, <1>4 DEF RelayTyped, Relay!fetchPendingTx
  <2> QED
    BY <1>1, <1>2, <1>4, <2>1 DEF RelayTyped, Relay!fetchPendingTx
<1>5. CASE Relay!Publish(w)
  BY <1>1, <1>5 DEF RelayTyped, Relay!Publish
<1>6. CASE Relay!CommitBatch(w)
  BY <1>1, <1>6 DEF RelayTyped, Relay!CommitBatch
<1>7. CASE Relay!PublishUnacked(w)
  BY <1>1, <1>3, <1>7 DEF RelayTyped, Relay!PublishUnacked, Relay!FaultKinds
<1>8. CASE Relay!Rollback(w)
  BY <1>1, <1>3, <1>8 DEF RelayTyped, Relay!Rollback, Relay!FaultKinds
<1> QED
  BY <1>4, <1>5, <1>6, <1>7, <1>8 DEF Relay!WorkerStep, Relay!WorkerFault

LEMMA RelayTypedNext == IndInv /\ [Next]_vars => RelayTyped'
<1> SUFFICES ASSUME IndInv, [Next]_vars PROVE RelayTyped'
  OBVIOUS
<1>1. ASSUME UNCHANGED relayVars PROVE RelayTyped'
  <2>1. DOMAIN answers \subseteq DOMAIN answers'
    BY AnswersGrow
  <2> QED
    BY <1>1, <2>1 DEF IndInv, Links, RelayTyped, relayVars
<1> QED
  BY <1>1, RelayStep DEF Next, vars, CreateOrder, OrderWorker, OrderWorkerFault,
     ResultConsumer, ResultConsumerFault, StockConsumer, StockConsumerFault, StockWorker,
     StockWorkerFault

\* Every link survives every step: topics and outbox only grow, and a result is
\* published from a row.
LEMMA LinksNext == IndInv /\ [Next]_vars => Links'
<1> SUFFICES ASSUME IndInv, [Next]_vars PROVE Links'
  OBVIOUS
<1>1. [OSP!OpenNext]_(OSP!vars) /\ OSP!TypeOK
  BY OrderSide DEF IndInv, OSP!IndInv
<1>2. OSP!Published("order.created") \subseteq OSP!Published("order.created")'
  BY <1>1, Assumed, LogTyped, OSP!LogGrows
<1>3. AnswersKnown'
  BY <1>2, AnswersGrow DEF IndInv, Links, AnswersKnown
<1>4. \A o, t : AnsweredBy(o, t) => AnsweredBy(o, t)'
  BY AnswersGrow DEF AnsweredBy
<1>5. \/ \A t \in Results : log'[t] = log[t]
      \/ \E t \in Results, o \in Orders :
            AnsweredBy(o, t) /\ log' = [log EXCEPT ![t] = Append(@, o)]
  <2>1. ASSUME NEW w \in StockWorkers, Relay!Publish(w) \/ Relay!PublishUnacked(w)
        PROVE  \E t \in Results, o \in Orders :
                  AnsweredBy(o, t) /\ log' = [log EXCEPT ![t] = Append(@, o)]
    <3>1. PICK t \in Results, o \in OSP!Published("order.created") :
             AnsweredBy(o, t) /\ log' = [log EXCEPT ![t] = Append(@, o)]
      BY <2>1, RelayPublishes
    <3>2. o \in Orders
      BY LogTyped, ElementOfSeq, LenProperties DEF OSP!Published
    <3> QED
      BY <3>1, <3>2
  <2>2. ASSUME NEW w \in Workers, OSP!Publish(w) \/ OSP!PublishUnacked(w)
        PROVE  \A t \in Results : log'[t] = log[t]
    BY <2>2, OrdersPublish, LogTyped
  <2>3. ASSUME NEW w \in StockWorkers, StockWorker(w) \/ StockWorkerFault(w)
        PROVE  Relay!Publish(w) \/ Relay!PublishUnacked(w) \/ UNCHANGED log
    BY <2>3 DEF StockWorker, StockWorkerFault, Relay!WorkerStep, Relay!WorkerFault,
       Relay!fetchPendingTx, Relay!CommitBatch, Relay!Rollback
  <2>4. ASSUME NEW w \in Workers, OrderWorker(w) \/ OrderWorkerFault(w)
        PROVE  OSP!Publish(w) \/ OSP!PublishUnacked(w) \/ UNCHANGED log
    BY <2>4, SameWorker DEF OrderWorker, OrderWorkerFault, OSP!WorkerStep,
       OSP!fetchPendingTx, OSP!CommitBatch, OSP!Rollback
  <2>5. ASSUME NEW i \in Instances, NEW t \in OS!ResultTopics,
               ResultConsumer(i, t) \/ ResultConsumerFault(i)
        PROVE  UNCHANGED log
    BY <2>5 DEF ResultConsumer, ResultConsumerFault, OS!HandlerStep, OS!FetchMessage,
       OS!GetAndTransition, OS!UpdateStatusWithEvent, OS!OptimisticLockConflict,
       OS!CommitMessages, OS!HandlerFault, OS!HandlerError, OS!UpdateReplyLost,
       OS!CommitError, OS!Rebalance, OS!Restart
  <2>6. ASSUME NEW o \in Orders, CreateOrder(o) PROVE UNCHANGED log
    BY <2>6 DEF CreateOrder, OS!CreateOrder
  <2>7. ASSUME NEW i \in Consumers, StockConsumer(i) \/ StockConsumerFault(i)
        PROVE  UNCHANGED log
    BY <2>7 DEF StockConsumer, StockConsumerFault
  <2>8. "stock.reserved" \in OS!ResultTopics /\ (UNCHANGED vars => UNCHANGED log)
    BY DEF OS!ResultTopics, vars
  <2> QED
    BY <2>1, <2>2, <2>3, <2>4, <2>5, <2>6, <2>7, <2>8 DEF Next
<1>6. ResultIsAnswer'
  <2>1. SUFFICES ASSUME NEW t \in Results, NEW o \in Orders, o \in OSP!Published(t)'
                 PROVE  AnsweredBy(o, t)
    BY <1>4 DEF ResultIsAnswer
  <2>2. CASE \A u \in Results : log'[u] = log[u]
    BY <2>1, <2>2 DEF OSP!Published, IndInv, Links, ResultIsAnswer
  <2>3. ASSUME NEW u \in Results, NEW q \in Orders, AnsweredBy(q, u),
               log' = [log EXCEPT ![u] = Append(@, q)]
        PROVE  AnsweredBy(o, t)
    <3>1. o \in OSP!Published(t) \/ (t = u /\ o = q)
      BY <2>1, <2>3, Appended, LogTyped
    <3> QED
      BY <2>3, <3>1 DEF IndInv, Links, ResultIsAnswer
  <2> QED
    BY <1>5, <2>2, <2>3
<1> QED
  BY <1>3, <1>6, RelayTypedNext DEF Links

LEMMA NextInv == IndInv /\ [Next]_vars => IndInv'
<1> SUFFICES ASSUME IndInv, [Next]_vars PROVE IndInv'
  OBVIOUS
<1>1. OSP!IndInv'
  BY Assumed, OrderSide, OSP!NextInv DEF IndInv
<1>2. ISP!IndInv'
  BY Assumed, StockSide, ISP!NextInv DEF IndInv, ISP!OpenNext
<1> QED
  BY <1>1, <1>2, LinksNext DEF IndInv

\* Both services are in order and so is what they know of each other.
THEOREM Invariant == Spec => []IndInv
<1> QED
  BY InitInv, NextInv, PTL DEF Spec

-----------------------------------------------------------------------------
(* What the inductive invariant says *)

LEMMA SameTypes == (OSP!TypeOK => OS!TypeOK) /\ (ISP!TypeOK => IS!TypeOK)
<1>1. OSP!TypeOK => OS!TypeOK
  BY DEF OSP!TypeOK, OSP!Statuses, OSP!NoOrder, OSP!OrderEvents, OSP!Topics,
     OSP!ResultTopics, OSP!IsGroup, OSP!HandlerPCs, OSP!FaultKinds,
     OS!TypeOK, OS!Statuses, OS!NoOrder, OS!OrderEvents, OS!Topics,
     OS!ResultTopics, OS!IsGroup, OS!HandlerPCs, OS!FaultKinds
<1>2. ISP!TypeOK => IS!TypeOK
  BY DEF ISP!TypeOK, ISP!Stocked, ISP!StockRow, ISP!AnswerRow, ISP!IsGroup, ISP!HandlerPCs,
     ISP!FaultKinds, IS!TypeOK, IS!Stocked, IS!StockRow, IS!AnswerRow, IS!IsGroup,
     IS!HandlerPCs, IS!FaultKinds
<1> QED
  BY <1>1, <1>2

\* Tables, transactions, offsets and topics of both services keep their shape
\* and name rows and messages that exist, whatever the numbers.
THEOREM TypeCorrect == Spec => []TypeOK
<1>1. IndInv => TypeOK
  BY SameTypes DEF IndInv, OSP!IndInv, ISP!IndInv, Links, RelayTyped, TypeOK
<1> QED
  BY <1>1, Invariant, PTL

LEMMA ReservedIsMarked ==
    IndInv => \A o \in Orders : AnsweredBy(o, "stock.reserved") => o \in processed
<1> SUFFICES ASSUME IndInv, NEW o \in Orders,
                    NEW k \in DOMAIN answers,
                    answers[k].order = o, answers[k].type = "stock.reserved"
             PROVE  o \in processed
  BY DEF AnsweredBy
<1>1. answers[k] \in ISP!AnswerRow
  BY ElementOfSeq, LenProperties DEF IndInv, ISP!IndInv, ISP!TypeOK
<1>2. answers[k] = [order |-> o, type |-> "stock.reserved"]
  BY <1>1 DEF ISP!AnswerRow
<1>3. k \in ISP!Answers(o, "stock.reserved")
  BY <1>2 DEF ISP!Answers
<1> QED
  BY <1>3 DEF IndInv, ISP!IndInv, ISP!Safe, ISP!Announced

\* A verdict goes back to an answer that was written.
LEMMA VerdictIsAnswer ==
    IndInv => \A o \in Orders :
                 /\ status[o] = "CONFIRMED" => AnsweredBy(o, "stock.reserved")
                 /\ status[o] = "CANCELLED" => AnsweredBy(o, "stock.failed")
<1>1. /\ OSP!Verdict("stock.reserved") = "CONFIRMED"
      /\ OSP!Verdict("stock.failed") = "CANCELLED"
      /\ "stock.reserved" \in OSP!ResultTopics /\ "stock.failed" \in OSP!ResultTopics
      /\ OSP!ResultTopics = Results
  BY DEF OSP!Verdict, OSP!ResultTopics, Results
<1> QED
  BY <1>1 DEF IndInv, OSP!IndInv, OSP!VerdictFromInventory, Links, ResultIsAnswer

\* No customer is told CONFIRMED for an order whose units nobody reserved: the
\* status is a verdict, the verdict was a message, the message was an answer,
\* and the answer was written with the mark (stock_repo.go:23-129), over lost
\* acknowledgements, duplicates, rebalances and deaths on either side.
THEOREM ConfirmedIsReserved ==
    Spec => [](\A o \in Orders : status[o] = "CONFIRMED" => o \in processed)
<1>1. IndInv => \A o \in Orders : status[o] = "CONFIRMED" => o \in processed
  BY ReservedIsMarked, VerdictIsAnswer
<1> QED
  BY <1>1, Invariant, PTL

LEMMA NoConflictNoHold == IndInv /\ NeverBothAnswers => VerdictMatchesStock
<1> SUFFICES ASSUME IndInv, NeverBothAnswers PROVE VerdictMatchesStock
  OBVIOUS
<1>1. ASSUME NEW o \in Orders, status[o] = "CANCELLED", o \in processed
      PROVE  FALSE
  <2>1. PICK k \in DOMAIN answers : answers[k].order = o /\ answers[k].type = "stock.failed"
    BY <1>1, VerdictIsAnswer DEF AnsweredBy
  <2>2. answers[k] \in ISP!AnswerRow
    BY <2>1, ElementOfSeq, LenProperties DEF IndInv, ISP!IndInv, ISP!TypeOK
  <2>3. answers[k] = [order |-> o, type |-> "stock.failed"]
    BY <2>1, <2>2 DEF ISP!AnswerRow
  <2> QED
    BY <1>1, <2>1, <2>3 DEF NeverBothAnswers, IS!NeverBothAnswers, IS!Answers
<1> QED
  BY <1>1, ReservedIsMarked, VerdictIsAnswer DEF VerdictMatchesStock

\* As long as no order has both answers, the status of every order agrees with
\* the reservations in both directions: a CANCELLED order holds no units, since
\* its verdict goes back to a RecordFailure (stock_repo.go:131-148).
THEOREM VerdictsMatch == Spec => [](NeverBothAnswers => VerdictMatchesStock)
<1>1. IndInv => (NeverBothAnswers => VerdictMatchesStock)
  BY NoConflictNoHold
<1> QED
  BY <1>1, Invariant, PTL

-----------------------------------------------------------------------------
(* The inventory's own theorems in the marketplace *)

LEMMA LedgersInit == Init => ISP!Ledger /\ ISP!Refusals /\ ISP!Progress
BY Assumed, SameInit, ISP!LedgerInit, ISP!RefusalsInit, ISP!ProgressInit DEF Init

LEMMA LedgerNext == IndInv /\ ISP!Ledger /\ [Next]_vars => ISP!Ledger'
BY Assumed, StockSide, ISP!LedgerNext DEF IndInv, ISP!OpenNext

\* The units the marketplace has set aside are those of the orders that were
\* reserved, each counted once and in full, and what is left for sale was
\* promised to no order.
THEOREM UnitsAddUp ==
    Spec => []( /\ ISP!ReservedIsDemanded
                /\ ISP!UnitsPromisedOnce )
<1>1. IndInv /\ ISP!Ledger => ISP!ReservedIsDemanded /\ ISP!UnitsPromisedOnce
  BY Assumed, ISP!PromisesKept DEF IndInv, ISP!Ledger
<1> QED
  BY <1>1, LedgersInit, LedgerNext, InitInv, NextInv, PTL DEF Spec

LEMMA RefusalsNext ==
    IndInv /\ ISP!Ledger /\ ISP!Refusals /\ ISP!NoTwins /\ [Next]_vars => ISP!Refusals'
BY Assumed, StockSide, ISP!RefusalsNext DEF IndInv

LEMMA RefusedIsUnmarked == IndInv /\ ISP!Refusals => NeverBothAnswers
BY DEF IndInv, ISP!IndInv, ISP!TypeOK, ISP!Refusals, ISP!Answers, NeverBothAnswers,
   IS!NeverBothAnswers, IS!Answers

\* Unless two consumers are at work on one order, no order is reserved and
\* refused, whichever messages the order service publishes twice ...
THEOREM NeverBoth == Spec /\ []ISP!NoTwins => []NeverBothAnswers
<1> QED
  BY RefusedIsUnmarked, LedgersInit, LedgerNext, RefusalsNext, InitInv, NextInv, PTL DEF Spec

\* ... and the customer's status agrees with the stock in both directions.
THEOREM VerdictsAgree == Spec /\ []ISP!NoTwins => []VerdictMatchesStock
<1> QED
  BY NeverBoth, VerdictsMatch, PTL

OneConsumer == \A i, j \in Consumers : i = j

\* One inventory process never works on an order twice at a time, so that with
\* a single replica the two hold without a condition.
THEOREM OneConsumerAgrees ==
    ASSUME OneConsumer
    PROVE  Spec => [](NeverBothAnswers /\ VerdictMatchesStock)
<1>1. ISP!NoTwins
  BY DEF OneConsumer, ISP!NoTwins
<1> QED
  BY <1>1, NeverBoth, VerdictsAgree, PTL

\* The errors that end a consumer with its message unanswered.
GivesUp(i) == IS!HandlerError(i) \/ IS!DeadlockVictim(i) \/ IS!LineInvalid(i)
NoneGivesUp == \A i \in Consumers : ~GivesUp(i)

LEMMA ProgressNext ==
    IndInv /\ ISP!Progress /\ [Next]_vars /\ [NoneGivesUp]_vars => ISP!Progress'
<1> SUFFICES ASSUME IndInv, ISP!Progress, [Next]_vars, [NoneGivesUp]_vars
             PROVE  ISP!Progress'
  OBVIOUS
<1>1. [ISP!NoneGivesUp]_(ISP!vars)
  <2>1. UNCHANGED vars => UNCHANGED ISP!vars
    BY DEF vars, stockVars, ISP!vars
  <2>2. NoneGivesUp => ISP!NoneGivesUp
    BY SameConsumer DEF NoneGivesUp, GivesUp, ISP!NoneGivesUp, ISP!GivesUp
  <2> QED
    BY <2>1, <2>2
<1> QED
  BY <1>1, Assumed, StockSide, ISP!ProgressNext DEF IndInv, ISP!OpenNext

\* The inventory's committed offset never passes an order without an answer,
\* over everything that the two services and their workers do meanwhile, as
\* long as no call of a handler fails (order_created_consumer.go:75-88).
THEOREM CommitsAreAnswered == Spec /\ [][NoneGivesUp]_vars => []CommittedIsAnswered
<1>1. ISP!Progress => CommittedIsAnswered
  BY DEF ISP!Progress, ISP!CommittedSettled, ISP!Settled, ISP!Answered, ISP!Answers,
     CommittedIsAnswered, IS!CommittedIsAnswered, IS!Answered, IS!Answers
<1> QED
  BY <1>1, LedgersInit, ProgressNext, InitInv, NextInv, PTL DEF Spec

-----------------------------------------------------------------------------
(* Each service is the environment of the other *)

\* What each service's theorems leave to its environment, for topics of any
\* length, is what the other does: the inventory answers published orders only,
\* whichever copy of a message it handles, and the order service announces
\* nothing but orders, however often its worker starts a batch again.
THEOREM EnvironmentsMeet ==
    Spec => /\ OSP!Init /\ [][OSP!OpenNext]_(OSP!vars)
            /\ ISP!Init /\ [][ISP!ServiceNext]_(ISP!vars)
<1>1. Init => OSP!Init /\ ISP!Init
  BY SameInit DEF Init
<1> QED
  BY <1>1, OrderSide, StockSide, InitInv, NextInv, PTL DEF Spec

\* No topic is longer than the bound that the services' modules put on it.
WithinBounds ==
    /\ Len(log["order.created"]) <= MaxMessages
    /\ \A t \in Results : Len(log[t]) <= MaxResults

LEMMA OrderStep == IndInv /\ [Next]_vars /\ WithinBounds' => [OS!Next]_(OS!vars)
<1> SUFFICES ASSUME IndInv, [Next]_vars, WithinBounds' PROVE [OS!Next]_(OS!vars)
  OBVIOUS
<1>1. OS!vars = OSP!vars /\ (UNCHANGED OSP!vars => UNCHANGED OS!vars)
  BY DEF OS!vars, OSP!vars
<1>2. OS!ResultTopics = OSP!ResultTopics /\ OSP!ResultTopics = Results
  BY DEF OS!ResultTopics, OSP!ResultTopics, Results
<1>3. ASSUME NEW o \in Orders, NEW t \in Results, OSP!AnyResult(o, t)
      PROVE  OS!StockResult(o, t)
  <2>1. log[t] \in Seq(Orders) /\ log'[t] = Append(log[t], o)
    BY <1>3, LogTyped DEF OSP!AnyResult
  <2>2. Len(log'[t]) = Len(log[t]) + 1 /\ Len(log[t]) \in Nat
    BY <2>1, AppendProperties, LenProperties
  <2>3. Len(log'[t]) <= MaxResults /\ MaxResults \in Nat
    BY Assumed DEF WithinBounds
  <2>4. Len(log[t]) < MaxResults
    BY <2>2, <2>3
  <2> QED
    BY <1>3, <2>4 DEF OSP!AnyResult, OSP!Published, OSP!db, OSP!workerTx,
       OS!StockResult, OS!Published, OS!db, OS!workerTx
<1>4. CASE OSP!OpenNext
  BY <1>2, <1>3, <1>4, SameCreate, SameWorker, SameHandler DEF OSP!OpenNext, OS!Next
<1> QED
  BY <1>1, <1>4, OrderSide

LEMMA StockStep == IndInv /\ [Next]_vars /\ WithinBounds' => [IS!Next]_(IS!vars)
<1> SUFFICES ASSUME IndInv, [Next]_vars, WithinBounds' PROVE [IS!Next]_(IS!vars)
  OBVIOUS
<1>1. UNCHANGED ISP!vars => UNCHANGED IS!vars
  BY DEF IS!vars, ISP!vars
<1>2. ASSUME NEW o \in Orders, ISP!Announce(o) PROVE IS!OrderPublished(o)
  <2>1. /\ log["order.created"] \in Seq(Orders)
        /\ log'["order.created"] = Append(log["order.created"], o)
    BY <1>2, LogTyped DEF ISP!Announce
  <2>2. /\ Len(log'["order.created"]) = Len(log["order.created"]) + 1
        /\ Len(log["order.created"]) \in Nat
    BY <2>1, AppendProperties, LenProperties
  <2>3. Len(log'["order.created"]) <= MaxMessages /\ MaxMessages \in Nat
    BY Assumed DEF WithinBounds
  <2>4. Len(log["order.created"]) < MaxMessages
    BY <2>2, <2>3
  <2> QED
    BY <1>2, <2>4 DEF ISP!Announce, ISP!tables, ISP!tx, IS!OrderPublished, IS!tables, IS!tx
<1>3. CASE ISP!ServiceNext
  BY <1>2, <1>3, SameConsumer DEF ISP!ServiceNext, IS!Next
<1> QED
  BY <1>1, <1>3, StockSide

\* With it the modules of the two services, as they are checked, are what the
\* marketplace does of each, for as long as the topics stay within their bounds.
THEOREM EachServesTheOther == Spec /\ []WithinBounds => ServicesFit
<1>1. Init => OS!Init /\ IS!Init
  BY DEF Init
<1> QED
  BY <1>1, OrderStep, StockStep, InitInv, NextInv, PTL
     DEF Spec, ServicesFit, OS!Spec, IS!Spec

=============================================================================
