---------------------------- MODULE OrderService ----------------------------
(***************************************************************************)
(* The order service: its two tables (orders, outbox), the outbox workers  *)
(* that publish pending rows to Kafka, and the two consumers that turn the *)
(* inventory's answers into the final status of an order.                  *)
(*                                                                         *)
(* Inventory is the environment: it may answer an order whose              *)
(* order.created is in the log, with either result and more than once.     *)
(*                                                                         *)
(* A definition introduced by "Mutant" is no part of Next: it is the       *)
(* definition below it with a mistake in it, and README.md names the       *)
(* property that tells the two apart.                                      *)
(***************************************************************************)
EXTENDS Naturals, Sequences, FiniteSets, ConsumerGroup

CONSTANTS
    Orders,      \* order ids; each is drawn once (uuid)
    Items,       \* Items[o]: the order lines of the request that creates o
    Workers,     \* outbox-worker processes
    BatchSize,   \* rows one worker takes per tick
    Instances,   \* order-service processes, members of the consumer group
    MaxResults,  \* bound: answers per result topic
    MaxFaults    \* bound: MaxFaults[k] faults of kind k

OrderEvents  == {"order.created", "order.confirmed", "order.cancelled"}
ResultTopics == {"stock.reserved", "stock.failed"}
Topics       == OrderEvents \cup ResultTopics

Statuses == {"CREATED", "AWAITING_STOCK", "CONFIRMED", "CANCELLED", "COMPLETED"}
NoOrder  == "NONE"          \* the orders table has no such row

(***************************************************************************)
(* Kinds of faults: "rollback" - a worker's transaction ends without       *)
(* commit; "ack" - the broker stored a message and the writer did not      *)
(* learn it; "error" - a database call of a handler fails; "commit" - an   *)
(* offset commit fails; "rebalance" - the group starts a new generation.   *)
(***************************************************************************)
FaultKinds == {"rollback", "ack", "error", "commit", "rebalance"}

ASSUME OrderServiceAssumption ==
    /\ DOMAIN Items = Orders
    /\ BatchSize \in Nat \ {0}
    /\ Instances # {}
    /\ MaxResults \in Nat
    /\ MaxFaults \in [FaultKinds -> Nat]

VARIABLES
    status,   \* orders.status, or NoOrder
    version,  \* orders.version, 0 before the row exists
    outbox,   \* rows in created_at order: [order, type, sent]
    batch,    \* batch[w]: rows locked by the open transaction of worker w
    marked,   \* marked[w]: rows of the batch published and marked so far
    log,      \* log[t]: the messages of topic t, as order ids
    group,    \* group[t]: the service's consumer group on result topic t
    handler,  \* handler[i][t]: the goroutine of instance i that reads t
    faults    \* faults that happened, per kind

db       == <<status, version, outbox>>
workerTx == <<batch, marked>>
vars     == <<status, version, outbox, batch, marked, log, group, handler, faults>>

-----------------------------------------------------------------------------
(* The finite state machine and the events *)

allowedTransactions ==
    [CREATED        |-> {"AWAITING_STOCK"},
     AWAITING_STOCK |-> {"CONFIRMED", "CANCELLED"},
     CONFIRMED      |-> {"COMPLETED"},
     CANCELLED      |-> {},
     COMPLETED      |-> {}]

\* Mutant: a result may also overtake the worker's commit.
TransitionToEarly(from, to) ==
    to \in {"CONFIRMED", "CANCELLED"} /\ from \in {"CREATED", "AWAITING_STOCK"}

TransitionTo(from, to) ==
    from \in Statuses /\ to \in allowedTransactions[from]

Final == {"CONFIRMED", "CANCELLED"}

\* The status a result asks for, and the event that announces a status.
Verdict(t) == IF t = "stock.reserved" THEN "CONFIRMED" ELSE "CANCELLED"

\* Mutant: the case for CANCELLED is missing.
buildStatusEventConfirmedOnly(s) == IF s = "CONFIRMED" THEN "order.confirmed" ELSE ""

buildStatusEvent(s) ==
    IF s = "CONFIRMED" THEN "order.confirmed" ELSE "order.cancelled"

PendingRow(o, type) == [order |-> o, type |-> type, sent |-> FALSE]

maxRetries == 3

Published(topic) == {log[topic][k] : k \in DOMAIN log[topic]}

Fault(kind) ==
    /\ faults[kind] < MaxFaults[kind]
    /\ faults' = [faults EXCEPT ![kind] = @ + 1]

-----------------------------------------------------------------------------
(* Handler goroutines *)

Idle == [pc |-> "idle", offset |-> 0, version |-> 0, attempt |-> 0]

SetHandler(i, t, h) == handler' = [handler EXCEPT ![i][t] = h]

\* The order named by the message that the goroutine is handling.
Subject(i, t) == log[t][handler[i][t].offset]

-----------------------------------------------------------------------------
Init ==
    /\ status  = [o \in Orders |-> NoOrder]
    /\ version = [o \in Orders |-> 0]
    /\ outbox  = <<>>
    /\ batch   = [w \in Workers |-> {}]
    /\ marked  = [w \in Workers |-> {}]
    /\ log     = [t \in Topics |-> <<>>]
    /\ group   \in [ResultTopics -> {NewGroup(i) : i \in Instances}]
    /\ handler = [i \in Instances |-> [t \in ResultTopics |-> Idle]]
    /\ faults  = [k \in FaultKinds |-> 0]

-----------------------------------------------------------------------------
(* The CreateOrder request *)

\* NewOrder rejects an empty order; the order, its items and the
\* order.created row are one transaction, so a failed request changes nothing.
CreateOrder(o) ==
    /\ status[o] = NoOrder
    /\ Items[o] # <<>>
    /\ status'  = [status EXCEPT ![o] = "CREATED"]
    /\ version' = [version EXCEPT ![o] = 1]
    /\ outbox'  = Append(outbox, PendingRow(o, "order.created"))
    /\ UNCHANGED <<workerTx, log, group, handler, faults>>

-----------------------------------------------------------------------------
(* The outbox worker: one transaction per tick *)

\* Mutant: no transaction around fetch and publish, so no row is locked.
NothingLocked == {}

Locked  == UNION {batch[w] : w \in Workers}
Pending == {r \in DOMAIN outbox : ~outbox[r].sent}

Oldest(n, rows) == {r \in rows : Cardinality({q \in rows : q < r}) < n}

\* SELECT ... ORDER BY created_at LIMIT n FOR UPDATE SKIP LOCKED.
Fetchable == Oldest(BatchSize, Pending \ Locked)

\* Mutant: the worker waits for a full batch.
fetchFullBatch(w) ==
    /\ batch[w] = {}
    /\ Cardinality(Fetchable) = BatchSize
    /\ batch' = [batch EXCEPT ![w] = Fetchable]
    /\ UNCHANGED <<db, marked, log, group, handler, faults>>

fetchPendingTx(w) ==
    /\ batch[w] = {}
    /\ Fetchable # {}
    /\ batch' = [batch EXCEPT ![w] = Fetchable]
    /\ UNCHANGED <<db, marked, log, group, handler, faults>>

NextRecord(w, r) ==
    /\ r \in batch[w] \ marked[w]
    /\ \A q \in batch[w] \ marked[w] : r <= q

AppendToTopic(r) == log' = [log EXCEPT ![outbox[r].type] = Append(@, outbox[r].order)]

\* Mutant: a failed publish is logged and the record is marked all the same.
PublishErrorIgnored(w) ==
    \E r \in batch[w] :
        /\ NextRecord(w, r)
        /\ AppendToTopic(r) \/ UNCHANGED log
        /\ marked' = [marked EXCEPT ![w] = @ \cup {r}]
        /\ UNCHANGED <<db, batch, group, handler, faults>>

\* The publish of one record is acknowledged and markSentTx follows, not
\* yet visible outside the transaction.
Publish(w) ==
    \E r \in batch[w] :
        /\ NextRecord(w, r)
        /\ AppendToTopic(r)
        /\ marked' = [marked EXCEPT ![w] = @ \cup {r}]
        /\ UNCHANGED <<db, batch, group, handler, faults>>

\* The broker stored the message, the acknowledgement is lost: the writer
\* tries the same record again, or gives up and the batch is rolled back.
PublishUnacked(w) ==
    \E r \in batch[w] :
        /\ NextRecord(w, r)
        /\ AppendToTopic(r)
        /\ Fault("ack")
        /\ UNCHANGED <<db, workerTx, group, handler>>

\* Any error of processBatch, or the death of the worker: nothing that was
\* marked becomes visible, everything that was published stays published.
Rollback(w) ==
    /\ batch[w] # {}
    /\ Fault("rollback")
    /\ batch'  = [batch EXCEPT ![w] = {}]
    /\ marked' = [marked EXCEPT ![w] = {}]
    /\ UNCHANGED <<db, log, group, handler>>

\* transitionToAwaitingStockTx ran in the same transaction for every
\* order.created of the batch, on orders still in CREATED.
transitionToAwaitingStockTx(w) ==
    {o \in Orders : /\ status[o] = "CREATED"
                    /\ \E r \in batch[w] : outbox[r].order = o
                                        /\ outbox[r].type = "order.created"}

CommitBatch(w) ==
    /\ batch[w] # {}
    /\ marked[w] = batch[w]
    /\ outbox' = [r \in DOMAIN outbox |->
                    [outbox[r] EXCEPT !.sent = @ \/ r \in marked[w]]]
    /\ status' = [o \in Orders |-> IF o \in transitionToAwaitingStockTx(w)
                                     THEN "AWAITING_STOCK" ELSE status[o]]
    /\ version' = [o \in Orders |-> IF o \in transitionToAwaitingStockTx(w)
                                     THEN version[o] + 1 ELSE version[o]]
    /\ batch'  = [batch EXCEPT ![w] = {}]
    /\ marked' = [marked EXCEPT ![w] = {}]
    /\ UNCHANGED <<log, group, handler, faults>>

-----------------------------------------------------------------------------
(* The environment: an answer of the inventory service *)

StockResult(o, t) ==
    /\ o \in Published("order.created")
    /\ Len(log[t]) < MaxResults
    /\ log' = [log EXCEPT ![t] = Append(@, o)]
    /\ UNCHANGED <<db, workerTx, group, handler, faults>>

-----------------------------------------------------------------------------
(* The stock result consumers: runReserved and runFailed *)

\* Mutant: ReadMessage, which commits the offset on delivery.
ReadMessage(i, t) ==
    /\ group[t].owner = i
    /\ handler[i][t].pc = "idle"
    /\ HasNext(group[t], log[t])
    /\ group' = [group EXCEPT ![t] = CommitOffset(Deliver(@), @.position + 1)]
    /\ SetHandler(i, t, [Idle EXCEPT !.pc = "get", !.offset = group[t].position + 1])
    /\ UNCHANGED <<db, workerTx, log, faults>>

FetchMessage(i, t) ==
    /\ group[t].owner = i
    /\ handler[i][t].pc = "idle"
    /\ HasNext(group[t], log[t])
    /\ group' = [group EXCEPT ![t] = Deliver(@)]
    /\ SetHandler(i, t, [Idle EXCEPT !.pc = "get", !.offset = group[t].position + 1])
    /\ UNCHANGED <<db, workerTx, log, faults>>

\* GetByID and TransitionTo.  ErrInvalidTransition is logged as a likely
\* duplicate and swallowed: the offset will be committed.
GetAndTransition(i, t) ==
    /\ handler[i][t].pc = "get"
    /\ LET o == Subject(i, t) IN
       IF TransitionTo(status[o], Verdict(t))
         THEN SetHandler(i, t, [handler[i][t] EXCEPT !.pc = "update",
                                                     !.version = version[o]])
         ELSE SetHandler(i, t, [handler[i][t] EXCEPT !.pc = "commit"])
    /\ UNCHANGED <<db, workerTx, log, group, faults>>

\* Mutant: handleFailed asks for CONFIRMED, as handleReserved does.
ApplyConfirmed(o, t) ==
    /\ status'  = [status EXCEPT ![o] = "CONFIRMED"]
    /\ version' = [version EXCEPT ![o] = @ + 1]
    /\ outbox'  = Append(outbox, PendingRow(o, "order.confirmed"))

\* UPDATE ... WHERE version = the version read, then the event, atomically.
ApplyVerdict(o, t) ==
    /\ status'  = [status EXCEPT ![o] = Verdict(t)]
    /\ version' = [version EXCEPT ![o] = @ + 1]
    /\ outbox'  = Append(outbox, PendingRow(o, buildStatusEvent(Verdict(t))))

\* Mutant: UPDATE without "AND version = $4".
VersionIgnored(i, t) == TRUE

VersionMatches(i, t) == handler[i][t].version = version[Subject(i, t)]

UpdateStatusWithEvent(i, t) ==
    /\ handler[i][t].pc = "update"
    /\ VersionMatches(i, t)
    /\ ApplyVerdict(Subject(i, t), t)
    /\ SetHandler(i, t, [handler[i][t] EXCEPT !.pc = "commit"])
    /\ UNCHANGED <<workerTx, log, group, faults>>

\* Mutant: GetByID was moved out of the retry loop.
ConflictWithoutReread(i, t) ==
    /\ handler[i][t].pc = "update"
    /\ ~VersionMatches(i, t)
    /\ handler[i][t].attempt + 1 < maxRetries
    /\ SetHandler(i, t, [handler[i][t] EXCEPT !.attempt = @ + 1])
    /\ UNCHANGED <<db, workerTx, log, group, faults>>

\* ErrOptimisticLock: the next attempt reads the order again.  After the
\* last one the error goes up and the message is left uncommitted.
OptimisticLockConflict(i, t) ==
    /\ handler[i][t].pc = "update"
    /\ ~VersionMatches(i, t)
    /\ IF handler[i][t].attempt + 1 < maxRetries
         THEN SetHandler(i, t, [handler[i][t] EXCEPT !.pc = "get",
                                                     !.attempt = @ + 1])
         ELSE SetHandler(i, t, Idle)
    /\ UNCHANGED <<db, workerTx, log, group, faults>>

\* Any other error of a database call: the loop continues with the next
\* message and this one is neither retried nor committed.
HandlerError(i, t) ==
    /\ handler[i][t].pc \in {"get", "update"}
    /\ Fault("error")
    /\ SetHandler(i, t, Idle)
    /\ UNCHANGED <<db, workerTx, log, group>>

\* Mutant: the event is inserted outside the transaction and its insert fails.
UpdateWithoutEvent(i, t) ==
    /\ handler[i][t].pc = "update"
    /\ VersionMatches(i, t)
    /\ Fault("error")
    /\ status'  = [status EXCEPT ![Subject(i, t)] = Verdict(t)]
    /\ version' = [version EXCEPT ![Subject(i, t)] = @ + 1]
    /\ SetHandler(i, t, Idle)
    /\ UNCHANGED <<outbox, workerTx, log, group>>

\* The transaction committed but the reply was lost, so it is an error too.
UpdateReplyLost(i, t) ==
    /\ handler[i][t].pc = "update"
    /\ VersionMatches(i, t)
    /\ Fault("error")
    /\ ApplyVerdict(Subject(i, t), t)
    /\ SetHandler(i, t, Idle)
    /\ UNCHANGED <<workerTx, log, group>>

CommitMessages(i, t) ==
    /\ handler[i][t].pc = "commit"
    /\ group' = [group EXCEPT ![t] = CommitOffset(@, handler[i][t].offset)]
    /\ SetHandler(i, t, Idle)
    /\ UNCHANGED <<db, workerTx, log, faults>>

\* A failed commit is logged and the loop goes on.
CommitError(i, t) ==
    /\ handler[i][t].pc = "commit"
    /\ Fault("commit")
    /\ SetHandler(i, t, Idle)
    /\ UNCHANGED <<db, workerTx, log, group>>

\* A new generation: the goroutine that is handling a message carries on.
Rebalance(t, i) ==
    /\ Fault("rebalance")
    /\ group' = [group EXCEPT ![t] = Reassign(@, i)]
    /\ UNCHANGED <<db, workerTx, log, handler>>

\* Instance i dies and restarts; its partitions start over at some member.
Restart(i) ==
    /\ Fault("rebalance")
    /\ handler' = [handler EXCEPT ![i] = [t \in ResultTopics |-> Idle]]
    /\ \E j \in Instances :
         group' = [t \in ResultTopics |-> IF group[t].owner = i
                                            THEN Reassign(group[t], j)
                                            ELSE group[t]]
    /\ UNCHANGED <<db, workerTx, log>>

-----------------------------------------------------------------------------
WorkerStep(w) == fetchPendingTx(w) \/ Publish(w) \/ CommitBatch(w)

HandlerStep(i, t) ==
    \/ FetchMessage(i, t)
    \/ GetAndTransition(i, t)
    \/ UpdateStatusWithEvent(i, t)
    \/ OptimisticLockConflict(i, t)
    \/ CommitMessages(i, t)

HandlerFault(i, t) ==
    \/ HandlerError(i, t)
    \/ UpdateReplyLost(i, t)
    \/ CommitError(i, t)
    \/ Rebalance(t, i)

Next ==
    \/ \E o \in Orders : CreateOrder(o)
    \/ \E w \in Workers : WorkerStep(w) \/ PublishUnacked(w) \/ Rollback(w)
    \/ \E o \in Orders, t \in ResultTopics : StockResult(o, t)
    \/ \E i \in Instances, t \in ResultTopics :
            HandlerStep(i, t) \/ HandlerFault(i, t)
    \/ \E i \in Instances : Restart(i)

Spec == Init /\ [][Next]_vars

\* The worker's ticker and the two goroutines run as long as the process
\* does, and faults are finitely many; requests and answers need not come.
Fairness ==
    /\ \A w \in Workers : WF_vars(WorkerStep(w))
    /\ \A i \in Instances, t \in ResultTopics : WF_vars(HandlerStep(i, t))

FairSpec == Spec /\ Fairness

-----------------------------------------------------------------------------
(* Properties *)

HandlerPCs == {"idle", "get", "update", "commit"}

\* The variables keep the shape the code gives them: locked and marked rows
\* exist, a handler names a message that was delivered.
TypeOK ==
    /\ status \in [Orders -> Statuses \cup {NoOrder}]
    /\ version \in [Orders -> Nat]
    /\ outbox \in Seq([order : Orders, type : OrderEvents, sent : BOOLEAN])
    /\ batch \in [Workers -> SUBSET (DOMAIN outbox)]
    /\ marked \in [Workers -> SUBSET (DOMAIN outbox)]
    /\ log \in [Topics -> Seq(Orders)]
    /\ \A t \in ResultTopics : IsGroup(group[t], Instances)
    /\ handler \in [Instances -> [ResultTopics ->
            [pc : HandlerPCs, offset : Nat, version : Nat, attempt : Nat]]]
    /\ \A i \in Instances, t \in ResultTopics :
            handler[i][t].pc # "idle" => handler[i][t].offset \in DOMAIN log[t]
    /\ faults \in [FaultKinds -> Nat]

\* A status only ever changes along allowedTransactions, although two writers
\* (the worker's SQL and UpdateStatusWithEvent) change it from reads that may
\* be stale by the time they write (order.go:18-27).
FollowsFSM ==
    [][\A o \in Orders : status'[o] # status[o] =>
          IF status[o] = NoOrder THEN status'[o] = "CREATED"
                                 ELSE TransitionTo(status[o], status'[o])]_vars

RowsOf(o) == {r \in DOMAIN outbox : outbox[r].order = o}

\* Outbox and orders tell the same story: one order.created row per order,
\* one status row exactly when the order is decided and of that verdict, and
\* the order has left CREATED exactly when its order.created row is SENT.
OutboxMatchesOrders ==
    \A o \in Orders :
        LET rows(type) == {r \in RowsOf(o) : outbox[r].type = type}
            count(type) == Cardinality(rows(type))
        IN  /\ count("order.created")   = IF status[o] = NoOrder THEN 0 ELSE 1
            /\ count("order.confirmed") = IF status[o] = "CONFIRMED" THEN 1 ELSE 0
            /\ count("order.cancelled") = IF status[o] = "CANCELLED" THEN 1 ELSE 0
            /\ \A r \in rows("order.created") :
                  outbox[r].sent <=> status[o] # "CREATED"

\* A row marked SENT was stored by the broker: no commit of the worker loses
\* an event (worker.go:58-63).
SentIsPublished ==
    \A r \in DOMAIN outbox :
        outbox[r].sent => outbox[r].order \in Published(outbox[r].type)

Copies(topic, o) == Cardinality({k \in DOMAIN log[topic] : log[topic][k] = o})

\* An event is published twice only because a batch was rolled back or an
\* acknowledgement was lost, once for each: workers that share the table do
\* not publish each other's rows (worker.go:58-63, FOR UPDATE SKIP LOCKED).
CopiesBoundedByFaults ==
    \A topic \in OrderEvents, o \in Orders :
        Copies(topic, o) <= 1 + faults["rollback"] + faults["ack"]

\* The customer is told CONFIRMED or CANCELLED only if the inventory said so.
VerdictFromInventory ==
    \A o \in Orders, t \in ResultTopics :
        status[o] = Verdict(t) => o \in Published(t)

\* An optimistic lock conflict is retried at most once: the order it lost to
\* is final, so the second attempt ends in ErrInvalidTransition and the
\* "exceeded retries" error is never returned (order_usecase.go:78-117).
RetryNeverExhausted ==
    \A i \in Instances, t \in ResultTopics :
        /\ handler[i][t].attempt <= 1
        /\ handler[i][t].attempt = 1 => handler[i][t].pc # "update"

\* What line 130 of stock_result_consumer.go says of a swallowed
\* ErrInvalidTransition ("likely duplicate"): a result whose offset is about
\* to be committed belongs to an order that is already decided.
DiscardOnlyDuplicates ==
    \A i \in Instances, t \in ResultTopics :
        handler[i][t].pc = "commit" => status[Subject(i, t)] \in Final

\* Every outbox row is eventually published and marked, whatever is rolled
\* back on the way and whichever worker takes it.
MaxRows == 2 * Cardinality(Orders)
EveryEventIsSent ==
    \A r \in 1..MaxRows :
        r \in DOMAIN outbox ~> (r \in DOMAIN outbox /\ outbox[r].sent)

Unread(t) == {log[t][k] : k \in (group[t].position + 1)..Len(log[t])}

\* A result that is still unread when the order is AWAITING_STOCK decides
\* it, over restarts, rebalances, failed offset commits and conflicts: only
\* an error of a handler's own database call drops it
\* (stock_result_consumer.go:60-93).
ResultTakesEffect ==
    \A o \in Orders :
        (status[o] = "AWAITING_STOCK" /\ \E t \in ResultTopics : o \in Unread(t))
            ~> (status[o] \in Final \/ faults["error"] > 0)

\* The service implements the saga: the messages in the log are what has
\* been announced.
Announced == [o \in Orders |-> {e \in OrderEvents : o \in Published(e)}]

Saga == INSTANCE OrderSaga WITH announced <- Announced

ImplementsSaga == Saga!Spec

-----------------------------------------------------------------------------
(* The inductive invariant *)

Rank == [s \in Statuses \cup {NoOrder} |->
            CASE s = NoOrder          -> 0
              [] s = "CREATED"        -> 1
              [] s = "AWAITING_STOCK" -> 2
              [] OTHER                -> 3]

\* The version counts the transitions of an order, so that a version read
\* with AWAITING_STOCK still matches only while the order awaits its stock.
VersionIsRank ==
    \A o \in Orders : status[o] # "COMPLETED" /\ version[o] = Rank[status[o]]

StatusOf(type) ==
    CASE type = "order.created"   -> {"CREATED", "AWAITING_STOCK"} \cup Final
      [] type = "order.confirmed" -> {"CONFIRMED"}
      [] type = "order.cancelled" -> {"CANCELLED"}

HasRow(o, type) ==
    \E r \in DOMAIN outbox : outbox[r].order = o /\ outbox[r].type = type

\* There is a row for an event exactly when the status calls for it ...
RowsFollowStatus ==
    \A o \in Orders, type \in OrderEvents :
        HasRow(o, type) <=> status[o] \in StatusOf(type)

\* ... never two, and order.created is SENT once the order left CREATED.
RowsAreUnique ==
    \A r, q \in DOMAIN outbox :
        outbox[r].order = outbox[q].order /\ outbox[r].type = outbox[q].type => r = q

CreatedSent ==
    \A r \in DOMAIN outbox :
        outbox[r].type = "order.created" =>
            (outbox[r].sent <=> status[outbox[r].order] # "CREATED")

\* Open transactions hold different rows, all of them pending; what they
\* marked was published, as was everything that is SENT.
LocksAreExclusive ==
    /\ \A w \in Workers : /\ marked[w] \subseteq batch[w]
                          /\ \A r \in batch[w] : ~outbox[r].sent
    /\ \A v, w \in Workers : v # w => batch[v] \cap batch[w] = {}

MarkedIsPublished ==
    \A w \in Workers, r \in DOMAIN outbox :
        r \in marked[w] => outbox[r].order \in Published(outbox[r].type)

\* A handler about to update has read AWAITING_STOCK, for the first time; a
\* second attempt finds the order decided.
HandlerKnows ==
    \A i \in Instances, t \in ResultTopics :
        LET h == handler[i][t] IN
        /\ h.attempt <= 1
        /\ h.pc = "idle" => h.attempt = 0
        /\ h.pc = "update" =>
              /\ h.version = Rank["AWAITING_STOCK"]
              /\ h.attempt = 0
              /\ status[Subject(i, t)] \in {"AWAITING_STOCK"} \cup Final
        /\ h.attempt = 1 => status[Subject(i, t)] \in Final

IndInv ==
    /\ TypeOK
    /\ VersionIsRank
    /\ RowsFollowStatus
    /\ RowsAreUnique
    /\ CreatedSent
    /\ LocksAreExclusive
    /\ MarkedIsPublished
    /\ SentIsPublished
    /\ HandlerKnows
    /\ VerdictFromInventory

=============================================================================
