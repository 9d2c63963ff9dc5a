-------------------------- MODULE InventoryOutbox ---------------------------
(***************************************************************************)
(* The outbox workers of the inventory service: they publish the answers   *)
(* that InventoryService writes to its outbox.  A row is named by its      *)
(* position; `answers' has the rows in created_at order.                   *)
(***************************************************************************)
EXTENDS Naturals, Sequences, FiniteSets

CONSTANTS
    Workers,    \* outbox-worker processes
    BatchSize,  \* rows one worker takes per tick
    MaxFaults   \* bound: MaxFaults[k] faults of kind k

\* "rollback" - a transaction ends without commit; "ack" - the broker stored
\* a message and the writer did not learn it.
FaultKinds == {"rollback", "ack"}

VARIABLES
    answers,  \* outbox rows: [order, type]
    sent,     \* the rows with status SENT
    batch,    \* batch[w]: rows locked by the open transaction of worker w
    marked,   \* marked[w]: rows of the batch published and marked so far
    log,      \* log[t]: the messages of topic t, as order ids
    faults    \* faults that happened, per kind

vars == <<answers, sent, batch, marked, log, faults>>

Fault(kind) ==
    /\ faults[kind] < MaxFaults[kind]
    /\ faults' = [faults EXCEPT ![kind] = @ + 1]

Init ==
    /\ sent   = {}
    /\ batch  = [w \in Workers |-> {}]
    /\ marked = [w \in Workers |-> {}]
    /\ faults = [k \in FaultKinds |-> 0]

-----------------------------------------------------------------------------
\* SELECT ... ORDER BY created_at LIMIT n FOR UPDATE SKIP LOCKED.
Fetchable ==
    LET free == (DOMAIN answers \ sent) \ UNION {batch[w] : w \in Workers}
    IN  {r \in free : Cardinality({q \in free : q < r}) < BatchSize}

fetchPendingTx(w) ==
    /\ batch[w] = {}
    /\ Fetchable # {}
    /\ batch' = [batch EXCEPT ![w] = Fetchable]
    /\ UNCHANGED <<answers, sent, marked, log, faults>>

NextRecord(w, r) ==
    /\ r \in batch[w] \ marked[w]
    /\ \A q \in batch[w] \ marked[w] : r <= q

\* Mutant: the topic of the worker this one was copied from.
AppendToOrderCreated(r) ==
    log' = [log EXCEPT !["order.created"] = Append(@, answers[r].order)]

\* Mutant: the two result topics are swapped.
AppendToOther(r) ==
    LET other == IF answers[r].type = "stock.failed" THEN "stock.reserved"
                                                     ELSE "stock.failed"
    IN  log' = [log EXCEPT ![other] = Append(@, answers[r].order)]

AppendToTopic(r) ==
    log' = [log EXCEPT ![answers[r].type] = Append(@, answers[r].order)]

\* Mutant: the row is marked before it is published, and the publish fails.
PublishErrorIgnored(w) ==
    \E r \in batch[w] :
        /\ NextRecord(w, r)
        /\ AppendToTopic(r) \/ UNCHANGED log
        /\ marked' = [marked EXCEPT ![w] = @ \cup {r}]
        /\ UNCHANGED <<answers, sent, batch, faults>>

\* Publish is acknowledged, markSentTx follows.
Publish(w) ==
    \E r \in batch[w] :
        /\ NextRecord(w, r)
        /\ AppendToTopic(r)
        /\ marked' = [marked EXCEPT ![w] = @ \cup {r}]
        /\ UNCHANGED <<answers, sent, batch, faults>>

\* Stored, but not acknowledged: the writer tries again, or gives up and the
\* batch is rolled back.
PublishUnacked(w) ==
    \E r \in batch[w] :
        /\ NextRecord(w, r)
        /\ AppendToTopic(r)
        /\ Fault("ack")
        /\ UNCHANGED <<answers, sent, batch, marked>>

\* Any error of processBatch, or the death of the worker.
Rollback(w) ==
    /\ batch[w] # {}
    /\ Fault("rollback")
    /\ batch'  = [batch EXCEPT ![w] = {}]
    /\ marked' = [marked EXCEPT ![w] = {}]
    /\ UNCHANGED <<answers, sent, log>>

\* Mutant: the list of marked rows outlives its transaction.
CommitKeepsMarked(w) ==
    /\ batch[w] # {}
    /\ marked[w] = batch[w]
    /\ sent'  = sent \cup marked[w]
    /\ batch' = [batch EXCEPT ![w] = {}]
    /\ UNCHANGED <<answers, marked, log, faults>>

CommitBatch(w) ==
    /\ batch[w] # {}
    /\ marked[w] = batch[w]
    /\ sent'   = sent \cup marked[w]
    /\ batch'  = [batch EXCEPT ![w] = {}]
    /\ marked' = [marked EXCEPT ![w] = {}]
    /\ UNCHANGED <<answers, log, faults>>

WorkerStep(w)  == fetchPendingTx(w) \/ Publish(w) \/ CommitBatch(w)
WorkerFault(w) == PublishUnacked(w) \/ Rollback(w)

=============================================================================
